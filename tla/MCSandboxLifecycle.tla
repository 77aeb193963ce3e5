------------------------- MODULE MCSandboxLifecycle -------------------------
(* Small instances of SandboxLifecycle for TLC. *)
EXTENDS SandboxLifecycle
=============================================================================
