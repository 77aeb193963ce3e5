--------------------------- MODULE ResourceLedger ---------------------------
(***************************************************************************)
(* What the resource allocator promises: the tasks that hold capacity      *)
(* always fit on the host together, a task is admitted at most once and    *)
(* what it gave back stays given back.                                     *)
(***************************************************************************)
CONSTANTS
  Sandboxes,    \* tasks that may ask for capacity
  Schedulable   \* the sets of tasks that fit on the host together

VARIABLES holding, over   \* who holds capacity, who gave it back

Init == holding = {} /\ over = {}

Admit(s) ==
  /\ s \notin holding \cup over
  /\ holding \cup {s} \in Schedulable
  /\ holding' = holding \cup {s}
  /\ UNCHANGED over

GiveBack(S) ==
  /\ S # {} /\ S \subseteq holding
  /\ holding' = holding \ S
  /\ over' = over \cup S

Next ==
  \/ \E s \in Sandboxes : Admit(s)
  \/ \E S \in SUBSET Sandboxes : GiveBack(S)

Spec == Init /\ [][Next]_<<holding, over>>
=============================================================================
