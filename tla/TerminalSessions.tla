-------------------------- MODULE TerminalSessions --------------------------
(***************************************************************************)
(* The terminals of one interactive task.  The sandbox's tmux holds the    *)
(* agent's session and the shells users opened; the workflow of the task   *)
(* starts the former, a connection attaches to one of them, and the        *)
(* detector watches the output of all for a prompt nobody answers.         *)
(*                                                                         *)
(* The handler of a connection awaits the row, the probe for the agent's   *)
(* session and the pty; a step ends at each.  What a stream calls back is  *)
(* registered in the step that attaches it.                                *)
(***************************************************************************)
EXTENDS Naturals, Sequences, SequencesExt

CONSTANTS
  Conn,       \* sockets of the namespace /terminal, each used once
  Shell,      \* shellIds
  MaxChunks,  \* bound: chunks a stream reads
  MaxStops    \* bound: stops of the task

ASSUME TerminalConstants == "agent" \notin Shell /\ MaxChunks \in Nat /\ MaxStops \in Nat

VARIABLES
  prov,      \* the workflow that brings the instance up
  prompt,    \* the initial instruction: pending or consumed
  stops,
  tmux,      \* what each session runs
  conn,      \* the handler and the socket: [pc, target, create, connected, told]
  term,      \* stream and batcher: [stream, pend, read, shown]
  attached,  \* attachments, and the sessions of the detector
  obs,       \* what the detector knows of them: [tail, waiting, answered]
  waiting,   \* the sandbox is in waitingSandboxes
  closing    \* close_shell per shell

box == <<prov, prompt, stops, tmux>>
seen == <<attached, obs, waiting>>
sessionsVars == <<box, conn, term, seen, closing>>

Target == Shell \cup {"agent"}
Kind == {"prompt", "text"}

(* The row has providerSandboxId, which requireRunning asks for.           *)
Bound == prov # "creating"
(* A failed provision destroys its instance, a failed restart does not.    *)
Up == prov \in {"starting", "spawning", "running"} \/ (prov = "failed" /\ stops > 0)

SessionsInit ==
  /\ prov = "creating" /\ prompt = "pending" /\ stops = 0
  /\ tmux = [t \in Target |-> "none"]
  /\ conn = [c \in Conn |-> [pc |-> "new", target |-> "agent", create |-> FALSE,
                             connected |-> FALSE, told |-> "nothing"]]
  /\ term = [c \in Conn |-> [stream |-> "none", pend |-> << >>, read |-> 0, shown |-> 0]]
  /\ attached = {} /\ waiting = FALSE
  /\ obs = [c \in Conn |-> [tail |-> "blank", waiting |-> FALSE, answered |-> FALSE]]
  /\ closing = [k \in Shell |-> "no"]

-----------------------------------------------------------------------------
(* The workflow *)

(* Sessions end, and with them the attach processes of their streams.      *)
SessionsEnd(T) ==
  /\ tmux' = [t \in Target |-> IF t \in T THEN "none" ELSE tmux[t]]
  /\ term' = [c \in Conn |-> IF conn[c].target \in T /\ term[c].stream = "open"
                             THEN [term[c] EXCEPT !.stream = "ended"] ELSE term[c]]

Create ==
  /\ prov = "creating" /\ prov' = "bound"
  /\ UNCHANGED <<prompt, stops, tmux, conn, term, seen, closing>>

Start ==
  /\ prov = "bound" /\ prov' = "starting"
  /\ UNCHANGED <<prompt, stops, tmux, conn, term, seen, closing>>

(* bootstrapAgentSession looks for the session and leaves it alone, ...    *)
FindSession ==
  /\ prov = "starting"
  /\ prov' = IF tmux["agent"] = "none" THEN "spawning" ELSE "running"
  /\ UNCHANGED <<prompt, stops, tmux, conn, term, seen, closing>>

Fail ==
  /\ prov' = "failed"
  /\ IF stops = 0 THEN SessionsEnd(Target) ELSE UNCHANGED <<tmux, term>>
  /\ UNCHANGED <<prompt, stops, conn, seen, closing>>

(* ... or starts one with the instruction that is still pending.  Without  *)
(* -A, new-session fails if there is one by now.                           *)
NewSession ==
  /\ prov = "spawning"
  /\ IF tmux["agent"] = "none"
     THEN /\ tmux' = [tmux EXCEPT !["agent"] = IF prompt = "pending" THEN "prompt" ELSE "plain"]
          /\ prompt' = "consumed" /\ prov' = "running"
          /\ UNCHANGED <<stops, conn, term, seen, closing>>
     ELSE Fail

ProvisionFails == prov \in {"starting", "spawning"} /\ Fail

(* The task is stopped, to be started again.                               *)
Stop ==
  /\ prov = "running" /\ stops < MaxStops
  /\ prov' = "bound" /\ stops' = stops + 1
  /\ SessionsEnd(Target)
  /\ UNCHANGED <<prompt, conn, seen, closing>>

(* A program ends or is killed from within the sandbox.                    *)
SessionEnds ==
  /\ \E t \in Target : tmux[t] # "none" /\ SessionsEnd({t})
  /\ UNCHANGED <<prov, prompt, stops, conn, seen, closing>>

-----------------------------------------------------------------------------
(* Connecting *)

Awaits(c, pc) == conn[c].pc = pc

(* handleConnection: waitingInputEligible                                  *)
Connect(c) ==
  /\ Awaits(c, "new")
  /\ \E t \in Target :
       conn' = [conn EXCEPT ![c].pc = "binding", ![c].target = t, ![c].connected = TRUE]
  /\ UNCHANGED <<box, term, seen, closing>>

(* A shell is attached or created without a question.                      *)
Bind(c) ==
  /\ Awaits(c, "binding") /\ Bound
  /\ conn' = [conn EXCEPT ![c].pc = IF conn[c].target = "agent" THEN "locating" ELSE "opening",
                          ![c].create = conn[c].target # "agent"]
  /\ UNCHANGED <<box, term, seen, closing>>

(* attachCommandFor: an agent's session that is missing is created; where  *)
(* no exec is to be had, `attach` will tell.                               *)
Locate(c) ==
  /\ Awaits(c, "locating")
  /\ \E create \in {FALSE, Up /\ tmux["agent"] = "none"} :
       conn' = [conn EXCEPT ![c].pc = "opening", ![c].create = create]
  /\ UNCHANGED <<box, term, seen, closing>>

(* openPty: `attach` to a session that is gone ends at once.               *)
Open(c) ==
  /\ Awaits(c, "opening") /\ Up
  /\ LET t == conn[c].target IN
     /\ tmux' = IF conn[c].create /\ tmux[t] = "none" THEN [tmux EXCEPT ![t] = "plain"] ELSE tmux
     /\ term' = [term EXCEPT ![c].stream = IF tmux'[t] = "none" THEN "ended" ELSE "open"]
  /\ conn' = [conn EXCEPT ![c].pc = "opened"]
  /\ UNCHANGED <<prov, prompt, stops, seen, closing>>

(* recompute: the sandbox waits when all its terminals do.                 *)
Recompute(A, o) == waiting' = (A # {} /\ \A c \in A : o[c].waiting)

Attached(c) ==
  /\ conn' = [conn EXCEPT ![c].pc = "attached", ![c].told = "session"]
  /\ attached' = attached \cup {c} /\ UNCHANGED obs /\ Recompute(attached', obs)
  /\ UNCHANGED <<box, term, closing>>

\* A variant that does not look whether the client is still there.
AttachUnseen(c) == Awaits(c, "opened") /\ Attached(c)
(* The client may have left meanwhile.                                     *)
Attach(c) ==
  /\ Awaits(c, "opened")
  /\ IF conn[c].connected THEN Attached(c)
     ELSE /\ conn' = [conn EXCEPT ![c].pc = "over"]
          /\ term' = [term EXCEPT ![c].stream = "detached"]
          /\ UNCHANGED <<box, seen, closing>>

(* An await throws.  The client is told, unless it may try again.          *)
Refuse(c) ==
  /\ conn[c].pc \in {"binding", "locating", "opening"}
  /\ \E told \in {"nothing", "failed"} :
       conn' = [conn EXCEPT ![c].pc = "over", ![c].connected = FALSE, ![c].told = told]
  /\ UNCHANGED <<box, term, seen, closing>>

-----------------------------------------------------------------------------
(* Attachments *)

(* removeAttachment with detach: what the batcher holds is dropped.        *)
Detached(S) ==
  /\ attached' = attached \ S /\ UNCHANGED obs /\ Recompute(attached', obs)
  /\ term' = [c \in Conn |-> IF c \in S THEN [term[c] EXCEPT !.stream = "detached", !.pend = << >>]
                             ELSE term[c]]

(* handleDisconnect                                                        *)
Disconnect(c) ==
  /\ conn[c].connected
  /\ conn' = [conn EXCEPT ![c].connected = FALSE, ![c].pc = IF @ = "attached" THEN "over" ELSE @]
  /\ Detached({c} \cap attached)
  /\ UNCHANGED <<box, closing>>

Output(c) ==
  /\ c \in attached /\ term[c].stream \in {"open", "ended"} /\ term[c].read < MaxChunks
  /\ \E k \in Kind : term' = [term EXCEPT ![c].pend = Append(@, k), ![c].read = @ + 1]
  /\ obs' = [obs EXCEPT ![c].answered = FALSE]
  /\ UNCHANGED <<box, conn, attached, waiting, closing>>

Flushed(c) == [term[c] EXCEPT !.shown = @ + Len(term[c].pend), !.pend = << >>]

(* The batch of 16 ms goes to the browser and to the detector.             *)
Flush(c) ==
  /\ c \in attached /\ term[c].pend # << >>
  /\ term' = [term EXCEPT ![c] = Flushed(c)]
  /\ obs' = [obs EXCEPT ![c].tail = Last(term[c].pend), ![c].waiting = FALSE]
  /\ Recompute(attached, obs')
  /\ UNCHANGED <<box, conn, attached, closing>>

Answered(c) ==
  /\ obs' = [obs EXCEPT ![c] = [tail |-> "blank", waiting |-> FALSE, answered |-> TRUE]]
  /\ Recompute(attached, obs')
  /\ UNCHANGED <<box, conn, attached, closing>>

\* A variant that leaves the batch to its timer.
InputUnflushed(c) == c \in attached /\ Answered(c) /\ UNCHANGED term
(* An input answers all that was read before it.                           *)
Input(c) ==
  /\ c \in attached /\ Answered(c)
  /\ term' = [term EXCEPT ![c] = Flushed(c)]

(* The detector: those that have been silent for long with a prompt last.  *)
Tick ==
  /\ \E S \in SUBSET {c \in attached : ~obs[c].waiting /\ obs[c].tail = "prompt"} :
       /\ S # {}
       /\ obs' = [c \in Conn |-> IF c \in S THEN [obs[c] EXCEPT !.waiting = TRUE] ELSE obs[c]]
  /\ Recompute(attached, obs')
  /\ UNCHANGED <<box, conn, term, attached, closing>>

Ended(c) ==
  /\ c \in attached /\ term[c].stream = "ended"
  /\ attached' = attached \ {c} /\ UNCHANGED obs /\ Recompute(attached', obs)
  /\ conn' = [conn EXCEPT ![c].pc = "over", ![c].connected = FALSE, ![c].told = "exit"]
  /\ UNCHANGED <<box, closing>>

\* A variant that closes the batcher first.
ExitUnflushed(c) == Ended(c) /\ term' = [term EXCEPT ![c].stream = "over", ![c].pend = << >>]
(* onExit: the rest of the output, then exit, then the socket is closed.   *)
Exit(c) == Ended(c) /\ term' = [term EXCEPT ![c] = [Flushed(c) EXCEPT !.stream = "over"]]

-----------------------------------------------------------------------------
(* Closing a shell *)

CloseShell(c, k) ==
  /\ c \in attached /\ closing[k] = "no"
  /\ closing' = [closing EXCEPT ![k] = "asked"]
  /\ UNCHANGED <<box, conn, term, seen>>

KillShell(k) ==
  /\ closing[k] = "asked" /\ Up
  /\ closing' = [closing EXCEPT ![k] = "killed"]
  /\ SessionsEnd({k})
  /\ UNCHANGED <<prov, prompt, stops, conn, seen>>

KillShellThrows(k) ==
  /\ closing[k] = "asked"
  /\ closing' = [closing EXCEPT ![k] = "no"]
  /\ UNCHANGED <<box, conn, term, seen>>

(* The answer of kill-session: whoever is attached to this shell by now.   *)
ShellClosed(k) ==
  /\ closing[k] = "killed"
  /\ closing' = [closing EXCEPT ![k] = "no"]
  /\ Detached({c \in attached : conn[c].target = k})
  /\ UNCHANGED <<box, conn>>

-----------------------------------------------------------------------------
Workflow == Create \/ Start \/ FindSession \/ NewSession \/ ProvisionFails \/ Stop \/ SessionEnds

Handler(c) == Connect(c) \/ Bind(c) \/ Locate(c) \/ Open(c) \/ Attach(c) \/ Refuse(c)

Stream(c) == Output(c) \/ Flush(c) \/ Input(c) \/ Exit(c) \/ Disconnect(c)

SessionsNext ==
  \/ Workflow \/ Tick
  \/ \E c \in Conn : Handler(c) \/ Stream(c) \/ \E k \in Shell : CloseShell(c, k)
  \/ \E k \in Shell : KillShell(k) \/ KillShellThrows(k) \/ ShellClosed(k)

SessionsSpec == SessionsInit /\ [][SessionsNext]_sessionsVars

-----------------------------------------------------------------------------
SessionsTypeOK ==
  /\ prov \in {"creating", "bound", "starting", "spawning", "running", "failed"}
  /\ prompt \in {"pending", "consumed"} /\ stops \in 0..MaxStops
  /\ tmux \in [Target -> {"none", "plain", "prompt"}]
  /\ conn \in [Conn -> [pc : {"new", "binding", "locating", "opening", "opened", "attached", "over"},
                        target : Target, create : BOOLEAN, connected : BOOLEAN,
                        told : {"nothing", "session", "failed", "exit"}]]
  /\ term \in [Conn -> [stream : {"none", "open", "ended", "detached", "over"}, pend : Seq(Kind),
                        read : 0..MaxChunks, shown : 0..MaxChunks]]
  /\ attached \subseteq Conn /\ waiting \in BOOLEAN
  /\ obs \in [Conn -> [tail : Kind \cup {"blank"}, waiting : BOOLEAN, answered : BOOLEAN]]
  /\ closing \in [Shell -> {"no", "asked", "killed"}]

(* A client may leave, a session end and a shell be closed at any await: a *)
(* stream is held by the attachment of a client that is there, or by the   *)
(* handler that still has to look whether it is.                           *)
StreamsAreHeld ==
  \A c \in Conn :
    /\ term[c].stream \in {"open", "ended"} => c \in attached \/ conn[c].pc = "opened"
    /\ c \in attached => conn[c].connected /\ term[c].stream \in {"open", "ended"}

(* Who is told that a terminal has ended has seen all of its output.       *)
ScreenIsWhole ==
  \A c \in Conn :
    /\ c \in attached => term[c].shown + Len(term[c].pend) = term[c].read
    /\ conn[c].told = "exit" => term[c].shown = term[c].read

(* A task is shown as waiting for input exactly when it has terminals and  *)
(* each stands at a prompt nobody has answered, whoever comes and goes.    *)
WaitingIsTrue ==
  /\ waiting <=> attached # {} /\ \A c \in attached : obs[c].waiting
  /\ \A c \in attached : obs[c].waiting => obs[c].tail = "prompt" /\ ~obs[c].answered

(* A task that runs was given its instruction: provision owns starting the *)
(* agent (D-15).  Violated: a terminal opened while the task is starting   *)
(* finds no session and makes one, and the workflow leaves that alone.     *)
InstructionIsGiven == prov = "running" => prompt = "consumed"

(* A client that is still connected has its terminal.  Violated: another   *)
(* window reconnects to a shell that is being closed before kill-session   *)
(* is answered, and is detached without a word.                            *)
NoFrozenTerminal == \A c \in Conn : conn[c].connected /\ conn[c].pc = "attached" => c \in attached
=============================================================================
