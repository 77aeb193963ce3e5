---------------------------- MODULE AuthSessions ----------------------------
(***************************************************************************)
(* The logins of one runtime: each opens a session in the login helper,    *)
(* lets the vendor's CLI issue a challenge there, waits for its token, in  *)
(* the background and for a user's paste at once, stores the credential,   *)
(* and disposes the session.  All of it is in memory.                      *)
(*                                                                         *)
(* What happens between two awaits is one step.  Whether a store is that   *)
(* of the credential is RuntimeCredentials'; here it is counted.           *)
(***************************************************************************)
EXTENDS Naturals, FiniteSets

CONSTANTS
  Login,             \* bound: the logins ever begun
  DeviceLogin,       \* those by device code, the others paste a setup token
  AUTH_SESSION_MAX

ASSUME AuthConstants ==
  IsFiniteSet(Login) /\ DeviceLogin \subseteq Login /\ AUTH_SESSION_MAX \in Nat \ {0}

VARIABLES
  stage,      \* beginAuthSession: opening, challenging, discarding; then begun or over
  entry,      \* sessions
  expired,    \* the logins whose expiresAt has passed
  outcome,    \* outcomes: the terminal status that is left of a login
  helper,     \* the session in the helper
  retiring,   \* retiring: idle, or working at a disposal
  waiting,    \* the calls of the adapter that wait for the token
  winner,     \* settling: the path that stores the login, "none" for nobody
  committed,  \* the logins whose winner has stored, and waits for the disposal
  joined,     \* settling: the paths that wait for the winner
  closing,    \* awaitDeviceCompletion's finally: the status it will leave
  sweep,      \* the logins a sweep has cancelled, while it waits for them
  stopping,   \* shuttingDown
  stored,     \* history: how often a login was stored
  cancelled,  \* history: the logins cancelled before they were over
  unknown     \* history: the logins whose paste was told, before expiresAt, they are unknown

storeVars == <<entry, outcome, expired>>
helperVars == <<helper, retiring>>
pathVars == <<waiting, winner, committed, joined, closing>>
historyVars == <<stored, cancelled, unknown>>
vars == <<stage, storeVars, helperVars, pathVars, sweep, stopping, historyVars>>

Path == {"device", "self", "paste"}
Beginning == {"opening", "challenging", "discarding"}

Init ==
  /\ stage = [x \in Login |-> "none"]
  /\ entry = [x \in Login |-> "none"] /\ outcome = [x \in Login |-> "none"]
  /\ helper = [x \in Login |-> "none"] /\ retiring = [x \in Login |-> "no"]
  /\ expired = {} /\ waiting = {} /\ joined = {} /\ committed = {}
  /\ winner = [x \in Login |-> "none"] /\ closing = [x \in Login |-> "none"]
  /\ sweep = {} /\ stopping = FALSE
  /\ stored = [x \in Login |-> 0] /\ cancelled = {} /\ unknown = {}

Entries == {x \in Login : entry[x] # "none"}
InFlight == {x \in Login : stage[x] \in Beginning}
Retiring == {x \in Login : retiring[x] # "no"}

(* sweepOutcomes, and outcome() of one login: past expiresAt a tombstone goes *)
Evicted(told, logins) == [x \in Login |-> IF x \in logins \cap expired THEN "none" ELSE told[x]]

-----------------------------------------------------------------------------
(* Disposing *)

(* disposeSession of several: not of one disposed already, not twice at once *)
Disposed(logins) ==
  retiring' = [x \in Login |->
    IF x \in logins /\ helper[x] = "open" THEN "working" ELSE retiring[x]]

(* disposeSession's end: the helper's answer, an error or the deadline *)
DisposeEnds(x, ok) ==
  /\ retiring[x] = "working"
  /\ retiring' = [retiring EXCEPT ![x] = IF ok THEN "no" ELSE "idle"]
  /\ helper' = [helper EXCEPT ![x] = IF ok THEN "gone" ELSE @]
  /\ UNCHANGED <<stage, storeVars, pathVars, sweep, stopping, historyVars>>

(* cancelAuth of several: an entry goes, and so does its session; of a     *)
(* login without one the disposal is tried again.                          *)
Cancels(logins) ==
  /\ entry' = [x \in Login |-> IF x \in logins THEN "none" ELSE entry[x]]
  /\ cancelled' = cancelled \cup (logins \cap Entries)
  /\ Disposed(logins \cap (Entries \cup Retiring))
  /\ UNCHANGED helper

-----------------------------------------------------------------------------
(* Beginning *)

\* A variant that does not count the sessions whose disposal failed.
OccupancyWithoutRetiring == Cardinality(Entries) + Cardinality(InFlight)
(* The three maps are added up, a login may be in two of them. *)
Occupancy == Cardinality(Entries) + Cardinality(InFlight) + Cardinality(Retiring)

Alike(x) == {y \in Login : y \in DeviceLogin <=> x \in DeviceLogin}

(* beginAuth, unless it answers with a login of this method there is *)
Begin(x) ==
  /\ ~stopping /\ stage[x] = "none"
  /\ Alike(x) \cap InFlight = {}
  /\ LET known == {y \in Alike(x) : entry[y] = "pending"}
     IN  known = {} \/ known \cap expired # {}      \* it looks at the first
  /\ Occupancy < AUTH_SESSION_MAX
  /\ stage' = [stage EXCEPT ![x] = "opening"]
  /\ UNCHANGED <<storeVars, helperVars, pathVars, sweep, stopping, historyVars>>

(* beginAuthSession's catch *)
Discards(x) ==
  /\ stage' = [stage EXCEPT ![x] = "discarding"]
  /\ retiring' = [retiring EXCEPT ![x] = "working"]

(* helper.openSession, and the look at shuttingDown after it *)
Opened(x, ok) ==
  /\ stage[x] = "opening"
  /\ helper' = [helper EXCEPT ![x] = IF ok THEN "open" ELSE @]
  /\ \/ ~ok /\ stage' = [stage EXCEPT ![x] = "over"] /\ UNCHANGED retiring
     \/ ok /\ stopping /\ Discards(x)
     \/ ok /\ ~stopping /\ stage' = [stage EXCEPT ![x] = "challenging"] /\ UNCHANGED retiring
  /\ UNCHANGED <<storeVars, pathVars, sweep, stopping, historyVars>>

(* the second assertAcceptingAuth *)
Accepts(ok) == ok /\ ~stopping

(* adapter.beginAuth; whoever waits for the token begins to *)
Challenged(x, ok) ==
  /\ stage[x] = "challenging"
  /\ \/ ~Accepts(ok) /\ Discards(x) /\ UNCHANGED <<entry, waiting>>
     \/ /\ Accepts(ok)
        /\ stage' = [stage EXCEPT ![x] = "begun"] /\ UNCHANGED retiring
        /\ entry' = [entry EXCEPT ![x] = "pending"]
        /\ waiting' = waiting \cup {<<x, IF x \in DeviceLogin THEN "device" ELSE "self">>}
  /\ UNCHANGED <<outcome, expired, helper, winner, committed, joined, closing, sweep, stopping,
                 historyVars>>

Discarded(x) ==
  /\ stage[x] = "discarding" /\ retiring[x] # "working"
  /\ stage' = [stage EXCEPT ![x] = "over"]
  /\ UNCHANGED <<storeVars, helperVars, pathVars, sweep, stopping, historyVars>>

-----------------------------------------------------------------------------
(* Completing *)

(* completeAuth, up to the adapter *)
Paste(x) ==
  /\ entry[x] # "none" /\ x \notin expired
  /\ <<x, "paste">> \notin waiting \cup joined /\ winner[x] # "paste"  \* bound: one at a time
  /\ waiting' = waiting \cup {<<x, "paste">>}
  /\ UNCHANGED <<stage, storeVars, helperVars, winner, committed, joined, closing, sweep, stopping,
                 historyVars>>

(* A device path that ends has a status to leave. *)
Ends(paths, x, status) ==
  IF "device" \in paths
  THEN closing' = [closing EXCEPT ![x] = status] /\ Disposed({x})
  ELSE UNCHANGED <<closing, retiring>>

(* finishChallenge: whether this path may store *)
Free(x) == entry[x] = "pending"

\* A variant in which the path that comes second does not wait for the first.
JoinsNever(x) == FALSE
(* finishChallenge: whether another path is storing *)
Joins(x) == winner[x] # "none"

(* finishChallenge, up to its first await; a paste that gets nothing from  *)
(* it answers with the outcome, or that the login is unknown.              *)
TokenCame(x, p) ==
  /\ <<x, p>> \in waiting /\ waiting' = waiting \ {<<x, p>>}
  /\ \/ /\ Joins(x) /\ joined' = joined \cup {<<x, p>>}
        /\ UNCHANGED <<entry, winner, retiring, closing>>
     \/ /\ ~Joins(x) /\ Free(x)
        /\ entry' = [entry EXCEPT ![x] = "success"]
        /\ winner' = [winner EXCEPT ![x] = p]
        /\ UNCHANGED <<joined, retiring, closing>>
     \/ /\ ~Joins(x) /\ ~Free(x)
        /\ Ends({p}, x, "error")
        /\ UNCHANGED <<entry, winner, joined>>
  /\ outcome' = IF p = "paste" /\ ~Joins(x) /\ ~Free(x) THEN Evicted(outcome, {x}) ELSE outcome
  /\ unknown' = IF p = "paste" /\ ~Joins(x) /\ ~Free(x) /\ outcome[x] # "success" /\ x \notin expired
                THEN unknown \cup {x} ELSE unknown
  /\ UNCHANGED <<stage, expired, helper, committed, sweep, stopping, stored, cancelled>>

(* The adapter refuses the paste, or its wait is over; a code that has     *)
(* expired cancels the login of a paste.                                   *)
TokenFailed(x, p, status) ==
  /\ <<x, p>> \in waiting /\ waiting' = waiting \ {<<x, p>>}
  /\ \/ /\ p = "paste" /\ status = "expired" /\ Cancels({x}) /\ UNCHANGED closing
     \/ /\ ~(p = "paste" /\ status = "expired") /\ Ends({p}, x, status)
        /\ UNCHANGED <<entry, cancelled>>
  /\ UNCHANGED <<stage, outcome, expired, helper, winner, committed, joined, sweep, stopping,
                 stored, unknown>>

Paths(x) == {p \in Path : p = winner[x] \/ <<x, p>> \in joined}

\* A variant that stores what was cancelled in the meantime.
CommitsAnyway(x) == TRUE
(* beforeCommit *)
Commits(x) == entry[x] # "none"

(* storeCredential commits, the outcome is settled, the session disposed.  *)
Stored(x) ==
  /\ winner[x] # "none" /\ x \notin committed /\ Commits(x)
  /\ committed' = committed \cup {x}
  /\ stored' = [stored EXCEPT ![x] = @ + 1]
  /\ outcome' = [outcome EXCEPT ![x] = "success"]
  /\ entry' = [entry EXCEPT ![x] = "none"]
  /\ Disposed({x})
  /\ UNCHANGED <<stage, expired, helper, waiting, winner, joined, closing, sweep, stopping,
                 cancelled, unknown>>

(* It throws: the login was cancelled, or the store failed. *)
StoreFailed(x) ==
  /\ winner[x] # "none" /\ x \notin committed /\ UNCHANGED committed
  /\ Ends(Paths(x), x, "error")
  /\ winner' = [winner EXCEPT ![x] = "none"] /\ joined' = {j \in joined : j[1] # x}
  /\ UNCHANGED <<stage, storeVars, helper, waiting, sweep, stopping, historyVars>>

(* finishChallenge returns to all its paths *)
Settled(x) ==
  /\ x \in committed /\ committed' = committed \ {x} /\ retiring[x] # "working"
  /\ Ends(Paths(x), x, "success")
  /\ winner' = [winner EXCEPT ![x] = "none"] /\ joined' = {j \in joined : j[1] # x}
  /\ UNCHANGED <<stage, storeVars, helper, waiting, sweep, stopping, historyVars>>

(* awaitDeviceCompletion, after its disposal *)
Closed(x) ==
  /\ closing[x] # "none" /\ retiring[x] # "working"
  /\ closing' = [closing EXCEPT ![x] = "none"]
  /\ outcome' = Evicted([outcome EXCEPT ![x] = IF entry[x] # "none" THEN closing[x] ELSE @], Login)
  /\ entry' = [entry EXCEPT ![x] = "none"]
  /\ UNCHANGED <<stage, expired, helperVars, waiting, winner, committed, joined, sweep, stopping,
                 historyVars>>

-----------------------------------------------------------------------------
(* Cancelling and sweeping *)

Expire(x) ==
  /\ entry[x] # "none" \/ outcome[x] # "none"
  /\ x \notin expired /\ expired' = expired \cup {x}
  /\ UNCHANGED <<stage, entry, outcome, helperVars, pathVars, sweep, stopping, historyVars>>

(* pollAuthStatus of a login without an entry; of one with an entry it is  *)
(* Cancel, or changes nothing.                                             *)
Poll(x) ==
  /\ entry[x] = "none" /\ outcome[x] # "none" /\ x \in expired
  /\ outcome' = Evicted(outcome, {x})
  /\ UNCHANGED <<stage, entry, expired, helperVars, pathVars, sweep, stopping, historyVars>>

(* cancelAuth by the user, or by the poll of a pending login that expired *)
Cancel(x) ==
  /\ x \in Entries \cup Retiring /\ Cancels({x})
  /\ UNCHANGED <<stage, outcome, expired, pathVars, sweep, stopping, stored, unknown>>

\* A variant of the sweep that never tries a failed disposal again.
RetriedNever == {}
(* sweepAuthSessions disposes all that is retiring *)
Retried == Retiring

Sweep ==
  /\ ~stopping /\ sweep = {} /\ sweep' = Entries \cap expired
  /\ IF sweep' = {}
     THEN /\ outcome' = Evicted(outcome, Login) /\ Disposed(Retried)
          /\ UNCHANGED <<entry, cancelled, helper>>
     ELSE Cancels(sweep') /\ UNCHANGED outcome
  /\ UNCHANGED <<stage, expired, pathVars, stopping, stored, unknown>>

SweepContinues ==
  /\ sweep # {} /\ sweep' = {} /\ \A x \in sweep : retiring[x] # "working"
  /\ outcome' = Evicted(outcome, Login) /\ Disposed(Retried)
  /\ UNCHANGED <<stage, entry, expired, helper, pathVars, stopping, historyVars>>

(* onModuleDestroy *)
Shutdown ==
  /\ ~stopping /\ stopping' = TRUE /\ Cancels(Entries)
  /\ UNCHANGED <<stage, outcome, expired, pathVars, sweep, stored, unknown>>

ShutdownContinues ==
  /\ stopping /\ Retiring # {} /\ Disposed(Retiring)
  /\ UNCHANGED <<stage, storeVars, helper, pathVars, sweep, stopping, historyVars>>

-----------------------------------------------------------------------------
AdapterAnswers(x, p) ==
  TokenCame(x, p) \/ \E status \in {"error", "expired"} : TokenFailed(x, p, status)

LoginProceeds(x) ==
  \/ \E ok \in BOOLEAN : Opened(x, ok) \/ Challenged(x, ok)
  \/ Discarded(x) \/ Stored(x) \/ StoreFailed(x) \/ Settled(x) \/ Closed(x)

Next ==
  \/ \E x \in Login :
       \/ Begin(x) \/ \E ok \in BOOLEAN : DisposeEnds(x, ok)
       \/ \E p \in Path : AdapterAnswers(x, p)
       \/ LoginProceeds(x) \/ Paste(x) \/ Poll(x) \/ Expire(x) \/ Cancel(x)
  \/ Sweep \/ SweepContinues \/ Shutdown \/ ShutdownContinues

Spec == Init /\ [][Next]_vars

(* Every await has its deadline, time passes, the sweep comes round; and a *)
(* disposal that is tried over and over succeeds once.                     *)
Fairness ==
  /\ \A x \in Login :
       /\ WF_vars(LoginProceeds(x)) /\ WF_vars(Expire(x))
       /\ WF_vars(\E ok \in BOOLEAN : DisposeEnds(x, ok)) /\ SF_vars(DisposeEnds(x, TRUE))
  /\ WF_vars(Sweep) /\ WF_vars(SweepContinues)

FairSpec == Spec /\ Fairness

-----------------------------------------------------------------------------
(* Properties *)

(* Every variable has its type. *)
TypeOK ==
  /\ stage \in [Login -> Beginning \cup {"none", "begun", "over"}]
  /\ entry \in [Login -> {"none", "pending", "success"}]
  /\ outcome \in [Login -> {"none", "success", "error", "expired"}]
  /\ helper \in [Login -> {"none", "open", "gone"}]
  /\ retiring \in [Login -> {"no", "idle", "working"}]
  /\ waiting \subseteq Login \X Path /\ joined \subseteq Login \X Path
  /\ committed \subseteq Login
  /\ winner \in [Login -> Path \cup {"none"}]
  /\ closing \in [Login -> {"none", "success", "error", "expired"}]
  /\ expired \subseteq Login /\ sweep \subseteq Login /\ cancelled \subseteq Login
  /\ unknown \subseteq Login
  /\ stopping \in BOOLEAN /\ stored \in [Login -> Nat]

(* Once the service is stopping, no login is pending any more. *)
NoneIsLeft == stopping => Entries = {}

(* However logins are cancelled, swept and disposed in vain: the helper    *)
(* never holds more sessions than AUTH_SESSION_MAX, and every one of them  *)
(* belongs to a login that a map still knows; none is put into the map of  *)
(* those that wait once the service is stopping.                           *)
HelpersAreBounded ==
  /\ Cardinality({x \in Login : helper[x] = "open"}) <= AUTH_SESSION_MAX
  /\ \A x \in Login : helper[x] = "open" => x \in Entries \cup InFlight \cup Retiring
  /\ NoneIsLeft

(* Whichever of its paths ends first: a login is stored at most once, not  *)
(* after it was cancelled; it is told as a success only if it was stored,  *)
(* and if it was, until its tombstone may go at expiresAt, and never as    *)
(* anything else; and no paste is told before then that it is unknown.     *)
LoginIsHonest ==
  \A x \in Login :
    /\ stored[x] <= 1 /\ (x \in cancelled => stored[x] = 0)
    /\ outcome[x] = "success" => stored[x] = 1
    /\ stored[x] = 1 => outcome[x] = "success" \/ (outcome[x] = "none" /\ x \in expired)
    /\ stored[x] = 1 => x \notin unknown

(* A poll of a live login answers with the status of its entry: success    *)
(* means that the login is being stored.  Violated: finishChallenge sets   *)
(* it before the store, and after a store that failed nothing resets it.   *)
SuccessIsStored == \A x \in Login : entry[x] = "success" => winner[x] # "none"

(* Whatever fails, every session in the helper is closed, while the        *)
(* service runs.                                                           *)
HelperIsClosed ==
  \A x \in Login : helper[x] = "open" ~> (helper[x] # "open" \/ stopping)
=============================================================================
