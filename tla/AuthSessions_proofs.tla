------------------------- MODULE AuthSessions_proofs -------------------------
(***************************************************************************)
(* Proofs about AuthSessions: the helper never holds more sessions than    *)
(* AUTH_SESSION_MAX, what is stored, settled and told of a login agrees,   *)
(* and none is pending once the service stops.                             *)
(***************************************************************************)
EXTENDS AuthSessions, FiniteSetTheorems, TLAPS

\* A login that a map of the service still knows.
Held == Entries \cup InFlight \cup Retiring

\* A login that has not got as far as its challenge has no trace but a session.
Early(x) ==
  stage[x] # "begun" =>
    /\ entry[x] = "none" /\ outcome[x] = "none" /\ stored[x] = 0
    /\ winner[x] = "none" /\ closing[x] = "none"
    /\ x \notin expired \cup committed \cup cancelled \cup unknown
    /\ \A p \in Path : <<x, p>> \notin waiting \cup joined

\* An open session is known, also between the steps that end a login.
Known(x) ==
  /\ stage[x] \in {"none", "opening"} => helper[x] = "none"
  /\ stage[x] = "challenging" => helper[x] = "open" /\ retiring[x] = "no"
  /\ retiring[x] # "no" => helper[x] = "open"
  /\ helper[x] = "open" =>
       /\ x \in Held
       /\ stage[x] = "discarding" \/ closing[x] # "none" => retiring[x] # "no"

\* Before the store nothing says it is done, and afterwards no entry is left.
StoredOnce(x) ==
  /\ stored[x] <= 1 /\ (outcome[x] = "success" => stored[x] = 1)
  /\ stored[x] = 1 => outcome[x] = "success" \/ (outcome[x] = "none" /\ x \in expired)
  /\ stored[x] = 1 => entry[x] = "none" /\ x \notin cancelled \cup unknown
  /\ entry[x] # "none" => x \notin cancelled
  /\ entry[x] = "pending" => winner[x] = "none" /\ x \notin unknown
  /\ winner[x] # "none" /\ x \notin committed => x \notin unknown
  /\ x \in committed => winner[x] # "none" /\ stored[x] = 1
  /\ closing[x] = "success" => stored[x] = 1

LoginInv(x) == Early(x) /\ Known(x) /\ StoredOnce(x)

FiniteHeld == Cardinality(Held) <= AUTH_SESSION_MAX

Inv == TypeOK /\ (\A x \in Login : LoginInv(x)) /\ FiniteHeld /\ NoneIsLeft

-----------------------------------------------------------------------------
(* The number of logins *)

LEMMA FiniteLogins ==
  /\ \A S \in SUBSET Login : IsFiniteSet(S) /\ Cardinality(S) \in Nat
  /\ Entries \in SUBSET Login /\ InFlight \in SUBSET Login /\ Retiring \in SUBSET Login
<1>1. ASSUME NEW S \in SUBSET Login
      PROVE  IsFiniteSet(S) /\ Cardinality(S) \in Nat
  BY AuthConstants, FS_Subset, FS_CardinalityType
<1> QED BY <1>1 DEF Entries, InFlight, Retiring

\* A step that adds no login to the maps keeps their number.
LEMMA FewerHeld ==
  ASSUME FiniteHeld, Held' \subseteq Held
  PROVE  FiniteHeld'
<1>1. Held \in SUBSET Login
  BY FiniteLogins DEF Held
<1>2. IsFiniteSet(Held) /\ Cardinality(Held) \in Nat
  BY <1>1, FiniteLogins
<1>3. Held' \in SUBSET Login
  BY <1>1
<1>4. Cardinality(Held') \in Nat
  BY <1>3, FiniteLogins
<1>5. Cardinality(Held') <= Cardinality(Held)
  BY <1>2, FS_Subset
<1> QED BY <1>2, <1>4, <1>5, AuthConstants DEF FiniteHeld

\* The login that begins finds a place.
LEMMA OneMore ==
  ASSUME NEW x \in Login, Occupancy < AUTH_SESSION_MAX, Held' = Held \cup {x}
  PROVE  FiniteHeld'
<1> DEFINE e == Cardinality(Entries)
           i == Cardinality(InFlight)
           r == Cardinality(Retiring)
           ei == Cardinality(Entries \cup InFlight)
           h == Cardinality(Held)
<1>1. /\ IsFiniteSet(Entries) /\ IsFiniteSet(InFlight) /\ IsFiniteSet(Retiring)
      /\ e \in Nat /\ i \in Nat /\ r \in Nat
  BY FiniteLogins
<1>2. ei <= e + i /\ IsFiniteSet(Entries \cup InFlight) /\ ei \in Nat
  <2>1. ei = e + i - Cardinality(Entries \cap InFlight)
    BY <1>1, FS_Union
  <2>2. Cardinality(Entries \cap InFlight) \in Nat
    BY FiniteLogins
  <2>3. Entries \cup InFlight \in SUBSET Login
    BY FiniteLogins
  <2>4. IsFiniteSet(Entries \cup InFlight) /\ ei \in Nat
    BY <2>3, FiniteLogins
  <2> HIDE DEF e, i, ei
  <2> QED BY <1>1, <2>1, <2>2, <2>4
<1>3. h <= ei + r /\ IsFiniteSet(Held) /\ h \in Nat
  <2>1. h = ei + r - Cardinality((Entries \cup InFlight) \cap Retiring)
    BY <1>1, <1>2, FS_Union DEF Held
  <2>2. (Entries \cup InFlight) \cap Retiring \in SUBSET Login /\ Held \in SUBSET Login
    BY FiniteLogins DEF Held
  <2>3. Cardinality((Entries \cup InFlight) \cap Retiring) \in Nat
    BY <2>2, FiniteLogins
  <2>4. IsFiniteSet(Held) /\ h \in Nat
    BY <2>2, FiniteLogins
  <2> HIDE DEF r, ei, h
  <2> QED BY <1>1, <1>2, <2>1, <2>3, <2>4
<1>4. Cardinality(Held \cup {x}) <= h + 1
  <2>1. Cardinality(Held \cup {x}) = IF x \in Held THEN h ELSE h + 1
    BY <1>3, FS_AddElement
  <2> HIDE DEF h
  <2> QED BY <1>3, <2>1
<1>5. Cardinality(Held \cup {x}) \in Nat
  <2>1. Held \cup {x} \in SUBSET Login
    BY FiniteLogins DEF Held
  <2> QED BY <2>1, FiniteLogins
<1>6. h + 1 <= AUTH_SESSION_MAX
  <2>1. e + i + r < AUTH_SESSION_MAX
    BY DEF Occupancy
  <2> HIDE DEF e, i, r, ei, h
  <2> QED BY <1>1, <1>2, <1>3, <2>1, AuthConstants
<1>7. Cardinality(Held') <= AUTH_SESSION_MAX
  <2> HIDE DEF h
  <2> QED BY <1>3, <1>4, <1>5, <1>6, AuthConstants
<1> QED BY <1>7 DEF FiniteHeld

-----------------------------------------------------------------------------
(* The inductive step, operation by operation *)

LEMMA InitInv == Init => Inv
<1> SUFFICES ASSUME Init PROVE Inv
  OBVIOUS
<1>1. TypeOK
  BY DEF Init, TypeOK
<1>2. \A x \in Login : LoginInv(x)
  BY DEF Init, LoginInv, Early, Known, StoredOnce
<1>3. FiniteHeld
  <2>1. Held = {}
    BY DEF Init, Held, Entries, InFlight, Retiring, Beginning
  <2> QED BY <2>1, FS_EmptySet, AuthConstants DEF FiniteHeld
<1>4. NoneIsLeft
  BY DEF Init, NoneIsLeft
<1> QED BY <1>1, <1>2, <1>3, <1>4 DEF Inv

LEMMA DisposeEndsInv ==
  ASSUME Inv, NEW x \in Login, NEW ok \in BOOLEAN, DisposeEnds(x, ok)
  PROVE  Inv'
<1> USE DEF storeVars, pathVars, historyVars
<1>1. TypeOK'
  BY DEF Inv, TypeOK, DisposeEnds
<1>2. ASSUME NEW y \in Login PROVE LoginInv(y)'
  <2>1. LoginInv(y) /\ LoginInv(x) /\ TypeOK
    BY DEF Inv
  <2>2. Early(y)'
    BY <2>1 DEF LoginInv, Early, DisposeEnds
  <2>3. Known(y)'
    BY <2>1 DEF LoginInv, Known, DisposeEnds, TypeOK, Held, Entries, InFlight, Retiring
  <2>4. StoredOnce(y)'
    BY <2>1 DEF LoginInv, StoredOnce, DisposeEnds
  <2> QED BY <2>2, <2>3, <2>4 DEF LoginInv
<1>3. Held' \subseteq Held
  BY DEF Inv, TypeOK, DisposeEnds, Held, Entries, InFlight, Retiring
<1>4. FiniteHeld'
  BY <1>3, FewerHeld DEF Inv
<1>5. NoneIsLeft'
  BY DEF Inv, NoneIsLeft, DisposeEnds, Entries
<1> QED BY <1>1, <1>2, <1>4, <1>5 DEF Inv

LEMMA BeginInv ==
  ASSUME Inv, NEW x \in Login, Begin(x)
  PROVE  Inv'
<1> USE DEF storeVars, helperVars, pathVars, historyVars
<1>1. TypeOK'
  BY DEF Inv, TypeOK, Begin, Beginning
<1>2. ASSUME NEW y \in Login PROVE LoginInv(y)'
  <2>1. LoginInv(y) /\ LoginInv(x) /\ TypeOK
    BY DEF Inv
  <2>2. Early(y)'
    BY <2>1 DEF LoginInv, Early, Begin, TypeOK
  <2>3. Known(y)'
    BY <2>1 DEF LoginInv, Known, Begin, TypeOK, Held, Entries, InFlight, Retiring, Beginning
  <2>4. StoredOnce(y)'
    BY <2>1 DEF LoginInv, StoredOnce, Begin
  <2> QED BY <2>2, <2>3, <2>4 DEF LoginInv
<1>3. Held' = Held \cup {x} /\ Occupancy < AUTH_SESSION_MAX
  BY DEF Inv, TypeOK, Begin, Held, Entries, InFlight, Retiring, Beginning
<1>4. FiniteHeld'
  BY <1>3, OneMore DEF Inv
<1>5. NoneIsLeft'
  BY DEF Inv, NoneIsLeft, Begin, Entries
<1> QED BY <1>1, <1>2, <1>4, <1>5 DEF Inv

LEMMA OpenedInv ==
  ASSUME Inv, NEW x \in Login, NEW ok \in BOOLEAN, Opened(x, ok)
  PROVE  Inv'
<1> USE DEF storeVars, pathVars, historyVars, Discards
<1>1. TypeOK'
  BY DEF Inv, TypeOK, Opened, Beginning
<1>2. ASSUME NEW y \in Login PROVE LoginInv(y)'
  <2>1. LoginInv(y) /\ LoginInv(x) /\ TypeOK
    BY DEF Inv
  <2>2. Early(y)'
    BY <2>1 DEF LoginInv, Early, Opened, TypeOK
  <2>3. Known(y)'
    BY <2>1 DEF LoginInv, Known, Early, Opened, TypeOK, Held, Entries, InFlight, Retiring, Beginning
  <2>4. StoredOnce(y)'
    BY <2>1 DEF LoginInv, StoredOnce, Opened
  <2> QED BY <2>2, <2>3, <2>4 DEF LoginInv
<1>3. Held' \subseteq Held
  BY DEF Inv, TypeOK, Opened, Held, Entries, InFlight, Retiring, Beginning
<1>4. FiniteHeld'
  BY <1>3, FewerHeld DEF Inv
<1>5. NoneIsLeft'
  BY DEF Inv, NoneIsLeft, Opened, Entries
<1> QED BY <1>1, <1>2, <1>4, <1>5 DEF Inv

LEMMA ChallengedInv ==
  ASSUME Inv, NEW x \in Login, NEW ok \in BOOLEAN, Challenged(x, ok)
  PROVE  Inv'
<1> USE DEF storeVars, pathVars, historyVars, Discards, Accepts
<1>1. TypeOK'
  BY DEF Inv, TypeOK, Challenged, Beginning, Path
<1>2. ASSUME NEW y \in Login PROVE LoginInv(y)'
  <2>1. LoginInv(y) /\ LoginInv(x) /\ TypeOK
    BY DEF Inv
  <2>2. Early(y)'
    BY <2>1 DEF LoginInv, Early, Challenged, TypeOK
  <2>3. Known(y)'
    BY <2>1 DEF LoginInv, Known, Early, Challenged, TypeOK, Held, Entries, InFlight, Retiring, Beginning
  <2>4. StoredOnce(y)'
    BY <2>1 DEF LoginInv, StoredOnce, Early, Challenged, TypeOK
  <2> QED BY <2>2, <2>3, <2>4 DEF LoginInv
<1>3. Held' \subseteq Held
  BY DEF Inv, TypeOK, Challenged, Held, Entries, InFlight, Retiring, Beginning
<1>4. FiniteHeld'
  BY <1>3, FewerHeld DEF Inv
<1>5. NoneIsLeft'
  BY DEF Inv, NoneIsLeft, Challenged, Entries
<1> QED BY <1>1, <1>2, <1>4, <1>5 DEF Inv

LEMMA DiscardedInv ==
  ASSUME Inv, NEW x \in Login, Discarded(x)
  PROVE  Inv'
<1> USE DEF storeVars, helperVars, pathVars, historyVars
<1>1. TypeOK'
  BY DEF Inv, TypeOK, Discarded, Beginning
<1>2. ASSUME NEW y \in Login PROVE LoginInv(y)'
  <2>1. LoginInv(y) /\ LoginInv(x) /\ TypeOK
    BY DEF Inv
  <2>2. Early(y)'
    BY <2>1 DEF LoginInv, Early, Discarded, TypeOK
  <2>3. Known(y)'
    BY <2>1 DEF LoginInv, Known, Early, Discarded, TypeOK, Held, Entries, InFlight, Retiring, Beginning
  <2>4. StoredOnce(y)'
    BY <2>1 DEF LoginInv, StoredOnce, Discarded
  <2> QED BY <2>2, <2>3, <2>4 DEF LoginInv
<1>3. Held' \subseteq Held
  BY DEF Inv, TypeOK, Discarded, Held, Entries, InFlight, Retiring, Beginning
<1>4. FiniteHeld'
  BY <1>3, FewerHeld DEF Inv
<1>5. NoneIsLeft'
  BY DEF Inv, NoneIsLeft, Discarded, Entries
<1> QED BY <1>1, <1>2, <1>4, <1>5 DEF Inv

LEMMA PasteInv ==
  ASSUME Inv, NEW x \in Login, Paste(x)
  PROVE  Inv'
<1> USE DEF storeVars, helperVars, pathVars, historyVars
<1>1. TypeOK'
  BY DEF Inv, TypeOK, Paste, Path
<1>2. ASSUME NEW y \in Login PROVE LoginInv(y)'
  <2>1. LoginInv(y) /\ LoginInv(x) /\ TypeOK
    BY DEF Inv
  <2>2. Early(y)'
    BY <2>1 DEF LoginInv, Early, Paste, TypeOK
  <2>3. Known(y)'
    BY <2>1 DEF LoginInv, Known, Paste, Held, Entries, InFlight, Retiring
  <2>4. StoredOnce(y)'
    BY <2>1 DEF LoginInv, StoredOnce, Paste
  <2> QED BY <2>2, <2>3, <2>4 DEF LoginInv
<1>3. Held' \subseteq Held
  BY DEF Paste, Held, Entries, InFlight, Retiring
<1>4. FiniteHeld'
  BY <1>3, FewerHeld DEF Inv
<1>5. NoneIsLeft'
  BY DEF Inv, NoneIsLeft, Paste, Entries
<1> QED BY <1>1, <1>2, <1>4, <1>5 DEF Inv

\* Who waits for a token has its challenge.
LEMMA WaitingHasBegun ==
  ASSUME Inv, NEW x \in Login, NEW p \in Path, <<x, p>> \in waiting \cup joined
  PROVE  stage[x] = "begun"
BY DEF Inv, LoginInv, Early

LEMMA TokenCameInv ==
  ASSUME Inv, NEW x \in Login, NEW p \in Path, TokenCame(x, p)
  PROVE  Inv'
<1> USE DEF storeVars, helperVars, pathVars, historyVars, Ends, Disposed, Free, Joins, Evicted
<1>0. stage[x] = "begun"
  BY WaitingHasBegun DEF TokenCame
<1>1. TypeOK'
  BY DEF Inv, TypeOK, TokenCame, Path
<1>2. ASSUME NEW y \in Login PROVE LoginInv(y)'
  <2>1. LoginInv(y) /\ LoginInv(x) /\ TypeOK
    BY DEF Inv
  <2>2. Early(y)'
    BY <1>0, <2>1 DEF LoginInv, Early, TokenCame, TypeOK
  <2>3. Known(y)'
    BY <1>0, <2>1 DEF LoginInv, Known, TokenCame, TypeOK, Held, Entries, InFlight, Retiring
  <2>4. StoredOnce(y)'
    BY <2>1 DEF LoginInv, StoredOnce, TokenCame, TypeOK, Path
  <2> QED BY <2>2, <2>3, <2>4 DEF LoginInv
<1>3. Held' \subseteq Held
  BY <1>0 DEF Inv, LoginInv, Known, TypeOK, TokenCame, Held, Entries, InFlight, Retiring
<1>4. FiniteHeld'
  BY <1>3, FewerHeld DEF Inv
<1>5. NoneIsLeft'
  BY DEF Inv, TypeOK, NoneIsLeft, TokenCame, Entries
<1> QED BY <1>1, <1>2, <1>4, <1>5 DEF Inv

LEMMA CancelsInv ==
  ASSUME Inv, NEW S \in SUBSET Login, Cancels(S), waiting' \subseteq waiting,
         sweep' \in SUBSET Login, stopping' \in BOOLEAN, stopping' => stopping \/ S = Entries,
         UNCHANGED <<stage, outcome, expired, winner, committed, joined, closing, stored, unknown>>
  PROVE  Inv'
<1> USE DEF Cancels, Disposed
<1>1. TypeOK'
  BY DEF Inv, TypeOK, Entries
<1>2. ASSUME NEW y \in Login PROVE LoginInv(y)'
  <2>1. LoginInv(y) /\ TypeOK
    BY DEF Inv
  <2>2. Early(y)'
    BY <2>1 DEF LoginInv, Early, TypeOK, Entries
  <2>3. Known(y)'
    BY <2>1 DEF LoginInv, Known, Early, TypeOK, Held, Entries, InFlight, Retiring
  <2>4. StoredOnce(y)'
    BY <2>1 DEF LoginInv, StoredOnce, TypeOK, Entries
  <2> QED BY <2>2, <2>3, <2>4 DEF LoginInv
<1>3. Held' \subseteq Held
  BY DEF Held, Entries, InFlight, Retiring
<1>4. FiniteHeld'
  BY <1>3, FewerHeld DEF Inv
<1>5. NoneIsLeft'
  BY DEF Inv, NoneIsLeft, Entries
<1> QED BY <1>1, <1>2, <1>4, <1>5 DEF Inv

\* A path that ends without a login, of the background or a paste.
LEMMA EndsInv ==
  ASSUME Inv, NEW x \in Login, stage[x] = "begun", NEW paths \in SUBSET Path,
         NEW status \in {"success", "error", "expired"}, Ends(paths, x, status),
         status = "success" => stored[x] = 1,
         waiting' \subseteq waiting, joined' \subseteq joined,
         winner' \in [Login -> Path \cup {"none"}], committed' \subseteq committed,
         \A y \in Login : winner'[y] # winner[y] =>
           y = x /\ winner'[y] = "none" /\ y \notin committed',
         UNCHANGED <<stage, storeVars, helper, sweep, stopping, historyVars>>
  PROVE  Inv'
<1> USE DEF storeVars, historyVars, Ends, Disposed
<1>1. TypeOK'
  BY DEF Inv, TypeOK
<1>2. ASSUME NEW y \in Login PROVE LoginInv(y)'
  <2>1. LoginInv(y) /\ LoginInv(x) /\ TypeOK
    BY DEF Inv
  <2>2. Early(y)'
    BY <2>1 DEF LoginInv, Early, TypeOK
  <2>3. Known(y)'
    BY <2>1 DEF LoginInv, Known, TypeOK, Held, Entries, InFlight, Retiring
  <2>4. StoredOnce(y)'
    BY <2>1 DEF LoginInv, StoredOnce, TypeOK
  <2> QED BY <2>2, <2>3, <2>4 DEF LoginInv
<1>3. Held' \subseteq Held
  BY DEF Inv, LoginInv, Known, TypeOK, Held, Entries, InFlight, Retiring
<1>4. FiniteHeld'
  BY <1>3, FewerHeld DEF Inv
<1>5. NoneIsLeft'
  BY DEF Inv, NoneIsLeft, Entries
<1> QED BY <1>1, <1>2, <1>4, <1>5 DEF Inv

LEMMA TokenFailedInv ==
  ASSUME Inv, NEW x \in Login, NEW p \in Path, NEW status \in {"error", "expired"},
         TokenFailed(x, p, status)
  PROVE  Inv'
<1>1. stage[x] = "begun" /\ waiting' \subseteq waiting
  BY WaitingHasBegun DEF TokenFailed
<1>2. CASE Cancels({x}) /\ UNCHANGED closing
  <2>1. sweep' \in SUBSET Login /\ stopping' \in BOOLEAN /\ (stopping' => stopping)
    BY DEF TokenFailed, Inv, TypeOK
  <2> QED BY <1>1, <1>2, <2>1, CancelsInv DEF TokenFailed
<1>3. CASE Ends({p}, x, status) /\ UNCHANGED <<entry, cancelled>>
  <2>1. winner' \in [Login -> Path \cup {"none"}] /\ winner' = winner /\ joined' = joined
        /\ committed' = committed
    BY DEF TokenFailed, Inv, TypeOK
  <2>2. UNCHANGED <<stage, storeVars, helper, sweep, stopping, historyVars>>
    BY <1>3 DEF TokenFailed, storeVars, historyVars
  <2> QED BY <1>1, <1>3, <2>1, <2>2, EndsInv
<1> QED BY <1>2, <1>3 DEF TokenFailed

LEMMA StoredInv ==
  ASSUME Inv, NEW x \in Login, Stored(x)
  PROVE  Inv'
<1> USE DEF Disposed, Commits
<1>1. TypeOK'
  BY DEF Inv, TypeOK, Stored
<1>2. ASSUME NEW y \in Login PROVE LoginInv(y)'
  <2>1. LoginInv(y) /\ LoginInv(x) /\ TypeOK
    BY DEF Inv
  <2>2. Early(y)'
    BY <2>1 DEF LoginInv, Early, Stored, TypeOK
  <2>3. Known(y)'
    BY <2>1 DEF LoginInv, Known, Early, Stored, TypeOK, Held, Entries, InFlight, Retiring
  <2>4. StoredOnce(y)'
    BY <2>1 DEF LoginInv, StoredOnce, Stored, TypeOK
  <2> QED BY <2>2, <2>3, <2>4 DEF LoginInv
<1>3. Held' \subseteq Held
  BY DEF Inv, TypeOK, Stored, Held, Entries, InFlight, Retiring
<1>4. FiniteHeld'
  BY <1>3, FewerHeld DEF Inv
<1>5. NoneIsLeft'
  BY DEF Inv, TypeOK, NoneIsLeft, Stored, Entries
<1> QED BY <1>1, <1>2, <1>4, <1>5 DEF Inv

\* Whoever stores has its challenge.
LEMMA WinnerHasBegun ==
  ASSUME Inv, NEW x \in Login, winner[x] # "none" \/ closing[x] # "none" \/ x \in committed
  PROVE  stage[x] = "begun"
BY DEF Inv, LoginInv, Early

LEMMA SettlingEndsInv ==
  ASSUME Inv, NEW x \in Login, StoreFailed(x) \/ Settled(x)
  PROVE  Inv'
<1>1. stage[x] = "begun"
  BY WinnerHasBegun DEF StoreFailed, Settled
<1>2. PICK status \in {"success", "error", "expired"} :
        Ends(Paths(x), x, status) /\ (status = "success" => stored[x] = 1)
  BY DEF StoreFailed, Settled, Inv, LoginInv, StoredOnce
<1>3. /\ winner' = [winner EXCEPT ![x] = "none"] /\ joined' \subseteq joined
      /\ committed' \subseteq committed /\ x \notin committed' /\ waiting' = waiting
      /\ UNCHANGED <<stage, storeVars, helper, sweep, stopping, historyVars>>
  BY DEF StoreFailed, Settled
<1>4. winner \in [Login -> Path \cup {"none"}]
  BY DEF Inv, TypeOK
<1>5. winner' \in [Login -> Path \cup {"none"}]
  BY <1>3, <1>4
<1>6. \A y \in Login : winner'[y] # winner[y] => y = x /\ winner'[y] = "none" /\ y \notin committed'
  BY <1>3, <1>4
<1>7. Paths(x) \in SUBSET Path
  BY DEF Paths
<1> QED BY <1>1, <1>2, <1>3, <1>5, <1>6, <1>7, EndsInv

LEMMA ClosedInv ==
  ASSUME Inv, NEW x \in Login, Closed(x)
  PROVE  Inv'
<1> USE DEF helperVars, historyVars, Evicted
<1>1. TypeOK'
  BY DEF Inv, TypeOK, Closed
<1>2. ASSUME NEW y \in Login PROVE LoginInv(y)'
  <2>1. LoginInv(y) /\ LoginInv(x) /\ TypeOK
    BY DEF Inv
  <2>2. Early(y)'
    BY <2>1 DEF LoginInv, Early, Closed, TypeOK
  <2>3. Known(y)'
    BY <2>1 DEF LoginInv, Known, Closed, TypeOK, Held, Entries, InFlight, Retiring
  <2>4. StoredOnce(y)'
    BY <2>1 DEF LoginInv, StoredOnce, Closed, TypeOK
  <2> QED BY <2>2, <2>3, <2>4 DEF LoginInv
<1>3. Held' \subseteq Held
  BY DEF Inv, TypeOK, Closed, Held, Entries, InFlight, Retiring
<1>4. FiniteHeld'
  BY <1>3, FewerHeld DEF Inv
<1>5. NoneIsLeft'
  BY DEF Inv, TypeOK, NoneIsLeft, Closed, Entries
<1> QED BY <1>1, <1>2, <1>4, <1>5 DEF Inv

LEMMA ExpireInv ==
  ASSUME Inv, NEW x \in Login, Expire(x)
  PROVE  Inv'
<1> USE DEF helperVars, historyVars, pathVars
<1>1. TypeOK'
  BY DEF Inv, TypeOK, Expire
<1>2. ASSUME NEW y \in Login PROVE LoginInv(y)'
  BY DEF Inv, LoginInv, Early, Known, StoredOnce, Expire, Held, Entries, InFlight, Retiring
<1>3. Held' \subseteq Held
  BY DEF Expire, Held, Entries, InFlight, Retiring
<1>4. FiniteHeld'
  BY <1>3, FewerHeld DEF Inv
<1>5. NoneIsLeft'
  BY DEF Inv, NoneIsLeft, Expire, Entries
<1> QED BY <1>1, <1>2, <1>4, <1>5 DEF Inv

LEMMA CancelInv ==
  ASSUME Inv, NEW x \in Login, Cancel(x)
  PROVE  Inv'
<1>1. sweep' \in SUBSET Login /\ stopping' \in BOOLEAN /\ (stopping' => stopping)
  BY DEF Cancel, Inv, TypeOK
<1> QED BY <1>1, CancelsInv DEF Cancel, pathVars

LEMMA PollInv ==
  ASSUME Inv, NEW x \in Login, Poll(x)
  PROVE  Inv'
<1> USE DEF helperVars, historyVars, pathVars, Evicted
<1>1. TypeOK'
  BY DEF Inv, TypeOK, Poll
<1>2. ASSUME NEW y \in Login PROVE LoginInv(y)'
  BY DEF Inv, TypeOK, LoginInv, Early, Known, StoredOnce, Poll, Held, Entries, InFlight, Retiring
<1>3. Held' \subseteq Held
  BY DEF Poll, Held, Entries, InFlight, Retiring
<1>4. FiniteHeld'
  BY <1>3, FewerHeld DEF Inv
<1>5. NoneIsLeft'
  BY DEF Inv, NoneIsLeft, Poll, Entries
<1> QED BY <1>1, <1>2, <1>4, <1>5 DEF Inv

\* All that is retiring is disposed, and the tombstones past expiresAt may go.
LEMMA RetriesInv ==
  ASSUME Inv, Disposed(Retiring), sweep' \in SUBSET Login,
         outcome' = outcome \/ outcome' = Evicted(outcome, Login),
         UNCHANGED <<stage, entry, expired, helper, pathVars, stopping, historyVars>>
  PROVE  Inv'
<1> USE DEF pathVars, historyVars, Disposed, Evicted
<1>1. TypeOK'
  BY DEF Inv, TypeOK
<1>2. ASSUME NEW y \in Login PROVE LoginInv(y)'
  <2>1. LoginInv(y) /\ TypeOK
    BY DEF Inv
  <2>2. outcome'[y] = outcome[y] \/ (outcome'[y] = "none" /\ y \in expired)
    BY DEF TypeOK
  <2>3. Early(y)' /\ Known(y)'
    BY <2>1, <2>2 DEF TypeOK, LoginInv, Early, Known, Held, Entries, InFlight, Retiring
  <2>4. StoredOnce(y)'
    BY <2>1, <2>2 DEF TypeOK, LoginInv, StoredOnce
  <2> QED BY <2>3, <2>4 DEF LoginInv
<1>3. Held' \subseteq Held
  BY DEF Held, Entries, InFlight, Retiring
<1>4. FiniteHeld'
  BY <1>3, FewerHeld DEF Inv
<1>5. NoneIsLeft'
  BY DEF Inv, NoneIsLeft, Entries
<1> QED BY <1>1, <1>2, <1>4, <1>5 DEF Inv

LEMMA SweepInv ==
  ASSUME Inv, Sweep \/ SweepContinues
  PROVE  Inv'
<1>1. CASE Sweep /\ sweep' = {}
  <2>1. UNCHANGED <<stage, entry, expired, helper, pathVars, stopping, historyVars>>
    BY <1>1 DEF Sweep, historyVars
  <2> QED BY <1>1, <2>1, RetriesInv DEF Sweep, Retried
<1>2. CASE Sweep /\ sweep' # {}
  <2>1. sweep' \in SUBSET Login /\ stopping' = stopping /\ stopping' \in BOOLEAN
    BY <1>2 DEF Sweep, Inv, TypeOK, Entries
  <2> QED BY <1>2, <2>1, CancelsInv DEF Sweep, pathVars
<1>3. CASE SweepContinues
  BY <1>3, RetriesInv DEF SweepContinues, Retried
<1> QED BY <1>1, <1>2, <1>3

LEMMA ShutdownInv ==
  ASSUME Inv, Shutdown \/ ShutdownContinues
  PROVE  Inv'
<1>1. CASE Shutdown
  <2>1. sweep' \in SUBSET Login /\ stopping' \in BOOLEAN /\ Entries \in SUBSET Login
    BY <1>1 DEF Shutdown, Inv, TypeOK, Entries
  <2> QED BY <1>1, <2>1, CancelsInv DEF Shutdown, pathVars
<1>2. CASE ShutdownContinues
  <2>1. sweep' \in SUBSET Login
    BY <1>2 DEF ShutdownContinues, Inv, TypeOK
  <2> QED BY <1>2, <2>1, RetriesInv DEF ShutdownContinues, storeVars
<1> QED BY <1>1, <1>2

-----------------------------------------------------------------------------
(* The theorems *)

LEMMA NextInv ==
  ASSUME Inv, [Next]_vars
  PROVE  Inv'
<1>1. CASE UNCHANGED vars
  BY <1>1 DEF vars, storeVars, helperVars, pathVars, historyVars, Inv, TypeOK, LoginInv, Early,
     Known, StoredOnce, FiniteHeld, NoneIsLeft, Held, Entries, InFlight, Retiring
<1>2. CASE Sweep \/ SweepContinues
  BY <1>2, SweepInv
<1>3. CASE Shutdown \/ ShutdownContinues
  BY <1>3, ShutdownInv
<1>4. ASSUME NEW x \in Login,
             Begin(x) \/ LoginProceeds(x) \/ Paste(x) \/ Poll(x) \/ Expire(x) \/ Cancel(x)
             \/ (\E ok \in BOOLEAN : DisposeEnds(x, ok)) \/ (\E p \in Path : AdapterAnswers(x, p))
      PROVE  Inv'
  <2>1. CASE Begin(x) \/ Paste(x) \/ Poll(x) \/ Expire(x) \/ Cancel(x)
    BY <2>1, BeginInv, PasteInv, PollInv, ExpireInv, CancelInv
  <2>2. CASE \E ok \in BOOLEAN : DisposeEnds(x, ok)
    BY <2>2, DisposeEndsInv
  <2>3. CASE \E p \in Path : AdapterAnswers(x, p)
    BY <2>3, TokenCameInv, TokenFailedInv DEF AdapterAnswers
  <2>4. CASE LoginProceeds(x)
    <3>1. CASE \E ok \in BOOLEAN : Opened(x, ok) \/ Challenged(x, ok)
      BY <3>1, OpenedInv, ChallengedInv
    <3>2. CASE Discarded(x) \/ Stored(x) \/ StoreFailed(x) \/ Settled(x) \/ Closed(x)
      BY <3>2, DiscardedInv, StoredInv, SettlingEndsInv, ClosedInv
    <3> QED BY <2>4, <3>1, <3>2 DEF LoginProceeds
  <2> QED BY <1>4, <2>1, <2>2, <2>3, <2>4
<1> QED BY <1>1, <1>2, <1>3, <1>4 DEF Next

(* The inductive invariant, in every reachable state. *)
THEOREM SessionInvariant == Spec => []Inv
BY InitInv, NextInv, PTL DEF Spec

(* Every variable has its type. *)
THEOREM TypeCorrect == Spec => []TypeOK
<1>1. Inv => TypeOK
  BY DEF Inv
<1> QED BY <1>1, SessionInvariant, PTL

(* For every number of logins and every limit, the helper holds at most    *)
(* AUTH_SESSION_MAX sessions, and each belongs to a login some map knows.  *)
THEOREM HelpersBounded == Spec => []HelpersAreBounded
<1>1. ASSUME Inv PROVE HelpersAreBounded
  <2> DEFINE open == {x \in Login : helper[x] = "open"}
  <2>1. \A x \in Login : helper[x] = "open" => x \in Held
    BY <1>1 DEF Inv, LoginInv, Known
  <2>2. open \subseteq Held /\ Held \in SUBSET Login /\ open \in SUBSET Login
    BY <2>1, FiniteLogins DEF Held
  <2>3. IsFiniteSet(Held) /\ Cardinality(Held) \in Nat /\ Cardinality(open) \in Nat
    BY <2>2, FiniteLogins
  <2>4. Cardinality(open) <= Cardinality(Held)
    BY <2>2, <2>3, FS_Subset
  <2>5. Cardinality(open) <= AUTH_SESSION_MAX
    <3> HIDE DEF open
    <3> QED BY <1>1, <2>3, <2>4, AuthConstants DEF Inv, FiniteHeld
  <2> QED BY <1>1, <2>1, <2>5 DEF HelpersAreBounded, Held, Inv
<1> QED BY <1>1, SessionInvariant, PTL

(* For every number of logins: a login is stored at most once and not      *)
(* after it was cancelled, and its outcome and its pastes are told so.     *)
THEOREM LoginHonest == Spec => []LoginIsHonest
<1>1. Inv => LoginIsHonest
  BY DEF Inv, TypeOK, LoginInv, StoredOnce, LoginIsHonest
<1> QED BY <1>1, SessionInvariant, PTL
=============================================================================
