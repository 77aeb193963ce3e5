---------------------- MODULE RuntimeCredentials_proofs ----------------------
(***************************************************************************)
(* Proofs about RuntimeCredentials: whatever is stored, replaced, revoked, *)
(* refreshed, failed, deleted or restarted when, a binding or a job leads  *)
(* to every secret in an instance that a row has named.                    *)
(***************************************************************************)
EXTENDS RuntimeCredentials, FiniteSetTheorems, TLAPS

OneActive == \A c, d \in Active : c = d

\* The binding of a credential that is replaced goes with its successor, and
\* only those of a revoked one wait for a teardown, which is under way.
BindingsLive ==
  /\ \A p \in bound : cred[p[2]] \in {"active", "revoked"}
  /\ \A p \in clearing : cred[p[2]] = "revoked" /\ box[p[1]] = "destroying"

\* A binding of this sandbox leads to the credential c.
Leads(b, c) == \E p \in bound : p[1] = b /\ line[p[2]] = line[c]

\* The row of a sandbox that got as far names its instance.
Up == {"starting", "injecting", "running", "stopped"}

\* What a sandbox got, or may get from a create that is under way: bindings lead
\* to it while the sandbox is not over; then a job does, or its row never named
\* the instance.  And nothing is in its hands before it is stored.
Backed(b) ==
  /\ \A c \in secret[b] : cred[c] # "none"
  /\ held[b] # 0 => cred[held[b]] # "none"
  /\ ~Over(b) => /\ \A c \in secret[b] : Leads(b, c)
                 /\ b \in making /\ held[b] # 0 => Leads(b, held[b])
  /\ Over(b) /\ secret[b] # {} => b \in job \cup abandoned
  /\ secret[b] # {} => b \in named \cup abandoned
  /\ box[b] \in Up => b \in named
  /\ box[b] = "none" => secret[b] = {} /\ held[b] = 0
  /\ box[b] = "creating" => b \in making
  /\ b \in making => box[b] \in {"creating", "destroying", "failed", "deleted"}

\* A refresh begins below the limit of failures and ends before the next.
RefreshCounts == refresh # 0 => fails[refresh] < REFRESH_FAILURE_LIMIT

Inv ==
  /\ TypeOK /\ blob = Active /\ OneActive /\ BindingsLive
  /\ RefreshCounts
  /\ \A b \in Sandbox : Backed(b)

-----------------------------------------------------------------------------
(* The inductive step, operation by operation *)

LEMMA Typed == TypeOK => \A p \in bound : p = <<p[1], p[2]>> /\ p[1] \in Sandbox /\ p[2] \in Cred
BY DEF TypeOK

LEMMA InitInv == Init => Inv
<1> SUFFICES ASSUME Init PROVE Inv
  OBVIOUS
<1>1. TypeOK
  BY CredentialConstants DEF Init, TypeOK, Boxes, Gone, Working, Cred
<1>2. Active = {}
  BY DEF Init, Active
<1>3. \A b \in Sandbox : Backed(b)
  BY DEF Init, Backed, Over, Gone, Up
<1> QED BY <1>1, <1>2, <1>3 DEF Init, Inv, OneActive, BindingsLive, RefreshCounts


\* The handler asks for teardowns, of the bindings of revoked credentials.

LEMMA ClearsInv ==
  ASSUME Inv, NEW S \in SUBSET bound,
         cred' \in [Cred -> {"none", "active", "revoked", "replaced"}], blob' = Active', OneActive',
         \A c \in Cred : cred'[c] # cred[c] => cred[c] = "active" /\ cred'[c] = "revoked",
         \A p \in S : cred'[p[2]] = "revoked",
         UNCHANGED <<age, fails, line, refresh, crashes>>, Clears(S)
  PROVE  Inv'
<1> USE DEF credVars, boxVars, instVars, handlerVars
<1>1. TypeOK'
  <2>1. cred' \in [Cred -> {"none", "active", "revoked", "replaced"}] /\ blob' \subseteq Cred
    BY DEF Active
  <2>2. box' \in [Sandbox -> Boxes]
    BY DEF Inv, TypeOK, Clears, Boxes
  <2>3. bound' \subseteq Sandbox \X Cred /\ clearing' \subseteq bound'
    BY DEF Inv, TypeOK, Clears
  <2> QED BY <2>1, <2>2, <2>3 DEF Inv, TypeOK, Clears
<1>2. blob' = Active' /\ OneActive'
  OBVIOUS
<1>3. BindingsLive'
  <2>1. \A p \in bound' : p \in bound /\ cred'[p[2]] \in {"active", "revoked"}
    BY Typed DEF Clears, Inv, BindingsLive, TypeOK
  <2>2. \A p \in clearing' : cred'[p[2]] = "revoked"
    BY Typed DEF Clears, Inv, BindingsLive, TypeOK
  <2>3. ASSUME NEW p \in clearing' PROVE box'[p[1]] = "destroying"
    <3>1. p[1] \in Sandbox /\ (p \in clearing => box[p[1]] = "destroying")
      BY Typed DEF Clears, Inv, BindingsLive, TypeOK
    <3> QED BY <3>1 DEF Clears
  <2> QED BY <2>1, <2>2, <2>3 DEF BindingsLive
<1>4. ASSUME NEW a \in Sandbox PROVE Backed(a)'
  <2>1. /\ Backed(a) /\ UNCHANGED <<held, secret, making, named, job, abandoned>>
        /\ secret[a] \in SUBSET Cred /\ held[a] \in {0} \cup Cred
    BY DEF Inv, Clears, TypeOK
  <2>2. \A p \in bound : p \notin bound' => p \in S /\ Over(p[1])
    BY DEF Clears
  <2>3. \A c \in Cred : Leads(a, c) => Over(a) \/ Leads(a, c)'
    BY <2>2 DEF Leads
  <2>4. box'[a] = box[a] \/ (box'[a] = "destroying" /\ ~Over(a))
    BY DEF Clears
  <2>5. \A c \in Cred : cred[c] # "none" => cred'[c] # "none"
    OBVIOUS
  <2>6. Over(a)' <=> Over(a)
    BY <2>4 DEF Over, Gone
  <2> QED BY <2>1, <2>3, <2>4, <2>5, <2>6 DEF Backed, Up
<1>5. RefreshCounts'
  BY DEF Inv, RefreshCounts
<1> QED BY <1>1, <1>2, <1>3, <1>4, <1>5 DEF Inv

LEMMA RevokeInv ==
  ASSUME Inv, NEW c \in Cred, Revoke(c)
  PROVE  Inv'
<1>1. /\ cred' = [cred EXCEPT ![c] = "revoked"] /\ c \in Active /\ blob' = blob \ {c}
      /\ cred \in [Cred -> {"none", "active", "revoked", "replaced"}]
      /\ UNCHANGED <<age, fails, line, refresh, crashes>>
  BY DEF Revoke, Inv, TypeOK
<1>2. /\ cred' \in [Cred -> {"none", "active", "revoked", "replaced"}]
      /\ \A d \in Cred : cred'[d] # cred[d] => cred[d] = "active" /\ cred'[d] = "revoked"
      /\ cred'[c] = "revoked"
  BY <1>1 DEF Active
<1>3. blob' = Active' /\ OneActive'
  BY <1>1 DEF Inv, OneActive, Active
<1>4. CASE Clears({p \in bound : p[2] = c})
  BY <1>1, <1>2, <1>3, <1>4, ClearsInv
<1>5. CASE UNCHANGED <<handlerVars, boxVars>>
  <2>1. TypeOK' /\ BindingsLive'
    BY <1>1, <1>2, <1>3, <1>5, Typed DEF Inv, TypeOK, BindingsLive, handlerVars, boxVars, instVars, Active
  <2>2. RefreshCounts'
    BY <1>1 DEF Inv, RefreshCounts
  <2>3. \A a \in Sandbox : Backed(a)'
    <3> TAKE a \in Sandbox
    <3>1. /\ UNCHANGED <<box, held, secret, bound, line, making, named, job, abandoned>>
          /\ Backed(a)
      BY <1>1, <1>5 DEF Inv, handlerVars, boxVars, instVars
    <3>2. secret[a] \in SUBSET Cred /\ held[a] \in {0} \cup Cred
      BY DEF Inv, TypeOK
    <3>3. \A d \in Cred : cred[d] # "none" => cred'[d] # "none"
      BY <1>2
    <3> QED BY <3>1, <3>2, <3>3 DEF Backed, Leads, Over
  <2> QED BY <1>3, <2>1, <2>2, <2>3 DEF Inv
<1> QED BY <1>4, <1>5 DEF Revoke

LEMMA RetryPendingInv ==
  ASSUME Inv, RetryPending
  PROVE  Inv'
<1>1. UNCHANGED <<cred, blob, age, fails, line, refresh, crashes>> /\ Clears(Pending)
  BY DEF RetryPending, credVars
<1>2. \A p \in Pending : cred[p[2]] = "revoked"
  BY DEF Pending, Inv, BindingsLive
<1>3. Active' = Active
  BY <1>1 DEF Active
<1>4. Pending \in SUBSET bound
  BY DEF Pending
<1> QED BY <1>1, <1>2, <1>3, <1>4, ClearsInv DEF Inv, TypeOK, OneActive

\* The active credential's successor inherits its bindings and its line.
LEMMA StoreInv ==
  ASSUME Inv, Store
  PROVE  Inv'
<1>1. PICK c \in Unused :
        /\ cred' = [d \in Cred |-> IF d = c THEN "active" ELSE IF d \in Active THEN "replaced"
                                   ELSE cred[d]]
        /\ blob' = (blob \ Active) \cup {c}
        /\ line' = [line EXCEPT ![c] =
                      IF Active = {} THEN c ELSE line[CHOOSE d \in Active : TRUE]]
        /\ bound' = Migrated(c)
        /\ UNCHANGED <<age, fails, boxVars, clearing, refresh, crashes>>
  BY DEF Store
<1>2. c \in Cred /\ cred[c] = "none" /\ c \notin Active /\ Active \subseteq Cred /\ TypeOK
  BY DEF Unused, Active, Inv
<1>3. PICK l \in Cred : /\ line' = [line EXCEPT ![c] = l]
                        /\ \A d \in Active : line[d] = l
  <2>1. CASE Active = {}
    BY <1>1, <1>2, <2>1
  <2>2. CASE Active # {}
    <3>1. (CHOOSE d \in Active : TRUE) \in Active
      BY <2>2
    <3>2. \A d \in Active : line[d] = line[CHOOSE e \in Active : TRUE]
      BY <3>1 DEF Inv, OneActive
    <3>3. line[CHOOSE e \in Active : TRUE] \in Cred
      BY <1>2, <3>1 DEF TypeOK
    <3> QED BY <1>1, <2>2, <3>2, <3>3
  <2> QED BY <2>1, <2>2
<1>4. line \in [Cred -> Cred] /\ line'[c] = l /\ (\A d \in Cred : d # c => line'[d] = line[d])
  BY <1>2, <1>3 DEF TypeOK
<1>5. /\ \A p \in bound : /\ p[1] \in Sandbox /\ p[2] \in Cred /\ p[2] # c
                          /\ p[2] \in Active => <<p[1], c>> \in bound'
                          /\ p[2] \notin Active => p \in bound'
      /\ \A q \in bound' : \E p \in bound :
           q = IF p[2] \in Active THEN <<p[1], c>> ELSE p
  BY <1>1, <1>2, Typed DEF Migrated, Inv, BindingsLive
<1>6. clearing' = clearing /\ clearing \subseteq bound'
  BY <1>1, <1>2, <1>5 DEF TypeOK, Inv, BindingsLive, Active
<1>7. TypeOK'
  <2>1. bound' \subseteq Sandbox \X Cred
    BY <1>2, <1>5 DEF TypeOK
  <2>2. cred' \in [Cred -> {"none", "active", "revoked", "replaced"}] /\ blob' \subseteq Cred
    BY <1>1, <1>2 DEF TypeOK
  <2>3. line' \in [Cred -> Cred]
    BY <1>2, <1>3 DEF TypeOK
  <2> QED BY <1>1, <1>2, <1>6, <2>1, <2>2, <2>3 DEF TypeOK, boxVars, instVars
<1>8. Active' = {c}
  BY <1>1, <1>2 DEF Active
<1>9. blob' = Active' /\ OneActive'
  BY <1>1, <1>8 DEF Inv, OneActive
<1>10. BindingsLive'
  <2>1. \A q \in bound' : cred'[q[2]] \in {"active", "revoked"}
    <3> SUFFICES ASSUME NEW q \in bound' PROVE cred'[q[2]] \in {"active", "revoked"}
      OBVIOUS
    <3>1. PICK p \in bound : q = IF p[2] \in Active THEN <<p[1], c>> ELSE p
      BY <1>5
    <3>2. CASE p[2] \in Active
      BY <1>1, <1>2, <3>1, <3>2
    <3>3. CASE p[2] \notin Active
      <4>1. cred'[p[2]] = cred[p[2]]
        BY <1>1, <1>5, <3>3
      <4> QED BY <3>1, <3>3, <4>1 DEF Inv, BindingsLive
    <3> QED BY <3>2, <3>3
  <2>2. \A p \in clearing : cred'[p[2]] = "revoked" /\ box'[p[1]] = "destroying"
    BY <1>1, <1>2, Typed DEF Inv, BindingsLive, TypeOK, Active, boxVars
  <2> QED BY <1>6, <2>1, <2>2 DEF BindingsLive
<1>11. ASSUME NEW a \in Sandbox PROVE Backed(a)'
  <2>1. \A d \in Cred : d # c /\ Leads(a, d) => Leads(a, d)'
    <3> SUFFICES ASSUME NEW d \in Cred, d # c, NEW p \in bound, p[1] = a, line[p[2]] = line[d]
                 PROVE  \E q \in bound' : q[1] = a /\ line'[q[2]] = line'[d]
      BY DEF Leads
    <3>1. CASE p[2] \in Active
      <4>1. <<p[1], c>> \in bound' /\ p[2] \in Cred
        BY <1>5, <3>1
      <4>2. line'[c] = l /\ line[p[2]] = l /\ line'[d] = line[d]
        BY <1>3, <1>4, <3>1
      <4>3. <<p[1], c>>[1] = a /\ <<p[1], c>>[2] = c
        OBVIOUS
      <4> QED BY <4>1, <4>2, <4>3
    <3>2. CASE p[2] \notin Active
      BY <1>4, <1>5, <3>2
    <3> QED BY <3>1, <3>2
  <2>2. \A d \in secret[a] : d \in Cred /\ d # c
    BY <1>2 DEF Inv, Backed, TypeOK
  <2>3. held[a] # 0 => held[a] \in Cred /\ held[a] # c
    BY <1>2 DEF Inv, Backed, TypeOK
  <2>4. UNCHANGED <<box, held, secret, making, named, job, abandoned>>
    BY <1>1 DEF boxVars, instVars
  <2>5. \A d \in Cred : cred[d] # "none" => cred'[d] # "none"
    BY <1>1
  <2> QED BY <2>1, <2>2, <2>3, <2>4, <2>5 DEF Inv, Backed, Over
<1>12. RefreshCounts'
  BY <1>1 DEF Inv, RefreshCounts
<1> QED BY <1>7, <1>9, <1>10, <1>11, <1>12 DEF Inv

-----------------------------------------------------------------------------
(* Steps that leave the rows' status and the instances alone *)

LEMMA QuietInv ==
  ASSUME Inv, TypeOK', RefreshCounts', blob' = blob, clearing' \subseteq clearing,
         UNCHANGED <<cred, line, bound, box, held, secret, making, named, job, abandoned>>
  PROVE  Inv'
<1>1. blob' = Active' /\ OneActive'
  BY DEF Inv, OneActive, Active
<1>2. BindingsLive'
  BY DEF Inv, BindingsLive
<1>3. \A a \in Sandbox : Backed(a)'
  BY DEF Inv, Backed, Leads, Over
<1> QED BY <1>1, <1>2, <1>3 DEF Inv

LEMMA ClearGivesUpInv ==
  ASSUME Inv, NEW p \in clearing, ClearGivesUp(p)
  PROVE  Inv'
<1>1. TypeOK' /\ RefreshCounts'
  BY DEF ClearGivesUp, Inv, TypeOK, RefreshCounts, credVars, boxVars, instVars
<1> QED BY <1>1, QuietInv DEF ClearGivesUp, credVars, boxVars, instVars

LEMMA AgesInv ==
  ASSUME Inv, NEW c \in Cred, Ages(c)
  PROVE  Inv'
<1>1. age' \in [Cred -> {"fresh", "due", "expired"}]
  BY DEF Ages, Inv, TypeOK
<1>2. TypeOK' /\ RefreshCounts'
  BY <1>1 DEF Ages, Inv, TypeOK, RefreshCounts, boxVars, instVars, handlerVars
<1> QED BY <1>2, QuietInv DEF Ages, boxVars, instVars, handlerVars

LEMMA RefreshStartsInv ==
  ASSUME Inv, NEW c \in Cred, RefreshStarts(c)
  PROVE  Inv'
<1>1. TypeOK' /\ RefreshCounts'
  BY DEF RefreshStarts, Inv, TypeOK, RefreshCounts, credVars, boxVars, instVars, handlerVars
<1> QED BY <1>1, QuietInv DEF RefreshStarts, credVars, boxVars, instVars, handlerVars

LEMMA RefreshEndsInv ==
  ASSUME Inv, Refreshed \/ RefreshFails \/ RefreshSkipped
  PROVE  Inv'
<1>1. /\ refresh \in Cred /\ refresh' = 0
      /\ UNCHANGED <<cred, line, bound, clearing, box, held, secret, making, named, job,
                     abandoned, crashes>>
  BY DEF Refreshed, RefreshFails, RefreshSkipped, Inv, TypeOK, credVars, boxVars, instVars,
         handlerVars
<1>2. fails[refresh] \in Nat /\ fails[refresh] < REFRESH_FAILURE_LIMIT
  BY <1>1 DEF Inv, TypeOK, RefreshCounts, Cred
<1>3. \/ fails' = fails
      \/ fails' = [fails EXCEPT ![refresh] = 0]
      \/ fails' = [fails EXCEPT ![refresh] = @ + 1]
  BY DEF Refreshed, RefreshFails, RefreshSkipped, credVars
<1>4. fails' \in [Cred -> 0..REFRESH_FAILURE_LIMIT]
  <2>1. fails \in [Cred -> 0..REFRESH_FAILURE_LIMIT] /\ REFRESH_FAILURE_LIMIT \in Nat
    BY CredentialConstants DEF Inv, TypeOK
  <2>2. 0 \in 0..REFRESH_FAILURE_LIMIT /\ fails[refresh] + 1 \in 0..REFRESH_FAILURE_LIMIT
    BY <1>2, <2>1
  <2> QED BY <1>1, <1>3, <2>1, <2>2
<1>5. blob' = blob /\ age' \in [Cred -> {"fresh", "due", "expired"}]
  <2>1. /\ blob' = blob \/ (refresh \in Active /\ blob' = blob \cup {refresh})
        /\ age' = age \/ age' = [age EXCEPT ![refresh] = "fresh"]
    BY DEF Refreshed, RefreshFails, RefreshSkipped, AcceptsCiphertext, credVars
  <2>2. blob = Active /\ age \in [Cred -> {"fresh", "due", "expired"}]
    BY DEF Inv, TypeOK
  <2> QED BY <2>1, <2>2
<1>6. TypeOK' /\ RefreshCounts'
  BY <1>1, <1>4, <1>5 DEF Inv, TypeOK, RefreshCounts
<1> QED BY <1>1, <1>5, <1>6, QuietInv

-----------------------------------------------------------------------------
(* Steps of one sandbox *)

\* A step of the sandbox b leaves the others alone.
Elsewhere(b) ==
  \A a \in Sandbox \ {b} :
    /\ box'[a] = box[a] /\ held'[a] = held[a] /\ secret'[a] = secret[a]
    /\ (a \in making' <=> a \in making) /\ (a \in named' <=> a \in named)
    /\ (a \in job' <=> a \in job) /\ (a \in abandoned' <=> a \in abandoned)

\* New bindings are to the active credential, and one goes with its sandbox;
\* a teardown that a binding waits for does not end unseen.
LEMMA BoxInv ==
  ASSUME Inv, NEW b \in Sandbox, TypeOK', Backed(b)', UNCHANGED <<cred, blob, fails, line, refresh>>,
         clearing' \subseteq clearing,
         box'[b] = box[b] \/ box[b] # "destroying" \/ (\A p \in clearing' : p[1] # b),
         \A p \in bound' : p \in bound \/ p[2] \in Active,
         \A p \in bound : p[1] # b => p \in bound',
         Elsewhere(b)
  PROVE  Inv'
<1>1. blob' = Active' /\ OneActive' /\ RefreshCounts'
  BY DEF Inv, OneActive, Active, RefreshCounts
<1>2. BindingsLive'
  <2>1. \A p \in bound' : cred'[p[2]] \in {"active", "revoked"}
    BY DEF Inv, BindingsLive, Active
  <2>2. ASSUME NEW p \in clearing' PROVE cred'[p[2]] = "revoked" /\ box'[p[1]] = "destroying"
    <3>1. p \in clearing /\ cred[p[2]] = "revoked" /\ box[p[1]] = "destroying"
      BY DEF Inv, BindingsLive
    <3>2. p[1] \in Sandbox
      BY <3>1, Typed DEF Inv, TypeOK
    <3> QED BY <3>1, <3>2 DEF Elsewhere
  <2> QED BY <2>1, <2>2 DEF BindingsLive
<1>3. ASSUME NEW a \in Sandbox PROVE Backed(a)'
  <2>1. CASE a = b
    BY <2>1
  <2>2. CASE a # b
    <3>1. \A c : Leads(a, c) => Leads(a, c)'
      BY <2>2 DEF Leads
    <3>2. Backed(a)
      BY DEF Inv
    <3>3. /\ box'[a] = box[a] /\ held'[a] = held[a] /\ secret'[a] = secret[a]
          /\ (a \in making' <=> a \in making) /\ (a \in named' <=> a \in named)
          /\ (a \in job' <=> a \in job) /\ (a \in abandoned' <=> a \in abandoned)
      BY <2>2 DEF Elsewhere
    <3> QED BY <3>1, <3>2, <3>3 DEF Backed, Over
  <2> QED BY <2>1, <2>2
<1> QED BY <1>1, <1>2, <1>3 DEF Inv

\* An active credential that is bound leads to itself.
LEMMA BoundLeads ==
  ASSUME Inv, NEW b \in Sandbox, NEW c \in Cred, Usable(c), bound' = Bound(b, c), line' = line
  PROVE  /\ Leads(b, c)' /\ \A d : Leads(b, d) => Leads(b, d)'
         /\ \A p \in bound' : p \in bound \/ p[2] \in Active
         /\ bound \subseteq bound' /\ bound' \subseteq Sandbox \X Cred
         /\ cred[c] = "active"
<1>1. <<b, c>> \in bound' /\ bound' = bound \cup {<<b, c>>} /\ <<b, c>>[1] = b /\ <<b, c>>[2] = c
  BY DEF Bound
<1>2. Leads(b, c)'
  BY <1>1 DEF Leads
<1>3. \A d : Leads(b, d) => Leads(b, d)'
  BY <1>1 DEF Leads
<1> QED BY <1>1, <1>2, <1>3 DEF Usable, Active, Inv, TypeOK

LEMMA ProvisionInv ==
  ASSUME Inv, NEW b \in Sandbox, Provision(b)
  PROVE  Inv'
<1>1. /\ box[b] = "none" /\ box' = [box EXCEPT ![b] = "creating"] /\ secret[b] = {} /\ held[b] = 0
      /\ box' \in [Sandbox -> Boxes] /\ making' = making \cup {b}
      /\ UNCHANGED <<cred, blob, age, fails, line, secret, named, job, abandoned, clearing,
                     refresh, crashes>>
  BY DEF Provision, Inv, TypeOK, Backed, Boxes, Working, credVars
<1>2. CASE UNCHANGED <<held, bound>>
  <2>1. TypeOK' /\ box'[b] = "creating" /\ held'[b] = 0 /\ secret'[b] = {}
    BY <1>1, <1>2 DEF Inv, TypeOK
  <2>2. Backed(b)'
    BY <1>1, <2>1 DEF Backed, Over, Gone, Up
  <2>3. Elsewhere(b)
    BY <1>1, <1>2 DEF Elsewhere, Inv, TypeOK
  <2> QED BY <1>1, <1>2, <2>1, <2>2, <2>3, BoxInv
<1>3. ASSUME NEW c \in Cred, Usable(c), held' = [held EXCEPT ![b] = c], bound' = Bound(b, c)
      PROVE  Inv'
  <2>1. TypeOK'
    BY <1>1, <1>3, BoundLeads DEF Inv, TypeOK
  <2>2. held'[b] = c /\ secret'[b] = {} /\ box'[b] = "creating"
    BY <1>1, <1>3 DEF Inv, TypeOK
  <2>3. Backed(b)'
    BY <1>1, <1>3, <2>2, BoundLeads DEF Backed, Over, Gone, Up
  <2>4. Elsewhere(b)
    BY <1>1, <1>3 DEF Elsewhere, Inv, TypeOK
  <2> QED BY <1>1, <1>3, <2>1, <2>3, <2>4, BoxInv, BoundLeads
<1> QED BY <1>2, <1>3 DEF Provision

\* The instance carries what its create was given, and the row names it.
LEMMA CreatedInv ==
  ASSUME Inv, NEW b \in Sandbox, Created(b)
  PROVE  Inv'
<1>1. /\ box[b] = "creating" /\ box' = [box EXCEPT ![b] = "starting"]
      /\ secret' = [secret EXCEPT ![b] = secret[b] \cup ({held[b]} \ {0})]
      /\ making' = making \ {b} /\ named' = named \cup {b}
      /\ UNCHANGED <<cred, blob, age, fails, line, held, job, abandoned, bound, clearing, refresh,
                     crashes>>
  BY DEF Created, Into, credVars, handlerVars
<1>2. held[b] \in {0} \cup Cred /\ secret[b] \in SUBSET Cred /\ Backed(b)
  BY DEF Inv, TypeOK
<1>3. TypeOK'
  <2>1. box' \in [Sandbox -> Boxes] /\ secret' \in [Sandbox -> SUBSET Cred]
    BY <1>1, <1>2 DEF Inv, TypeOK, Boxes, Working
  <2> QED BY <1>1, <2>1 DEF Inv, TypeOK
<1>4. box'[b] = "starting" /\ secret'[b] = secret[b] \cup ({held[b]} \ {0})
  BY <1>1 DEF Inv, TypeOK
<1>5. Backed(b)'
  BY <1>1, <1>2, <1>4 DEF Backed, Over, Gone, Leads
<1>6. Elsewhere(b)
  BY <1>1 DEF Elsewhere, Inv, TypeOK
<1> QED BY <1>1, <1>3, <1>5, <1>6, BoxInv

\* A late instance is handed to the teardown, removed, or lost.
LEMMA CreatedLateInv ==
  ASSUME Inv, NEW b \in Sandbox, CreatedLate(b)
  PROVE  Inv'
<1>1. /\ b \in making /\ box[b] # "creating" /\ making' = making \ {b}
      /\ held' = [held EXCEPT ![b] = 0]
      /\ UNCHANGED <<cred, blob, age, fails, line, box, job, bound, clearing, refresh, crashes>>
      /\ \/ UNCHANGED <<named, abandoned, secret>>
         \/ /\ secret' = [secret EXCEPT ![b] = secret[b] \cup ({held[b]} \ {0})]
            /\ \/ box[b] = "destroying" /\ named' = named \cup {b} /\ abandoned' = abandoned
               \/ abandoned' = abandoned \cup {b} /\ named' = named
  BY DEF CreatedLate, Into, credVars, handlerVars
<1>2. held[b] \in {0} \cup Cred /\ secret[b] \in SUBSET Cred /\ Backed(b)
  BY DEF Inv, TypeOK
<1>3. PICK got \in SUBSET Cred : /\ secret' = [secret EXCEPT ![b] = got]
                                 /\ got = secret[b] \/ got = secret[b] \cup ({held[b]} \ {0})
  <2>1. secret = [secret EXCEPT ![b] = secret[b]]
    BY DEF Inv, TypeOK
  <2> QED BY <1>1, <1>2, <2>1
<1>4. TypeOK'
  BY <1>1, <1>3 DEF Inv, TypeOK
<1>5. box'[b] = box[b] /\ held'[b] = 0 /\ secret'[b] = got
  BY <1>1, <1>3 DEF Inv, TypeOK
<1>6. Elsewhere(b)
  BY <1>1, <1>3 DEF Elsewhere, Inv, TypeOK
<1>7. Backed(b)'
  <2>1. \A c \in got : cred'[c] # "none"
    BY <1>1, <1>2, <1>3 DEF Backed
  <2>2. ~Over(b) => \A c \in got : Leads(b, c)'
    BY <1>1, <1>2, <1>3 DEF Backed, Leads
  <2>3. UNCHANGED <<secret, abandoned, named>> \/ b \in named' \cup abandoned'
    BY <1>1
  <2>4. Over(b) => UNCHANGED <<secret, abandoned>> \/ b \in abandoned'
    BY <1>1 DEF Over, Gone
  <2> QED BY <1>1, <1>2, <1>3, <1>5, <2>1, <2>2, <2>3, <2>4 DEF Backed, Over, Up
<1> QED BY <1>1, <1>4, <1>6, <1>7, BoxInv

LEMMA InjectStartsInv ==
  ASSUME Inv, NEW b \in Sandbox, InjectStarts(b)
  PROVE  Inv'
<1>1. /\ box[b] = "starting" /\ box' = [box EXCEPT ![b] = "injecting"]
      /\ UNCHANGED <<cred, blob, age, fails, line, held, making, named, job, abandoned, clearing,
                     refresh, crashes>>
  BY DEF InjectStarts, credVars, instVars
<1>2. held[b] \in {0} \cup Cred /\ secret[b] \in SUBSET Cred /\ Backed(b) /\ b \notin making
  BY <1>1 DEF Inv, TypeOK, Backed
<1>3. box' \in [Sandbox -> Boxes] /\ box'[b] = "injecting"
  BY <1>1 DEF Inv, TypeOK, Boxes, Working
<1>4. CASE held[b] = 0 /\ UNCHANGED <<bound, secret>>
  <2>1. TypeOK' /\ Backed(b)'
    BY <1>1, <1>2, <1>3, <1>4 DEF Inv, TypeOK, Backed, Over, Gone, Leads, Up
  <2>2. Elsewhere(b)
    BY <1>1, <1>4 DEF Elsewhere, Inv, TypeOK
  <2> QED BY <1>1, <1>4, <2>1, <2>2, BoxInv
<1>5. CASE held[b] # 0 /\ Usable(held[b]) /\ bound' = Bound(b, held[b]) /\ secret' = Into(b)
  <2>1. /\ held[b] \in Cred /\ secret'[b] = secret[b] \cup {held[b]}
        /\ secret' \in [Sandbox -> SUBSET Cred]
    BY <1>2, <1>5 DEF Into, Inv, TypeOK
  <2>2. /\ Leads(b, held[b])' /\ \A d : Leads(b, d) => Leads(b, d)'
        /\ \A p \in bound' : p \in bound \/ p[2] \in Active
        /\ bound \subseteq bound' /\ bound' \subseteq Sandbox \X Cred /\ cred[held[b]] = "active"
    <3>1. PICK c \in Cred : c = held[b]
      BY <2>1
    <3>2. Usable(c) /\ bound' = Bound(b, c) /\ line' = line /\ held'[b] = c
      BY <1>1, <1>5, <3>1
    <3>3. /\ Leads(b, c)' /\ \A d : Leads(b, d) => Leads(b, d)'
          /\ \A p \in bound' : p \in bound \/ p[2] \in Active
          /\ bound \subseteq bound' /\ bound' \subseteq Sandbox \X Cred /\ cred[c] = "active"
      BY <3>2, BoundLeads
    <3> QED BY <3>1, <3>2, <3>3 DEF Leads
  <2>3. TypeOK'
    BY <1>1, <1>3, <2>1, <2>2 DEF Inv, TypeOK
  <2>4. Backed(b)'
    <3>1. \A d \in secret[b] : cred[d] # "none" /\ Leads(b, d)'
      BY <1>1, <1>2, <2>2 DEF Backed, Over, Gone
    <3>2. held' = held /\ cred' = cred
      BY <1>1
    <3>3. \A d \in secret'[b] : cred'[d] # "none" /\ Leads(b, d)'
      BY <2>1, <2>2, <3>1, <3>2 DEF Leads
    <3>4. b \in named'
      BY <1>1, <1>2 DEF Backed, Up
    <3> QED BY <1>1, <1>2, <1>3, <2>2, <3>2, <3>3, <3>4 DEF Backed, Over, Gone, Up
  <2>5. Elsewhere(b)
    BY <1>1, <1>5 DEF Elsewhere, Into, Inv, TypeOK
  <2> QED BY <1>1, <2>2, <2>3, <2>4, <2>5, BoxInv
<1> QED BY <1>4, <1>5 DEF InjectStarts

\* The ends of a workflow, and the requests of the user.
LEMMA RestsInv ==
  ASSUME Inv, NEW b \in Sandbox, InjectEnds(b) \/ Fails(b) \/ Stops(b) \/ Starts(b) \/ UserDestroys(b)
  PROVE  Inv'
<1>1. /\ UNCHANGED <<cred, blob, age, fails, line, named, job, abandoned, bound, clearing, refresh,
                     crashes>>
      /\ box[b] \in Boxes \ (Gone \cup {"destroying"})
      /\ Backed(b) /\ held[b] \in {0} \cup Cred /\ secret[b] \in SUBSET Cred
  BY DEF InjectEnds, Fails, Stops, Starts, UserDestroys, Over, Inv, TypeOK, Boxes, Gone, Working,
         credVars, instVars, handlerVars
<1>2. PICK status \in {"running", "failed", "stopped", "starting", "destroying"} :
        /\ box' = [box EXCEPT ![b] = status]
        /\ status \in {"running", "stopped", "starting"} => box[b] \in {"injecting", "running", "stopped"}
        /\ status = "destroying" \/ b \notin making'
        /\ making' \in {making, making \ {b}}
  <2>1. CASE InjectEnds(b) \/ Stops(b) \/ Starts(b)
    BY <1>1, <2>1 DEF InjectEnds, Stops, Starts, Backed, instVars
  <2>2. CASE Fails(b)
    BY <2>2 DEF Fails
  <2>3. CASE UserDestroys(b)
    BY <2>3 DEF UserDestroys, instVars
  <2> QED BY <2>1, <2>2, <2>3
<1>3. PICK h \in {0, held[b]} \cup Active :
        /\ held' = [held EXCEPT ![b] = h]
        /\ b \in making' => h = held[b]
  <2>1. held = [held EXCEPT ![b] = held[b]]
    BY DEF Inv, TypeOK
  <2>2. CASE InjectEnds(b) \/ Fails(b)
    BY <1>1, <1>2, <2>2 DEF InjectEnds, Fails, instVars, Backed
  <2>3. CASE Starts(b)
    BY <1>1, <2>1, <2>3 DEF Starts, Usable, instVars, Backed
  <2>4. CASE Stops(b) \/ UserDestroys(b)
    BY <2>1, <2>4 DEF Stops, UserDestroys
  <2> QED BY <2>2, <2>3, <2>4
<1>4. PICK got \in SUBSET secret[b] : secret' = [secret EXCEPT ![b] = got]
  <2>1. secret = [secret EXCEPT ![b] = secret[b]]
    BY DEF Inv, TypeOK
  <2> QED BY <2>1 DEF InjectEnds, Fails, Stops, Starts, UserDestroys
<1>5. box'[b] = status /\ held'[b] = h /\ secret'[b] = got /\ h \in {0} \cup Cred /\ Elsewhere(b)
  BY <1>1, <1>2, <1>3, <1>4 DEF Elsewhere, Inv, TypeOK, Active
<1>6. TypeOK'
  <2>1. box' \in [Sandbox -> Boxes] /\ making' \subseteq Sandbox
    BY <1>2 DEF Inv, TypeOK, Boxes, Working
  <2>2. held' \in [Sandbox -> {0} \cup Cred] /\ secret' \in [Sandbox -> SUBSET Cred]
    BY <1>1, <1>3, <1>4, <1>5 DEF Inv, TypeOK
  <2> QED BY <1>1, <2>1, <2>2 DEF Inv, TypeOK
<1>7. Backed(b)'
  <2>1. ~Over(b) /\ ~Over(b)'
    BY <1>1, <1>2, <1>5 DEF Over, Gone
  <2>2. \A c \in got : cred'[c] # "none" /\ Leads(b, c)'
    BY <1>1, <1>4, <2>1 DEF Backed, Leads
  <2>3. h # 0 => cred'[h] # "none"
    BY <1>1, <1>3 DEF Backed, Active
  <2>4. b \in making' /\ h # 0 => Leads(b, h)'
    BY <1>1, <1>2, <1>3, <2>1 DEF Backed, Leads
  <2>5. status \in Up => b \in named'
    BY <1>1, <1>2 DEF Backed, Up
  <2>6. got # {} => b \in named' \cup abandoned'
    BY <1>1, <1>4 DEF Backed
  <2> QED BY <1>2, <1>5, <2>1, <2>2, <2>3, <2>4, <2>5, <2>6 DEF Backed
<1> QED BY <1>1, <1>5, <1>6, <1>7, BoxInv

\* A teardown that succeeds removed the instance, or no row named it.
LEMMA DestroyEndsInv ==
  ASSUME Inv, NEW b \in Sandbox, NEW gone \in BOOLEAN, DestroyEnds(b, gone)
  PROVE  Inv'
<1>1. /\ box[b] = "destroying" /\ (gone => b \notin making)
      /\ box' = [box EXCEPT ![b] = IF gone THEN "destroyed" ELSE "failed"]
      /\ held' = [held EXCEPT ![b] = IF b \in making THEN held[b] ELSE 0]
      /\ secret' = [secret EXCEPT ![b] = IF gone /\ b \in named THEN {} ELSE secret[b]]
      /\ bound' = bound \ Cleared(b, gone) /\ clearing' = {p \in clearing : p[1] # b}
      /\ UNCHANGED <<cred, blob, age, fails, line, making, named, job, abandoned, refresh, crashes>>
  BY DEF DestroyEnds, credVars, instVars
<1>2. /\ box' \in [Sandbox -> Boxes] /\ held' \in [Sandbox -> {0} \cup Cred]
      /\ secret' \in [Sandbox -> SUBSET Cred]
      /\ box'[b] = (IF gone THEN "destroyed" ELSE "failed")
      /\ held'[b] = (IF b \in making THEN held[b] ELSE 0)
      /\ secret'[b] = IF gone /\ b \in named THEN {} ELSE secret[b]
      /\ Elsewhere(b)
  BY <1>1 DEF Elsewhere, Inv, TypeOK, Boxes, Gone, Working
<1>3. /\ bound' \subseteq bound /\ clearing' \subseteq bound' /\ clearing' \subseteq clearing
      /\ \A p \in bound : p[1] # b => p \in bound'
      /\ \A p \in clearing' : p[1] # b
      /\ ~gone => bound' = bound
  BY <1>1 DEF Cleared, Inv, TypeOK
<1>4. TypeOK'
  BY <1>1, <1>2, <1>3 DEF Inv, TypeOK
<1>5. Backed(b)'
  <2>1. Backed(b)
    BY DEF Inv
  <2>2. CASE gone
    <3>1. Over(b)' /\ b \notin making' /\ held'[b] = 0 /\ box'[b] = "destroyed"
      BY <1>1, <1>2, <2>2 DEF Over, Gone
    <3>2. secret'[b] # {} => secret'[b] = secret[b] /\ b \in abandoned'
      BY <1>1, <1>2, <2>1, <2>2 DEF Backed
    <3> QED BY <1>1, <2>1, <3>1, <3>2 DEF Backed, Up
  <2>3. CASE ~gone
    <3>1. ~Over(b) /\ ~Over(b)' /\ box'[b] = "failed" /\ secret'[b] = secret[b]
      BY <1>1, <1>2, <2>3 DEF Over, Gone
    <3> QED BY <1>1, <1>2, <1>3, <2>1, <2>3, <3>1 DEF Backed, Leads, Up
  <2> QED BY <2>2, <2>3
<1> QED BY <1>1, <1>2, <1>3, <1>4, <1>5, BoxInv

\* A deleted sandbox's instance has a job, if the row named it.
LEMMA DeleteProjectInv ==
  ASSUME Inv, NEW b \in Sandbox, DeleteProject(b)
  PROVE  Inv'
<1>1. /\ box[b] \in {"stopped", "failed", "destroyed"} /\ box' = [box EXCEPT ![b] = "deleted"]
      /\ bound' = {p \in bound : p[1] # b} /\ job' = IF b \in named THEN job \cup {b} ELSE job
      /\ UNCHANGED <<cred, blob, age, fails, line, held, secret, making, named, abandoned, clearing,
                     refresh, crashes>>
  BY DEF DeleteProject, credVars
<1>2. \A p \in clearing : p[1] # b
  BY <1>1 DEF Inv, BindingsLive
<1>3. box' \in [Sandbox -> Boxes] /\ box'[b] = "deleted" /\ Elsewhere(b)
  BY <1>1 DEF Elsewhere, Inv, TypeOK, Boxes, Gone
<1>4. TypeOK'
  BY <1>1, <1>2, <1>3 DEF Inv, TypeOK
<1>5. Backed(b)'
  <2>1. Backed(b) /\ Over(b)'
    BY <1>3 DEF Inv, Over, Gone
  <2>2. secret'[b] # {} => b \in job' \cup abandoned'
    BY <1>1, <2>1 DEF Backed
  <2> QED BY <1>1, <1>3, <2>1, <2>2 DEF Backed, Up
<1> QED BY <1>1, <1>2, <1>3, <1>4, <1>5, BoxInv

LEMMA JobCleanedInv ==
  ASSUME Inv, NEW b \in Sandbox, JobCleaned(b)
  PROVE  Inv'
<1>1. /\ job' = job \ {b} /\ secret' = [secret EXCEPT ![b] = {}]
      /\ UNCHANGED <<cred, blob, age, fails, line, box, held, making, named, abandoned, bound,
                     clearing, refresh, crashes>>
  BY DEF JobCleaned, credVars, handlerVars
<1>2. TypeOK' /\ secret'[b] = {} /\ Elsewhere(b)
  BY <1>1 DEF Elsewhere, Inv, TypeOK
<1>3. Backed(b)'
  BY <1>1, <1>2 DEF Inv, Backed, Over, Leads
<1> QED BY <1>1, <1>2, <1>3, BoxInv

\* Every workflow ends; an instance that was being made has its secret, and
\* bindings lead to it until its row is destroyed without it.
LEMMA RestartInv ==
  ASSUME Inv, Restart
  PROVE  Inv'
<1>1. PICK made \in SUBSET making, removed \in SUBSET Sandbox :
        /\ secret' = [a \in Sandbox |-> IF a \in removed THEN {}
                                        ELSE IF a \in made THEN Into(a)[a] ELSE secret[a]]
        /\ abandoned' = abandoned \cup (made \ removed)
  BY DEF Restart
<1>2. /\ clearing' = {} /\ refresh' = 0 /\ held' = [a \in Sandbox |-> 0] /\ making' = {}
      /\ box' = [a \in Sandbox |-> IF box[a] \in Working \cup {"destroying"} THEN "cut" ELSE box[a]]
      /\ UNCHANGED <<cred, blob, age, fails, line, named, job, bound>>
  BY DEF Restart, credVars
<1>3. \A a \in Sandbox : Into(a)[a] = secret[a] \cup ({held[a]} \ {0})
  BY DEF Into, Inv, TypeOK
<1>4. TypeOK'
  <2>1. crashes' \in 0..MaxCrashes
    BY CredentialConstants DEF Restart, Inv, TypeOK
  <2>2. box' \in [Sandbox -> Boxes] /\ held' \in [Sandbox -> {0} \cup Cred]
    BY <1>2 DEF Inv, TypeOK, Boxes
  <2>3. secret' \in [Sandbox -> SUBSET Cred] /\ abandoned' \subseteq Sandbox
    BY <1>1, <1>3 DEF Inv, TypeOK
  <2> QED BY <1>2, <2>1, <2>2, <2>3 DEF Inv, TypeOK
<1>5. blob' = Active' /\ OneActive' /\ BindingsLive' /\ RefreshCounts'
  BY <1>2 DEF Inv, OneActive, Active, BindingsLive, RefreshCounts
<1>6. ASSUME NEW a \in Sandbox PROVE Backed(a)'
  <2>1. Backed(a) /\ held'[a] = 0 /\ making' = {}
    BY <1>2 DEF Inv
  <2>2. \A c \in secret'[a] :
          c \in secret[a] \/ (a \in made /\ a \in abandoned' /\ c = held[a] /\ held[a] # 0)
    BY <1>1, <1>3
  <2>3. Over(a)' <=> Over(a)
    BY <1>2 DEF Over, Gone, Working
  <2>4. \A c \in secret'[a] : cred'[c] # "none" /\ (~Over(a) => Leads(a, c)')
    BY <1>1, <1>2, <2>1, <2>2 DEF Backed, Leads
  <2>5. /\ Over(a) /\ secret'[a] # {} => a \in job' \cup abandoned'
        /\ secret'[a] # {} => a \in named' \cup abandoned'
    BY <1>1, <1>2, <2>1, <2>2 DEF Backed
  <2>6. /\ box'[a] = "none" => secret'[a] = {}
        /\ box'[a] # "creating" /\ (box'[a] \in Up => a \in named')
    BY <1>2, <2>1, <2>2, <1>1 DEF Backed, Up, Working
  <2> QED BY <2>1, <2>3, <2>4, <2>5, <2>6 DEF Backed
<1> QED BY <1>4, <1>5, <1>6 DEF Inv

-----------------------------------------------------------------------------
(* The theorems *)

LEMMA NextInv == Inv /\ [Next]_vars => Inv'
<1> SUFFICES ASSUME Inv, [Next]_vars PROVE Inv'
  OBVIOUS
<1>1. CASE Store \/ RetryPending \/ Restart
  BY <1>1, StoreInv, RetryPendingInv, RestartInv
<1>2. CASE Refreshed \/ RefreshFails \/ RefreshSkipped
  BY <1>2, RefreshEndsInv
<1>3. CASE \E c \in Cred : Revoke(c) \/ Ages(c) \/ RefreshStarts(c)
  BY <1>3, RevokeInv, AgesInv, RefreshStartsInv
<1>4. CASE \E p \in clearing : ClearGivesUp(p)
  BY <1>4, ClearGivesUpInv
<1>5. ASSUME NEW b \in Sandbox,
             \/ Provision(b) \/ Stops(b) \/ Starts(b) \/ UserDestroys(b) \/ BoxProceeds(b)
             \/ DeleteProject(b) \/ JobCleaned(b)
      PROVE  Inv'
  <2>1. CASE Provision(b)
    BY <2>1, ProvisionInv
  <2>2. CASE Stops(b) \/ Starts(b) \/ UserDestroys(b)
    BY <2>2, RestsInv
  <2>3. CASE BoxProceeds(b)
    BY <2>3, CreatedInv, CreatedLateInv, InjectStartsInv, RestsInv, DestroyEndsInv DEF BoxProceeds
  <2>4. CASE DeleteProject(b) \/ JobCleaned(b)
    BY <2>4, DeleteProjectInv, JobCleanedInv
  <2> QED BY <1>5, <2>1, <2>2, <2>3, <2>4
<1>6. CASE UNCHANGED vars
  <2>1. TypeOK' /\ RefreshCounts'
    BY <1>6 DEF Inv, TypeOK, RefreshCounts, vars, credVars, boxVars, instVars, handlerVars
  <2> QED BY <1>6, <2>1, QuietInv DEF vars, credVars, boxVars, instVars, handlerVars
<1> QED BY <1>1, <1>2, <1>3, <1>4, <1>5, <1>6 DEF Next

(* Inv holds in every state: what the secrets' accounting rests on. *)
THEOREM CredentialInvariant == Spec => []Inv
BY InitInv, NextInv, PTL DEF Spec

(* Every row, binding, sandbox and counter keeps its type. *)
THEOREM TypeCorrect == Spec => []TypeOK
<1>1. Inv => TypeOK
  BY DEF Inv
<1> QED BY <1>1, CredentialInvariant, PTL

(* For any sandboxes, credentials, failures, deletions and restarts: a     *)
(* binding leads to every secret in an instance, to the credential it has  *)
(* become, or a job removes it, or the instance was lost to a create that  *)
(* answered too late; and at most one credential holds ciphertext.         *)
THEOREM SecretsAccounted == Spec => []SecretsAreAccounted
<1>1. ASSUME Inv PROVE EverySecretIsBound
  <2> SUFFICES ASSUME NEW b \in Sandbox, NEW c \in secret[b]
               PROVE  Told(b, c) \/ b \in job \/ (b \in abandoned /\ Over(b))
    BY DEF EverySecretIsBound
  <2>1. Backed(b)
    BY <1>1 DEF Inv
  <2>2. CASE Over(b)
    BY <2>1, <2>2 DEF Backed
  <2>3. CASE ~Over(b)
    <3>1. PICK p \in bound : p[1] = b /\ line[p[2]] = line[c]
      BY <2>1, <2>3 DEF Backed, Leads
    <3>2. cred[p[2]] \in {"active", "revoked"}
      BY <1>1 DEF Inv, BindingsLive
    <3> QED BY <3>1, <3>2 DEF Told
  <2> QED BY <2>2, <2>3
<1>2. ASSUME Inv PROVE RevokedIsErased
  <2>1. blob = Active /\ \A c, d \in Active : c = d
    BY <1>2 DEF Inv, OneActive
  <2>2. CASE Active = {}
    <3>1. Cardinality({}) = 0
      BY FS_EmptySet
    <3> QED BY <2>1, <2>2, <3>1 DEF RevokedIsErased
  <2>3. CASE Active # {}
    <3>1. PICK c \in Active : TRUE
      BY <2>3
    <3>2. Active = {c}
      BY <2>1, <3>1
    <3>3. Cardinality({c}) = 1
      BY FS_Singleton
    <3> QED BY <2>1, <3>2, <3>3 DEF RevokedIsErased
  <2> QED BY <2>2, <2>3
<1>3. Inv => SecretsAreAccounted
  BY <1>1, <1>2 DEF SecretsAreAccounted
<1> QED BY <1>3, CredentialInvariant, PTL
=============================================================================
