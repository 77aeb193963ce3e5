------------------------ MODULE ImageCatalogue_proofs ------------------------
(***************************************************************************)
(* Proofs about ImageCatalogue: for any images, bits, tags and tasks, and  *)
(* however many rows and validations, what a stale row can write back.     *)
(***************************************************************************)
EXTENDS ImageCatalogue, FiniteSetTheorems, TLAPS

\* What of a row is never written again (I-IMG-7).
SameCoordinate(a, b) ==
  a.image = b.image /\ a.version = b.version /\ a.digest = b.digest /\ a.lineage = b.lineage

Ids == DOMAIN row \subseteq 1..born /\ DOMAIN images \subseteq 1..born

\* The unique indexes of the two tables.
RowsDiffer ==
  \A i, j \in DOMAIN row :
    i # j /\ row[i].image = row[j].image
    => row[i].digest # row[j].digest /\ ~(row[i].version = row[j].version /\ row[i].active /\ row[j].active)
NamesDiffer == \A m, n \in DOMAIN images : images[m].name = images[n].name => m = n

RowHasImage == \A i \in DOMAIN row : row[i].image \in DOMAIN images
ImageHasRow == \A m \in DOMAIN images : \E i \in DOMAIN row : row[i].image = m

\* A validation holds a version that may be gone, but is no other.
CopiesMatch ==
  \A call \in validating :
    /\ call.id <= born
    /\ call.id \in DOMAIN row => SameCoordinate(call.copy, row[call.id])
    /\ \A c \in validating : c.id = call.id => SameCoordinate(c.copy, call.copy)

\* The lineage of a row, or of a copy of one, leads to an image of the platform.
Descends(r) ==
  r.lineage # NoLineage =>
    \E j \in Roots : row[j].digest = r.lineage /\ IsPrefix(Layers[r.lineage], Layers[r.digest])

Judged == \A i \in DOMAIN row : row[i].verdict.of = row[i].digest
RowsDescend == \A i \in DOMAIN row : Descends(row[i])
CopiesDescend == \A call \in validating : Descends(call.copy)

Inv ==
  /\ TypeOK /\ Ids /\ RowsDiffer /\ NamesDiffer /\ RowHasImage /\ ImageHasRow
  /\ CopiesMatch /\ Judged /\ RowsDescend /\ CopiesDescend /\ TaskHasImage

-----------------------------------------------------------------------------
(* What the steps have in common *)

LEMMA InitInv == Init => Inv
<1> SUFFICES ASSUME Init PROVE Inv
  OBVIOUS
<1>1. DOMAIN row = {} /\ DOMAIN images = {} /\ validating = {}
  BY DEF Init
<1>2. TypeOK
  <2>1. task \in [Sandbox -> [at : {"none", "admitted", "live", "destroyed"}, image : Id \cup {0}]]
    BY DEF Init
  <2> QED BY <1>1, <2>1, CatalogueConstants DEF Init, TypeOK
<1>3. TaskHasImage
  BY DEF Init, TaskHasImage
<1> QED BY <1>1, <1>2, <1>3 DEF Inv, Ids, RowsDiffer, NamesDiffer, RowHasImage, ImageHasRow,
         CopiesMatch, Judged, RowsDescend, CopiesDescend

\* Where the versions of the platform's images stay, so does every lineage.
LEMMA LineageStays ==
  ASSUME TypeOK, RowHasImage,
         \A i \in Roots : i \in DOMAIN row' /\ SameCoordinate(row'[i], row[i]),
         \A m \in DOMAIN images : images[m].builtin => m \in DOMAIN images' /\ images'[m] = images[m],
         NEW r, Descends(r)
  PROVE  Descends(r)'
<1>1. \A i \in Roots : i \in Roots' /\ row'[i].digest = row[i].digest
  BY DEF Roots, RowHasImage, SameCoordinate
<1> QED BY <1>1 DEF Descends

\* A step that changes neither table; it may begin or end validations.
LEMMA QuietInv ==
  ASSUME Inv, UNCHANGED <<images, row, born>>,
         \A call \in validating' \ validating : call.id \in DOMAIN row /\ call = [id |-> call.id, copy |-> row[call.id]],
         TypeOK', TaskHasImage'
  PROVE  Inv'
<1>1. \A r : Descends(r)' <=> Descends(r)
  BY DEF Inv, Descends, Roots
<1>2. CopiesMatch'
  BY DEF Inv, CopiesMatch, Ids, SameCoordinate, TypeOK
<1>3. CopiesDescend' /\ RowsDescend'
  BY <1>1 DEF Inv, CopiesDescend, RowsDescend
<1>4. Ids' /\ RowsDiffer' /\ NamesDiffer' /\ RowHasImage' /\ ImageHasRow' /\ Judged'
  BY DEF Inv, Ids, RowsDiffer, NamesDiffer, RowHasImage, ImageHasRow, Judged
<1> QED BY <1>2, <1>3, <1>4 DEF Inv

\* A step that inserts at most the row i and edits others: no coordinate of
\* theirs changes, and every verdict is about the bits of its row.
LEMMA SavedInv ==
  ASSUME Inv, NEW i \in Id, NEW new \in Row,
         i <= born', born' \in born..MaxRows, DOMAIN images' \subseteq 1..born',
         \A m \in DOMAIN images : m \in DOMAIN images' /\ images'[m] = images[m],
         \A m \in DOMAIN images' : images'[m] \in [name : Repo, builtin : BOOLEAN],
         \A m \in DOMAIN images' \ DOMAIN images : m = new.image /\ i \notin DOMAIN row,
         new.image \in DOMAIN images', NamesDiffer', RowsDiffer',
         row' = Saved(i, new), new.verdict.of = new.digest, Descends(new)',
         i \in DOMAIN row => SameCoordinate(new, row[i]),
         i \notin DOMAIN row => \A call \in validating : call.id = i => SameCoordinate(call.copy, new),
         validating' \subseteq validating, seeding' \subseteq Builtin, UNCHANGED <<task, crashes>>
  PROVE  Inv'
<1>1. /\ DOMAIN row' = DOMAIN row \cup {i}
      /\ \A j \in DOMAIN row : SameCoordinate(row'[j], row[j])
      /\ \A j \in DOMAIN row : j # i => row'[j] = row[j]
      /\ SameCoordinate(row'[i], new) /\ row'[i].verdict = new.verdict
  BY DEF Saved, SameCoordinate, Inv, TypeOK, Row
<1>2. TypeOK'
  <2>1. ASSUME NEW j \in DOMAIN row' PROVE row'[j] \in Row
    <3>1. CASE j # i
      BY <1>1, <3>1 DEF Inv, TypeOK
    <3>2. CASE j = i /\ i \notin DOMAIN row
      BY <3>2 DEF Saved
    <3>3. CASE j = i /\ i \in DOMAIN row
      <4>1. row[i] \in Row
        BY <3>3 DEF Inv, TypeOK
      <4>2. row'[i] = [row[i] EXCEPT !.verdict = new.verdict, !.active = new.active, !.config = new.config]
        BY <3>3 DEF Saved
      <4> QED BY <3>3, <4>1, <4>2 DEF Row
    <3> QED BY <3>1, <3>2, <3>3
  <2>2. \A call \in validating' : call \in [id : Id, copy : Row]
    BY DEF Inv, TypeOK
  <2>3. DOMAIN row' \subseteq Id /\ DOMAIN images' \subseteq Id /\ born' \in 0..MaxRows
    BY <1>1, CatalogueConstants DEF Inv, TypeOK, Id
  <2> QED BY <2>1, <2>2, <2>3 DEF Inv, TypeOK
<1>3. Ids'
  BY <1>1, CatalogueConstants DEF Inv, Ids, TypeOK, Id
<1>4. RowHasImage' /\ ImageHasRow'
  BY <1>1 DEF Inv, RowHasImage, ImageHasRow, SameCoordinate
<1>5. CopiesMatch'
  <2>1. \A call \in validating' : call.id <= born'
    BY CatalogueConstants DEF Inv, CopiesMatch, TypeOK, Id
  <2>2. ASSUME NEW call \in validating', call.id \in DOMAIN row'
        PROVE  SameCoordinate(call.copy, row'[call.id])
    BY <1>1, <2>2 DEF Inv, CopiesMatch, SameCoordinate
  <2>3. \A call, c \in validating' : c.id = call.id => SameCoordinate(c.copy, call.copy)
    BY DEF Inv, CopiesMatch
  <2> QED BY <2>1, <2>2, <2>3 DEF CopiesMatch
<1>6. Judged'
  BY <1>1 DEF Inv, Judged, SameCoordinate
<1>7. \A r : Descends(r) => Descends(r)'
  <2>1. /\ \A j \in Roots : j \in DOMAIN row' /\ SameCoordinate(row'[j], row[j])
        /\ \A m \in DOMAIN images : images[m].builtin => m \in DOMAIN images' /\ images'[m] = images[m]
    BY <1>1 DEF Roots
  <2> QED BY <2>1, LineageStays DEF Inv
<1>8. RowsDescend' /\ CopiesDescend'
  <2>1. ASSUME NEW j \in DOMAIN row', NEW r, r = row'[j] PROVE Descends(r)'
    <3>1. CASE j = i
      BY <1>1, <2>1, <3>1 DEF Descends, SameCoordinate
    <3>2. CASE j # i
      <4>1. Descends(r)
        BY <1>1, <2>1, <3>2 DEF Inv, RowsDescend
      <4> QED BY <4>1, <1>7
    <3> QED BY <3>1, <3>2
  <2>2. CopiesDescend'
    <3>1. \A call \in validating' : Descends(call.copy)
      BY DEF Inv, CopiesDescend
    <3> QED BY <3>1, <1>7 DEF CopiesDescend
  <2>3. RowsDescend'
    BY <2>1 DEF RowsDescend, Descends
  <2> QED BY <2>2, <2>3
<1>9. TaskHasImage'
  BY <1>1 DEF Inv, TaskHasImage
<1> QED BY <1>2, <1>3, <1>4, <1>5, <1>6, <1>8, <1>9 DEF Inv

\* A step that edits rows: neither a coordinate nor a verdict.
LEMMA EditInv ==
  ASSUME Inv, UNCHANGED <<images, born, validating, task, crashes>>, seeding' \subseteq Builtin,
         DOMAIN row' = DOMAIN row,
         \A j \in DOMAIN row : /\ row'[j] \in Row /\ SameCoordinate(row'[j], row[j])
                               /\ row'[j].verdict = row[j].verdict,
         RowsDiffer'
  PROVE  Inv'
<1>1. TypeOK'
  BY DEF Inv, TypeOK
<1>2. Ids' /\ NamesDiffer' /\ RowHasImage' /\ ImageHasRow' /\ Judged'
  BY DEF Inv, Ids, NamesDiffer, RowHasImage, ImageHasRow, Judged, SameCoordinate
<1>3. CopiesMatch' /\ TaskHasImage'
  BY DEF Inv, CopiesMatch, TaskHasImage, SameCoordinate
<1>4. \A r : Descends(r) => Descends(r)'
  <2>1. /\ \A j \in Roots : j \in DOMAIN row' /\ SameCoordinate(row'[j], row[j])
        /\ \A m \in DOMAIN images : images[m].builtin => m \in DOMAIN images' /\ images'[m] = images[m]
    BY DEF Roots
  <2> QED BY <2>1, LineageStays DEF Inv
<1>5. RowsDescend'
  <2>1. ASSUME NEW j \in DOMAIN row, NEW r, r = row'[j] PROVE Descends(r)'
    <3>1. Descends(row[j])
      BY DEF Inv, RowsDescend
    <3>2. Descends(r)
      BY <2>1, <3>1 DEF Descends, SameCoordinate
    <3> QED BY <3>2, <1>4
  <2> QED BY <2>1 DEF RowsDescend, Descends
<1>6. CopiesDescend'
  <2>1. \A call \in validating : Descends(call.copy)
    BY DEF Inv, CopiesDescend
  <2> QED BY <2>1, <1>4 DEF CopiesDescend
<1> QED BY <1>1, <1>2, <1>3, <1>5, <1>6 DEF Inv

-----------------------------------------------------------------------------
(* Registering *)

LEMMA KnownInv ==
  ASSUME Inv, NEW r \in Repo, NEW t \in Tag, NEW d \in Digest, RegisterKnown(r, t, d),
         UNCHANGED <<validating, task, crashes>>, seeding' \subseteq Builtin
  PROVE  Inv'
<1>1. PICK m \in Named(r), c \in Inherited(r, t), i \in DOMAIN row :
        /\ i \in VersionsOf(m)
        /\ row' = IF row[i].config = NoConfig THEN [row EXCEPT ![i].config = c] ELSE row
        /\ UNCHANGED <<images, born>>
  BY DEF RegisterKnown, VersionsOf
<1>2. c \in Config \cup {NoConfig} /\ i \in DOMAIN row
  BY <1>1 DEF Inherited, VersionsOf, Inv, TypeOK, Row
<1>3. row[i] \in Row /\ [row[i] EXCEPT !.config = c] \in Row
  <2>1. row[i] \in Row
    BY <1>2 DEF Inv, TypeOK
  <2> QED BY <1>2, <2>1 DEF Row
<1>4. /\ DOMAIN row' = DOMAIN row
      /\ \A j \in DOMAIN row : row'[j] = row[j] \/ (j = i /\ row'[j] = [row[i] EXCEPT !.config = c])
  BY <1>1, <1>2
<1>5. \A j \in DOMAIN row : /\ row'[j] \in Row /\ SameCoordinate(row'[j], row[j])
                            /\ row'[j].verdict = row[j].verdict /\ row'[j].active = row[j].active
  BY <1>3, <1>4 DEF Inv, TypeOK, SameCoordinate, Row
<1>6. RowsDiffer'
  BY <1>4, <1>5 DEF Inv, RowsDiffer, SameCoordinate
<1> QED BY <1>1, <1>4, <1>5, <1>6, EditInv

LEMMA NewInv ==
  ASSUME Inv, NEW r \in Repo, NEW t \in Tag, NEW d \in Digest, NEW root \in BOOLEAN,
         RegisterNew(r, t, d, root), UNCHANGED <<validating, task, crashes>>, seeding' \subseteq Builtin
  PROVE  Inv'
<1>1. PICK n : n = born'
  OBVIOUS
<1>2. n = born + 1 /\ n \in Id /\ n \notin DOMAIN row /\ n \notin DOMAIN images /\ born' \in born..MaxRows
  BY <1>1, CatalogueConstants DEF RegisterNew, Inv, TypeOK, Ids, Id
<1>3. PICK m \in IF Named(r) = {} THEN {born'} ELSE Named(r), c \in Inherited(r, t),
           base \in IF root THEN {NoLineage} ELSE Lineages(d) :
        /\ images' = [k \in DOMAIN images \cup {m} |->
                        IF k \in DOMAIN images THEN images[k] ELSE [name |-> r, builtin |-> root]]
        /\ row' = Saved(born', [image |-> m, version |-> t, digest |-> d, lineage |-> base,
                                verdict |-> [of |-> d, ok |-> TRUE],
                                active |-> Current(m, t) = {}, config |-> c])
  BY DEF RegisterNew
<1>4. PICK new : new = [image |-> m, version |-> t, digest |-> d, lineage |-> base,
                        verdict |-> [of |-> d, ok |-> TRUE],
                        active |-> Current(m, t) = {}, config |-> c]
  OBVIOUS
<1>5. c \in Config \cup {NoConfig}
  BY DEF Inherited, VersionsOf, Inv, TypeOK, Row
<1>6. base \in Digest \cup {NoLineage}
  BY DEF Lineages, Roots, Inv, TypeOK, Row
<1>7. m \in Id /\ (m = n \/ m \in DOMAIN images)
  BY <1>1, <1>2, <1>3 DEF Named, Inv, TypeOK
<1>8. new \in Row
  BY <1>4, <1>5, <1>6, <1>7 DEF Row
<1>9. /\ DOMAIN images' = DOMAIN images \cup {m}
      /\ \A k \in DOMAIN images : images'[k] = images[k]
      /\ m \notin DOMAIN images => images'[m] = [name |-> r, builtin |-> root]
  BY <1>3
<1>10. DOMAIN images' \subseteq 1..born' /\ \A k \in DOMAIN images' : images'[k] \in [name : Repo, builtin : BOOLEAN]
  BY <1>1, <1>2, <1>7, <1>9 DEF Inv, TypeOK, Ids
<1>11. NamesDiffer'
  <2>1. m \notin DOMAIN images => \A k \in DOMAIN images : images[k].name # r
    BY <1>3 DEF Named
  <2> QED BY <1>9, <2>1 DEF Inv, NamesDiffer
<1>12. \A j \in VersionsOf(m) : row[j].digest # d /\ (new.active => ~(row[j].version = t /\ row[j].active))
  <2>1. m \in Named(r) \/ VersionsOf(m) = {}
    BY <1>1, <1>2, <1>3 DEF VersionsOf, Inv, RowHasImage
  <2>2. \A j \in VersionsOf(m) : row[j].digest # d
    BY <2>1 DEF RegisterNew
  <2> QED BY <1>4, <2>2 DEF Current
<1>13. RowsDiffer'
  <2>1. DOMAIN row' = DOMAIN row \cup {n} /\ row'[n] = new /\ \A j \in DOMAIN row : row'[j] = row[j]
    BY <1>1, <1>2, <1>3, <1>4 DEF Saved
  <2>2. \A j \in DOMAIN row : row[j].image = m =>
           row[j].digest # new.digest /\ ~(row[j].version = new.version /\ row[j].active /\ new.active)
    BY <1>4, <1>12 DEF VersionsOf
  <2>3. new.image = m
    BY <1>4
  <2> QED BY <1>2, <2>1, <2>2, <2>3 DEF Inv, RowsDiffer
<1>14. Descends(new)'
  <2>1. CASE new.lineage = NoLineage
    BY <2>1 DEF Descends
  <2>2. CASE new.lineage # NoLineage
    <3>1. base \in Lineages(d)
      BY <1>4, <2>2
    <3>2. Descends(new)
      BY <1>4, <3>1 DEF Lineages, IsDerivedFrom, Descends
    <3>3. \A j \in Roots : j \in DOMAIN row' /\ SameCoordinate(row'[j], row[j])
      BY <1>1, <1>2, <1>3 DEF Saved, Roots, SameCoordinate
    <3> QED BY <1>9, <3>2, <3>3, LineageStays DEF Inv
  <2> QED BY <2>1, <2>2
<1>15. \A call \in validating : call.id # n
  BY <1>2 DEF Inv, CopiesMatch, TypeOK
<1>16. n <= born'
  BY <1>1, <1>2
<1>17. \A k \in DOMAIN images' \ DOMAIN images : k = new.image /\ n \notin DOMAIN row
  BY <1>2, <1>4, <1>9
<1>18. new.image \in DOMAIN images' /\ new.verdict.of = new.digest /\ row' = Saved(n, new)
  BY <1>1, <1>3, <1>4, <1>9
<1> QED BY <1>2, <1>8, <1>9, <1>10, <1>11, <1>13, <1>14, <1>15, <1>16, <1>17, <1>18, SavedInv

-----------------------------------------------------------------------------
(* Validating again *)

LEMMA RevalidatedInv ==
  ASSUME Inv, NEW call \in validating, NEW d \in Digest, NEW ok \in BOOLEAN, Revalidated(call, d, ok)
  PROVE  Inv'
<1>1. PICK new : new = [call.copy EXCEPT !.verdict = [of |-> d, ok |-> ok]]
  OBVIOUS
<1>2. call.id \in Id /\ call.copy \in Row
  BY DEF Inv, TypeOK
<1>3. new \in Row /\ SameCoordinate(new, call.copy) /\ new.verdict.of = d
  BY <1>1, <1>2 DEF Row, SameCoordinate
<1>4. validating' \subseteq validating /\ UNCHANGED <<images, born, seeding, task, crashes>>
  BY DEF Revalidated
<1>5. CASE row' = row
  <2>1. TypeOK' /\ TaskHasImage'
    BY <1>4, <1>5 DEF Inv, TypeOK, TaskHasImage
  <2> QED BY <1>4, <1>5, <2>1, QuietInv
<1>6. CASE d = call.copy.digest /\ Accepts(call.id, new) /\ row' = Saved(call.id, new)
  <2>1. call.id <= born /\ (call.id \in DOMAIN row => SameCoordinate(new, row[call.id]))
    BY <1>3 DEF Inv, CopiesMatch, SameCoordinate
  <2>2. new.image \in DOMAIN images /\ new.verdict.of = new.digest
    BY <1>3, <1>6 DEF Accepts, SameCoordinate
  <2>3. RowsDiffer'
    <3>1. /\ DOMAIN row' = DOMAIN row \cup {call.id}
          /\ \A j \in DOMAIN row : j # call.id => row'[j] = row[j]
      BY <1>6 DEF Saved
    <3>2. SameCoordinate(row'[call.id], new) /\ row'[call.id].active = new.active
      <4>1. CASE call.id \notin DOMAIN row
        BY <1>6, <4>1 DEF Saved, SameCoordinate
      <4>2. CASE call.id \in DOMAIN row
        <5>1. row[call.id] \in Row
          BY <4>2 DEF Inv, TypeOK
        <5>2. row'[call.id] = [row[call.id] EXCEPT !.verdict = new.verdict, !.active = new.active, !.config = new.config]
          BY <1>6, <4>2 DEF Saved
        <5> QED BY <2>1, <4>2, <5>1, <5>2 DEF SameCoordinate, Row
      <4> QED BY <4>1, <4>2
    <3>3. \A j \in DOMAIN row : j # call.id /\ row[j].image = new.image =>
            row[j].digest # new.digest /\ ~(row[j].version = new.version /\ row[j].active /\ new.active)
      BY <1>6 DEF Accepts, VersionsOf
    <3> QED BY <3>1, <3>2, <3>3 DEF Inv, RowsDiffer, SameCoordinate
  <2>4. Descends(new)'
    <3>1. Descends(new)
      BY <1>3 DEF Inv, CopiesDescend, Descends, SameCoordinate
    <3>2. \A j \in Roots : j \in DOMAIN row' /\ SameCoordinate(row'[j], row[j])
      BY <1>6 DEF Saved, Roots, SameCoordinate, Inv, TypeOK, Row
    <3> QED BY <1>4, <3>1, <3>2, LineageStays DEF Inv
  <2>5. call.id \notin DOMAIN row => \A c \in validating : c.id = call.id => SameCoordinate(c.copy, new)
    BY <1>3 DEF Inv, CopiesMatch, SameCoordinate
  <2>6. /\ born' \in born..MaxRows /\ call.id <= born' /\ DOMAIN images' \subseteq 1..born'
        /\ \A m \in DOMAIN images' : images'[m] \in [name : Repo, builtin : BOOLEAN]
        /\ seeding' \subseteq Builtin /\ NamesDiffer'
    BY <1>4, <2>1, CatalogueConstants DEF Inv, TypeOK, Ids, NamesDiffer
  <2> QED BY <1>2, <1>3, <1>4, <1>6, <2>1, <2>2, <2>3, <2>4, <2>5, <2>6, SavedInv
<1> QED BY <1>1, <1>5, <1>6 DEF Revalidated, Records

-----------------------------------------------------------------------------
(* Requests, tasks and the process *)

LEMMA EditRow ==
  ASSUME NEW r \in Row, NEW e, NEW a \in BOOLEAN,
         \/ e = [r EXCEPT !.active = a]
         \/ a = r.active /\ \E c \in Config : e = [r EXCEPT !.config = c]
  PROVE  e \in Row /\ SameCoordinate(e, r) /\ e.verdict = r.verdict /\ e.active = a
<1>1. CASE e = [r EXCEPT !.active = a]
  BY <1>1 DEF Row, SameCoordinate
<1>2. CASE a = r.active /\ \E c \in Config : e = [r EXCEPT !.config = c]
  BY <1>2 DEF Row, SameCoordinate
<1> QED BY <1>1, <1>2

LEMMA UserEditInv ==
  ASSUME Inv, NEW i \in Id, Deactivate(i) \/ Activate(i) \/ \E c \in Config : SetConfig(i, c)
  PROVE  Inv'
<1>1. UNCHANGED <<images, born, validating, task, crashes>> /\ seeding' \subseteq Builtin
  BY DEF Deactivate, SetConfig, Activate, calls, Inv, TypeOK
<1>2. \A j \in DOMAIN row : row[j] \in Row
  BY DEF Inv, TypeOK
<1>3. CASE Deactivate(i) \/ \E c \in Config : SetConfig(i, c)
  <2>1. PICK e : /\ DOMAIN row' = DOMAIN row /\ i \in DOMAIN row /\ row'[i] = e
                 /\ \A j \in DOMAIN row : j # i => row'[j] = row[j]
                 /\ e = [row[i] EXCEPT !.active = FALSE] \/ \E c \in Config : e = [row[i] EXCEPT !.config = c]
    BY <1>3 DEF Deactivate, SetConfig
  <2>2. e \in Row /\ SameCoordinate(e, row[i]) /\ e.verdict = row[i].verdict /\ (e.active => row[i].active)
    <3>1. row[i] \in Row /\ row[i].active \in BOOLEAN
      BY <1>2, <2>1 DEF Row
    <3>2. CASE e = [row[i] EXCEPT !.active = FALSE]
      <4>1. e \in Row /\ SameCoordinate(e, row[i]) /\ e.verdict = row[i].verdict /\ e.active = FALSE
        BY <3>1, <3>2, EditRow
      <4> QED BY <4>1
    <3>3. CASE \E c \in Config : e = [row[i] EXCEPT !.config = c]
      <4>1. e \in Row /\ SameCoordinate(e, row[i]) /\ e.verdict = row[i].verdict /\ e.active = row[i].active
        BY <3>1, <3>3, EditRow
      <4> QED BY <4>1
    <3> QED BY <2>1, <3>2, <3>3
  <2>3. \A j \in DOMAIN row : /\ row'[j] \in Row /\ SameCoordinate(row'[j], row[j])
                              /\ row'[j].verdict = row[j].verdict /\ (row'[j].active => row[j].active)
    BY <1>2, <2>1, <2>2 DEF SameCoordinate
  <2>4. RowsDiffer'
    BY <2>1, <2>3 DEF Inv, RowsDiffer, SameCoordinate
  <2> QED BY <1>1, <2>1, <2>3, <2>4, EditInv
<1>4. CASE Activate(i)
  <2>1. /\ DOMAIN row' = DOMAIN row
        /\ \A j \in DOMAIN row :
             row'[j] = IF row[j].image = row[i].image /\ row[j].version = row[i].version
                       THEN [row[j] EXCEPT !.active = (j = i)] ELSE row[j]
    BY <1>4 DEF Activate
  <2>2. \A j \in DOMAIN row :
          /\ row'[j] \in Row /\ SameCoordinate(row'[j], row[j]) /\ row'[j].verdict = row[j].verdict
          /\ row'[j].active => IF row[j].image = row[i].image /\ row[j].version = row[i].version
                               THEN j = i ELSE row[j].active
    <3> SUFFICES ASSUME NEW j \in DOMAIN row
                 PROVE  /\ row'[j] \in Row /\ SameCoordinate(row'[j], row[j]) /\ row'[j].verdict = row[j].verdict
                        /\ row'[j].active => IF row[j].image = row[i].image /\ row[j].version = row[i].version
                                             THEN j = i ELSE row[j].active
      OBVIOUS
    <3>1. (j = i) \in BOOLEAN
      OBVIOUS
    <3>2. row[j] \in Row /\ SameCoordinate(row[j], row[j])
      BY <1>2 DEF SameCoordinate
    <3>3. CASE row[j].image = row[i].image /\ row[j].version = row[i].version
      <4>1. PICK a \in BOOLEAN : a = (j = i)
        BY <3>1
      <4>2. row'[j] = [row[j] EXCEPT !.active = a]
        BY <2>1, <3>3, <4>1
      <4>3. LET e == row'[j] IN
              e \in Row /\ SameCoordinate(e, row[j]) /\ e.verdict = row[j].verdict /\ e.active = a
        BY <3>2, <4>2, EditRow
      <4> QED BY <3>3, <4>1, <4>3
    <3>4. CASE ~(row[j].image = row[i].image /\ row[j].version = row[i].version)
      BY <2>1, <3>2, <3>4
    <3> QED BY <3>3, <3>4
  <2>3. RowsDiffer'
    BY <2>1, <2>2 DEF Inv, RowsDiffer, SameCoordinate
  <2> QED BY <1>1, <2>1, <2>2, <2>3, EditInv
<1> QED BY <1>3, <1>4

LEMMA DeleteInv == ASSUME Inv, NEW i \in Id, Delete(i) PROVE Inv'
<1>1. /\ DOMAIN row' = DOMAIN row \ {i} /\ \A j \in DOMAIN row' : row'[j] = row[j]
      /\ UNCHANGED <<born, seeding, validating, crashes>>
  BY DEF Delete, calls
<1>2. i \in DOMAIN row /\ row[i].image \in DOMAIN images /\ ~images[row[i].image].builtin
  BY DEF Delete, Deletable, Inv, RowHasImage
<1>3. /\ DOMAIN images' \subseteq DOMAIN images /\ \A m \in DOMAIN images' : images'[m] = images[m]
      /\ \A m \in DOMAIN images : m \in DOMAIN images' <=> VersionsOf(m) # {i}
  <2>1. \A m \in DOMAIN images : VersionsOf(m) = {i} => m = row[i].image
    BY DEF VersionsOf
  <2>2. CASE VersionsOf(row[i].image) = {i}
    BY <1>2, <2>1, <2>2 DEF Delete
  <2>3. CASE VersionsOf(row[i].image) # {i}
    BY <2>1, <2>3 DEF Delete
  <2> QED BY <2>2, <2>3
<1>4. /\ task' \in [Sandbox -> [at : {"none", "admitted", "live", "destroyed"}, image : Id \cup {0}]]
      /\ \A s \in Sandbox : task'[s].at = "live" => task[s].at = "live" /\ task'[s].image = task[s].image
  <2> SUFFICES ASSUME NEW s \in Sandbox
               PROVE  /\ task'[s] \in [at : {"none", "admitted", "live", "destroyed"}, image : Id \cup {0}]
                      /\ task'[s].at = "live" => task[s].at = "live" /\ task'[s].image = task[s].image
    BY DEF Delete
  <2>1. task[s] \in [at : {"none", "admitted", "live", "destroyed"}, image : Id \cup {0}]
    BY DEF Inv, TypeOK
  <2>2. task'[s] = IF task[s].at = "destroyed" /\ task[s].image = i
                   THEN [task[s] EXCEPT !.image = 0] ELSE task[s]
    BY DEF Delete
  <2> QED BY <2>1, <2>2
<1>5. TypeOK'
  BY <1>1, <1>3, <1>4 DEF Inv, TypeOK
<1>6. Ids' /\ RowsDiffer' /\ NamesDiffer' /\ Judged'
  BY <1>1, <1>3 DEF Inv, Ids, RowsDiffer, NamesDiffer, Judged
<1>7. RowHasImage' /\ ImageHasRow'
  BY <1>1, <1>3 DEF Inv, RowHasImage, ImageHasRow, VersionsOf
<1>8. CopiesMatch'
  BY <1>1 DEF Inv, CopiesMatch
<1>9. \A r : Descends(r) => Descends(r)'
  <2>1. \A j \in Roots : j \in DOMAIN row' /\ SameCoordinate(row'[j], row[j])
    BY <1>1, <1>2 DEF Roots, SameCoordinate
  <2>2. \A m \in DOMAIN images : images[m].builtin => m \in DOMAIN images' /\ images'[m] = images[m]
    BY <1>2, <1>3 DEF VersionsOf
  <2> QED BY <2>1, <2>2, LineageStays DEF Inv
<1>10. RowsDescend' /\ CopiesDescend'
  <2>1. ASSUME NEW j \in DOMAIN row', NEW r, r = row'[j] PROVE Descends(r)'
    <3>1. Descends(r)
      BY <1>1, <2>1 DEF Inv, RowsDescend
    <3> QED BY <3>1, <1>9
  <2>2. \A call \in validating : Descends(call.copy)
    BY DEF Inv, CopiesDescend
  <2>3. CopiesDescend'
    BY <1>1, <1>9, <2>2 DEF CopiesDescend
  <2>4. RowsDescend'
    BY <2>1 DEF RowsDescend, Descends
  <2> QED BY <2>3, <2>4
<1>11. TaskHasImage'
  <2>1. \A s \in Sandbox : task[s].at = "live" => task[s].image # i
    BY DEF Delete, Deletable, Referring
  <2> QED BY <1>1, <1>4, <2>1 DEF Inv, TaskHasImage
<1> QED BY <1>5, <1>6, <1>7, <1>8, <1>10, <1>11 DEF Inv

\* A task as its table has it, with its reference.
Refs == [at : {"none", "admitted", "live", "destroyed"}, image : Id \cup {0}]

\* A task that comes to life finds its version there.
LEMMA TaskInv ==
  ASSUME Inv, NEW s \in Sandbox,
         \/ \E i \in Id, p \in Builtin : Admit(s, i, p)
         \/ \E accepted \in BOOLEAN : Insert(s, accepted)
         \/ Destroy(s)
  PROVE  Inv'
<1>1. UNCHANGED <<images, row, born, seeding, validating, crashes>>
  BY DEF Admit, Insert, Destroy, calls
<1>2. task[s] \in Refs
  BY DEF Inv, TypeOK, Refs
<1>3. PICK new : /\ task' = [task EXCEPT ![s] = new]
                 /\ new \in Refs /\ (new.at = "live" => new.image \in DOMAIN row)
  <2>1. CASE \E i \in Id, p \in Builtin : Admit(s, i, p)
    <3>1. PICK i \in Id : task' = [task EXCEPT ![s] = [at |-> "admitted", image |-> i]]
      BY <2>1 DEF Admit
    <3>2. [at |-> "admitted", image |-> i] \in Refs /\ [at |-> "admitted", image |-> i].at = "admitted"
      BY DEF Refs
    <3> QED BY <3>1, <3>2
  <2>2. CASE \E accepted \in BOOLEAN : Insert(s, accepted)
    <3>1. PICK accepted \in BOOLEAN : Insert(s, accepted)
      BY <2>2
    <3>2. CASE accepted
      <4>1. task' = [task EXCEPT ![s] = [task[s] EXCEPT !.at = "live"]] /\ task[s].image \in DOMAIN row
        BY <3>1, <3>2 DEF Insert, ReferenceExists, Inv, TypeOK
      <4>2. [task[s] EXCEPT !.at = "live"] \in Refs /\ [task[s] EXCEPT !.at = "live"].image = task[s].image
        BY <1>2 DEF Refs
      <4> QED BY <4>1, <4>2
    <3>3. CASE ~accepted
      <4>1. task' = [task EXCEPT ![s] = [at |-> "none", image |-> 0]]
        BY <3>1, <3>3 DEF Insert
      <4>2. [at |-> "none", image |-> 0] \in Refs /\ [at |-> "none", image |-> 0].at = "none"
        BY DEF Refs
      <4> QED BY <4>1, <4>2
    <3> QED BY <3>2, <3>3
  <2>3. CASE Destroy(s)
    <3>1. task' = [task EXCEPT ![s] = [task[s] EXCEPT !.at = "destroyed"]]
      BY <2>3 DEF Destroy, Inv, TypeOK
    <3>2. [task[s] EXCEPT !.at = "destroyed"] \in Refs /\ [task[s] EXCEPT !.at = "destroyed"].at = "destroyed"
      BY <1>2 DEF Refs
    <3> QED BY <3>1, <3>2
  <2> QED BY <2>1, <2>2, <2>3
<1>4. TypeOK' /\ TaskHasImage'
  BY <1>1, <1>3 DEF Inv, TypeOK, TaskHasImage, Refs
<1> QED BY <1>1, <1>4, QuietInv

LEMMA RestartInv == ASSUME Inv, Restart PROVE Inv'
<1>1. /\ UNCHANGED <<images, row, born>> /\ validating' = {} /\ seeding' \subseteq Builtin
      /\ crashes' \in 0..MaxCrashes
  BY CatalogueConstants DEF Restart, Unseeded, Inv, TypeOK
<1>2. ASSUME NEW s \in Sandbox
      PROVE  /\ task'[s] \in [at : {"none", "admitted", "live", "destroyed"}, image : Id \cup {0}]
             /\ task'[s].at = "live" => task'[s] = task[s]
  BY DEF Restart, Inv, TypeOK
<1>3. task' \in [Sandbox -> [at : {"none", "admitted", "live", "destroyed"}, image : Id \cup {0}]]
  BY <1>2 DEF Restart
<1>4. TypeOK' /\ TaskHasImage'
  BY <1>1, <1>2, <1>3 DEF Inv, TypeOK, TaskHasImage
<1> QED BY <1>1, <1>4, QuietInv

LEMMA NextInv == Inv /\ [Next]_vars => Inv'
<1> SUFFICES ASSUME Inv, [Next]_vars PROVE Inv'
  OBVIOUS
<1>1. ASSUME NEW r \in Repo, NEW d \in Digest, SeedAnswers(r, d) PROVE Inv'
  <2>1. DefaultTag \in Tag /\ seeding' \subseteq Builtin /\ UNCHANGED <<validating, task, crashes>>
    BY <1>1, CatalogueConstants DEF SeedAnswers, Inv, TypeOK
  <2> QED BY <1>1, <2>1, KnownInv, NewInv DEF SeedAnswers
<1>2. ASSUME NEW r \in Repo, NEW d \in Digest, NEW t \in Tag, Register(r, t, d) PROVE Inv'
  <2>1. seeding' \subseteq Builtin /\ UNCHANGED <<validating, task, crashes>>
    BY <1>2 DEF Register, calls, Inv, TypeOK
  <2> QED BY <1>2, <2>1, KnownInv, NewInv DEF Register
<1>3. ASSUME NEW r \in Repo, SeedFails(r) PROVE Inv'
  <2>1. TypeOK' /\ TaskHasImage'
    BY <1>3 DEF SeedFails, Inv, TypeOK, TaskHasImage
  <2> QED BY <1>3, <2>1, QuietInv DEF SeedFails
<1>4. ASSUME NEW call \in validating, NEW d \in Digest, NEW ok \in BOOLEAN, Revalidated(call, d, ok) PROVE Inv'
  BY <1>4, RevalidatedInv
<1>5. ASSUME NEW i \in Id, Revalidate(i) PROVE Inv'
  <2>1. row[i] \in Row /\ validating' = validating \cup {[id |-> i, copy |-> row[i]]}
    BY <1>5 DEF Revalidate, Inv, TypeOK
  <2>2. TypeOK' /\ TaskHasImage'
    BY <1>5, <2>1 DEF Revalidate, Inv, TypeOK, TaskHasImage
  <2> QED BY <1>5, <2>1, <2>2, QuietInv DEF Revalidate
<1>6. ASSUME NEW i \in Id, Deactivate(i) \/ Activate(i) PROVE Inv'
  BY <1>6, UserEditInv
<1>7. ASSUME NEW i \in Id, NEW c \in Config, SetConfig(i, c) PROVE Inv'
  BY <1>7, UserEditInv
<1>8. ASSUME NEW i \in Id, Delete(i) PROVE Inv'
  BY <1>8, DeleteInv
<1>9. CASE UNCHANGED vars
  <2>1. TypeOK' /\ TaskHasImage'
    BY <1>9 DEF vars, calls, Inv, TypeOK, TaskHasImage
  <2> QED BY <1>9, <2>1, QuietInv DEF vars, calls
<1> QED BY <1>1, <1>2, <1>3, <1>4, <1>5, <1>6, <1>7, <1>8, <1>9, TaskInv, RestartInv DEF Next

-----------------------------------------------------------------------------
(* Inv holds in every state. *)
THEOREM CatalogueInvariant == Spec => []Inv
BY InitInv, NextInv, PTL DEF Spec

(* Every table, call, task and counter keeps its type. *)
THEOREM TypeCorrect == Spec => []TypeOK
<1>1. Inv => TypeOK
  BY DEF Inv
<1> QED BY <1>1, CatalogueInvariant, PTL

(* Whatever stale rows are saved, and whenever: one active version per tag, *)
(* one row per bits, one image per name, and no image without a version.    *)
THEOREM CatalogueConsistent == Spec => []CatalogueIsConsistent
<1>1. ASSUME Inv PROVE CatalogueIsConsistent
  <2>1. ASSUME NEW r \in Repo PROVE Cardinality(Named(r)) <= 1
    <3>1. CASE Named(r) = {}
      <4>1. Cardinality({}) = 0
        BY FS_EmptySet
      <4> QED BY <3>1, <4>1
    <3>2. CASE Named(r) # {}
      <4>1. PICK m : Named(r) = {m}
        BY <1>1, <3>2 DEF Inv, NamesDiffer, Named
      <4>2. Cardinality({m}) = 1
        BY FS_Singleton
      <4> QED BY <4>1, <4>2
    <3> QED BY <3>1, <3>2
  <2>2. {row[i].image : i \in DOMAIN row} = DOMAIN images
    BY <1>1 DEF Inv, RowHasImage, ImageHasRow
  <2>3. RowsDiffer
    BY <1>1 DEF Inv
  <2> QED BY <2>1, <2>2, <2>3 DEF CatalogueIsConsistent, RowsDiffer
<1>2. Inv => CatalogueIsConsistent
  BY <1>1
<1> QED BY <1>2, CatalogueInvariant, PTL

(* The version of a task that is not destroyed is there, however long the  *)
(* way from the door to its row.                                           *)
THEOREM TaskKeepsImage == Spec => []TaskHasImage
<1>1. Inv => TaskHasImage
  BY DEF Inv
<1> QED BY <1>1, CatalogueInvariant, PTL

(* The verdict and the lineage of a version are about its own bits, for    *)
(* tags that move at any moment and rows that come back.                   *)
THEOREM VersionIsTrue == Spec => []VersionTellsTheTruth
<1>1. Inv => VersionTellsTheTruth
  BY DEF Inv, VersionTellsTheTruth, Judged, RowsDescend, Descends
<1> QED BY <1>1, CatalogueInvariant, PTL
=============================================================================
