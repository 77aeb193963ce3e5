--------------------------- MODULE ImageCatalogue ---------------------------
(***************************************************************************)
(* The images the platform knows: a repository has one row, each of its    *)
(* versions another, frozen to the bits its tag stood for when it was      *)
(* registered.  Users register, validate again, switch, configure and      *)
(* delete versions, the seeder registers the images the platform comes     *)
(* with, and the tasks refer to versions.                                  *)
(*                                                                         *)
(* Only the registry is asked over the network.  A registration reads what *)
(* it needs after the answer and is one step; the seeder has looked for    *)
(* its image before, and a validation has read the version before.  A tag  *)
(* may stand for other bits whenever it is asked for.                      *)
(***************************************************************************)
EXTENDS Naturals, FiniteSets, Sequences, SequencesExt

CONSTANTS
  Repo,        \* the repositories
  Builtin,     \* those of the images the platform comes with, one per provider
  Tag,
  DefaultTag,  \* the tag of a builtin image
  Digest,      \* the bits
  Layers,      \* diffIds of the bits
  Config,      \* the settings of a version, NoConfig for null
  NoConfig,
  NoLineage,   \* derivedFromDigest is null
  Sandbox,
  MaxRows,     \* bound: rows ever inserted
  MaxCalls,    \* bound: validations at a time
  MaxCrashes   \* bound: restarts of the process

ASSUME CatalogueConstants ==
  /\ Builtin \subseteq Repo /\ DefaultTag \in Tag
  /\ DOMAIN Layers = Digest /\ NoLineage \notin Digest
  /\ MaxRows \in Nat /\ MaxCalls \in Nat /\ MaxCrashes \in Nat

VARIABLES
  images,      \* rows of images: id -> name, is_builtin
  row,         \* rows of image_manifests, by id
  born,        \* the ids given out
  seeding,     \* the builtin images the seeder is resolving
  validating,  \* revalidateImage awaiting the registry: the row as it was read
  task,        \* the sandboxes and their image_ref, 0 for null
  crashes

calls == <<seeding, validating>>
vars == <<images, row, born, calls, task, crashes>>

Id == 1..MaxRows

(* A verdict names the bits it was passed on.                              *)
Row == [image : Id, version : Tag, digest : Digest, lineage : Digest \cup {NoLineage},
        verdict : [of : Digest, ok : BOOLEAN], active : BOOLEAN, config : Config \cup {NoConfig}]

Named(r) == {m \in DOMAIN images : images[m].name = r}
VersionsOf(m) == {i \in DOMAIN row : row[i].image = m}
Roots == {i \in DOMAIN row : images[row[i].image].builtin}

(* The process starts: alreadySeeded looks at the names.                   *)
Unseeded == {r \in Builtin : Named(r) = {}}

Init ==
  /\ images = << >> /\ row = << >> /\ born = 0
  /\ seeding = Builtin /\ validating = {}
  /\ task = [s \in Sandbox |-> [at |-> "none", image |-> 0]] /\ crashes = 0

-----------------------------------------------------------------------------
(* Rows *)

\* A variant of the table without its unique indexes.
AcceptsAny(i, new) == new.image \in DOMAIN images
(* What the table image_manifests accepts: the image exists, its versions  *)
(* have different bits and at most one active one per tag.                 *)
Accepts(i, new) ==
  /\ new.image \in DOMAIN images
  /\ \A j \in VersionsOf(new.image) \ {i} :
       row[j].digest # new.digest /\ ~(row[j].version = new.version /\ row[j].active /\ new.active)

(* saveSync: of a row that is there, three columns are written             *)
Saved(i, new) ==
  [j \in DOMAIN row \cup {i} |->
     IF j # i THEN row[j]
     ELSE IF i \notin DOMAIN row THEN new
     ELSE [row[i] EXCEPT !.verdict = new.verdict, !.active = new.active, !.config = new.config]]

-----------------------------------------------------------------------------
(* Registering *)

(* isDerivedFrom: a prefix, and an image of which no layer is known is     *)
(* nobody's base                                                           *)
IsDerivedFrom(d, base) == Layers[base] # << >> /\ IsPrefix(Layers[base], Layers[d])

(* lineageVerdict: the closest of the platform's images that d was built   *)
(* from; of several with the same layers, any                              *)
Lineages(d) ==
  LET bases == {row[i].digest : i \in Roots}
      fits  == {b \in bases : IsDerivedFrom(d, b)}
  IN  {b \in fits : \A c \in fits : Len(Layers[c]) <= Len(Layers[b])}

(* configForUpdate: a version of the same image and tag may be copied from *)
Inherited(r, t) ==
  {NoConfig} \cup {row[i].config : i \in {j \in DOMAIN row :
                                           row[j].image \in Named(r) /\ row[j].version = t}}

(* The bits are known: at most an empty configuration is filled.           *)
RegisterKnown(r, t, d) ==
  \E m \in Named(r), c \in Inherited(r, t) : \E i \in VersionsOf(m) :
    /\ row[i].digest = d
    /\ row' = IF row[i].config = NoConfig THEN [row EXCEPT ![i].config = c] ELSE row
    /\ UNCHANGED <<images, born>>

Current(m, t) == {i \in VersionsOf(m) : row[i].version = t /\ row[i].active}

(* A new version, active if the tag has no active one; the image, too, if  *)
(* there is none of this name.                                             *)
RegisterNew(r, t, d, root) ==
  /\ born < MaxRows /\ born' = born + 1
  /\ \A m \in Named(r) : \A i \in VersionsOf(m) : row[i].digest # d
  /\ \E m \in IF Named(r) = {} THEN {born'} ELSE Named(r), c \in Inherited(r, t),
        base \in IF root THEN {NoLineage} ELSE Lineages(d) :
       /\ images' = [n \in DOMAIN images \cup {m} |->
                       IF n \in DOMAIN images THEN images[n] ELSE [name |-> r, builtin |-> root]]
       /\ row' = Saved(born', [image |-> m, version |-> t, digest |-> d, lineage |-> base,
                               verdict |-> [of |-> d, ok |-> TRUE],
                               active |-> Current(m, t) = {}, config |-> c])

(* registerImage, once the registry has answered with bits that are not    *)
(* invalid; when it does not, or the image is refused, nothing is stored.  *)
Register(r, t, d) ==
  /\ RegisterKnown(r, t, d) \/ RegisterNew(r, t, d, FALSE)
  /\ UNCHANGED <<calls, task, crashes>>

(* ImageSeeder.seed, likewise                                              *)
SeedAnswers(r, d) ==
  /\ r \in seeding /\ seeding' = seeding \ {r}
  /\ RegisterKnown(r, DefaultTag, d) \/ RegisterNew(r, DefaultTag, d, TRUE)
  /\ UNCHANGED <<validating, task, crashes>>

SeedFails(r) ==
  /\ r \in seeding /\ seeding' = seeding \ {r}
  /\ UNCHANGED <<images, row, born, validating, task, crashes>>

-----------------------------------------------------------------------------
(* Validating again *)

Revalidate(i) ==
  /\ i \in DOMAIN row /\ Cardinality(validating) < MaxCalls
  /\ validating' = validating \cup {[id |-> i, copy |-> row[i]]}
  /\ UNCHANGED <<images, row, born, seeding, task, crashes>>

\* A variant that records the verdict even if the tag has moved.
RecordsAnyway(copy, d) == TRUE
Records(copy, d) == d = copy.digest

(* The registry says what the tag stands for now, and its bits are judged: *)
(* only if they are those of the row, the row that was read is saved.      *)
Revalidated(call, d, ok) ==
  /\ call \in validating /\ validating' = validating \ {call}
  /\ LET new == [call.copy EXCEPT !.verdict = [of |-> d, ok |-> ok]]
     IN  IF Records(call.copy, d) /\ Accepts(call.id, new)
         THEN row' = Saved(call.id, new)
         ELSE UNCHANGED row
  /\ UNCHANGED <<images, born, seeding, task, crashes>>

-----------------------------------------------------------------------------
(* What users change at once *)

Deactivate(i) ==
  /\ i \in DOMAIN row /\ row' = [row EXCEPT ![i].active = FALSE]
  /\ UNCHANGED <<images, born, calls, task, crashes>>

SetConfig(i, c) ==
  /\ i \in DOMAIN row /\ row' = [row EXCEPT ![i].config = c]
  /\ UNCHANGED <<images, born, calls, task, crashes>>

(* activateImage: the others of its tag give way, unless it is invalid     *)
Activate(i) ==
  /\ i \in DOMAIN row /\ row[i].verdict.ok
  /\ row' = [j \in DOMAIN row |->
               IF row[j].image = row[i].image /\ row[j].version = row[i].version
               THEN [row[j] EXCEPT !.active = (j = i)] ELSE row[j]]
  /\ UNCHANGED <<images, born, calls, task, crashes>>

Referring(i) == {s \in Sandbox : task[s].at = "live" /\ task[s].image = i}

(* assertDeletable, and no task that is not destroyed                      *)
Deletable(i) == ~images[row[i].image].builtin /\ Referring(i) = {}

(* deleteImage: with its last version goes the image; destroyed tasks lose *)
(* the reference                                                           *)
Delete(i) ==
  /\ i \in DOMAIN row /\ Deletable(i)
  /\ row' = [j \in DOMAIN row \ {i} |-> row[j]]
  /\ images' = IF VersionsOf(row[i].image) = {i}
               THEN [m \in DOMAIN images \ {row[i].image} |-> images[m]] ELSE images
  /\ task' = [s \in Sandbox |-> IF task[s].at = "destroyed" /\ task[s].image = i
                                THEN [task[s] EXCEPT !.image = 0] ELSE task[s]]
  /\ UNCHANGED <<born, calls, crashes>>

-----------------------------------------------------------------------------
(* Tasks *)

(* imageProviderCompatibility: a version of the provider's own image, or   *)
(* one built from a version of it; without that image nothing is refused   *)
Runnable(i, p) ==
  \A m \in Named(p) :
    row[i].image = m \/ \E j \in VersionsOf(m) : row[i].lineage = row[j].digest

(* admit: resolveForTask finds a version by its id or as the active one of *)
(* a tag; the transaction comes after other awaits                         *)
Admit(s, i, p) ==
  /\ task[s].at = "none" /\ i \in DOMAIN row
  /\ row[i].active /\ row[i].verdict.ok /\ Runnable(i, p)
  /\ task' = [task EXCEPT ![s] = [at |-> "admitted", image |-> i]]
  /\ UNCHANGED <<images, row, born, calls, crashes>>

\* A variant of the table sandboxes without its foreign key.
ReferenceUnchecked(i) == TRUE
(* The foreign key image_ref                                               *)
ReferenceExists(i) == i \in DOMAIN row

(* The transaction of create; it may fail for other reasons as well.       *)
Insert(s, accepted) ==
  /\ task[s].at = "admitted"
  /\ accepted => ReferenceExists(task[s].image)
  /\ task' = [task EXCEPT ![s] = IF accepted THEN [@ EXCEPT !.at = "live"]
                                 ELSE [at |-> "none", image |-> 0]]
  /\ UNCHANGED <<images, row, born, calls, crashes>>

Destroy(s) ==
  /\ task[s].at = "live" /\ task' = [task EXCEPT ![s].at = "destroyed"]
  /\ UNCHANGED <<images, row, born, calls, crashes>>

-----------------------------------------------------------------------------
Restart ==
  /\ crashes < MaxCrashes /\ crashes' = crashes + 1
  /\ seeding' = Unseeded /\ validating' = {}
  /\ task' = [s \in Sandbox |-> IF task[s].at = "admitted" THEN [at |-> "none", image |-> 0]
                                ELSE task[s]]
  /\ UNCHANGED <<images, row, born>>

Next ==
  \/ \E r \in Repo, d \in Digest : SeedAnswers(r, d) \/ \E t \in Tag : Register(r, t, d)
  \/ \E r \in Repo : SeedFails(r)
  \/ \E call \in validating, d \in Digest, ok \in BOOLEAN : Revalidated(call, d, ok)
  \/ \E i \in Id : Revalidate(i) \/ Deactivate(i) \/ Activate(i) \/ Delete(i)
  \/ \E i \in Id, c \in Config : SetConfig(i, c)
  \/ \E s \in Sandbox :
       \/ Destroy(s) \/ \E accepted \in BOOLEAN : Insert(s, accepted)
       \/ \E i \in Id, p \in Builtin : Admit(s, i, p)
  \/ Restart

Spec == Init /\ [][Next]_vars

-----------------------------------------------------------------------------
(* Properties *)

(* Every variable has its type. *)
TypeOK ==
  /\ DOMAIN images \subseteq Id /\ \A m \in DOMAIN images : images[m] \in [name : Repo, builtin : BOOLEAN]
  /\ DOMAIN row \subseteq Id /\ \A i \in DOMAIN row : row[i] \in Row
  /\ born \in 0..MaxRows /\ seeding \subseteq Builtin
  /\ \A call \in validating : call \in [id : Id, copy : Row]
  /\ task \in [Sandbox -> [at : {"none", "admitted", "live", "destroyed"}, image : Id \cup {0}]]
  /\ crashes \in 0..MaxCrashes

(* However validations that began before write back what they read: a tag  *)
(* has at most one active version, a repository one row per bits (I-IMG-7, *)
(* I-IMG-8), a name one image, and no image is without a version nor a     *)
(* version without its image.                                              *)
CatalogueIsConsistent ==
  /\ \A i, j \in DOMAIN row :
       /\ i # j /\ row[i].image = row[j].image
       => /\ row[i].digest # row[j].digest
          /\ ~(row[i].version = row[j].version /\ row[i].active /\ row[j].active)
  /\ \A r \in Repo : Cardinality(Named(r)) <= 1
  /\ {row[i].image : i \in DOMAIN row} = DOMAIN images

(* A version is deleted while a task is between the door and its row, and  *)
(* comes back from a validation: the version of a task that is not         *)
(* destroyed is always there, so that a restart of its sandbox never falls *)
(* back to another image.                                                  *)
TaskHasImage ==
  \A s \in Sandbox : task[s].at = "live" => task[s].image \in DOMAIN row

(* What a version says of itself is true of its bits, whatever its tag     *)
(* stands for now: the verdict was passed on them, and the lineage it was  *)
(* admitted for leads to a version of an image of the platform that is     *)
(* still there.                                                            *)
VersionTellsTheTruth ==
  \A i \in DOMAIN row :
    /\ row[i].verdict.of = row[i].digest
    /\ row[i].lineage # NoLineage =>
         \E j \in Roots : row[j].digest = row[i].lineage /\ IsPrefix(Layers[row[i].lineage], Layers[row[i].digest])

(* The two fields that may change are changed by the requests to (PATCH    *)
(* and activate), and what was deleted stays so.  Violated: a validation   *)
(* saves the row it read before it asked the registry.                     *)
OnlyRequestsChange ==
  [][/\ \A i \in DOMAIN row' \ DOMAIN row : i > born
     /\ \A i \in DOMAIN row \cap DOMAIN row' : ~row[i].active /\ row'[i].active => Activate(i)]_vars

(* The image of a provider is one of the platform's.  Violated: a user may *)
(* register its name, in time, while the seeder waits for the registry.    *)
SeedIsBuiltin == \A m \in DOMAIN images : images[m].name \in Builtin => images[m].builtin
=============================================================================
