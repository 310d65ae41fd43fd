----------------------------- MODULE Inventory -----------------------------
(***************************************************************************)
(* The pinned inventory of a generation: the manifest that its bootstrap    *)
(* job declares, uploads in chunks and seals, the profile frozen upon it,    *)
(* and the dispositions that surveys give the entries afterwards.            *)
(*                                                                           *)
(* Requests may be repeated, late or wrong; each is one transaction, and a   *)
(* refused one changes nothing.  A digest is what it digests: a listing      *)
(* stands for its hash.  Paths are numbered in the order of their bytes.     *)
(***************************************************************************)
EXTENDS Integers, Sequences, FiniteSets, SequencesExt

CONSTANTS
  Preparers, Surveys,   \* the bootstrap jobs and the ordinary survey jobs
  Paths,                \* numbers
  Blobs,
  Hidden,               \* the paths no source reference can name
  Profiles, Units, Keys, None,
  Refs,                 \* the paths a unit refers to
  UnitsOf,              \* the units a survey is assigned, a bootstrap created
  MAX_ENTRIES,
  MAX_OPERATIONS        \* dispositions per job

PhaseJobs == Preparers \cup Surveys
Entries == [path : Paths, blob : Blobs]
Dispositions == {"mapped", "context", "excluded", "unresolved"}

Ordered(s) == \A i, j \in DOMAIN s : i < j => s[i].path < s[j].path

\* Chunks and complete listings: ordered, within the limit.
Listings == {s \in SeqOf(Entries, MAX_ENTRIES) : Ordered(s)}

ConstantsOK ==
  /\ Paths \subseteq Nat /\ Hidden \subseteq Paths
  /\ MAX_ENTRIES \in Nat /\ MAX_OPERATIONS \in Nat
  /\ Refs \in [Units -> SUBSET (Paths \ Hidden)]
  /\ UnitsOf \in [PhaseJobs -> SUBSET Units]
  /\ Preparers \cap Surveys = {} /\ None \notin PhaseJobs

VARIABLES
  jobs,          \* queued, leased or ended
  manifest,      \* descriptor and progress of the upload
  rows,          \* the stored entries in the order of their positions
  profile,       \* the frozen profile
  active,        \* the generation is the baseline
  checkpoints    \* accepted dispositions and profiles with their receipts

vars == <<jobs, manifest, rows, profile, active, checkpoints>>

NoManifest == [owner |-> None, expected |-> 0, digest |-> <<>>, received |-> 0, sealed |-> FALSE]

Declared == manifest.owner # None

Init ==
  /\ jobs = [j \in PhaseJobs |-> "queued"]
  /\ manifest = NoManifest /\ rows = <<>> /\ profile = None /\ active = FALSE
  /\ checkpoints = {}

(***************************************************************************)
(* Jobs                                                                      *)
(***************************************************************************)
\* One preparation job at a time works on a generation that is being built, surveys on
\* the baseline.
Lease(j) ==
  /\ jobs[j] = "queued"
  /\ IF j \in Surveys THEN active ELSE ~ active /\ \A k \in Preparers : jobs[k] # "leased"
  /\ jobs' = [jobs EXCEPT ![j] = "leased"]
  /\ UNCHANGED <<manifest, rows, profile, active, checkpoints>>

\* The attempt ends; whatever was accepted stays.
EndAttempt(j) ==
  /\ jobs[j] = "leased"
  /\ \E state \in {"queued", "ended"} : jobs' = [jobs EXCEPT ![j] = state]
  /\ UNCHANGED <<manifest, rows, profile, active, checkpoints>>

\* The bootstrap's receipt activates the generation.
FinishBootstrap(j) ==
  /\ j \in Preparers /\ jobs[j] = "leased" /\ profile # None
  /\ manifest.owner = j
  /\ jobs' = [jobs EXCEPT ![j] = "ended"]
  /\ active' = TRUE
  /\ UNCHANGED <<manifest, rows, profile, checkpoints>>

(***************************************************************************)
(* The manifest                                                              *)
(***************************************************************************)
Preparing(j) == j \in Preparers /\ jobs[j] = "leased" /\ ~ active

Owns(j) == Preparing(j) /\ manifest.owner = j

\* The descriptor is written once; another job may only take the same descriptor over,
\* with the progress that was made.
Redeclared(j, expected, digest) ==
  IF Declared THEN [manifest EXCEPT !.owner = j]
  ELSE [NoManifest EXCEPT !.owner = j, !.expected = expected, !.digest = digest]

DeclareManifest(j, expected, digest) ==
  /\ Preparing(j)
  /\ expected <= MAX_ENTRIES
  /\ Declared => /\ manifest.expected = expected /\ manifest.digest = digest
                 /\ manifest.owner # j => jobs[manifest.owner] = "ended"
  /\ manifest' = Redeclared(j, expected, digest)
  /\ UNCHANGED <<jobs, rows, profile, active, checkpoints>>

NewRow(e) ==
  [path |-> e.path, blob |-> e.blob, revision |-> 0, units |-> {},
   disposition |-> IF e.path \in Hidden THEN "excluded" ELSE "unresolved"]

\* A chunk follows what was stored, in position and in order.
Extends(start, chunk) ==
  /\ start = manifest.received
  /\ chunk # <<>> /\ rows # <<>> => Last(rows).path < chunk[1].path

\* Repetitions of what was stored are recognised and change nothing; everything else that
\* is not an extension is refused.
UploadManifest(j, start, chunk) ==
  /\ Owns(j)
  /\ start + Len(chunk) <= manifest.expected
  /\ ~ manifest.sealed
  /\ Extends(start, chunk)
  /\ rows' = rows \o [i \in DOMAIN chunk |-> NewRow(chunk[i])]
  /\ manifest' = [manifest EXCEPT !.received = start + Len(chunk)]
  /\ UNCHANGED <<jobs, profile, active, checkpoints>>

Members == [i \in DOMAIN rows |-> [path |-> rows[i].path, blob |-> rows[i].blob]]

\* Every stored member is hashed again.
Certified == manifest.received = manifest.expected /\ Members = manifest.digest

SealManifest(j) ==
  /\ Owns(j)
  /\ ~ manifest.sealed /\ Certified
  /\ manifest' = [manifest EXCEPT !.sealed = TRUE]
  /\ UNCHANGED <<jobs, rows, profile, active, checkpoints>>

\* A repetition by the same job is answered from its checkpoint.
PublishProfile(j, p) ==
  /\ Owns(j)
  /\ manifest.sealed
  /\ profile = None
  /\ profile' = p
  /\ checkpoints' = checkpoints \cup
       {[job |-> j, op |-> "profile", key |-> None, entry |-> 0, expected |-> 0, disposition |-> None]}
  /\ UNCHANGED <<jobs, manifest, rows, active>>

(***************************************************************************)
(* Dispositions                                                              *)
(***************************************************************************)
\* The frozen profile opens the generation to evidence.
Domain(j) == jobs[j] = "leased" /\ profile # None /\ (j \in Preparers => Owns(j))

InScope(j, e) ==
  /\ rows[e].path \notin Hidden
  /\ j \in Preparers \/ \E u \in UnitsOf[j] : rows[e].path \in Refs[u]

Accepted(j) == {c \in checkpoints : c.job = j /\ c.op = "disposition"}

\* Fault: the expected revision is not compared.
AnyRevision(e, expected) == TRUE

CurrentRevision(e, expected) == rows[e].revision = expected

Replaced(e, disposition, units) ==
  [rows[e] EXCEPT !.disposition = disposition, !.units = units, !.revision = @ + 1]

\* A repeated request is answered from its checkpoint, before anything mutable is looked
\* at; the receipt is the entry and its new revision.
SubmitDisposition(j, key, e, expected, disposition, units) ==
  /\ Domain(j)
  /\ \A c \in Accepted(j) : c.key # key
  /\ InScope(j, e)
  /\ CurrentRevision(e, expected)
  /\ units \subseteq UnitsOf[j]
  /\ \A u \in units : rows[e].path \in Refs[u]
  /\ disposition = "mapped" <=> units # {}
  /\ Cardinality(Accepted(j)) < MAX_OPERATIONS
  /\ rows' = [rows EXCEPT ![e] = Replaced(e, disposition, units)]
  /\ checkpoints' = checkpoints \cup
       {[job |-> j, op |-> "disposition", key |-> key, entry |-> e, expected |-> expected,
         disposition |-> disposition]}
  /\ UNCHANGED <<jobs, manifest, profile, active>>

(***************************************************************************)
(* Specification                                                             *)
(***************************************************************************)
Next ==
  \/ \E j \in PhaseJobs : Lease(j) \/ EndAttempt(j) \/ FinishBootstrap(j)
  \/ \E j \in Preparers :
       \/ \E expected \in 0 .. MAX_ENTRIES + 1, digest \in Listings : DeclareManifest(j, expected, digest)
       \/ \E start \in 0 .. MAX_ENTRIES, chunk \in Listings : UploadManifest(j, start, chunk)
       \/ SealManifest(j)
       \/ \E p \in Profiles : PublishProfile(j, p)
  \/ \E j \in PhaseJobs, key \in Keys, disposition \in Dispositions, units \in SUBSET Units :
       \E e \in DOMAIN rows : \E expected \in 0 .. rows[e].revision :
         SubmitDisposition(j, key, e, expected, disposition, units)

Spec == Init /\ [][Next]_vars

(***************************************************************************)
(* Properties                                                                *)
(***************************************************************************)
TypeOK ==
  /\ jobs \in [PhaseJobs -> {"queued", "leased", "ended"}]
  /\ manifest.owner \in Preparers \cup {None}
  /\ manifest.expected \in 0 .. MAX_ENTRIES /\ manifest.received \in 0 .. manifest.expected
  /\ profile \in Profiles \cup {None} /\ active \in BOOLEAN
  /\ Members \in Listings
  /\ \A e \in DOMAIN rows : rows[e].disposition \in Dispositions /\ rows[e].units \subseteq Units

\* A sealed manifest holds exactly the listing that was declared for it, whichever jobs
\* uploaded its chunks, in whatever pieces and repetitions; a profile is frozen upon a
\* sealed one only (manifest.rs, seal_manifest and publish_profile).
SealedIsDeclared ==
  /\ manifest.sealed => Members = manifest.digest /\ Len(rows) = manifest.expected
  /\ profile # None => manifest.sealed

\* What one step keeps of AcceptedStands.
AcceptedStandsStep ==
  /\ IsPrefix(Members, Members')
  /\ Declared => /\ manifest'.expected = manifest.expected /\ manifest'.digest = manifest.digest
                 /\ manifest.sealed => manifest'.sealed
  /\ profile # None => profile' = profile

\* What was accepted is never taken back: a stored member keeps its position, path and
\* blob, the descriptor and the seal stand, a profile is not replaced
\* (manifest.rs, declare_manifest, upload_manifest and publish_profile).
AcceptedStands == [][AcceptedStandsStep]_vars

\* Surveys that share a path do not overwrite each other unseen: an entry went through its
\* revisions one by one, each accepted by one request that named the one before, and shows
\* the disposition of the last (inventory_disposition.rs, replace; inventory.rs,
\* submit_inventory_disposition).
NoLostUpdate ==
  \A e \in DOMAIN rows :
    LET history == {c \in checkpoints : c.op = "disposition" /\ c.entry = e}
    IN  /\ {c.expected : c \in history} = 0 .. rows[e].revision - 1
        /\ Cardinality(history) = rows[e].revision
        /\ \A c \in history : c.expected = rows[e].revision - 1 => rows[e].disposition = c.disposition

\* An entry has units exactly when it is mapped, and each of them refers to its path
\* (inventory_disposition.rs, replace).
MappingsMatch ==
  \A e \in DOMAIN rows :
    /\ rows[e].disposition = "mapped" <=> rows[e].units # {}
    /\ \A u \in rows[e].units : rows[e].path \in Refs[u]
=============================================================================
