----------------------------- MODULE RepoCache -----------------------------
(***************************************************************************)
(* The worker's cache of bare clones (loupe-worker, repo_cache.rs) and its *)
(* use by a job's checkout (runner.rs).  Callers refresh and pin a clone,  *)
(* check a worktree out of it and drop the pin.  A refresh runs in a       *)
(* blocking task that owns the repository's lock and the pin until Git has *)
(* exited, even when its caller has gone away.                             *)
(*                                                                         *)
(* Every clone has size one; a step is what the code does between two      *)
(* looks at what callers share: lock map, pins, access log, the disk.      *)
(***************************************************************************)
EXTENDS Integers, FiniteSets, SequencesExt

CONSTANTS
    Callers,   \* leases that use the cache at the same time
    Keys,      \* repositories
    MaxCached, \* max_cache_bytes, in clones
    None

ConstantsOK ==
    /\ IsFiniteSet(Callers) /\ None \notin Callers
    /\ IsFiniteSet(Keys) /\ Keys # {} /\ MaxCached \in Nat

VARIABLES
    disk,    \* key -> "absent", "damaged" (an interrupted clone) or "whole"
    order,   \* access_log: the logged keys, least recently used first
    lock,    \* repo_locks: key -> the refresh that holds it, or None
    pins,    \* refcounts
    pc, key, force,  \* each caller, its key, and whether it must reclone
    gone,    \* the caller dropped the future of its refresh
    cand,    \* the candidates an eviction pass collected, oldest first
    need     \* clones the pass still has to free

task == <<cand, need>>
vars == <<disk, order, lock, pins, pc, key, force, gone, task>>

Places == {"idle", "lock", "start", "fetch", "rebuild", "scan", "evict",
           "unlog", "clone", "cloning", "log", "failed", "checkout", "using"}
Blocking == {"start", "fetch", "rebuild", "scan", "evict", "unlog", "clone",
             "cloning", "log", "failed"}
Pinning == Blocking \cup {"checkout", "using"}

\* The type invariant; a logged key is logged once.
TypeOK ==
    /\ disk \in [Keys -> {"absent", "damaged", "whole"}]
    /\ order \in Seq(Keys) /\ IsInjective(order)
    /\ lock \in [Keys -> Callers \cup {None}]
    /\ pins \in [Keys -> 0..Cardinality(Callers)]
    /\ pc \in [Callers -> Places] /\ key \in [Callers -> Keys]
    /\ force \in [Callers -> BOOLEAN] /\ gone \in [Callers -> BOOLEAN]
    /\ cand \in [Callers -> Seq(Keys)]
    /\ need \in [Callers -> 0..Cardinality(Keys)]

Init ==
    /\ disk = [k \in Keys |-> "absent"] /\ order = <<>>
    /\ lock = [k \in Keys |-> None] /\ pins = [k \in Keys |-> 0]
    /\ pc = [c \in Callers |-> "idle"]
    /\ key \in [Callers -> {CHOOSE k \in Keys : TRUE}]
    /\ force = [c \in Callers |-> FALSE] /\ gone = [c \in Callers |-> FALSE]
    /\ cand = [c \in Callers |-> <<>>] /\ need = [c \in Callers |-> 0]

Go(c, place) == pc' = [pc EXCEPT ![c] = place]
SetDisk(k, content) == disk' = [disk EXCEPT ![k] = content]
Present == {k \in Keys : disk[k] # "absent"}

FaultUnpinned(k) == pins

\* Drop for PinGuard.
Unpinned(k) == [pins EXCEPT ![k] = IF @ > 0 THEN @ - 1 ELSE 0]

-----------------------------------------------------------------------------
(* refresh().                                                              *)

\* ensure_repo for a lease of repository k.
Ensure(c, k) ==
    /\ pc[c] = "idle" /\ Go(c, "lock")
    /\ key' = [key EXCEPT ![c] = k] /\ force' = [force EXCEPT ![c] = FALSE]
    /\ UNCHANGED <<disk, order, lock, pins, gone, task>>

\* The repository's lock is taken, then its pin, and the task is spawned.
Acquire(c) ==
    /\ pc[c] = "lock" /\ lock[key[c]] = None
    /\ lock' = [lock EXCEPT ![key[c]] = c]
    /\ pins' = [pins EXCEPT ![key[c]] = @ + 1]
    /\ Go(c, "start")
    /\ UNCHANGED <<disk, order, key, force, gone, task>>

\* remove_dir_all gave up half way: part of the clone is left.
HalfRemoved(k) == k \in Present /\ SetDisk(k, "damaged")

\* The credential operation or the path check fails, or a forced reclone
\* removes the clone, and the path decides between fetch and clone.
Start(c) ==
    /\ pc[c] = "start"
    /\ \/ Go(c, "failed") /\ UNCHANGED disk
       \/ force[c] /\ HalfRemoved(key[c]) /\ Go(c, "failed")
       \/ force[c] /\ SetDisk(key[c], "absent") /\ Go(c, "scan")
       \/ ~force[c] /\ UNCHANGED disk
          /\ Go(c, IF key[c] \in Present THEN "fetch" ELSE "scan")
    /\ UNCHANGED <<order, lock, pins, key, force, gone, task>>

\* fetch_bare: an interrupted clone may be repaired, stay incomplete or fail.
Fetch(c) ==
    /\ pc[c] = "fetch"
    /\ \/ Go(c, "rebuild") /\ UNCHANGED disk
       \/ key[c] \in Present /\ Go(c, "log") /\ UNCHANGED disk
       \/ disk[key[c]] = "damaged" /\ Go(c, "log") /\ SetDisk(key[c], "whole")
    /\ UNCHANGED <<order, lock, pins, key, force, gone, task>>

\* A failed fetch removes what is there; there must be something to remove.
Rebuild(c) ==
    /\ pc[c] = "rebuild"
    /\ \/ key[c] \in Present /\ SetDisk(key[c], "absent") /\ Go(c, "clone")
       \/ key[c] \notin Present /\ UNCHANGED disk /\ Go(c, "failed")
       \/ HalfRemoved(key[c]) /\ Go(c, "failed")
    /\ UNCHANGED <<order, lock, pins, key, force, gone, task>>

\* The logged, unpinned clones on the disk, sorted by their last access.
Candidates ==
    LET found == {k \in Range(order) : pins[k] = 0 /\ k \in Present}
        Older(j, k) == \E m, n \in DOMAIN order : m < n /\ order[m] = j /\ order[n] = k
    IN {s \in SetToSeqs(found) : \A m, n \in DOMAIN s : m < n => Older(s[m], s[n])}

\* evict_if_needed: measure, and collect the candidates; a link in the place
\* of one ends the refresh.
Scan(c) ==
    /\ pc[c] = "scan"
    /\ IF Cardinality(Present) <= MaxCached
       THEN Go(c, "clone") /\ UNCHANGED task
       ELSE \/ /\ Go(c, "evict")
               /\ \E found \in Candidates : cand' = [cand EXCEPT ![c] = found]
               /\ need' = [need EXCEPT ![c] = Cardinality(Present) - MaxCached]
            \/ Go(c, "failed") /\ UNCHANGED task
    /\ UNCHANGED <<disk, order, lock, pins, key, force, gone>>

\* The pass is over, and what it had collected is dropped.
Dropped(c) == cand' = [cand EXCEPT ![c] = <<>>] /\ need' = [need EXCEPT ![c] = 0]

\* ... remove the next candidate, unless enough was freed; a failed removal
\* is skipped, and a link in the place of a candidate ends the refresh.
Evict(c) ==
    /\ pc[c] = "evict"
    /\ IF need[c] = 0 \/ cand[c] = <<>>
       THEN Go(c, "clone") /\ UNCHANGED disk /\ Dropped(c)
       ELSE \/ /\ Head(cand[c]) \in Present
               /\ SetDisk(Head(cand[c]), "absent") /\ Go(c, "unlog")
               /\ need' = [need EXCEPT ![c] = @ - 1] /\ UNCHANGED cand
            \/ /\ HalfRemoved(Head(cand[c])) \/ UNCHANGED disk
               /\ cand' = [cand EXCEPT ![c] = Tail(@)]
               /\ UNCHANGED <<pc, need>>
            \/ Go(c, "failed") /\ UNCHANGED disk /\ Dropped(c)
    /\ UNCHANGED <<order, lock, pins, key, force, gone>>

\* ... and forget the removed clone.
Unlog(c) ==
    /\ pc[c] = "unlog" /\ Go(c, "evict")
    /\ order' = RemoveFirst(order, Head(cand[c]))
    /\ cand' = [cand EXCEPT ![c] = Tail(@)]
    /\ UNCHANGED <<disk, lock, pins, key, force, gone, need>>

\* clone_bare: until Git is done the directory is incomplete.  The parent
\* directory may not be there to be had, nor Git to be started ...
Clone(c) ==
    /\ pc[c] = "clone"
    /\ \/ Go(c, "cloning") /\ SetDisk(key[c], "damaged")
       \/ Go(c, "failed") /\ UNCHANGED disk
    /\ UNCHANGED <<order, lock, pins, key, force, gone, task>>

\* ... and a clone that fails removes it.  A whole one stays when replace_origin
\* fails on it, though the refresh does too.
Cloned(c) ==
    /\ pc[c] = "cloning"
    /\ \/ key[c] \in Present /\ SetDisk(key[c], "whole") /\ (Go(c, "log") \/ Go(c, "failed"))
       \/ SetDisk(key[c], "absent") /\ Go(c, "failed")
    /\ UNCHANGED <<order, lock, pins, key, force, gone, task>>

\* access_log.insert: the key becomes the most recently used.
Logged(c) == Append(RemoveFirst(order, key[c]), key[c])

\* The task's guard is dropped with its closure, on every path.
Unlocked(c) == [lock EXCEPT ![key[c]] = None]

\* The access is logged and the task ends: the lock is released; the pin goes
\* to the caller, or is dropped with the result of a failed or orphaned task.
Done(c) ==
    LET k == key[c]
    IN /\ pc[c] \in {"log", "failed"}
       /\ order' = IF pc[c] = "log" THEN Logged(c) ELSE order
       /\ lock' = Unlocked(c)
       /\ IF pc[c] = "failed" \/ gone[c]
          THEN Go(c, "idle") /\ pins' = Unpinned(k)
          ELSE Go(c, "checkout") /\ UNCHANGED pins
       /\ gone' = [gone EXCEPT ![c] = FALSE]
       /\ UNCHANGED <<disk, key, force, task>>

-----------------------------------------------------------------------------
(* The caller.                                                             *)

\* The awaiting future is dropped: nothing is held yet, or the task goes on.
Abandon(c) ==
    /\ \/ pc[c] = "lock" /\ Go(c, "idle") /\ UNCHANGED gone
       \/ pc[c] \in Blocking /\ ~gone[c]
          /\ gone' = [gone EXCEPT ![c] = TRUE] /\ UNCHANGED pc
    /\ UNCHANGED <<disk, order, lock, pins, key, force, task>>

\* The checkout reads the clone, and fails for want of a revision or of room
\* too.  The first failure drops the pin and forces a reclone, the second ends
\* the job.
Checkout(c) ==
    /\ pc[c] = "checkout"
    /\ \/ disk[key[c]] = "whole" /\ Go(c, "using") /\ UNCHANGED <<pins, force>>
       \/ /\ pins' = Unpinned(key[c])
          /\ Go(c, IF force[c] THEN "idle" ELSE "lock")
          /\ force' = [force EXCEPT ![c] = TRUE]
    /\ UNCHANGED <<disk, order, lock, key, gone, task>>

\* The job is over and its worktree dropped, and the pin with it.
Finish(c) ==
    /\ pc[c] = "using" /\ Go(c, "idle")
    /\ pins' = Unpinned(key[c])
    /\ UNCHANGED <<disk, order, lock, key, force, gone, task>>

\* The process dies and starts again: what is on the disk is logged by its
\* modification time, everything else is forgotten.
Restart ==
    /\ order' \in SetToSeqs(Present)
    /\ lock' = [k \in Keys |-> None] /\ pins' = [k \in Keys |-> 0]
    /\ pc' = [c \in Callers |-> "idle"] /\ gone' = [c \in Callers |-> FALSE]
    /\ cand' = [c \in Callers |-> <<>>] /\ need' = [c \in Callers |-> 0]
    /\ UNCHANGED <<disk, key, force>>

Work(c) ==
    \/ Start(c) \/ Fetch(c) \/ Rebuild(c) \/ Scan(c) \/ Evict(c) \/ Unlog(c)
    \/ Clone(c) \/ Cloned(c) \/ Done(c) \/ Checkout(c) \/ Finish(c)

Next ==
    \/ \E c \in Callers : \/ \E k \in Keys : Ensure(c, k)
                          \/ Acquire(c) \/ Work(c) \/ Abandon(c)
    \/ Restart

Spec == Init /\ [][Next]_vars

\* Git and the jobs end; the lock is a fair mutex.
FairSpec ==
    Spec /\ \A c \in Callers : WF_vars(Work(c)) /\ SF_vars(Acquire(c))

-----------------------------------------------------------------------------
\* At most one refresh at a time works on a repository, whoever gave up.
OneRefresh ==
    \A c \in Callers : pc[c] \in Blocking => lock[key[c]] = c

\* The refcount of a repository is the number of its live guards, through
\* retries, failures and abandoned refreshes.
PinsExact ==
    \A k \in Keys : pins[k] = Cardinality({c \in Callers : key[c] = k /\ pc[c] \in Pinning})

\* Leases that share the cache refresh a clone one at a time, and its refcount is the
\* number of guards alive (repo_cache.rs).
CacheSound == TypeOK /\ OneRefresh /\ PinsExact

\* What one step keeps of EvictionSkipsPinned.
EvictionSkipsPinnedStep ==
  \A c \in Callers :
    (pc[c] = "evict" /\ pc'[c] = "unlog") => pins[Head(cand[c])] = 0

\* An eviction pass never removes a clone somebody has pinned: "Eviction skips
\* any key with a non-zero refcount" (repo_cache.rs, RepoCache::refcounts).
EvictionSkipsPinned == [][EvictionSkipsPinnedStep]_vars

\* No refresh keeps a repository from other jobs for ever.
LockReleased == \A k \in Keys : lock[k] # None ~> lock[k] = None
=============================================================================
