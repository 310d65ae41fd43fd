------------------------------ MODULE Registry ------------------------------
(***************************************************************************)
(* The operator's registry of repositories and reporting credentials: the   *)
(* registered_repos table, the secrets table that holds one personal access *)
(* token (PAT) per repository and the server-wide GitHub App, and the       *)
(* routes that change them.  Every route works in one immediate transaction *)
(* of the storage crate, but for the App: it is verified at GitHub first    *)
(* and stored in a transaction of its own, with other requests in between.  *)
(***************************************************************************)
EXTENDS Naturals, FiniteSetsExt

CONSTANTS
  Urls,          \* clone URLs, all of one host
  Trackers,      \* target owner and repository of an issue tracker
  Allowed,       \* trackers whose owner app mode may report to
  Apps,          \* GitHub Apps an operator may configure
  Requests,      \* PUT /v1/github-app requests that may be under way at once
  None,
  MaxRepo, MaxSecret, MaxTime   \* bounds on row ids and on the clock

VARIABLES
  repos,      \* registered_repos: row id -> destination, or None
  secrets,    \* secrets: row id -> label, or None
  app,        \* the App stored in the row labelled AppLabel, or None
  verifying,  \* the App each request has verified and not yet stored
  now         \* seconds

vars == <<repos, secrets, app, verifying, now>>

RepoIds == 1..MaxRepo
SecretIds == 1..MaxSecret

\* pat_secret_id of a destination: a row id, 0 for app mode and None for the
\* destinations that are not GitHub.
RepoRows == [url : Urls, tracker : Trackers \cup {None},
                 pat : SecretIds \cup {0, None}]

\* A PAT's label names its tracker and, when it replaced another credential,
\* the repository, the row it replaced and the time; a first one has zeroes.
PatLabels == Trackers \X (0..MaxRepo) \X (0..MaxSecret) \X (0..MaxTime)
AppLabel == <<"server">>
FirstLabel(t) == <<t, 0, 0, 0>>
ReplacementLabel(t, r, previous) == <<t, r, previous, now>>

\* None is NULL: no value of a column, no row and no label.
ConstantsOK ==
  /\ Allowed \subseteq Trackers
  /\ {MaxRepo, MaxSecret, MaxTime} \subseteq Nat
  /\ None \notin Urls \cup Trackers \cup Apps \cup (0..MaxSecret)
  /\ None \notin RepoRows /\ None \notin PatLabels \cup {AppLabel}

Registered == {r \in RepoIds : repos[r] # None}
Stored == {s \in SecretIds : secrets[s] # None}
Labels == {secrets[s] : s \in Stored}

\* SQLite gives a new row the number after the largest in the table.
NextRow(rows) == IF rows = {} THEN 1 ELSE Max(rows) + 1
NextSecret == NextRow(Stored)

\* count_github_app_references and count_github_pat_references.
AppReferences(rs) == {r \in RepoIds : rs[r] # None /\ rs[r].pat = 0}
PatReferences(rs, s) == {r \in RepoIds : rs[r] # None /\ rs[r].pat = s}

AppModeAllowed(t) == t \in Allowed /\ app # None

Init ==
  /\ repos = [r \in RepoIds |-> None]
  /\ secrets = [s \in SecretIds |-> None]
  /\ app = None
  /\ verifying = [q \in Requests |-> None]
  /\ now = 0

---------------------------------------------------------------------------
(* The GitHub App.                                                          *)

\* GitHub accepts the key; a rejected one changes nothing.
VerifyApp(q, a) ==
  /\ verifying[q] = None
  /\ verifying' = [verifying EXCEPT ![q] = a]
  /\ UNCHANGED <<repos, secrets, app, now>>

\* The row is inserted, or its value replaced.
StoreApp(q) ==
  /\ verifying[q] # None
  /\ \/ AppLabel \in Labels /\ UNCHANGED secrets
     \/ /\ AppLabel \notin Labels
        /\ NextSecret \in SecretIds
        /\ secrets' = [secrets EXCEPT ![NextSecret] = AppLabel]
  /\ app' = verifying[q]
  /\ verifying' = [verifying EXCEPT ![q] = None]
  /\ UNCHANGED <<repos, now>>

\* Fault: the App is cleared without counting who reports through it.
ClearUnchecked ==
  /\ app # None
  /\ secrets' = [s \in SecretIds |-> IF secrets[s] = AppLabel THEN None ELSE secrets[s]]
  /\ app' = None
  /\ UNCHANGED <<repos, verifying, now>>

\* Refused while a repository reports through the App.
ClearApp ==
  /\ app # None
  /\ AppReferences(repos) = {}
  /\ secrets' = [s \in SecretIds |-> IF secrets[s] = AppLabel THEN None ELSE secrets[s]]
  /\ app' = None
  /\ UNCHANGED <<repos, verifying, now>>

---------------------------------------------------------------------------
(* Repositories.  Refused requests change nothing and are no steps.         *)

\* The table refuses a second row with the same clone URL, and the secrets
\* table a second row with the same label; either fails the transaction.
PatAccepted(label) == label \notin Labels

UrlFree(u) == \A r \in Registered : repos[r].url # u

Insert(u, t, pat) ==
  /\ UrlFree(u)
  /\ NextRow(Registered) \in RepoIds
  /\ repos' = [repos EXCEPT ![NextRow(Registered)] = [url |-> u, tracker |-> t, pat |-> pat]]
  /\ UNCHANGED <<app, verifying, now>>

RegisterWithPat(u, t) ==
  /\ PatAccepted(FirstLabel(t))
  /\ NextSecret \in SecretIds
  /\ secrets' = [secrets EXCEPT ![NextSecret] = FirstLabel(t)]
  /\ Insert(u, t, NextSecret)

RegisterWithApp(u, t) ==
  /\ AppModeAllowed(t)
  /\ UNCHANGED secrets
  /\ Insert(u, t, 0)

RegisterOther(u) == UNCHANGED secrets /\ Insert(u, None, None)

\* The credential a destination leaves behind goes when nobody refers to it.
Repoint(r, t, pat, table) ==
  LET old == repos[r].pat
      moved == [repos EXCEPT ![r] = [@ EXCEPT !.tracker = t, !.pat = pat]]
      orphaned == old \in SecretIds /\ PatReferences(moved, old) = {}
  IN /\ repos' = moved
     /\ secrets' = IF orphaned THEN [table EXCEPT ![old] = None] ELSE table
     /\ UNCHANGED <<app, verifying, now>>

SetReportingPat(r, t) ==
  LET previous == IF repos[r].pat \in SecretIds THEN repos[r].pat ELSE 0
      label == ReplacementLabel(t, r, previous)
  IN /\ r \in Registered
     /\ PatAccepted(label)
     /\ NextSecret \in SecretIds
     /\ Repoint(r, t, NextSecret, [secrets EXCEPT ![NextSecret] = label])

SetReportingApp(r, t) ==
  /\ r \in Registered
  /\ AppModeAllowed(t)
  /\ Repoint(r, t, 0, secrets)

\* Only a repository that has a PAT can have it rotated.
RotatePat(r) ==
  /\ r \in Registered
  /\ repos[r].pat \in SecretIds
  /\ SetReportingPat(r, repos[r].tracker)

\* The row goes, with its jobs and findings; its secret stays.
Delete(r) ==
  /\ r \in Registered
  /\ repos' = [repos EXCEPT ![r] = None]
  /\ UNCHANGED <<secrets, app, verifying, now>>

Tick ==
  /\ now < MaxTime
  /\ now' = now + 1
  /\ UNCHANGED <<repos, secrets, app, verifying>>

Next ==
  \/ \E q \in Requests, a \in Apps : VerifyApp(q, a)
  \/ \E q \in Requests : StoreApp(q)
  \/ ClearApp
  \/ \E u \in Urls, t \in Trackers : RegisterWithPat(u, t)
  \/ \E u \in Urls, t \in Trackers : RegisterWithApp(u, t)
  \/ \E u \in Urls : RegisterOther(u)
  \/ \E r \in RepoIds, t \in Trackers : SetReportingPat(r, t)
  \/ \E r \in RepoIds, t \in Trackers : SetReportingApp(r, t)
  \/ \E r \in RepoIds : RotatePat(r)
  \/ \E r \in RepoIds : Delete(r)
  \/ Tick

Spec == Init /\ [][Next]_vars

---------------------------------------------------------------------------
(* Properties.                                                              *)

\* The columns have their types, no label is stored twice and the App is the
\* value of the one row with its label (the secrets table, migrations.rs).
TypeOK ==
  /\ repos \in [RepoIds -> RepoRows \cup {None}]
  /\ secrets \in [SecretIds -> PatLabels \cup {AppLabel, None}]
  /\ app \in Apps \cup {None}
  /\ verifying \in [Requests -> Apps \cup {None}]
  /\ now \in 0..MaxTime
  /\ \A s1, s2 \in Stored : secrets[s1] = secrets[s2] => s1 = s2
  /\ app = None <=> AppLabel \notin Labels

\* reports.rs can select a credential for every repository that reports to
\* GitHub, whatever set, clear, rotate and switch requests interleave: an App
\* is stored while one reports through it, and a PAT's row is there and is a PAT.
CredentialAvailable ==
  \A r \in Registered :
     /\ repos[r].pat = 0 => app # None
     /\ repos[r].pat \in SecretIds => secrets[repos[r].pat] \in PatLabels

\* A PAT belongs to one repository, and to the tracker it was given for: a
\* rotation (repos.rs set_github_reporting) never changes another's credential.
PatIsOwn ==
  \A r \in Registered : repos[r].pat \in SecretIds =>
     /\ PatReferences(repos, repos[r].pat) = {r}
     /\ secrets[repos[r].pat][1] = repos[r].tracker

\* However registrations, updates, deletions and changes of the App interleave, each
\* repository has the credential its reports need and shares it with no other.
CredentialsSound == TypeOK /\ CredentialAvailable /\ PatIsOwn

=============================================================================
