------------------------- MODULE ServerParts_proofs -------------------------
(***************************************************************************)
(* What a server stands on, for every value of the constants: the reporting *)
(* credentials of the registered repositories (Registry, which MCServer     *)
(* instantiates as Registering), its directory (DataDir, as Dir), the       *)
(* schema of its database (Upgrade, as Upgrading) and the budgets of a      *)
(* worker's requests (RequestBudget, here as Bud).                          *)
(***************************************************************************)
EXTENDS MCServer, Sequences, FiniteSetTheorems, WellFoundedInduction, TLAPS

(***************************************************************************)
(* The reporting credentials of the repositories                            *)
(***************************************************************************)
\* A set of row numbers that is not empty has a largest one.
LEMMA Largest ==
  ASSUME NEW n \in Nat, NEW S \in SUBSET (1 .. n), S # {}
  PROVE  \E x \in S : \A y \in S : x >= y
<1>1. PICK T : T = {n - x : x \in S}
  OBVIOUS
<1>2. T \subseteq Nat /\ T # {}
  <2>1. \A x \in S : n - x \in Nat
    OBVIOUS
  <2> QED
    BY <1>1, <2>1
<1>3. PICK m \in T : \A k \in T : ~ (<<k, m>> \in OpToRel(<, Nat))
  BY <1>2, NatLessThanWellFounded, WFMin
<1>4. \A k \in T : ~ (k < m)
  BY <1>2, <1>3 DEF OpToRel
<1>5. PICK x \in S : m = n - x
  BY <1>1
<1>6. \A y \in S : n - y \in T
  BY <1>1
<1> QED
  BY <1>4, <1>5, <1>6

\* The number of a new row is not in the table.
LEMMA NextIsNew ==
  ASSUME NEW n \in Nat, NEW S \in SUBSET (1 .. n)
  PROVE  Registering!NextRow(S) \notin S
<1>1. CASE S = {}
  BY <1>1
<1>2. CASE S # {}
  <2>1. PICK m : m = Registering!Max(S)
    OBVIOUS
  <2>2. m \in S /\ \A y \in S : m >= y
    BY <1>2, <2>1, Largest DEF Registering!Max
  <2>3. m \in Nat /\ m + 1 \notin S
    BY <2>2
  <2>4. Registering!NextRow(S) = m + 1
    BY <1>2, <2>1 DEF Registering!NextRow
  <2> QED
    BY <2>3, <2>4
<1> QED
  BY <1>1, <1>2

(***************************************************************************)
(* The invariant in parts                                                   *)
(***************************************************************************)
\* The types of the columns.
Columns ==
  /\ repos \in [Registering!RepoIds -> Registering!RepoRows \cup {None}]
  /\ secrets \in [Registering!SecretIds -> Registering!PatLabels \cup {Registering!AppLabel, None}]
  /\ app \in Apps \cup {None} /\ verifying \in [AppRequests -> Apps \cup {None}] /\ now \in 0..MaxTime

\* The labels of the secrets are unique, and the App is stored where its label is.
LabelsUnique == \A s1, s2 \in Registering!Stored : secrets[s1] = secrets[s2] => s1 = s2
AppStored == app = None <=> Registering!AppLabel \notin Registering!Labels

\* Row for row: an App where one is reported through, a token of the row's tracker where one is.
RowServed ==
  \A r \in Registering!RepoIds : repos[r] # None =>
    /\ repos[r].pat = 0 => app # None
    /\ repos[r].pat \in Registering!SecretIds =>
         /\ secrets[repos[r].pat] \in Registering!PatLabels
         /\ secrets[repos[r].pat][1] = repos[r].tracker

\* No two rows have one token.
Unshared ==
  \A r, q \in Registering!RepoIds : repos[r] # None /\ repos[q] # None /\ repos[r].pat \in Registering!SecretIds
                        /\ repos[q].pat = repos[r].pat => q = r

RegistryInv == Columns /\ LabelsUnique /\ AppStored /\ RowServed /\ Unshared

\* The inductive invariant implies what the run checks.
LEMMA RegistryImplied == RegistryInv => Registering!CredentialsSound
<1> SUFFICES ASSUME RegistryInv
             PROVE  Registering!CredentialsSound
  OBVIOUS
<1>1. Registering!TypeOK
  BY DEF RegistryInv, Columns, LabelsUnique, AppStored, Registering!TypeOK
<1>2. Registering!CredentialAvailable
  BY DEF RegistryInv, RowServed, Registering!CredentialAvailable, Registering!Registered
<1>3. Registering!PatIsOwn
  BY DEF RegistryInv, RowServed, Unshared, Registering!PatIsOwn, Registering!Registered,
       Registering!PatReferences
<1> QED
  BY <1>1, <1>2, <1>3 DEF Registering!CredentialsSound

\* NULL is no value, and the App's label is no token's.
LEMMA Distinct ==
  ASSUME Registering!ConstantsOK
  PROVE  /\ None \notin Registering!RepoRows /\ None \notin Registering!PatLabels /\ None # Registering!AppLabel /\ Registering!AppLabel \notin Registering!PatLabels
         /\ None \notin Registering!SecretIds /\ None # 0 /\ 0 \notin Registering!SecretIds
         /\ MaxRepo \in Nat /\ MaxSecret \in Nat /\ MaxTime \in Nat
<1>1. Registering!AppLabel \notin Registering!PatLabels
  BY DEF Registering!AppLabel, Registering!PatLabels
<1>2. 0 \notin Registering!SecretIds /\ Registering!SecretIds \subseteq 0 .. MaxSecret
  BY DEF Registering!SecretIds, Registering!ConstantsOK
<1>3. MaxRepo \in Nat /\ MaxSecret \in Nat /\ MaxTime \in Nat
  BY DEF Registering!ConstantsOK
<1>4. 0 \in 0 .. MaxSecret
  BY <1>3
<1>5. None \notin Registering!RepoRows /\ None \notin Registering!PatLabels /\ None # Registering!AppLabel
  BY DEF Registering!ConstantsOK
<1>6. None \notin 0 .. MaxSecret
  BY DEF Registering!ConstantsOK
<1> QED
  BY <1>1, <1>2, <1>3, <1>4, <1>5, <1>6

\* It holds in the empty database.
LEMMA RegistryInitial == Registering!ConstantsOK /\ Registering!Init => RegistryInv
<1> SUFFICES ASSUME Registering!ConstantsOK, Registering!Init
             PROVE  RegistryInv
  OBVIOUS
<1>1. Columns
  BY Distinct DEF Registering!Init, Columns
<1>2. Registering!Stored = {} /\ Registering!Labels = {}
  BY DEF Registering!Init, Registering!Stored, Registering!Labels
<1> QED
  BY <1>1, <1>2 DEF Registering!Init, RegistryInv, LabelsUnique, AppStored, RowServed, Unshared

(***************************************************************************)
(* What the requests write                                                  *)
(***************************************************************************)
\* A secret is added under a label that is not there.
Added(s, label) ==
  /\ s \in Registering!SecretIds /\ secrets[s] = None /\ label # None
  /\ label \notin Registering!Labels /\ label \in Registering!PatLabels \cup {Registering!AppLabel}

\* What the table is once the token is in it.
AddedTo(table, s, label) ==
  /\ table \in [Registering!SecretIds -> Registering!PatLabels \cup {Registering!AppLabel, None}] /\ table[s] = label
  /\ \A i \in Registering!SecretIds : i # s => table[i] = secrets[i]
  /\ \A i, j \in Registering!SecretIds : table[i] # None /\ table[i] = table[j] => i = j
  /\ (\E i \in Registering!SecretIds : table[i] = Registering!AppLabel) <=> (label = Registering!AppLabel \/ Registering!AppLabel \in Registering!Labels)
  /\ \A r \in Registering!RepoIds : repos[r] # None => repos[r].pat # s

\* A new token shares neither its number nor its label, and no row refers to it yet.
LEMMA AddedFacts ==
  ASSUME Registering!ConstantsOK, RegistryInv, NEW s, NEW label, NEW table
  PROVE  Added(s, label) /\ table = [secrets EXCEPT ![s] = label] => AddedTo(table, s, label)
<1> SUFFICES ASSUME Added(s, label), table = [secrets EXCEPT ![s] = label]
             PROVE  AddedTo(table, s, label)
  OBVIOUS
<1>1. /\ secrets \in [Registering!SecretIds -> Registering!PatLabels \cup {Registering!AppLabel, None}]
      /\ repos \in [Registering!RepoIds -> Registering!RepoRows \cup {None}]
  BY DEF RegistryInv, Columns
<1>2. /\ table \in [Registering!SecretIds -> Registering!PatLabels \cup {Registering!AppLabel, None}] /\ table[s] = label
      /\ \A i \in Registering!SecretIds : i # s => table[i] = secrets[i]
  BY <1>1 DEF Added
<1>3. \A i \in Registering!SecretIds : secrets[i] # None => secrets[i] # label
  BY DEF Added, Registering!Labels, Registering!Stored
<1>4. \A i, j \in Registering!SecretIds : table[i] # None /\ table[i] = table[j] => i = j
  BY <1>2, <1>3 DEF RegistryInv, LabelsUnique, Registering!Stored, Added
<1>5. Registering!AppLabel \in Registering!Labels <=> \E i \in Registering!SecretIds : secrets[i] = Registering!AppLabel
  BY Distinct DEF Registering!Labels, Registering!Stored
<1>6. (\E i \in Registering!SecretIds : table[i] = Registering!AppLabel) <=> (label = Registering!AppLabel \/ Registering!AppLabel \in Registering!Labels)
  BY <1>2, <1>5, Distinct DEF Added
<1>7. \A r \in Registering!RepoIds : repos[r] # None => repos[r].pat # s
  BY Distinct DEF RegistryInv, RowServed, Added
<1> QED
  BY <1>2, <1>4, <1>6, <1>7 DEF AddedTo

\* The number the table gives next.
LEMMA NewSecret ==
  ASSUME Registering!ConstantsOK, Registering!NextSecret \in Registering!SecretIds, NEW label, label \notin Registering!Labels,
         label \in Registering!PatLabels \cup {Registering!AppLabel}
  PROVE  Added(Registering!NextSecret, label)
<1>1. Registering!Stored \in SUBSET (1 .. MaxSecret)
  BY DEF Registering!Stored, Registering!SecretIds
<1>2. Registering!NextSecret \notin Registering!Stored
  BY <1>1, NextIsNew, Distinct DEF Registering!NextSecret
<1> QED
  BY <1>2, Distinct DEF Added, Registering!Stored

\* What the labels of the table say, for the next state.
TableSound ==
  /\ secrets' \in [Registering!SecretIds -> Registering!PatLabels \cup {Registering!AppLabel, None}]
  /\ \A i, j \in Registering!SecretIds : secrets'[i] # None /\ secrets'[i] = secrets'[j] => i = j
  /\ app' = None <=> ~ \E i \in Registering!SecretIds : secrets'[i] = Registering!AppLabel

\* The same, as conjuncts of the invariant.
LEMMA TableKeeps ==
  ASSUME Registering!ConstantsOK, TableSound
  PROVE  LabelsUnique' /\ AppStored'
<1>1. LabelsUnique'
  BY DEF TableSound, LabelsUnique, Registering!Stored
<1>2. Registering!AppLabel \in Registering!Labels' <=> \E i \in Registering!SecretIds : secrets'[i] = Registering!AppLabel
  BY Distinct DEF Registering!Labels, Registering!Stored
<1> QED
  BY <1>1, <1>2 DEF TableSound, AppStored

\* A request that leaves the registered rows alone keeps the tokens they refer to.
LEMMA RowsUntouched ==
  ASSUME Registering!ConstantsOK, RegistryInv, repos' = repos, TableSound, app' \in Apps \cup {None},
         verifying' \in [AppRequests -> Apps \cup {None}], now' \in 0 .. MaxTime,
         app' = None => app = None \/ Registering!AppReferences(repos) = {},
         \A i \in Registering!SecretIds : secrets[i] \in Registering!PatLabels => secrets'[i] = secrets[i]
  PROVE  RegistryInv'
<1>1. LabelsUnique' /\ AppStored'
  BY TableKeeps
<1>2. Columns' /\ Unshared'
  BY DEF RegistryInv, Columns, Unshared, TableSound
<1>3. RowServed'
  BY DEF RegistryInv, RowServed, Registering!AppReferences
<1> QED
  BY <1>1, <1>2, <1>3 DEF RegistryInv

\* The table of a state that satisfies the invariant.
LEMMA TableNow ==
  ASSUME Registering!ConstantsOK, RegistryInv
  PROVE  /\ secrets \in [Registering!SecretIds -> Registering!PatLabels \cup {Registering!AppLabel, None}]
         /\ \A i, j \in Registering!SecretIds : secrets[i] # None /\ secrets[i] = secrets[j] => i = j
         /\ app = None <=> ~ \E i \in Registering!SecretIds : secrets[i] = Registering!AppLabel
         /\ Registering!AppLabel \in Registering!Labels <=> \E i \in Registering!SecretIds : secrets[i] = Registering!AppLabel
<1>1. Registering!AppLabel \in Registering!Labels <=> \E i \in Registering!SecretIds : secrets[i] = Registering!AppLabel
  BY Distinct DEF Registering!Labels, Registering!Stored
<1> QED
  BY <1>1 DEF RegistryInv, Columns, LabelsUnique, AppStored, Registering!Stored

\* The App is verified, stored and cleared, and time passes.
LEMMA AppSteps ==
  ASSUME Registering!ConstantsOK, RegistryInv,
         \/ \E q \in AppRequests, a \in Apps : Registering!VerifyApp(q, a)
         \/ \E q \in AppRequests : Registering!StoreApp(q)
         \/ Registering!ClearApp \/ Registering!Tick
  PROVE  RegistryInv'
<1>1. /\ app \in Apps \cup {None} /\ verifying \in [AppRequests -> Apps \cup {None}] /\ now \in 0 .. MaxTime
      /\ None \notin Apps
  BY DEF RegistryInv, Columns, Registering!ConstantsOK
<1>2. CASE (\E q \in AppRequests, a \in Apps : Registering!VerifyApp(q, a)) \/ Registering!Tick
  <2>1. /\ repos' = repos /\ secrets' = secrets /\ app' = app
        /\ verifying' \in [AppRequests -> Apps \cup {None}] /\ now' \in 0 .. MaxTime
    BY <1>1, <1>2, Distinct DEF Registering!VerifyApp, Registering!Tick
  <2>2. TableSound
    BY <2>1, TableNow DEF TableSound
  <2> QED
    BY <1>1, <2>1, <2>2, RowsUntouched
<1>3. CASE \E q \in AppRequests : Registering!StoreApp(q)
  <2>1. PICK q \in AppRequests : Registering!StoreApp(q)
    BY <1>3
  <2>2. /\ repos' = repos /\ now' = now /\ app' \in Apps /\ app' # None
        /\ verifying' \in [AppRequests -> Apps \cup {None}]
    BY <1>1, <2>1 DEF Registering!StoreApp
  <2>3. CASE Registering!AppLabel \in Registering!Labels /\ secrets' = secrets
    <3>1. TableSound
      BY <2>2, <2>3, TableNow DEF TableSound
    <3> QED
      BY <1>1, <2>2, <2>3, <3>1, RowsUntouched
  <2>4. CASE /\ Registering!AppLabel \notin Registering!Labels /\ Registering!NextSecret \in Registering!SecretIds
             /\ secrets' = [secrets EXCEPT ![Registering!NextSecret] = Registering!AppLabel]
    <3>1. PICK s : s = Registering!NextSecret
      OBVIOUS
    <3>2. Added(s, Registering!AppLabel) /\ secrets' = [secrets EXCEPT ![s] = Registering!AppLabel]
      BY <2>4, <3>1, NewSecret
    <3>21. PICK table : table = [secrets EXCEPT ![s] = Registering!AppLabel]
      OBVIOUS
    <3>22. AddedTo(table, s, Registering!AppLabel)
      BY <3>2, <3>21, AddedFacts
    <3>3. /\ secrets' \in [Registering!SecretIds -> Registering!PatLabels \cup {Registering!AppLabel, None}] /\ secrets'[s] = Registering!AppLabel
          /\ \A i \in Registering!SecretIds : i # s => secrets'[i] = secrets[i]
          /\ \A i, j \in Registering!SecretIds : secrets'[i] # None /\ secrets'[i] = secrets'[j] => i = j
      BY <3>2, <3>21, <3>22 DEF AddedTo
    <3>4. TableSound
      BY <2>2, <3>2, <3>3 DEF TableSound, Added
    <3>5. \A i \in Registering!SecretIds : secrets[i] \in Registering!PatLabels => secrets'[i] = secrets[i]
      BY <3>2, <3>3, Distinct DEF Added
    <3> QED
      BY <1>1, <2>2, <3>4, <3>5, RowsUntouched
  <2> QED
    BY <2>1, <2>3, <2>4 DEF Registering!StoreApp
<1>4. CASE Registering!ClearApp
  <2>1. /\ repos' = repos /\ now' = now /\ app' = None /\ verifying' = verifying
        /\ Registering!AppReferences(repos) = {}
        /\ secrets' = [s \in Registering!SecretIds |-> IF secrets[s] = Registering!AppLabel THEN None ELSE secrets[s]]
    BY <1>4 DEF Registering!ClearApp
  <2>2. /\ secrets' \in [Registering!SecretIds -> Registering!PatLabels \cup {Registering!AppLabel, None}]
        /\ \A i \in Registering!SecretIds : secrets'[i] = IF secrets[i] = Registering!AppLabel THEN None ELSE secrets[i]
    BY <2>1, TableNow
  <2>3. TableSound
    BY <2>1, <2>2, TableNow, Distinct DEF TableSound
  <2>4. \A i \in Registering!SecretIds : secrets[i] \in Registering!PatLabels => secrets'[i] = secrets[i]
    BY <2>2, Distinct
  <2> QED
    BY <1>1, <2>1, <2>3, <2>4, RowsUntouched
<1> QED
  BY <1>2, <1>3, <1>4

\* One registered row is written, with a credential that is there and nobody else's, or it goes.
LEMMA RowWritten ==
  ASSUME Registering!ConstantsOK, RegistryInv, NEW r \in Registering!RepoIds, NEW row \in Registering!RepoRows \cup {None},
         repos' = [repos EXCEPT ![r] = row], TableSound,
         app' = app, verifying' = verifying, now' = now,
         row # None /\ row.pat = 0 => app # None,
         row # None /\ row.pat \in Registering!SecretIds =>
           /\ secrets'[row.pat] \in Registering!PatLabels /\ secrets'[row.pat][1] = row.tracker
           /\ \A q \in Registering!RepoIds : q # r /\ repos[q] # None => repos[q].pat # row.pat,
         \A q \in Registering!RepoIds : q # r /\ repos[q] # None /\ repos[q].pat \in Registering!SecretIds =>
                              secrets'[repos[q].pat] = secrets[repos[q].pat]
  PROVE  RegistryInv'
<1>1. LabelsUnique' /\ AppStored'
  BY TableKeeps
<1>2. repos \in [Registering!RepoIds -> Registering!RepoRows \cup {None}]
  BY DEF RegistryInv, Columns
<1>3. /\ repos' \in [Registering!RepoIds -> Registering!RepoRows \cup {None}] /\ repos'[r] = row
      /\ \A q \in Registering!RepoIds : q # r => repos'[q] = repos[q]
  BY <1>2
<1>4. Columns'
  BY <1>3 DEF RegistryInv, Columns, TableSound
<1>5. RowServed'
  BY <1>3 DEF RegistryInv, RowServed
<1>6. Unshared'
  BY <1>3 DEF RegistryInv, Unshared
<1> QED
  BY <1>1, <1>4, <1>5, <1>6 DEF RegistryInv

\* A repository is registered, or its row goes.
LEMMA RegisterSteps ==
  ASSUME Registering!ConstantsOK, RegistryInv,
         \/ \E u \in Urls, t \in Trackers : Registering!RegisterWithPat(u, t) \/ Registering!RegisterWithApp(u, t)
         \/ \E u \in Urls : Registering!RegisterOther(u)
         \/ \E r \in Registering!RepoIds : Registering!Delete(r)
  PROVE  RegistryInv'
<1>1. CASE \E r \in Registering!RepoIds : Registering!Delete(r)
  <2>1. PICK r \in Registering!RepoIds : Registering!Delete(r)
    BY <1>1
  <2>2. /\ repos' = [repos EXCEPT ![r] = None] /\ secrets' = secrets
        /\ app' = app /\ verifying' = verifying /\ now' = now
    BY <2>1 DEF Registering!Delete
  <2>3. TableSound
    BY <2>2, TableNow DEF TableSound
  <2> QED
    BY <2>2, <2>3, RowWritten
<1>2. CASE \E u \in Urls : Registering!RegisterOther(u)
  <2>1. PICK u \in Urls : Registering!RegisterOther(u)
    BY <1>2
  <2>2. PICK r, row : r = Registering!NextRow(Registering!Registered) /\ row = [url |-> u, tracker |-> None, pat |-> None]
    OBVIOUS
  <2>3. /\ r \in Registering!RepoIds /\ repos' = [repos EXCEPT ![r] = row] /\ secrets' = secrets
        /\ app' = app /\ verifying' = verifying /\ now' = now
    BY <2>1, <2>2 DEF Registering!RegisterOther, Registering!Insert
  <2>4. row \in Registering!RepoRows /\ row.pat = None
    BY <2>2 DEF Registering!RepoRows
  <2>5. TableSound
    BY <2>3, TableNow DEF TableSound
  <2> QED
    BY <2>3, <2>4, <2>5, RowWritten, Distinct
<1>3. CASE \E u \in Urls, t \in Trackers : Registering!RegisterWithApp(u, t)
  <2>1. PICK u \in Urls, t \in Trackers : Registering!RegisterWithApp(u, t)
    BY <1>3
  <2>2. PICK r, row : r = Registering!NextRow(Registering!Registered) /\ row = [url |-> u, tracker |-> t, pat |-> 0]
    OBVIOUS
  <2>3. /\ r \in Registering!RepoIds /\ repos' = [repos EXCEPT ![r] = row] /\ secrets' = secrets
        /\ app' = app /\ verifying' = verifying /\ now' = now /\ app # None
    BY <2>1, <2>2 DEF Registering!RegisterWithApp, Registering!AppModeAllowed, Registering!Insert
  <2>4. row \in Registering!RepoRows /\ row.pat = 0
    BY <2>2 DEF Registering!RepoRows
  <2>5. TableSound
    BY <2>3, TableNow DEF TableSound
  <2> QED
    BY <2>3, <2>4, <2>5, RowWritten, Distinct
<1>4. CASE \E u \in Urls, t \in Trackers : Registering!RegisterWithPat(u, t)
  <2>1. PICK u \in Urls, t \in Trackers : Registering!RegisterWithPat(u, t)
    BY <1>4
  <2>2. PICK r, s, label : r = Registering!NextRow(Registering!Registered) /\ s = Registering!NextSecret /\ label = Registering!FirstLabel(t)
    OBVIOUS
  <2>3. PICK row : row = [url |-> u, tracker |-> t, pat |-> s]
    OBVIOUS
  <2>4. /\ r \in Registering!RepoIds /\ repos' = [repos EXCEPT ![r] = row] /\ s \in Registering!SecretIds
        /\ secrets' = [secrets EXCEPT ![s] = label] /\ label \notin Registering!Labels
        /\ app' = app /\ verifying' = verifying /\ now' = now
    BY <2>1, <2>2, <2>3 DEF Registering!RegisterWithPat, Registering!Insert, Registering!PatAccepted
  <2>5. label \in Registering!PatLabels /\ label[1] = t
    BY <2>2, Distinct DEF Registering!FirstLabel, Registering!PatLabels
  <2>6. Added(s, label)
    BY <2>2, <2>4, <2>5, NewSecret
  <2>7. row \in Registering!RepoRows /\ row.pat = s /\ row.tracker = t
    BY <2>3, <2>4 DEF Registering!RepoRows
  <2>71. PICK table : table = [secrets EXCEPT ![s] = label]
    OBVIOUS
  <2>72. AddedTo(table, s, label)
    BY <2>6, <2>71, AddedFacts
  <2>8. /\ secrets' \in [Registering!SecretIds -> Registering!PatLabels \cup {Registering!AppLabel, None}] /\ secrets'[s] = label
        /\ \A i \in Registering!SecretIds : i # s => secrets'[i] = secrets[i]
        /\ \A i, j \in Registering!SecretIds : secrets'[i] # None /\ secrets'[i] = secrets'[j] => i = j
        /\ (\E i \in Registering!SecretIds : secrets'[i] = Registering!AppLabel) <=> (label = Registering!AppLabel \/ Registering!AppLabel \in Registering!Labels)
        /\ \A q \in Registering!RepoIds : repos[q] # None => repos[q].pat # s
    BY <2>4, <2>71, <2>72 DEF AddedTo
  <2>9. TableSound
    BY <2>4, <2>5, <2>8, TableNow, Distinct DEF TableSound
  <2>10. s # 0
    BY <2>4, Distinct
  <2> QED
    BY <2>4, <2>5, <2>7, <2>8, <2>9, <2>10, RowWritten
<1> QED
  BY <1>1, <1>2, <1>3, <1>4

\* A repository's reports go elsewhere or with another credential: the one it leaves behind
\* was its own, and goes.
LEMMA RepointKeeps ==
  ASSUME Registering!ConstantsOK, RegistryInv, NEW r \in Registering!Registered, NEW t \in Trackers, NEW pat,
         NEW table \in [Registering!SecretIds -> Registering!PatLabels \cup {Registering!AppLabel, None}], Registering!Repoint(r, t, pat, table),
         pat = 0 \/ pat \in Registering!SecretIds, pat = 0 => app # None,
         pat \in Registering!SecretIds => /\ table[pat] \in Registering!PatLabels /\ table[pat][1] = t
                              /\ secrets[pat] = None
                              /\ \A q \in Registering!RepoIds : repos[q] # None => repos[q].pat # pat,
         \A i \in Registering!SecretIds : i # pat => table[i] = secrets[i],
         \A i, j \in Registering!SecretIds : table[i] # None /\ table[i] = table[j] => i = j
  PROVE  RegistryInv'
<1>1. /\ r \in Registering!RepoIds /\ repos[r] # None /\ repos[r] \in Registering!RepoRows
      /\ repos \in [Registering!RepoIds -> Registering!RepoRows \cup {None}]
  BY DEF Registering!Registered, RegistryInv, Columns
<1>2. PICK old, row : old = repos[r].pat /\ row = [repos[r] EXCEPT !.tracker = t, !.pat = pat]
  OBVIOUS
<1>3. row \in Registering!RepoRows /\ row.pat = pat /\ row.tracker = t /\ row # None
  <2>1. row \in Registering!RepoRows /\ row.pat = pat /\ row.tracker = t
    BY <1>1, <1>2 DEF Registering!RepoRows
  <2> QED
    BY <2>1, Distinct
<1>4. /\ repos' = [repos EXCEPT ![r] = row] /\ app' = app /\ verifying' = verifying /\ now' = now
      /\ secrets' = table \/ (old \in Registering!SecretIds /\ secrets' = [table EXCEPT ![old] = None])
  BY <1>1, <1>2 DEF Registering!Repoint
<1>5. old \in Registering!SecretIds => old # pat /\ secrets[old] \in Registering!PatLabels
  BY <1>1, <1>2 DEF RegistryInv, RowServed
<1>6. /\ secrets' \in [Registering!SecretIds -> Registering!PatLabels \cup {Registering!AppLabel, None}]
      /\ \A i \in Registering!SecretIds :
           secrets'[i] = table[i] \/ (i = old /\ secrets'[i] = None /\ table[i] \in Registering!PatLabels)
  BY <1>4, <1>5
<1>7. TableSound
  <2>1. \A i, j \in Registering!SecretIds : secrets'[i] # None /\ secrets'[i] = secrets'[j] => i = j
    BY <1>6
  <2>2. \A i \in Registering!SecretIds : secrets'[i] = Registering!AppLabel <=> secrets[i] = Registering!AppLabel
    <3>1. \A i \in Registering!SecretIds : table[i] = Registering!AppLabel <=> secrets[i] = Registering!AppLabel
      BY Distinct
    <3> QED
      BY <1>6, <3>1, Distinct
  <2> QED
    BY <1>4, <1>6, <2>1, <2>2, TableNow DEF TableSound
<1>8. \A q \in Registering!RepoIds : q # r /\ repos[q] # None /\ repos[q].pat \in Registering!SecretIds =>
                           secrets'[repos[q].pat] = secrets[repos[q].pat]
  <2> SUFFICES ASSUME NEW q \in Registering!RepoIds, q # r, repos[q] # None, repos[q].pat \in Registering!SecretIds
               PROVE  secrets'[repos[q].pat] = secrets[repos[q].pat]
    OBVIOUS
  <2>1. repos[q].pat # old
    BY <1>1, <1>2 DEF RegistryInv, Unshared
  <2>2. repos[q].pat # pat
    OBVIOUS
  <2> QED
    BY <1>6, <2>1, <2>2
<1>9. pat \in Registering!SecretIds => secrets'[pat] = table[pat]
  BY <1>5, <1>6
<1>10. pat = 0 => pat \notin Registering!SecretIds
  BY Distinct
<1> QED
  BY <1>1, <1>3, <1>4, <1>7, <1>8, <1>9, <1>10, RowWritten

\* The reporting credential of a repository is set, switched or rotated.
LEMMA ReportingSteps ==
  ASSUME Registering!ConstantsOK, RegistryInv, NEW r \in Registering!RepoIds,
         (\E t \in Trackers : Registering!SetReportingPat(r, t) \/ Registering!SetReportingApp(r, t)) \/ Registering!RotatePat(r)
  PROVE  RegistryInv'
<1>1. CASE \E t \in Trackers : Registering!SetReportingApp(r, t)
  <2>1. PICK t \in Trackers : Registering!SetReportingApp(r, t)
    BY <1>1
  <2>2. r \in Registering!Registered /\ app # None /\ Registering!Repoint(r, t, 0, secrets)
    BY <2>1 DEF Registering!SetReportingApp, Registering!AppModeAllowed
  <2>3. 0 \notin Registering!SecretIds
    BY Distinct
  <2> QED
    BY <2>2, <2>3, TableNow, RepointKeeps
<1>2. ASSUME NEW t \in Trackers, Registering!SetReportingPat(r, t)
      PROVE  RegistryInv'
  <2>1. PICK previous : previous = IF repos[r].pat \in Registering!SecretIds THEN repos[r].pat ELSE 0
    OBVIOUS
  <2>2. PICK s, label : s = Registering!NextSecret /\ label = Registering!ReplacementLabel(t, r, previous)
    OBVIOUS
  <2>3. PICK table : table = [secrets EXCEPT ![s] = label]
    OBVIOUS
  <2>4. /\ r \in Registering!Registered /\ label \notin Registering!Labels /\ s \in Registering!SecretIds /\ Registering!Repoint(r, t, s, table)
    BY <1>2, <2>1, <2>2, <2>3 DEF Registering!SetReportingPat, Registering!PatAccepted
  <2>5. label \in Registering!PatLabels /\ label[1] = t
    <3>1. previous \in 0 .. MaxSecret /\ r \in 0 .. MaxRepo /\ now \in 0 .. MaxTime
      BY <2>1, Distinct DEF Registering!SecretIds, Registering!RepoIds, RegistryInv, Columns
    <3> QED
      BY <2>2, <3>1 DEF Registering!ReplacementLabel, Registering!PatLabels
  <2>6. Added(s, label)
    BY <2>2, <2>4, <2>5, NewSecret
  <2>61. AddedTo(table, s, label)
    BY <2>3, <2>6, AddedFacts
  <2>7. /\ table \in [Registering!SecretIds -> Registering!PatLabels \cup {Registering!AppLabel, None}] /\ table[s] = label
        /\ \A i \in Registering!SecretIds : i # s => table[i] = secrets[i]
        /\ \A i, j \in Registering!SecretIds : table[i] # None /\ table[i] = table[j] => i = j
        /\ \A q \in Registering!RepoIds : repos[q] # None => repos[q].pat # s
    BY <2>61 DEF AddedTo
  <2>8. secrets[s] = None /\ s # 0
    BY <2>4, <2>6, Distinct DEF Added
  <2> QED
    BY <2>4, <2>5, <2>7, <2>8, RepointKeeps
<1>3. CASE Registering!RotatePat(r)
  <2>1. r \in Registering!Registered /\ repos[r].pat \in Registering!SecretIds /\ Registering!SetReportingPat(r, repos[r].tracker)
    BY <1>3 DEF Registering!RotatePat
  <2>2. repos[r].tracker \in Trackers
    <3>1. secrets[repos[r].pat] \in Registering!PatLabels /\ secrets[repos[r].pat][1] = repos[r].tracker
      BY <2>1 DEF RegistryInv, RowServed, Registering!Registered
    <3> QED
      BY <3>1 DEF Registering!PatLabels
  <2> QED
    BY <1>2, <2>1, <2>2
<1> QED
  BY <1>1, <1>2, <1>3

\* The inductive invariant holds in every state: one case per group of routes.
LEMMA RegistryAlways ==
  ASSUME Registering!ConstantsOK
  PROVE  Registering!Spec => []RegistryInv
<1>1. RegistryInv /\ [Registering!Next]_(Registering!vars) => RegistryInv'
  <2> SUFFICES ASSUME RegistryInv, [Registering!Next]_(Registering!vars)
               PROVE  RegistryInv'
    OBVIOUS
  <2>1. CASE \/ \E q \in AppRequests, a \in Apps : Registering!VerifyApp(q, a)
             \/ \E q \in AppRequests : Registering!StoreApp(q)
             \/ Registering!ClearApp \/ Registering!Tick
    BY <2>1, AppSteps
  <2>2. CASE \/ \E u \in Urls, t \in Trackers : Registering!RegisterWithPat(u, t) \/ Registering!RegisterWithApp(u, t)
             \/ \E u \in Urls : Registering!RegisterOther(u)
             \/ \E r \in Registering!RepoIds : Registering!Delete(r)
    BY <2>2, RegisterSteps
  <2>3. CASE \E r \in Registering!RepoIds : \/ \E t \in Trackers : Registering!SetReportingPat(r, t) \/ Registering!SetReportingApp(r, t)
                                \/ Registering!RotatePat(r)
    BY <2>3, ReportingSteps
  <2>4. CASE UNCHANGED Registering!vars
    <3>1. repos' = repos /\ secrets' = secrets /\ app' = app /\ verifying' = verifying /\ now' = now
      BY <2>4 DEF Registering!vars
    <3> QED
      BY <3>1 DEF RegistryInv, Columns, LabelsUnique, AppStored, RowServed, Unshared,
           Registering!Stored, Registering!Labels
  <2> QED
    BY <2>1, <2>2, <2>3, <2>4 DEF Registering!Next
<1> QED
  BY <1>1, RegistryInitial, PTL DEF Registering!Spec

\* For any number of repositories, trackers, Apps and requests under way: a registered row
\* that reports through the App finds one stored, one that reports with a token finds its own,
\* stored for its tracker, and no other row refers to it, whatever is registered, switched,
\* rotated, removed or cleared in between (register_repository, set_github_reporting, clear_github_app).
THEOREM CredentialsAreSound == Registering!ConstantsOK => (Registering!Spec => []Registering!CredentialsSound)
<1> SUFFICES ASSUME Registering!ConstantsOK
             PROVE  Registering!Spec => []Registering!CredentialsSound
  OBVIOUS
<1> QED
  BY RegistryAlways, RegistryImplied, PTL

(***************************************************************************)
(* The directory of a server                                                *)
(***************************************************************************)
\* The instance counts as this module does.
LEMMA SameDirCount ==
  ASSUME NEW S
  PROVE  Dir!Cardinality(S) = Cardinality(S)
BY DEF Dir!IsFiniteSet, IsFiniteSet, Dir!Cardinality, Cardinality

InitSteps == {"new", "write", "fill", "open", "migrate", "register", "done", "failed"}
SealKeys == Inits \cup {Dir!Operator}

InitRow == [pc : InitSteps, n : 1 .. 7, persist : BOOLEAN, caller : BOOLEAN,
            found : SUBSET (Dir!Names \cup {"db"})]
ServerRow == [pc : {"new", "loaded", "serving"}, ca : Inits \cup {Dir!Absent},
              cert : Inits \cup {Dir!Absent}, key : SealKeys \cup {Dir!Absent}]

DirTypes ==
  /\ files \in [Dir!Names \cup {"db"} -> Inits \cup {Dir!Absent, Dir!Part}]
  /\ dir_db \in [key : SealKeys \cup {Dir!Absent}, schema : BOOLEAN, admins : SUBSET Inits]
  /\ init \in [Inits -> InitRow]
  /\ server \in [Servers -> ServerRow]
  /\ \A i \in Inits : init[i].n <= Dir!Last(i)

\* An init has written the files up to the one it is at, and has all of them when it goes
\* on to the database.
OwnFiles ==
  \A i \in Inits :
    /\ init[i].pc \in {"write", "fill"} =>
         \A k \in 1 .. 7 : k < init[i].n => files[Dir!Bundle[k]] = i
    /\ init[i].pc = "fill" => files[Dir!Bundle[init[i].n]] = Dir!Part
    /\ init[i].pc \in {"open", "migrate", "register", "done"} /\ init[i].persist =>
         \A k \in 1 .. Dir!Last(i) : files[Dir!Bundle[k]] = i

\* One init at a time is between creating a file and filling it.
OneFills ==
  \A i, j \in Inits : init[i].pc = "fill" /\ init[j].pc = "fill" => i = j

\* A whole file stands upon the files before it, of the same init.
Layered ==
  \A k, m \in 1 .. 7 :
    m < k /\ files[Dir!Bundle[k]] \in Inits => files[Dir!Bundle[m]] = files[Dir!Bundle[k]]

\* An init that has opened the database has sealed it or found it sealed with its key.
SealedFor ==
  /\ dir_db.schema => dir_db.key # Dir!Absent
  /\ dir_db.admins = {} \/ \E i \in Inits : dir_db.admins = {i}
  /\ \A i \in Inits :
       /\ init[i].pc \in {"migrate", "register", "done"} => dir_db.key = Dir!MasterKey(i)
       /\ init[i].pc \in {"register", "done"} => dir_db.schema
       /\ init[i].pc = "done" => dir_db.admins = {i}

\* What a server has loaded is one init's.
LoadedWhole ==
  \A s \in Servers : server[s].pc # "new" =>
    server[s].ca \in Inits /\ server[s].cert = server[s].ca /\ server[s].key \in SealKeys

DirInv == DirTypes /\ OwnFiles /\ OneFills /\ Layered /\ SealedFor /\ LoadedWhole

-----------------------------------------------------------------------------
\* The seven files have names of their own, and the database another.
LEMMA BundleNames ==
  /\ Len(Dir!Bundle) = 7
  /\ \A k \in 1 .. 7 : Dir!Bundle[k] \in Dir!Names /\ Dir!Bundle[k] # "db"
  /\ \A k, m \in 1 .. 7 : Dir!Bundle[k] = Dir!Bundle[m] => k = m
  /\ \A f \in Dir!Names : \E k \in 1 .. 7 : f = Dir!Bundle[k]
  /\ Dir!Bundle[1] = "ca_cert" /\ Dir!Bundle[2] = "ca_key" /\ Dir!Bundle[3] = "server_cert"
  /\ Dir!Bundle[4] = "server_key" /\ Dir!Bundle[7] = "master_key"
<1>1. Len(Dir!Bundle) = 7
  BY DEF Dir!Bundle
<1>2. \A k \in 1 .. 7 : k = 1 \/ k = 2 \/ k = 3 \/ k = 4 \/ k = 5 \/ k = 6 \/ k = 7
  OBVIOUS
<1>3. /\ Dir!Bundle[1] = "ca_cert" /\ Dir!Bundle[2] = "ca_key" /\ Dir!Bundle[3] = "server_cert"
      /\ Dir!Bundle[4] = "server_key" /\ Dir!Bundle[5] = "admin_cert" /\ Dir!Bundle[6] = "admin_key"
      /\ Dir!Bundle[7] = "master_key"
  BY DEF Dir!Bundle
<1>4. \A k \in 1 .. 7 : Dir!Bundle[k] \in Dir!Names
  BY <1>1 DEF Dir!Names
<1>5. \A f \in Dir!Names : \E k \in 1 .. 7 : f = Dir!Bundle[k]
  BY <1>1 DEF Dir!Names
<1>6. \A k \in 1 .. 7 : Dir!Bundle[k] # "db"
  BY <1>2, <1>3
<1>7. \A k, m \in 1 .. 7 : Dir!Bundle[k] = Dir!Bundle[m] => k = m
  BY <1>2, <1>3
<1> QED
  BY <1>1, <1>3, <1>4, <1>5, <1>6, <1>7

\* What the names of the inits leave out.
LEMMA NamedApart ==
  ASSUME Dir!ConstantsOK
  PROVE  /\ Dir!Absent \notin Inits /\ Dir!Part \notin Inits /\ Dir!Operator \notin Inits
         /\ Dir!Absent # Dir!Part /\ Dir!Absent # Dir!Operator /\ Dir!Absent \notin SealKeys
BY DEF Dir!ConstantsOK, Dir!Absent, Dir!Part, Dir!Operator, SealKeys

\* An init's master key is a key a database may be sealed under.
LEMMA MasterKeyIsKey ==
  ASSUME NEW i \in Inits
  PROVE  Dir!MasterKey(i) \in SealKeys
BY DEF Dir!MasterKey, SealKeys

\* Init writes six files or seven.
LEMMA LastOfBundle ==
  ASSUME NEW i \in Inits
  PROVE  /\ Dir!Last(i) \in {6, 7}
         /\ Dir!Last(i) = IF init[i].caller THEN 6 ELSE 7
BY BundleNames DEF Dir!Last

-----------------------------------------------------------------------------
\* The invariant holds of an empty directory.
LEMMA DirInitially ==
  ASSUME Dir!ConstantsOK, Dir!Init
  PROVE  DirInv
<1> USE NamedApart
<1>1. PICK left \in SUBSET {"admin_key"} :
        files = [f \in Dir!Names \cup {"db"} |-> IF f \in left THEN Dir!Part ELSE Dir!Absent]
  BY DEF Dir!Init
<1>2. /\ files \in [Dir!Names \cup {"db"} -> Inits \cup {Dir!Absent, Dir!Part}]
      /\ \A f \in Dir!Names : files[f] \notin Inits
  BY <1>1
<1>3. \A i \in Inits : init[i] = [pc |-> "new", n |-> 1, persist |-> FALSE, caller |-> FALSE,
                                  found |-> {}]
  BY DEF Dir!Init
<1>4. DirTypes
  BY <1>2, <1>3, LastOfBundle DEF Dir!Init, DirTypes, InitRow, ServerRow, InitSteps, SealKeys
<1>5. OwnFiles /\ OneFills
  BY <1>3 DEF OwnFiles, OneFills
<1>6. Layered
  BY <1>2, BundleNames DEF Layered
<1>7. SealedFor
  BY <1>3 DEF SealedFor, Dir!Init
<1>8. LoadedWhole
  BY DEF LoadedWhole, Dir!Init
<1> QED
  BY <1>4, <1>5, <1>6, <1>7, <1>8 DEF DirInv

-----------------------------------------------------------------------------
\* An init looks at the directory and starts, or refuses.
LEMMA StartKeeps ==
  ASSUME Dir!ConstantsOK, DirInv, NEW i \in Inits, NEW persist \in BOOLEAN, NEW caller \in BOOLEAN,
         Dir!Start(i, persist, caller)
  PROVE  DirInv'
<1> USE NamedApart, BundleNames
<1>1. PICK pc \in {"failed", "write", "open"}, found \in SUBSET (Dir!Names \cup {"db"}) :
        /\ pc = "open" => ~ persist
        /\ init' = [init EXCEPT ![i] = [pc |-> pc, n |-> 1, persist |-> persist,
                                        caller |-> caller, found |-> found]]
  BY DEF DirInv, DirTypes, Dir!Start
<1>2. /\ files' = files /\ dir_db' = dir_db /\ server' = server
      /\ init[i].pc = "new"
  BY DEF Dir!Start
<1>3. /\ \A j \in Inits : j # i => init'[j] = init[j]
      /\ init'[i].pc = pc /\ init'[i].n = 1 /\ init'[i].persist = persist
      /\ init'[i].caller = caller
      /\ init' \in [Inits -> InitRow]
  <2>1. [pc |-> pc, n |-> 1, persist |-> persist, caller |-> caller, found |-> found] \in InitRow
    BY DEF InitRow, InitSteps
  <2> QED
    BY <1>1, <2>1 DEF DirInv, DirTypes
<1>4. DirTypes'
  BY <1>2, <1>3, LastOfBundle DEF DirInv, DirTypes, Dir!Last
<1>5. OwnFiles'
  <2> SUFFICES ASSUME NEW j \in Inits
               PROVE  /\ init'[j].pc \in {"write", "fill"} =>
                           \A k \in 1 .. 7 : k < init'[j].n => files[Dir!Bundle[k]] = j
                      /\ init'[j].pc = "fill" => files[Dir!Bundle[init'[j].n]] = Dir!Part
                      /\ init'[j].pc \in {"open", "migrate", "register", "done"}
                         /\ init'[j].persist => \A k \in 1 .. Dir!Last(j)' : files[Dir!Bundle[k]] = j
    BY <1>2 DEF OwnFiles
  <2>1. CASE j = i
    BY <1>1, <1>3, <2>1
  <2>2. CASE j # i
    BY <1>3, <2>2 DEF DirInv, OwnFiles, Dir!Last
  <2> QED
    BY <2>1, <2>2
<1>6. OneFills'
  BY <1>1, <1>3 DEF DirInv, OneFills
<1>7. Layered'
  BY <1>2 DEF DirInv, Layered
<1>8. SealedFor'
  BY <1>1, <1>2, <1>3 DEF DirInv, SealedFor, Dir!MasterKey
<1>9. LoadedWhole'
  BY <1>2 DEF DirInv, LoadedWhole
<1> QED
  BY <1>4, <1>5, <1>6, <1>7, <1>8, <1>9 DEF DirInv

\* A step of an init that has begun, and that changes no file of the bundle and no seal.
LEMMA MovesOn ==
  ASSUME Dir!ConstantsOK, DirInv, NEW i \in Inits, NEW pc \in InitSteps,
         init' = [init EXCEPT ![i].pc = pc]
  PROVE  /\ \A j \in Inits : /\ j # i => init'[j] = init[j]
                             /\ init'[j].n = init[j].n /\ init'[j].persist = init[j].persist
                             /\ init'[j].caller = init[j].caller
                             /\ Dir!Last(j)' = Dir!Last(j) /\ Dir!MasterKey(j)' = Dir!MasterKey(j)
         /\ init'[i].pc = pc
         /\ init' \in [Inits -> InitRow]
<1>1. init \in [Inits -> InitRow] /\ init[i] \in InitRow
  BY DEF DirInv, DirTypes
<1>2. [init[i] EXCEPT !.pc = pc] \in InitRow
  BY <1>1 DEF InitRow
<1>3. /\ \A j \in Inits : /\ j # i => init'[j] = init[j]
                          /\ init'[j].n = init[j].n /\ init'[j].persist = init[j].persist
                          /\ init'[j].caller = init[j].caller
      /\ init'[i].pc = pc
  BY <1>1, <1>2 DEF InitRow
<1>4. init' \in [Inits -> InitRow]
  BY <1>1, <1>2
<1> QED
  BY <1>3, <1>4 DEF Dir!Last, Dir!MasterKey

\* A file is created, if it is not there.
LEMMA CreateKeeps ==
  ASSUME Dir!ConstantsOK, DirInv, NEW i \in Inits, Dir!Create(i)
  PROVE  DirInv' /\ Dir!WrittenOnceStep
<1> USE NamedApart, BundleNames
<1>1. /\ init[i].pc = "write" /\ dir_db' = dir_db /\ server' = server
      /\ init[i].n \in 1 .. 7 /\ files \in [Dir!Names \cup {"db"} -> Inits \cup {Dir!Absent, Dir!Part}]
  BY DEF Dir!Create, DirInv, DirTypes, InitRow
<1>2. CASE Dir!Exists(Dir!File(i))
  <2>1. files' = files /\ init' = [init EXCEPT ![i].pc = "failed"] /\ "failed" \in InitSteps
    BY <1>2 DEF Dir!Create, InitSteps
  <2>2. /\ \A j \in Inits : /\ j # i => init'[j] = init[j]
                            /\ init'[j].n = init[j].n /\ init'[j].persist = init[j].persist
                            /\ init'[j].caller = init[j].caller
                            /\ Dir!Last(j)' = Dir!Last(j) /\ Dir!MasterKey(j)' = Dir!MasterKey(j)
        /\ init'[i].pc = "failed"
        /\ init' \in [Inits -> InitRow]
    BY <2>1, MovesOn
  <2>3. DirTypes'
    BY <1>1, <2>1, <2>2 DEF DirInv, DirTypes
  <2>4. OwnFiles' /\ OneFills' /\ Layered' /\ SealedFor' /\ LoadedWhole'
    BY <1>1, <2>1, <2>2 DEF DirInv, OwnFiles, OneFills, Layered, SealedFor, LoadedWhole
  <2> QED
    BY <2>1, <2>3, <2>4 DEF DirInv, Dir!WrittenOnceStep
<1>3. CASE ~ Dir!Exists(Dir!File(i))
  <2>1. /\ files' = [files EXCEPT ![Dir!Bundle[init[i].n]] = Dir!Part]
        /\ files[Dir!Bundle[init[i].n]] = Dir!Absent
        /\ init' = [init EXCEPT ![i].pc = "fill"] /\ "fill" \in InitSteps
    BY <1>3 DEF Dir!Create, InitSteps, Dir!File, Dir!Exists
  <2>2. /\ \A j \in Inits : /\ j # i => init'[j] = init[j]
                            /\ init'[j].n = init[j].n /\ init'[j].persist = init[j].persist
                            /\ init'[j].caller = init[j].caller
                            /\ Dir!Last(j)' = Dir!Last(j) /\ Dir!MasterKey(j)' = Dir!MasterKey(j)
        /\ init'[i].pc = "fill"
        /\ init' \in [Inits -> InitRow]
    BY <2>1, MovesOn
  <2>3. /\ \A k \in 1 .. 7 : k # init[i].n => files'[Dir!Bundle[k]] = files[Dir!Bundle[k]]
        /\ files'[Dir!Bundle[init[i].n]] = Dir!Part
        /\ files' \in [Dir!Names \cup {"db"} -> Inits \cup {Dir!Absent, Dir!Part}]
    BY <1>1, <2>1
  <2>4. DirTypes'
    BY <1>1, <2>2, <2>3 DEF DirInv, DirTypes
  <2>5. OwnFiles'
    <3> SUFFICES ASSUME NEW j \in Inits
                 PROVE  /\ init'[j].pc \in {"write", "fill"} =>
                             \A k \in 1 .. 7 : k < init[j].n => files'[Dir!Bundle[k]] = j
                        /\ init'[j].pc = "fill" => files'[Dir!Bundle[init[j].n]] = Dir!Part
                        /\ init'[j].pc \in {"open", "migrate", "register", "done"}
                           /\ init[j].persist => \A k \in 1 .. Dir!Last(j) : files'[Dir!Bundle[k]] = j
      BY <2>2 DEF OwnFiles
    <3>1. init[j].n \in 1 .. 7 /\ Dir!Last(j) \in {6, 7}
      BY LastOfBundle DEF DirInv, DirTypes, InitRow
    <3>2. CASE j = i
      BY <1>1, <2>2, <2>3, <3>1, <3>2 DEF DirInv, OwnFiles
    <3>3. CASE j # i
      <4>1. \A k \in 1 .. 7 : files[Dir!Bundle[k]] # Dir!Absent => files'[Dir!Bundle[k]] = files[Dir!Bundle[k]]
        BY <1>1, <2>1, <2>3
      <4> QED
        BY <2>2, <3>1, <3>3, <4>1 DEF DirInv, OwnFiles
    <3> QED
      BY <3>2, <3>3
  <2>6. OneFills'
    <3> SUFFICES ASSUME NEW j \in Inits, j # i, init[j].pc = "fill"
                 PROVE  FALSE
      BY <2>2 DEF DirInv, OneFills
    <3>1. init[j].n \in 1 .. 7
      BY DEF DirInv, DirTypes, InitRow
    <3>2. /\ \A k \in 1 .. 7 : k < init[j].n => files[Dir!Bundle[k]] = j
          /\ files[Dir!Bundle[init[j].n]] = Dir!Part
          /\ \A k \in 1 .. 7 : k < init[i].n => files[Dir!Bundle[k]] = i
      BY <1>1 DEF DirInv, OwnFiles
    <3>3. CASE init[i].n = 1
      BY <2>1, <3>1, <3>2, <3>3
    <3>4. CASE init[i].n # 1
      <4>1. files[Dir!Bundle[1]] = i
        BY <1>1, <3>2, <3>4
      <4>2. files[Dir!Bundle[1]] \in {Dir!Part, j}
        BY <3>1, <3>2
      <4> QED
        BY <4>1, <4>2
    <3> QED
      BY <3>3, <3>4
  <2>7. Layered'
    <3> SUFFICES ASSUME NEW k \in 1 .. 7, NEW m \in 1 .. 7, m < k, files'[Dir!Bundle[k]] \in Inits
                 PROVE  files'[Dir!Bundle[m]] = files'[Dir!Bundle[k]]
      BY DEF Layered
    <3>1. files'[Dir!Bundle[k]] = files[Dir!Bundle[k]]
      BY <2>3
    <3>2. files[Dir!Bundle[m]] = files[Dir!Bundle[k]]
      BY <3>1 DEF DirInv, Layered
    <3> QED
      BY <2>1, <2>3, <3>1, <3>2
  <2>8. SealedFor' /\ LoadedWhole'
    BY <1>1, <2>2 DEF DirInv, SealedFor, LoadedWhole
  <2>9. Dir!WrittenOnceStep
    BY <1>1, <2>1 DEF Dir!WrittenOnceStep, Dir!Whole
  <2> QED
    BY <2>4, <2>5, <2>6, <2>7, <2>8, <2>9 DEF DirInv
<1> QED
  BY <1>2, <1>3

\* A created file is filled.
LEMMA FillKeeps ==
  ASSUME Dir!ConstantsOK, DirInv, NEW i \in Inits, Dir!Fill(i)
  PROVE  DirInv' /\ Dir!WrittenOnceStep
<1> USE NamedApart, BundleNames
<1>1. /\ init[i].pc = "fill" /\ dir_db' = dir_db /\ server' = server
      /\ init[i].n \in 1 .. 7 /\ files \in [Dir!Names \cup {"db"} -> Inits \cup {Dir!Absent, Dir!Part}]
      /\ files' = [files EXCEPT ![Dir!Bundle[init[i].n]] = i]
      /\ files[Dir!Bundle[init[i].n]] = Dir!Part
      /\ \A k \in 1 .. 7 : k < init[i].n => files[Dir!Bundle[k]] = i
      /\ init \in [Inits -> InitRow] /\ init[i] \in InitRow
      /\ Dir!Last(i) \in {6, 7} /\ init[i].n <= Dir!Last(i)
  BY LastOfBundle DEF Dir!Fill, Dir!File, DirInv, DirTypes, OwnFiles, InitRow
<1>2. PICK pc \in {"open", "write"}, n \in 1 .. 7 :
        /\ init' = [init EXCEPT ![i].pc = pc, ![i].n = n]
        /\ pc = "open" => init[i].n = Dir!Last(i) /\ n = init[i].n
        /\ pc = "write" => init[i].n < Dir!Last(i) /\ n = init[i].n + 1
  <2>1. CASE init[i].n = Dir!Last(i)
    BY <1>1, <2>1 DEF Dir!Fill
  <2>2. CASE init[i].n # Dir!Last(i)
    <3>1. init' = [init EXCEPT ![i].pc = "write", ![i].n = init[i].n + 1]
      BY <2>2 DEF Dir!Fill
    <3>2. init[i].n < Dir!Last(i) /\ init[i].n + 1 \in 1 .. 7
      BY <1>1, <2>2
    <3> QED
      BY <3>1, <3>2
  <2> QED
    BY <2>1, <2>2
<1>3. /\ [init[i] EXCEPT !.pc = pc, !.n = n] \in InitRow
      /\ init' = [init EXCEPT ![i] = [init[i] EXCEPT !.pc = pc, !.n = n]]
  BY <1>1, <1>2 DEF InitRow, InitSteps
<1>4. /\ \A j \in Inits : j # i => init'[j] = init[j]
      /\ init'[i].pc = pc /\ init'[i].n = n
      /\ init'[i].caller = init[i].caller
      /\ init' \in [Inits -> InitRow]
  BY <1>1, <1>3 DEF InitRow
<1>5. \A j \in Inits : Dir!Last(j)' = Dir!Last(j) /\ Dir!MasterKey(j)' = Dir!MasterKey(j)
  BY <1>4 DEF Dir!Last, Dir!MasterKey
<1>6. /\ \A k \in 1 .. 7 : k # init[i].n => files'[Dir!Bundle[k]] = files[Dir!Bundle[k]]
      /\ files'[Dir!Bundle[init[i].n]] = i
      /\ files' \in [Dir!Names \cup {"db"} -> Inits \cup {Dir!Absent, Dir!Part}]
  BY <1>1
<1>7. DirTypes'
  <2>1. \A j \in Inits : init'[j].n <= Dir!Last(j)'
    BY <1>1, <1>2, <1>4, <1>5 DEF DirInv, DirTypes
  <2> QED
    BY <1>1, <1>4, <1>6, <2>1 DEF DirInv, DirTypes
<1>8. OwnFiles'
  <2> SUFFICES ASSUME NEW j \in Inits
               PROVE  /\ init'[j].pc \in {"write", "fill"} =>
                           \A k \in 1 .. 7 : k < init'[j].n => files'[Dir!Bundle[k]] = j
                      /\ init'[j].pc = "fill" => files'[Dir!Bundle[init'[j].n]] = Dir!Part
                      /\ init'[j].pc \in {"open", "migrate", "register", "done"}
                         /\ init'[j].persist => \A k \in 1 .. Dir!Last(j) : files'[Dir!Bundle[k]] = j
    BY <1>5 DEF OwnFiles
  <2>1. CASE j = i
    <3>1. \A k \in 1 .. 7 : k <= init[i].n => files'[Dir!Bundle[k]] = i
      BY <1>1, <1>6
    <3> QED
      BY <1>1, <1>2, <1>4, <2>1, <3>1
  <2>2. CASE j # i
    <3>1. \A k \in 1 .. 7 : files[Dir!Bundle[k]] = j => files'[Dir!Bundle[k]] = j
      BY <1>1, <1>6
    <3>2. init'[j] = init[j] /\ init[j].pc # "fill" /\ Dir!Last(j) \in {6, 7}
      BY <1>1, <1>4, <2>2, LastOfBundle DEF DirInv, OneFills
    <3> QED
      BY <3>1, <3>2 DEF DirInv, OwnFiles
  <2> QED
    BY <2>1, <2>2
<1>9. OneFills'
  BY <1>2, <1>4 DEF DirInv, OneFills
<1>10. Layered'
  <2> SUFFICES ASSUME NEW k \in 1 .. 7, NEW m \in 1 .. 7, m < k, files'[Dir!Bundle[k]] \in Inits
               PROVE  files'[Dir!Bundle[m]] = files'[Dir!Bundle[k]]
    BY DEF Layered
  <2>1. CASE k = init[i].n
    BY <1>1, <1>6, <2>1
  <2>2. CASE k # init[i].n
    <3>1. files'[Dir!Bundle[k]] = files[Dir!Bundle[k]] /\ files[Dir!Bundle[m]] = files[Dir!Bundle[k]]
      BY <1>6, <2>2 DEF DirInv, Layered
    <3>2. m # init[i].n
      BY <1>1, <3>1
    <3> QED
      BY <1>6, <3>1, <3>2
  <2> QED
    BY <2>1, <2>2
<1>11. SealedFor'
  BY <1>1, <1>2, <1>4, <1>5 DEF DirInv, SealedFor
<1>12. LoadedWhole'
  BY <1>1 DEF DirInv, LoadedWhole
<1>13. Dir!WrittenOnceStep
  BY <1>1 DEF Dir!WrittenOnceStep, Dir!Whole
<1> QED
  BY <1>7, <1>8, <1>9, <1>10, <1>11, <1>12, <1>13 DEF DirInv

\* The database's file is none of the bundle's.
LEMMA OutsideBundle ==
  ASSUME DirInv, NEW v \in Inits, files' = [files EXCEPT !["db"] = IF Dir!Exists("db") THEN @ ELSE v]
  PROVE  /\ files' \in [Dir!Names \cup {"db"} -> Inits \cup {Dir!Absent, Dir!Part}]
         /\ \A k \in 1 .. 7 : files'[Dir!Bundle[k]] = files[Dir!Bundle[k]]
         /\ Dir!WrittenOnceStep
<1>1. files \in [Dir!Names \cup {"db"} -> Inits \cup {Dir!Absent, Dir!Part}]
  BY DEF DirInv, DirTypes
<1>2. files' \in [Dir!Names \cup {"db"} -> Inits \cup {Dir!Absent, Dir!Part}]
  BY <1>1
<1>3. \A k \in 1 .. 7 : files'[Dir!Bundle[k]] = files[Dir!Bundle[k]]
  BY <1>1, BundleNames
<1> QED
  BY <1>2, <1>3, BundleNames DEF Dir!WrittenOnceStep

\* An init opens the database.
LEMMA OpenDbKeeps ==
  ASSUME Dir!ConstantsOK, DirInv, NEW i \in Inits, Dir!OpenDb(i)
  PROVE  DirInv' /\ Dir!WrittenOnceStep
<1> USE NamedApart
<1>1. /\ init[i].pc = "open" /\ server' = server
      /\ files' = [files EXCEPT !["db"] = IF Dir!Exists("db") THEN @ ELSE i]
      /\ dir_db \in [key : SealKeys \cup {Dir!Absent}, schema : BOOLEAN, admins : SUBSET Inits]
  BY DEF Dir!OpenDb, DirInv, DirTypes
<1>2. /\ files' \in [Dir!Names \cup {"db"} -> Inits \cup {Dir!Absent, Dir!Part}]
      /\ \A k \in 1 .. 7 : files'[Dir!Bundle[k]] = files[Dir!Bundle[k]]
      /\ Dir!WrittenOnceStep
  BY <1>1, OutsideBundle
<1>3. PICK pc \in {"migrate", "failed"} :
        /\ init' = [init EXCEPT ![i].pc = pc]
        /\ pc = "migrate" => Dir!Opens(Dir!MasterKey(i)) /\ dir_db' = Dir!Opened(Dir!MasterKey(i))
        /\ pc = "failed" => dir_db' = dir_db
  <2>1. CASE Dir!Opens(Dir!MasterKey(i))
    BY <2>1 DEF Dir!OpenDb
  <2>2. CASE ~ Dir!Opens(Dir!MasterKey(i))
    BY <2>2 DEF Dir!OpenDb
  <2> QED
    BY <2>1, <2>2
<1>4. /\ \A j \in Inits : /\ j # i => init'[j] = init[j]
                         /\ init'[j].n = init[j].n /\ init'[j].persist = init[j].persist
                         /\ init'[j].caller = init[j].caller
                         /\ Dir!Last(j)' = Dir!Last(j) /\ Dir!MasterKey(j)' = Dir!MasterKey(j)
      /\ init'[i].pc = pc
      /\ init' \in [Inits -> InitRow]
  <2>1. pc \in InitSteps
    BY DEF InitSteps
  <2> QED
    BY <1>3, <2>1, MovesOn
<1>5. /\ dir_db' \in [key : SealKeys \cup {Dir!Absent}, schema : BOOLEAN, admins : SUBSET Inits]
      /\ dir_db'.schema = dir_db.schema /\ dir_db'.admins = dir_db.admins
      /\ dir_db.key # Dir!Absent => dir_db'.key = dir_db.key
      /\ pc = "migrate" => dir_db'.key = Dir!MasterKey(i)
  <2>1. CASE pc = "migrate"
    BY <1>1, <1>3, <2>1, MasterKeyIsKey DEF Dir!Opens, Dir!Opened
  <2>2. CASE pc = "failed"
    BY <1>1, <1>3, <2>2
  <2> QED
    BY <2>1, <2>2
<1>6. DirTypes'
  BY <1>1, <1>2, <1>4, <1>5 DEF DirInv, DirTypes
<1>7. OwnFiles'
  <2>1. \A j \in Inits : init[j].n \in 1 .. 7 /\ Dir!Last(j) \in {6, 7}
    BY LastOfBundle DEF DirInv, DirTypes, InitRow
  <2> QED
    BY <1>1, <1>2, <1>4, <2>1 DEF DirInv, OwnFiles
<1>8. OneFills' /\ Layered' /\ LoadedWhole'
  BY <1>1, <1>2, <1>4 DEF DirInv, OneFills, Layered, LoadedWhole
<1>9. SealedFor'
  BY <1>1, <1>4, <1>5, MasterKeyIsKey DEF DirInv, SealedFor
<1> QED
  BY <1>2, <1>6, <1>7, <1>8, <1>9 DEF DirInv

\* Steps of an init with the database that leave the files alone.
LEMMA RegisterKeeps ==
  ASSUME Dir!ConstantsOK, DirInv, NEW i \in Inits,
         Dir!MigrateDb(i) \/ Dir!RegisterAdmin(i) \/ Dir!InitDies(i)
  PROVE  DirInv' /\ Dir!WrittenOnceStep
<1> USE NamedApart
<1>1. /\ server' = server /\ files' = files
      /\ dir_db \in [key : SealKeys \cup {Dir!Absent}, schema : BOOLEAN, admins : SUBSET Inits]
  BY DEF Dir!MigrateDb, Dir!RegisterAdmin, Dir!InitDies, DirInv, DirTypes
<1>2. PICK pc \in {"register", "done", "failed"} :
        /\ init' = [init EXCEPT ![i].pc = pc]
        /\ pc = "register" => init[i].pc = "migrate" /\ dir_db' = [dir_db EXCEPT !.schema = TRUE]
        /\ pc = "done" => /\ init[i].pc = "register" /\ dir_db.admins = {}
                          /\ dir_db' = [dir_db EXCEPT !.admins = {i}]
        /\ pc = "failed" => dir_db' = dir_db
  <2>1. CASE Dir!MigrateDb(i)
    BY <2>1 DEF Dir!MigrateDb
  <2>2. CASE Dir!RegisterAdmin(i) /\ dir_db.admins = {}
    BY <2>2 DEF Dir!RegisterAdmin
  <2>3. CASE Dir!RegisterAdmin(i) /\ dir_db.admins # {}
    BY <2>3 DEF Dir!RegisterAdmin
  <2>4. CASE Dir!InitDies(i)
    BY <2>4 DEF Dir!InitDies
  <2> QED
    BY <2>1, <2>2, <2>3, <2>4
<1>3. /\ \A j \in Inits : /\ j # i => init'[j] = init[j]
                         /\ init'[j].n = init[j].n /\ init'[j].persist = init[j].persist
                         /\ init'[j].caller = init[j].caller
                         /\ Dir!Last(j)' = Dir!Last(j) /\ Dir!MasterKey(j)' = Dir!MasterKey(j)
      /\ init'[i].pc = pc
      /\ init' \in [Inits -> InitRow]
  <2>1. pc \in InitSteps
    BY DEF InitSteps
  <2> QED
    BY <1>2, <2>1, MovesOn
<1>4. /\ dir_db' \in [key : SealKeys \cup {Dir!Absent}, schema : BOOLEAN, admins : SUBSET Inits]
      /\ dir_db'.key = dir_db.key
      /\ dir_db.schema => dir_db'.schema
      /\ pc = "register" => dir_db'.schema /\ dir_db'.admins = dir_db.admins
      /\ pc = "done" => dir_db'.admins = {i} /\ dir_db.admins = {} /\ dir_db'.schema = dir_db.schema
      /\ pc = "failed" => dir_db'.admins = dir_db.admins /\ dir_db'.schema = dir_db.schema
  <2>1. CASE pc = "register"
    BY <1>1, <1>2, <2>1
  <2>2. CASE pc = "done"
    BY <1>1, <1>2, <2>2
  <2>3. CASE pc = "failed"
    BY <1>1, <1>2, <2>3
  <2> QED
    BY <2>1, <2>2, <2>3
<1>5. DirTypes'
  BY <1>1, <1>3, <1>4 DEF DirInv, DirTypes
<1>6. OwnFiles'
  <2>1. \A j \in Inits : init'[j].pc \in {"write", "fill"} => init'[j] = init[j]
    BY <1>2, <1>3
  <2>2. pc # "failed" => init[i].pc \in {"migrate", "register"}
    BY <1>2
  <2> QED
    BY <1>1, <1>2, <1>3, <2>1, <2>2 DEF DirInv, OwnFiles
<1>7. OneFills' /\ Layered' /\ LoadedWhole' /\ Dir!WrittenOnceStep
  BY <1>1, <1>2, <1>3 DEF DirInv, OneFills, Layered, LoadedWhole, Dir!WrittenOnceStep
<1>8. SealedFor'
  <2> USE MasterKeyIsKey DEF DirInv, SealedFor
  <2>1. CASE pc = "register"
    BY <1>2, <1>3, <1>4, <2>1
  <2>2. CASE pc = "done"
    BY <1>2, <1>3, <1>4, <2>2
  <2>3. CASE pc = "failed"
    BY <1>2, <1>3, <1>4, <2>3
  <2> QED
    BY <2>1, <2>2, <2>3
<1> QED
  BY <1>5, <1>6, <1>7, <1>8 DEF DirInv

\* A server's steps, but for the database, change only what it has loaded.
LEMMA LoadKeeps ==
  ASSUME Dir!ConstantsOK, DirInv, NEW s \in Servers,
         \/ \E env \in BOOLEAN : Dir!Load(s, env)
         \/ \E i \in Inits : Dir!LoadPrinted(s, i)
         \/ Dir!ServeEnds(s)
  PROVE  DirInv' /\ Dir!WrittenOnceStep
<1> USE NamedApart
<1>1. files' = files /\ dir_db' = dir_db /\ init' = init
  BY DEF Dir!Load, Dir!LoadPrinted, Dir!ServeEnds
<1>2. server \in [Servers -> ServerRow]
      /\ files \in [Dir!Names \cup {"db"} -> Inits \cup {Dir!Absent, Dir!Part}]
  BY DEF DirInv, DirTypes
<1>3. PICK r \in ServerRow :
        /\ server' = [server EXCEPT ![s] = r]
        /\ r.pc # "new" => r.ca \in Inits /\ r.cert = r.ca /\ r.key \in SealKeys
  <2>1. ASSUME NEW env \in BOOLEAN, Dir!Load(s, env)
        PROVE  \E r \in ServerRow :
                 /\ server' = [server EXCEPT ![s] = r]
                 /\ r.pc # "new" => r.ca \in Inits /\ r.cert = r.ca /\ r.key \in SealKeys
    <3>1. /\ files["ca_cert"] \in Inits /\ files["server_cert"] \in Inits
          /\ ~ env => files["master_key"] \in Inits
      BY <2>1 DEF Dir!Load, Dir!Whole
    <3>2. files["ca_cert"] = files["server_cert"]
      BY <3>1, BundleNames DEF DirInv, Layered
    <3>3. PICK key \in SealKeys : key = IF env THEN Dir!Operator ELSE files["master_key"]
      BY <3>1 DEF SealKeys
    <3>4. server' = [server EXCEPT ![s] = [pc |-> "loaded", ca |-> files["ca_cert"],
                                           cert |-> files["server_cert"], key |-> key]]
      BY <2>1, <3>3 DEF Dir!Load
    <3>5. [pc |-> "loaded", ca |-> files["ca_cert"], cert |-> files["server_cert"],
           key |-> key] \in ServerRow
      BY <3>1, <3>3 DEF ServerRow
    <3> QED
      BY <3>1, <3>2, <3>4, <3>5
  <2>2. ASSUME NEW i \in Inits, Dir!LoadPrinted(s, i)
        PROVE  \E r \in ServerRow :
                 /\ server' = [server EXCEPT ![s] = r]
                 /\ r.pc # "new" => r.ca \in Inits /\ r.cert = r.ca /\ r.key \in SealKeys
    <3>1. server' = [server EXCEPT ![s] = [pc |-> "loaded", ca |-> i, cert |-> i,
                                           key |-> Dir!MasterKey(i)]]
      BY <2>2 DEF Dir!LoadPrinted
    <3>2. [pc |-> "loaded", ca |-> i, cert |-> i, key |-> Dir!MasterKey(i)] \in ServerRow
      BY MasterKeyIsKey DEF ServerRow
    <3> QED
      BY <3>1, <3>2, MasterKeyIsKey
  <2>3. ASSUME Dir!ServeEnds(s)
        PROVE  \E r \in ServerRow :
                 /\ server' = [server EXCEPT ![s] = r]
                 /\ r.pc # "new" => r.ca \in Inits /\ r.cert = r.ca /\ r.key \in SealKeys
    <3>1. [pc |-> "new", ca |-> Dir!Absent, cert |-> Dir!Absent, key |-> Dir!Absent] \in ServerRow
      BY DEF ServerRow
    <3> QED
      BY <2>3, <3>1 DEF Dir!ServeEnds
  <2> QED
    BY <2>1, <2>2, <2>3
<1>4. /\ server' \in [Servers -> ServerRow]
      /\ server'[s] = r /\ \A t \in Servers : t # s => server'[t] = server[t]
  BY <1>2, <1>3
<1>5. LoadedWhole'
  BY <1>3, <1>4 DEF DirInv, LoadedWhole
<1>6. DirTypes'
  BY <1>1, <1>4 DEF DirInv, DirTypes, Dir!Last
<1>7. OwnFiles' /\ OneFills' /\ Layered' /\ SealedFor' /\ Dir!WrittenOnceStep
  BY <1>1 DEF DirInv, OwnFiles, OneFills, Layered, SealedFor, Dir!WrittenOnceStep, Dir!Last,
       Dir!MasterKey
<1> QED
  BY <1>5, <1>6, <1>7 DEF DirInv

\* A server opens the database.
LEMMA OpenServedKeeps ==
  ASSUME Dir!ConstantsOK, DirInv, NEW s \in Servers, Dir!OpenServed(s)
  PROVE  DirInv' /\ Dir!WrittenOnceStep
<1> USE NamedApart
<1>1. /\ init' = init /\ server[s].ca \in Inits /\ server[s].key \in SealKeys
      /\ server[s].cert = server[s].ca /\ server[s].pc = "loaded"
      /\ dir_db \in [key : SealKeys \cup {Dir!Absent}, schema : BOOLEAN, admins : SUBSET Inits]
      /\ server \in [Servers -> ServerRow]
  BY DEF Dir!OpenServed, DirInv, DirTypes, LoadedWhole
<1>2. /\ files' \in [Dir!Names \cup {"db"} -> Inits \cup {Dir!Absent, Dir!Part}]
      /\ \A k \in 1 .. 7 : files'[Dir!Bundle[k]] = files[Dir!Bundle[k]]
      /\ Dir!WrittenOnceStep
  <2>1. files' = [files EXCEPT !["db"] = IF Dir!Exists("db") THEN @ ELSE server[s].ca]
    BY DEF Dir!OpenServed
  <2> QED
    BY <1>1, <2>1, OutsideBundle
<1>3. /\ dir_db' \in [key : SealKeys \cup {Dir!Absent}, schema : BOOLEAN, admins : SUBSET Inits]
      /\ dir_db'.key = server[s].key /\ dir_db'.schema /\ dir_db'.admins = dir_db.admins
      /\ dir_db.key # Dir!Absent => dir_db'.key = dir_db.key
  BY <1>1 DEF Dir!OpenServed, Dir!Opens, Dir!Opened
<1>4. /\ server' \in [Servers -> ServerRow]
      /\ \A t \in Servers : t # s => server'[t] = server[t]
      /\ server'[s].ca = server[s].ca /\ server'[s].cert = server[s].cert
      /\ server'[s].key = server[s].key
  <2>1. [server[s] EXCEPT !.pc = "serving"] \in ServerRow
    BY <1>1 DEF ServerRow
  <2>2. server' = [server EXCEPT ![s] = [server[s] EXCEPT !.pc = "serving"]]
    BY DEF Dir!OpenServed
  <2> QED
    BY <1>1, <2>1, <2>2 DEF ServerRow
<1>5. LoadedWhole'
  BY <1>1, <1>4 DEF DirInv, LoadedWhole
<1>6. DirTypes'
  BY <1>1, <1>2, <1>3, <1>4 DEF DirInv, DirTypes, Dir!Last
<1>7. OwnFiles'
  <2>1. \A j \in Inits : init[j].n \in 1 .. 7 /\ Dir!Last(j) \in {6, 7}
    BY LastOfBundle DEF DirInv, DirTypes, InitRow
  <2>2. \A j \in Inits : Dir!Last(j)' = Dir!Last(j)
    BY <1>1 DEF Dir!Last
  <2> QED
    BY <1>1, <1>2, <2>1, <2>2 DEF DirInv, OwnFiles
<1>8. OneFills' /\ Layered'
  BY <1>1, <1>2 DEF DirInv, OneFills, Layered
<1>9. SealedFor'
  BY <1>1, <1>3, MasterKeyIsKey DEF DirInv, SealedFor, Dir!MasterKey
<1> QED
  BY <1>2, <1>5, <1>6, <1>7, <1>8, <1>9 DEF DirInv

-----------------------------------------------------------------------------
\* Every step keeps the invariant.
LEMMA DirStep ==
  ASSUME Dir!ConstantsOK, DirInv, [Dir!Next]_(Dir!vars)
  PROVE  DirInv' /\ Dir!WrittenOnceStep
<1>1. CASE UNCHANGED Dir!vars
  BY <1>1 DEF Dir!vars, DirInv, DirTypes, OwnFiles, OneFills, Layered, SealedFor, LoadedWhole,
              Dir!WrittenOnceStep, Dir!Last, Dir!MasterKey
<1>2. ASSUME NEW i \in Inits, NEW persist \in BOOLEAN, NEW caller \in BOOLEAN,
             Dir!Start(i, persist, caller)
      PROVE  DirInv' /\ Dir!WrittenOnceStep
  BY <1>2, StartKeeps DEF Dir!Start, Dir!WrittenOnceStep
<1> QED
  BY <1>1, <1>2, CreateKeeps, FillKeeps, OpenDbKeeps, RegisterKeeps, LoadKeeps, OpenServedKeeps
     DEF Dir!Next

\* The invariant implies what the run checks.
LEMMA DirImplied ==
  ASSUME Dir!ConstantsOK, DirInv
  PROVE  Dir!BundleSound
<1>1. Cardinality(dir_db.admins) <= 1
  <2>1. CASE dir_db.admins = {}
    BY <2>1, FS_EmptySet
  <2>2. CASE dir_db.admins # {}
    <3>1. PICK i \in Inits : dir_db.admins = {i}
      BY <2>2 DEF DirInv, SealedFor
    <3>2. Cardinality({i}) = 1
      BY FS_Singleton
    <3> QED
      BY <3>1, <3>2
  <2> QED
    BY <2>1, <2>2
<1>2. \A i \in Inits : /\ init[i].pc \in InitSteps /\ init[i].n \in 1 .. Dir!Last(i)
  <2> TAKE i \in Inits
  <2>1. Dir!Last(i) \in {6, 7} /\ init[i] \in InitRow /\ init[i].n <= Dir!Last(i)
    BY LastOfBundle DEF DirInv, DirTypes
  <2> QED
    BY <2>1 DEF InitRow
<1>3. Dir!TypeOK
  BY SameDirCount, <1>1, <1>2 DEF DirInv, DirTypes, SealedFor, Dir!TypeOK, InitSteps, SealKeys,
       ServerRow
<1>4. Dir!DoneIsUsable
  BY DEF DirInv, OwnFiles, SealedFor, Dir!DoneIsUsable
<1>5. Dir!ServesOneBundle
  BY DEF DirInv, LoadedWhole, Dir!ServesOneBundle
<1> QED
  BY <1>3, <1>4, <1>5 DEF Dir!BundleSound

\* Whatever runs of init and serve share the directory, in whatever order and wherever they
\* die, an init that succeeded leaves a directory that can be used, with its own files and
\* its own admin, and a server runs on the files of one init (init.rs, run_init; main.rs,
\* serve).
THEOREM DirectoryIsUsable == Dir!ConstantsOK => (Dir!Spec => []Dir!BundleSound)
<1> SUFFICES ASSUME Dir!ConstantsOK
             PROVE  Dir!Spec => []Dir!BundleSound
  OBVIOUS
<1>1. Dir!Init => DirInv
  BY DirInitially
<1>2. DirInv /\ [Dir!Next]_(Dir!vars) => DirInv'
  BY DirStep
<1>3. DirInv => Dir!BundleSound
  BY DirImplied
<1> QED
  BY <1>1, <1>2, <1>3, PTL DEF Dir!Spec

\* A file of the bundle that was written is never written again, by another init or by a
\* second run of the same (init.rs, write_secret).
THEOREM FilesWrittenOnce == Dir!ConstantsOK => (Dir!Spec => Dir!WrittenOnce)
<1> SUFFICES ASSUME Dir!ConstantsOK
             PROVE  Dir!Spec => Dir!WrittenOnce
  OBVIOUS
<1>1. Dir!Init => DirInv
  BY DirInitially
<1>2. DirInv /\ [Dir!Next]_(Dir!vars) => DirInv'
  BY DirStep
<1>3. DirInv /\ [Dir!Next]_(Dir!vars) => [Dir!WrittenOnceStep]_(Dir!vars)
  BY DirStep
<1> QED
  BY <1>1, <1>2, <1>3, PTL DEF Dir!Spec, Dir!WrittenOnce

(***************************************************************************)
(* The schema of the database                                               *)
(***************************************************************************)
Holding == {"migrate", "checked", "commit"}
ProcSteps == {"idle", "opened", "begin", "serving"} \cup Holding

\* The migrations up to version n, in order.
Count(n) == [k \in 1 .. n |-> k]

Database == [version : 0 .. 7, mirror : 0 .. 7, steps : {Count(n) : n \in 0 .. 7},
             unknown : BOOLEAN, jobs : [StoredJobs -> Upgrading!Row]]
ProcRow == [pc : ProcSteps, build : Builds \cup {0}, tx : Database, keys : BOOLEAN]

UpgradeTypes ==
  /\ db \in Database
  /\ lock \in Procs \cup {Upgrading!Null}
  /\ proc \in [Procs -> ProcRow]

\* The lock is held by the one process with a transaction, running processes are of one
\* build, and past the transaction foreign keys are on.
RunsApart ==
  /\ \A p \in Procs : lock = p <=> proc[p].pc \in Holding
  /\ \A p \in Procs : proc[p].pc # "idle" => proc[p].build \in Builds
  /\ \A p, q \in Procs :
       proc[p].pc # "idle" /\ proc[q].pc # "idle" => proc[p].build = proc[q].build
  /\ \A p \in Procs : proc[p].pc \in {"commit", "serving"} => proc[p].keys = TRUE

\* The database is at the version it is marked with, that of the builds that serve it.
Current ==
  /\ db.steps = Count(db.version)
  /\ db.version = 0 => \A j \in StoredJobs : db.jobs[j].state = "none"
  /\ Upgrading!LeasesHaveCapabilities
  /\ \A p \in Procs : proc[p].pc = "serving" =>
       db.version = proc[p].build /\ db.mirror = proc[p].build

\* What n migrations have made of the jobs of d.
JobsKept(d, kept, n) ==
  \A j \in StoredJobs :
    /\ kept[j].verdict = d.jobs[j].verdict
    /\ kept[j].state = IF d.jobs[j].state = "leased" /\ d.version < 2 /\ n >= 2
                       THEN IF d.jobs[j].verdict THEN "succeeded" ELSE "queued"
                       ELSE d.jobs[j].state
    /\ kept[j].state = "leased" =>
         /\ \A v \in {3, 7} : n < v \/ v <= d.version
         /\ n >= 2 /\ d.version >= 2 => kept[j].cap = TRUE

\* A transaction holds the committed database, with the migrations from its version on.
TransactionOf(p, n) ==
  /\ n \in db.version .. proc[p].build
  /\ proc[p].tx.steps = Count(n)
  /\ JobsKept(db, proc[p].tx.jobs, n)
  /\ proc[p].pc = "migrate" => proc[p].tx.version = db.version
  /\ proc[p].pc \in {"checked", "commit"} =>
       /\ n = proc[p].build /\ proc[p].tx.version = n /\ proc[p].tx.mirror = n

Transactions == \A p \in Procs : proc[p].pc \in Holding => \E n \in 0 .. 7 : TransactionOf(p, n)

UpgradeInv == UpgradeTypes /\ RunsApart /\ Current /\ Transactions

-----------------------------------------------------------------------------
\* The applied migrations are counted through.
LEMMA CountGrows ==
  ASSUME NEW n \in Nat
  PROVE  /\ Count(n) \in Seq(Nat) /\ Len(Count(n)) = n
         /\ Append(Count(n), n + 1) = Count(n + 1)
<1>1. Count(n) \in Seq(Nat) /\ Len(Count(n)) = n
  BY DEF Count
<1>2. Append(Count(n), n + 1) = Count(n + 1)
  BY <1>1 DEF Count
<1> QED
  BY <1>1, <1>2

\* A count says how far it goes.
LEMMA CountIsExact ==
  ASSUME NEW n \in Nat, NEW m \in Nat, Count(n) = Count(m)
  PROVE  n = m
BY CountGrows

\* Null is no process, and builds are versions.
LEMMA NamesApart ==
  ASSUME Upgrading!ConstantsOK
  PROVE  Upgrading!Null \notin Procs /\ Builds \subseteq 1 .. 7
BY DEF Upgrading!ConstantsOK, Upgrading!Null

\* A database without rows is one.
LEMMA EmptyIsDatabase ==
  /\ Upgrading!EmptyDb \in Database /\ Upgrading!NoRow \in Upgrading!Row
  /\ Upgrading!EmptyDb.version = 0 /\ Upgrading!EmptyDb.mirror = 0 /\ Upgrading!EmptyDb.steps = Count(0)
  /\ Upgrading!EmptyDb.jobs = [j \in StoredJobs |-> Upgrading!NoRow]
<1>1. Upgrading!NoRow \in Upgrading!Row
  BY DEF Upgrading!NoRow, Upgrading!Row
<1>2. Count(0) = <<>>
  BY DEF Count
<1>3. [j \in StoredJobs |-> Upgrading!NoRow] \in [StoredJobs -> Upgrading!Row]
  BY <1>1
<1> QED
  BY <1>1, <1>2, <1>3 DEF Upgrading!EmptyDb, Database

\* A process that has not opened the database has a row.
LEMMA IdleIsRow == Upgrading!Idle \in ProcRow /\ Upgrading!Idle.pc = "idle"
BY EmptyIsDatabase DEF Upgrading!Idle, ProcRow, ProcSteps

\* The invariant holds before any process opens the database.
LEMMA UpgradeInitially ==
  ASSUME Upgrading!ConstantsOK, Upgrading!Init
  PROVE  UpgradeInv
<1> USE NamesApart
<1>1. PICK v \in Builds \cup {0}, stale \in BOOLEAN, unknown \in BOOLEAN :
        db = [Upgrading!EmptyDb EXCEPT !.version = v, !.steps = [k \in 1..v |-> k],
                             !.mirror = IF stale THEN 0 ELSE v, !.unknown = unknown]
  BY DEF Upgrading!Init
<1>2. v \in 0 .. 7
  OBVIOUS
<1>3. PICK m \in 0 .. 7 : m = IF stale THEN 0 ELSE v
  BY <1>2
<1>4. /\ db.version = v /\ db.mirror = m /\ db.unknown = unknown
      /\ db.steps = Count(v) /\ db.jobs = [j \in StoredJobs |-> Upgrading!NoRow]
      /\ db = [version |-> v, mirror |-> m, steps |-> Count(v), unknown |-> unknown,
               jobs |-> [j \in StoredJobs |-> Upgrading!NoRow]]
  BY <1>1, <1>3 DEF Upgrading!EmptyDb, Count
<1>5. db \in Database
  BY <1>2, <1>4, EmptyIsDatabase DEF Database
<1>6. \A p \in Procs : proc[p] = Upgrading!Idle
  BY DEF Upgrading!Init
<1>7. UpgradeTypes
  BY <1>5, IdleIsRow DEF UpgradeTypes, Upgrading!Init
<1>8. RunsApart
  BY <1>6, IdleIsRow DEF RunsApart, Upgrading!Init, Holding
<1>9. Current
  BY <1>4, <1>6, IdleIsRow DEF Current, Upgrading!LeasesHaveCapabilities, Upgrading!Leased,
       Upgrading!NoRow
<1>10. Transactions
  BY <1>6, IdleIsRow DEF Transactions, Holding
<1> QED
  BY <1>7, <1>8, <1>9, <1>10 DEF UpgradeInv

-----------------------------------------------------------------------------
\* A process that moves on leaves the others where they are.
LEMMA OneMoves ==
  ASSUME UpgradeInv, NEW p \in Procs, NEW r \in ProcRow, proc' = [proc EXCEPT ![p] = r]
  PROVE  /\ proc' \in [Procs -> ProcRow]
         /\ proc'[p] = r /\ \A q \in Procs : q # p => proc'[q] = proc[q]
BY DEF UpgradeInv, UpgradeTypes

\* Steps that neither hold the lock nor change the database.
LEMMA OutsideKeeps ==
  ASSUME Upgrading!ConstantsOK, UpgradeInv, NEW p \in Procs, NEW r \in ProcRow,
         proc' = [proc EXCEPT ![p] = r], proc[p].pc \notin Holding, r.pc \notin Holding,
         r.pc # "serving",
         r.pc # "idle" => /\ r.build \in Builds
                          /\ \A q \in Procs : proc[q].pc # "idle" => proc[q].build = r.build,
         r.pc = "commit" => r.keys = TRUE,
         db' = db, lock' = lock
  PROVE  UpgradeInv'
<1>1. /\ proc' \in [Procs -> ProcRow]
      /\ proc'[p] = r /\ \A q \in Procs : q # p => proc'[q] = proc[q]
  BY OneMoves
<1>2. UpgradeTypes'
  BY <1>1 DEF UpgradeInv, UpgradeTypes
<1>3. RunsApart'
  BY <1>1 DEF UpgradeInv, RunsApart
<1>4. Current'
  BY <1>1 DEF UpgradeInv, Current, Upgrading!LeasesHaveCapabilities, Upgrading!Leased
<1>5. Transactions'
  <2> SUFFICES ASSUME NEW q \in Procs, proc'[q].pc \in Holding
               PROVE  \E n \in 0 .. 7 : TransactionOf(q, n)'
    BY DEF Transactions
  <2>1. q # p /\ proc'[q] = proc[q]
    BY <1>1
  <2>2. PICK n \in 0 .. 7 : TransactionOf(q, n)
    BY <2>1 DEF UpgradeInv, Transactions
  <2> QED
    BY <2>1, <2>2 DEF TransactionOf, JobsKept
<1> QED
  BY <1>2, <1>3, <1>4, <1>5 DEF UpgradeInv

\* A process opens the database.
LEMMA OpenKeeps ==
  ASSUME Upgrading!ConstantsOK, UpgradeInv, NEW p \in Procs, NEW b \in Builds, Upgrading!Open(p, b)
  PROVE  UpgradeInv'
<1> DEFINE r == [Upgrading!Idle EXCEPT !.pc = "opened", !.build = b, !.keys = TRUE]
<1>1. r \in ProcRow /\ r.pc = "opened" /\ r.build = b
  BY EmptyIsDatabase DEF Upgrading!Idle, ProcRow, ProcSteps
<1>2. /\ proc' = [proc EXCEPT ![p] = r] /\ db' = db /\ lock' = lock
      /\ proc[p].pc \notin Holding
      /\ \A q \in Procs : proc[q].pc # "idle" => proc[q].build = b
  BY DEF Upgrading!Open, Upgrading!Running, Holding
<1> HIDE DEF r
<1>3. r.pc \notin Holding
  BY <1>1 DEF Holding
<1> QED
  BY <1>1, <1>2, <1>3, OutsideKeeps

\* Foreign keys are switched off for the upgrade.
LEMMA DisableKeysKeeps ==
  ASSUME Upgrading!ConstantsOK, UpgradeInv, NEW p \in Procs, Upgrading!DisableKeys(p)
  PROVE  UpgradeInv'
<1>1. proc[p] \in ProcRow /\ proc \in [Procs -> ProcRow]
  BY DEF UpgradeInv, UpgradeTypes
<1>2. PICK r : r = [proc[p] EXCEPT !.pc = "begin", !.keys = FALSE]
  OBVIOUS
<1>3. r \in ProcRow /\ r.pc = "begin" /\ r.build = proc[p].build
  BY <1>1, <1>2 DEF ProcRow, ProcSteps
<1>4. /\ proc' = [proc EXCEPT ![p] = r] /\ db' = db /\ lock' = lock /\ proc[p].pc = "opened"
  BY <1>1, <1>2 DEF Upgrading!DisableKeys, ProcRow
<1>5. proc[p].pc \notin Holding /\ r.pc \notin Holding
  BY <1>3, <1>4 DEF Holding
<1>6. r.build \in Builds /\ \A q \in Procs : proc[q].pc # "idle" => proc[q].build = r.build
  BY <1>3, <1>4 DEF UpgradeInv, RunsApart
<1> QED
  BY <1>3, <1>4, <1>5, <1>6, OutsideKeeps

\* Steps of the process that holds the lock, or takes it, on its transaction.
LEMMA InsideKeeps ==
  ASSUME Upgrading!ConstantsOK, UpgradeInv, NEW p \in Procs, NEW r \in ProcRow,
         proc' = [proc EXCEPT ![p] = r], r.pc \in Holding,
         lock \in {p, Upgrading!Null}, lock' = p, db' = db,
         proc[p].pc # "idle", r.build = proc[p].build,
         r.pc = "commit" => r.keys = TRUE,
         \E n \in 0 .. 7 : TransactionOf(p, n)'
  PROVE  UpgradeInv'
<1> USE NamesApart
<1>1. /\ proc' \in [Procs -> ProcRow]
      /\ proc'[p] = r /\ \A q \in Procs : q # p => proc'[q] = proc[q]
  BY OneMoves
<1>2. \A q \in Procs : q # p => proc[q].pc \notin Holding
  BY DEF UpgradeInv, RunsApart
<1>3. r.pc \notin {"idle", "serving"}
  BY DEF Holding
<1>4. UpgradeTypes'
  BY <1>1 DEF UpgradeInv, UpgradeTypes
<1>5. RunsApart'
  BY <1>1, <1>2, <1>3 DEF UpgradeInv, RunsApart
<1>6. Current'
  BY <1>1, <1>3 DEF UpgradeInv, Current, Upgrading!LeasesHaveCapabilities, Upgrading!Leased
<1>7. Transactions'
  BY <1>1, <1>2 DEF Transactions
<1> QED
  BY <1>4, <1>5, <1>6, <1>7 DEF UpgradeInv

\* At first the transaction is the database itself.
LEMMA KeptAtFirst ==
  ASSUME UpgradeInv
  PROVE  JobsKept(db, db.jobs, db.version)
<1>1. db.version \in 0 .. 7 /\ db.jobs \in [StoredJobs -> Upgrading!Row]
  BY DEF UpgradeInv, UpgradeTypes, Database
<1> SUFFICES ASSUME NEW j \in StoredJobs
             PROVE  /\ db.jobs[j].state = IF db.jobs[j].state = "leased" /\ db.version < 2
                                             /\ db.version >= 2
                                          THEN IF db.jobs[j].verdict THEN "succeeded" ELSE "queued"
                                          ELSE db.jobs[j].state
                    /\ db.jobs[j].state = "leased" =>
                         /\ \A v \in {3, 7} : db.version < v \/ v <= db.version
                         /\ db.version >= 2 => db.jobs[j].cap = TRUE
  BY DEF JobsKept
<1>2. db.jobs[j].state = "leased" /\ db.version >= 2 => db.jobs[j].cap = TRUE
  BY <1>1 DEF UpgradeInv, Current, Upgrading!LeasesHaveCapabilities, Upgrading!Leased, Upgrading!Row
<1> QED
  BY <1>1, <1>2

\* The upgrade's transaction begins.
LEMMA BeginKeeps ==
  ASSUME Upgrading!ConstantsOK, UpgradeInv, NEW p \in Procs, Upgrading!Begin(p)
  PROVE  UpgradeInv'
<1>1. /\ proc[p] \in ProcRow /\ proc \in [Procs -> ProcRow] /\ db \in Database
      /\ db.version \in 0 .. 7 /\ db.steps = Count(db.version)
  BY DEF UpgradeInv, UpgradeTypes, Current, Database
<1>2. PICK r : r = [proc[p] EXCEPT !.pc = "migrate", !.tx = db]
  OBVIOUS
<1>3. r \in ProcRow /\ r.pc = "migrate" /\ r.build = proc[p].build /\ r.tx = db
  BY <1>1, <1>2 DEF ProcRow, ProcSteps, Holding
<1>4. /\ proc' = [proc EXCEPT ![p] = r] /\ db' = db /\ lock' = p /\ lock = Upgrading!Null
      /\ proc[p].pc = "begin" /\ db.version <= proc[p].build
  BY <1>1, <1>2 DEF Upgrading!Begin, ProcRow
<1>5. proc'[p] = r
  BY <1>1, <1>4
<1>6. db.version \in db.version .. proc[p].build
  <2>1. proc[p].build \in 1 .. 7
    BY <1>4, NamesApart DEF UpgradeInv, RunsApart
  <2> QED
    BY <1>1, <1>4, <2>1
<1>7. TransactionOf(p, db.version)'
  BY <1>1, <1>3, <1>4, <1>5, <1>6, KeptAtFirst DEF TransactionOf, JobsKept
<1>8. \E n \in 0 .. 7 : TransactionOf(p, n)'
  BY <1>1, <1>4, <1>7
<1> QED
  BY <1>3, <1>4, <1>8, InsideKeeps DEF Holding

\* One more migration, of the jobs as n have left them.
LEMMA KeptByMigration ==
  ASSUME UpgradeInv, NEW n \in db.version .. 6, NEW d \in Database,
         JobsKept(db, d.jobs, n), Upgrading!Admits(n + 1, d)
  PROVE  /\ Upgrading!Migrated(n + 1, d).jobs \in [StoredJobs -> Upgrading!Row]
         /\ JobsKept(db, Upgrading!Migrated(n + 1, d).jobs, n + 1)
<1>1. d.jobs \in [StoredJobs -> Upgrading!Row] /\ db.jobs \in [StoredJobs -> Upgrading!Row] /\ db.version \in 0 .. 7 /\ n \in 0 .. 6
  BY DEF UpgradeInv, UpgradeTypes, Database
<1>2. Upgrading!Migrated(n + 1, d).jobs = IF n + 1 = 2 THEN [j \in StoredJobs |-> Upgrading!JobCapabilities(d.jobs[j])]
                                ELSE d.jobs
  BY DEF Upgrading!Migrated, Database
<1>3. CASE n + 1 = 2
  <2>1. Upgrading!Migrated(n + 1, d).jobs = [j \in StoredJobs |-> Upgrading!JobCapabilities(d.jobs[j])]
    BY <1>2, <1>3
  <2>2. ASSUME NEW j \in StoredJobs
        PROVE  /\ Upgrading!JobCapabilities(d.jobs[j]) \in Upgrading!Row
               /\ Upgrading!JobCapabilities(d.jobs[j]).verdict = d.jobs[j].verdict
               /\ Upgrading!JobCapabilities(d.jobs[j]).state =
                    IF d.jobs[j].state = "leased"
                    THEN IF d.jobs[j].verdict THEN "succeeded" ELSE "queued"
                    ELSE d.jobs[j].state
    <3>1. d.jobs[j] \in Upgrading!Row
      BY <1>1
    <3>2. CASE d.jobs[j].state # "leased"
      BY <3>1, <3>2 DEF Upgrading!JobCapabilities
    <3>3. CASE d.jobs[j].state = "leased"
      <4>1. PICK state \in {"succeeded", "queued"} :
              state = IF d.jobs[j].verdict THEN "succeeded" ELSE "queued"
        OBVIOUS
      <4>2. Upgrading!JobCapabilities(d.jobs[j]) = [d.jobs[j] EXCEPT !.state = state, !.cap = FALSE]
        BY <3>3, <4>1 DEF Upgrading!JobCapabilities
      <4> QED
        BY <3>1, <3>3, <4>1, <4>2 DEF Upgrading!Row
    <3> QED
      BY <3>2, <3>3
  <2>3. Upgrading!Migrated(n + 1, d).jobs \in [StoredJobs -> Upgrading!Row]
    BY <2>1, <2>2
  <2>4. \A j \in StoredJobs : /\ d.jobs[j].verdict = db.jobs[j].verdict
                        /\ d.jobs[j].state = db.jobs[j].state
    BY <1>1, <1>3 DEF JobsKept
  <2>5. db.version < 2 /\ n + 1 >= 2
    BY <1>1, <1>3
  <2>6. ASSUME NEW j \in StoredJobs
        PROVE  /\ Upgrading!JobCapabilities(d.jobs[j]).verdict = db.jobs[j].verdict
               /\ Upgrading!JobCapabilities(d.jobs[j]).state =
                    IF db.jobs[j].state = "leased" /\ db.version < 2 /\ n + 1 >= 2
                    THEN IF db.jobs[j].verdict THEN "succeeded" ELSE "queued"
                    ELSE db.jobs[j].state
               /\ Upgrading!JobCapabilities(d.jobs[j]).state # "leased"
    BY <2>2, <2>4, <2>5
  <2> QED
    BY <2>1, <2>3, <2>6 DEF JobsKept
<1>4. CASE n + 1 # 2
  <2>1. Upgrading!Migrated(n + 1, d).jobs = d.jobs
    BY <1>2, <1>4
  <2>2. n + 1 \in {3, 7} => \A j \in StoredJobs : d.jobs[j].state # "leased"
    BY DEF Upgrading!Admits, Upgrading!RebuildsJobs, Upgrading!RebuildsInventory, Upgrading!Leased
  <2>3. ASSUME NEW j \in StoredJobs, d.jobs[j].state = "leased"
        PROVE  /\ \A v \in {3, 7} : n + 1 < v \/ v <= db.version
               /\ n + 1 >= 2 /\ db.version >= 2 => d.jobs[j].cap = TRUE
    <3>1. n + 1 \notin {3, 7} /\ \A v \in {3, 7} : n < v \/ v <= db.version
      BY <2>2, <2>3 DEF JobsKept
    <3>2. n >= 2 /\ db.version >= 2 => d.jobs[j].cap = TRUE
      BY <2>3 DEF JobsKept
    <3> QED
      BY <1>1, <1>4, <3>1, <3>2
  <2>4. \A j \in StoredJobs :
          /\ d.jobs[j].verdict = db.jobs[j].verdict
          /\ d.jobs[j].state = IF db.jobs[j].state = "leased" /\ db.version < 2 /\ n + 1 >= 2
                               THEN IF db.jobs[j].verdict THEN "succeeded" ELSE "queued"
                               ELSE db.jobs[j].state
    <3> TAKE j \in StoredJobs
    <3>1. /\ d.jobs[j].verdict = db.jobs[j].verdict
          /\ d.jobs[j].state = IF db.jobs[j].state = "leased" /\ db.version < 2 /\ n >= 2
                               THEN IF db.jobs[j].verdict THEN "succeeded" ELSE "queued"
                               ELSE db.jobs[j].state
      BY DEF JobsKept
    <3>2. n + 1 >= 2 <=> n >= 2
      BY <1>1, <1>4
    <3> QED
      BY <3>1, <3>2
  <2>5. JobsKept(db, d.jobs, n + 1)
    BY <2>3, <2>4 DEF JobsKept
  <2> QED
    BY <1>1, <2>1, <2>5
<1> QED
  BY <1>3, <1>4

\* What a process with a transaction is known to hold.
LEMMA InTransaction ==
  ASSUME Upgrading!ConstantsOK, UpgradeInv, NEW p \in Procs, proc[p].pc \in Holding
  PROVE  /\ proc[p] \in ProcRow /\ proc \in [Procs -> ProcRow] /\ db \in Database
         /\ proc[p].tx \in Database /\ proc[p].build \in 1 .. 7 /\ db.version \in 0 .. 7
         /\ lock = p /\ proc[p].pc # "idle" /\ proc[p].build \in Builds
         /\ \E n \in 0 .. 7 : TransactionOf(p, n)
<1>1. proc[p] \in ProcRow /\ proc \in [Procs -> ProcRow] /\ db \in Database
  BY DEF UpgradeInv, UpgradeTypes
<1>2. proc[p].pc # "idle"
  BY DEF Holding
<1> QED
  BY <1>1, <1>2, NamesApart DEF UpgradeInv, RunsApart, Transactions, ProcRow, Database

\* One migration runs inside the transaction.
LEMMA MigrateKeeps ==
  ASSUME Upgrading!ConstantsOK, UpgradeInv, NEW p \in Procs, Upgrading!Migrate(p)
  PROVE  UpgradeInv'
<1>1. proc[p].pc = "migrate" /\ proc[p].pc \in Holding
  BY DEF Upgrading!Migrate, Holding
<1>2. /\ proc[p] \in ProcRow /\ proc \in [Procs -> ProcRow] /\ db \in Database
      /\ proc[p].tx \in Database /\ proc[p].build \in 1 .. 7 /\ db.version \in 0 .. 7
      /\ lock = p /\ proc[p].pc # "idle" /\ proc[p].build \in Builds
  BY <1>1, InTransaction
<1>3. PICK n \in 0 .. 7 : TransactionOf(p, n)
  BY <1>1, InTransaction
<1>4. /\ proc[p].tx.steps = Count(n) /\ n >= db.version /\ Len(Count(n)) = n
      /\ JobsKept(db, proc[p].tx.jobs, n) /\ proc[p].tx.version = db.version
  BY <1>1, <1>2, <1>3, CountGrows DEF TransactionOf
<1>5. PICK d : d = Upgrading!Migrated(n + 1, proc[p].tx)
  OBVIOUS
<1>6. PICK r : r = [proc[p] EXCEPT !.tx = d]
  OBVIOUS
<1>7. /\ proc' = [proc EXCEPT ![p].tx = d] /\ db' = db /\ lock' = lock
      /\ n + 1 <= proc[p].build /\ Upgrading!Admits(n + 1, proc[p].tx)
  BY <1>4, <1>5 DEF Upgrading!Migrate
<1>8. n \in db.version .. 6 /\ n + 1 \in 0 .. 7 /\ n + 1 \in db.version .. proc[p].build
  BY <1>2, <1>4, <1>7
<1>9. d.jobs \in [StoredJobs -> Upgrading!Row] /\ JobsKept(db, d.jobs, n + 1)
  BY <1>2, <1>4, <1>5, <1>7, <1>8, KeptByMigration
<1>10. /\ d.steps = Count(n + 1) /\ d.version = db.version
       /\ d.mirror = proc[p].tx.mirror /\ d.unknown = proc[p].tx.unknown
  BY <1>2, <1>4, <1>5, CountGrows DEF Upgrading!Migrated, Database
<1>11. d = [version |-> d.version, mirror |-> d.mirror, steps |-> d.steps,
            unknown |-> d.unknown, jobs |-> d.jobs]
  BY <1>2, <1>5 DEF Upgrading!Migrated, Database
<1>12. d \in Database
  BY <1>2, <1>8, <1>9, <1>10, <1>11 DEF Database
<1>13. r \in ProcRow /\ r.pc = "migrate" /\ r.build = proc[p].build /\ r.tx = d
  BY <1>1, <1>2, <1>6, <1>12 DEF ProcRow
<1>14. proc' = [proc EXCEPT ![p] = r] /\ proc'[p] = r
  BY <1>2, <1>6, <1>7 DEF ProcRow
<1>15. TransactionOf(p, n + 1)'
  BY <1>7, <1>8, <1>9, <1>10, <1>13, <1>14 DEF TransactionOf, JobsKept
<1>16. \E m \in 0 .. 7 : TransactionOf(p, m)'
  BY <1>8, <1>15
<1> QED
  BY <1>1, <1>2, <1>7, <1>13, <1>14, <1>16, InsideKeeps

\* The version is marked inside the transaction.
LEMMA MarkKeeps ==
  ASSUME Upgrading!ConstantsOK, UpgradeInv, NEW p \in Procs, Upgrading!Mark(p)
  PROVE  UpgradeInv'
<1>1. proc[p].pc = "migrate" /\ proc[p].pc \in Holding
  BY DEF Upgrading!Mark, Holding
<1>2. /\ proc[p] \in ProcRow /\ proc \in [Procs -> ProcRow] /\ db \in Database
      /\ proc[p].tx \in Database /\ proc[p].build \in 1 .. 7 /\ db.version \in 0 .. 7
      /\ lock = p /\ proc[p].pc # "idle" /\ proc[p].build \in Builds
  BY <1>1, InTransaction
<1>3. PICK n \in 0 .. 7 : TransactionOf(p, n)
  BY <1>1, InTransaction
<1>4. /\ proc[p].tx.steps = Count(n) /\ n >= db.version /\ Len(Count(n)) = n
      /\ n <= proc[p].build
      /\ JobsKept(db, proc[p].tx.jobs, n) /\ proc[p].tx.version = db.version
  BY <1>1, <1>2, <1>3, CountGrows DEF TransactionOf
<1>5. n = proc[p].build /\ db' = db /\ lock' = lock
  BY <1>2, <1>4 DEF Upgrading!Mark
<1>6. PICK d : d = [proc[p].tx EXCEPT !.version = n, !.mirror = n]
  OBVIOUS
<1>7. /\ d \in Database /\ d.version = n /\ d.mirror = n /\ d.steps = Count(n)
      /\ d.jobs = proc[p].tx.jobs
  BY <1>2, <1>4, <1>6 DEF Database
<1>8. PICK r : r = [proc[p] EXCEPT !.pc = "checked", !.tx = d]
  OBVIOUS
<1>9. r \in ProcRow /\ r.pc = "checked" /\ r.build = proc[p].build /\ r.tx = d
  BY <1>2, <1>7, <1>8 DEF ProcRow, ProcSteps, Holding
<1>10. proc' = [proc EXCEPT ![p] = r] /\ proc'[p] = r
  <2>1. (IF proc[p].tx.version < proc[p].build THEN proc[p].build ELSE proc[p].tx.version) = n
    BY <1>2, <1>4, <1>5
  <2>2. proc' = [proc EXCEPT ![p].pc = "checked", ![p].tx.version = n, ![p].tx.mirror = n]
    BY <1>2, <1>5, <2>1 DEF Upgrading!Mark, ProcRow, Database
  <2> QED
    BY <1>2, <1>6, <1>8, <2>2 DEF ProcRow, Database
<1>11. TransactionOf(p, n)'
  BY <1>2, <1>4, <1>5, <1>7, <1>9, <1>10 DEF TransactionOf, JobsKept
<1> QED
  BY <1>2, <1>5, <1>9, <1>10, <1>11, InsideKeeps DEF Holding

\* Foreign keys are switched on again.
LEMMA RestoreKeysKeeps ==
  ASSUME Upgrading!ConstantsOK, UpgradeInv, NEW p \in Procs, Upgrading!RestoreKeys(p)
  PROVE  UpgradeInv'
<1>1. proc[p].pc = "checked" /\ proc[p].pc \in Holding
  BY DEF Upgrading!RestoreKeys, Holding
<1>2. /\ proc[p] \in ProcRow /\ proc \in [Procs -> ProcRow]
      /\ lock = p /\ proc[p].pc # "idle" /\ proc[p].build \in Builds
  BY <1>1, InTransaction
<1>3. PICK n \in 0 .. 7 : TransactionOf(p, n)
  BY <1>1, InTransaction
<1>4. PICK r : r = [proc[p] EXCEPT !.pc = "commit", !.keys = TRUE]
  OBVIOUS
<1>5. /\ r \in ProcRow /\ r.pc = "commit" /\ r.build = proc[p].build /\ r.tx = proc[p].tx
      /\ r.keys = TRUE
  BY <1>2, <1>4 DEF ProcRow, ProcSteps, Holding
<1>6. proc' = [proc EXCEPT ![p] = r] /\ proc'[p] = r /\ db' = db /\ lock' = lock
  BY <1>2, <1>4 DEF Upgrading!RestoreKeys, ProcRow
<1>7. TransactionOf(p, n)'
  BY <1>1, <1>3, <1>5, <1>6 DEF TransactionOf, JobsKept
<1> QED
  BY <1>2, <1>5, <1>6, <1>7, InsideKeeps DEF Holding

\* The transaction is committed.
LEMMA CommitKeeps ==
  ASSUME Upgrading!ConstantsOK, UpgradeInv, NEW p \in Procs, Upgrading!Commit(p)
  PROVE  UpgradeInv' /\ Upgrading!WritersCurrentStep /\ Upgrading!UpgradeKeepsJobsStep
<1> USE NamesApart
<1>1. proc[p].pc = "commit" /\ proc[p].pc \in Holding
  BY DEF Upgrading!Commit, Holding
<1>2. /\ proc[p] \in ProcRow /\ proc \in [Procs -> ProcRow] /\ db \in Database
      /\ proc[p].tx \in Database /\ proc[p].build \in 1 .. 7 /\ db.version \in 0 .. 7
      /\ lock = p /\ proc[p].pc # "idle" /\ proc[p].build \in Builds
  BY <1>1, InTransaction
<1>3. PICK n \in 0 .. 7 : TransactionOf(p, n)
  BY <1>1, InTransaction
<1>4. /\ n = proc[p].build /\ proc[p].tx.version = n /\ proc[p].tx.mirror = n
      /\ proc[p].tx.steps = Count(n) /\ db.version <= n
      /\ JobsKept(db, proc[p].tx.jobs, n)
  BY <1>1, <1>2, <1>3 DEF TransactionOf
<1>5. PICK r : r = [proc[p] EXCEPT !.pc = "serving", !.tx = Upgrading!EmptyDb]
  OBVIOUS
<1>6. /\ r \in ProcRow /\ r.pc = "serving" /\ r.build = n /\ r.keys = proc[p].keys
  BY <1>2, <1>4, <1>5, EmptyIsDatabase DEF ProcRow, ProcSteps
<1>7. proc' = [proc EXCEPT ![p] = r] /\ db' = proc[p].tx /\ lock' = Upgrading!Null
  BY <1>2, <1>5 DEF Upgrading!Commit, ProcRow
<1>8. /\ proc' \in [Procs -> ProcRow]
      /\ proc'[p] = r /\ \A q \in Procs : q # p => proc'[q] = proc[q]
  BY <1>6, <1>7, OneMoves
<1>9. \A q \in Procs : q # p => proc[q].pc \notin Holding
  BY <1>2 DEF UpgradeInv, RunsApart
<1>10. UpgradeTypes'
  BY <1>2, <1>7, <1>8 DEF UpgradeTypes
<1>11. RunsApart'
  <2>1. proc[p].keys = TRUE
    BY <1>1 DEF UpgradeInv, RunsApart
  <2>2. "serving" \notin Holding
    BY DEF Holding
  <2> QED
    BY <1>2, <1>4, <1>6, <1>7, <1>8, <1>9, <2>1, <2>2 DEF UpgradeInv, RunsApart
<1>12. Current'
  <2>1. db'.version = n /\ db'.mirror = n /\ db'.steps = Count(n) /\ n >= 1
    BY <1>2, <1>4, <1>7
  <2>2. ASSUME n >= 2, NEW j \in StoredJobs, proc[p].tx.jobs[j].state = "leased"
        PROVE  proc[p].tx.jobs[j].cap = TRUE
    <3>1. CASE db.version >= 2
      BY <1>4, <2>2, <3>1 DEF JobsKept
    <3>2. CASE db.version < 2
      BY <1>4, <2>2, <3>2 DEF JobsKept
    <3>3. db.version >= 2 \/ db.version < 2
      BY <1>2
    <3> QED
      BY <3>1, <3>2, <3>3
  <2>3. Upgrading!LeasesHaveCapabilities'
    BY <1>7, <2>1, <2>2 DEF Upgrading!LeasesHaveCapabilities, Upgrading!Leased
  <2>4. \A q \in Procs : proc'[q].pc = "serving" => proc'[q].build = n
    <3> SUFFICES ASSUME NEW q \in Procs, q # p, proc[q].pc = "serving"
                 PROVE  proc[q].build = n
      BY <1>6, <1>8
    <3> QED
      BY <1>2, <1>4 DEF UpgradeInv, RunsApart
  <2> QED
    BY <2>1, <2>3, <2>4 DEF Current
<1>13. Transactions'
  BY <1>6, <1>8, <1>9 DEF Transactions, Holding
<1>14. Upgrading!WritersCurrentStep
  BY <1>1, <1>4, <1>7 DEF Upgrading!WritersCurrentStep
<1>15. Upgrading!UpgradeKeepsJobsStep
  <2> SUFFICES ASSUME n # db.version, NEW j \in StoredJobs
               PROVE  /\ proc[p].tx.jobs[j].verdict = db.jobs[j].verdict
                      /\ proc[p].tx.jobs[j].state =
                           IF db.jobs[j].state = "leased" /\ db.version < 2
                           THEN IF db.jobs[j].verdict THEN "succeeded" ELSE "queued"
                           ELSE db.jobs[j].state
                      /\ proc[p].tx.jobs[j].state = "leased" =>
                           \A v \in {3, 7} : n < v \/ v <= db.version
    BY <1>4, <1>7 DEF Upgrading!UpgradeKeepsJobsStep
  <2>1. db.jobs[j].state = "leased" /\ db.version < 2 => n >= 2
    <3>1. db.version = 0 => db.jobs[j].state = "none"
      BY DEF UpgradeInv, Current
    <3> QED
      BY <1>2, <1>4, <3>1
  <2>2. /\ proc[p].tx.jobs[j].verdict = db.jobs[j].verdict
        /\ proc[p].tx.jobs[j].state =
             IF db.jobs[j].state = "leased" /\ db.version < 2 /\ n >= 2
             THEN IF db.jobs[j].verdict THEN "succeeded" ELSE "queued"
             ELSE db.jobs[j].state
        /\ proc[p].tx.jobs[j].state = "leased" =>
             \A v \in {3, 7} : n < v \/ v <= db.version
    BY <1>4 DEF JobsKept
  <2>3. (db.jobs[j].state = "leased" /\ db.version < 2 /\ n >= 2)
          <=> (db.jobs[j].state = "leased" /\ db.version < 2)
    BY <2>1
  <2> QED
    BY <2>2, <2>3
<1> QED
  BY <1>10, <1>11, <1>12, <1>13, <1>14, <1>15 DEF UpgradeInv

\* A process ends or dies; its transaction is rolled back.
LEMMA ExitKeeps ==
  ASSUME Upgrading!ConstantsOK, UpgradeInv, NEW p \in Procs, Upgrading!Exit(p)
  PROVE  UpgradeInv'
<1> USE NamesApart, IdleIsRow
<1>1. proc' = [proc EXCEPT ![p] = Upgrading!Idle] /\ db' = db
  BY DEF Upgrading!Exit
<1>2. /\ proc' \in [Procs -> ProcRow]
      /\ proc'[p] = Upgrading!Idle /\ \A q \in Procs : q # p => proc'[q] = proc[q]
  BY <1>1, OneMoves
<1>3. /\ lock' \in Procs \cup {Upgrading!Null} /\ lock' # p
      /\ \A q \in Procs : q # p => (lock' = q <=> lock = q)
  <2>1. CASE lock = p
    BY <2>1 DEF Upgrading!Exit
  <2>2. CASE lock # p
    BY <2>2 DEF Upgrading!Exit, UpgradeInv, UpgradeTypes
  <2> QED
    BY <2>1, <2>2
<1>4. "idle" \notin Holding
  BY DEF Holding
<1>5. UpgradeTypes'
  BY <1>1, <1>2, <1>3 DEF UpgradeInv, UpgradeTypes
<1>6. RunsApart'
  BY <1>2, <1>3, <1>4 DEF UpgradeInv, RunsApart
<1>7. Current'
  BY <1>1, <1>2 DEF UpgradeInv, Current, Upgrading!LeasesHaveCapabilities, Upgrading!Leased
<1>8. Transactions'
  <2> SUFFICES ASSUME NEW q \in Procs, proc'[q].pc \in Holding
               PROVE  \E n \in 0 .. 7 : TransactionOf(q, n)'
    BY DEF Transactions
  <2>1. proc'[q] = proc[q]
    BY <1>2, <1>4
  <2>2. PICK n \in 0 .. 7 : TransactionOf(q, n)
    BY <2>1 DEF UpgradeInv, Transactions
  <2> QED
    BY <1>1, <2>1, <2>2 DEF TransactionOf, JobsKept
<1> QED
  BY <1>5, <1>6, <1>7, <1>8 DEF UpgradeInv

\* A build that serves writes one job, under no transaction of another.
LEMMA WritesKeep ==
  ASSUME Upgrading!ConstantsOK, UpgradeInv, NEW p \in Procs, NEW j \in StoredJobs, NEW from, NEW row \in Upgrading!Row,
         Upgrading!Writes(p, j, from, row), proc[p].build >= 2 /\ row.state = "leased" => row.cap = TRUE
  PROVE  UpgradeInv' /\ Upgrading!WritersCurrentStep /\ Upgrading!UpgradeKeepsJobsStep
<1> USE NamesApart
<1>1. /\ proc[p].pc = "serving" /\ lock = Upgrading!Null /\ lock' = lock /\ proc' = proc
      /\ db' = [db EXCEPT !.jobs[j] = row]
      /\ db \in Database /\ db.jobs \in [StoredJobs -> Upgrading!Row] /\ db.version \in 0 .. 7
      /\ db.version = proc[p].build /\ db.mirror = proc[p].build /\ proc[p].build \in 1 .. 7
  BY DEF Upgrading!Writes, UpgradeInv, UpgradeTypes, Current, RunsApart, Database
<1>2. PICK new : new = [db.jobs EXCEPT ![j] = row]
  OBVIOUS
<1>3. /\ new \in [StoredJobs -> Upgrading!Row] /\ new[j] = row
      /\ \A k \in StoredJobs : k # j => new[k] = db.jobs[k]
  BY <1>1, <1>2
<1>4. /\ db' \in Database /\ db'.jobs = new /\ db'.version = db.version
      /\ db'.mirror = db.mirror /\ db'.steps = db.steps
  BY <1>1, <1>2, <1>3 DEF Database
<1>5. UpgradeTypes'
  BY <1>1, <1>4 DEF UpgradeInv, UpgradeTypes
<1>6. RunsApart'
  BY <1>1 DEF UpgradeInv, RunsApart
<1>7. Current'
  <2>1. Upgrading!LeasesHaveCapabilities'
    <3> SUFFICES ASSUME db.version >= 2, NEW k \in StoredJobs, new[k].state = "leased"
                 PROVE  new[k].cap
      BY <1>4 DEF Upgrading!LeasesHaveCapabilities, Upgrading!Leased
    <3>1. CASE k = j
      BY <1>1, <1>3, <3>1
    <3>2. CASE k # j
      BY <1>3, <3>2 DEF UpgradeInv, Current, Upgrading!LeasesHaveCapabilities, Upgrading!Leased
    <3> QED
      BY <3>1, <3>2
  <2> QED
    BY <1>1, <1>4, <2>1 DEF UpgradeInv, Current
<1>8. Transactions'
  <2>1. \A q \in Procs : proc[q].pc \notin Holding
    BY <1>1 DEF UpgradeInv, RunsApart
  <2> QED
    BY <1>1, <2>1 DEF Transactions
<1>9. Upgrading!WritersCurrentStep
  BY <1>1, <1>4 DEF Upgrading!WritersCurrentStep
<1>10. Upgrading!UpgradeKeepsJobsStep
  BY <1>4 DEF Upgrading!UpgradeKeepsJobsStep
<1> QED
  BY <1>5, <1>6, <1>7, <1>8, <1>9, <1>10 DEF UpgradeInv

\* A process that serves writes to the database.
LEMMA ServeKeeps ==
  ASSUME Upgrading!ConstantsOK, UpgradeInv, NEW p \in Procs, Upgrading!Serve(p)
  PROVE  UpgradeInv' /\ Upgrading!WritersCurrentStep /\ Upgrading!UpgradeKeepsJobsStep
<1>1. PICK j \in StoredJobs :
        Upgrading!Enqueue(p, j) \/ Upgrading!Lease(p, j) \/ Upgrading!RecordVerdict(p, j) \/ Upgrading!Complete(p, j) \/ Upgrading!Reap(p, j)
  BY DEF Upgrading!Serve
<1>2. /\ db.jobs[j] \in Upgrading!Row /\ Upgrading!NoRow \in Upgrading!Row
      /\ proc[p].build \in Builds \cup {0}
      /\ \A q \in Procs : proc[q].pc = "serving" =>
           db.version = proc[q].build /\ Upgrading!LeasesHaveCapabilities
  BY EmptyIsDatabase DEF UpgradeInv, UpgradeTypes, Current, Database, ProcRow
<1>3. CASE Upgrading!Enqueue(p, j)
  <2>1. PICK row : row = [Upgrading!NoRow EXCEPT !.state = "queued"]
    OBVIOUS
  <2>2. row \in Upgrading!Row /\ row.state = "queued"
    BY <2>1 DEF Upgrading!NoRow, Upgrading!Row
  <2> QED
    BY <1>3, <2>1, <2>2, WritesKeep DEF Upgrading!Enqueue
<1>4. CASE Upgrading!Lease(p, j)
  <2>1. PICK cap \in BOOLEAN : cap = (proc[p].build >= 2)
    <3>1. (proc[p].build >= 2) \in BOOLEAN
      OBVIOUS
    <3> QED
      BY <3>1, Zenon
  <2>2. PICK row : row = [db.jobs[j] EXCEPT !.state = "leased", !.cap = cap]
    OBVIOUS
  <2>3. row \in Upgrading!Row /\ row.cap = cap
    BY <1>2, <2>2 DEF Upgrading!Row
  <2>4. Upgrading!Writes(p, j, "queued", row)
    BY <1>4, <2>1, <2>2 DEF Upgrading!Lease
  <2> QED
    BY <2>1, <2>3, <2>4, WritesKeep
<1>5. CASE Upgrading!RecordVerdict(p, j)
  <2>1. PICK row : row = [db.jobs[j] EXCEPT !.verdict = TRUE]
    OBVIOUS
  <2>2. row \in Upgrading!Row /\ row.cap = db.jobs[j].cap
    BY <1>2, <2>1 DEF Upgrading!Row
  <2>3. Upgrading!Writes(p, j, "leased", row)
    BY <1>5, <2>1 DEF Upgrading!RecordVerdict
  <2>4. proc[p].build >= 2 => db.jobs[j].cap = TRUE
    BY <1>2, <2>3 DEF Upgrading!Writes, Upgrading!LeasesHaveCapabilities, Upgrading!Leased,
         Upgrading!Row
  <2> QED
    BY <2>2, <2>3, <2>4, WritesKeep
<1>6. CASE Upgrading!Complete(p, j)
  <2>1. PICK row : row = [db.jobs[j] EXCEPT !.state = "succeeded", !.cap = FALSE]
    OBVIOUS
  <2>2. row \in Upgrading!Row /\ row.state = "succeeded"
    BY <1>2, <2>1 DEF Upgrading!Row
  <2> QED
    BY <1>6, <2>1, <2>2, WritesKeep DEF Upgrading!Complete
<1>7. CASE Upgrading!Reap(p, j)
  <2>1. PICK row : row = [db.jobs[j] EXCEPT !.state = "queued", !.cap = FALSE]
    OBVIOUS
  <2>2. row \in Upgrading!Row /\ row.state = "queued"
    BY <1>2, <2>1 DEF Upgrading!Row
  <2> QED
    BY <1>7, <2>1, <2>2, WritesKeep DEF Upgrading!Reap
<1> QED
  BY <1>1, <1>3, <1>4, <1>5, <1>6, <1>7

-----------------------------------------------------------------------------
\* Every step keeps the invariant.
LEMMA UpgradeStep ==
  ASSUME Upgrading!ConstantsOK, UpgradeInv, [Upgrading!Next]_(Upgrading!vars)
  PROVE  UpgradeInv' /\ Upgrading!WritersCurrentStep /\ Upgrading!UpgradeKeepsJobsStep
<1>1. CASE UNCHANGED Upgrading!vars
  <2>1. db' = db /\ lock' = lock /\ proc' = proc
    BY <1>1 DEF Upgrading!vars
  <2>2. UpgradeTypes' /\ RunsApart' /\ Current'
    BY <2>1 DEF UpgradeInv, UpgradeTypes, RunsApart, Current, Upgrading!LeasesHaveCapabilities,
         Upgrading!Leased
  <2>3. Transactions'
    BY <2>1 DEF UpgradeInv, Transactions, TransactionOf, JobsKept
  <2> QED
    BY <2>1, <2>2, <2>3 DEF UpgradeInv, Upgrading!WritersCurrentStep, Upgrading!UpgradeKeepsJobsStep
<1>2. ASSUME NEW p \in Procs,
             \/ \E b \in Builds : Upgrading!Open(p, b)
             \/ Upgrading!DisableKeys(p) \/ Upgrading!Begin(p) \/ Upgrading!Migrate(p) \/ Upgrading!Mark(p) \/ Upgrading!RestoreKeys(p)
             \/ Upgrading!Exit(p)
      PROVE  UpgradeInv' /\ Upgrading!WritersCurrentStep /\ Upgrading!UpgradeKeepsJobsStep
  <2>1. UpgradeInv'
    BY <1>2, OpenKeeps, DisableKeysKeeps, BeginKeeps, MigrateKeeps, MarkKeeps, RestoreKeysKeeps,
       ExitKeeps
  <2>2. db' = db
    BY <1>2 DEF Upgrading!Open, Upgrading!DisableKeys, Upgrading!Begin, Upgrading!Migrate,
         Upgrading!Mark, Upgrading!RestoreKeys, Upgrading!Exit
  <2> QED
    BY <2>1, <2>2 DEF Upgrading!WritersCurrentStep, Upgrading!UpgradeKeepsJobsStep
<1> QED
  BY <1>1, <1>2, CommitKeeps, ServeKeeps DEF Upgrading!Next

\* The invariant implies what the run checks.
LEMMA UpgradeImplied ==
  ASSUME Upgrading!ConstantsOK, UpgradeInv
  PROVE  Upgrading!UpgradeSound
<1>1. Upgrading!TypeOK
  BY DEF UpgradeInv, UpgradeTypes, RunsApart, Upgrading!TypeOK, Database, ProcRow, ProcSteps,
       Holding
<1>2. Upgrading!AppliedOnce
  BY DEF UpgradeInv, Current, Upgrading!AppliedOnce, Count
<1>3. Upgrading!LeasesHaveCapabilities /\ Upgrading!KeysEnforced
  BY DEF UpgradeInv, Current, RunsApart, Upgrading!KeysEnforced
<1> QED
  BY <1>1, <1>2, <1>3 DEF Upgrading!UpgradeSound

\* However many processes of whatever builds start, migrate, serve and are killed, the
\* tables have gone through each migration of their version once, leases have the
\* capability their version asks for, and nobody serves without foreign keys
\* (migrations/framework.rs, apply_migrations; db.rs, open).
THEOREM UpgradesAreSound == Upgrading!ConstantsOK => (Upgrading!Spec => []Upgrading!UpgradeSound)
<1> SUFFICES ASSUME Upgrading!ConstantsOK
             PROVE  Upgrading!Spec => []Upgrading!UpgradeSound
  OBVIOUS
<1>1. Upgrading!Init => UpgradeInv
  BY UpgradeInitially
<1>2. UpgradeInv /\ [Upgrading!Next]_(Upgrading!vars) => UpgradeInv'
  BY UpgradeStep
<1>3. UpgradeInv => Upgrading!UpgradeSound
  BY UpgradeImplied
<1> QED
  BY <1>1, <1>2, <1>3, PTL DEF Upgrading!Spec

\* Only a build of the version the database is at writes to it, and an upgrade keeps every
\* job and every verdict: a lease from before capabilities ends as its verdict says, and
\* none stands while the tables it uses are rebuilt (migrations.rs, V2_JOB_CAPABILITIES;
\* v3.rs and v7.rs, run).
THEOREM UpgradesKeepJobs == Upgrading!ConstantsOK => (Upgrading!Spec => Upgrading!WritersCurrent /\ Upgrading!UpgradeKeepsJobs)
<1> SUFFICES ASSUME Upgrading!ConstantsOK
             PROVE  Upgrading!Spec => Upgrading!WritersCurrent /\ Upgrading!UpgradeKeepsJobs
  OBVIOUS
<1>1. Upgrading!Init => UpgradeInv
  BY UpgradeInitially
<1>2. UpgradeInv /\ [Upgrading!Next]_(Upgrading!vars) => UpgradeInv'
  BY UpgradeStep
<1>3. UpgradeInv /\ [Upgrading!Next]_(Upgrading!vars) => [Upgrading!WritersCurrentStep]_(Upgrading!vars) /\ [Upgrading!UpgradeKeepsJobsStep]_(Upgrading!vars)
  BY UpgradeStep
<1> QED
  BY <1>1, <1>2, <1>3, PTL DEF Upgrading!Spec, Upgrading!WritersCurrent, Upgrading!UpgradeKeepsJobs

(***************************************************************************)
(* The budgets of the requests                                              *)
(***************************************************************************)
CONSTANTS
  Workers, Slots, Resources, Capacity, Rate, MaxWorkers, IdleSeconds, ChunkSizes, MaxDelay,
  MaxClock

Bud == INSTANCE RequestBudget WITH MaxTime <- MaxClock

\* The instance counts as this module does.
LEMMA SameBudCount ==
  ASSUME NEW S
  PROVE  /\ Bud!IsFiniteSet(S) <=> IsFiniteSet(S)
         /\ Bud!Cardinality(S) = Cardinality(S)
BY DEF Bud!IsFiniteSet, IsFiniteSet, Bud!Cardinality, Cardinality

BucketRow == [remaining : Nat, last : 0..MaxClock]
EntryRow == [bucket : Bud!Buckets, seen : 0..MaxClock]
WindowRow == [worker : Workers, resource : Resources, start : 0..MaxClock, used : Nat,
              reclaimed : Nat]

\* An entry at a time.
EntryOK(e, t) ==
  /\ e \in EntryRow /\ e.seen <= t
  /\ \A r \in Resources : e.bucket[r].remaining <= Capacity[r] /\ e.bucket[r].last <= t

\* What a bucket still gives, added to what the window was given, was a burst and earned: u is
\* the window's use, st its start and grace what late charges may have gained.
Owed(b, r, u, st, grace) ==
  \/ u = 0
  \/ b.last >= st - MaxDelay /\ u + b.remaining <= Capacity[r] + Rate[r] * (b.last - st + grace)

\* What a worker without an entry was given is all earned.
Earned(r, u, st, grace, t) == u = 0 \/ u <= Rate[r] * (t - st + grace - MaxDelay)

\* The watched worker's account with a table.
Account(table, u, grace) ==
  LET w == window.worker
      r == window.resource
  IN  /\ w \in DOMAIN table => Owed(table[w].bucket[r], r, u, window.start, grace)
      /\ w \notin DOMAIN table => Earned(r, u, window.start, grace, clock)

Grace == MaxDelay * (1 + window.reclaimed)

BudgetTyped ==
  /\ clock \in 0..MaxClock /\ window \in WindowRow
  /\ DOMAIN entries \subseteq Workers /\ Cardinality(DOMAIN entries) <= MaxWorkers
  /\ \A w \in DOMAIN entries : EntryOK(entries[w], clock)
  /\ slot \in [Slots -> {Bud!Idle} \cup Bud!Charging \cup Bud!Reading]
  /\ \A s \in Slots : slot[s].stage = "charge" =>
       slot[s].now <= clock /\ clock <= slot[s].now + MaxDelay

BudgetInv ==
  /\ BudgetTyped /\ Account(entries, window.used, Grace)
  /\ clock < window.start => window.used = 0

(***************************************************************************)
(* Refilling                                                                *)
(***************************************************************************)
\* Refilling for two spans one after the other is refilling for both.
LEMMA Spans ==
  ASSUME NEW rate \in Nat, NEW x \in Int, NEW y \in Int
  PROVE  /\ rate * (x + y) = rate * x + rate * y
         /\ rate * x \in Int
         /\ x <= y => rate * x <= rate * y
         /\ x >= 0 => rate * x >= 0
BY Z3

\* What a refill gives: no more than the time since the last one earned.
LEMMA RefillFacts ==
  ASSUME Bud!ConstantsOK, NEW r \in Resources, NEW b \in BucketRow, b.remaining <= Capacity[r],
         NEW stamp \in 0..MaxClock
  PROVE  /\ Bud!Refill(b, r, stamp) \in BucketRow
         /\ Bud!Refill(b, r, stamp).remaining <= Capacity[r]
         /\ Bud!Refill(b, r, stamp).last = IF stamp > b.last THEN stamp ELSE b.last
         /\ Bud!Refill(b, r, stamp).remaining
              <= b.remaining + Rate[r] * (Bud!Refill(b, r, stamp).last - b.last)
<1>1. PICK elapsed : elapsed = IF stamp > b.last THEN stamp - b.last ELSE 0
  OBVIOUS
<1>2. PICK last : last = IF stamp > b.last THEN stamp ELSE b.last
  OBVIOUS
<1>3. PICK total : total = b.remaining + elapsed * Rate[r]
  OBVIOUS
<1>4. Capacity[r] \in Nat /\ Rate[r] \in Nat /\ MaxClock \in Nat
  BY DEF Bud!ConstantsOK
<1>5. b.remaining \in Nat /\ b.last \in 0..MaxClock
  BY DEF BucketRow
<1>6. elapsed \in Nat /\ elapsed = last - b.last /\ last \in 0..MaxClock
  BY <1>1, <1>2, <1>4, <1>5
<1>7. elapsed * Rate[r] = Rate[r] * elapsed /\ elapsed * Rate[r] \in Nat
  BY <1>4, <1>6, Z3
<1>8. total \in Nat
  BY <1>3, <1>5, <1>7
<1>9. PICK left : left = IF total < Capacity[r] THEN total ELSE Capacity[r]
  OBVIOUS
<1>10. left \in Nat /\ left <= Capacity[r] /\ left <= total
  BY <1>4, <1>8, <1>9
<1>11. Bud!Refill(b, r, stamp) = [remaining |-> left, last |-> last]
  BY <1>1, <1>2, <1>3, <1>9 DEF Bud!Refill
<1>12. left <= b.remaining + Rate[r] * (last - b.last)
  BY <1>3, <1>6, <1>7, <1>10
<1> QED
  BY <1>2, <1>6, <1>10, <1>11, <1>12 DEF BucketRow

\* ... all buckets of an entry.
LEMMA RefillAllFacts ==
  ASSUME Bud!ConstantsOK, NEW t \in 0..MaxClock, NEW e, EntryOK(e, t), NEW stamp \in 0..MaxClock, stamp <= t
  PROVE  /\ EntryOK(Bud!RefillAll(e, stamp), t)
         /\ \A r \in Resources : Bud!RefillAll(e, stamp).bucket[r] = Bud!Refill(e.bucket[r], r, stamp)
<1>1. PICK new : new = [r \in Resources |-> Bud!Refill(e.bucket[r], r, stamp)]
  OBVIOUS
<1>2. e \in EntryRow /\ e.bucket \in [Resources -> BucketRow] /\ e.seen \in 0..MaxClock
  BY DEF EntryOK, EntryRow, Bud!Buckets, BucketRow
<1>3. ASSUME NEW r \in Resources
      PROVE  /\ new[r] \in BucketRow /\ new[r].remaining <= Capacity[r] /\ new[r].last <= t
             /\ new[r] = Bud!Refill(e.bucket[r], r, stamp)
  BY <1>1, <1>2, <1>3, RefillFacts DEF EntryOK
<1>4. new \in Bud!Buckets
  BY <1>1, <1>3 DEF Bud!Buckets, BucketRow
<1>5. Bud!RefillAll(e, stamp) = [e EXCEPT !.bucket = new]
  BY <1>1 DEF Bud!RefillAll
<1>6. Bud!RefillAll(e, stamp) \in EntryRow /\ Bud!RefillAll(e, stamp).bucket = new
      /\ Bud!RefillAll(e, stamp).seen = e.seen
  BY <1>2, <1>4, <1>5 DEF EntryRow
<1> QED
  BY <1>3, <1>6 DEF EntryOK

\* A refill keeps the account.
LEMMA RefillOwed ==
  ASSUME Bud!ConstantsOK, NEW r \in Resources, NEW b \in BucketRow, b.remaining <= Capacity[r],
         NEW stamp \in 0..MaxClock, NEW u \in Nat, NEW st \in 0..MaxClock, NEW grace \in Nat,
         Owed(b, r, u, st, grace)
  PROVE  Owed(Bud!Refill(b, r, stamp), r, u, st, grace)
<1>1. PICK n : n = Bud!Refill(b, r, stamp)
  OBVIOUS
<1>2. /\ n \in BucketRow /\ n.last = (IF stamp > b.last THEN stamp ELSE b.last)
      /\ n.remaining <= b.remaining + Rate[r] * (n.last - b.last)
  BY <1>1, RefillFacts
<1>3. /\ Capacity[r] \in Nat /\ Rate[r] \in Nat /\ MaxDelay \in Nat /\ MaxClock \in Nat
      /\ n.last \in Nat /\ b.last \in Nat /\ n.last >= b.last
      /\ n.remaining \in Nat /\ b.remaining \in Nat
  BY <1>2 DEF Bud!ConstantsOK, BucketRow
<1>4. CASE u = 0
  BY <1>4 DEF Owed
<1>5. CASE u # 0
  <2>1. b.last >= st - MaxDelay /\ u + b.remaining <= Capacity[r] + Rate[r] * (b.last - st + grace)
    BY <1>5 DEF Owed
  <2>2. PICK x, y : x = n.last - b.last /\ y = b.last - st + grace
    OBVIOUS
  <2>3. x \in Int /\ y \in Int /\ x + y = n.last - st + grace
    BY <1>3, <2>2
  <2>4. Rate[r] * (x + y) = Rate[r] * x + Rate[r] * y /\ Rate[r] * x \in Int /\ Rate[r] * y \in Int
    BY <1>3, <2>3, Spans
  <2>5. u + n.remaining <= Capacity[r] + Rate[r] * (n.last - st + grace)
    BY <1>2, <1>3, <2>1, <2>2, <2>3, <2>4
  <2> QED
    BY <1>1, <1>3, <2>1, <2>5 DEF Owed
<1> QED
  BY <1>4, <1>5

\* A charge that is admitted keeps it: what it takes it took from the bucket.
LEMMA SpendOwed ==
  ASSUME Bud!ConstantsOK, NEW r \in Resources, NEW b \in BucketRow, b.remaining <= Capacity[r],
         NEW stamp \in 0..MaxClock, NEW u \in Nat, NEW st \in 0..MaxClock, NEW grace \in Nat,
         Owed(b, r, u, st, grace), grace >= MaxDelay, stamp >= st - MaxDelay,
         NEW cost \in Nat, NEW left \in BucketRow, left.last = Bud!Refill(b, r, stamp).last,
         left.remaining = Bud!Refill(b, r, stamp).remaining - cost
  PROVE  Owed(left, r, u + cost, st, grace)
<1>1. PICK n : n = Bud!Refill(b, r, stamp)
  OBVIOUS
<1>2. /\ n \in BucketRow /\ n.last = (IF stamp > b.last THEN stamp ELSE b.last)
      /\ n.remaining <= Capacity[r]
  BY <1>1, RefillFacts
<1>3. /\ Capacity[r] \in Nat /\ Rate[r] \in Nat /\ MaxDelay \in Nat /\ MaxClock \in Nat
      /\ n.last \in Nat /\ n.last >= stamp /\ n.remaining \in Nat /\ left.remaining \in Nat
      /\ left.last = n.last /\ left.remaining = n.remaining - cost
  BY <1>1, <1>2 DEF Bud!ConstantsOK, BucketRow
<1>4. n.last >= st - MaxDelay /\ n.last - st + grace >= 0 /\ n.last - st + grace \in Int
  BY <1>3
<1>5. Rate[r] * (n.last - st + grace) >= 0 /\ Rate[r] * (n.last - st + grace) \in Int
  BY <1>3, <1>4, Spans
<1>6. u + n.remaining <= Capacity[r] + Rate[r] * (n.last - st + grace)
  <2>1. CASE u = 0
    BY <1>2, <1>3, <1>5, <2>1
  <2>2. CASE u # 0
    BY <1>1, <2>2, RefillOwed DEF Owed
  <2> QED
    BY <2>1, <2>2
<1>7. (u + cost) + left.remaining <= Capacity[r] + Rate[r] * (left.last - st + grace)
  BY <1>3, <1>5, <1>6
<1> QED
  BY <1>3, <1>4, <1>7 DEF Owed

\* A worker that comes back starts with a burst: all it was given before, it had earned.
LEMMA ReturnOwed ==
  ASSUME Bud!ConstantsOK, NEW r \in Resources, NEW t \in 0..MaxClock, NEW stamp \in 0..MaxClock,
         NEW u \in Nat, NEW st \in 0..MaxClock, NEW grace \in Nat,
         Earned(r, u, st, grace, t), t < st => u = 0, t <= stamp + MaxDelay
  PROVE  Owed([remaining |-> Capacity[r], last |-> stamp], r, u, st, grace)
<1>1. Capacity[r] \in Nat /\ Rate[r] \in Nat /\ MaxDelay \in Nat /\ MaxClock \in Nat
  BY DEF Bud!ConstantsOK
<1>2. CASE u = 0
  BY <1>2 DEF Owed
<1>3. CASE u # 0
  <2>1. u <= Rate[r] * (t - st + grace - MaxDelay) /\ t >= st
    BY <1>1, <1>3 DEF Earned
  <2>2. PICK x, y : x = t - st + grace - MaxDelay /\ y = stamp - st + grace
    OBVIOUS
  <2>3. x \in Int /\ y \in Int /\ x <= y
    BY <1>1, <2>2
  <2>4. Rate[r] * x <= Rate[r] * y /\ Rate[r] * x \in Int /\ Rate[r] * y \in Int
    BY <1>1, <2>3, Spans
  <2>5. u + Capacity[r] <= Capacity[r] + Rate[r] * (stamp - st + grace) /\ stamp >= st - MaxDelay
    BY <1>1, <2>1, <2>2, <2>4
  <2> QED
    BY <2>5 DEF Owed
<1> QED
  BY <1>2, <1>3

\* A worker that is forgotten had a full bucket: what it was given it had earned by then.
LEMMA FullEarned ==
  ASSUME Bud!ConstantsOK, NEW r \in Resources, NEW t \in 0..MaxClock, NEW b \in BucketRow,
         b.remaining = Capacity[r], b.last <= t,
         NEW u \in Nat, NEW st \in 0..MaxClock, NEW grace \in Nat, Owed(b, r, u, st, grace)
  PROVE  Earned(r, u, st, grace + MaxDelay, t)
<1>1. Capacity[r] \in Nat /\ Rate[r] \in Nat /\ MaxDelay \in Nat /\ MaxClock \in Nat /\ b.last \in Nat
  BY DEF Bud!ConstantsOK, BucketRow
<1>2. PICK x, y : x = b.last - st + grace /\ y = t - st + (grace + MaxDelay) - MaxDelay
  OBVIOUS
<1>3. x \in Int /\ y \in Int /\ x <= y
  BY <1>1, <1>2
<1>4. Rate[r] * x <= Rate[r] * y /\ Rate[r] * x \in Int /\ Rate[r] * y \in Int
  BY <1>1, <1>3, Spans
<1>5. CASE u # 0
  BY <1>1, <1>2, <1>4, <1>5 DEF Owed, Earned
<1> QED
  BY <1>5 DEF Earned

(***************************************************************************)
(* The steps                                                                *)
(***************************************************************************)
\* What late charges may have gained grows with every reclaim.
LEMMA GraceFacts ==
  ASSUME Bud!ConstantsOK, window \in WindowRow
  PROVE  Grace \in Nat /\ Grace >= MaxDelay /\ MaxDelay * (1 + (window.reclaimed + 1)) = Grace + MaxDelay
<1>1. MaxDelay \in Nat /\ window.reclaimed \in Nat
  BY DEF Bud!ConstantsOK, WindowRow
<1>2. PICK n : n = window.reclaimed
  OBVIOUS
<1>3. /\ MaxDelay * (1 + n) \in Nat /\ MaxDelay * (1 + n) >= MaxDelay
      /\ MaxDelay * (1 + (n + 1)) = MaxDelay * (1 + n) + MaxDelay
  BY <1>1, <1>2, Z3
<1> QED
  BY <1>2, <1>3 DEF Grace

\* The inductive invariant implies what the run checks.
LEMMA BudgetImplied == Bud!ConstantsOK /\ BudgetInv => Bud!TypeOK /\ Bud!WindowBounded
<1> SUFFICES ASSUME Bud!ConstantsOK, BudgetInv
             PROVE  Bud!TypeOK /\ Bud!WindowBounded
  OBVIOUS
<1>1. Bud!TypeOK
  <2>1. \A w \in DOMAIN entries : entries[w].bucket \in Bud!Buckets /\ entries[w].seen \in 0..clock
    BY DEF BudgetInv, BudgetTyped, EntryOK, EntryRow
  <2> QED
    BY SameBudCount, <2>1 DEF BudgetInv, BudgetTyped, EntryOK, Bud!TypeOK
<1>2. Bud!WindowBounded
  <2> SUFFICES ASSUME clock >= window.start
               PROVE  window.used <= Capacity[window.resource]
                        + Rate[window.resource] * (clock - window.start + Grace)
    BY DEF Bud!WindowBounded, Grace
  <2>1. PICK r, u, st, t : r = window.resource /\ u = window.used /\ st = window.start /\ t = clock
    OBVIOUS
  <2>2. /\ r \in Resources /\ u \in Nat /\ st \in 0..MaxClock /\ t \in 0..MaxClock /\ t >= st
        /\ Capacity[r] \in Nat /\ Rate[r] \in Nat /\ MaxDelay \in Nat /\ MaxClock \in Nat
        /\ Grace \in Nat /\ Grace >= MaxDelay
    BY <2>1, GraceFacts DEF BudgetInv, BudgetTyped, WindowRow, Bud!ConstantsOK
  <2>3. /\ t - st + Grace \in Int /\ t - st + Grace >= 0
        /\ Rate[r] * (t - st + Grace) >= 0 /\ Rate[r] * (t - st + Grace) \in Int
    BY <2>2, Spans
  <2>4. CASE u = 0
    BY <2>1, <2>2, <2>3, <2>4
  <2>5. CASE u # 0 /\ window.worker \in DOMAIN entries
    <3>1. PICK b : b = entries[window.worker].bucket[r]
      OBVIOUS
    <3>2. b \in BucketRow /\ b.last <= t /\ Owed(b, r, u, st, Grace)
      BY <2>1, <2>2, <2>5, <3>1
        DEF BudgetInv, BudgetTyped, Account, EntryOK, EntryRow, Bud!Buckets, BucketRow
    <3>3. u + b.remaining <= Capacity[r] + Rate[r] * (b.last - st + Grace)
      BY <2>5, <3>2 DEF Owed
    <3>4. b.last - st + Grace \in Int /\ b.last - st + Grace <= t - st + Grace /\ b.remaining \in Nat
      BY <2>2, <3>2 DEF BucketRow
    <3>5. Rate[r] * (b.last - st + Grace) <= Rate[r] * (t - st + Grace)
          /\ Rate[r] * (b.last - st + Grace) \in Int
      BY <2>2, <2>3, <3>4, Spans
    <3> QED
      BY <2>1, <2>2, <2>3, <3>3, <3>4, <3>5
  <2>6. CASE u # 0 /\ window.worker \notin DOMAIN entries
    <3>1. u <= Rate[r] * (t - st + Grace - MaxDelay)
      BY <2>1, <2>6 DEF BudgetInv, Account, Earned
    <3>2. t - st + Grace - MaxDelay \in Int /\ t - st + Grace - MaxDelay <= t - st + Grace
      BY <2>2
    <3>3. Rate[r] * (t - st + Grace - MaxDelay) <= Rate[r] * (t - st + Grace)
          /\ Rate[r] * (t - st + Grace - MaxDelay) \in Int
      BY <2>2, <2>3, <3>2, Spans
    <3> QED
      BY <2>1, <2>2, <2>3, <3>1, <3>3
  <2> QED
    BY <2>4, <2>5, <2>6
<1> QED
  BY <1>1, <1>2

\* It holds before the first request.
LEMMA BudgetInitial == Bud!ConstantsOK /\ Bud!Init => BudgetInv
<1> SUFFICES ASSUME Bud!ConstantsOK, Bud!Init
             PROVE  BudgetInv
  OBVIOUS
<1>1. DOMAIN entries = {} /\ Cardinality({}) = 0
  BY FS_EmptySet DEF Bud!Init
<1>2. window \in WindowRow /\ window.used = 0
  BY DEF Bud!Init, WindowRow
<1>3. \A s \in Slots : slot[s] = Bud!Idle /\ slot[s].stage = "idle"
  BY DEF Bud!Init, Bud!Idle
<1>4. BudgetTyped
  BY <1>1, <1>2, <1>3 DEF Bud!Init, BudgetTyped, Bud!ConstantsOK
<1>5. Account(entries, window.used, Grace)
  BY <1>1, <1>2 DEF Account, Earned
<1> QED
  BY <1>2, <1>4, <1>5 DEF BudgetInv

\* What retain leaves and what it drops.
LEMMA RetainedFacts ==
  ASSUME Bud!ConstantsOK, BudgetInv, NEW stamp \in 0..MaxClock, stamp <= clock
  PROVE  /\ DOMAIN Bud!Retained(stamp) \subseteq DOMAIN entries
         /\ \A w \in DOMAIN Bud!Retained(stamp) :
              Bud!Retained(stamp)[w] = entries[w] \/ Bud!Retained(stamp)[w] = Bud!RefillAll(entries[w], stamp)
         /\ \A w \in DOMAIN entries \ DOMAIN Bud!Retained(stamp) : Bud!Full(Bud!RefillAll(entries[w], stamp))
<1>1. PICK fresh : fresh = [w \in DOMAIN entries |->
                              IF Bud!IdleAt(entries[w], stamp) THEN Bud!RefillAll(entries[w], stamp) ELSE entries[w]]
  OBVIOUS
<1>2. PICK kept : kept = [w \in {v \in DOMAIN entries : ~(Bud!IdleAt(entries[v], stamp) /\ Bud!Full(fresh[v]))}
                            |-> fresh[w]]
  OBVIOUS
<1>3. Bud!Retained(stamp) = kept
  BY <1>1, <1>2 DEF Bud!Retained
<1>4. /\ DOMAIN kept \subseteq DOMAIN entries
      /\ \A w \in DOMAIN kept : kept[w] = fresh[w]
      /\ \A w \in DOMAIN entries \ DOMAIN kept : Bud!IdleAt(entries[w], stamp) /\ Bud!Full(fresh[w])
  BY <1>2
<1>5. \A w \in DOMAIN entries :
        fresh[w] = IF Bud!IdleAt(entries[w], stamp) THEN Bud!RefillAll(entries[w], stamp) ELSE entries[w]
  BY <1>1
<1> QED
  BY <1>3, <1>4, <1>5

\* A request at a charge, and the times it may be charged at.
LEMMA ChargeFacts ==
  ASSUME Bud!ConstantsOK, BudgetInv, NEW s \in Slots, slot[s].stage = "charge"
  PROVE  /\ slot[s].worker \in Workers /\ slot[s].resource \in Resources /\ slot[s].cost \in Nat
         /\ slot[s].now \in 0..MaxClock /\ slot[s].now <= clock /\ clock <= slot[s].now + MaxDelay
<1>1. slot[s] \in {Bud!Idle} \cup Bud!Charging \cup Bud!Reading
  BY DEF BudgetInv, BudgetTyped
<1>2. slot[s] \in Bud!Charging
  BY <1>1 DEF Bud!Idle, Bud!Reading
<1>3. ChunkSizes \cup {1} \subseteq Nat
  BY DEF Bud!ConstantsOK
<1> QED
  BY <1>2, <1>3 DEF Bud!Charging, BudgetInv, BudgetTyped

\* The table a charge works on.
Kept(c) == IF c.worker \in DOMAIN entries THEN entries ELSE Bud!Retained(c.now)

\* The watched worker is one the charge's retain drops.
Gone(kept) == window.used > 0 /\ window.worker \in DOMAIN entries \ DOMAIN kept

\* A reclaim keeps the account.
LEMMA KeptAccount ==
  ASSUME Bud!ConstantsOK, BudgetInv, NEW s \in Slots, slot[s].stage = "charge",
         NEW kept, kept = Kept(slot[s])
  PROVE  /\ DOMAIN kept \subseteq DOMAIN entries
         /\ \A w \in DOMAIN kept : EntryOK(kept[w], clock)
         /\ Account(kept, window.used, IF Gone(kept) THEN Grace + MaxDelay ELSE Grace)
<1>1. PICK stamp : stamp = slot[s].now
  OBVIOUS
<1>2. /\ stamp \in 0..MaxClock /\ stamp <= clock /\ clock \in 0..MaxClock
      /\ \A w \in DOMAIN entries : EntryOK(entries[w], clock)
  BY <1>1, ChargeFacts DEF BudgetInv, BudgetTyped
<1>3. /\ DOMAIN kept \subseteq DOMAIN entries
      /\ \A w \in DOMAIN kept : kept[w] = entries[w] \/ kept[w] = Bud!RefillAll(entries[w], stamp)
      /\ \A w \in DOMAIN entries \ DOMAIN kept : Bud!Full(Bud!RefillAll(entries[w], stamp))
  BY <1>1, <1>2, RetainedFacts DEF Kept
<1>4. \A w \in DOMAIN kept : EntryOK(kept[w], clock)
  BY <1>2, <1>3, RefillAllFacts
<1>5. PICK w, r, u, st, g : /\ w = window.worker /\ r = window.resource /\ u = window.used
                            /\ st = window.start /\ g = Grace
  OBVIOUS
<1>6. r \in Resources /\ u \in Nat /\ st \in 0..MaxClock /\ g \in Nat
  BY <1>5, GraceFacts DEF BudgetInv, BudgetTyped, WindowRow
<1>7. ASSUME w \in DOMAIN entries
      PROVE  /\ entries[w].bucket[r] \in BucketRow
             /\ entries[w].bucket[r].remaining <= Capacity[r]
             /\ Owed(entries[w].bucket[r], r, u, st, g)
             /\ Owed(Bud!RefillAll(entries[w], stamp).bucket[r], r, u, st, g)
  <2>1. PICK b : b = entries[w].bucket[r]
    OBVIOUS
  <2>2. b \in BucketRow /\ b.remaining <= Capacity[r]
    BY <1>2, <1>6, <1>7, <2>1 DEF EntryOK, EntryRow, Bud!Buckets, BucketRow
  <2>3. Owed(b, r, u, st, g)
    BY <1>5, <1>7, <2>1 DEF BudgetInv, Account
  <2>4. Owed(Bud!Refill(b, r, stamp), r, u, st, g)
    BY <1>2, <1>6, <2>2, <2>3, RefillOwed
  <2>5. Bud!RefillAll(entries[w], stamp).bucket[r] = Bud!Refill(b, r, stamp)
    BY <1>2, <1>6, <1>7, <2>1, RefillAllFacts
  <2> QED
    BY <2>1, <2>2, <2>3, <2>4, <2>5
<1>8. CASE w \in DOMAIN kept
  <2>1. Owed(kept[w].bucket[r], r, u, st, g) /\ ~ Gone(kept)
    BY <1>3, <1>5, <1>7, <1>8 DEF Gone
  <2> QED
    BY <1>3, <1>4, <1>5, <1>8, <2>1 DEF Account
<1>9. CASE w \notin DOMAIN entries
  <2>1. Earned(r, u, st, g, clock) /\ ~ Gone(kept) /\ w \notin DOMAIN kept
    BY <1>3, <1>5, <1>9 DEF BudgetInv, Account, Gone
  <2> QED
    BY <1>3, <1>4, <1>5, <2>1 DEF Account
<1>10. CASE w \in DOMAIN entries \ DOMAIN kept
  <2>1. PICK b : b = Bud!RefillAll(entries[w], stamp).bucket[r]
    OBVIOUS
  <2>2. b \in BucketRow /\ b.last <= clock
    BY <1>2, <1>6, <1>10, <2>1, RefillAllFacts DEF EntryOK, EntryRow, Bud!Buckets, BucketRow
  <2>3. b.remaining = Capacity[r]
    BY <1>3, <1>6, <1>10, <2>1 DEF Bud!Full
  <2>4. Earned(r, u, st, g + MaxDelay, clock)
    BY <1>2, <1>6, <1>7, <1>10, <2>1, <2>2, <2>3, FullEarned
  <2>5. CASE u = 0
    BY <1>3, <1>4, <1>5, <1>10, <2>5 DEF Account, Earned
  <2>6. CASE u # 0
    <3>1. Gone(kept)
      BY <1>5, <1>6, <1>10, <2>6 DEF Gone
    <3> QED
      BY <1>3, <1>4, <1>5, <1>10, <2>4, <3>1 DEF Account
  <2> QED
    BY <2>5, <2>6
<1> QED
  BY <1>8, <1>9, <1>10

\* The entry a charge starts from.
LEMMA OldEntry ==
  ASSUME Bud!ConstantsOK, BudgetInv, NEW s \in Slots, slot[s].stage = "charge",
         NEW kept, kept = Kept(slot[s]), NEW w, w = slot[s].worker,
         NEW old, old = IF w \in DOMAIN kept THEN kept[w] ELSE Bud!NewEntry(slot[s].now),
         NEW g, g = IF Gone(kept) THEN Grace + MaxDelay ELSE Grace
  PROVE  /\ EntryOK(old, clock)
         /\ w = window.worker =>
              Owed(old.bucket[window.resource], window.resource, window.used, window.start, g)
<1>1. PICK stamp, r, u, st : /\ stamp = slot[s].now /\ r = window.resource /\ u = window.used
                           /\ st = window.start
  OBVIOUS
<1>2. /\ stamp \in 0..MaxClock /\ stamp <= clock /\ clock <= stamp + MaxDelay /\ clock \in 0..MaxClock
      /\ r \in Resources /\ u \in Nat /\ st \in 0..MaxClock /\ Grace \in Nat /\ MaxDelay \in Nat
  BY <1>1, ChargeFacts, GraceFacts DEF BudgetInv, BudgetTyped, WindowRow, Bud!ConstantsOK
<1>3. g \in Nat /\ (clock < st => u = 0)
  BY <1>1, <1>2 DEF BudgetInv
<1>4. CASE w \in DOMAIN kept
  BY <1>4, KeptAccount DEF Account
<1>5. CASE w \notin DOMAIN kept
  <2>1. PICK new : new = [q \in Resources |-> [remaining |-> Capacity[q], last |-> stamp]]
    OBVIOUS
  <2>2. old = [bucket |-> new, seen |-> stamp]
    BY <1>1, <1>5, <2>1 DEF Bud!NewEntry
  <2>3. \A q \in Resources : /\ new[q] \in BucketRow /\ new[q].remaining = Capacity[q]
                             /\ new[q].last = stamp
    BY <1>2, <2>1 DEF BucketRow, Bud!ConstantsOK
  <2>4. new \in Bud!Buckets
    BY <2>1, <2>3 DEF Bud!Buckets, BucketRow
  <2>5. EntryOK(old, clock)
    BY <1>2, <2>2, <2>3, <2>4 DEF EntryOK, EntryRow, Bud!ConstantsOK
  <2>6. ASSUME w = window.worker
        PROVE  Owed(old.bucket[r], r, u, st, g)
    <3>1. Earned(r, u, st, g, clock)
      BY <1>1, <1>5, <2>6, KeptAccount DEF Account
    <3>2. Owed([remaining |-> Capacity[r], last |-> stamp], r, u, st, g)
      BY <1>2, <1>3, <3>1, ReturnOwed
    <3> QED
      BY <1>2, <2>1, <2>2, <3>2
  <2> QED
    BY <1>1, <2>5, <2>6
<1> QED
  BY <1>4, <1>5

\* A charge under the lock.
LEMMA ChargeKeeps ==
  ASSUME Bud!ConstantsOK, BudgetInv, NEW s \in Slots, Bud!Charge(s)
  PROVE  BudgetInv'
<1>1. PICK c, kept : c = slot[s] /\ kept = Kept(slot[s])
  OBVIOUS
<1>2. PICK old : old = IF c.worker \in DOMAIN kept THEN kept[c.worker] ELSE Bud!NewEntry(c.now)
  OBVIOUS
<1>3. PICK b : b = Bud!Refill(old.bucket[c.resource], c.resource, c.now)
  OBVIOUS
<1>4. PICK room : room = (c.worker \in DOMAIN kept \/ Cardinality(DOMAIN kept) < MaxWorkers)
  OBVIOUS
<1>5. PICK admitted : admitted = (room /\ c.cost <= b.remaining)
  OBVIOUS
<1>6. PICK left : left = [b EXCEPT !.remaining = IF admitted THEN b.remaining - c.cost ELSE b.remaining]
  OBVIOUS
<1>7. PICK new : new = [bucket |-> [old.bucket EXCEPT ![c.resource] = left],
                        seen |-> IF c.now > old.seen THEN c.now ELSE old.seen]
  OBVIOUS
<1>8. PICK watched : watched = (/\ c.worker = window.worker /\ c.resource = window.resource
                                /\ clock >= window.start)
  OBVIOUS
<1>9. PICK u, n : /\ u = (IF admitted /\ watched THEN window.used + c.cost ELSE window.used)
                  /\ n = (IF Gone(kept) THEN window.reclaimed + 1 ELSE window.reclaimed)
  OBVIOUS
<1>10. PICK place : place = IF admitted THEN [stage |-> "more", worker |-> c.worker] ELSE Bud!Idle
  OBVIOUS
<1>11. /\ c.stage = "charge"
       /\ entries' = IF room THEN [w \in DOMAIN kept \cup {c.worker} |->
                                     IF w = c.worker THEN new ELSE kept[w]]
                     ELSE kept
       /\ slot' = [slot EXCEPT ![s] = place]
       /\ window' = [window EXCEPT !.used = u, !.reclaimed = n]
       /\ clock' = clock
  BY SameBudCount, <1>1, <1>2, <1>3, <1>4, <1>5, <1>6, <1>7, <1>8, <1>9, <1>10 DEF Bud!Charge,
       Kept, Gone
<1>12. /\ c.worker \in Workers /\ c.resource \in Resources /\ c.cost \in Nat
       /\ c.now \in 0..MaxClock /\ c.now <= clock /\ clock <= c.now + MaxDelay
       /\ clock \in 0..MaxClock /\ MaxClock \in Nat /\ MaxDelay \in Nat
  BY <1>1, <1>11, ChargeFacts DEF BudgetInv, BudgetTyped, Bud!ConstantsOK
<1>13. PICK g : g = IF Gone(kept) THEN Grace + MaxDelay ELSE Grace
  OBVIOUS
<1>14. /\ window \in WindowRow /\ window' \in WindowRow /\ window'.used = u /\ window'.reclaimed = n
       /\ window'.worker = window.worker /\ window'.resource = window.resource
       /\ window'.start = window.start
  <2>1. window \in WindowRow
    BY DEF BudgetInv, BudgetTyped
  <2>2. window.used \in Nat /\ window.reclaimed \in Nat
    BY <2>1 DEF WindowRow
  <2>3. u \in Nat /\ n \in Nat
    BY <1>9, <1>12, <2>2
  <2> QED
    BY <1>11, <2>1, <2>3 DEF WindowRow
<1>15. Grace' = g /\ g \in Nat /\ g >= MaxDelay
  <2>1. Grace \in Nat /\ Grace >= MaxDelay /\ MaxDelay * (1 + (window.reclaimed + 1)) = Grace + MaxDelay
    BY <1>14, GraceFacts
  <2>2. Grace' = MaxDelay * (1 + n)
    BY <1>14 DEF Grace
  <2>3. CASE Gone(kept)
    BY <1>9, <1>12, <1>13, <2>1, <2>2, <2>3
  <2>4. CASE ~ Gone(kept)
    BY <1>9, <1>12, <1>13, <2>1, <2>2, <2>4 DEF Grace
  <2> QED
    BY <2>3, <2>4
<1>16. /\ DOMAIN kept \subseteq DOMAIN entries
       /\ \A w \in DOMAIN kept : EntryOK(kept[w], clock)
       /\ Account(kept, window.used, g)
  BY <1>1, <1>11, <1>13, KeptAccount
<1>17. /\ EntryOK(old, clock)
       /\ c.worker = window.worker =>
            Owed(old.bucket[window.resource], window.resource, window.used, window.start, g)
  BY <1>1, <1>2, <1>11, <1>13, OldEntry
<1>18. PICK ob : ob = old.bucket[c.resource]
  OBVIOUS
<1>19. ob \in BucketRow /\ ob.remaining <= Capacity[c.resource] /\ ob.last <= clock
  BY <1>12, <1>17, <1>18 DEF EntryOK, EntryRow, Bud!Buckets, BucketRow
<1>20. b \in BucketRow /\ b.remaining <= Capacity[c.resource] /\ b.last <= clock
  BY <1>3, <1>12, <1>18, <1>19, RefillFacts
<1>21. /\ left \in BucketRow /\ left.last = b.last /\ left.remaining <= Capacity[c.resource]
       /\ left.remaining = IF admitted THEN b.remaining - c.cost ELSE b.remaining
  <2>1. b.remaining \in Nat /\ Capacity[c.resource] \in Nat
    BY <1>12, <1>20 DEF BucketRow, Bud!ConstantsOK
  <2>2. PICK x : x = IF admitted THEN b.remaining - c.cost ELSE b.remaining
    OBVIOUS
  <2>3. x \in Nat /\ x <= Capacity[c.resource]
    <3>1. CASE admitted
      <4>1. c.cost <= b.remaining
        BY <1>5, <3>1, Zenon
      <4>2. x = b.remaining - c.cost
        BY <2>2, <3>1, Zenon
      <4> QED
        BY <1>12, <1>20, <2>1, <4>1, <4>2
    <3>2. CASE ~ admitted
      BY <1>20, <2>1, <2>2, <3>2
    <3> QED
      BY <3>1, <3>2
  <2> QED
    BY <1>6, <1>20, <2>2, <2>3 DEF BucketRow
<1>22. /\ old.bucket \in Bud!Buckets /\ new.bucket = [old.bucket EXCEPT ![c.resource] = left]
       /\ new.bucket \in Bud!Buckets /\ new.bucket[c.resource] = left
       /\ \A r \in Resources : r # c.resource => new.bucket[r] = old.bucket[r]
  BY <1>7, <1>12, <1>17, <1>21 DEF EntryOK, EntryRow, Bud!Buckets, BucketRow
<1>23. EntryOK(new, clock)
  <2>1. new = [bucket |-> new.bucket, seen |-> new.seen]
        /\ new.seen = IF c.now > old.seen THEN c.now ELSE old.seen
    BY <1>7
  <2>2. new.seen \in 0..MaxClock /\ new.seen <= clock
    BY <1>12, <1>17, <2>1 DEF EntryOK, EntryRow
  <2>3. \A r \in Resources : new.bucket[r].remaining <= Capacity[r] /\ new.bucket[r].last <= clock
    BY <1>17, <1>20, <1>21, <1>22 DEF EntryOK
  <2> QED
    BY <1>22, <2>1, <2>2, <2>3 DEF EntryOK, EntryRow
<1>24. ASSUME c.worker = window.worker, room
       PROVE  Owed(new.bucket[window.resource], window.resource, u, window.start, g)
  <2>1. PICK r, st, v : r = window.resource /\ st = window.start /\ v = window.used
    OBVIOUS
  <2>2. r \in Resources /\ st \in 0..MaxClock /\ v \in Nat /\ (clock < st => v = 0)
    BY <1>14, <2>1 DEF WindowRow, BudgetInv
  <2>3. Owed(old.bucket[r], r, v, st, g)
    BY <1>17, <1>24, <2>1
  <2>4. CASE r # c.resource
    BY <1>8, <1>9, <1>22, <2>1, <2>2, <2>3, <2>4
  <2>5. CASE r = c.resource /\ admitted /\ clock >= st
    <3>1. u = v + c.cost
      BY <1>8, <1>9, <1>24, <2>1, <2>5
    <3>2. c.now >= st - MaxDelay
      BY <1>12, <2>2, <2>5
    <3>3. left.last = Bud!Refill(ob, r, c.now).last /\ left.remaining = Bud!Refill(ob, r, c.now).remaining - c.cost
      BY <1>3, <1>18, <1>21, <2>5
    <3>4. ob \in BucketRow /\ ob.remaining <= Capacity[r] /\ Owed(ob, r, v, st, g)
      BY <1>18, <1>19, <2>3, <2>5
    <3>5. Owed(left, r, v + c.cost, st, g)
      BY <1>12, <1>15, <1>21, <2>2, <3>2, <3>3, <3>4, SpendOwed
    <3> QED
      BY <1>22, <2>1, <2>5, <3>1, <3>5
  <2>6. CASE r = c.resource /\ ~ admitted
    <3>1. left = b
      BY <1>6, <1>20, <1>21, <2>6 DEF BucketRow
    <3>2. Owed(b, r, v, st, g)
      BY <1>3, <1>12, <1>15, <1>18, <1>19, <2>2, <2>3, <2>6, RefillOwed
    <3> QED
      BY <1>9, <1>22, <2>1, <2>6, <3>1, <3>2
  <2>7. CASE clock < st
    BY <1>8, <1>9, <1>12, <2>1, <2>2, <2>7 DEF Owed
  <2> QED
    BY <1>12, <2>2, <2>4, <2>5, <2>6, <2>7
<1>25. c.worker # window.worker \/ ~ room => u = window.used
  BY <1>5, <1>8, <1>9
<1>26. /\ DOMAIN entries' \subseteq Workers /\ Cardinality(DOMAIN entries') <= MaxWorkers
       /\ \A w \in DOMAIN entries' : EntryOK(entries'[w], clock)
       /\ \A w \in DOMAIN entries' : entries'[w] = IF room /\ w = c.worker THEN new ELSE kept[w]
       /\ DOMAIN entries' = IF room THEN DOMAIN kept \cup {c.worker} ELSE DOMAIN kept
  <2>1. /\ DOMAIN entries \subseteq Workers /\ Cardinality(DOMAIN entries) <= MaxWorkers
        /\ IsFiniteSet(Workers) /\ MaxWorkers \in Nat
    BY SameBudCount DEF BudgetInv, BudgetTyped, Bud!ConstantsOK
  <2>2. IsFiniteSet(DOMAIN entries) /\ IsFiniteSet(DOMAIN kept)
        /\ Cardinality(DOMAIN kept) <= Cardinality(DOMAIN entries)
        /\ Cardinality(DOMAIN kept) \in Nat /\ Cardinality(DOMAIN entries) \in Nat
    BY <1>16, <2>1, FS_Subset, FS_CardinalityType
  <2>3. CASE ~ room
    BY <1>11, <1>16, <2>1, <2>2, <2>3
  <2>4. CASE room
    <3>1. /\ DOMAIN entries' = DOMAIN kept \cup {c.worker}
          /\ \A w \in DOMAIN entries' : entries'[w] = IF w = c.worker THEN new ELSE kept[w]
      BY <1>11, <2>4
    <3>2. Cardinality(DOMAIN kept \cup {c.worker}) <= MaxWorkers
      <4>1. CASE c.worker \in DOMAIN kept
        <5>1. DOMAIN kept \cup {c.worker} = DOMAIN kept
          BY <4>1
        <5> QED
          BY <2>1, <2>2, <5>1
      <4>2. CASE c.worker \notin DOMAIN kept
        <5>1. Cardinality(DOMAIN kept \cup {c.worker}) = Cardinality(DOMAIN kept) + 1
          BY <2>2, <4>2, FS_AddElement
        <5>2. Cardinality(DOMAIN kept) < MaxWorkers
          BY <1>4, <2>4, <4>2, Zenon
        <5> QED
          BY <2>1, <2>2, <5>1, <5>2
      <4> QED
        BY <4>1, <4>2
    <3> QED
      BY <1>12, <1>16, <1>23, <2>1, <2>4, <3>1, <3>2
  <2> QED
    BY <2>3, <2>4
<1>27. BudgetTyped'
  <2>1. slot' \in [Slots -> {Bud!Idle} \cup Bud!Charging \cup Bud!Reading]
    <3>1. place \in {Bud!Idle} \cup Bud!Charging \cup Bud!Reading
      BY <1>10, <1>12 DEF Bud!Reading
    <3> QED
      BY <1>11, <3>1 DEF BudgetInv, BudgetTyped
  <2>2. \A q \in Slots : slot'[q].stage = "charge" => slot'[q] = slot[q]
    <3>1. place.stage # "charge"
      BY <1>10 DEF Bud!Idle
    <3> QED
      BY <1>11, <3>1 DEF BudgetInv, BudgetTyped
  <2>3. \A q \in Slots : slot'[q].stage = "charge" =>
          slot'[q].now <= clock /\ clock <= slot'[q].now + MaxDelay
    BY <2>2 DEF BudgetInv, BudgetTyped
  <2> QED
    BY <1>11, <1>12, <1>14, <1>26, <2>1, <2>3 DEF BudgetTyped, EntryOK
<1>28. Account(entries, window.used, Grace)'
  <2>1. PICK w, r, st : w = window.worker /\ r = window.resource /\ st = window.start
    OBVIOUS
  <2>2. /\ w \in DOMAIN entries' => Owed(entries'[w].bucket[r], r, u, st, g)
        /\ w \notin DOMAIN entries' => Earned(r, u, st, g, clock)
    <3>1. CASE room /\ c.worker = w
      BY <1>24, <1>26, <2>1, <3>1
    <3>2. CASE ~ (room /\ c.worker = w)
      <4>1. u = window.used /\ (w \in DOMAIN entries' <=> w \in DOMAIN kept)
            /\ (w \in DOMAIN kept => entries'[w] = kept[w])
        BY <1>25, <1>26, <2>1, <3>2
      <4> QED
        BY <1>16, <2>1, <4>1 DEF Account
    <3> QED
      BY <3>1, <3>2
  <2> QED
    BY <1>11, <1>14, <1>15, <2>1, <2>2 DEF Account, Owed, Earned
<1>29. (clock < window.start => window.used = 0)'
  BY <1>8, <1>9, <1>11, <1>12, <1>14 DEF BudgetInv, WindowRow
<1> QED
  BY <1>27, <1>28, <1>29 DEF BudgetInv

\* A request is read, goes on and ends.
LEMMA SlotKeeps ==
  ASSUME Bud!ConstantsOK, BudgetInv, NEW s \in Slots,
         (\E w \in Workers : Bud!Request(s, w)) \/ Bud!More(s) \/ Bud!Served(s)
  PROVE  BudgetInv'
<1>1. /\ clock \in 0..MaxClock /\ MaxDelay \in Nat /\ MaxClock \in Nat
      /\ slot \in [Slots -> {Bud!Idle} \cup Bud!Charging \cup Bud!Reading]
  BY SameBudCount DEF BudgetInv, BudgetTyped, Bud!ConstantsOK
<1>2. ASSUME NEW place \in {Bud!Idle} \cup Bud!Charging \cup Bud!Reading, slot' = [slot EXCEPT ![s] = place],
             place.stage = "charge" => place.now = clock, UNCHANGED <<clock, entries, window>>
      PROVE  BudgetInv'
  <2>1. slot' \in [Slots -> {Bud!Idle} \cup Bud!Charging \cup Bud!Reading] /\ slot'[s] = place
        /\ \A q \in Slots : q # s => slot'[q] = slot[q]
    BY <1>1, <1>2
  <2>2. \A q \in Slots : slot'[q].stage = "charge" =>
          slot'[q].now <= clock /\ clock <= slot'[q].now + MaxDelay
    BY <1>1, <1>2, <2>1 DEF BudgetInv, BudgetTyped
  <2>3. BudgetTyped'
    BY <1>2, <2>1, <2>2 DEF BudgetInv, BudgetTyped, EntryOK
  <2>4. Account(entries, window.used, Grace)'
    BY <1>2 DEF BudgetInv, Account, Owed, Earned, Grace
  <2> QED
    BY <1>2, <2>3, <2>4 DEF BudgetInv
<1>3. ASSUME NEW w \in Workers, NEW r \in Resources, NEW n \in ChunkSizes \cup {1}, Bud!Read(s, w, r, n)
      PROVE  BudgetInv'
  <2>1. PICK place : place = [stage |-> "charge", worker |-> w, resource |-> r, cost |-> n, now |-> clock]
    OBVIOUS
  <2>2. place \in Bud!Charging /\ place.now = clock
    BY <1>1, <2>1 DEF Bud!Charging
  <2> QED
    BY <1>2, <1>3, <2>1, <2>2 DEF Bud!Read
<1>4. ASSUME NEW w \in Workers, Bud!Request(s, w)
      PROVE  BudgetInv'
  BY <1>3, <1>4 DEF Bud!Request, Bud!ConstantsOK
<1>5. CASE Bud!More(s)
  <2>1. slot[s].stage = "more" /\ slot[s] \in {Bud!Idle} \cup Bud!Charging \cup Bud!Reading
    BY <1>1, <1>5 DEF Bud!More
  <2>2. slot[s].worker \in Workers
    BY <2>1 DEF Bud!Idle, Bud!Charging, Bud!Reading
  <2> QED
    BY <1>3, <1>5, <2>2 DEF Bud!More
<1>6. CASE Bud!Served(s)
  <2>1. Bud!Idle.stage # "charge"
    BY DEF Bud!Idle
  <2> QED
    BY <1>2, <1>6, <2>1 DEF Bud!Served
<1> QED
  BY <1>4, <1>5, <1>6

\* Time passes, and more is earned.
LEMMA TickKeeps ==
  ASSUME Bud!ConstantsOK, BudgetInv, Bud!Tick
  PROVE  BudgetInv'
<1>1. /\ clock \in 0..MaxClock /\ MaxDelay \in Nat /\ MaxClock \in Nat /\ clock < MaxClock
      /\ clock' = clock + 1 /\ entries' = entries /\ slot' = slot /\ window' = window
      /\ window \in WindowRow
  BY SameBudCount DEF BudgetInv, BudgetTyped, Bud!ConstantsOK, Bud!Tick
<1>2. ASSUME NEW e, EntryOK(e, clock)
      PROVE  EntryOK(e, clock')
  <2>1. e \in EntryRow /\ e.seen \in 0..MaxClock /\ e.seen <= clock
        /\ \A r \in Resources : e.bucket[r] \in BucketRow
    BY <1>2 DEF EntryOK, EntryRow, Bud!Buckets, BucketRow
  <2>2. \A r \in Resources : e.bucket[r].last \in 0..MaxClock
    BY <2>1 DEF BucketRow
  <2> QED
    BY <1>1, <1>2, <2>1, <2>2 DEF EntryOK
<1>3. \A s \in Slots : slot[s].stage = "charge" =>
        slot[s].now <= clock' /\ clock' <= slot[s].now + MaxDelay
  <2>1. ASSUME NEW s \in Slots, slot[s].stage = "charge"
        PROVE  slot[s].now <= clock' /\ clock' <= slot[s].now + MaxDelay
    <3>1. slot[s].now \in 0..MaxClock /\ slot[s].now <= clock
      BY <2>1, ChargeFacts
    <3>2. clock - slot[s].now < MaxDelay
      BY <2>1 DEF Bud!Tick
    <3> QED
      BY <1>1, <3>1, <3>2
  <2> QED
    BY <2>1
<1>4. BudgetTyped'
  <2>1. clock' \in 0..MaxClock
    BY <1>1
  <2>2. \A w \in DOMAIN entries' : EntryOK(entries'[w], clock')
    BY <1>1, <1>2 DEF BudgetInv, BudgetTyped
  <2> QED
    BY <1>1, <1>3, <2>1, <2>2 DEF BudgetInv, BudgetTyped, EntryOK
<1>5. Account(entries, window.used, Grace)'
  <2>1. PICK w, r, u, st, g : /\ w = window.worker /\ r = window.resource /\ u = window.used
                              /\ st = window.start /\ g = Grace
    OBVIOUS
  <2>2. r \in Resources /\ u \in Nat /\ st \in 0..MaxClock /\ g \in Nat /\ Rate[r] \in Nat
    BY <1>1, <2>1, GraceFacts DEF WindowRow, Bud!ConstantsOK
  <2>3. ASSUME Earned(r, u, st, g, clock)
        PROVE  Earned(r, u, st, g, clock')
    <3>1. PICK x, y : x = clock - st + g - MaxDelay /\ y = clock' - st + g - MaxDelay
      OBVIOUS
    <3>2. x \in Int /\ y \in Int /\ x <= y
      BY <1>1, <2>2, <3>1
    <3>3. Rate[r] * x <= Rate[r] * y /\ Rate[r] * x \in Int /\ Rate[r] * y \in Int
      BY <2>2, <3>2, Spans
    <3> QED
      BY <2>2, <2>3, <3>1, <3>3 DEF Earned
  <2>4. Grace' = g /\ window' = window /\ entries' = entries
    BY <1>1, <2>1 DEF Grace
  <2>5. /\ w \in DOMAIN entries => Owed(entries[w].bucket[r], r, u, st, g)
        /\ w \notin DOMAIN entries => Earned(r, u, st, g, clock')
    BY <2>1, <2>3 DEF BudgetInv, Account
  <2> QED
    BY <2>1, <2>4, <2>5 DEF Account, Owed, Earned
<1>6. clock' < window'.start => window'.used = 0
  BY <1>1 DEF BudgetInv, WindowRow
<1> QED
  BY <1>4, <1>5, <1>6 DEF BudgetInv

\* For any number of workers and requests, every configuration that validate accepts and any
\* times out of order: from any moment on a worker is admitted no more than one burst and what
\* it has earned since, a late charge's seconds beforehand and once more for every time its
\* full entry was reclaimed in between; and the table keeps to max_workers (request_budget.rs).
THEOREM BudgetsHold == Bud!ConstantsOK => (Bud!Spec => [](Bud!TypeOK /\ Bud!WindowBounded))
<1> SUFFICES ASSUME Bud!ConstantsOK
             PROVE  Bud!Spec => [](Bud!TypeOK /\ Bud!WindowBounded)
  OBVIOUS
<1>1. BudgetInv /\ [Bud!Next]_(Bud!vars) => BudgetInv'
  <2> SUFFICES ASSUME BudgetInv, [Bud!Next]_(Bud!vars)
               PROVE  BudgetInv'
    OBVIOUS
  <2>1. ASSUME NEW s \in Slots, (\E w \in Workers : Bud!Request(s, w)) \/ Bud!More(s) \/ Bud!Served(s)
        PROVE  BudgetInv'
    BY <2>1, SlotKeeps
  <2>2. ASSUME NEW s \in Slots, Bud!Charge(s)
        PROVE  BudgetInv'
    BY <2>2, ChargeKeeps
  <2>3. CASE UNCHANGED Bud!vars
    BY <2>3 DEF Bud!vars, BudgetInv, BudgetTyped, EntryOK, Account, Owed, Earned, Grace
  <2> QED
    BY <2>1, <2>2, <2>3, TickKeeps DEF Bud!Next
<1> QED
  BY <1>1, BudgetInitial, BudgetImplied, PTL DEF Bud!Spec

(***************************************************************************)
(* The components together                                                  *)
(***************************************************************************)
\* A step of the server's modules is a step of each of them or leaves it alone.
LEMMA ServerStep ==
  ASSUME [RunNext \/ Rest]_runVars
  PROVE  /\ [Registering!Next]_(Registering!vars) /\ [Dir!Next]_(Dir!vars)
         /\ [Upgrading!Next]_(Upgrading!vars)
<1>1. CASE UNCHANGED runVars
  BY <1>1 DEF runVars, registryVars, dirVars, upgradeVars, Registering!vars, Dir!vars,
              Upgrading!vars
<1>2. ASSUME NEW p \in {"reports", "registry", "budget", "dir", "upgrade"}, Others(p)
      PROVE  /\ p # "registry" => UNCHANGED Registering!vars
             /\ p # "dir" => UNCHANGED Dir!vars
             /\ p # "upgrade" => UNCHANGED Upgrading!vars
  BY <1>2 DEF Others, registryVars, dirVars, upgradeVars, Registering!vars, Dir!vars,
              Upgrading!vars
<1> QED
  BY <1>1, <1>2 DEF RunNext, Rest

\* Whichever component runs beside the others, each one's state goes through a behaviour of
\* its own specification.
THEOREM ServerComposes == RunSpec => Registering!Spec /\ Dir!Spec /\ Upgrading!Spec
<1>1. RunInit => Registering!Init /\ Dir!Init /\ Upgrading!Init
  BY DEF RunInit
<1>2. [RunNext \/ Rest]_runVars => /\ [Registering!Next]_(Registering!vars)
                                   /\ [Dir!Next]_(Dir!vars)
                                   /\ [Upgrading!Next]_(Upgrading!vars)
  BY ServerStep
<1> QED
  BY <1>1, <1>2, PTL DEF RunSpec, Registering!Spec, Dir!Spec, Upgrading!Spec

\* Every repository has the credential it reports with, for itself (repos.rs and
\* routes/repos.rs), for any number of repositories, secrets, Apps and requests.
THEOREM ServerCredentials == Registering!ConstantsOK => (RunSpec => []CredentialsSound)
BY ServerComposes, CredentialsAreSound, PTL DEF CredentialsSound

\* An init that succeeded leaves a usable directory, and a server runs on one init's files
\* (init.rs), for any number of runs of init and serve.
THEOREM ServerBundles == Dir!ConstantsOK => (RunSpec => []BundleSound)
BY ServerComposes, DirectoryIsUsable, PTL DEF BundleSound

\* Each migration is applied once, and the database is served as it asks (migrations.rs),
\* for any number of processes and jobs and any set of builds.
THEOREM ServerUpgrades == Upgrading!ConstantsOK => (RunSpec => []UpgradeSound)
BY ServerComposes, UpgradesAreSound, PTL DEF UpgradeSound

\* What an init or an upgrade finds on disk it does not destroy (init.rs, migrations.rs).
THEOREM ServerKeepsStored ==
  Dir!ConstantsOK /\ Upgrading!ConstantsOK => (RunSpec => StoredIsKept)
<1> SUFFICES ASSUME Dir!ConstantsOK, Upgrading!ConstantsOK
             PROVE  RunSpec => StoredIsKept
  OBVIOUS
<1>1. Dir!vars = dirVars /\ Upgrading!vars = upgradeVars
  BY DEF Dir!vars, dirVars, Upgrading!vars, upgradeVars
<1> QED
  BY <1>1, ServerComposes, FilesWrittenOnce, UpgradesKeepJobs, PTL
     DEF StoredIsKept, WrittenOnce, WritersCurrent, UpgradeKeepsJobs, Dir!WrittenOnce,
         Upgrading!WritersCurrent, Upgrading!UpgradeKeepsJobs, Dir!vars, dirVars,
         Upgrading!vars, upgradeVars

=============================================================================
