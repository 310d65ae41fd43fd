------------------------------ MODULE DataDir ------------------------------
(***************************************************************************)
(* `loupe-server init` and `loupe-server serve` on one data directory:      *)
(* which certificates, keys and database a later serve finds when an init   *)
(* is killed half way, is run again, or runs twice at once.  A minted CA,   *)
(* its certificates and a minted master key are named after the init that   *)
(* minted them; the database is what the files seal, its upgrade is in       *)
(* module Upgrade.                                                          *)
(***************************************************************************)
EXTENDS Naturals, Sequences, FiniteSets

CONSTANTS
  Inits,      \* runs of init
  Servers     \* runs of serve

VARIABLES
  files,      \* what each file holds: the init that wrote it, a part of that, or nothing
  db,         \* the key the database is sealed under, its schema, the admins it knows
  init,       \* each run of init: its step, how it was called, what it found
  server      \* each run of serve: its step and what it has loaded

vars == <<files, db, init, server>>

Absent == "absent"
Part == "part"
Operator == "operator"   \* the key in LOUPE_MASTER_KEY

\* An init's name is none of the other things a file may hold or a database be sealed with.
ConstantsOK == Inits \cap {Absent, Part, Operator} = {}

\* The files in the order they are written; the master key only when init mints it.
Bundle == <<"ca_cert", "ca_key", "server_cert", "server_key", "admin_cert", "admin_key",
            "master_key">>
Names == {Bundle[k] : k \in 1..Len(Bundle)}

\* The directory is empty, or someone has moved all but the admin's key away.
Init ==
  /\ \E left \in SUBSET {"admin_key"} :
       files = [f \in Names \cup {"db"} |-> IF f \in left THEN Part ELSE Absent]
  /\ db = [key |-> Absent, schema |-> FALSE, admins |-> {}]
  /\ init = [i \in Inits |-> [pc |-> "new", n |-> 1, persist |-> FALSE, caller |-> FALSE,
                              found |-> {}]]
  /\ server = [s \in Servers |-> [pc |-> "new", ca |-> Absent, cert |-> Absent, key |-> Absent]]

Exists(f) == files[f] # Absent

(***************************************************************************)
(* init                                                                     *)
(***************************************************************************)
\* DataDirLayout::any_exists does not look at the admin's key.
Checked == (Names \ {"admin_key"}) \cup {"db"}

\* The check; then the CA and the certificates are minted in memory.
Start(i, persist, caller) ==
  /\ init[i].pc = "new"
  /\ init' = [init EXCEPT ![i] =
       [pc |-> IF \E f \in Checked : Exists(f) THEN "failed"
               ELSE IF persist THEN "write" ELSE "open",
        n |-> 1, persist |-> persist, caller |-> caller,
        found |-> {f \in DOMAIN files : Exists(f)}]]
  /\ UNCHANGED <<files, db, server>>

File(i) == Bundle[init[i].n]
Last(i) == IF init[i].caller THEN Len(Bundle) - 1 ELSE Len(Bundle)

\* Fault: create, not create_new: a file that is there is written over.
CreateOver(i) ==
  /\ init[i].pc = "write"
  /\ files' = [files EXCEPT ![File(i)] = Part]
  /\ init' = [init EXCEPT ![i].pc = "fill"]
  /\ UNCHANGED <<db, server>>

\* Fault: a file that is there is taken for written.
CreateSkips(i) ==
  /\ init[i].pc = "write"
  /\ IF Exists(File(i))
     THEN /\ init' = [init EXCEPT ![i].pc = IF init[i].n = Last(i) THEN "open" ELSE @,
                                  ![i].n = IF init[i].n = Last(i) THEN @ ELSE @ + 1]
          /\ UNCHANGED files
     ELSE /\ files' = [files EXCEPT ![File(i)] = Part]
          /\ init' = [init EXCEPT ![i].pc = "fill"]
  /\ UNCHANGED <<db, server>>

\* write_secret creates the file or fails, then writes it: the Unix build.  Elsewhere the
\* file is opened with File::create, which writes over the one that is there (CreateOver).
Create(i) ==
  /\ init[i].pc = "write"
  /\ IF Exists(File(i))
     THEN /\ init' = [init EXCEPT ![i].pc = "failed"]
          /\ UNCHANGED files
     ELSE /\ files' = [files EXCEPT ![File(i)] = Part]
          /\ init' = [init EXCEPT ![i].pc = "fill"]
  /\ UNCHANGED <<db, server>>

Fill(i) ==
  /\ init[i].pc = "fill"
  /\ files' = [files EXCEPT ![File(i)] = i]
  /\ init' = [init EXCEPT ![i].pc = IF init[i].n = Last(i) THEN "open" ELSE "write",
                          ![i].n = IF init[i].n = Last(i) THEN init[i].n ELSE init[i].n + 1]
  /\ UNCHANGED <<db, server>>

MasterKey(i) == IF init[i].caller THEN Operator ELSE i

\* A connection's first pragmas seal an empty database; a sealed one opens with its own key
\* only.  The migrations then commit at once.
Opens(key) == db.key \in {Absent, key}
Opened(key) == [db EXCEPT !.key = key]

OpenDb(i) ==
  /\ init[i].pc = "open"
  /\ files' = [files EXCEPT !["db"] = IF Exists("db") THEN @ ELSE i]
  /\ IF Opens(MasterKey(i))
     THEN /\ db' = Opened(MasterKey(i))
          /\ init' = [init EXCEPT ![i].pc = "migrate"]
     ELSE /\ init' = [init EXCEPT ![i].pc = "failed"]
          /\ UNCHANGED db
  /\ UNCHANGED server

MigrateDb(i) ==
  /\ init[i].pc = "migrate"
  /\ db' = [db EXCEPT !.schema = TRUE]
  /\ init' = [init EXCEPT ![i].pc = "register"]
  /\ UNCHANGED <<files, server>>

\* The workers table has one row named admin.  Then the bundle is printed, once.
RegisterAdmin(i) ==
  /\ init[i].pc = "register"
  /\ IF db.admins = {}
     THEN /\ db' = [db EXCEPT !.admins = {i}]
          /\ init' = [init EXCEPT ![i].pc = "done"]
     ELSE /\ init' = [init EXCEPT ![i].pc = "failed"]
          /\ UNCHANGED db
  /\ UNCHANGED <<files, server>>

\* A write fails, or the process is killed: what it wrote stays.
InitDies(i) ==
  /\ init[i].pc \notin {"new", "failed", "done"}
  /\ init' = [init EXCEPT ![i].pc = "failed"]
  /\ UNCHANGED <<files, db, server>>

(***************************************************************************)
(* serve                                                                    *)
(***************************************************************************)
Whole(f) == files[f] \in Inits

\* The certificates come from the files and the key from the environment or its file; the
\* CA's certificate and key have to match.
Load(s, env) ==
  /\ server[s].pc = "new"
  /\ \A f \in {"ca_cert", "ca_key", "server_cert", "server_key"} : Whole(f)
  /\ files["ca_cert"] = files["ca_key"]
  /\ env \/ Whole("master_key")
  /\ server' = [server EXCEPT ![s] =
       [pc |-> "loaded", ca |-> files["ca_cert"], cert |-> files["server_cert"],
        key |-> IF env THEN Operator ELSE files["master_key"]]]
  /\ UNCHANGED <<files, db, init>>

\* Everything comes from what a finished init printed.
LoadPrinted(s, i) ==
  /\ server[s].pc = "new"
  /\ init[i].pc = "done"
  /\ server' = [server EXCEPT ![s] =
       [pc |-> "loaded", ca |-> i, cert |-> i, key |-> MasterKey(i)]]
  /\ UNCHANGED <<files, db, init>>

OpenServed(s) ==
  /\ server[s].pc = "loaded"
  /\ Opens(server[s].key)
  /\ db' = [Opened(server[s].key) EXCEPT !.schema = TRUE]
  /\ files' = [files EXCEPT !["db"] = IF Exists("db") THEN @ ELSE server[s].ca]
  /\ server' = [server EXCEPT ![s].pc = "serving"]
  /\ UNCHANGED init

ServeEnds(s) ==
  /\ server[s].pc # "new"
  /\ server' = [server EXCEPT ![s] = [pc |-> "new", ca |-> Absent, cert |-> Absent,
                                       key |-> Absent]]
  /\ UNCHANGED <<files, db, init>>

Next ==
  \/ \E i \in Inits :
       \/ \E persist, caller \in BOOLEAN : Start(i, persist, caller)
       \/ Create(i) \/ Fill(i) \/ OpenDb(i) \/ MigrateDb(i) \/ RegisterAdmin(i) \/ InitDies(i)
  \/ \E s \in Servers :
       \/ \E env \in BOOLEAN : Load(s, env)
       \/ \E i \in Inits : LoadPrinted(s, i)
       \/ OpenServed(s) \/ ServeEnds(s)

Spec == Init /\ [][Next]_vars

(***************************************************************************)
(* Properties                                                               *)
(***************************************************************************)
\* The files, the database and the processes keep their types; a schema is sealed.
TypeOK ==
  /\ files \in [Names \cup {"db"} -> Inits \cup {Absent, Part}]
  /\ db.key \in Inits \cup {Absent, Operator}
  /\ db.schema => db.key # Absent
  /\ db.admins \subseteq Inits /\ Cardinality(db.admins) <= 1
  /\ \A i \in Inits :
       /\ init[i].pc \in {"new", "write", "fill", "open", "migrate", "register", "done", "failed"}
       /\ init[i].n \in 1..Last(i)
  /\ \A s \in Servers : server[s].pc \in {"new", "loaded", "serving"}

\* What a successful init leaves stays usable, whatever other runs of init and serve do and
\* wherever they die: its files are whole and its own, the database opens with its key, and
\* its admin is the one the database knows.
DoneIsUsable ==
  \A i \in Inits : init[i].pc = "done" =>
    /\ init[i].persist => \A k \in 1..Last(i) : files[Bundle[k]] = i
    /\ db.key = MasterKey(i)
    /\ db.schema /\ db.admins = {i}

\* What one step keeps of WrittenOnce.
WrittenOnceStep ==
  \A f \in Names : Whole(f) => files'[f] = files[f]

\* A file of the bundle, once written, is never written again.
WrittenOnce == [][WrittenOnceStep]_vars

\* A server that serves has one init's CA and certificate.
ServesOneBundle ==
  \A s \in Servers : server[s].pc # "new" => server[s].ca = server[s].cert

\* Whatever inits run beside each other or are killed, success means a usable directory
\* and a server runs on the files of one init (init.rs).
BundleSound == TypeOK /\ DoneIsUsable /\ ServesOneBundle

=============================================================================
