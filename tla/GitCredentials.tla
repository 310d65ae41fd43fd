--------------------------- MODULE GitCredentials ---------------------------
(***************************************************************************)
(* One Git operation of the repository cache and its credential: the         *)
(* worker validates the destination, opens a private socket behind which a   *)
(* thread holds the token, asks Git what the destination's URL really is     *)
(* under the host's configuration, and runs Git pinned to that.  Git starts  *)
(* helper processes that ask the thread over the socket; every wait has a    *)
(* deadline.  Git, its configuration and the helpers' clients are external   *)
(* and may do anything the protocol lets them.                               *)
(***************************************************************************)
EXTENDS Naturals, Sequences

CONSTANTS
  Urls,              \* destinations: what a URL's host, port and path amount to
  Https,             \* those reached over HTTPS
  Malformed,         \* those that userinfo, an escape or a dot segment makes ambiguous
  Helpers,           \* helper processes
  ConnectionLimit    \* connections the thread serves (16 in the code)

Nothing == "none"

ConstantsOK ==
  /\ Https \subseteq Urls /\ Malformed \subseteq Urls /\ ConnectionLimit \in Nat
  /\ Nothing \notin Helpers

VARIABLES
  url,          \* the lease's repository
  token,        \* whether the lease carries a token, and a usable one: "none", "ok", "bad"
  op,           \* the operation's step
  rewritten,    \* what the host's Git configuration makes of the URL now
  effective,    \* what Git's projection answered
  child,        \* the projection process: none, running, answered, reaped
  contacts,     \* the destination the Git command talks to
  stop,         \* the session's flag
  thread,       \* the credential thread: none, accept, read, ended
  conn,         \* the helper it serves
  served,       \* connections so far
  backlog,      \* helpers that wait to be accepted
  helper        \* each helper: its step, what it asks for, its answer

vars == <<url, token, op, rewritten, effective, child, contacts, stop, thread, conn, served,
          backlog, helper>>

Idle == [pc |-> "none", asks |-> Nothing, answer |-> Nothing]

Init ==
  /\ url \in Urls
  /\ token \in {"none", "ok", "bad"}
  /\ op = "new"
  /\ rewritten \in Urls
  /\ effective = Nothing /\ child = "none" /\ contacts = Nothing
  /\ stop = FALSE
  /\ thread = "none" /\ conn = Nothing /\ served = 0 /\ backlog = <<>>
  /\ helper = [h \in Helpers |-> Idle]

session == <<stop, thread, conn, served, backlog>>

(***************************************************************************)
(* The worker                                                               *)
(***************************************************************************)
\* Destination::parse, and of a token: HTTPS, bounded, one line.
Acceptable(u, t) == u \notin Malformed /\ (t # "none" => u \in Https /\ t = "ok")

\* Of a token, the helper's path too must be one, and the session's socket open.
New(ready) ==
  /\ op = "new"
  /\ op' = CASE ~ Acceptable(url, token) -> "failed"
             [] token = "none" -> "run"
             [] OTHER -> IF ready THEN "project" ELSE "failed"
  /\ thread' = IF op' = "project" THEN "accept" ELSE thread
  /\ UNCHANGED <<url, token, rewritten, effective, child, contacts, stop, conn, served, backlog, helper>>

\* effective_url starts Git without a helper to resolve the URL.
Project ==
  /\ op = "project"
  /\ child' = "running"
  /\ op' = "projecting"
  /\ UNCHANGED <<url, token, rewritten, effective, contacts, helper, session>>

\* Git's answer arrives on the pipe.
Projected ==
  /\ op = "projecting" /\ child = "running"
  /\ effective' = rewritten
  /\ child' = "answered"
  /\ UNCHANGED <<url, token, op, rewritten, contacts, helper, session>>

\* validate_projection
Unambiguous(u) == u \notin Malformed

\* The child ends and its answer is validated, or it is killed and reaped at the deadline.
ProjectEnds ==
  /\ op = "projecting"
  /\ child' = "reaped"
  /\ \/ child = "answered" /\ op' = IF Unambiguous(effective) THEN "run" ELSE "drop"
     \/ op' = "drop"
  /\ UNCHANGED <<url, token, rewritten, effective, contacts, helper, session>>

\* With a session Git is given an alias no inherited rule can match better, and the rule that
\* turns it into the projected URL; without one, the URL itself.
Pinned == IF token = "none" THEN rewritten ELSE effective

RunGit ==
  /\ op = "run"
  /\ contacts' = Pinned
  /\ op' = "git"
  /\ UNCHANGED <<url, token, rewritten, effective, child, helper, session>>

\* Git waits for its helpers.
GitEnds ==
  /\ op = "git"
  /\ \A h \in Helpers : helper[h].pc \in {"none", "ended"}
  /\ op' = "drop"
  /\ UNCHANGED <<url, token, rewritten, effective, child, contacts, helper, session>>

\* Session::drop raises the flag and joins the thread; then the directory goes.
Drop ==
  /\ op = "drop"
  /\ stop' = TRUE
  /\ op' = IF thread \in {"none", "ended"} THEN "ended" ELSE "drop"
  /\ UNCHANGED <<url, token, rewritten, effective, child, contacts, thread, conn, served, backlog, helper>>

(***************************************************************************)
(* The credential thread                                                    *)
(***************************************************************************)
Accept ==
  /\ thread = "accept" /\ ~ stop /\ served < ConnectionLimit
  /\ backlog # <<>>
  /\ conn' = Head(backlog) /\ backlog' = Tail(backlog)
  /\ served' = served + 1
  /\ thread' = "read"
  /\ UNCHANGED <<url, token, op, rewritten, effective, child, contacts, stop, helper>>

\* The loop's condition, or an error of accept; the connections that wait are closed.
ThreadEnds ==
  /\ thread = "accept"
  /\ thread' = "ended"
  /\ backlog' = <<>>
  /\ helper' = [h \in Helpers |->
       IF \E i \in DOMAIN backlog : backlog[i] = h
       THEN [helper[h] EXCEPT !.pc = IF @ = "ended" THEN @ ELSE "closed"] ELSE helper[h]]
  /\ UNCHANGED <<url, token, op, rewritten, effective, child, contacts, stop, conn, served>>

\* Fault: the host alone decides.
MatchesHost(u) == u \in Https

\* Destination::matches: protocol, host, port and path.
Matches(u) == u = url

Answer(answer) ==
  /\ thread' = "accept"
  /\ helper' = [helper EXCEPT ![conn].answer = IF @ = Nothing THEN answer ELSE @,
                              ![conn].pc = IF @ = "ended" THEN @ ELSE "answered"]
  /\ conn' = Nothing
  /\ UNCHANGED <<url, token, op, rewritten, effective, child, contacts, stop, served, backlog>>

Reply ==
  /\ thread = "read"
  /\ helper[conn].pc = "written"
  /\ Answer(IF Matches(helper[conn].asks) THEN "token" ELSE "quit")

\* The request is late, incomplete or malformed, or its client has gone.
ReplyQuit ==
  /\ thread = "read"
  /\ Answer("quit")

(***************************************************************************)
(* A helper process                                                         *)
(***************************************************************************)
\* Git starts it for a request of any kind; the destination is Git's to say.
HelperStarts(h, u) ==
  /\ op = "git" /\ token # "none"
  /\ helper[h].pc = "none"
  /\ helper' = [helper EXCEPT ![h].pc = "asked", ![h].asks = u]
  /\ UNCHANGED <<url, token, op, rewritten, effective, child, contacts, session>>

\* store and erase answer nothing.
HelperIgnores(h) ==
  /\ helper[h].pc = "asked"
  /\ helper' = [helper EXCEPT ![h].pc = "ended"]
  /\ UNCHANGED <<url, token, op, rewritten, effective, child, contacts, session>>

Connect(h) ==
  /\ helper[h].pc = "asked"
  /\ \/ /\ thread \in {"accept", "read"}
        /\ backlog' = Append(backlog, h)
        /\ helper' = [helper EXCEPT ![h].pc = "connected"]
     \/ /\ helper' = [helper EXCEPT ![h].pc = "closed"]
        /\ UNCHANGED backlog
  /\ UNCHANGED <<url, token, op, rewritten, effective, child, contacts, stop, thread, conn, served>>

HelperWrites(h) ==
  /\ helper[h].pc = "connected"
  /\ helper' = [helper EXCEPT ![h].pc = "written"]
  /\ UNCHANGED <<url, token, op, rewritten, effective, child, contacts, session>>

\* The answer is handed to Git; after an error or at the deadline, quit is.
HelperEnds(h) ==
  /\ helper[h].pc \in {"answered", "closed", "connected", "written"}
  /\ helper' = [helper EXCEPT ![h].pc = "ended", ![h].answer = IF @ = Nothing THEN "quit" ELSE @]
  /\ UNCHANGED <<url, token, op, rewritten, effective, child, contacts, session>>

\* Someone edits the host's configuration, or clone creates the repository's.
Reconfigure(u) ==
  /\ op # "ended"
  /\ rewritten' = u
  /\ UNCHANGED <<url, token, op, effective, child, contacts, helper, session>>

Ended == op \in {"ended", "failed"} /\ UNCHANGED vars

Worker == (\E ready \in BOOLEAN : New(ready)) \/ Project \/ ProjectEnds \/ RunGit \/ GitEnds \/ Drop
Thread == Accept \/ ThreadEnds \/ Reply \/ ReplyQuit
Help(h) == HelperIgnores(h) \/ Connect(h) \/ HelperWrites(h) \/ HelperEnds(h)

Next ==
  \/ Worker \/ Thread \/ Projected \/ Ended
  \/ \E h \in Helpers : Help(h) \/ \E u \in Urls : HelperStarts(h, u)
  \/ \E u \in Urls : Reconfigure(u)

Spec == Init /\ [][Next]_vars

\* Every wait of the worker, the thread and a helper has a deadline.  Git has none: nothing
\* is assumed of GitEnds.
FairSpec ==
  /\ Spec
  /\ WF_vars((\E ready \in BOOLEAN : New(ready)) \/ Project \/ ProjectEnds \/ RunGit \/ Drop)
  /\ WF_vars(Accept) /\ WF_vars(Reply \/ ReplyQuit)
  /\ WF_vars((stop \/ served = ConnectionLimit) /\ ThreadEnds)
  /\ \A h \in Helpers : WF_vars(Help(h))

(***************************************************************************)
(* Properties                                                               *)
(***************************************************************************)
\* Types; the thread exists only for a token that was accepted.
TypeOK ==
  /\ op \in {"new", "project", "projecting", "run", "git", "drop", "ended", "failed"}
  /\ effective \in Urls \cup {Nothing} /\ contacts \in Urls \cup {Nothing}
  /\ child \in {"none", "running", "answered", "reaped"}
  /\ thread \in {"none", "accept", "read", "ended"}
  /\ thread # "none" => token = "ok"
  /\ thread = "read" <=> conn \in Helpers
  /\ served \in 0..ConnectionLimit

\* The token is told to nobody who does not ask for the repository it was issued for, and
\* never for a destination without TLS, whatever the configuration turns the URL into.
TokenForItsRepository ==
  \A h \in Helpers : helper[h].answer = "token" => helper[h].asks = url /\ url \in Https

\* Git, with the helper installed, talks to the destination that was projected and
\* validated, whatever the configuration became since.
ContactsWhatWasChecked ==
  op = "git" /\ token # "none" => contacts = effective /\ contacts \notin Malformed

\* Nothing of the operation outlives it: the thread that holds the token has ended and the
\* projection's process is reaped.
NothingOutlives ==
  op \in {"ended", "failed"} => thread \in {"none", "ended"} /\ child \in {"none", "reaped"}

\* The token is told for its own repository only, to the destination that was checked,
\* and nothing of it outlives the operation (git_credentials.rs).
CredentialSafe ==
  /\ TypeOK /\ TokenForItsRepository /\ ContactsWhatWasChecked /\ NothingOutlives

\* What one step keeps of AnsweredOrQuit.
AnsweredOrQuitStep ==
  \A h \in Helpers : helper'[h].pc = "ended" /\ helper[h].pc \notin {"ended", "asked"}
    => helper'[h].answer # Nothing

\* Git is never left to ask elsewhere: a helper that was asked for a credential and has
\* ended gave the token or told Git to quit, unless it was asked to store or erase one.
AnsweredOrQuit == [][AnsweredOrQuitStep]_vars

\* No connection, however slow or silent, holds Git, which waits for its helper, or the
\* operation, whose end waits for the thread.
OperationEnds ==
  /\ \A h \in Helpers : helper[h].pc = "asked" ~> helper[h].pc = "ended"
  /\ op = "project" ~> op \in {"git", "ended"}
  /\ op = "drop" ~> op = "ended"
=============================================================================
