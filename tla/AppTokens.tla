----------------------------- MODULE AppTokens ------------------------------
(***************************************************************************)
(* Filing one issue through the GitHub App: the server-wide cache of        *)
(* installation tokens, its lock, which is held across the mint, and the    *)
(* dispatches that share it.  Each dispatch takes a token, creates the      *)
(* label and then the issue; on a 401 it drops the cached token, takes      *)
(* another and posts once more.  GitHub may reject a token at any time, and *)
(* a dispatch dies with the request handler that awaits it.                 *)
(***************************************************************************)
EXTENDS Naturals, Sequences

CONSTANTS
  Dispatches,    \* request handlers that may be dispatching at once
  Keys,          \* (app id, owner, repository): what a token is cached under
  None,
  CacheSecs,     \* TOKEN_CACHE_SECS
  MaxTime,       \* bound on the clock
  MaxTokens      \* bound on the tokens GitHub mints

ConstantsOK ==
  /\ {CacheSecs, MaxTime, MaxTokens} \subseteq Nat
  /\ None \notin Keys \cup Dispatches

VARIABLES
  clock,
  cache,     \* key -> the cached token (0 for none) and its expiry
  lock,      \* the dispatch that holds the cache's lock across a mint
  session,   \* what each dispatch is doing
  github,    \* external: the tokens minted, in order: their key, the time their
             \* dispatch read and whether they reached the cache and stayed
  rejected   \* external: tokens GitHub answers with 401

vars == <<clock, cache, lock, session, github, rejected>>

Tokens == 1..MaxTokens
NoEntry == [token |-> 0, expires |-> 0]

\* now: the clock as token_for read it; post: the request under way;
\* again: the request is the second after a 401; mints: tokens minted so far;
\* since: auxiliary, how many tokens existed when the 401 came.
Idle == [pc |-> "idle", key |-> None, now |-> 0, token |-> 0, post |-> "label",
         again |-> FALSE, mints |-> 0, since |-> 0]

Init ==
  /\ clock = 0
  /\ cache = [k \in Keys |-> NoEntry]
  /\ lock = None
  /\ session = [d \in Dispatches |-> Idle]
  /\ github = <<>>
  /\ rejected = {}

At(d, pc) == session[d].pc = pc

Free == lock = None

Finish(d) == session' = [session EXCEPT ![d] = Idle]

---------------------------------------------------------------------------
(* InstallationTokens.                                                      *)

\* deliver asks for its bearer: token_for reads the clock, then waits.
Begin(d, k) ==
  /\ At(d, "idle")
  /\ session' = [session EXCEPT ![d] = [Idle EXCEPT !.pc = "want", !.key = k, !.now = clock]]
  /\ UNCHANGED <<clock, cache, lock, github, rejected>>

\* cache_key: the app id and the target of this dispatch.
CacheKey(d) == session[d].key

Cached(d) == cache[CacheKey(d)]

\* The lock is free and the cached token has not reached its expiry.
TakeCached(d) ==
  /\ At(d, "want")
  /\ Free
  /\ Cached(d).expires > session[d].now
  /\ session' = [session EXCEPT ![d] = [@ EXCEPT !.pc = "post", !.token = Cached(d).token,
                                                 !.now = 0]]
  /\ UNCHANGED <<clock, cache, lock, github, rejected>>

\* No such token: look up the installation and mint, holding the lock.
Lookup(d) ==
  /\ At(d, "want")
  /\ Free
  /\ Cached(d).expires <= session[d].now
  /\ lock' = d
  /\ session' = [session EXCEPT ![d] = [@ EXCEPT !.pc = "mint"]]
  /\ UNCHANGED <<clock, cache, github, rejected>>

\* External: GitHub mints the token; its answer is on the way.
GithubMints(d) ==
  /\ At(d, "mint")
  /\ Len(github) < MaxTokens
  /\ github' = Append(github, [key |-> session[d].key, now |-> session[d].now, shared |-> FALSE])
  /\ session' = [session EXCEPT ![d] = [@ EXCEPT !.pc = "minted", !.token = Len(github) + 1,
                                                 !.mints = session[d].mints + 1]]
  /\ UNCHANGED <<clock, cache, lock, rejected>>

\* The answer arrives: the token is cached from the time the dispatch read
\* before it waited, and the lock released.
StoreToken(d) ==
  /\ At(d, "minted")
  /\ cache' = [cache EXCEPT ![CacheKey(d)] =
                 [token |-> session[d].token, expires |-> session[d].now + CacheSecs]]
  /\ github' = [github EXCEPT ![session[d].token] = [@ EXCEPT !.shared = TRUE]]
  /\ lock' = IF lock = d THEN None ELSE lock
  /\ session' = [session EXCEPT ![d] = [@ EXCEPT !.pc = "post", !.now = 0]]
  /\ UNCHANGED <<clock, rejected>>

\* The lookup or the mint fails, or the client's timeout ends it; the guard
\* releases the lock and the dispatch fails.
MintFails(d) ==
  /\ session[d].pc \in {"mint", "minted"}
  /\ lock' = IF lock = d THEN None ELSE lock
  /\ Finish(d)
  /\ UNCHANGED <<clock, cache, github, rejected>>

\* Fault: the invalidation does not wait for a mint under way.
InvalidateUnlocked(d) ==
  /\ At(d, "drop")
  /\ cache' = [cache EXCEPT ![CacheKey(d)] = NoEntry]
  /\ github' = [t \in DOMAIN github |->
                  IF t = Cached(d).token THEN [github[t] EXCEPT !.shared = FALSE] ELSE github[t]]
  /\ session' = [session EXCEPT ![d] = [@ EXCEPT !.pc = "want", !.now = clock, !.token = 0]]
  /\ UNCHANGED <<clock, lock, rejected>>

\* Forget the cached token, whichever it is, and ask for another.
Invalidate(d) ==
  /\ At(d, "drop")
  /\ Free
  /\ cache' = [cache EXCEPT ![CacheKey(d)] = NoEntry]
  /\ github' = [t \in DOMAIN github |->
                  IF t = Cached(d).token THEN [github[t] EXCEPT !.shared = FALSE] ELSE github[t]]
  /\ session' = [session EXCEPT ![d] = [@ EXCEPT !.pc = "want", !.now = clock, !.token = 0]]
  /\ UNCHANGED <<clock, lock, rejected>>

---------------------------------------------------------------------------
(* post_with_refresh, for the label and then for the issue.                 *)

Accepted(d) ==
  /\ At(d, "post")
  /\ session[d].token \notin rejected
  /\ IF session[d].post = "label"
     THEN session' = [session EXCEPT ![d] = [@ EXCEPT !.post = "issue", !.again = FALSE,
                                                      !.since = 0]]
     ELSE Finish(d)
  /\ UNCHANGED <<clock, cache, lock, github, rejected>>

Unauthorized(d) ==
  /\ At(d, "post")
  /\ session[d].token \in rejected
  /\ ~session[d].again
  /\ session' = [session EXCEPT ![d] = [@ EXCEPT !.pc = "drop", !.again = TRUE,
                                                 !.since = Len(github)]]
  /\ UNCHANGED <<clock, cache, lock, github, rejected>>

\* A second 401, another status, a transport error or the timeout.
PostFails(d) ==
  /\ At(d, "post")
  /\ session[d].token \in rejected => session[d].again
  /\ Finish(d)
  /\ UNCHANGED <<clock, cache, lock, github, rejected>>

\* The client of the route disconnects and its handler is dropped, guard included.
HandlerDropped(d) ==
  /\ ~At(d, "idle")
  /\ lock' = IF lock = d THEN None ELSE lock
  /\ Finish(d)
  /\ UNCHANGED <<clock, cache, github, rejected>>

\* External: a token is revoked, or expires ahead of its cached deadline.
Reject(t) ==
  /\ t \in DOMAIN github \ rejected
  /\ rejected' = rejected \cup {t}
  /\ UNCHANGED <<clock, cache, lock, session, github>>

Tick ==
  /\ clock < MaxTime
  /\ clock' = clock + 1
  /\ UNCHANGED <<cache, lock, session, github, rejected>>

Locking(d) == TakeCached(d) \/ Lookup(d) \/ Invalidate(d)

Answered(d) == StoreToken(d) \/ MintFails(d) \/ Accepted(d) \/ Unauthorized(d) \/ PostFails(d)

Next ==
  \/ \E d \in Dispatches, k \in Keys : Begin(d, k)
  \/ \E d \in Dispatches : Locking(d) \/ GithubMints(d) \/ Answered(d) \/ HandlerDropped(d)
  \/ \E t \in Tokens : Reject(t)
  \/ Tick

Spec == Init /\ [][Next]_vars

\* The client's timeouts end every request, and the lock is handed to its
\* waiters in the order they came; GitHub owes no answer.
FairSpec ==
  /\ Spec
  /\ \A d \in Dispatches : WF_vars(Answered(d)) /\ SF_vars(Locking(d))

---------------------------------------------------------------------------
(* Properties.                                                              *)

\* Every variable keeps its type, and the lock is held by nobody but a dispatch
\* that mints (github_app.rs token_for).
TypeOK ==
  /\ clock \in 0..MaxTime
  /\ cache \in [Keys -> [token : 0..MaxTokens, expires : 0..(MaxTime + CacheSecs)]]
  /\ session \in [Dispatches ->
       [pc : {"idle", "want", "mint", "minted", "post", "drop"}, key : Keys \cup {None},
        now : 0..MaxTime, token : 0..MaxTokens, post : {"label", "issue"}, again : BOOLEAN,
        mints : Nat, since : 0..MaxTokens]]
  /\ github \in Seq([key : Keys, now : 0..MaxTime, shared : BOOLEAN])
  /\ rejected \subseteq Tokens
  /\ lock \in {None} \cup {d \in Dispatches : session[d].pc \in {"mint", "minted"}}

\* The post after a 401 carries a token GitHub minted after that 401, even if
\* another dispatch minted it (github.rs post_with_refresh): the invalidation
\* waits for a mint under way, so no older token can slip in behind it.
RetryIsFresh ==
  \A d \in Dispatches :
     (At(d, "post") /\ session[d].again) => session[d].token > session[d].since

\* A dispatch posts with a token of its own App and target only, also after
\* the operator replaced the App (github_app.rs token_for, cache_key).
TokenIsOwn ==
  \A d \in Dispatches : At(d, "post") => github[session[d].token].key = session[d].key

\* "concurrent dispatches to the same tracker share one token instead of
\* racing to mint several" (github_app.rs InstallationTokens): of two tokens
\* minted one after the other for a key, the first was dropped after a 401,
\* lost with its dispatch or past its cached expiry when the second was asked for.
MintsShared ==
  \A t1, t2 \in DOMAIN github :
     LET key == github[t1].key IN
     (/\ t1 < t2
      /\ github[t2].key = key
      /\ \A t \in (t1 + 1)..(t2 - 1) : github[t].key # key
      /\ github[t1].shared) => github[t2].now >= github[t1].now + CacheSecs

\* Dispatches that share the token cache neither mix up nor multiply its tokens, and the
\* post after a rejection carries a new one (github_app.rs).
TokensSound == TypeOK /\ RetryIsFresh /\ TokenIsOwn /\ MintsShared

\* A dispatch ends, however GitHub treats its tokens and though it may never
\* answer (github.rs with_base: "Bounded waits matter here").
DispatchEnds == \A d \in Dispatches : ~At(d, "idle") ~> At(d, "idle")

---------------------------------------------------------------------------
(* What the documentation says and the code does not do.                    *)

\* github.rs deliver: "an app-mode dispatch mints at most one installation token
\* up front (plus one more if GitHub rejects it mid-way)".  post_with_refresh
\* retries once per post, and a dispatch posts the label and then the issue.
OneRemint == \A d \in Dispatches : session[d].mints <= 2

=============================================================================
