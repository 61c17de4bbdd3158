------------------------------ MODULE EdgeCache ------------------------------
(***************************************************************************)
(* workers/caching/metaphysics-cdn.ts: the worker at the edge that answers *)
(* anonymous POST requests from a shared cache and passes all others on to *)
(* Metaphysics (the origin).                                               *)
(*                                                                         *)
(* An answer is the data of one query body, computed for one user at one   *)
(* time; clean is whether its status is below 300 and the origin did not   *)
(* mark it no-cache, as it does when the result has errors.  The cache     *)
(* (caches.default) keeps an entry until the max-age it was put with, or   *)
(* drops it earlier.  Preflight requests touch no state and are left out.  *)
(***************************************************************************)
EXTENDS Integers

CONSTANTS
  Requests,      \* requests in flight at once
  Bodies,        \* bodies of requests: query, variables, document id
  Users,         \* users with an access token
  Anonymous,     \* no access token
  Ages,          \* values of max-age= a client sends
  NoAge,         \* no max-age= in the Cache-Control header
  Asks,          \* requests clients make
  DefaultMaxAge, \* DEFAULT_MAX_AGE of the worker's environment, or 30
  LongestAge,    \* no client asks for a longer age
  PutDelay,      \* longest time a put runs on after the response (waitUntil)
  None,          \* no entry, no answer
  MaxTime        \* bound: the clock stops here

\* What the worker reads of a request.
RequestRecords ==
  [body : Bodies, user : Users \cup {Anonymous}, post : BOOLEAN,
   noCache : BOOLEAN, maxAge : Ages \cup {NoAge}]

ASSUME EdgeAssumption ==
  /\ Asks \subseteq RequestRecords
  /\ Anonymous \notin Users
  /\ Ages \subseteq Nat
  /\ NoAge \notin Ages
  /\ DefaultMaxAge \in Nat
  /\ LongestAge \in Nat
  /\ \A age \in Ages \cup {DefaultMaxAge} : age <= LongestAge
  /\ PutDelay \in Nat
  /\ MaxTime \in Nat

Answers == [body : Bodies, user : Users \cup {Anonymous}, at : 0..MaxTime, clean : BOOLEAN]

VARIABLES
  now,      \* clock of the edge
  phase,    \* [Requests -> "idle" | "matching" | "fetching" | "done"]
  ask,      \* [Requests -> Asks or None]
  since,    \* [Requests -> when the request came in]
  reply,    \* [Requests -> the answer returned, or None if the worker threw]
  hit,      \* [Requests -> whether the reply came out of the cache]
  putting,  \* [Requests -> the answer being put in the cache, or None]
  cache     \* [Bodies -> an entry or None]

vars == <<now, phase, ask, since, reply, hit, putting, cache>>

Entry(answer, maxAge) == [answer |-> answer, putAt |-> now, maxAge |-> maxAge]

\* The requests that may be answered from the cache.
Cacheable(q) == q.post /\ ~q.noCache /\ q.user = Anonymous

\* Mutant: the cache is read, though never written, for a no-cache request.
StartMatchingNoCache(q) == IF q.post /\ q.user = Anonymous THEN "matching" ELSE "fetching"

\* Where the worker goes with a request.
Start(q) == IF Cacheable(q) THEN "matching" ELSE "fetching"

\* Mutant: the age in the header is taken for minutes.
MaxAgeInMinutes(q) == 60 * (IF q.maxAge = NoAge THEN DefaultMaxAge ELSE q.maxAge)

\* Mutant: no default is put in for a request that states no age.
MaxAgeUnparsed(q) == q.maxAge

\* getMaxAgeFromRequest(request) || defaultMaxAge
MaxAge(q) == IF q.maxAge = NoAge THEN DefaultMaxAge ELSE q.maxAge

\* Mutant: the body is left out of the key (one key for every query).
KeyWithoutBody(q) == CHOOSE b \in Bodies : TRUE

\* getCacheKey: the path and a digest of the body.
Key(q) == q.body

\* An entry the cache still returns.
Fresh(k) == cache[k] # None /\ now < cache[k].putAt + cache[k].maxAge

Init ==
  /\ now = 0
  /\ phase = [r \in Requests |-> "idle"]
  /\ ask = [r \in Requests |-> None]
  /\ since = [r \in Requests |-> 0]
  /\ reply = [r \in Requests |-> None]
  /\ hit = [r \in Requests |-> FALSE]
  /\ putting = [r \in Requests |-> None]
  /\ cache = [b \in Bodies |-> None]

-----------------------------------------------------------------------------
\* A client sends a request.  (A finished request's slot is used again once
\* its put has ended.)
Receive(r, q) ==
  /\ phase[r] \in {"idle", "done"}
  /\ putting[r] = None
  /\ phase' = [phase EXCEPT ![r] = Start(q)]
  /\ ask' = [ask EXCEPT ![r] = q]
  /\ since' = [since EXCEPT ![r] = now]
  /\ reply' = [reply EXCEPT ![r] = None]
  /\ hit' = [hit EXCEPT ![r] = FALSE]
  /\ UNCHANGED <<now, putting, cache>>

\* cache.match finds an entry: it is returned, with a Cache-Control header of
\* the requester's own max-age.
Hit(r) ==
  /\ phase[r] = "matching"
  /\ Fresh(Key(ask[r]))
  /\ phase' = [phase EXCEPT ![r] = "done"]
  /\ reply' = [reply EXCEPT ![r] = cache[Key(ask[r])].answer]
  /\ hit' = [hit EXCEPT ![r] = TRUE]
  /\ UNCHANGED <<now, ask, since, putting, cache>>

\* It finds none: the request goes to the origin.
Miss(r) ==
  /\ phase[r] = "matching"
  /\ ~Fresh(Key(ask[r]))
  /\ phase' = [phase EXCEPT ![r] = "fetching"]
  /\ UNCHANGED <<now, ask, since, reply, hit, putting, cache>>

\* Mutant: the origin's status and no-cache header are not looked at.
StoresAnything(q, answer) == Cacheable(q)

\* Whether an answer of the origin is put in the cache.
Stores(q, answer) == Cacheable(q) /\ answer.clean

\* The origin answers.  A clean answer to a cacheable request is cloned for a
\* put that goes on after the response (waitUntil).
OriginAnswers(r, clean) ==
  /\ phase[r] = "fetching"
  /\ LET answer == [body |-> ask[r].body, user |-> ask[r].user, at |-> now, clean |-> clean]
     IN  /\ reply' = [reply EXCEPT ![r] = answer]
         /\ putting' = [putting EXCEPT ![r] = IF Stores(ask[r], answer) THEN answer ELSE None]
  /\ phase' = [phase EXCEPT ![r] = "done"]
  /\ UNCHANGED <<now, ask, since, hit, cache>>

\* match or fetch throws: the client gets a response that says so.
Throws(r) ==
  /\ phase[r] \in {"matching", "fetching"}
  /\ phase' = [phase EXCEPT ![r] = "done"]
  /\ UNCHANGED <<now, ask, since, reply, hit, putting, cache>>

\* The put takes place; its max-age is the one of the request that missed.
Put(r) ==
  /\ putting[r] # None
  /\ cache' = [cache EXCEPT ![Key(ask[r])] = Entry(putting[r], MaxAge(ask[r]))]
  /\ putting' = [putting EXCEPT ![r] = None]
  /\ UNCHANGED <<now, phase, ask, since, reply, hit>>

\* The put fails, or is cut off when its time is over.
PutLost(r) ==
  /\ putting[r] # None
  /\ putting' = [putting EXCEPT ![r] = None]
  /\ UNCHANGED <<now, phase, ask, since, reply, hit, cache>>

\* The cache drops an entry.
Evict(b) ==
  /\ cache[b] # None
  /\ cache' = [cache EXCEPT ![b] = None]
  /\ UNCHANGED <<now, phase, ask, since, reply, hit, putting>>

\* Time passes, as long as every put has time left.
Tick ==
  /\ now < MaxTime
  /\ \A r \in Requests : putting[r] # None => now < putting[r].at + PutDelay
  /\ now' = now + 1
  /\ UNCHANGED <<phase, ask, since, reply, hit, putting, cache>>

Next ==
  \/ \E r \in Requests :
       \/ \E q \in Asks : Receive(r, q)
       \/ Hit(r)
       \/ Miss(r)
       \/ \E clean \in BOOLEAN : OriginAnswers(r, clean)
       \/ Throws(r)
       \/ Put(r)
       \/ PutLost(r)
  \/ \E b \in Bodies : Evict(b)
  \/ Tick

Spec == Init /\ [][Next]_vars

-----------------------------------------------------------------------------
\* The types of the variables: what a request, a put and an entry can hold.
TypeOK ==
  /\ now \in 0..MaxTime
  /\ phase \in [Requests -> {"idle", "matching", "fetching", "done"}]
  /\ ask \in [Requests -> Asks \cup {None}]
  /\ since \in [Requests -> 0..MaxTime]
  /\ reply \in [Requests -> Answers \cup {None}]
  /\ hit \in [Requests -> BOOLEAN]
  /\ putting \in [Requests -> Answers \cup {None}]
  /\ cache \in [Bodies -> [answer : Answers, putAt : 0..MaxTime, maxAge : Nat] \cup {None}]

\* The shared cache only ever holds, under each key, a clean answer to that
\* very body, computed for nobody in particular; nor is anything else on its
\* way there ("Queries that include any X-Access-Token header or a
\* Cache-Control header containing no-cache will not read from or write to the
\* CDN cache", docs/cdn.md:7).
CacheIsShareable ==
  /\ \A b \in Bodies : cache[b] # None =>
       /\ cache[b].answer.body = b
       /\ cache[b].answer.user = Anonymous
       /\ cache[b].answer.clean
  /\ \A r \in Requests : putting[r] # None => putting[r].user = Anonymous /\ putting[r].clean

\* Whichever requests met at the edge, each gets the answer to its own body,
\* computed for its own user, and an error is only shown to the request that
\* met it: what comes out of the cache is clean.
RepliesAreOwn ==
  \A r \in Requests : reply[r] # None =>
    /\ reply[r].body = ask[r].body
    /\ reply[r].user = ask[r].user
    /\ hit[r] => reply[r].clean

\* A request with an access token or no-cache sees what the origin computes
\* after it came in, even while an answer to the same body is in the cache.
BypassSeesFreshData ==
  \A r \in Requests :
    reply[r] # None /\ (ask[r].noCache \/ ask[r].user # Anonymous) => reply[r].at >= since[r]

\* An answer out of the cache is never older than the longest age any client
\* asks for (and the time its put took).  This is the writer's side of "writing
\* results to the cache for up to that interval" (docs/cdn.md:9); it is less
\* than the same sentence promises to the reader of an entry, see
\* HitsRespectReader.
HitsAreBounded ==
  [][\A r \in Requests : hit'[r] /\ ~hit[r] => now - reply'[r].at < LongestAge + PutDelay]_vars

\* "The worker will respect the provided expiration, responding with data up to
\* that expiration in age" (docs/cdn.md:9): an answer out of the cache is no
\* older than what its reader asked for (and the time its put took).  The code
\* reads max-age after the match, only to write it into the answer's header, so
\* that an entry kept for a long age is given to a reader with a short one.
HitsRespectReader ==
  [][\A r \in Requests :
       hit'[r] /\ ~hit[r] => now - reply'[r].at < MaxAge(ask'[r]) + PutDelay]_vars
=============================================================================
