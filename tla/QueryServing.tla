---------------------------- MODULE QueryServing ----------------------------
(***************************************************************************)
(* The query endpoints (api/routes/query.py) and their result cache        *)
(* (retrieval/query_cache.py), while generations are published and         *)
(* retired and records are demoted and promoted by other processes.        *)
(*                                                                         *)
(* The API runs on one event loop: a request is interrupted by other       *)
(* requests only where it awaits (classification, the answer model), but   *)
(* the other processes move at any time, also between the search in Qdrant *)
(* and the look-up of the found records in the database.                   *)
(*                                                                         *)
(* Abstractions.  Answering models what happens between the evidence and   *)
(* the answer; here an answer is the question it was computed for, the     *)
(* generation it was computed from and the records it rests on.            *)
(* Generations are numbered in the order of their activation.              *)
(***************************************************************************)
EXTENDS Naturals, FiniteSets

CONSTANTS
    Clients,
    Streaming,     \* the clients that use /query/stream, the others use /query
    Questions,     \* query texts, with the caller's hint and limit
    Words,         \* Words[q]: the words of q in alphabetical order
    Rewrites,      \* what the rewriter may make of a question
    Records,
    MaxGeneration, \* bound on the generations published
    None

ASSUME WordsAssumption == DOMAIN Words = Questions
ASSUME BoundAssumption == MaxGeneration \in Nat

VARIABLES
    active,       \* the generation whose row is active, 0 if there is none
    collections,  \* the generations whose collection exists
    content,      \* content[g]: the records with points in g's collection
    queryable,    \* the records record_is_current_only admits
    cache,        \* _query_cache
    request,      \* the request each client waits for, or its outcome
    loop,         \* the client whose request holds the event loop, or None
    shown         \* shown[g]: the records queryable at some time since g's
                  \* activation (history)

vars == <<active, collections, content, queryable, cache, request, loop, shown>>
world == <<active, collections, content, queryable, shown>>

Generations == 1 .. MaxGeneration

Answer == [q : Questions, gen : Generations, from : SUBSET Records]

Idle == [pc |-> "idle", q |-> None, gen |-> 0,
         rewrite |-> None, tries |-> 0, evidence |-> {}, reply |-> None]

QueryInit ==
    /\ active = 0
    /\ collections = {}
    /\ content = [g \in Generations |-> {}]
    /\ queryable \in SUBSET Records
    /\ cache = {}
    /\ request = [c \in Clients |-> Idle]
    /\ loop = None
    /\ shown = [g \in Generations |-> {}]

-----------------------------------------------------------------------------
(* The cache: entries [key, answer], at most one per key. *)

EarlyKey(q, g) == <<"early", q, g>>
NearDuplicateKey(q, g) == <<"words", Words[q], g>>
FullKey(q, rewrite, g) == <<"full", q, rewrite, g>>

Cached(keys) == {e.answer : e \in {x \in cache : x.key \in keys}}

(* get_early: the exact text first, else the same words in another order. *)
Early(q, g) ==
    IF Cached({EarlyKey(q, g)}) # {} THEN Cached({EarlyKey(q, g)})
    ELSE Cached({NearDuplicateKey(q, g)})

(* Faulty variant, used by no specification: the keys take the generation   *)
(* that is active by now, not the one the answer was computed from.         *)
PutUnderActive(c, answer) ==
    LET r == request[c]
        keys == {EarlyKey(r.q, active), NearDuplicateKey(r.q, active),
                 FullKey(r.q, r.rewrite, active)}
    IN  cache' = {e \in cache : e.key \notin keys}
                     \cup {[key |-> k, answer |-> answer] : k \in keys}

PutDual(c, answer) ==
    LET r == request[c]
        keys == {EarlyKey(r.q, r.gen), NearDuplicateKey(r.q, r.gen),
                 FullKey(r.q, r.rewrite, r.gen)}
    IN  cache' = {e \in cache : e.key \notin keys}
                     \cup {[key |-> k, answer |-> answer] : k \in keys}

(* Expiry after an hour, or the least recently used entry of a full cache. *)
Evict ==
    /\ \E e \in cache : cache' = cache \ {e}
    /\ UNCHANGED <<world, request, loop>>

-----------------------------------------------------------------------------
(* Requests. *)

HasLoop(c) == loop \in {None, c}

Update(c, r) == request' = [request EXCEPT ![c] = r]

Reply(c, answer) ==
    /\ Update(c, [Idle EXCEPT !.pc = "replied", !.gen = request[c].gen, !.reply = answer])
    /\ loop' = None

(* The caller is told of a failure: 503, 500 or the rate limit's text. *)
Fail(c) ==
    /\ Update(c, Idle)
    /\ loop' = None

(* The active generation is read, then the early cache.  The next await is *)
(* the classification.                                                     *)
Arrive(c, q) ==
    LET r == [Idle EXCEPT !.pc = "classify", !.q = q, !.gen = active]
    IN  /\ request[c].pc \in {"idle", "replied"}
        /\ HasLoop(c)
        /\ IF active = 0 THEN Update(c, Idle)
           ELSE IF Early(q, active) = {} THEN Update(c, r)
           ELSE \E a \in Early(q, active) :
                    Update(c, [Idle EXCEPT !.pc = "replied", !.gen = active, !.reply = a])
        /\ UNCHANGED <<world, cache, loop>>

Own(c, evidence) == [q |-> request[c].q, gen |-> request[c].gen, from |-> evidence]

(* Out of scope: an abstention, cached like an answer. *)
AbstainImmediately(c) ==
    /\ request[c].pc = "classify"
    /\ HasLoop(c)
    /\ PutDual(c, Own(c, {}))
    /\ Reply(c, Own(c, {}))
    /\ UNCHANGED world

(* Classified and rewritten; /query then looks the full key up, and both   *)
(* routes go on to the search without an await.                            *)
Classified(c, rewrite) ==
    LET hit == Cached({FullKey(request[c].q, rewrite, request[c].gen)})
    IN  /\ request[c].pc = "classify"
        /\ HasLoop(c)
        /\ IF hit # {} /\ c \notin Streaming
           THEN \E a \in hit : Reply(c, a)
           ELSE /\ Update(c, [request[c] EXCEPT !.pc = "search", !.rewrite = rewrite])
                /\ loop' = c
        /\ UNCHANGED <<world, cache>>

(* Faulty variant: the attempts are not counted. *)
FailsOnAndOn(c) ==
    /\ Update(c, [request[c] EXCEPT !.pc = "search", !.tries = @ + 1])
    /\ loop' = c

(* A provider failure is answered by one more attempt with the same        *)
(* generation; /query/stream gives up at once.                             *)
ProviderFails(c) ==
    IF c \in Streaming \/ request[c].tries = 1
    THEN Fail(c)
    ELSE /\ Update(c, [request[c] EXCEPT !.pc = "search", !.tries = @ + 1])
         /\ loop' = c

Search(c) ==
    /\ request[c].pc = "search"
    /\ request[c].gen \in collections
    /\ HasLoop(c)
    /\ \E found \in SUBSET content[request[c].gen] :
            Update(c, [request[c] EXCEPT !.pc = "hydrate", !.evidence = found])
    /\ loop' = c
    /\ UNCHANGED <<world, cache>>

(* The embedding provider or Qdrant fails, or the collection is gone.  The *)
(* single search of a question without routes lets Qdrant's own exception  *)
(* through, which neither route handles.                                   *)
SearchFails(c) ==
    /\ request[c].pc = "search"
    /\ HasLoop(c)
    /\ ProviderFails(c) \/ Fail(c)
    /\ UNCHANGED <<world, cache>>

(* Faulty variant: what Qdrant found is evidence. *)
HydrateUnfiltered(c) ==
    /\ request[c].pc = "hydrate"
    /\ HasLoop(c)
    /\ IF request[c].evidence = {}
       THEN PutDual(c, Own(c, {})) /\ Reply(c, Own(c, {}))
       ELSE /\ Update(c, [request[c] EXCEPT !.pc = "answer"])
            /\ loop' = None
            /\ UNCHANGED cache
    /\ UNCHANGED world

(* Only current records of an allowed source are evidence; with none the   *)
(* service abstains without asking the model.                              *)
Hydrate(c) ==
    LET evidence == request[c].evidence \cap queryable
    IN  /\ request[c].pc = "hydrate"
        /\ HasLoop(c)
        /\ IF evidence = {}
           THEN PutDual(c, Own(c, {})) /\ Reply(c, Own(c, {}))
           ELSE /\ Update(c, [request[c] EXCEPT !.pc = "answer", !.evidence = evidence])
                /\ loop' = None
                /\ UNCHANGED cache
        /\ UNCHANGED world

(* The answer, or an abstention, rests on part of the evidence. *)
AnswerQuery(c) ==
    /\ request[c].pc = "answer"
    /\ HasLoop(c)
    /\ \E from \in SUBSET request[c].evidence :
            PutDual(c, Own(c, from)) /\ Reply(c, Own(c, from))
    /\ UNCHANGED world

AnswerFails(c) ==
    /\ request[c].pc = "answer"
    /\ HasLoop(c)
    /\ ProviderFails(c)
    /\ UNCHANGED <<world, cache>>

(* RateLimitError: an abstention that is not cached, an error on the       *)
(* stream.                                                                 *)
RateLimited(c) ==
    /\ request[c].pc = "answer"
    /\ HasLoop(c)
    /\ Fail(c)
    /\ UNCHANGED <<world, cache>>

RequestStep(c) ==
    \/ AbstainImmediately(c)
    \/ \E rewrite \in Rewrites : Classified(c, rewrite)
    \/ Search(c)
    \/ SearchFails(c)
    \/ Hydrate(c)
    \/ AnswerQuery(c)
    \/ AnswerFails(c)
    \/ RateLimited(c)

-----------------------------------------------------------------------------
(* The other processes. *)

(* A build activates its generation; what it loaded may have changed since. *)
Publish(S) ==
    /\ active < MaxGeneration
    /\ active' = active + 1
    /\ collections' = collections \cup {active + 1}
    /\ content' = [content EXCEPT ![active + 1] = S]
    /\ shown' = [shown EXCEPT ![active + 1] = queryable]
    /\ UNCHANGED <<queryable, cache, request, loop>>

(* CleanUp of a build: the previous collection goes. *)
DeleteRetired(g) ==
    /\ g \in collections
    /\ g < active
    /\ collections' = collections \ {g}
    /\ UNCHANGED <<active, content, queryable, shown, cache, request, loop>>

(* A crawl, a review or the withdrawal of a source changes a record. *)
Demote(r) ==
    /\ r \in queryable
    /\ queryable' = queryable \ {r}
    /\ UNCHANGED <<active, collections, content, shown, cache, request, loop>>

Promote(r) ==
    /\ r \notin queryable
    /\ queryable' = queryable \cup {r}
    /\ shown' = [g \in Generations |-> IF g <= active THEN shown[g] \cup {r} ELSE shown[g]]
    /\ UNCHANGED <<active, collections, content, cache, request, loop>>

(* The API process restarts: its cache is memory. *)
Restart ==
    /\ cache' = {}
    /\ request' = [c \in Clients |-> Idle]
    /\ loop' = None
    /\ UNCHANGED world

QueryNext ==
    \/ \E c \in Clients, q \in Questions : Arrive(c, q)
    \/ \E c \in Clients : RequestStep(c)
    \/ Evict
    \/ \E S \in SUBSET Records : Publish(S)
    \/ \E g \in Generations : DeleteRetired(g)
    \/ \E r \in Records : Demote(r) \/ Promote(r)
    \/ Restart

QuerySpec == QueryInit /\ [][QueryNext]_vars

-----------------------------------------------------------------------------
(* Properties. *)

QueryTypeOK ==
    /\ active \in 0 .. MaxGeneration
    /\ collections \subseteq 1 .. active
    /\ content \in [Generations -> SUBSET Records]
    /\ shown \in [Generations -> SUBSET Records]
    /\ queryable \subseteq Records
    /\ \A e \in cache : e.answer \in Answer
    /\ \A c \in Clients :
          /\ request[c].pc \in {"idle", "classify", "search", "hydrate", "answer", "replied"}
          /\ request[c].gen \in 0 .. active
          /\ request[c].tries \in {0, 1}
          /\ request[c].evidence \subseteq Records
          /\ request[c].reply \in Answer \cup {None}
    /\ loop \in Clients \cup {None}

Replied(c) == request[c].pc = "replied"

(* A reply never comes from a generation that was replaced before its      *)
(* request arrived, computed or cached, and rests only on records of that  *)
(* generation: the live API serves the new generation on the next query.   *)
RepliesFromNewest ==
    \A c \in Clients : Replied(c) =>
        /\ request[c].reply.gen >= request[c].gen
        /\ request[c].reply.from \subseteq content[request[c].reply.gen]

(* A record that was withdrawn before a generation was published, and not  *)
(* restored since, is not in any answer of that generation, cached or not, *)
(* although the generation's collection may hold its points.               *)
WithdrawnStayOut ==
    \A c \in Clients : Replied(c) =>
        request[c].reply.from \subseteq shown[request[c].reply.gen]

=============================================================================
