-------------------------- MODULE QueryServingProofs --------------------------
(***************************************************************************)
(* Proofs about QueryServing, for all clients, questions, records and      *)
(* numbers of generations.                                                 *)
(*                                                                         *)
(* A reply may be computed by its own request or come from the cache, so   *)
(* the invariant says of the cache what the properties say of replies, and *)
(* ties the generation in an entry's keys to the one of its answer.  What  *)
(* a request has found is followed from the search, where it lies in the   *)
(* collection, past the look-up in the database, where it is queryable.    *)
(***************************************************************************)
EXTENDS QueryServing, TLAPS

Busy == {"classify", "search", "hydrate", "answer"}

RequestRecord ==
    [pc : Busy \cup {"idle", "replied"}, q : Questions \cup {None}, gen : 0 .. MaxGeneration,
     rewrite : Rewrites \cup {None}, tries : {0, 1}, evidence : SUBSET Records,
     reply : Answer \cup {None}]

Typed ==
    /\ active \in 0 .. MaxGeneration
    /\ collections \subseteq 1 .. active
    /\ content \in [Generations -> SUBSET Records]
    /\ shown \in [Generations -> SUBSET Records]
    /\ queryable \subseteq Records
    /\ request \in [Clients -> RequestRecord]
    /\ loop \in Clients \cup {None}

(* An answer that may be given: of a generation that was published, with   *)
(* records of its collection that were queryable since.                    *)
Sound(a) ==
    /\ a \in Answer
    /\ a.gen <= active
    /\ a.from \subseteq content[a.gen]
    /\ a.from \subseteq shown[a.gen]

(* The keys under which an answer of generation g is looked up. *)
KeysOf(g) ==
    {EarlyKey(q, g) : q \in Questions} \cup {NearDuplicateKey(q, g) : q \in Questions}
        \cup {FullKey(q, w, g) : q \in Questions, w \in Rewrites}

SoundEntry(e) ==
    /\ Sound(e.answer)
    /\ \A g \in Generations : e.key \in KeysOf(g) => e.answer.gen = g

CacheSound == \A e \in cache : SoundEntry(e)

SoundRequest(r) ==
    /\ r.gen <= active
    /\ r.pc \in Busy => r.q \in Questions /\ r.gen \in Generations
    /\ r.pc \in {"hydrate", "answer"} => r.evidence \subseteq content[r.gen]
    /\ r.pc = "answer" => r.evidence \subseteq shown[r.gen]
    /\ r.pc = "replied" => Sound(r.reply) /\ r.reply.gen = r.gen

QueryableShown == \A g \in Generations : g <= active => queryable \subseteq shown[g]

IInv ==
    /\ Typed
    /\ CacheSound
    /\ \A c \in Clients : SoundRequest(request[c])
    /\ QueryableShown

-------------------------------------------------------------------------------
LEMMA InitInv == QueryInit => IInv
  <1> SUFFICES ASSUME QueryInit PROVE IInv
    OBVIOUS
  <1>1. Idle \in RequestRecord
    BY BoundAssumption DEF Idle, RequestRecord, Busy
  <1>2. Typed
    BY <1>1, BoundAssumption DEF QueryInit, Typed, Generations
  <1>3. \A c \in Clients : SoundRequest(request[c])
    BY DEF QueryInit, SoundRequest, Idle, Busy
  <1>4. CacheSound
    BY DEF QueryInit, CacheSound
  <1>5. QueryableShown
    BY DEF QueryInit, QueryableShown, Generations
  <1> QED
    BY <1>2, <1>3, <1>4, <1>5 DEF IInv

-------------------------------------------------------------------------------
(* The keys of the cache and what is stored under them. *)

(* Keys name their generation. *)
LEMMA KeyGeneration ==
    ASSUME NEW q, NEW w, NEW g, NEW h,
           \/ EarlyKey(q, g) \in KeysOf(h)
           \/ NearDuplicateKey(q, g) \in KeysOf(h)
           \/ FullKey(q, w, g) \in KeysOf(h)
    PROVE  g = h
  BY DEF KeysOf, EarlyKey, NearDuplicateKey, FullKey

LEMMA PutKeepsCache ==
    ASSUME IInv, UNCHANGED world, NEW c \in Clients, NEW from,
           Sound(Own(c, from)), PutDual(c, Own(c, from))
    PROVE  CacheSound'
  <1> DEFINE r == request[c]
             new == {EarlyKey(r.q, r.gen), NearDuplicateKey(r.q, r.gen),
                     FullKey(r.q, r.rewrite, r.gen)}
  <1>1. SUFFICES ASSUME NEW e \in cache' PROVE SoundEntry(e)
    BY DEF CacheSound, SoundEntry, Sound, world
  <1>2. CASE e \in cache
    BY <1>2 DEF IInv, CacheSound
  <1>3. CASE \E k \in new : e = [key |-> k, answer |-> Own(c, from)]
    <2>1. e.key \in new /\ e.answer = Own(c, from)
      BY <1>3
    <2>2. \A g \in Generations : e.key \in KeysOf(g) => r.gen = g
      BY <2>1, KeyGeneration
    <2>3. Own(c, from).gen = r.gen
      BY DEF Own
    <2> QED
      BY <2>1, <2>2, <2>3 DEF SoundEntry
  <1> QED
    BY <1>2, <1>3 DEF PutDual

(* What the cache has for a question and a generation may be given. *)
LEMMA CachedIsSound ==
    ASSUME IInv, NEW g \in Generations, NEW keys, keys \subseteq KeysOf(g),
           NEW a \in Cached(keys)
    PROVE  Sound(a) /\ a.gen = g
  BY DEF Cached, IInv, CacheSound, SoundEntry

-------------------------------------------------------------------------------
(* Steps of a request and steps of the other processes. *)

LEMMA RequestChanges ==
    ASSUME IInv, UNCHANGED world, CacheSound', NEW c \in Clients, NEW r \in RequestRecord,
           SoundRequest(r), Update(c, r), loop' \in Clients \cup {None}
    PROVE  IInv'
  <1>1. request' \in [Clients -> RequestRecord]
    BY DEF Update, IInv, Typed
  <1>2. \A d \in Clients : SoundRequest(request'[d])
    BY DEF Update, IInv, Typed
  <1>3. (\A d \in Clients : SoundRequest(request[d]))'
    BY <1>2 DEF SoundRequest, Sound, world
  <1>4. Typed'
    BY <1>1 DEF IInv, Typed, world
  <1>5. QueryableShown'
    BY DEF IInv, QueryableShown, world
  <1> QED
    BY <1>3, <1>4, <1>5 DEF IInv

LEMMA ReplyIsSound ==
    ASSUME IInv, UNCHANGED world, CacheSound', NEW c \in Clients, request[c].pc \in Busy,
           NEW a, Sound(a), a.gen = request[c].gen, Reply(c, a)
    PROVE  IInv'
  <1> DEFINE r == [Idle EXCEPT !.pc = "replied", !.gen = request[c].gen, !.reply = a]
  <1>1. request[c] \in RequestRecord /\ SoundRequest(request[c])
    BY DEF IInv, Typed
  <1>2. r \in RequestRecord
    BY <1>1 DEF RequestRecord, Idle, Sound
  <1>3. SoundRequest(r)
    BY <1>1 DEF SoundRequest, Idle, Busy
  <1> QED
    BY <1>2, <1>3, RequestChanges DEF Reply

LEMMA IdleAgain ==
    ASSUME IInv, UNCHANGED <<world, cache>>, NEW c \in Clients, Update(c, Idle),
           loop' \in Clients \cup {None}
    PROVE  IInv'
  <1>1. Idle \in RequestRecord
    BY BoundAssumption DEF Idle, RequestRecord
  <1>2. SoundRequest(Idle)
    BY DEF SoundRequest, Idle, Busy, IInv, Typed
  <1>3. CacheSound'
    BY DEF IInv, CacheSound, SoundEntry, Sound, world
  <1> QED
    BY <1>1, <1>2, <1>3, RequestChanges

LEMMA CacheStays ==
    ASSUME IInv, UNCHANGED <<world, cache>>
    PROVE  CacheSound'
  BY DEF IInv, CacheSound, SoundEntry, Sound, world

LEMMA WorldMoves ==
    ASSUME IInv, UNCHANGED <<cache, request, loop>>,
           active' \in active .. MaxGeneration, collections' \subseteq 1 .. active',
           content' \in [Generations -> SUBSET Records],
           shown' \in [Generations -> SUBSET Records], queryable' \subseteq Records,
           \A g \in Generations : g <= active =>
               content'[g] = content[g] /\ shown[g] \subseteq shown'[g],
           QueryableShown'
    PROVE  IInv'
  <1>1. Typed'
    BY BoundAssumption DEF IInv, Typed
  <1>2. \A a : Sound(a) => Sound(a)'
    <2> SUFFICES ASSUME NEW a, Sound(a) PROVE Sound(a)'
      OBVIOUS
    <2>1. a.gen \in Generations /\ a.gen <= active
      BY DEF Sound, Answer
    <2>2. a.gen <= active'
      BY <2>1, BoundAssumption DEF IInv, Typed, Generations
    <2>3. content'[a.gen] = content[a.gen] /\ shown[a.gen] \subseteq shown'[a.gen]
      BY <2>1
    <2> QED
      BY <2>2, <2>3 DEF Sound
  <1>3. CacheSound'
    BY <1>2 DEF IInv, CacheSound, SoundEntry
  <1>4. ASSUME NEW c \in Clients PROVE SoundRequest(request[c])'
    <2>1. SoundRequest(request[c]) /\ request[c] \in RequestRecord
      BY DEF IInv, Typed
    <2>2. request[c].gen <= active'
      BY <2>1, BoundAssumption DEF IInv, Typed, SoundRequest, RequestRecord
    <2>3. request[c].pc \in Busy =>
              /\ content'[request[c].gen] = content[request[c].gen]
              /\ shown[request[c].gen] \subseteq shown'[request[c].gen]
      BY <2>1 DEF SoundRequest
    <2> QED
      BY <2>1, <2>2, <2>3, <1>2 DEF SoundRequest, Busy
  <1> QED
    BY <1>1, <1>3, <1>4 DEF IInv

-------------------------------------------------------------------------------
(* The steps of a request, one by one. *)

(* What is known of the request that moves. *)
LEMMA RequestFacts ==
    ASSUME IInv, NEW c \in Clients
    PROVE  /\ request[c] \in RequestRecord
           /\ SoundRequest(request[c])
           /\ request[c].pc \in Busy => Sound(Own(c, {}))
  <1>1. request[c] \in RequestRecord /\ SoundRequest(request[c])
    BY DEF IInv, Typed
  <1> QED
    BY <1>1 DEF Sound, Own, Answer, SoundRequest, Busy

(* The answer computed by a request, put under its keys and given. *)
LEMMA AnswerGiven ==
    ASSUME IInv, UNCHANGED world, NEW c \in Clients, request[c].pc \in Busy, NEW from,
           Sound(Own(c, from)), PutDual(c, Own(c, from)), Reply(c, Own(c, from))
    PROVE  IInv'
  <1>1. CacheSound'
    BY PutKeepsCache
  <1>2. Own(c, from).gen = request[c].gen
    BY DEF Own
  <1> QED
    BY <1>1, <1>2, ReplyIsSound

LEMMA ArriveInv ==
    ASSUME IInv, NEW c \in Clients, NEW q \in Questions, Arrive(c, q)
    PROVE  IInv'
  <1>1. UNCHANGED world /\ UNCHANGED cache /\ UNCHANGED loop
    BY DEF Arrive
  <1>2. CacheSound' /\ loop' \in Clients \cup {None}
    BY <1>1, CacheStays DEF IInv, Typed
  <1>3. CASE active = 0
    <2>1. Update(c, Idle)
      BY <1>3 DEF Arrive
    <2> QED
      BY <1>1, <1>2, <2>1, IdleAgain
  <1>4. CASE active # 0 /\ Early(q, active) = {}
    <2> DEFINE r == [pc |-> "classify", q |-> q, gen |-> active, rewrite |-> None, tries |-> 0,
                     evidence |-> {}, reply |-> None]
    <2>1. Update(c, r)
      BY <1>4 DEF Arrive, Idle, Update
    <2>2. r \in RequestRecord
      BY DEF RequestRecord, Busy, IInv, Typed
    <2>3. SoundRequest(r)
      BY <1>4, BoundAssumption DEF SoundRequest, IInv, Typed, Generations, Busy
    <2> HIDE DEF r
    <2> QED
      BY <1>1, <1>2, <2>1, <2>2, <2>3, RequestChanges
  <1>5. CASE active # 0 /\ Early(q, active) # {}
    <2>1. PICK a \in Early(q, active) :
              Update(c, [Idle EXCEPT !.pc = "replied", !.gen = active, !.reply = a])
      BY <1>5 DEF Arrive
    <2>2. active \in Generations
      BY <1>5, BoundAssumption DEF IInv, Typed, Generations
    <2>3. {EarlyKey(q, active)} \subseteq KeysOf(active)
      BY DEF KeysOf
    <2>4. {NearDuplicateKey(q, active)} \subseteq KeysOf(active)
      BY DEF KeysOf
    <2>5. Sound(a) /\ a.gen = active
      <3>1. CASE a \in Cached({EarlyKey(q, active)})
        BY <3>1, <2>2, <2>3, CachedIsSound
      <3>2. CASE a \in Cached({NearDuplicateKey(q, active)})
        BY <3>2, <2>2, <2>4, CachedIsSound
      <3> QED
        BY <3>1, <3>2, <2>1 DEF Early
    <2> DEFINE r == [Idle EXCEPT !.pc = "replied", !.gen = active, !.reply = a]
    <2>6. active \in 0 .. MaxGeneration /\ active <= active
      BY DEF IInv, Typed
    <2>7. r \in RequestRecord
      BY <2>5, <2>6 DEF RequestRecord, Idle, Sound
    <2>8. SoundRequest(r)
      BY <2>5, <2>6 DEF SoundRequest, Idle, Busy
    <2> HIDE DEF r
    <2> QED
      BY <1>1, <1>2, <2>1, <2>7, <2>8, RequestChanges DEF r
  <1> QED
    BY <1>3, <1>4, <1>5

LEMMA AbstainImmediatelyInv ==
    ASSUME IInv, NEW c \in Clients, AbstainImmediately(c)
    PROVE  IInv'
  <1>1. request[c].pc \in Busy /\ UNCHANGED world
    BY DEF AbstainImmediately, Busy
  <1>2. Sound(Own(c, {}))
    BY <1>1, RequestFacts
  <1> QED
    BY <1>1, <1>2, AnswerGiven DEF AbstainImmediately

LEMMA ClassifiedInv ==
    ASSUME IInv, NEW c \in Clients, NEW rewrite \in Rewrites, Classified(c, rewrite)
    PROVE  IInv'
  <1> DEFINE key == FullKey(request[c].q, rewrite, request[c].gen)
  <1>1. /\ request[c].pc = "classify" /\ UNCHANGED world /\ UNCHANGED cache
        /\ request[c] \in RequestRecord /\ SoundRequest(request[c])
    BY RequestFacts DEF Classified
  <1>2. request[c].q \in Questions /\ request[c].gen \in Generations
    BY <1>1 DEF SoundRequest, Busy
  <1>3. CacheSound'
    BY <1>1, CacheStays
  <1>4. CASE \E a \in Cached({key}) : Reply(c, a)
    <2>1. {key} \subseteq KeysOf(request[c].gen)
      BY <1>2 DEF KeysOf
    <2>2. PICK a \in Cached({key}) : Reply(c, a)
      BY <1>4
    <2>3. Sound(a) /\ a.gen = request[c].gen
      BY <1>2, <2>1, <2>2, CachedIsSound
    <2> QED
      BY <1>1, <1>3, <2>2, <2>3, ReplyIsSound DEF Busy
  <1>5. CASE /\ Update(c, [request[c] EXCEPT !.pc = "search", !.rewrite = rewrite])
             /\ loop' = c
    <2> DEFINE r == [request[c] EXCEPT !.pc = "search", !.rewrite = rewrite]
    <2>1. r \in RequestRecord
      BY <1>1 DEF RequestRecord, Busy
    <2>2. SoundRequest(r)
      BY <1>1, <1>2 DEF SoundRequest, RequestRecord, Busy
    <2> HIDE DEF r
    <2> QED
      BY <1>1, <1>3, <1>5, <2>1, <2>2, RequestChanges DEF r
  <1> QED
    BY <1>4, <1>5 DEF Classified

(* A provider failure: another attempt from the search on, or none. *)
LEMMA ProviderFailsInv ==
    ASSUME IInv, UNCHANGED <<world, cache>>, NEW c \in Clients, request[c].pc \in Busy,
           ProviderFails(c) \/ Fail(c)
    PROVE  IInv'
  <1>1. CASE Fail(c)
    BY <1>1, IdleAgain DEF Fail
  <1>2. CASE /\ request[c].tries # 1
             /\ Update(c, [request[c] EXCEPT !.pc = "search", !.tries = @ + 1])
             /\ loop' = c
    <2> DEFINE r == [request[c] EXCEPT !.pc = "search", !.tries = @ + 1]
    <2>1. request[c] \in RequestRecord /\ SoundRequest(request[c])
      BY RequestFacts
    <2>2. request[c].tries + 1 \in {0, 1}
      BY <2>1, <1>2 DEF RequestRecord
    <2>3. r \in RequestRecord
      BY <2>1, <2>2 DEF RequestRecord, Busy
    <2>4. SoundRequest(r)
      BY <2>1 DEF SoundRequest, RequestRecord, Busy
    <2>5. CacheSound'
      BY CacheStays
    <2> HIDE DEF r
    <2> QED
      BY <1>2, <2>3, <2>4, <2>5, RequestChanges DEF r
  <1> QED
    BY <1>1, <1>2 DEF ProviderFails

LEMMA SearchInv ==
    ASSUME IInv, NEW c \in Clients, Search(c)
    PROVE  IInv'
  <1>1. /\ request[c].pc = "search" /\ UNCHANGED world /\ UNCHANGED cache /\ loop' = c
        /\ request[c] \in RequestRecord /\ SoundRequest(request[c])
    BY RequestFacts DEF Search
  <1>2. PICK found \in SUBSET content[request[c].gen] :
            Update(c, [request[c] EXCEPT !.pc = "hydrate", !.evidence = found])
    BY DEF Search
  <1> DEFINE r == [request[c] EXCEPT !.pc = "hydrate", !.evidence = found]
  <1>3. request[c].gen \in Generations /\ found \subseteq Records
    BY <1>1 DEF SoundRequest, Busy, IInv, Typed
  <1>4. r \in RequestRecord
    BY <1>1, <1>3 DEF RequestRecord, Busy
  <1>5. SoundRequest(r)
    BY <1>1 DEF SoundRequest, RequestRecord, Busy
  <1>6. CacheSound'
    BY <1>1, CacheStays
  <1> HIDE DEF r
  <1> QED
    BY <1>1, <1>2, <1>4, <1>5, <1>6, RequestChanges DEF r

LEMMA HydrateInv ==
    ASSUME IInv, NEW c \in Clients, Hydrate(c)
    PROVE  IInv'
  <1> DEFINE evidence == request[c].evidence \cap queryable
  <1>1. /\ request[c].pc = "hydrate" /\ UNCHANGED world
        /\ request[c] \in RequestRecord /\ SoundRequest(request[c])
    BY RequestFacts DEF Hydrate
  <1>2. CASE /\ evidence = {}
             /\ PutDual(c, Own(c, {})) /\ Reply(c, Own(c, {}))
    <2>1. request[c].pc \in Busy
      BY <1>1 DEF Busy
    <2>2. Sound(Own(c, {}))
      BY <2>1, RequestFacts
    <2> QED
      BY <1>1, <1>2, <2>1, <2>2, AnswerGiven
  <1>3. CASE /\ Update(c, [request[c] EXCEPT !.pc = "answer", !.evidence = evidence])
             /\ loop' = None /\ UNCHANGED cache
    <2> DEFINE r == [request[c] EXCEPT !.pc = "answer", !.evidence = evidence]
    <2>1. request[c].gen \in Generations /\ request[c].gen <= active
      BY <1>1 DEF SoundRequest, Busy
    <2>2. evidence \subseteq shown[request[c].gen]
      BY <2>1 DEF IInv, QueryableShown
    <2>3. r \in RequestRecord
      BY <1>1 DEF RequestRecord, Busy
    <2>4. SoundRequest(r)
      BY <1>1, <2>2 DEF SoundRequest, RequestRecord, Busy
    <2>5. CacheSound'
      BY <1>1, <1>3, CacheStays
    <2> HIDE DEF r
    <2> QED
      BY <1>1, <1>3, <2>3, <2>4, <2>5, RequestChanges DEF r
  <1> QED
    BY <1>2, <1>3 DEF Hydrate

LEMMA AnswerQueryInv ==
    ASSUME IInv, NEW c \in Clients, AnswerQuery(c)
    PROVE  IInv'
  <1>1. /\ request[c].pc = "answer" /\ request[c].pc \in Busy /\ UNCHANGED world
        /\ request[c] \in RequestRecord /\ SoundRequest(request[c])
    BY RequestFacts DEF AnswerQuery, Busy
  <1>2. PICK from \in SUBSET request[c].evidence :
            PutDual(c, Own(c, from)) /\ Reply(c, Own(c, from))
    BY DEF AnswerQuery
  <1>3. Sound(Own(c, from))
    BY <1>1 DEF Sound, Own, Answer, SoundRequest, RequestRecord
  <1> QED
    BY <1>1, <1>2, <1>3, AnswerGiven

LEMMA RequestStepInv ==
    ASSUME IInv, NEW c \in Clients, RequestStep(c)
    PROVE  IInv'
  <1>1. CASE AbstainImmediately(c)
    BY <1>1, AbstainImmediatelyInv
  <1>2. CASE \E rewrite \in Rewrites : Classified(c, rewrite)
    BY <1>2, ClassifiedInv
  <1>3. CASE Search(c)
    BY <1>3, SearchInv
  <1>4. CASE SearchFails(c)
    BY <1>4, ProviderFailsInv DEF SearchFails, Busy
  <1>5. CASE Hydrate(c)
    BY <1>5, HydrateInv
  <1>6. CASE AnswerQuery(c)
    BY <1>6, AnswerQueryInv
  <1>7. CASE AnswerFails(c)
    BY <1>7, ProviderFailsInv DEF AnswerFails, Busy
  <1>8. CASE RateLimited(c)
    BY <1>8, ProviderFailsInv DEF RateLimited, Busy
  <1> QED
    BY <1>1, <1>2, <1>3, <1>4, <1>5, <1>6, <1>7, <1>8 DEF RequestStep

-------------------------------------------------------------------------------
(* The other processes, the cache and the restart. *)

LEMMA PublishInv ==
    ASSUME IInv, NEW S \in SUBSET Records, Publish(S)
    PROVE  IInv'
  <1>1. /\ active \in 0 .. MaxGeneration /\ active < MaxGeneration
        /\ active' = active + 1 /\ active' \in Generations
    BY BoundAssumption DEF IInv, Typed, Publish, Generations
  <1>2. active' \in active .. MaxGeneration /\ collections' \subseteq 1 .. active'
    BY <1>1, BoundAssumption DEF IInv, Typed, Publish
  <1>3. /\ content' \in [Generations -> SUBSET Records]
        /\ shown' \in [Generations -> SUBSET Records]
        /\ queryable' \subseteq Records
    BY DEF IInv, Typed, Publish
  <1>4. \A g \in Generations : g <= active =>
            content'[g] = content[g] /\ shown[g] \subseteq shown'[g]
    BY <1>1, BoundAssumption DEF IInv, Typed, Publish, Generations
  <1>5. QueryableShown'
    <2> SUFFICES ASSUME NEW g \in Generations, g <= active' PROVE queryable' \subseteq shown'[g]
      BY DEF QueryableShown
    <2>1. CASE g = active + 1
      BY <2>1 DEF Publish, IInv, Typed
    <2>2. CASE g <= active
      BY <2>2, <1>4 DEF Publish, IInv, QueryableShown
    <2> QED
      BY <1>1, <2>1, <2>2, BoundAssumption DEF Generations
  <1> QED
    BY <1>2, <1>3, <1>4, <1>5, WorldMoves DEF Publish

LEMMA DeleteRetiredInv ==
    ASSUME IInv, NEW g \in Generations, DeleteRetired(g)
    PROVE  IInv'
  <1>1. active' \in active .. MaxGeneration /\ collections' \subseteq 1 .. active'
    BY BoundAssumption DEF IInv, Typed, DeleteRetired
  <1>2. QueryableShown'
    BY DEF IInv, QueryableShown, DeleteRetired
  <1> QED
    BY <1>1, <1>2, WorldMoves DEF DeleteRetired, IInv, Typed

LEMMA DemoteInv ==
    ASSUME IInv, NEW r \in Records, Demote(r)
    PROVE  IInv'
  <1>1. active' \in active .. MaxGeneration /\ collections' \subseteq 1 .. active'
    BY BoundAssumption DEF IInv, Typed, Demote
  <1>2. QueryableShown'
    BY DEF IInv, QueryableShown, Demote
  <1> QED
    BY <1>1, <1>2, WorldMoves DEF Demote, IInv, Typed

LEMMA PromoteInv ==
    ASSUME IInv, NEW r \in Records, Promote(r)
    PROVE  IInv'
  <1>1. active' \in active .. MaxGeneration /\ collections' \subseteq 1 .. active'
    BY BoundAssumption DEF IInv, Typed, Promote
  <1>2. /\ shown' \in [Generations -> SUBSET Records]
        /\ queryable' \subseteq Records
    BY DEF IInv, Typed, Promote
  <1>3. QueryableShown'
    BY DEF IInv, QueryableShown, Promote, Typed
  <1>4. \A g \in Generations : shown[g] \subseteq shown'[g]
    BY DEF Promote
  <1> QED
    BY <1>1, <1>2, <1>3, <1>4, WorldMoves DEF Promote, IInv, Typed

LEMMA EvictInv ==
    ASSUME IInv, Evict
    PROVE  IInv'
  <1>1. CacheSound'
    BY DEF Evict, IInv, CacheSound, SoundEntry, Sound, world
  <1> QED
    BY <1>1 DEF Evict, IInv, Typed, SoundRequest, Sound, QueryableShown, world

LEMMA RestartInv ==
    ASSUME IInv, Restart
    PROVE  IInv'
  <1>1. Idle \in RequestRecord
    BY BoundAssumption DEF Idle, RequestRecord
  <1>2. Typed' /\ QueryableShown'
    BY <1>1 DEF Restart, IInv, Typed, QueryableShown, world
  <1>3. (\A c \in Clients : SoundRequest(request[c]))'
    BY DEF Restart, SoundRequest, Idle, Busy, IInv, Typed, world
  <1>4. CacheSound'
    BY DEF Restart, CacheSound
  <1> QED
    BY <1>2, <1>3, <1>4 DEF IInv

LEMMA NextInv == IInv /\ [QueryNext]_vars => IInv'
  <1> SUFFICES ASSUME IInv, [QueryNext]_vars PROVE IInv'
    OBVIOUS
  <1>1. CASE \E c \in Clients, q \in Questions : Arrive(c, q)
    BY <1>1, ArriveInv
  <1>2. CASE \E c \in Clients : RequestStep(c)
    BY <1>2, RequestStepInv
  <1>3. CASE Evict
    BY <1>3, EvictInv
  <1>4. CASE \E S \in SUBSET Records : Publish(S)
    BY <1>4, PublishInv
  <1>5. CASE \E g \in Generations : DeleteRetired(g)
    BY <1>5, DeleteRetiredInv
  <1>6. CASE \E r \in Records : Demote(r) \/ Promote(r)
    BY <1>6, DemoteInv, PromoteInv
  <1>7. CASE Restart
    BY <1>7, RestartInv
  <1>8. CASE UNCHANGED vars
    BY <1>8 DEF vars, IInv, Typed, CacheSound, SoundEntry, SoundRequest, Sound, QueryableShown
  <1> QED
    BY <1>1, <1>2, <1>3, <1>4, <1>5, <1>6, <1>7, <1>8 DEF QueryNext

-------------------------------------------------------------------------------
(* Every reachable state is well typed; in particular a request makes one  *)
(* more attempt at most (query_records).                                   *)
THEOREM QueryTypeCorrect == QuerySpec => []QueryTypeOK
  <1>1. IInv => QueryTypeOK
    BY BoundAssumption DEF IInv, Typed, CacheSound, SoundEntry, Sound, SoundRequest, RequestRecord,
                           Busy, QueryTypeOK
  <1> QED
    BY InitInv, NextInv, <1>1, PTL DEF QuerySpec

(* No reply comes from a generation that was replaced before its request   *)
(* arrived, whether it was computed or cached, and however many clients,   *)
(* generations and evictions there are (query_records, QueryResultCache).  *)
THEOREM RepliesAreFresh == QuerySpec => []RepliesFromNewest
  <1>1. IInv => RepliesFromNewest
    BY BoundAssumption DEF IInv, Typed, SoundRequest, RequestRecord, Sound, Replied, RepliesFromNewest
  <1> QED
    BY InitInv, NextInv, <1>1, PTL DEF QuerySpec

(* No reply rests on a record that was withdrawn before the generation it  *)
(* comes from was published, and not restored since, although the points   *)
(* are there (_hydrate_and_filter).                                        *)
THEOREM WithdrawnAreSilent == QuerySpec => []WithdrawnStayOut
  <1>1. IInv => WithdrawnStayOut
    BY DEF IInv, SoundRequest, Sound, Replied, WithdrawnStayOut
  <1> QED
    BY InitInv, NextInv, <1>1, PTL DEF QuerySpec

===============================================================================
