------------------------------ MODULE Indexing ------------------------------
(***************************************************************************)
(* What a generation's collection is filled with.                          *)
(*                                                                         *)
(* A build cuts the records it has loaded into chunks, has a model write a *)
(* context for each (looked up in a cache first, otherwise asked for by    *)
(* concurrent calls that are retried), saves the new contexts, embeds the  *)
(* chunks and activates.  Records are edited in place meanwhile            *)
(* (enrichment).  Builds follow one another here; how they overlap is the  *)
(* subject of ServingGenerations.                                          *)
(***************************************************************************)
EXTENDS Chunking

CONSTANTS
    Setups,            \* the installations and the records they hold
    MaxConcurrency,    \* contextual_retrieval_max_concurrency
    MaxRetries,        \* contextual_retrieval_max_retries
    ContextBatch,      \* _DEFAULT_BATCH_SIZE
    EmbedBatch,        \* _EMBED_BATCH
    MaxBuilds          \* bound on the number of builds

ASSUME BatchesAssumption ==
    /\ MaxConcurrency \in Nat \ {0} /\ ContextBatch \in Nat \ {0}
    /\ EmbedBatch \in Nat \ {0} /\ MaxRetries \in Nat /\ MaxBuilds \in Nat

(* versions: for each record the documents it holds one after the other;   *)
(* limited: the build is called from a running event loop.                 *)
ASSUME SetupsAssumption ==
    \A s \in Setups :
        /\ {s.contextual, s.batched, s.limited} \subseteq BOOLEAN
        /\ s.versions \in Seq(Seq(Document) \ {<<>>})

VARIABLES
    setup,
    edition,   \* which of its documents each record holds
    cache,     \* contextual_chunk_cache: key -> context
    builds,    \* number of builds started
    pc,        \* where the build is
    loaded,    \* the editions it has loaded
    chunks,    \* their chunks, in order
    todo,      \* the batches of chunks whose context is still to be asked for
    batch,     \* the chunks of the current batch that wait for the semaphore
    calls,     \* those that hold it, with the retries each has made
    asleep,    \* those of them that pause before the next attempt
    results,   \* the contexts so far; Plain if the chunk stays as it is
    cacheable, \* the chunks whose context the model has written
    next,      \* the first chunk that is not embedded yet
    points,    \* what the new collection holds
    failed,    \* failed_record_version_ids
    active     \* the generation activated last

contextVars == <<todo, batch, calls, asleep, results, cacheable>>
embedVars == <<next, points, failed>>
buildVars == <<pc, loaded, chunks, contextVars, embedVars>>
indexingVars == <<setup, edition, cache, builds, buildVars, active>>

Plain == [plain |-> TRUE]

(* dict.update and the assignment to one key. *)
Updated(dict, new) ==
    [k \in DOMAIN dict \cup DOMAIN new |-> IF k \in DOMAIN new THEN new[k] ELSE dict[k]]

Put(dict, key, value) == Updated(dict, [k \in {key} |-> value])

Contents(s, editions) == [r \in DOMAIN s.versions |-> s.versions[r][editions[r]]]

ChunksOf(document, r) ==
    LET texts == ChunkTexts(document)
    IN  [i \in DOMAIN texts |-> [record |-> r, index |-> i, text |-> texts[i]]]

(* Faulty variant: the key names the chunk, not its text. *)
KeyWithoutText(c) == <<c.record, c.index>>

(* _cache_key *)
Key(c) == <<c.record, c.index, c.text>>

BatchesOf(items, size) ==
    [i \in 1 .. (Len(items) + size - 1) \div size |->
        SubSeq(items, (i - 1) * size + 1, Min({i * size, Len(items)}))]

(* The first batch is a small one, to warm up the connections. *)
Batches(items) ==
    LET warmUp == Max({1, MaxConcurrency \div 5})
    IN  IF Len(items) <= warmUp THEN <<items>>
        ELSE <<SubSeq(items, 1, warmUp)>> \o BatchesOf(SubSeq(items, warmUp + 1, Len(items)), ContextBatch)

IndexingInit ==
    /\ setup \in Setups
    /\ edition = [r \in DOMAIN setup.versions |-> 1]
    /\ cache = <<>>
    /\ builds = 0
    /\ pc = "idle" /\ loaded = <<>> /\ chunks = <<>>
    /\ todo = <<>> /\ batch = <<>> /\ calls = <<>> /\ asleep = {}
    /\ results = <<>> /\ cacheable = {}
    /\ next = 1 /\ points = {} /\ failed = {}
    /\ active = [loaded |-> <<>>, points |-> {}, failed |-> {}]

(* The call of the build returns or raises: what it held in memory is gone. *)
Return ==
    /\ pc' = "idle" /\ loaded' = <<>> /\ chunks' = <<>>
    /\ todo' = <<>> /\ batch' = <<>> /\ calls' = <<>> /\ asleep' = {}
    /\ results' = <<>> /\ cacheable' = {}
    /\ next' = 1 /\ points' = {} /\ failed' = {}

-----------------------------------------------------------------------------
(* Enrichment fills in labels of some records, under the same version ids. *)
Enrich(filled) ==
    /\ \A r \in filled : edition[r] < Len(setup.versions[r])
    /\ edition' = [r \in DOMAIN edition |-> IF r \in filled THEN edition[r] + 1 ELSE edition[r]]
    /\ UNCHANGED <<setup, cache, builds, buildVars, active>>

(* Phases 1 and 2: the records are read once, then cut. *)
BeginBuild ==
    /\ pc = "idle"
    /\ builds < MaxBuilds
    /\ builds' = builds + 1
    /\ loaded' = edition
    /\ LET contents == Contents(setup, edition)
       IN  chunks' = FlattenSeq([r \in DOMAIN contents |-> ChunksOf(contents[r], r)])
    /\ pc' = IF setup.contextual THEN "lookup" ELSE "embed"
    /\ UNCHANGED <<setup, edition, cache, contextVars, embedVars, active>>

(* contextualize: cached contexts are taken, the others asked for. *)
LookUp ==
    /\ pc = "lookup"
    /\ LET hits == {i \in DOMAIN chunks : Key(chunks[i]) \in DOMAIN cache}
           misses == FlattenSeq([i \in DOMAIN chunks |-> IF i \in hits THEN <<>> ELSE <<i>>])
       IN  /\ results' = [i \in hits |-> cache[Key(chunks[i])]]
           /\ todo' = IF misses = <<>> THEN <<>> ELSE Batches(misses)
           /\ pc' = IF misses = <<>> THEN "embed" ELSE "calls"
    /\ UNCHANGED <<setup, edition, cache, builds, loaded, chunks, batch, calls, asleep,
                   cacheable, embedVars, active>>

Calling == UNCHANGED <<setup, edition, cache, builds, pc, loaded, chunks, embedVars, active>>

(* A batch begins when the one before has been gathered. *)
NextBatch ==
    /\ pc = "calls"
    /\ todo # <<>> /\ batch = <<>> /\ calls = <<>>
    /\ batch' = Head(todo)
    /\ todo' = Tail(todo)
    /\ Calling /\ UNCHANGED <<calls, asleep, results, cacheable>>

(* The semaphore lets the chunks in one after the other. *)
Acquire ==
    /\ batch # <<>>
    /\ Cardinality(DOMAIN calls) < MaxConcurrency
    /\ calls' = Put(calls, Head(batch), 0)
    /\ batch' = Tail(batch)
    /\ Calling /\ UNCHANGED <<todo, asleep, results, cacheable>>

InFlight(i) == i \in DOMAIN calls \ asleep

Release(i) == calls' = Restrict(calls, DOMAIN calls \ {i})

(* The model has read the document as it was loaded. *)
CallReturns(i) ==
    /\ InFlight(i)
    /\ results' = Put(results, i, [plain |-> FALSE, of |-> chunks[i]])
    /\ cacheable' = cacheable \cup {i}
    /\ Release(i)
    /\ Calling /\ UNCHANGED <<todo, batch, asleep>>

(* Faulty variant: what stands in for a context that could not be had is   *)
(* cached like one.                                                        *)
CallFallsBack(i) ==
    /\ InFlight(i)
    /\ results' = Put(results, i, Plain)
    /\ cacheable' = cacheable \cup {i}
    /\ Release(i)
    /\ Calling /\ UNCHANGED <<todo, batch, asleep>>

(* The model says nothing, the error is a lasting one, or it is the last    *)
(* attempt: the chunk goes on without a context.                           *)
CallFails(i) ==
    /\ InFlight(i)
    /\ results' = Put(results, i, Plain)
    /\ Release(i)
    /\ Calling /\ UNCHANGED <<todo, batch, asleep, cacheable>>

(* Faulty variant: attempts are not counted. *)
RetryForEver(i) ==
    /\ InFlight(i)
    /\ asleep' = asleep \cup {i}
    /\ Calling /\ UNCHANGED <<todo, batch, calls, results, cacheable>>

(* A passing error: the chunk pauses, without giving its place to another. *)
RetryLater(i) ==
    /\ InFlight(i)
    /\ calls[i] < MaxRetries
    /\ asleep' = asleep \cup {i}
    /\ calls' = [calls EXCEPT ![i] = @ + 1]
    /\ Calling /\ UNCHANGED <<todo, batch, results, cacheable>>

Wake(i) ==
    /\ i \in asleep
    /\ asleep' = asleep \ {i}
    /\ Calling /\ UNCHANGED <<todo, batch, calls, results, cacheable>>

(* New contexts are saved when all are there; a failure of that is logged. *)
SaveContexts(saved) ==
    /\ pc = "calls"
    /\ todo = <<>> /\ batch = <<>> /\ calls = <<>>
    /\ saved \/ cacheable # {}
    /\ LET written == [k \in {Key(chunks[i]) : i \in cacheable} |->
                          results[CHOOSE i \in cacheable : Key(chunks[i]) = k]]
       IN  cache' = IF saved THEN Updated(cache, written) ELSE cache
    /\ pc' = "embed"
    /\ UNCHANGED <<setup, edition, builds, loaded, chunks, contextVars, embedVars, active>>

(* run_sync gives up after 600 seconds; nothing has been saved by then.     *)
TimeLimit ==
    /\ setup.limited
    /\ pc = "calls"
    /\ Return
    /\ UNCHANGED <<setup, edition, cache, builds, active>>

-----------------------------------------------------------------------------
(* The point of a chunk: its text under its context, if it has one. *)
PointOf(i) == [chunk |-> chunks[i], context |-> IF i \in DOMAIN results THEN results[i] ELSE Plain]

(* The composite provider embeds batches, the hashing one does not. *)
Batched == setup.batched

Embedding == UNCHANGED <<setup, edition, cache, builds, loaded, chunks, contextVars, active>>

EmbedTogether ==
    /\ pc = "embed"
    /\ Batched
    /\ next <= Len(chunks)
    /\ LET last == Min({next + EmbedBatch - 1, Len(chunks)})
       IN  /\ points' = points \cup {PointOf(i) : i \in next .. last}
           /\ next' = last + 1
    /\ Embedding /\ UNCHANGED <<pc, failed>>

(* The provider rejects a batch: its chunks are tried one by one. *)
BatchRejected ==
    /\ pc = "embed"
    /\ Batched
    /\ next <= Len(chunks)
    /\ pc' = "single"
    /\ Embedding /\ UNCHANGED embedVars

EmbedsSingly == pc = "single" \/ (pc = "embed" /\ ~Batched /\ next <= Len(chunks))

(* After the last of a rejected batch the next batch is tried as a whole. *)
Advance ==
    /\ next' = next + 1
    /\ pc' = IF next % EmbedBatch = 0 \/ next = Len(chunks) THEN "embed" ELSE pc

EmbedOne ==
    /\ EmbedsSingly
    /\ points' = points \cup {PointOf(next)}
    /\ Advance
    /\ Embedding /\ UNCHANGED failed

(* Faulty variant: only a record none of whose chunks is there is listed. *)
OneRejectedIfNew ==
    /\ EmbedsSingly
    /\ failed' = IF \E p \in points : p.chunk.record = chunks[next].record THEN failed
                 ELSE failed \cup {chunks[next].record}
    /\ Advance
    /\ Embedding /\ UNCHANGED points

OneRejected ==
    /\ EmbedsSingly
    /\ failed' = failed \cup {chunks[next].record}
    /\ Advance
    /\ Embedding /\ UNCHANGED points

AllEmbedded == pc = "embed" /\ next > Len(chunks)

(* A generation of no records is activated too, but only by the composite   *)
(* provider's branch: the other one deletes a loop variable that was never  *)
(* set, and raises.                                                         *)
Activate ==
    /\ AllEmbedded
    /\ points # {} \/ (chunks = <<>> /\ Batched)
    /\ active' = [loaded |-> loaded, points |-> points, failed |-> failed]
    /\ Return
    /\ UNCHANGED <<setup, edition, cache, builds>>

(* No chunk could be embedded: the build raises. *)
NothingEmbedded ==
    /\ AllEmbedded
    /\ points = {}
    /\ chunks # <<>> \/ ~Batched
    /\ Return
    /\ UNCHANGED <<setup, edition, cache, builds, active>>

(* A call of Qdrant or the database raises, or the process dies. *)
BuildFails ==
    /\ pc # "idle"
    /\ Return
    /\ UNCHANGED <<setup, edition, cache, builds, active>>

-----------------------------------------------------------------------------
CallStep(i) == CallReturns(i) \/ CallFails(i) \/ RetryLater(i) \/ Wake(i)

BuildStep ==
    \/ LookUp \/ NextBatch \/ Acquire
    \/ \E i \in DOMAIN calls : CallStep(i)
    \/ \E saved \in BOOLEAN : SaveContexts(saved)
    \/ TimeLimit
    \/ EmbedTogether \/ BatchRejected \/ EmbedOne \/ OneRejected
    \/ Activate \/ NothingEmbedded

IndexingNext ==
    \/ \E filled \in SUBSET DOMAIN setup.versions : Enrich(filled)
    \/ BeginBuild \/ BuildStep \/ BuildFails

IndexingSpec == IndexingInit /\ [][IndexingNext]_indexingVars

(* A build goes on: its calls have time limits. *)
FairIndexingSpec == IndexingSpec /\ WF_indexingVars(BuildStep)

-----------------------------------------------------------------------------
(* No chunk is longer than MAX_CHUNK_CHARS: whatever the prefix, the         *)
(* separators and the overlap take, the parts are cut so that it fits        *)
(* (build_chunks, _split_text, _apply_chunk_overlap).                        *)
ChunksFit == \A i \in DOMAIN chunks : Len(chunks[i].text) <= MaxChars

(* Every letter of a record that was loaded can be found in a point of the   *)
(* generation that was activated, unless the record is listed as failed:     *)
(* cutting, batching and falling back to single calls lose nothing silently  *)
(* (build_and_activate, phases 2 to 5).                                      *)
NothingLost ==
    \A r \in DOMAIN active.loaded \ active.failed :
        LettersOf(setup.versions[r][active.loaded[r]]) \subseteq
            UNION {Letters(p.chunk.text) : p \in {q \in active.points : q.chunk.record = r}}

(* A context stands before the text it was written for, also when a record   *)
(* was edited between two builds, and a chunk that got none for want of an   *)
(* answer is asked for again by the next build (_cache_key, contextualize).  *)
ContextsBelong ==
    /\ \A p \in points \cup active.points :
           p.context = Plain \/ p.context.of = p.chunk
    /\ \A k \in DOMAIN cache : cache[k] # Plain

(* A build ends, whatever the model and the provider answer                  *)
(* (_process_groups_async, build_and_activate).                              *)
BuildsEnd == pc # "idle" ~> pc = "idle"

=============================================================================
