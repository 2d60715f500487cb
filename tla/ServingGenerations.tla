------------------------- MODULE ServingGenerations -------------------------
(***************************************************************************)
(* Building, activating and retiring serving generations.                  *)
(*                                                                         *)
(* A builder (ServingGenerationBuilder.build_and_activate, run by the      *)
(* update cycle, the build script, the index job executor or the API's     *)
(* start-up) works across two stores that share no transaction: the        *)
(* database (generation rows, record rows) and Qdrant (collections and     *)
(* one alias).  Every database transaction and every Qdrant call below is  *)
(* a step of its own, so builders, record updates and crashes interleave   *)
(* between any two of them.                                                *)
(*                                                                         *)
(* Abstractions.  A generation row, its label and its collection are       *)
(* identified by the label, because the collection name is derived from    *)
(* the label and labels are unique; the row also names the builder that    *)
(* created it, which stands for the row's random primary key.  A record is *)
(* upserted in one step: its chunks (there is always one) are not told     *)
(* apart, and it counts as embedded when at least one of them is.  What    *)
(* the pipeline decides about a record (verified, current, authoritative,  *)
(* from an allowed source) is one flag, because the builder only reads the *)
(* conjunction.                                                            *)
(***************************************************************************)
EXTENDS Naturals, FiniteSets

CONSTANTS
    Records,     \* canonical record versions
    Labels,      \* generation labels, hence collection names
    Builders,    \* processes that run build_and_activate
    NULL,        \* None
    Faults,      \* which external failures may happen
    Primary(_)   \* resolve_duplicates(...).primary_records

FaultKinds == {"crash", "build", "embed", "activate", "rollback", "cleanup", "reset"}

ASSUME NullAssumption == NULL \notin Labels /\ NULL \notin Builders
ASSUME FaultsAssumption == Faults \subseteq FaultKinds
ASSUME PrimaryAssumption ==
    \A S \in SUBSET Records : Primary(S) \in SUBSET S

VARIABLES
    gens,         \* serving_generations: the row of each label
    collections,  \* the collections that exist in Qdrant
    points,       \* points[l][r]: builder whose points for r collection l holds
    alias,        \* the collection the alias resolves to, or NULL
    loadable,     \* the records whose flags let a build load them
    serving,      \* canonical_records.serving_status
    job           \* the local state of each builder

stores == <<gens, collections, points, alias>>
recordVars == <<loadable, serving>>
vars == <<gens, collections, points, alias, loadable, serving, job>>

GenStatus == {"absent", "staged", "active", "retired", "failed"}

Row == [status : GenStatus, owner : Builders \cup {NULL}, ids : SUBSET Records]

NoRow == [status |-> "absent", owner |-> NULL, ids |-> {}]

ServingStatus == {"eligible", "pending_index", "indexed_active",
                  "pending_deindex", "deindexed", "ineligible"}

Queryable == {"eligible", "pending_index", "indexed_active"}

Job == [pc : {"idle", "load", "embed", "upsert", "switch", "activate", "rollback",
              "cleanup"},
        lab : Labels \cup {NULL},      \* generation_label
        prev : Labels \cup {NULL},     \* previous_collection
        prevIds : SUBSET Records,      \* previous_record_ids
        plan : SUBSET Records,         \* dedupe_result.primary_records
        new : SUBSET Records,          \* new_record_ids
        bad : SUBSET Records]          \* failed_record_version_ids

IdleJob == [pc |-> "idle", lab |-> NULL, prev |-> NULL, prevIds |-> {},
            plan |-> {}, new |-> {}, bad |-> {}]

NoPoints == [r \in Records |-> NULL]

TypeOK ==
    /\ gens \in [Labels -> Row]
    /\ collections \in SUBSET Labels
    /\ points \in [Labels -> [Records -> Builders \cup {NULL}]]
    /\ alias \in Labels \cup {NULL}
    /\ loadable \in SUBSET Records
    /\ serving \in [Records -> ServingStatus]
    /\ job \in [Builders -> Job]

-----------------------------------------------------------------------------
(***************************************************************************)
(* Helpers.                                                                *)
(***************************************************************************)

IsActive(l) == gens[l].status = "active"

ActiveLabels == {l \in Labels : IsActive(l)}

(* The label of the active generation, NULL if there is none. *)
ActiveLabel ==
    IF ActiveLabels = {} THEN NULL ELSE CHOOSE l \in ActiveLabels : TRUE

(* The records whose points in collection l carry the id of l's own row. *)
Contents(l) == {r \in Records : points[l][r] = gens[l].owner /\ gens[l].owner # NULL}

(* _load_current_authoritative_records *)
CurrentAuthoritative == {r \in loadable : serving[r] \in Queryable}

(* delete_collection; Qdrant drops the aliases of a deleted collection. *)
DeleteCollection(l) ==
    /\ collections' = collections \ {l}
    /\ points' = [points EXCEPT ![l] = NoPoints]
    /\ alias' = IF alias = l THEN NULL ELSE alias

SetJob(b, j) == job' = [job EXCEPT ![b] = j]

Goto(b, label) == SetJob(b, [job[b] EXCEPT !.pc = label])

Finish(b) == SetJob(b, IdleJob)

-----------------------------------------------------------------------------
Init ==
    /\ gens = [l \in Labels |-> NoRow]
    /\ collections = {}
    /\ points = [l \in Labels |-> NoPoints]
    /\ alias = NULL
    /\ loadable = {}
    /\ serving = [r \in Records |-> "ineligible"]
    /\ job = [b \in Builders |-> IdleJob]

-----------------------------------------------------------------------------
(***************************************************************************)
(* Faulty variants.  Each is an operation of the builder with one plausible *)
(* mistake; no specification uses them.  The runs substitute them for the   *)
(* operation to show that a property notices the mistake.                   *)
(***************************************************************************)

(* The replaced row gets a status outside the column's check constraint. *)
CommitUnknownStatus(b, l) ==
    /\ gens' = [k \in Labels |->
          IF k = l THEN [status |-> "active", owner |-> b, ids |-> job[b].new]
          ELSE IF IsActive(k) THEN [gens[k] EXCEPT !.status = "replaced"]
          ELSE gens[k]]
    /\ UNCHANGED recordVars

(* The commit retires the generation that was active at plan time. *)
CommitRetiresPlanned(b, l) ==
    /\ gens' = [k \in Labels |->
          IF k = l THEN [status |-> "active", owner |-> b, ids |-> job[b].new]
          ELSE IF k = job[b].prev THEN [gens[k] EXCEPT !.status = "retired"]
          ELSE gens[k]]
    /\ UNCHANGED recordVars

(* The commit forgets to de-index the records that were dropped. *)
CommitKeepsDropped(b, l) ==
    /\ gens' = [k \in Labels |->
          IF k = l THEN [status |-> "active", owner |-> b, ids |-> job[b].new]
          ELSE IF IsActive(k) THEN [gens[k] EXCEPT !.status = "retired"]
          ELSE gens[k]]
    /\ serving' = [r \in Records |->
          IF r \in job[b].new THEN "indexed_active" ELSE serving[r]]
    /\ UNCHANGED loadable

(* The label's unique constraint is missing: a used label is staged again. *)
StageAgain(b, l) ==
    /\ job[b].pc = "load"
    /\ gens' = [gens EXCEPT ![l] = [status |-> "staged", owner |-> b, ids |-> {}]]
    /\ SetJob(b, [job[b] EXCEPT !.pc = "embed", !.lab = l,
                                !.plan = Primary(CurrentAuthoritative)])
    /\ UNCHANGED <<collections, points, alias, recordVars>>

(* The clean-up runs after a failed activation too. *)
FailureCleansUp(b) ==
    /\ job[b].pc = "activate"
    /\ "activate" \in Faults
    /\ IF job[b].prev = NULL THEN Finish(b) ELSE Goto(b, "cleanup")
    /\ UNCHANGED <<stores, recordVars>>

(* The retired collection is never cleaned up. *)
ActivateOnly(b) ==
    /\ job[b].pc = "activate"
    /\ gens[job[b].lab].owner \in {b, NULL}
    /\ gens' = [k \in Labels |->
          IF k = job[b].lab THEN [status |-> "active", owner |-> b, ids |-> job[b].new]
          ELSE IF IsActive(k) THEN [gens[k] EXCEPT !.status = "retired"]
          ELSE gens[k]]
    /\ Finish(b)
    /\ UNCHANGED <<collections, points, alias, recordVars>>

(* The activation waits until the alias is where this build put it. *)
ActivateWithAlias(b) ==
    /\ job[b].pc = "activate"
    /\ alias = job[b].lab
    /\ gens' = [k \in Labels |->
          IF k = job[b].lab THEN [status |-> "active", owner |-> b, ids |-> job[b].new]
          ELSE IF IsActive(k) THEN [gens[k] EXCEPT !.status = "retired"]
          ELSE gens[k]]
    /\ Finish(b)
    /\ UNCHANGED <<collections, points, alias, recordVars>>

-----------------------------------------------------------------------------
(***************************************************************************)
(* The builder.                                                            *)
(***************************************************************************)

(* Phase 1, get_active_generation in its own session. *)
ReadActive(b) ==
    /\ job[b].pc = "idle"
    /\ SetJob(b, [IdleJob EXCEPT !.pc = "load",
                                 !.prev = ActiveLabel,
                                 !.prevIds = IF ActiveLabel = NULL THEN {}
                                             ELSE gens[ActiveLabel].ids])
    /\ UNCHANGED <<stores, recordVars>>

(* Phase 1, load and deduplicate the records, insert the staged row. *)
StagePlan(b, l) ==
    /\ job[b].pc = "load"
    /\ gens[l].status = "absent"
    /\ gens' = [gens EXCEPT ![l] = [status |-> "staged", owner |-> b, ids |-> {}]]
    /\ SetJob(b, [job[b] EXCEPT !.pc = "embed", !.lab = l,
                                !.plan = Primary(CurrentAuthoritative)])
    /\ UNCHANGED <<collections, points, alias, recordVars>>

(* Phase 1, the label is taken: the insert violates its unique constraint. *)
StageRejected(b, l) ==
    /\ job[b].pc = "load"
    /\ gens[l].status # "absent"
    /\ Finish(b)
    /\ UNCHANGED <<stores, recordVars>>

Unembedded(b) == job[b].plan \ (job[b].new \cup job[b].bad)

(* Phases 4 and 5, the first vector is there: ensure_collection creates the *)
(* collection it will be written to.                                         *)
CreateCollection(b) ==
    /\ job[b].pc = "embed"
    /\ Unembedded(b) # {}
    /\ job[b].new = {}
    /\ job[b].lab \notin collections
    /\ collections' = collections \cup {job[b].lab}
    /\ Goto(b, "upsert")
    /\ UNCHANGED <<gens, points, alias, recordVars>>

(* Phases 4 and 5, upsert_records: a record's points are written. *)
Upsert(b, r) ==
    /\ job[b].pc = "upsert" \/ (job[b].pc = "embed" /\ job[b].new # {})
    /\ r \in Unembedded(b)
    /\ job[b].lab \in collections
    /\ points' = [points EXCEPT ![job[b].lab] = [@ EXCEPT ![r] = b]]
    /\ SetJob(b, [job[b] EXCEPT !.pc = "embed", !.new = @ \cup {r}])
    /\ UNCHANGED <<gens, collections, alias, recordVars>>

(* Phases 4 and 5, no chunk of the record could be embedded. *)
EmbedFails(b, r) ==
    /\ "embed" \in Faults
    /\ job[b].pc = "embed"
    /\ r \in Unembedded(b)
    /\ SetJob(b, [job[b] EXCEPT !.bad = @ \cup {r}])
    /\ UNCHANGED <<stores, recordVars>>

(* Every planned record was tried and at least one was embedded. *)
EmbedDone(b) ==
    /\ job[b].pc = "embed"
    /\ Unembedded(b) = {}
    /\ job[b].new # {}
    /\ Goto(b, "switch")
    /\ UNCHANGED <<stores, recordVars>>

(* Nothing to embed: ensure_collection creates an empty collection unless it *)
(* is there already.                                                         *)
EmbedNothing(b) ==
    /\ job[b].pc = "embed"
    /\ job[b].plan = {}
    /\ collections' = collections \cup {job[b].lab}
    /\ Goto(b, "switch")
    /\ UNCHANGED <<gens, points, alias, recordVars>>

(* Chunks existed and none was embedded: RuntimeError. *)
ZeroChunks(b) ==
    /\ job[b].pc = "embed"
    /\ job[b].plan # {}
    /\ Unembedded(b) = {}
    /\ job[b].new = {}
    /\ Finish(b)
    /\ UNCHANGED <<stores, recordVars>>

(* Phase 6, switch_alias: delete and create in one Qdrant request. *)
SwitchAlias(b) ==
    /\ job[b].pc = "switch"
    /\ job[b].lab \in collections
    /\ alias' = job[b].lab
    /\ Goto(b, "activate")
    /\ UNCHANGED <<gens, collections, points, recordVars>>

(* What one activation transaction writes: merge the row of label l (a row   *)
(* that is gone is inserted again), retire the row that is active now, mark  *)
(* the new records and de-index those only the previous generation had.      *)
ActivationCommit(b, l) ==
    /\ gens' = [k \in Labels |->
          IF k = l THEN [status |-> "active", owner |-> b, ids |-> job[b].new]
          ELSE IF IsActive(k) THEN [gens[k] EXCEPT !.status = "retired"]
          ELSE gens[k]]
    /\ serving' = [r \in Records |->
          IF r \in job[b].new THEN "indexed_active"
          ELSE IF r \in job[b].prevIds THEN "deindexed"
          ELSE serving[r]]
    /\ UNCHANGED loadable

(* Phase 6, the activation transaction commits. *)
Activate(b) ==
    /\ job[b].pc = "activate"
    /\ gens[job[b].lab].owner \in {b, NULL}
    /\ ActivationCommit(b, job[b].lab)
    /\ IF job[b].prev \in {NULL, job[b].lab} THEN Finish(b) ELSE Goto(b, "cleanup")
    /\ UNCHANGED <<collections, points, alias>>

(* Phase 6, the activation transaction is rolled back: the database fails,   *)
(* the unit of work sets the new row active before it retires the old one    *)
(* and meets the unique index on the active status, or another builder's     *)
(* row holds the label.  Without a previous collection the alias stays where *)
(* it is.                                                                    *)
ActivateFails(b) ==
    /\ job[b].pc = "activate"
    /\ "activate" \in Faults \/ gens[job[b].lab].owner \notin {b, NULL}
    /\ IF job[b].prev = NULL THEN Finish(b) ELSE Goto(b, "rollback")
    /\ UNCHANGED <<stores, recordVars>>

(* The alias is switched back; Qdrant refuses when the collection is gone.   *)
RollBackAlias(b) ==
    /\ job[b].pc = "rollback"
    /\ job[b].prev \in collections
    /\ alias' = job[b].prev
    /\ Finish(b)
    /\ UNCHANGED <<gens, collections, points, recordVars>>

RollBackFails(b) ==
    /\ job[b].pc = "rollback"
    /\ "rollback" \in Faults \/ job[b].prev \notin collections
    /\ Finish(b)
    /\ UNCHANGED <<stores, recordVars>>

(* Best-effort removal of the collection that was active at plan time. *)
CleanUp(b) ==
    /\ job[b].pc = "cleanup"
    /\ DeleteCollection(job[b].prev)
    /\ Finish(b)
    /\ UNCHANGED <<gens, recordVars>>

CleanUpFails(b) ==
    /\ "cleanup" \in Faults
    /\ job[b].pc = "cleanup"
    /\ Finish(b)
    /\ UNCHANGED <<stores, recordVars>>

(* An exception in phases 1 to 6 before the activation session opens: the    *)
(* chunker, the contextualizer's time limit, a Qdrant call, a collection     *)
(* that already exists or has disappeared.  Nothing is undone.               *)
BuildFails(b) ==
    /\ \/ "build" \in Faults /\ job[b].pc \in {"load", "embed", "upsert", "switch"}
       \/ /\ job[b].pc = "embed" /\ Unembedded(b) # {}
          /\ job[b].new = {} <=> job[b].lab \in collections
       \/ job[b].pc \in {"upsert", "switch"} /\ job[b].lab \notin collections
    /\ Finish(b)
    /\ UNCHANGED <<stores, recordVars>>

(* The process dies. *)
Crash(b) ==
    /\ "crash" \in Faults
    /\ job[b].pc # "idle"
    /\ Finish(b)
    /\ UNCHANGED <<stores, recordVars>>

-----------------------------------------------------------------------------
(***************************************************************************)
(* What the pipeline and the reviewers do to record rows meanwhile.        *)
(***************************************************************************)

SetRecord(r, isLoadable, status) ==
    /\ loadable' = IF isLoadable THEN loadable \cup {r} ELSE loadable \ {r}
    /\ serving' = [serving EXCEPT ![r] = status]
    /\ UNCHANGED <<stores, job>>

(* create_record, apply_decision: a crawl classifies the record. *)
Classify(r, authoritative) ==
    SetRecord(r, authoritative,
              IF authoritative THEN "eligible"
              ELSE IF serving[r] = "indexed_active" THEN "pending_deindex"
              ELSE "ineligible")

(* _apply_recomputed_decision: a review classifies the record again. *)
Recompute(r, authoritative) ==
    SetRecord(r, authoritative,
        IF authoritative
        THEN IF serving[r] = "indexed_active" THEN "indexed_active" ELSE "pending_index"
        ELSE IF serving[r] \in {"indexed_active", "pending_deindex"} THEN "pending_deindex"
        ELSE "ineligible")

(* downgrade_expired_sources: the record's source has gone stale. *)
Downgrade(r) ==
    SetRecord(r, FALSE,
              IF serving[r] \in Queryable \cup {"pending_deindex"}
              THEN "pending_deindex" ELSE "ineligible")

RecordStep ==
    \E r \in Records :
        \/ \E authoritative \in BOOLEAN :
              Classify(r, authoritative) \/ Recompute(r, authoritative)
        \/ Downgrade(r)

-----------------------------------------------------------------------------
(* What a build does once it has planned. *)
AfterPlan(b) ==
    \/ CreateCollection(b)
    \/ \E r \in Records : Upsert(b, r) \/ EmbedFails(b, r)
    \/ EmbedDone(b) \/ EmbedNothing(b) \/ ZeroChunks(b)
    \/ SwitchAlias(b)
    \/ Activate(b) \/ ActivateFails(b)
    \/ RollBackAlias(b) \/ RollBackFails(b)
    \/ CleanUp(b) \/ CleanUpFails(b)
    \/ BuildFails(b)

(* The steps a running build takes by itself. *)
BuildStep(b) ==
    \/ \E l \in Labels : StagePlan(b, l) \/ StageRejected(b, l)
    \/ AfterPlan(b)

Next ==
    \/ \E b \in Builders : ReadActive(b) \/ BuildStep(b) \/ Crash(b)
    \/ RecordStep

Spec == Init /\ [][Next]_vars

-----------------------------------------------------------------------------
(***************************************************************************)
(* Properties.                                                             *)
(***************************************************************************)

(* At most one generation is active, whatever builders overlap: activation  *)
(* retires the generation that is active when it commits, not the one the    *)
(* builder read when it planned (activate_generation).                       *)
SingleActive == \A k, l \in Labels : IsActive(k) /\ IsActive(l) => k = l

(* The active generation is immutable and complete: its collection exists    *)
(* and holds, under its own id, exactly the records its metadata lists, even *)
(* while other builders fail, roll back and delete the collections they      *)
(* replaced (build_and_activate).                                            *)
ActiveIntact ==
    \A l \in Labels : IsActive(l) =>
        l \in collections /\ Contents(l) = gens[l].ids

(* A reader sees generations replaced atomically: neither the alias switch,  *)
(* nor a failed activation, a rollback or a clean-up by any builder changes  *)
(* what the active generation answers from, and a replaced generation never  *)
(* returns (activate_generation, delete_collection).                         *)
LiveContent == UNION {Contents(l) : l \in ActiveLabels \cap collections}

EverActive == {l \in Labels : gens[l].status \in {"active", "retired"}}

Promise == INSTANCE PublishedGenerations
           WITH live <- ActiveLabel, content <- LiveContent, published <- EverActive

PublishesAtomically == Promise!Spec

(* With one builder, a record marked indexed_active can be retrieved: the    *)
(* active collection holds its points.  Crashes and rolled back activations  *)
(* do not break it (_mark_records_indexed_active, _mark_records_deindexed).  *)
IndexedIsRetrievable ==
    \A r \in Records : serving[r] = "indexed_active" =>
        \E l \in ActiveLabels : l \in collections /\ r \in Contents(l)

Quiescent == \A b \in Builders : job[b].pc = "idle"

(* When no build runs, the alias resolves to the active generation's         *)
(* collection (switch_alias, its rollback and the activation commit).        *)
AliasAtRest == Quiescent /\ ActiveLabel # NULL => alias = ActiveLabel

(* A build that was started ends, whatever fails and whatever other builders *)
(* delete under it (the best-effort alias rollback and clean-up).            *)
BuildTerminates == \A b \in Builders : job[b].pc # "idle" ~> job[b].pc = "idle"

=============================================================================
