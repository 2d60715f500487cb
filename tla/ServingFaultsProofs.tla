----------------------- MODULE ServingFaultsProofs -----------------------
(***************************************************************************)
(* Proofs about the faults around the builds: start-ups, reset scripts and *)
(* crash recovery, for every set of workers, builders, labels and records  *)
(* and any number of crashes and scripts.                                  *)
(*                                                                         *)
(* Start-up and reset.  A wipe takes rows and collections away under a     *)
(* running build, so little of the invariant of the generations survives:  *)
(* a builder may own no row, and the active generation may lose its        *)
(* collection. What survives is what an activation makes true by itself:   *)
(* it retires whatever row is active when it commits, so two are never     *)
(* active; and a builder that writes a collection has a label to write to. *)
(*                                                                         *)
(* Recovery has two invariants.  The first holds for any number of         *)
(* builders: recovery runs while no build does, so what it has read stays  *)
(* true, and marking staged rows failed takes them from nobody.  The       *)
(* second is about a system with one builder at a time: then the           *)
(* generation a builder has planned against is still the active one when   *)
(* it commits, hence the alias it switches back, the collection it deletes *)
(* and the records it de-indexes are the right ones.  With two builders it *)
(* is false, and a run of ServingGenerations shows how.                    *)
(***************************************************************************)
EXTENDS ServingStartup, ServingRecovery, ServingGenerationsProofs

-----------------------------------------------------------------------------
(* The inductive invariant. *)

(* A builder that may create a collection has a label. *)
HasLabel(j) == j.pc \in {"embed", "upsert"} => j.lab \in Labels

BuildersOK == TypeOK /\ SingleActive /\ \A b \in Builders : HasLabel(job[b])

StartupInv == BuildersOK /\ StartupTypeOK

-----------------------------------------------------------------------------
(* The steps of builders and records. *)

(* The builder's local state is replaced; rows and stores keep their kinds. *)
LEMMA BuilderMoves ==
    ASSUME BuildersOK, NEW b \in Builders, NEW j \in Job, SetJob(b, j), HasLabel(j),
           gens' \in [Labels -> Row], SingleActive',
           collections' \in SUBSET Labels,
           points' \in [Labels -> [Records -> Builders \cup {NULL}]],
           alias' \in Labels \cup {NULL},
           loadable' = loadable, serving' \in [Records -> ServingStatus]
    PROVE  BuildersOK'
<1>1. /\ job' \in [Builders -> Job]
      /\ job'[b] = j
      /\ \A c \in Builders : c # b => job'[c] = job[c]
  BY SetJobFacts DEF BuildersOK
<1>2. TypeOK'
  BY <1>1 DEF BuildersOK, TypeOK
<1>3. \A c \in Builders : HasLabel(job'[c])
  BY <1>1 DEF BuildersOK
<1>4. QED
  BY <1>2, <1>3 DEF BuildersOK, HasLabel

(* The same when only the job and the alias change. *)
LEMMA BuilderMovesQuietly ==
    ASSUME BuildersOK, NEW b \in Builders, NEW j \in Job, SetJob(b, j), HasLabel(j),
           UNCHANGED <<gens, collections, points, loadable, serving>>,
           alias' \in Labels \cup {NULL}
    PROVE  BuildersOK'
<1>1. SingleActive'
  BY DEF BuildersOK, SingleActive, IsActive
<1>2. QED
  BY <1>1, BuilderMoves DEF BuildersOK, TypeOK

LEMMA BuilderStops ==
    ASSUME BuildersOK, NEW b \in Builders, Finish(b), UNCHANGED <<stores, recordVars>>
    PROVE  BuildersOK'
<1>1. HasLabel(IdleJob)
  BY DEF HasLabel, IdleJob
<1>2. QED
  BY <1>1, IdleJobFacts, BuilderMovesQuietly
  DEF Finish, stores, recordVars, BuildersOK, TypeOK

LEMMA ReadActiveKeeps ==
    ASSUME BuildersOK, NEW b \in Builders, ReadActive(b)
    PROVE  BuildersOK'
<1> DEFINE j == [IdleJob EXCEPT !.pc = "load", !.prev = ActiveLabel,
                                !.prevIds = IF ActiveLabel = NULL THEN {}
                                            ELSE gens[ActiveLabel].ids]
<1>1. j \in Job
  BY ActiveLabelFacts DEF BuildersOK, TypeOK, Row, IdleJob, Job
<1>2. HasLabel(j)
  BY DEF IdleJob, HasLabel
<1>3. QED
  BY <1>1, <1>2, BuilderMovesQuietly
  DEF ReadActive, stores, recordVars, BuildersOK, TypeOK

LEMMA StagePlanKeeps ==
    ASSUME BuildersOK, NEW b \in Builders, NEW l \in Labels, StagePlan(b, l)
    PROVE  BuildersOK'
<1> DEFINE j == [job[b] EXCEPT !.pc = "embed", !.lab = l,
                               !.plan = Primary(CurrentAuthoritative)]
<1>1. TypeOK /\ SingleActive /\ job[b] \in Job
  BY DEF BuildersOK, TypeOK
<1>2. Primary(CurrentAuthoritative) \in SUBSET Records
  BY <1>1, ConstantFacts DEF CurrentAuthoritative, TypeOK
<1>3. j \in Job /\ HasLabel(j)
  BY <1>1, <1>2 DEF Job, HasLabel
<1>4. gens' \in [Labels -> Row] /\ \A k \in Labels : IsActive(k)' => IsActive(k)
  BY <1>1 DEF StagePlan, TypeOK, Row, GenStatus, IsActive
<1>5. SingleActive'
  BY <1>1, <1>4 DEF SingleActive
<1>6. QED
  BY <1>1, <1>3, <1>4, <1>5, BuilderMoves DEF StagePlan, recordVars, TypeOK

(* Writing to the builder's own collection. *)
LEMMA WriteKeeps ==
    ASSUME BuildersOK, NEW b \in Builders,
           \/ CreateCollection(b) \/ EmbedNothing(b)
           \/ \E r \in Records : Upsert(b, r)
    PROVE  BuildersOK'
<1>1. TypeOK /\ job[b] \in Job /\ HasLabel(job[b])
  BY DEF BuildersOK, TypeOK
<1>2. job[b].lab \in Labels
  BY <1>1 DEF HasLabel, CreateCollection, EmbedNothing, Upsert
<1>3. UNCHANGED <<gens, alias, loadable, serving>> /\ SingleActive'
  BY DEF CreateCollection, EmbedNothing, Upsert, recordVars, BuildersOK, SingleActive, IsActive
<1>4. collections' \in SUBSET Labels
  BY <1>1, <1>2 DEF CreateCollection, EmbedNothing, Upsert, TypeOK
<1>5. CASE CreateCollection(b) \/ EmbedNothing(b)
  <2>1. PICK q \in {"upsert", "switch"} : SetJob(b, [job[b] EXCEPT !.pc = q])
    BY <1>5 DEF CreateCollection, EmbedNothing, Goto
  <2>2. [job[b] EXCEPT !.pc = q] \in Job /\ HasLabel([job[b] EXCEPT !.pc = q])
    BY <1>1, <1>2, <2>1 DEF Job, HasLabel
  <2>3. points' = points
    BY <1>5 DEF CreateCollection, EmbedNothing
  <2>4. QED
    BY <1>1, <1>3, <1>4, <2>1, <2>2, <2>3, BuilderMoves DEF TypeOK
<1>6. ASSUME NEW r \in Records, Upsert(b, r) PROVE BuildersOK'
  <2> DEFINE j == [job[b] EXCEPT !.pc = "embed", !.new = @ \cup {r}]
  <2>1. j \in Job /\ HasLabel(j) /\ SetJob(b, j)
    BY <1>1, <1>2, <1>6 DEF Upsert, Job, HasLabel
  <2>2. points' \in [Labels -> [Records -> Builders \cup {NULL}]]
    BY <1>1, <1>2, <1>6 DEF Upsert, TypeOK
  <2>3. QED
    BY <1>1, <1>3, <1>4, <2>1, <2>2, BuilderMoves DEF TypeOK
<1>7. QED
  BY <1>5, <1>6

(* Going on, or trying the next record, without writing rows or points. *)
LEMMA GoOnKeeps ==
    ASSUME BuildersOK, NEW b \in Builders,
           \/ EmbedDone(b) \/ SwitchAlias(b) \/ ActivateFails(b)
           \/ \E r \in Records : EmbedFails(b, r)
    PROVE  BuildersOK'
<1>1. TypeOK /\ job[b] \in Job /\ HasLabel(job[b])
  BY DEF BuildersOK, TypeOK
<1>2. /\ UNCHANGED <<gens, collections, points, loadable, serving>>
      /\ alias' \in Labels \cup {NULL}
  BY <1>1 DEF EmbedDone, SwitchAlias, ActivateFails, EmbedFails, stores, recordVars, TypeOK
<1>3. CASE Goto(b, "switch") \/ Goto(b, "activate") \/ Goto(b, "rollback")
  <2>1. PICK q \in {"switch", "activate", "rollback"} : SetJob(b, [job[b] EXCEPT !.pc = q])
    BY <1>3 DEF Goto
  <2>2. [job[b] EXCEPT !.pc = q] \in Job /\ HasLabel([job[b] EXCEPT !.pc = q])
    BY <1>1, <2>1 DEF Job, HasLabel
  <2>3. QED
    BY <1>2, <2>1, <2>2, BuilderMovesQuietly
<1>4. CASE ActivateFails(b) /\ Finish(b)
  BY <1>4, BuilderStops DEF ActivateFails
<1>5. ASSUME NEW r \in Records, EmbedFails(b, r) PROVE BuildersOK'
  <2> DEFINE j == [job[b] EXCEPT !.bad = @ \cup {r}]
  <2>1. j \in Job /\ HasLabel(j) /\ SetJob(b, j)
    BY <1>1, <1>5 DEF EmbedFails, Job, HasLabel
  <2>2. QED
    BY <1>2, <2>1, BuilderMovesQuietly
<1>6. QED
  BY <1>3, <1>4, <1>5 DEF EmbedDone, SwitchAlias, ActivateFails

(* The activation leaves one active row, whatever the others were. *)
LEMMA ActivateKeeps ==
    ASSUME BuildersOK, NEW b \in Builders, Activate(b)
    PROVE  BuildersOK'
<1> DEFINE l == job[b].lab
           j == IF job[b].prev \in {NULL, l} THEN IdleJob
                ELSE [job[b] EXCEPT !.pc = "cleanup"]
<1>1. TypeOK /\ job[b] \in Job
  BY DEF BuildersOK, TypeOK
<1>2. j \in Job /\ HasLabel(j)
  BY <1>1, IdleJobFacts DEF IdleJob, Job, HasLabel
<1>3. SetJob(b, j)
  BY DEF Activate, Finish, Goto
<1>4. gens' = [k \in Labels |->
          IF k = l THEN [status |-> "active", owner |-> b, ids |-> job[b].new]
          ELSE IF IsActive(k) THEN [gens[k] EXCEPT !.status = "retired"]
          ELSE gens[k]]
  BY DEF Activate, ActivationCommit
<1>5. (\A k \in Labels : gens[k] \in Row) /\ job[b].new \in SUBSET Records
  BY <1>1 DEF TypeOK, Job
<1>6. gens' \in [Labels -> Row]
  BY <1>4, <1>5 DEF Row, GenStatus
<1>7. \A k \in Labels : IsActive(k)' => k = l
  BY <1>4, <1>5 DEF IsActive, Row
<1>8. SingleActive'
  BY <1>7 DEF SingleActive
<1>9. serving' \in [Records -> ServingStatus]
  BY <1>1 DEF Activate, ActivationCommit, TypeOK, ServingStatus
<1>10. QED
  BY <1>1, <1>2, <1>3, <1>6, <1>8, <1>9, BuilderMoves
  DEF Activate, ActivationCommit, TypeOK

(* Deleting a collection keeps the stores in their kinds. *)
LEMMA DeleteFacts ==
    ASSUME TypeOK, NEW l, DeleteCollection(l)
    PROVE  /\ collections' \in SUBSET Labels
           /\ points' \in [Labels -> [Records -> Builders \cup {NULL}]]
           /\ alias' \in Labels \cup {NULL}
<1>1. NoPoints \in [Records -> Builders \cup {NULL}]
  BY DEF NoPoints
<1>2. QED
  BY <1>1 DEF DeleteCollection, TypeOK

(* The last steps of a build. *)
LEMMA EndKeeps ==
    ASSUME BuildersOK, NEW b \in Builders,
           \/ RollBackAlias(b) \/ CleanUp(b)
           \/ \E l : StageRejected(b, l)
           \/ ZeroChunks(b) \/ RollBackFails(b) \/ CleanUpFails(b)
           \/ BuildFails(b) \/ Crash(b)
    PROVE  BuildersOK'
<1>1. IdleJob \in Job /\ HasLabel(IdleJob) /\ TypeOK
  BY IdleJobFacts DEF HasLabel, IdleJob, BuildersOK
<1>2. CASE RollBackAlias(b)
  BY <1>1, <1>2, BuilderMovesQuietly DEF RollBackAlias, Finish, recordVars, TypeOK
<1>3. CASE CleanUp(b)
  <2>1. UNCHANGED <<gens, loadable, serving>> /\ SingleActive' /\ SetJob(b, IdleJob)
    BY <1>3 DEF CleanUp, Finish, recordVars, BuildersOK, SingleActive, IsActive
  <2>2. DeleteCollection(job[b].prev)
    BY <1>3 DEF CleanUp
  <2>3. QED
    BY <1>1, <2>1, <2>2, DeleteFacts, BuilderMoves DEF TypeOK
<1>4. CASE Finish(b) /\ UNCHANGED <<stores, recordVars>>
  BY <1>4, BuilderStops
<1>5. QED
  BY <1>2, <1>3, <1>4
  DEF StageRejected, ZeroChunks, RollBackFails, CleanUpFails, BuildFails, Crash

LEMMA RecordStepKeeps ==
    ASSUME BuildersOK, RecordStep
    PROVE  BuildersOK'
<1>1. PICK r \in Records, isLoadable \in BOOLEAN, status \in ServingStatus :
         SetRecord(r, isLoadable, status)
  BY DEF RecordStep, Classify, Recompute, Downgrade, ServingStatus
<1>2. UNCHANGED <<gens, job>> /\ TypeOK'
  BY <1>1 DEF SetRecord, BuildersOK, TypeOK, stores
<1>3. QED
  BY <1>2 DEF BuildersOK, SingleActive, IsActive, HasLabel

LEMMA AfterPlanKeeps ==
    ASSUME BuildersOK, NEW b \in Builders, AfterPlan(b)
    PROVE  BuildersOK'
BY WriteKeeps, GoOnKeeps, ActivateKeeps, EndKeeps DEF AfterPlan

-----------------------------------------------------------------------------
(* The wipe, by a worker or by the script. *)

(* One collection is deleted: the rows and the builders stay as they are. *)
LEMMA WipeCollection ==
    ASSUME BuildersOK, NEW l, DeleteCollection(l), UNCHANGED <<gens, recordVars, job>>
    PROVE  BuildersOK'
<1>1. TypeOK'
  BY DeleteFacts DEF BuildersOK, TypeOK, recordVars
<1>2. QED
  BY <1>1 DEF BuildersOK, SingleActive, IsActive, HasLabel

(* Every row is deleted: then none is active. *)
LEMMA WipeRows ==
    ASSUME BuildersOK, ClearRows,
           UNCHANGED <<collections, points, alias, loadable, job>>
    PROVE  BuildersOK'
<1>1. gens' \in [Labels -> Row] /\ \A l \in Labels : gens'[l].status = "absent"
  BY DEF ClearRows, NoRow, Row, GenStatus
<1>2. serving' \in [Records -> ServingStatus]
  BY DEF ClearRows, BuildersOK, TypeOK, ServingStatus
<1>3. TypeOK' /\ SingleActive'
  BY <1>1, <1>2 DEF BuildersOK, TypeOK, SingleActive, IsActive
<1>4. QED
  BY <1>3 DEF BuildersOK, HasLabel

(* The alias is removed, or left. *)
LEMMA WipeAlias ==
    ASSUME BuildersOK, alias' \in {NULL, alias},
           UNCHANGED <<gens, collections, points, recordVars, job>>
    PROVE  BuildersOK'
BY DEF BuildersOK, TypeOK, SingleActive, IsActive, HasLabel, recordVars

LEMMA NothingWiped ==
    ASSUME BuildersOK, UNCHANGED vars
    PROVE  BuildersOK'
BY DEF BuildersOK, TypeOK, SingleActive, IsActive, HasLabel, vars

-----------------------------------------------------------------------------
(* The steps of the start-up. *)

LEMMA StartupFacts ==
    /\ Workers \subseteq Builders
    /\ FirstLabel \in Labels
    /\ MaxScripts \in Nat /\ MaxTroubles \in Nat
BY WorkersAssumption, FirstLabelAssumption, MaxScriptsAssumption, MaxTroublesAssumption

LEMMA WorkerStepKeeps ==
    ASSUME StartupInv, NEW w \in Workers, WorkerStep(w)
    PROVE  StartupInv'
<1>1. BuildersOK /\ StartupTypeOK /\ w \in Builders
  BY StartupFacts DEF StartupInv
<1>2. UNCHANGED <<script, scripts>>
  BY DEF WorkerStep, scriptVars
<1>3. /\ BuildersOK'
      /\ boot' \in [Workers -> BootPhase]
      /\ doomed' \in [Builders -> SUBSET Labels]
      /\ crashes' = crashes
  <2>1. CASE StartWorker(w) \/ CheckActive(w) \/ ListCollections(w) \/ WipeFails(w) \/ Ready(w)
    <3>1. UNCHANGED <<vars, crashes>>
      BY <2>1 DEF StartWorker, CheckActive, ListCollections, WipeFails, Ready
    <3>2. boot' \in [Workers -> BootPhase]
      BY <1>1, <2>1 DEF StartWorker, CheckActive, ListCollections, WipeFails, Ready,
                        EnterPhase, StartupTypeOK, BootPhase
    <3>3. doomed' \in [Builders -> SUBSET Labels]
      BY <1>1, <2>1 DEF StartWorker, CheckActive, ListCollections, WipeFails, Ready,
                        StartupTypeOK, TypeOK
    <3>4. QED
      BY <1>1, <3>1, <3>2, <3>3, NothingWiped
  <2>2. CASE RemoveAlias(w)
    BY <1>1, <2>2, WipeAlias DEF RemoveAlias, EnterPhase, StartupTypeOK, BootPhase
  <2>3. ASSUME NEW l \in Labels, DeleteListed(w, l)
        PROVE  /\ BuildersOK'
               /\ boot' \in [Workers -> BootPhase]
               /\ doomed' \in [Builders -> SUBSET Labels]
               /\ crashes' = crashes
    BY <1>1, <2>3, WipeCollection DEF DeleteListed, StartupTypeOK
  <2>4. CASE ResetRows(w)
    BY <1>1, <2>4, WipeRows DEF ResetRows, EnterPhase, StartupTypeOK, BootPhase
  <2>5. CASE BeginBuild(w)
    BY <1>1, <2>5, ReadActiveKeeps DEF BeginBuild, EnterPhase, StartupTypeOK, BootPhase
  <2>6. CASE WorkerBuildStep(w)
    <3>1. StagePlan(w, FirstLabel) \/ StageRejected(w, FirstLabel) \/ AfterPlan(w)
      BY <2>6 DEF WorkerBuildStep
    <3>2. BuildersOK'
      BY <1>1, <3>1, StartupFacts, StagePlanKeeps, EndKeeps, AfterPlanKeeps
    <3>3. QED
      BY <1>1, <2>6, <3>2 DEF WorkerBuildStep, bootVars, StartupTypeOK
  <2>7. QED
    BY <2>1, <2>2, <2>3, <2>4, <2>5, <2>6 DEF WorkerStep
<1>4. QED
  BY <1>1, <1>2, <1>3 DEF StartupInv, StartupTypeOK, BuildersOK

LEMMA CrashWorkerKeeps ==
    ASSUME StartupInv, NEW w \in Workers, CrashWorker(w), UNCHANGED scriptVars
    PROVE  StartupInv'
<1>1. BuildersOK /\ StartupTypeOK /\ w \in Builders
  BY StartupFacts DEF StartupInv
<1>2. BuildersOK'
  BY <1>1, BuilderStops DEF CrashWorker
<1>3. /\ boot' \in [Workers -> BootPhase]
      /\ doomed' \in [Builders -> SUBSET Labels]
  BY <1>1 DEF CrashWorker, EnterPhase, StartupTypeOK, BootPhase
<1>4. crashes' \in 0..MaxTroubles
  BY <1>1, StartupFacts DEF CrashWorker, StartupTypeOK
<1>5. QED
  BY <1>1, <1>2, <1>3, <1>4 DEF StartupInv, StartupTypeOK, BuildersOK, scriptVars

LEMMA OtherBuilderStepKeeps ==
    ASSUME StartupInv, NEW b \in Operators, OtherBuilderStep(b)
    PROVE  StartupInv'
<1>1. BuildersOK /\ StartupTypeOK /\ b \in Builders
  BY DEF StartupInv, Operators
<1>2. BuildersOK'
  BY <1>1, ReadActiveKeeps, StagePlanKeeps, EndKeeps, AfterPlanKeeps
  DEF OtherBuilderStep, BuildStep
<1>3. QED
  BY <1>1, <1>2
  DEF OtherBuilderStep, bootVars, scriptVars, StartupInv, StartupTypeOK, BuildersOK

LEMMA ScriptStepKeeps ==
    ASSUME StartupInv, NEW b \in Operators, ScriptStep(b)
    PROVE  StartupInv'
<1>1. BuildersOK /\ StartupTypeOK /\ b \in Builders
  BY DEF StartupInv, Operators
<1>2. UNCHANGED <<boot, crashes>>
  BY DEF ScriptStep, ReadAliases, ReadCollections, DropAlias, DropCollection, DropRows,
         ScriptStops, bootVars
<1>3. BuildersOK'
  <2>1. CASE ReadAliases(b) \/ ReadCollections(b) \/ ScriptStops(b)
    BY <1>1, <2>1, NothingWiped DEF ReadAliases, ReadCollections, ScriptStops
  <2>2. CASE DropAlias(b)
    BY <1>1, <2>2, WipeAlias DEF DropAlias
  <2>3. ASSUME NEW l \in Labels, DropCollection(b, l) PROVE BuildersOK'
    BY <1>1, <2>3, WipeCollection DEF DropCollection
  <2>4. CASE DropRows(b)
    BY <1>1, <2>4, WipeRows DEF DropRows
  <2>5. QED
    BY <2>1, <2>2, <2>3, <2>4 DEF ScriptStep
<1>4. doomed' \in [Builders -> SUBSET Labels]
  BY <1>1 DEF ScriptStep, ReadAliases, ReadCollections, DropAlias, DropCollection, DropRows,
              ScriptStops, bootVars, StartupTypeOK, TypeOK
<1>5. script' \in [Operators -> [pc : {"none", "list", "alias", "wipe"}, aliased : BOOLEAN]]
  <2> DEFINE Where == [pc : {"none", "list", "alias", "wipe"}, aliased : BOOLEAN]
  <2>1. script \in [Operators -> Where]
    BY <1>1 DEF StartupTypeOK
  <2>2. \A p \in {"alias", "wipe"} : EnterScript(b, p) => script' \in [Operators -> Where]
    BY <2>1 DEF EnterScript
  <2>3. CASE ReadAliases(b)
    BY <2>1, <2>3 DEF ReadAliases
  <2>4. CASE DropRows(b) \/ ScriptStops(b)
    <3>1. NoScript \in Where
      BY DEF NoScript
    <3>2. script' = [script EXCEPT ![b] = NoScript]
      BY <2>4 DEF DropRows, ScriptStops
    <3>3. QED
      BY <2>1, <3>1, <3>2
  <2>5. CASE ReadCollections(b) \/ DropAlias(b)
    BY <2>2, <2>5 DEF ReadCollections, DropAlias
  <2>6. CASE \E l \in Labels : DropCollection(b, l)
    BY <2>1, <2>6 DEF DropCollection, scriptVars
  <2>7. QED
    BY <2>3, <2>4, <2>5, <2>6 DEF ScriptStep
<1>6. scripts' \in 0..MaxScripts
  <2>1. CASE ReadAliases(b)
    BY <1>1, <2>1, StartupFacts DEF ReadAliases, StartupTypeOK
  <2>2. CASE scripts' = scripts
    BY <1>1, <2>2 DEF StartupTypeOK
  <2>3. QED
    BY <2>1, <2>2 DEF ScriptStep, ReadCollections, DropAlias, DropCollection, DropRows,
                      ScriptStops, scriptVars
<1>7. QED
  BY <1>1, <1>2, <1>3, <1>4, <1>5, <1>6 DEF StartupInv, StartupTypeOK, BuildersOK

-----------------------------------------------------------------------------
(* The invariant. *)

LEMMA StartupInitInv == StartupInit => StartupInv
<1> SUFFICES ASSUME StartupInit PROVE StartupInv
  OBVIOUS
<1>1. TypeOK
  BY IdleJobFacts DEF StartupInit, TypeOK, Row, NoRow, GenStatus, NoPoints, ServingStatus
<1>2. SingleActive
  BY DEF StartupInit, NoRow, SingleActive, IsActive
<1>3. \A b \in Builders : HasLabel(job[b])
  BY DEF StartupInit, HasLabel, IdleJob
<1>4. StartupTypeOK
  BY <1>1, StartupFacts DEF StartupInit, StartupTypeOK, BootPhase, NoScript
<1>5. QED
  BY <1>1, <1>2, <1>3, <1>4 DEF StartupInv, BuildersOK

LEMMA StartupNextInv == StartupInv /\ [StartupNext]_startupVars => StartupInv'
<1> SUFFICES ASSUME StartupInv, [StartupNext]_startupVars PROVE StartupInv'
  OBVIOUS
<1>1. ASSUME NEW w \in Workers, WorkerStep(w) \/ (CrashWorker(w) /\ UNCHANGED scriptVars)
      PROVE  StartupInv'
  BY <1>1, WorkerStepKeeps, CrashWorkerKeeps
<1>2. ASSUME NEW b \in Operators, OtherBuilderStep(b) \/ ScriptStep(b)
      PROVE  StartupInv'
  BY <1>2, OtherBuilderStepKeeps, ScriptStepKeeps
<1>3. CASE RecordStep /\ UNCHANGED <<bootVars, scriptVars>>
  BY <1>3, RecordStepKeeps
  DEF bootVars, scriptVars, StartupInv, StartupTypeOK, BuildersOK
<1>4. CASE UNCHANGED startupVars
  BY <1>4, NothingWiped
  DEF startupVars, bootVars, scriptVars, StartupInv, StartupTypeOK, BuildersOK
<1>5. QED
  BY <1>1, <1>2, <1>3, <1>4 DEF StartupNext

(* What an activation makes true by itself holds in every state of the       *)
(* start-up.                                                                 *)
THEOREM StartupInvariant == StartupSpec => []StartupInv
BY StartupInitInv, StartupNextInv, PTL DEF StartupSpec

(* Wherever workers and scripts stop and builds run on, the stores, the rows *)
(* and the builders hold values of their declared kinds: a build whose row   *)
(* was wiped still writes to a real label (_ensure_serving_generation,       *)
(* reset_serving_state).                                                     *)
THEOREM StartupTypeCorrect == StartupSpec => []StartupTypeOK
<1>1. StartupInv => StartupTypeOK
  BY DEF StartupInv
<1>2. QED
  BY <1>1, StartupInvariant, PTL

(* Also while workers wipe and build "v1" and scripts wipe under running     *)
(* builds, at most one generation is active (activate_generation).           *)
THEOREM StartupOneActive == StartupSpec => []SingleActive
<1>1. StartupInv => SingleActive
  BY DEF StartupInv, BuildersOK
<1>2. QED
  BY <1>1, StartupInvariant, PTL

recoveryAll == <<vars, recoveryVars>>

-----------------------------------------------------------------------------
(* The invariant for any number of builders. *)

(* While a recovery runs no build does, and what it has read is still so. *)
RecoveryOK ==
    /\ recovery # "none" => Quiescent /\ found.active = ActiveLabel
    /\ recovery = "fail" => found.active = NULL
    /\ recovery = "repoint" => found.active # NULL

RecoveryInv ==
    /\ IInv
    /\ RecoveryTypeOK
    /\ RecoveryOK
    /\ NoStagedLeft

(* The active label is read off the active rows. *)
LEMMA SameActiveLabel ==
    ASSUME \A l \in Labels : gens'[l] = gens[l]
               \/ {gens[l].status, gens'[l].status} \cap {"active", "retired"} = {}
    PROVE  /\ ActiveLabel' = ActiveLabel
           /\ \A l \in Labels : IsActive(l)' <=> IsActive(l)
           /\ \A l \in Labels : IsActive(l) => gens'[l] = gens[l]
<1>1. \A l \in Labels : IsActive(l)' <=> IsActive(l)
  BY DEF IsActive
<1>2. ActiveLabels' = ActiveLabels
  BY <1>1 DEF ActiveLabels
<1>3. ActiveLabel' = ActiveLabel
  BY <1>2 DEF ActiveLabel
<1>4. QED
  BY <1>1, <1>3 DEF IsActive

LEMMA RowsMarked ==
    ASSUME TypeOK, MarkStagedFailed
    PROVE  /\ gens' \in [Labels -> Row]
           /\ \A l \in Labels :
                 /\ gens'[l].owner = gens[l].owner /\ gens'[l].ids = gens[l].ids
                 /\ gens'[l].status = IF gens[l].status = "staged" THEN "failed"
                                      ELSE gens[l].status
                 /\ gens[l].status # "staged" => gens'[l] = gens[l]
<1>1. \A l \in Labels : gens[l] \in Row
  BY DEF TypeOK
<1>2. gens' = [l \in Labels |->
          IF gens[l].status = "staged" THEN [gens[l] EXCEPT !.status = "failed"]
          ELSE gens[l]]
  BY DEF MarkStagedFailed
<1>3. QED
  BY <1>1, <1>2 DEF Row, GenStatus

(* Marking the staged rows takes them from no builder: none is building. *)
LEMMA MarkStagedFailedInv ==
    ASSUME IInv, Quiescent, MarkStagedFailed
    PROVE  IInv'
<1>1. TypeOK /\ JobsOK /\ UnusedLabels /\ SingleActive /\ ActiveIntact
  BY DEF IInv
<1>2. UNCHANGED <<collections, points, alias, loadable, serving, job>>
  BY DEF MarkStagedFailed, recordVars
<1>3. TypeOK'
  BY <1>1, <1>2, RowsMarked DEF TypeOK
<1>4. JobsOK'
  <2> SUFFICES ASSUME NEW b \in Builders PROVE JobOK(b, job[b])'
    BY DEF JobsOK
  <2>1. JobOK(b, job[b]) /\ job[b].pc = "idle" /\ job'[b] = job[b] /\ job[b] \in Job
    BY <1>1, <1>2 DEF JobsOK, Quiescent, TypeOK
  <2>2. PrevPublished(job[b])'
    BY <1>1, <2>1, RowsMarked DEF JobOK, PrevPublished, Job
  <2>3. QED
    BY <2>1, <2>2 DEF JobOK, OwnsLabel, HoldsPoints
<1>5. UnusedLabels'
  BY <1>1, <1>2, RowsMarked DEF UnusedLabels
<1>6. \A l \in Labels : IsActive(l)' <=> IsActive(l)
  BY <1>1, RowsMarked DEF IsActive
<1>7. SingleActive' /\ ActiveIntact'
  BY <1>1, <1>2, <1>6, RowsMarked DEF SingleActive, ActiveIntact, Contents
<1>8. QED
  BY <1>3, <1>4, <1>5, <1>7 DEF IInv

LEMMA RecoveryKeepsIInv ==
    ASSUME RecoveryInv, [RecoveryNext]_recoveryAll
    PROVE  IInv'
<1>1. IInv /\ RecoveryTypeOK /\ RecoveryOK
  BY DEF RecoveryInv
<1>2. CASE RepointAlias
  <2>1. UNCHANGED <<gens, collections, points, loadable, serving, job>>
        /\ alias' = found.active /\ found.active \in collections
    BY <1>2 DEF RepointAlias, recordVars
  <2>2. TypeOK'
    BY <1>1, <2>1 DEF IInv, TypeOK
  <2>3. QED
    BY <1>1, <2>1, <2>2 DEF IInv, JobsOK, JobOK, OwnsLabel, HoldsPoints, PrevPublished,
                            UnusedLabels, SingleActive, ActiveIntact, IsActive, Contents
<1>3. CASE MarkStagedFailed
  BY <1>1, <1>3, MarkStagedFailedInv DEF RecoveryOK, MarkStagedFailed
<1>4. CASE [Next]_vars
  BY <1>1, <1>4, NextInv
<1>5. QED
  BY <1>2, <1>3, <1>4 DEF RecoveryNext, Recover, ReadGeneration, ReadAlias, Resume,
                          RunBuilder, CrashBuilder, Next, recoveryAll

LEMMA RecoveryInitInv == RecoveryInit => RecoveryInv
<1> SUFFICES ASSUME RecoveryInit PROVE RecoveryInv
  OBVIOUS
<1>1. IInv
  BY InitInv DEF RecoveryInit
<1>2. RecoveryTypeOK
  BY <1>1 DEF RecoveryInit, RecoveryTypeOK, IInv, NothingFound
<1>3. RecoveryOK /\ NoStagedLeft
  BY DEF RecoveryInit, RecoveryOK, NoStagedLeft
<1>4. QED
  BY <1>1, <1>2, <1>3 DEF RecoveryInv

LEMMA RecoveryTypes ==
    ASSUME RecoveryInv, IInv', [RecoveryNext]_recoveryAll
    PROVE  RecoveryTypeOK'
<1>1. RecoveryTypeOK /\ TypeOK'
  BY DEF RecoveryInv, IInv
<1>2. recovery' \in {"none", "read", "repoint", "fail", "done"}
  BY <1>1 DEF RecoveryNext, Recover, ReadGeneration, ReadAlias, RepointAlias, MarkStagedFailed,
              Resume, RunBuilder, CrashBuilder, recoveryAll, recoveryVars, RecoveryTypeOK
<1>3. found' \in [active : Labels \cup {NULL}, target : Labels \cup {NULL}]
  <2>1. ActiveLabel \in Labels \cup {NULL} /\ alias \in Labels \cup {NULL}
    BY ActiveLabelFacts DEF RecoveryInv, IInv, TypeOK
  <2>2. QED
    BY <1>1, <2>1 DEF RecoveryNext, Recover, ReadGeneration, ReadAlias, RepointAlias,
              MarkStagedFailed, Resume, RunBuilder, CrashBuilder, recoveryAll, recoveryVars,
              RecoveryTypeOK, NothingFound
<1>4. doubtful' \in BOOLEAN /\ littered' \in BOOLEAN
  BY <1>1 DEF RecoveryNext, Recover, ReadGeneration, ReadAlias, RepointAlias, MarkStagedFailed,
              Resume, RunBuilder, CrashBuilder, recoveryAll, recoveryVars, RecoveryTypeOK
<1>5. QED
  BY <1>1, <1>2, <1>3, <1>4 DEF RecoveryTypeOK

LEMMA RecoveryReads ==
    ASSUME RecoveryInv, [RecoveryNext]_recoveryAll
    PROVE  RecoveryOK' /\ NoStagedLeft'
<1>1. IInv /\ TypeOK /\ RecoveryTypeOK /\ RecoveryOK /\ NoStagedLeft
  BY DEF RecoveryInv, IInv
<1>2. CASE UNCHANGED <<gens, job>> /\ UNCHANGED <<recovery, found>>
  <2>1. ActiveLabel' = ActiveLabel
    BY <1>2, SameActiveLabel
  <2>2. QED
    BY <1>1, <1>2, <2>1 DEF RecoveryOK, NoStagedLeft, Quiescent
<1>3. CASE ReadGeneration
  <2>1. /\ UNCHANGED <<gens, job>> /\ recovery' = "read" /\ Quiescent
        /\ found' = [NothingFound EXCEPT !.active = ActiveLabel]
    BY <1>3 DEF ReadGeneration, vars
  <2>2. ActiveLabel' = ActiveLabel
    BY <2>1, SameActiveLabel
  <2>3. found'.active = ActiveLabel
    BY <2>1 DEF NothingFound
  <2>4. QED
    BY <2>1, <2>2, <2>3 DEF RecoveryOK, NoStagedLeft, Quiescent
<1>4. CASE ReadAlias
  <2>1. /\ UNCHANGED <<gens, job>> /\ recovery = "read"
        /\ recovery' = IF found.active = NULL THEN "fail"
                       ELSE IF alias # found.active THEN "repoint" ELSE "done"
        /\ found' = [found EXCEPT !.target = alias]
    BY <1>4 DEF ReadAlias, vars
  <2>2. ActiveLabel' = ActiveLabel
    BY <2>1, SameActiveLabel
  <2>3. found'.active = found.active
    BY <1>1, <2>1 DEF RecoveryTypeOK
  <2>4. QED
    BY <1>1, <2>1, <2>2, <2>3 DEF RecoveryOK, NoStagedLeft, Quiescent
<1>5. CASE RepointAlias
  <2>1. UNCHANGED <<gens, job, found>> /\ recovery = "repoint" /\ recovery' = "done"
    BY <1>5 DEF RepointAlias
  <2>2. ActiveLabel' = ActiveLabel
    BY <2>1, SameActiveLabel
  <2>3. QED
    BY <1>1, <2>1, <2>2 DEF RecoveryOK, NoStagedLeft, Quiescent
<1>6. CASE MarkStagedFailed
  <2>1. UNCHANGED <<job, found>> /\ recovery = "fail" /\ recovery' = "done"
    BY <1>6 DEF MarkStagedFailed
  <2>2. \A l \in Labels : gens'[l].status # "staged"
    BY <1>1, <1>6, RowsMarked
  <2>3. \A l \in Labels : gens'[l] = gens[l]
            \/ {gens[l].status, gens'[l].status} \cap {"active", "retired"} = {}
    BY <1>1, <1>6, RowsMarked
  <2>4. ActiveLabel' = ActiveLabel
    BY <2>3, SameActiveLabel
  <2>5. QED
    BY <1>1, <2>1, <2>2, <2>4 DEF RecoveryOK, NoStagedLeft, Quiescent
<1>7. CASE recovery' = "none"
  BY <1>7 DEF RecoveryOK, NoStagedLeft
<1>8. QED
  BY <1>2, <1>3, <1>4, <1>5, <1>6, <1>7
  DEF RecoveryNext, Recover, Resume, RunBuilder, CrashBuilder, RecordStep, Classify,
      Recompute, Downgrade, SetRecord, stores, recoveryAll, recoveryVars, vars

LEMMA RecoveryNextInv == RecoveryInv /\ [RecoveryNext]_recoveryAll => RecoveryInv'
BY RecoveryKeepsIInv, RecoveryTypes, RecoveryReads DEF RecoveryInv

(* While a recovery runs what it has read stays true, and the invariant of   *)
(* the generations holds with it.                                            *)
THEOREM RecoveryInvariant == RecoverySpec => []RecoveryInv
BY RecoveryInitInv, RecoveryNextInv, PTL DEF RecoverySpec, recoveryAll

(* Recovery, too, holds values of the declared kinds; above all the row      *)
(* status it writes is one the column admits (recover_on_startup).           *)
THEOREM RecoveryTypeCorrect == RecoverySpec => []RecoveryTypeOK
<1>1. RecoveryInv => RecoveryTypeOK
  BY DEF RecoveryInv
<1>2. QED
  BY <1>1, RecoveryInvariant, PTL

(* However many builders there are, a recovery that found no active          *)
(* generation leaves no row that pretends a build is under way               *)
(* (recover_on_startup).                                                     *)
THEOREM NothingStaysStaged == RecoverySpec => []NoStagedLeft
<1>1. RecoveryInv => NoStagedLeft
  BY DEF RecoveryInv
<1>2. QED
  BY <1>1, RecoveryInvariant, PTL

-----------------------------------------------------------------------------
(* The invariant for one builder at a time. *)

OneBuilder == \A b, c \in Builders : b = c

Planned == {"load", "embed", "upsert", "switch", "activate", "rollback"}

ActiveRecords == IF ActiveLabel = NULL THEN {} ELSE gens[ActiveLabel].ids

(* What the builder has planned against is still the active generation. *)
PlansCurrent ==
    \A b \in Builders : job[b].pc \in Planned =>
        job[b].prev = ActiveLabel /\ job[b].prevIds = ActiveRecords

(* Before the activation commits the alias is where this build put it. *)
AliasSwitched ==
    \A b \in Builders : job[b].pc = "activate" => alias = job[b].lab

(* The alias is elsewhere only between the switch and the commit or the      *)
(* switch back.                                                              *)
AliasKept ==
    \/ doubtful
    \/ ActiveLabel # NULL => alias = ActiveLabel
    \/ \E b \in Builders : job[b].pc \in {"activate", "rollback"}

(* A replaced collection is one the builder is about to delete. *)
LitterHeld ==
    littered \/ \A l \in collections : gens[l].status = "retired" =>
                    \E b \in Builders : job[b].pc = "cleanup" /\ job[b].prev = l

(* What is marked indexed is in the metadata of the active generation. *)
IndexedListed ==
    \A r \in Records : serving[r] = "indexed_active" => r \in ActiveRecords

SoloInv == PlansCurrent /\ AliasSwitched /\ AliasKept /\ LitterHeld /\ IndexedListed

(* Active and retired rows are not written. *)
RowsStay ==
    \A l \in Labels : gens'[l] = gens[l]
        \/ {gens[l].status, gens'[l].status} \cap {"active", "retired"} = {}

LEMMA KeptRows ==
    ASSUME RowsStay
    PROVE  /\ ActiveLabel' = ActiveLabel
           /\ ActiveRecords' = ActiveRecords
           /\ \A l \in Labels : gens'[l].status = "retired" <=> gens[l].status = "retired"
<1>1. /\ ActiveLabel' = ActiveLabel
      /\ \A l \in Labels : IsActive(l) => gens'[l] = gens[l]
  BY SameActiveLabel DEF RowsStay
<1>2. ActiveRecords' = ActiveRecords
  BY <1>1, ActiveLabelFacts DEF ActiveRecords
<1>3. QED
  BY <1>1, <1>2 DEF RowsStay

(* A step of which builders know nothing: recovery, or records. *)
LEMMA NoBuilderStep ==
    ASSUME SoloInv, TypeOK, RowsStay, UNCHANGED <<collections, job, littered>>,
           \A r \in Records : serving'[r] = "indexed_active" => serving[r] = "indexed_active"
    PROVE  PlansCurrent' /\ LitterHeld' /\ IndexedListed'
<1>1. PlansCurrent'
  BY KeptRows DEF SoloInv, PlansCurrent
<1>2. LitterHeld'
  BY KeptRows DEF SoloInv, LitterHeld, TypeOK
<1>3. IndexedListed'
  BY KeptRows DEF SoloInv, IndexedListed
<1>4. QED
  BY <1>1, <1>2, <1>3

(* The builder works without touching the alias or a published row. *)
Working == {"idle", "load", "embed", "upsert", "switch"}

QuietStep(b) ==
    /\ job[b].pc \in Working /\ job'[b].pc \in Working
    /\ job'[b].pc # "idle" => job'[b].prev = ActiveLabel /\ job'[b].prevIds = ActiveRecords
    /\ RowsStay
    /\ UNCHANGED <<alias, serving>>
    /\ \A l \in collections' : l \in Labels /\ (l \in collections \/ gens'[l].status # "retired")

LEMMA QuietStepSolo ==
    ASSUME OneBuilder, SoloInv, NEW b \in Builders, QuietStep(b),
           UNCHANGED <<doubtful, littered>>
    PROVE  SoloInv'
<1>1. \A c \in Builders : c = b
  BY DEF OneBuilder
<1>2. PlansCurrent'
  BY <1>1, KeptRows DEF QuietStep, PlansCurrent, Planned
<1>3. AliasSwitched'
  BY <1>1 DEF QuietStep, AliasSwitched, Working
<1>4. AliasKept'
  BY <1>1, KeptRows DEF QuietStep, SoloInv, AliasKept, Working
<1>5. LitterHeld'
  BY <1>1, KeptRows DEF QuietStep, SoloInv, LitterHeld, Working
<1>6. IndexedListed'
  BY KeptRows DEF QuietStep, SoloInv, IndexedListed
<1>7. QED
  BY <1>2, <1>3, <1>4, <1>5, <1>6 DEF SoloInv

LEMMA QuietSteps ==
    ASSUME IInv, SoloInv, NEW b \in Builders,
           \/ ReadActive(b)
           \/ \E l \in Labels : StagePlan(b, l) \/ StageRejected(b, l)
           \/ \E r \in Records : Upsert(b, r) \/ EmbedFails(b, r)
           \/ CreateCollection(b) \/ EmbedDone(b) \/ EmbedNothing(b)
           \/ ZeroChunks(b) \/ BuildFails(b)
    PROVE  QuietStep(b)
<1>1. TypeOK /\ JobOK(b, job[b]) /\ job[b] \in Job /\ job \in [Builders -> Job]
      /\ collections \in SUBSET Labels
  BY DEF IInv, TypeOK, JobsOK
<1>2. job[b].pc \in Planned => job[b].prev = ActiveLabel /\ job[b].prevIds = ActiveRecords
  BY DEF SoloInv, PlansCurrent
<1>3. CASE ReadActive(b)
  <2>1. job'[b] = [IdleJob EXCEPT !.pc = "load", !.prev = ActiveLabel, !.prevIds = ActiveRecords]
    BY <1>1, <1>3 DEF ReadActive, SetJob, ActiveRecords
  <2>2. job'[b].pc = "load" /\ job'[b].prev = ActiveLabel /\ job'[b].prevIds = ActiveRecords
    BY <2>1 DEF IdleJob
  <2>3. UNCHANGED <<gens, collections, alias, serving>> /\ job[b].pc = "idle"
    BY <1>3 DEF ReadActive, stores, recordVars
  <2>4. QED
    BY <1>1, <2>2, <2>3 DEF QuietStep, RowsStay, Working
<1>4. ASSUME NEW l \in Labels, StagePlan(b, l) PROVE QuietStep(b)
  <2>1. job[b].pc = "load" /\ UNCHANGED <<collections, alias, serving>>
    BY <1>4 DEF StagePlan, recordVars
  <2>2. job'[b].pc = "embed" /\ job'[b].prev = job[b].prev /\ job'[b].prevIds = job[b].prevIds
    BY <1>1, <1>4 DEF StagePlan, SetJob, Job
  <2>3. RowsStay
    BY <1>1, <1>4 DEF StagePlan, RowsStay, TypeOK
  <2>4. QED
    BY <1>1, <1>2, <2>1, <2>2, <2>3 DEF QuietStep, Working, Planned
<1>5. CASE \/ \E l \in Labels : StageRejected(b, l)
           \/ ZeroChunks(b) \/ BuildFails(b)
  <2>1. job[b].pc \in Working /\ Finish(b) /\ UNCHANGED <<stores, recordVars>>
    BY <1>5 DEF StageRejected, ZeroChunks, BuildFails, Working
  <2>2. job'[b].pc = "idle"
    BY <1>1, <2>1 DEF Finish, SetJob, IdleJob
  <2>3. QED
    BY <1>1, <2>1, <2>2 DEF QuietStep, RowsStay, Working, stores, recordVars
<1>6. CASE CreateCollection(b) \/ EmbedDone(b) \/ EmbedNothing(b)
  <2>1. PICK q \in {"upsert", "switch"} : job' = [job EXCEPT ![b] = [job[b] EXCEPT !.pc = q]]
    BY <1>6 DEF CreateCollection, EmbedDone, EmbedNothing, Goto, SetJob
  <2>2. job'[b].pc = q /\ job'[b].prev = job[b].prev /\ job'[b].prevIds = job[b].prevIds
    BY <1>1, <2>1 DEF Job
  <2>3. /\ job[b].pc = "embed" /\ UNCHANGED <<gens, alias, serving>>
        /\ collections' \in {collections, collections \cup {job[b].lab}}
    BY <1>6 DEF CreateCollection, EmbedDone, EmbedNothing, stores, recordVars
  <2>4. job[b].lab \in Labels /\ gens[job[b].lab].status = "staged"
    BY <1>1, <2>3 DEF JobOK, OwnsLabel
  <2>5. QED
    BY <1>1, <1>2, <2>1, <2>2, <2>3, <2>4 DEF QuietStep, RowsStay, Working, Planned
<1>7. ASSUME NEW r \in Records, Upsert(b, r) PROVE QuietStep(b)
  <2>1. job'[b].pc = "embed" /\ job'[b].prev = job[b].prev /\ job'[b].prevIds = job[b].prevIds
    BY <1>1, <1>7 DEF Upsert, SetJob, Job
  <2>2. job[b].pc \in {"embed", "upsert"} /\ UNCHANGED <<gens, collections, alias, serving>>
    BY <1>7 DEF Upsert, recordVars
  <2>3. QED
    BY <1>1, <1>2, <2>1, <2>2 DEF QuietStep, RowsStay, Working, Planned
<1>8. ASSUME NEW r \in Records, EmbedFails(b, r) PROVE QuietStep(b)
  <2>1. job'[b].pc = "embed" /\ job'[b].prev = job[b].prev /\ job'[b].prevIds = job[b].prevIds
    BY <1>1, <1>8 DEF EmbedFails, SetJob, Job
  <2>2. job[b].pc = "embed" /\ UNCHANGED <<gens, collections, alias, serving>>
    BY <1>8 DEF EmbedFails, stores, recordVars
  <2>3. QED
    BY <1>1, <1>2, <2>1, <2>2 DEF QuietStep, RowsStay, Working, Planned
<1>9. QED
  BY <1>3, <1>4, <1>5, <1>6, <1>7, <1>8

(* From the switch to the commit the alias names the build's collection. *)
LEMMA SwitchAliasSolo ==
    ASSUME OneBuilder, IInv, SoloInv, NEW b \in Builders, SwitchAlias(b),
           UNCHANGED <<doubtful, littered>>
    PROVE  SoloInv'
<1>1. \A c \in Builders : c = b
  BY DEF OneBuilder
<1>2. job[b] \in Job /\ job \in [Builders -> Job]
  BY DEF IInv, TypeOK
<1>3. /\ job[b].pc = "switch" /\ alias' = job[b].lab
      /\ UNCHANGED <<gens, collections, serving>>
  BY DEF SwitchAlias, recordVars
<1>4. /\ job'[b].pc = "activate" /\ job'[b].lab = job[b].lab
      /\ job'[b].prev = job[b].prev /\ job'[b].prevIds = job[b].prevIds
  BY <1>2 DEF SwitchAlias, Goto, SetJob, Job
<1>5. RowsStay
  BY <1>3 DEF RowsStay
<1>6. PlansCurrent'
  BY <1>1, <1>3, <1>4, <1>5, KeptRows DEF SoloInv, PlansCurrent, Planned
<1>7. AliasSwitched' /\ AliasKept'
  BY <1>1, <1>3, <1>4 DEF AliasSwitched, AliasKept
<1>8. LitterHeld'
  BY <1>1, <1>3, <1>4 DEF SoloInv, LitterHeld
<1>9. IndexedListed'
  BY <1>3, <1>5, KeptRows DEF SoloInv, IndexedListed
<1>10. QED
  BY <1>6, <1>7, <1>8, <1>9 DEF SoloInv

(* The commit retires what was planned against, and nothing else is marked   *)
(* indexed than what the new generation holds.                               *)
LEMMA ActivateSolo ==
    ASSUME OneBuilder, IInv, SoloInv, NEW b \in Builders, Activate(b),
           UNCHANGED <<doubtful, littered>>
    PROVE  SoloInv'
<1> DEFINE l == job[b].lab
<1>1. \A c \in Builders : c = b
  BY DEF OneBuilder
<1>2. /\ job[b] \in Job /\ job \in [Builders -> Job] /\ job[b].pc = "activate"
      /\ collections \in SUBSET Labels
  BY DEF IInv, TypeOK, Activate
<1>3. /\ l \in Labels
      /\ gens[l].status = "staged" /\ gens[l].owner = b
      /\ gens' \in [Labels -> Row]
      /\ gens'[l] = [status |-> "active", owner |-> b, ids |-> job[b].new]
      /\ \A k \in Labels : k # l =>
            /\ gens'[k].owner = gens[k].owner /\ gens'[k].ids = gens[k].ids
            /\ gens'[k].status = IF IsActive(k) THEN "retired" ELSE gens[k].status
      /\ serving' \in [Records -> ServingStatus]
      /\ UNCHANGED <<collections, points, alias, loadable>>
  BY CommitFacts
<1>4. /\ job[b].prev = ActiveLabel /\ job[b].prevIds = ActiveRecords /\ alias = l
  BY <1>2 DEF SoloInv, PlansCurrent, AliasSwitched, Planned
<1>5. ActiveLabel' = l
  <2>1. ActiveLabels' = {l}
    BY <1>3 DEF ActiveLabels, IsActive
  <2>2. QED
    BY <2>1 DEF ActiveLabel
<1>6. ActiveRecords' = job[b].new
  BY <1>3, <1>5, NullAssumption DEF ActiveRecords
<1>7. /\ job'[b].pc \in {"idle", "cleanup"}
      /\ job[b].prev # NULL => job'[b].pc = "cleanup" /\ job'[b].prev = job[b].prev
  <2>1. job[b].prev # l
    BY <1>3, <1>4, ActiveLabelFacts, NullAssumption DEF IsActive
  <2>2. CASE job[b].prev = NULL
    BY <1>2, <2>2 DEF Activate, Finish, SetJob, IdleJob
  <2>3. CASE job[b].prev # NULL
    BY <1>2, <2>1, <2>3 DEF Activate, Goto, SetJob, Job
  <2>4. QED
    BY <2>2, <2>3
<1>8. PlansCurrent' /\ AliasSwitched'
  BY <1>1, <1>7 DEF PlansCurrent, AliasSwitched, Planned
<1>9. AliasKept'
  BY <1>3, <1>4, <1>5 DEF AliasKept
<1>10. LitterHeld'
  <2> SUFFICES ASSUME ~littered, NEW k \in collections, gens'[k].status = "retired"
               PROVE  job'[b].pc = "cleanup" /\ job'[b].prev = k
    BY <1>3 DEF LitterHeld
  <2>1. gens[k].status # "retired"
    BY <1>2 DEF SoloInv, LitterHeld, OneBuilder
  <2>2. IsActive(k) /\ k \in Labels
    BY <1>2, <1>3, <2>1
  <2>3. k = ActiveLabel /\ ActiveLabel # NULL
    BY <2>2, ActiveLabelFacts, NullAssumption DEF IInv, SingleActive
  <2>4. QED
    BY <1>4, <1>7, <2>3
<1>11. IndexedListed'
  <2> SUFFICES ASSUME NEW r \in Records, serving'[r] = "indexed_active"
               PROVE  r \in job[b].new
    BY <1>6 DEF IndexedListed
  <2>1. CASE r \in job[b].prevIds
    BY <2>1 DEF Activate, ActivationCommit
  <2>2. CASE r \notin job[b].prevIds
    BY <1>4, <2>2 DEF Activate, ActivationCommit, SoloInv, IndexedListed
  <2>3. QED
    BY <2>1, <2>2
<1>12. QED
  BY <1>8, <1>9, <1>10, <1>11 DEF SoloInv

(* A failed activation ends at once if there is nothing to switch back to. *)
LEMMA ActivateFailsSolo ==
    ASSUME OneBuilder, IInv, SoloInv, NEW b \in Builders, ActivateFails(b),
           UNCHANGED <<doubtful, littered>>
    PROVE  SoloInv'
<1>1. \A c \in Builders : c = b
  BY DEF OneBuilder
<1>2. job[b] \in Job /\ job \in [Builders -> Job] /\ collections \in SUBSET Labels
  BY DEF IInv, TypeOK
<1>3. job[b].pc = "activate" /\ UNCHANGED <<gens, collections, alias, serving>>
  BY DEF ActivateFails, stores, recordVars
<1>4. job[b].prev = ActiveLabel /\ job[b].prevIds = ActiveRecords
  BY <1>3 DEF SoloInv, PlansCurrent, Planned
<1>5. \/ job[b].prev = NULL /\ job'[b].pc = "idle"
      \/ /\ job'[b].pc = "rollback"
         /\ job'[b].prev = job[b].prev /\ job'[b].prevIds = job[b].prevIds
  <2>1. CASE job[b].prev = NULL
    BY <1>2, <2>1 DEF ActivateFails, Finish, SetJob, IdleJob
  <2>2. CASE job[b].prev # NULL
    BY <1>2, <2>2 DEF ActivateFails, Goto, SetJob, Job
  <2>3. QED
    BY <2>1, <2>2
<1>6. RowsStay
  BY <1>3 DEF RowsStay
<1>7. PlansCurrent' /\ AliasSwitched'
  BY <1>1, <1>4, <1>5, <1>6, KeptRows DEF PlansCurrent, AliasSwitched, Planned
<1>8. AliasKept'
  BY <1>1, <1>4, <1>5, <1>6, KeptRows DEF AliasKept
<1>9. LitterHeld'
  BY <1>1, <1>3 DEF SoloInv, LitterHeld
<1>10. IndexedListed'
  BY <1>3, <1>6, KeptRows DEF SoloInv, IndexedListed
<1>11. QED
  BY <1>7, <1>8, <1>9, <1>10 DEF SoloInv

(* The build ends.  Each way of ending leaves the alias at the active        *)
(* generation and no replaced collection, or says that it did not.           *)
LEMMA EndSolo ==
    ASSUME OneBuilder, IInv, SoloInv, NEW b \in Builders,
           job' = [job EXCEPT ![b] = IdleJob],
           UNCHANGED <<gens, serving>>, collections' \subseteq collections,
           doubtful' \/ (ActiveLabel # NULL => alias' = ActiveLabel),
           littered' \/ \A l \in collections' : gens[l].status # "retired"
    PROVE  SoloInv'
<1>1. job'[b].pc = "idle" /\ \A c \in Builders : c = b
  BY DEF OneBuilder, IInv, TypeOK, IdleJob
<1>2. RowsStay
  BY DEF RowsStay
<1>3. PlansCurrent' /\ AliasSwitched'
  BY <1>1 DEF PlansCurrent, AliasSwitched, Planned
<1>4. AliasKept'
  BY <1>2, KeptRows DEF AliasKept
<1>5. LitterHeld'
  BY DEF LitterHeld
<1>6. IndexedListed'
  BY <1>2, KeptRows DEF SoloInv, IndexedListed
<1>7. QED
  BY <1>3, <1>4, <1>5, <1>6 DEF SoloInv

LEMMA RollBackSolo ==
    ASSUME OneBuilder, IInv, SoloInv, NEW b \in Builders,
           RollBackAlias(b) \/ RollBackFails(b),
           doubtful' = (doubtful \/ (job[b].pc = "rollback" /\ alias' # job[b].prev)),
           littered' = (littered \/ (job[b].pc = "cleanup" /\ job[b].prev \in collections'))
    PROVE  SoloInv'
<1>1. /\ job[b].pc = "rollback" /\ Finish(b)
      /\ UNCHANGED <<gens, collections, serving>>
  BY DEF RollBackAlias, RollBackFails, stores, recordVars
<1>2. job[b].prev = ActiveLabel
  BY <1>1 DEF SoloInv, PlansCurrent, Planned
<1>3. doubtful' \/ alias' = ActiveLabel
  BY <1>1, <1>2
<1>4. littered' \/ \A l \in collections' : gens[l].status # "retired"
  BY <1>1 DEF SoloInv, LitterHeld, OneBuilder
<1>5. QED
  BY <1>1, <1>3, <1>4, EndSolo DEF Finish, SetJob

LEMMA CleanUpSolo ==
    ASSUME OneBuilder, IInv, SoloInv, NEW b \in Builders,
           CleanUp(b) \/ CleanUpFails(b),
           doubtful' = (doubtful \/ (job[b].pc = "rollback" /\ alias' # job[b].prev)),
           littered' = (littered \/ (job[b].pc = "cleanup" /\ job[b].prev \in collections'))
    PROVE  SoloInv'
<1> DEFINE p == job[b].prev
<1>1. /\ job[b].pc = "cleanup" /\ Finish(b)
      /\ UNCHANGED <<gens, serving>>
  BY DEF CleanUp, CleanUpFails, stores, recordVars
<1>2. p \in Labels /\ gens[p].status = "retired"
  BY <1>1 DEF IInv, JobsOK, JobOK, PrevPublished
<1>3. /\ collections' \subseteq collections
      /\ alias' = alias \/ alias = p
  BY DEF CleanUp, CleanUpFails, DeleteCollection, stores
<1>4. ActiveLabel # p
  BY <1>2, ActiveLabelFacts, NullAssumption DEF IsActive
<1>5. doubtful \/ (ActiveLabel # NULL => alias = ActiveLabel)
  BY <1>1 DEF SoloInv, AliasKept, OneBuilder
<1>6. doubtful' \/ (ActiveLabel # NULL => alias' = ActiveLabel)
  BY <1>1, <1>3, <1>4, <1>5
<1>7. littered' \/ \A l \in collections' : gens[l].status # "retired"
  BY <1>1, <1>3 DEF SoloInv, LitterHeld, OneBuilder
<1>8. QED
  BY <1>1, <1>3, <1>6, <1>7, EndSolo DEF Finish, SetJob

LEMMA RunBuilderSolo ==
    ASSUME OneBuilder, IInv, RecoveryTypeOK, SoloInv, NEW b \in Builders, RunBuilder(b)
    PROVE  SoloInv'
<1>1. /\ ReadActive(b) \/ BuildStep(b)
      /\ doubtful' = (doubtful \/ (job[b].pc = "rollback" /\ alias' # job[b].prev))
      /\ littered' = (littered \/ (job[b].pc = "cleanup" /\ job[b].prev \in collections'))
  BY DEF RunBuilder
<1>2. job[b].pc \notin {"rollback", "cleanup"} => UNCHANGED <<doubtful, littered>>
  BY <1>1 DEF RecoveryTypeOK
<1>3. CASE QuietStep(b)
  <2>1. UNCHANGED <<doubtful, littered>>
    BY <1>2, <1>3 DEF QuietStep, Working
  <2>2. QED
    BY <1>3, <2>1, QuietStepSolo
<1>4. CASE SwitchAlias(b) \/ Activate(b) \/ ActivateFails(b)
  <2>1. UNCHANGED <<doubtful, littered>>
    BY <1>2, <1>4 DEF SwitchAlias, Activate, ActivateFails
  <2>2. QED
    BY <1>4, <2>1, SwitchAliasSolo, ActivateSolo, ActivateFailsSolo
<1>5. CASE RollBackAlias(b) \/ RollBackFails(b)
  BY <1>1, <1>5, RollBackSolo
<1>6. CASE CleanUp(b) \/ CleanUpFails(b)
  BY <1>1, <1>6, CleanUpSolo
<1>7. QED
  BY <1>1, <1>3, <1>4, <1>5, <1>6, QuietSteps DEF BuildStep, AfterPlan

(* The builder dies: alias and collections may be left as they are. *)
LEMMA CrashBuilderSolo ==
    ASSUME OneBuilder, IInv, SoloInv, NEW b \in Builders, CrashBuilder(b)
    PROVE  SoloInv'
BY EndSolo DEF CrashBuilder, Crash, Finish, SetJob, stores, recordVars

(* Recovery: what it leaves the alias at is the active generation. *)
LEMMA RecoverSolo ==
    ASSUME RecoveryInv, SoloInv, Recover
    PROVE  SoloInv'
<1>1. TypeOK /\ RecoveryTypeOK /\ RecoveryOK
  BY DEF RecoveryInv, IInv
<1>2. /\ RowsStay
      /\ UNCHANGED <<collections, job, littered, serving>>
  <2>1. CASE MarkStagedFailed
    BY <1>1, <2>1, RowsMarked DEF RowsStay, MarkStagedFailed, recordVars
  <2>2. CASE UNCHANGED <<gens, collections, job, littered, serving>>
    BY <2>2 DEF RowsStay
  <2>3. QED
    BY <2>1, <2>2 DEF Recover, ReadGeneration, ReadAlias, RepointAlias, Resume, vars, recordVars
<1>3. PlansCurrent' /\ LitterHeld' /\ IndexedListed'
  BY <1>1, <1>2, NoBuilderStep
<1>4. CASE UNCHANGED <<alias, doubtful>>
  BY <1>2, <1>3, <1>4, KeptRows DEF SoloInv, AliasSwitched, AliasKept
<1>5. CASE ReadAlias
  <2>1. /\ recovery = "read" /\ alias' = alias
        /\ recovery' = IF found.active = NULL THEN "fail"
                       ELSE IF alias # found.active THEN "repoint" ELSE "done"
        /\ doubtful' = (recovery' # "done" /\ doubtful)
    BY <1>5 DEF ReadAlias, vars
  <2>2. found.active = ActiveLabel /\ ActiveLabel' = ActiveLabel
    BY <1>1, <1>2, <2>1, KeptRows DEF RecoveryOK
  <2>3. AliasKept'
    BY <1>2, <2>1, <2>2 DEF SoloInv, AliasKept
  <2>4. QED
    BY <1>2, <1>3, <2>1, <2>3 DEF SoloInv, AliasSwitched
<1>6. CASE RepointAlias
  <2>1. recovery = "repoint" /\ alias' = found.active
    BY <1>6 DEF RepointAlias
  <2>2. found.active = ActiveLabel /\ ActiveLabel' = ActiveLabel /\ Quiescent
    BY <1>1, <1>2, <2>1, KeptRows DEF RecoveryOK
  <2>3. AliasKept' /\ AliasSwitched'
    BY <1>2, <2>1, <2>2 DEF AliasKept, AliasSwitched, Quiescent
  <2>4. QED
    BY <1>3, <2>3 DEF SoloInv
<1>7. QED
  BY <1>4, <1>5, <1>6 DEF Recover, ReadGeneration, MarkStagedFailed, Resume, vars

(* Records may lose their mark while a build runs; only a build sets it. *)
LEMMA RecordStepSolo ==
    ASSUME IInv, SoloInv, RecordStep, UNCHANGED recoveryVars
    PROVE  SoloInv'
<1>1. PICK r \in Records :
         \/ \E authoritative \in BOOLEAN :
               Classify(r, authoritative) \/ Recompute(r, authoritative)
         \/ Downgrade(r)
  BY DEF RecordStep
<1>2. UNCHANGED <<gens, collections, alias, job, doubtful, littered>>
  BY <1>1 DEF Classify, Recompute, Downgrade, SetRecord, stores, recoveryVars
<1>3. \A s \in Records : s # r => serving'[s] = serving[s]
  BY <1>1 DEF Classify, Recompute, Downgrade, SetRecord, IInv, TypeOK
<1>4. serving'[r] = "indexed_active" => serving[r] = "indexed_active"
  <2>1. serving \in [Records -> ServingStatus]
    BY DEF IInv, TypeOK
  <2>2. ASSUME NEW authoritative \in BOOLEAN, Classify(r, authoritative)
        PROVE  serving'[r] # "indexed_active"
    BY <2>1, <2>2 DEF Classify, SetRecord
  <2>3. ASSUME NEW authoritative \in BOOLEAN, Recompute(r, authoritative)
        PROVE  serving'[r] = "indexed_active" => serving[r] = "indexed_active"
    BY <2>1, <2>3 DEF Recompute, SetRecord
  <2>4. CASE Downgrade(r)
    BY <2>1, <2>4 DEF Downgrade, SetRecord
  <2>5. QED
    BY <1>1, <2>2, <2>3, <2>4
<1>5. RowsStay /\ TypeOK
  BY <1>2 DEF RowsStay, IInv
<1>6. \A s \in Records : serving'[s] = "indexed_active" => serving[s] = "indexed_active"
  BY <1>3, <1>4
<1>7. PlansCurrent' /\ LitterHeld' /\ IndexedListed'
  BY <1>2, <1>5, <1>6, NoBuilderStep
<1>8. AliasSwitched' /\ AliasKept'
  BY <1>2, <1>5, KeptRows DEF SoloInv, AliasSwitched, AliasKept
<1>9. QED
  BY <1>7, <1>8 DEF SoloInv

LEMMA SoloInit == RecoveryInit => SoloInv
<1> SUFFICES ASSUME RecoveryInit PROVE SoloInv
  OBVIOUS
<1>1. /\ \A b \in Builders : job[b].pc = "idle"
      /\ \A l \in Labels : ~IsActive(l)
      /\ collections = {}
      /\ \A r \in Records : serving[r] = "ineligible"
  BY DEF RecoveryInit, Init, IdleJob, NoRow, IsActive
<1>2. ActiveLabel = NULL
  BY <1>1, ActiveLabelFacts
<1>3. QED
  BY <1>1, <1>2 DEF SoloInv, PlansCurrent, Planned, AliasSwitched, AliasKept, LitterHeld,
                    IndexedListed

LEMMA SoloNext ==
    ASSUME OneBuilder
    PROVE  RecoveryInv /\ SoloInv /\ [RecoveryNext]_recoveryAll => SoloInv'
<1> SUFFICES ASSUME RecoveryInv, SoloInv, [RecoveryNext]_recoveryAll PROVE SoloInv'
  OBVIOUS
<1>1. IInv /\ RecoveryTypeOK
  BY DEF RecoveryInv
<1>2. CASE Recover
  BY <1>2, RecoverSolo
<1>3. ASSUME NEW b \in Builders, RunBuilder(b) PROVE SoloInv'
  BY <1>1, <1>3, RunBuilderSolo
<1>4. ASSUME NEW b \in Builders, CrashBuilder(b) PROVE SoloInv'
  BY <1>1, <1>4, CrashBuilderSolo
<1>5. CASE RecordStep /\ UNCHANGED recoveryVars
  BY <1>1, <1>5, RecordStepSolo
<1>6. CASE UNCHANGED recoveryAll
  <2>1. UNCHANGED <<gens, collections, alias, serving, job, doubtful, littered>>
    BY <1>6 DEF recoveryAll, recoveryVars, vars
  <2>2. RowsStay
    BY <2>1 DEF RowsStay
  <2>3. QED
    BY <2>1, <2>2, KeptRows
    DEF SoloInv, PlansCurrent, AliasSwitched, AliasKept, LitterHeld, IndexedListed
<1>7. QED
  BY <1>2, <1>3, <1>4, <1>5, <1>6 DEF RecoveryNext

(* With one builder at a time, what was planned against is still active when *)
(* the build commits, switches back or cleans up.                            *)
THEOREM SoloInvariant ==
    ASSUME OneBuilder
    PROVE  RecoverySpec => []SoloInv
<1>1. RecoveryInv /\ SoloInv /\ [RecoveryNext]_recoveryAll => SoloInv'
  BY SoloNext
<1>2. QED
  BY <1>1, SoloInit, RecoveryInvariant, PTL DEF RecoverySpec, recoveryAll

(* With one builder at a time the alias resolves to the active generation    *)
(* whenever no build runs, unless a crash or a failed rollback has left it   *)
(* in doubt and no recovery has repaired it (recover_on_startup,             *)
(* switch_alias, its rollback and the activation commit).                    *)
THEOREM AliasIsRepaired ==
    ASSUME OneBuilder
    PROVE  RecoverySpec => []AliasFollows
<1>1. SoloInv => AliasFollows
  BY DEF SoloInv, AliasKept, AliasFollows, AliasAtRest, Quiescent
<1>2. QED
  BY <1>1, SoloInvariant, PTL

(* With one builder at a time no replaced collection is left when no build   *)
(* runs, unless the clean-up failed or the process died (delete_collection). *)
THEOREM NothingLeaks ==
    ASSUME OneBuilder
    PROVE  RecoverySpec => []RetiredIsDeleted
<1>1. SoloInv => RetiredIsDeleted
  BY DEF SoloInv, LitterHeld, RetiredIsDeleted, Quiescent
<1>2. QED
  BY <1>1, SoloInvariant, PTL

(* With one builder at a time a record that is marked indexed_active can be  *)
(* retrieved, through crashes, rollbacks and recoveries                      *)
(* (_mark_records_indexed_active, _mark_records_deindexed).                  *)
THEOREM IndexedStaysRetrievable ==
    ASSUME OneBuilder
    PROVE  RecoverySpec => []IndexedIsRetrievable
<1>1. SoloInv /\ ActiveIntact => IndexedIsRetrievable
  <2> SUFFICES ASSUME SoloInv, ActiveIntact, NEW r \in Records, serving[r] = "indexed_active"
               PROVE  \E l \in ActiveLabels : l \in collections /\ r \in Contents(l)
    BY DEF IndexedIsRetrievable
  <2>1. ActiveLabel # NULL /\ r \in gens[ActiveLabel].ids
    BY DEF SoloInv, IndexedListed, ActiveRecords
  <2>2. ActiveLabel \in Labels /\ IsActive(ActiveLabel)
    BY <2>1, ActiveLabelFacts
  <2>3. ActiveLabel \in collections /\ r \in Contents(ActiveLabel)
    BY <2>1, <2>2 DEF ActiveIntact
  <2>4. QED
    BY <2>2, <2>3 DEF ActiveLabels
<1>2. RecoveryInv => ActiveIntact
  BY DEF RecoveryInv, IInv
<1>3. QED
  BY <1>1, <1>2, RecoveryInvariant, SoloInvariant, PTL

-----------------------------------------------------------------------------
(* Recovery changes nothing a reader sees: with it, too, the content readers *)
(* are answered from is replaced only by an activation, whatever the number  *)
(* of builders (recover_on_startup, build_and_activate).                     *)
THEOREM RecoveryPublishesAtomically == RecoverySpec => PublishesAtomically
<1>1. RecoveryInit => Promise!Init
  BY DEF RecoveryInit, Init, Promise!Init, ActiveLabel, ActiveLabels, LiveContent,
         EverActive, IsActive, NoRow
<1>2. RecoveryInv /\ RecoveryInv' /\ [RecoveryNext]_recoveryAll =>
         [Promise!Next]_<<ActiveLabel, LiveContent, EverActive>>
  <2> SUFFICES ASSUME RecoveryInv, RecoveryInv', [RecoveryNext]_recoveryAll
               PROVE  Promise!Next \/ UNCHANGED <<ActiveLabel, LiveContent, EverActive>>
    OBVIOUS
  <2>1. IInv /\ IInv' /\ TypeOK
    BY DEF RecoveryInv, IInv
  <2>2. CASE [Next]_vars
    BY <2>1, <2>2, StepIsPublishOrStutter
  <2>3. CASE UNCHANGED gens
    BY <2>1, <2>3, ReaderSeesNothing
  <2>4. CASE MarkStagedFailed
    <3>1. \A l \in Labels : gens'[l] = gens[l]
              \/ {gens[l].status, gens'[l].status} \cap {"active", "retired"} = {}
      BY <2>1, <2>4, RowsMarked
    <3>2. QED
      BY <2>1, <3>1, ReaderSeesNothing
  <2>5. QED
    BY <2>2, <2>3, <2>4 DEF RecoveryNext, Recover, ReadGeneration, ReadAlias, RepointAlias,
       Resume, RunBuilder, CrashBuilder, Next, recoveryAll, vars
<1>3. QED
  BY <1>1, <1>2, RecoveryInvariant, PTL
  DEF PublishesAtomically, Promise!Spec, RecoverySpec, recoveryAll
===========================================================================
