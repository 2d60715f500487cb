-------------------------- MODULE IndexJobsProofs --------------------------
(***************************************************************************)
(* Proofs about the index job queue for every set of jobs, records, labels *)
(* and executors, and every combination of faults.                         *)
(*                                                                         *)
(* The argument.  To the generations a step of the queue is a step of a    *)
(* builder, of a record, or the end of a build, so their invariant holds.  *)
(* Rows of generations never disappear, hence the labels a job remembers   *)
(* as older than itself stay in use, and the label that an executor stages *)
(* after it has claimed a job is not one of them.                          *)
(***************************************************************************)
EXTENDS IndexJobs, ServingGenerationsProofs

-----------------------------------------------------------------------------
(* The inductive invariant. *)

Staging == {"embed", "upsert", "switch", "activate"}

Published(l) == gens[l].status \in {"active", "retired"}

(* A job knows only labels that are in use. *)
OlderInUse ==
    \A j \in Jobs : \A l \in queue[j].older : gens[l].status # "absent"

(* What an executor builds, or has built, is younger than the jobs it has    *)
(* claimed.                                                                  *)
ClaimFresh(e) ==
    phase[e] \in {"claim", "begin", "build"} =>
        \A j \in claimed[e] :
            /\ queue[j].status # "absent"
            /\ phase[e] = "build" /\ job[e].pc \in Staging => job[e].lab \notin queue[j].older
            /\ built[e] # NULL => built[e] \notin queue[j].older

(* An executor has a generation to name only from its activation on. *)
BuiltOK(e) ==
    /\ built[e] # NULL => Published(built[e])
    /\ phase[e] \in {"idle", "claim", "begin"} => built[e] = NULL

ExecutorsOK == \A e \in Builders : ClaimFresh(e) /\ BuiltOK(e)

JobsInv ==
    /\ IInv
    /\ JobsTypeOK
    /\ OlderInUse
    /\ ExecutorsOK
    /\ OneWaitingJob
    /\ SucceededIsFresh

-----------------------------------------------------------------------------
(* What a step of the queue is to the generations. *)

LEMMA JobsStepIsBuilderStep ==
    ASSUME [JobsNext]_allVars
    PROVE  \/ [Next]_vars
           \/ \E e \in Builders : Finish(e) /\ UNCHANGED <<stores, recordVars>>
<1>1. ASSUME NEW e \in Builders, ReadPending(e) \/ GoOn(e) \/ CrashExecutor(e)
      PROVE  [Next]_vars \/ (Finish(e) /\ UNCHANGED <<stores, recordVars>>)
  <2>1. CASE ReadPending(e) \/ CommitClaim(e) \/ MarkFailed(e) \/ MarkSucceeded(e)
    BY <2>1 DEF ReadPending, CommitClaim, MarkFailed, MarkSucceeded, Return
  <2>2. CASE BeginBuild(e) \/ RunBuild(e)
    BY <2>2 DEF BeginBuild, RunBuild, Next
  <2>3. CASE CrashExecutor(e)
    BY <2>3 DEF CrashExecutor
  <2>4. QED
    BY <1>1, <2>1, <2>2, <2>3 DEF GoOn
<1>2. ASSUME NEW r \in Records, NEW authoritative \in BOOLEAN, Review(r, authoritative)
      PROVE  [Next]_vars
  BY <1>2 DEF Review, Next, RecordStep
<1>3. ASSUME NEW r \in Records, Crawl(r)
      PROVE  [Next]_vars
  BY <1>3 DEF Crawl, Next, RecordStep
<1>4. CASE UNCHANGED allVars
  BY <1>4 DEF allVars
<1>5. QED
  BY <1>1, <1>2, <1>3, <1>4 DEF JobsNext

LEMMA JobsKeepIInv ==
    ASSUME IInv, [JobsNext]_allVars
    PROVE  IInv'
BY JobsStepIsBuilderStep, NextInv, FinishStep

(* The only steps that write generation rows. *)
LEMMA RowWriters ==
    ASSUME [Next]_vars
    PROVE  \/ UNCHANGED gens
           \/ \E b \in Builders : Activate(b) \/ \E l \in Labels : StagePlan(b, l)
BY DEF Next, BuildStep, AfterPlan, vars, ReadActive, StageRejected, CreateCollection,
       Upsert, EmbedFails, EmbedDone, EmbedNothing, ZeroChunks, SwitchAlias,
       ActivateFails, RollBackAlias, RollBackFails, CleanUp, CleanUpFails,
       BuildFails, Crash, RecordStep, Classify, Recompute, Downgrade,
       SetRecord, stores

(* A row stays, and a published one stays published. *)
RowsAdvance ==
    \A l \in Labels :
        /\ gens[l].status # "absent" => gens'[l].status # "absent"
        /\ Published(l) => Published(l)'

LEMMA JobsKeepRows ==
    ASSUME IInv, [JobsNext]_allVars
    PROVE  RowsAdvance
<1>1. CASE UNCHANGED gens
  BY <1>1 DEF RowsAdvance, Published
<1>2. ASSUME NEW b \in Builders, Activate(b) PROVE RowsAdvance
  <2>1. /\ gens[job[b].lab].status = "staged"
        /\ gens'[job[b].lab] = [status |-> "active", owner |-> b, ids |-> job[b].new]
        /\ \A k \in Labels : k # job[b].lab =>
              /\ gens'[k].owner = gens[k].owner /\ gens'[k].ids = gens[k].ids
              /\ gens'[k].status = IF IsActive(k) THEN "retired" ELSE gens[k].status
    BY <1>2, CommitFacts
  <2>2. ASSUME NEW l \in Labels
        PROVE  /\ gens[l].status # "absent" => gens'[l].status # "absent"
               /\ Published(l) => gens'[l].status \in {"active", "retired"}
    BY <2>1 DEF Published, IsActive
  <2>3. QED
    BY <2>2 DEF RowsAdvance, Published
<1>3. ASSUME NEW b \in Builders, NEW l \in Labels, StagePlan(b, l) PROVE RowsAdvance
  BY <1>3 DEF RowsAdvance, Published, StagePlan, IInv, TypeOK
<1>4. QED
  BY <1>1, <1>2, <1>3, RowWriters, JobsStepIsBuilderStep DEF stores

(* The label a builder stages is one that no row used. *)
LEMMA StagedLabelIsNew ==
    ASSUME IInv, NEW b \in Builders, BuildStep(b)
    PROVE  /\ job' \in [Builders -> Job]
           /\ \A c \in Builders : c # b => job'[c] = job[c]
           /\ job'[b].pc \in Staging =>
                 \/ job[b].pc \in Staging /\ job'[b].lab = job[b].lab
                 \/ job'[b].lab \in Labels /\ gens[job'[b].lab].status = "absent"
<1>1. Next
  BY DEF Next
<1>2. IInv'
  BY <1>1, NextInv
<1>3. job \in [Builders -> Job] /\ job' \in [Builders -> Job]
  BY <1>2 DEF IInv, TypeOK
<1>4. ASSUME NEW l \in Labels, StagePlan(b, l)
      PROVE  /\ \A c \in Builders : c # b => job'[c] = job[c]
             /\ job'[b].lab \in Labels /\ gens[job'[b].lab].status = "absent"
  BY <1>3, <1>4 DEF StagePlan, SetJob, Job
<1>5. ASSUME NEW r \in Records, Upsert(b, r) \/ EmbedFails(b, r)
      PROVE  /\ \A c \in Builders : c # b => job'[c] = job[c]
             /\ job'[b].pc \in Staging => job[b].pc \in Staging /\ job'[b].lab = job[b].lab
  <2>1. CASE Upsert(b, r)
    BY <1>3, <2>1 DEF Upsert, SetJob, Job, Staging
  <2>2. CASE EmbedFails(b, r)
    BY <1>3, <2>2 DEF EmbedFails, SetJob, Job, Staging
  <2>3. QED
    BY <1>5, <2>1, <2>2
<1>6. ASSUME \/ CreateCollection(b) \/ EmbedDone(b) \/ EmbedNothing(b)
             \/ SwitchAlias(b)
      PROVE  /\ \A c \in Builders : c # b => job'[c] = job[c]
             /\ job'[b].pc \in Staging => job[b].pc \in Staging /\ job'[b].lab = job[b].lab
  BY <1>3, <1>6 DEF CreateCollection, EmbedDone, EmbedNothing, SwitchAlias,
                    Goto, SetJob, Job, Staging
<1>7. ASSUME \/ \E l \in Labels : StageRejected(b, l)
             \/ ZeroChunks(b) \/ Activate(b) \/ ActivateFails(b) \/ RollBackAlias(b)
             \/ RollBackFails(b) \/ CleanUp(b) \/ CleanUpFails(b) \/ BuildFails(b)
      PROVE  /\ \A c \in Builders : c # b => job'[c] = job[c]
             /\ job'[b].pc \notin Staging
  <2>1. Finish(b) \/ Goto(b, "rollback") \/ Goto(b, "cleanup")
    BY <1>7 DEF StageRejected, ZeroChunks, Activate, ActivateFails, RollBackAlias,
                RollBackFails, CleanUp, CleanUpFails, BuildFails
  <2>2. QED
    BY <1>3, <2>1 DEF Finish, Goto, SetJob, IdleJob, Job, Staging
<1>8. QED
  BY <1>3, <1>4, <1>5, <1>6, <1>7 DEF BuildStep, AfterPlan

-----------------------------------------------------------------------------
(* Frames: what the rest of the invariant needs of a step. *)

(* No job is new, waits again, or forgets what it is about. *)
QueueAdvances ==
    \A j \in Jobs :
        /\ queue'[j].rec = queue[j].rec
        /\ queue'[j].op = queue[j].op
        /\ queue'[j].older = queue[j].older
        /\ queue[j].status # "absent" => queue'[j].status # "absent"
        /\ queue'[j].status = "pending" => queue[j].status = "pending"

LEMMA AdvancedQueue ==
    ASSUME JobsInv, RowsAdvance, QueueAdvances, queue' \in [Jobs -> JobRow]
    PROVE  OlderInUse' /\ OneWaitingJob'
<1>1. OlderInUse'
  BY DEF JobsInv, JobsTypeOK, JobRow, OlderInUse, RowsAdvance, QueueAdvances
<1>2. OneWaitingJob'
  BY DEF JobsInv, OneWaitingJob, JobsWith, QueueAdvances
<1>3. QED
  BY <1>1, <1>2

(* An executor that does not move keeps what it has claimed and built. *)
LEMMA OtherExecutor ==
    ASSUME JobsInv, RowsAdvance, QueueAdvances, NEW c \in Builders,
           claimed'[c] = claimed[c], phase'[c] = phase[c], built'[c] = built[c],
           job'[c] = job[c]
    PROVE  ClaimFresh(c)' /\ BuiltOK(c)'
<1>1. ClaimFresh(c) /\ BuiltOK(c) /\ claimed[c] \in SUBSET Jobs
      /\ built[c] \in Labels \cup {NULL}
  BY DEF JobsInv, ExecutorsOK, JobsTypeOK
<1>2. ClaimFresh(c)'
  BY <1>1 DEF ClaimFresh, QueueAdvances
<1>3. BuiltOK(c)'
  BY <1>1 DEF BuiltOK, RowsAdvance
<1>4. QED
  BY <1>2, <1>3

(* Jobs keep their outcome when their rows are not written. *)
LEMMA SameQueue ==
    ASSUME JobsInv, RowsAdvance, queue' = queue
    PROVE  /\ queue' \in [Jobs -> JobRow]
           /\ QueueAdvances
           /\ SucceededIsFresh'
<1>1. QueueAdvances /\ queue' \in [Jobs -> JobRow]
  BY DEF QueueAdvances, JobsInv, JobsTypeOK
<1>2. \A j \in Jobs : queue[j].gen \in Labels \cup {NULL}
  BY DEF JobsInv, JobsTypeOK, JobRow
<1>3. SucceededIsFresh'
  BY <1>2 DEF JobsInv, SucceededIsFresh, JobsWith, RowsAdvance, Published
<1>4. QED
  BY <1>1, <1>3

(* A status other than the final ones spoils no outcome. *)
LEMMA StatusStep ==
    ASSUME JobsInv, RowsAdvance, NEW S \in SUBSET Jobs,
           NEW status \in {"running", "failed"}, SetStatus(S, status)
    PROVE  /\ queue' \in [Jobs -> JobRow]
           /\ QueueAdvances
           /\ SucceededIsFresh'
<1>1. \A j \in Jobs : queue[j] \in JobRow
  BY DEF JobsInv, JobsTypeOK
<1>2. \A j \in Jobs :
         /\ j \in S => queue'[j] = [queue[j] EXCEPT !.status = status]
         /\ j \notin S => queue'[j] = queue[j]
  BY DEF SetStatus
<1>3. queue' \in [Jobs -> JobRow]
  BY <1>1 DEF SetStatus, JobRow
<1>4. QueueAdvances
  BY <1>1, <1>2 DEF QueueAdvances, JobRow
<1>5. \A j \in Jobs : queue'[j].status = "succeeded" => queue'[j] = queue[j]
  BY <1>1, <1>2 DEF JobRow
<1>6. SucceededIsFresh'
  BY <1>1, <1>5 DEF JobsInv, SucceededIsFresh, JobsWith, RowsAdvance, Published, JobRow
<1>7. QED
  BY <1>3, <1>4, <1>6

-----------------------------------------------------------------------------
(* One lemma per action: the part of the invariant that is about the queue.  *)

QueueInv == JobsTypeOK /\ OlderInUse /\ ExecutorsOK /\ OneWaitingJob /\ SucceededIsFresh

LEMMA ReadPendingStep ==
    ASSUME JobsInv, RowsAdvance, NEW e \in Builders, ReadPending(e)
    PROVE  QueueInv'
<1>1. PICK S \in SUBSET JobsWith("pending") : claimed' = [claimed EXCEPT ![e] = S]
  BY DEF ReadPending
<1>2. /\ phase[e] = "idle" /\ phase' = [phase EXCEPT ![e] = "claim"]
      /\ UNCHANGED <<vars, queue, built>>
  BY DEF ReadPending
<1>3. /\ queue' \in [Jobs -> JobRow] /\ QueueAdvances /\ SucceededIsFresh'
  BY <1>2, SameQueue
<1>4. JobsTypeOK'
  BY <1>1, <1>2 DEF JobsInv, JobsTypeOK, JobsWith, TypeOK, vars
<1>5. ExecutorsOK'
  <2> SUFFICES ASSUME NEW c \in Builders PROVE ClaimFresh(c)' /\ BuiltOK(c)'
    BY DEF ExecutorsOK
  <2>1. CASE c = e
    <3>1. built'[e] = NULL /\ phase'[e] = "claim" /\ claimed'[e] = S
      BY <1>1, <1>2 DEF JobsInv, JobsTypeOK, ExecutorsOK, BuiltOK
    <3>2. \A j \in S : queue'[j].status # "absent"
      BY <1>1, <1>2 DEF JobsWith
    <3>3. QED
      BY <2>1, <3>1, <3>2 DEF ClaimFresh, BuiltOK
  <2>2. CASE c # e
    BY <1>1, <1>2, <1>3, <2>2, OtherExecutor DEF JobsInv, JobsTypeOK, vars
  <2>3. QED
    BY <2>1, <2>2
<1>6. QED
  BY <1>3, <1>4, <1>5, AdvancedQueue DEF QueueInv

LEMMA CommitClaimStep ==
    ASSUME JobsInv, RowsAdvance, NEW e \in Builders, CommitClaim(e)
    PROVE  QueueInv'
<1>1. /\ phase[e] = "claim" /\ phase' = [phase EXCEPT ![e] = "begin"]
      /\ SetStatus(claimed[e], "running")
      /\ UNCHANGED <<vars, claimed, built>>
  BY DEF CommitClaim
<1>2. claimed[e] \in SUBSET Jobs
  BY DEF JobsInv, JobsTypeOK
<1>3. /\ queue' \in [Jobs -> JobRow] /\ QueueAdvances /\ SucceededIsFresh'
  BY <1>1, <1>2, StatusStep
<1>4. JobsTypeOK'
  BY <1>1, <1>3 DEF JobsInv, JobsTypeOK, TypeOK, vars
<1>5. ExecutorsOK'
  <2> SUFFICES ASSUME NEW c \in Builders PROVE ClaimFresh(c)' /\ BuiltOK(c)'
    BY DEF ExecutorsOK
  <2>1. CASE c = e
    <3>1. built'[e] = NULL /\ phase'[e] = "begin" /\ claimed'[e] = claimed[e]
      BY <1>1 DEF JobsInv, JobsTypeOK, ExecutorsOK, BuiltOK
    <3>2. \A j \in claimed[e] : queue'[j].status # "absent"
      BY <1>1, <1>2, <1>3 DEF JobsInv, ExecutorsOK, ClaimFresh, QueueAdvances
    <3>3. QED
      BY <2>1, <3>1, <3>2 DEF ClaimFresh, BuiltOK
  <2>2. CASE c # e
    BY <1>1, <1>3, <2>2, OtherExecutor DEF JobsInv, JobsTypeOK, vars
  <2>3. QED
    BY <2>1, <2>2
<1>6. QED
  BY <1>3, <1>4, <1>5, AdvancedQueue DEF QueueInv

LEMMA BeginBuildStep ==
    ASSUME JobsInv, IInv', RowsAdvance, NEW e \in Builders, BeginBuild(e)
    PROVE  QueueInv'
<1>1. /\ phase[e] = "begin" /\ phase' = [phase EXCEPT ![e] = "build"]
      /\ ReadActive(e)
      /\ UNCHANGED <<queue, claimed, built>>
  BY DEF BeginBuild
<1>2. /\ queue' \in [Jobs -> JobRow] /\ QueueAdvances /\ SucceededIsFresh'
  BY <1>1, SameQueue
<1>3. JobsTypeOK'
  BY <1>1 DEF JobsInv, JobsTypeOK, IInv
<1>4. job'[e].pc = "load" /\ \A c \in Builders : c # e => job'[c] = job[c]
  BY <1>1 DEF ReadActive, SetJob, IdleJob, JobsInv, JobsTypeOK, TypeOK
<1>5. ExecutorsOK'
  <2> SUFFICES ASSUME NEW c \in Builders PROVE ClaimFresh(c)' /\ BuiltOK(c)'
    BY DEF ExecutorsOK
  <2>1. CASE c = e
    <3>1. built'[e] = NULL /\ phase'[e] = "build" /\ claimed'[e] = claimed[e]
      BY <1>1 DEF JobsInv, JobsTypeOK, ExecutorsOK, BuiltOK
    <3>2. \A j \in claimed[e] : queue'[j].status # "absent"
      BY <1>1 DEF JobsInv, ExecutorsOK, ClaimFresh
    <3>3. QED
      BY <1>4, <2>1, <3>1, <3>2 DEF ClaimFresh, BuiltOK, Staging
  <2>2. CASE c # e
    BY <1>1, <1>2, <1>4, <2>2, OtherExecutor DEF JobsInv, JobsTypeOK
  <2>3. QED
    BY <2>1, <2>2
<1>6. QED
  BY <1>2, <1>3, <1>5, AdvancedQueue DEF QueueInv

LEMMA RunBuildStep ==
    ASSUME JobsInv, IInv', RowsAdvance, NEW e \in Builders, RunBuild(e)
    PROVE  QueueInv'
<1>1. /\ phase[e] = "build" /\ BuildStep(e)
      /\ built' = [built EXCEPT ![e] =
            IF job[e].pc = "activate" /\ gens' # gens THEN job[e].lab ELSE built[e]]
      /\ UNCHANGED <<queue, claimed, phase>>
  BY DEF RunBuild
<1>2. /\ IInv /\ JobOK(e, job[e]) /\ job[e] \in Job
      /\ ClaimFresh(e) /\ BuiltOK(e)
      /\ built \in [Builders -> Labels \cup {NULL}]
      /\ queue \in [Jobs -> JobRow] /\ claimed[e] \in SUBSET Jobs
  BY DEF JobsInv, JobsTypeOK, ExecutorsOK, IInv, JobsOK, TypeOK
<1>3. /\ queue' \in [Jobs -> JobRow] /\ QueueAdvances /\ SucceededIsFresh'
  BY <1>1, SameQueue
<1>4. /\ \A c \in Builders : c # e => job'[c] = job[c]
      /\ job'[e].pc \in Staging =>
            \/ job[e].pc \in Staging /\ job'[e].lab = job[e].lab
            \/ job'[e].lab \in Labels /\ gens[job'[e].lab].status = "absent"
  BY <1>1, <1>2, StagedLabelIsNew
<1>5. /\ built'[e] \in Labels \cup {NULL}
      /\ built'[e] # NULL => Published(built[e])'
      /\ \A j \in claimed[e] :
            /\ queue[j].status # "absent"
            /\ built'[e] # NULL => built'[e] \notin queue[j].older
  <2>1. CASE job[e].pc = "activate" /\ gens' # gens
    <3>1. job[e].lab \in Labels /\ job[e].pc \in Staging
      BY <1>2, <2>1 DEF JobOK, OwnsLabel, Staging
    <3>2. Activate(e)
      BY <1>1, <2>1 DEF BuildStep, AfterPlan, StagePlan, StageRejected, CreateCollection,
             Upsert, EmbedFails, EmbedDone, EmbedNothing, ZeroChunks, SwitchAlias,
             ActivateFails, RollBackAlias, RollBackFails, CleanUp, CleanUpFails,
             BuildFails, stores
    <3>3. built'[e] = job[e].lab
      BY <1>1, <1>2, <2>1
    <3>4. gens'[job[e].lab].status = "active"
      BY <3>1, <3>2 DEF Activate, ActivationCommit
    <3>5. Published(built[e])'
      BY <3>3, <3>4 DEF Published
    <3>6. phase[e] = "build"
      BY <1>1
    <3>7. \A j \in claimed[e] : queue[j].status # "absent" /\ job[e].lab \notin queue[j].older
      BY <1>2, <3>1, <3>6 DEF ClaimFresh
    <3>8. QED
      BY <3>1, <3>3, <3>5, <3>7
  <2>2. CASE ~(job[e].pc = "activate" /\ gens' # gens)
    <3>1. built'[e] = built[e]
      BY <1>1, <1>2, <2>2
    <3>2. Published(built[e]) /\ built[e] \in Labels => Published(built[e])'
      BY <3>1 DEF RowsAdvance, Published
    <3>3. phase[e] = "build"
      BY <1>1
    <3>4. \A j \in claimed[e] :
             queue[j].status # "absent" /\ (built[e] # NULL => built[e] \notin queue[j].older)
      BY <1>2, <3>3 DEF ClaimFresh
    <3>5. QED
      BY <1>2, <3>1, <3>2, <3>4 DEF BuiltOK
  <2>3. QED
    BY <2>1, <2>2
<1>6. \A j \in claimed[e] : job'[e].pc \in Staging => job'[e].lab \notin queue[j].older
  <2> SUFFICES ASSUME NEW j \in claimed[e], job'[e].pc \in Staging
               PROVE  job'[e].lab \notin queue[j].older
    OBVIOUS
  <2>1. CASE job[e].pc \in Staging /\ job'[e].lab = job[e].lab
    BY <1>1, <1>2, <2>1 DEF ClaimFresh
  <2>2. CASE job'[e].lab \in Labels /\ gens[job'[e].lab].status = "absent"
    BY <1>2, <2>2 DEF JobsInv, OlderInUse
  <2>3. QED
    BY <1>4, <2>1, <2>2
<1>7. JobsTypeOK'
  BY <1>1, <1>2, <1>3, <1>5 DEF JobsInv, JobsTypeOK, IInv
<1>8. ExecutorsOK'
  <2> SUFFICES ASSUME NEW c \in Builders PROVE ClaimFresh(c)' /\ BuiltOK(c)'
    BY DEF ExecutorsOK
  <2>1. CASE c = e
    <3>1. ClaimFresh(e)'
      BY <1>1, <1>5, <1>6 DEF ClaimFresh
    <3>2. BuiltOK(e)'
      BY <1>1, <1>5 DEF BuiltOK
    <3>3. QED
      BY <2>1, <3>1, <3>2
  <2>2. CASE c # e
    BY <1>1, <1>3, <1>4, <2>2, OtherExecutor DEF JobsInv, JobsTypeOK
  <2>3. QED
    BY <2>1, <2>2
<1>9. QED
  BY <1>3, <1>7, <1>8, AdvancedQueue DEF QueueInv

(* The end of a run: the executor lets go of its claims. *)
LEMMA ReturnStep ==
    ASSUME JobsInv, RowsAdvance, NEW e \in Builders, Return(e),
           queue' \in [Jobs -> JobRow], QueueAdvances, SucceededIsFresh'
    PROVE  QueueInv'
<1>1. /\ claimed' = [claimed EXCEPT ![e] = {}]
      /\ phase' = [phase EXCEPT ![e] = "idle"]
      /\ built' = [built EXCEPT ![e] = NULL]
      /\ UNCHANGED vars
  BY DEF Return
<1>2. JobsTypeOK'
  BY <1>1 DEF JobsInv, JobsTypeOK, TypeOK, vars
<1>3. ExecutorsOK'
  <2> SUFFICES ASSUME NEW c \in Builders PROVE ClaimFresh(c)' /\ BuiltOK(c)'
    BY DEF ExecutorsOK
  <2>1. CASE c = e
    BY <1>1, <2>1 DEF ClaimFresh, BuiltOK, JobsInv, JobsTypeOK
  <2>2. CASE c # e
    BY <1>1, <2>2, OtherExecutor DEF JobsInv, JobsTypeOK, vars
  <2>3. QED
    BY <2>1, <2>2
<1>4. QED
  BY <1>2, <1>3, AdvancedQueue DEF QueueInv

LEMMA MarkFailedStep ==
    ASSUME JobsInv, RowsAdvance, NEW e \in Builders, MarkFailed(e)
    PROVE  QueueInv'
<1>1. SetStatus(claimed[e], "failed") /\ Return(e) /\ claimed[e] \in SUBSET Jobs
  BY DEF MarkFailed, JobsInv, JobsTypeOK
<1>2. QED
  BY <1>1, StatusStep, ReturnStep

LEMMA MarkSucceededStep ==
    ASSUME JobsInv, RowsAdvance, NEW e \in Builders, MarkSucceeded(e)
    PROVE  QueueInv'
<1>1. /\ phase[e] = "build" /\ built[e] # NULL /\ Return(e)
      /\ queue' = [j \in Jobs |->
            IF j \in claimed[e]
            THEN [queue[j] EXCEPT !.status = "succeeded", !.gen = built[e]]
            ELSE queue[j]]
  BY DEF MarkSucceeded
<1>2. /\ \A j \in Jobs : queue[j] \in JobRow
      /\ built[e] \in Labels /\ Published(built[e])
      /\ \A j \in claimed[e] : built[e] \notin queue[j].older
  BY <1>1 DEF JobsInv, JobsTypeOK, ExecutorsOK, ClaimFresh, BuiltOK
<1>3. queue' \in [Jobs -> JobRow]
  BY <1>1, <1>2 DEF JobRow
<1>4. \A j \in Jobs :
         /\ j \in claimed[e] => queue'[j] = [queue[j] EXCEPT !.status = "succeeded", !.gen = built[e]]
         /\ j \notin claimed[e] => queue'[j] = queue[j]
  BY <1>1
<1>5. \A j \in Jobs :
         /\ queue'[j].rec = queue[j].rec /\ queue'[j].op = queue[j].op
         /\ queue'[j].older = queue[j].older
         /\ j \in claimed[e] => queue'[j].status = "succeeded" /\ queue'[j].gen = built[e]
         /\ j \notin claimed[e] => queue'[j].status = queue[j].status /\ queue'[j].gen = queue[j].gen
  BY <1>2, <1>4 DEF JobRow
<1>6. QueueAdvances
  BY <1>5 DEF QueueAdvances
<1>7. SucceededIsFresh'
  <2> SUFFICES ASSUME NEW j \in Jobs, queue'[j].status = "succeeded"
               PROVE  /\ queue'[j].gen # NULL
                      /\ gens'[queue'[j].gen].status \in {"active", "retired"}
                      /\ queue'[j].gen \notin queue'[j].older
    BY DEF SucceededIsFresh, JobsWith
  <2>1. UNCHANGED gens
    BY <1>1 DEF Return, vars
  <2>2. CASE j \in claimed[e]
    BY <1>1, <1>2, <1>5, <2>1, <2>2 DEF Published
  <2>3. CASE j \notin claimed[e]
    BY <1>5, <2>1, <2>3 DEF JobsInv, SucceededIsFresh, JobsWith
  <2>4. QED
    BY <2>2, <2>3
<1>8. QED
  BY <1>1, <1>3, <1>6, <1>7, ReturnStep

LEMMA CrashExecutorStep ==
    ASSUME JobsInv, IInv', RowsAdvance, NEW e \in Builders, CrashExecutor(e)
    PROVE  QueueInv'
<1>1. /\ phase' = [phase EXCEPT ![e] = "dead"]
      /\ job' = [job EXCEPT ![e] = IdleJob]
      /\ UNCHANGED <<queue, claimed, built>>
  BY DEF CrashExecutor, Finish, SetJob
<1>2. /\ queue' \in [Jobs -> JobRow] /\ QueueAdvances /\ SucceededIsFresh'
  BY <1>1, SameQueue
<1>3. JobsTypeOK'
  BY <1>1 DEF JobsInv, JobsTypeOK, IInv
<1>4. ExecutorsOK'
  <2> SUFFICES ASSUME NEW c \in Builders PROVE ClaimFresh(c)' /\ BuiltOK(c)'
    BY DEF ExecutorsOK
  <2>1. CASE c = e
    <3>1. phase'[e] = "dead" /\ built'[e] = built[e] /\ built[e] \in Labels \cup {NULL}
      BY <1>1 DEF JobsInv, JobsTypeOK
    <3>2. BuiltOK(e)
      BY DEF JobsInv, ExecutorsOK
    <3>3. BuiltOK(e)'
      BY <3>1, <3>2 DEF BuiltOK, RowsAdvance
    <3>4. QED
      BY <2>1, <3>1, <3>3 DEF ClaimFresh
  <2>2. CASE c # e
    BY <1>1, <1>2, <2>2, OtherExecutor DEF JobsInv, JobsTypeOK, TypeOK
  <2>3. QED
    BY <2>1, <2>2
<1>5. QED
  BY <1>2, <1>3, <1>4, AdvancedQueue DEF QueueInv

LEMMA QueueUntouchedStep ==
    ASSUME JobsInv, IInv', RowsAdvance, UNCHANGED <<jobVars, job>>
    PROVE  QueueInv'
<1>1. UNCHANGED <<queue, claimed, phase, built, job>>
  BY DEF jobVars
<1>2. /\ queue' \in [Jobs -> JobRow] /\ QueueAdvances /\ SucceededIsFresh'
  BY <1>1, SameQueue
<1>3. JobsTypeOK'
  BY <1>1 DEF JobsInv, JobsTypeOK, IInv
<1>4. ExecutorsOK'
  BY <1>1, <1>2, OtherExecutor DEF ExecutorsOK
<1>5. QED
  BY <1>2, <1>3, <1>4, AdvancedQueue DEF QueueInv

(* A review asks for at most one operation. *)
LEMMA OneOperation ==
    ASSUME NEW r \in Records, NEW authoritative \in BOOLEAN
    PROVE  /\ Wanted(r, authoritative) \subseteq {"index", "deindex"}
           /\ \A o, q \in Wanted(r, authoritative) : o = q
BY DEF Wanted

(* The job a review creates is the only one waiting for its record and       *)
(* operation, and no executor has claimed its id.                            *)
LEMMA NewJobStep ==
    ASSUME JobsInv, IInv', RowsAdvance, NEW r \in Records, NEW op \in {"index", "deindex"},
           NEW j \in JobsWith("absent"), OpenJobs(r, op) = {},
           queue' = [queue EXCEPT ![j] = NewJob(r, op)],
           UNCHANGED <<gens, claimed, phase, built, job>>
    PROVE  QueueInv'
<1>1. /\ j \in Jobs /\ queue[j].status = "absent"
      /\ queue \in [Jobs -> JobRow]
  BY DEF JobsWith, JobsInv, JobsTypeOK
<1>2. NewJob(r, op) \in JobRow
  BY DEF NewJob, JobRow
<1>3. /\ queue' \in [Jobs -> JobRow]
      /\ queue'[j] = NewJob(r, op)
      /\ \A k \in Jobs : k # j => queue'[k] = queue[k]
  BY <1>1, <1>2
<1>4. /\ queue'[j].status = "pending" /\ queue'[j].rec = r /\ queue'[j].op = op
      /\ queue'[j].older = {l \in Labels : gens[l].status # "absent"}
  BY <1>3 DEF NewJob
<1>5. JobsTypeOK'
  BY <1>3 DEF JobsInv, JobsTypeOK, IInv
<1>6. OlderInUse'
  <2> SUFFICES ASSUME NEW k \in Jobs, NEW l \in queue'[k].older
               PROVE  gens'[l].status # "absent"
    BY DEF OlderInUse
  <2>1. CASE k = j
    BY <1>4, <2>1
  <2>2. CASE k # j
    BY <1>3, <2>2 DEF JobsInv, OlderInUse
  <2>3. QED
    BY <2>1, <2>2
<1>7. ExecutorsOK'
  <2> SUFFICES ASSUME NEW c \in Builders PROVE ClaimFresh(c)' /\ BuiltOK(c)'
    BY DEF ExecutorsOK
  <2>1. ClaimFresh(c) /\ BuiltOK(c) /\ claimed[c] \in SUBSET Jobs
    BY DEF JobsInv, ExecutorsOK, JobsTypeOK
  <2>2. phase[c] \in {"claim", "begin", "build"} => j \notin claimed[c]
    BY <1>1, <2>1 DEF ClaimFresh
  <2>3. ClaimFresh(c)'
    BY <1>3, <2>1, <2>2 DEF ClaimFresh
  <2>4. BuiltOK(c)'
    BY <2>1 DEF BuiltOK, Published
  <2>5. QED
    BY <2>3, <2>4
<1>8. OneWaitingJob'
  <2> SUFFICES ASSUME NEW i \in Jobs, NEW k \in Jobs, i # k,
                      queue'[i].status = "pending", queue'[k].status = "pending",
                      queue'[i].rec = queue'[k].rec, queue'[i].op = queue'[k].op
               PROVE  FALSE
    BY DEF OneWaitingJob, JobsWith
  <2>1. \A m \in Jobs : ~ (queue[m].status = "pending" /\ queue[m].rec = r /\ queue[m].op = op)
    BY DEF OpenJobs, JobsWith
  <2>2. CASE i = j \/ k = j
    BY <1>3, <1>4, <2>1, <2>2
  <2>3. CASE i # j /\ k # j
    BY <1>3, <2>3 DEF JobsInv, OneWaitingJob, JobsWith
  <2>4. QED
    BY <2>2, <2>3
<1>9. SucceededIsFresh'
  <2> SUFFICES ASSUME NEW k \in Jobs, queue'[k].status = "succeeded"
               PROVE  /\ queue'[k].gen # NULL
                      /\ gens'[queue'[k].gen].status \in {"active", "retired"}
                      /\ queue'[k].gen \notin queue'[k].older
    BY DEF SucceededIsFresh, JobsWith
  <2>1. k # j
    BY <1>4
  <2>2. QED
    BY <1>3, <2>1 DEF JobsInv, SucceededIsFresh, JobsWith
<1>10. QED
  BY <1>5, <1>6, <1>7, <1>8, <1>9 DEF QueueInv

LEMMA ReviewStep ==
    ASSUME JobsInv, IInv', RowsAdvance, NEW r \in Records, NEW authoritative \in BOOLEAN,
           Review(r, authoritative)
    PROVE  QueueInv'
<1>1. UNCHANGED <<gens, job, claimed, phase, built>>
  BY DEF Review, Recompute, SetRecord, stores
<1>2. CASE queue' = queue
  BY <1>1, <1>2, QueueUntouchedStep DEF jobVars
<1>3. CASE /\ \E op \in Wanted(r, authoritative) : OpenJobs(r, op) = {}
           /\ \E j \in JobsWith("absent") :
                 queue' = [queue EXCEPT ![j] =
                     NewJob(r, CHOOSE op \in Wanted(r, authoritative) : TRUE)]
  <2>1. PICK op \in Wanted(r, authoritative) : OpenJobs(r, op) = {}
    BY <1>3
  <2>2. (CHOOSE o \in Wanted(r, authoritative) : TRUE) = op
    BY OneOperation
  <2>3. PICK j \in JobsWith("absent") : queue' = [queue EXCEPT ![j] = NewJob(r, op)]
    BY <1>3, <2>2
  <2>4. op \in {"index", "deindex"}
    BY OneOperation
  <2>5. QED
    BY <1>1, <2>1, <2>3, <2>4, NewJobStep
<1>4. QED
  BY <1>2, <1>3 DEF Review

-----------------------------------------------------------------------------
(* The invariant. *)

LEMMA JobsInitInv == JobsInit => JobsInv
<1> SUFFICES ASSUME JobsInit PROVE JobsInv
  OBVIOUS
<1>1. IInv
  BY InitInv DEF JobsInit
<1>2. \A j \in Jobs : queue[j] = NoJob
  BY DEF JobsInit
<1>3. JobsTypeOK
  BY <1>1 DEF JobsInit, JobsTypeOK, IInv, JobRow, NoJob
<1>4. ExecutorsOK
  BY DEF JobsInit, ExecutorsOK, ClaimFresh, BuiltOK
<1>5. OlderInUse /\ OneWaitingJob /\ SucceededIsFresh
  BY <1>2 DEF OlderInUse, OneWaitingJob, SucceededIsFresh, JobsWith, NoJob
<1>6. QED
  BY <1>1, <1>3, <1>4, <1>5 DEF JobsInv

LEMMA JobsNextInv == JobsInv /\ [JobsNext]_allVars => JobsInv'
<1> SUFFICES ASSUME JobsInv, [JobsNext]_allVars PROVE JobsInv'
  OBVIOUS
<1>1. IInv' /\ RowsAdvance
  BY JobsKeepIInv, JobsKeepRows DEF JobsInv
<1>2. ASSUME NEW e \in Builders, ReadPending(e) PROVE QueueInv'
  BY <1>1, <1>2, ReadPendingStep
<1>3. ASSUME NEW e \in Builders, GoOn(e) PROVE QueueInv'
  <2>1. CASE CommitClaim(e)
    BY <1>1, <2>1, CommitClaimStep
  <2>2. CASE BeginBuild(e)
    BY <1>1, <2>2, BeginBuildStep
  <2>3. CASE RunBuild(e)
    BY <1>1, <2>3, RunBuildStep
  <2>4. CASE MarkFailed(e)
    BY <1>1, <2>4, MarkFailedStep
  <2>5. CASE MarkSucceeded(e)
    BY <1>1, <2>5, MarkSucceededStep
  <2>6. QED
    BY <1>3, <2>1, <2>2, <2>3, <2>4, <2>5 DEF GoOn
<1>4. ASSUME NEW e \in Builders, CrashExecutor(e) PROVE QueueInv'
  BY <1>1, <1>4, CrashExecutorStep
<1>5. ASSUME NEW r \in Records, NEW authoritative \in BOOLEAN, Review(r, authoritative)
      PROVE  QueueInv'
  BY <1>1, <1>5, ReviewStep
<1>6. ASSUME NEW r \in Records, Crawl(r) PROVE QueueInv'
  <2>1. UNCHANGED <<jobVars, job>>
    BY <1>6 DEF Crawl, Classify, Downgrade, SetRecord
  <2>2. QED
    BY <1>1, <2>1, QueueUntouchedStep
<1>7. ASSUME UNCHANGED allVars PROVE QueueInv'
  <2>1. UNCHANGED <<jobVars, job>>
    BY <1>7 DEF allVars, vars
  <2>2. QED
    BY <1>1, <2>1, QueueUntouchedStep
<1>8. QueueInv'
  BY <1>2, <1>3, <1>4, <1>5, <1>6, <1>7 DEF JobsNext
<1>9. QED
  BY <1>1, <1>8 DEF JobsInv, QueueInv

(* The invariant of the generations, with what executors have claimed and    *)
(* built, holds in every state of the queue.                                 *)
THEOREM JobsInvariant == JobsSpec => []JobsInv
BY JobsInitInv, JobsNextInv, PTL DEF JobsSpec

(* Job rows, claims and build results are of their declared kinds; above all *)
(* a job's status stays within the column's check constraint                 *)
(* (run_pending_jobs, _ensure_index_job).                                    *)
THEOREM JobsTypeCorrect == JobsSpec => []JobsTypeOK
<1>1. JobsInv => JobsTypeOK
  BY DEF JobsInv
<1>2. QED
  BY <1>1, JobsInvariant, PTL

(* However many executors and reviews interleave, at most one job waits for  *)
(* a record and operation (_ensure_index_job).                               *)
THEOREM WaitsOnce == JobsSpec => []OneWaitingJob
<1>1. JobsInv => OneWaitingJob
  BY DEF JobsInv
<1>2. QED
  BY <1>1, JobsInvariant, PTL

(* Whichever executors claim the same job, lose their process or build at    *)
(* the same time, a job that succeeded names a generation that was published *)
(* and was staged after the job was enqueued (run_pending_jobs).             *)
THEOREM SuccessIsFresh == JobsSpec => []SucceededIsFresh
<1>1. JobsInv => SucceededIsFresh
  BY DEF JobsInv
<1>2. QED
  BY <1>1, JobsInvariant, PTL

(* Executors publish generations as atomically as other builders do: their   *)
(* steps, and the death of one at any point, are steps of the promise to     *)
(* readers or change nothing a reader sees (run_pending_jobs, phase 2).      *)
THEOREM JobsPublishAtomically == JobsSpec => PublishesAtomically
<1>1. JobsInit => Promise!Init
  BY DEF JobsInit, Init, Promise!Init, ActiveLabel, ActiveLabels, LiveContent,
         EverActive, IsActive, NoRow
<1>2. IInv /\ IInv' /\ [JobsNext]_allVars =>
         [Promise!Next]_<<ActiveLabel, LiveContent, EverActive>>
  <2> SUFFICES ASSUME IInv, IInv', [JobsNext]_allVars
               PROVE  Promise!Next \/ UNCHANGED <<ActiveLabel, LiveContent, EverActive>>
    OBVIOUS
  <2>1. CASE [Next]_vars
    BY <2>1, StepIsPublishOrStutter
  <2>2. CASE UNCHANGED gens
    BY <2>2, ReaderSeesNothing
  <2>3. QED
    BY <2>1, <2>2, JobsStepIsBuilderStep DEF stores
<1>3. JobsInv => IInv
  BY DEF JobsInv
<1>4. QED
  BY <1>1, <1>2, <1>3, JobsInvariant, PTL
  DEF PublishesAtomically, Promise!Spec, JobsSpec

=============================================================================
