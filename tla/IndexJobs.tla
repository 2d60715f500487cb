------------------------------ MODULE IndexJobs ------------------------------
(***************************************************************************)
(* The index job queue: reviewers enqueue jobs (recompute_scope_state,     *)
(* _ensure_index_job), executors claim the pending ones, build a serving   *)
(* generation for them and record the outcome (IndexJobExecutor).          *)
(*                                                                         *)
(* Every builder is an executor here, one run of the command after the     *)
(* other; an executor that died is not started again, others may be.  A    *)
(* claim reads the pending rows and commits their new status without a row *)
(* lock, so another transaction may come between the two; the outcome is   *)
(* written later to whatever rows have the claimed ids.  Reviews do not    *)
(* overlap each other.                                                     *)
(***************************************************************************)
EXTENDS ServingGenerations

CONSTANT Jobs   \* ids of index_jobs rows

VARIABLES
    queue,    \* index_jobs: the row of each id
    claimed,  \* processed_job_ids of each executor
    phase,    \* where run_pending_jobs is
    built     \* the label an executor's build has activated, or NULL

jobVars == <<queue, claimed, phase, built>>
allVars == <<vars, jobVars>>

JobRow == [status : {"absent", "pending", "running", "succeeded", "failed"},
           rec : Records \cup {NULL},        \* record_version_id
           op : {"index", "deindex"},        \* operation
           gen : Labels \cup {NULL},         \* generation_id
           older : SUBSET Labels]            \* history: the labels staged before

NoJob == [status |-> "absent", rec |-> NULL, op |-> "index", gen |-> NULL, older |-> {}]

ASSUME NullRecordAssumption == NULL \notin Records

JobsTypeOK ==
    /\ TypeOK
    /\ queue \in [Jobs -> JobRow]
    /\ claimed \in [Builders -> SUBSET Jobs]
    /\ phase \in [Builders -> {"idle", "claim", "begin", "build", "dead"}]
    /\ built \in [Builders -> Labels \cup {NULL}]

JobsInit ==
    /\ Init
    /\ queue = [j \in Jobs |-> NoJob]
    /\ claimed = [e \in Builders |-> {}]
    /\ phase = [e \in Builders |-> "idle"]
    /\ built = [e \in Builders |-> NULL]

JobsWith(status) == {j \in Jobs : queue[j].status = status}

SetStatus(S, status) ==
    queue' = [j \in Jobs |-> IF j \in S THEN [queue[j] EXCEPT !.status = status] ELSE queue[j]]

NewJob(r, op) ==
    [status |-> "pending", rec |-> r, op |-> op, gen |-> NULL,
     older |-> {l \in Labels : gens[l].status # "absent"}]

-----------------------------------------------------------------------------
(* Faulty variants, used by no specification. *)

(* Only the jobs an executor works on are looked for, not the pending ones. *)
RunningJobs(r, op) == {j \in JobsWith("running") : queue[j].rec = r /\ queue[j].op = op}

(* The outcome is written to every open job, not to the claimed ones. *)
MarkAllSucceeded(e) ==
    /\ phase[e] = "build"
    /\ job[e].pc = "idle"
    /\ built[e] # NULL
    /\ queue' = [j \in Jobs |->
          IF queue[j].status \in {"pending", "running"}
          THEN [queue[j] EXCEPT !.status = "succeeded", !.gen = built[e]]
          ELSE queue[j]]
    /\ claimed' = [claimed EXCEPT ![e] = {}]
    /\ phase' = [phase EXCEPT ![e] = "idle"]
    /\ built' = [built EXCEPT ![e] = NULL]
    /\ UNCHANGED vars

(* The exception of a failed build leaves run_pending_jobs. *)
LeaveRunning(e) ==
    /\ phase[e] = "build"
    /\ job[e].pc = "idle"
    /\ built[e] = NULL
    /\ claimed' = [claimed EXCEPT ![e] = {}]
    /\ phase' = [phase EXCEPT ![e] = "idle"]
    /\ UNCHANGED <<vars, queue, built>>

(* A failed job gets a status outside the column's check constraint. *)
MarkErrored(e) ==
    /\ phase[e] = "build"
    /\ job[e].pc = "idle"
    /\ built[e] = NULL
    /\ SetStatus(claimed[e], "error")
    /\ claimed' = [claimed EXCEPT ![e] = {}]
    /\ phase' = [phase EXCEPT ![e] = "idle"]
    /\ UNCHANGED <<vars, built>>

-----------------------------------------------------------------------------
(* The rows _ensure_index_job looks for. *)
OpenJobs(r, op) ==
    {j \in JobsWith("pending") \cup JobsWith("running") :
        queue[j].rec = r /\ queue[j].op = op}

(* _apply_recomputed_decision asks for a job: none unless the record has to  *)
(* be indexed or de-indexed.                                                 *)
Wanted(r, authoritative) ==
    IF authoritative
    THEN IF serving[r] = "indexed_active" THEN {} ELSE {"index"}
    ELSE IF serving[r] \in {"indexed_active", "pending_deindex"} THEN {"deindex"} ELSE {}

(* A review classifies r; an open job for the same operation is enough.  The *)
(* lookup raises if it finds several, and the review is rolled back.         *)
Review(r, authoritative) ==
    /\ Recompute(r, authoritative)
    /\ \A op \in Wanted(r, authoritative) : Cardinality(OpenJobs(r, op)) <= 1
    /\ \/ /\ \E op \in Wanted(r, authoritative) : OpenJobs(r, op) = {}
          /\ \E j \in JobsWith("absent") :
                queue' = [queue EXCEPT ![j] =
                    NewJob(r, CHOOSE op \in Wanted(r, authoritative) : TRUE)]
       \/ /\ \A op \in Wanted(r, authoritative) : OpenJobs(r, op) # {}
          /\ queue' = queue
    /\ UNCHANGED <<claimed, phase, built>>

(* A crawl classifies records and creates no job. *)
Crawl(r) ==
    /\ (\E authoritative \in BOOLEAN : Classify(r, authoritative)) \/ Downgrade(r)
    /\ UNCHANGED jobVars

-----------------------------------------------------------------------------
(* run_pending_jobs, phase 1: read the pending rows, all or the first few.   *)
(* Without any it returns.                                                   *)
ReadPending(e) ==
    /\ phase[e] = "idle"
    /\ \E S \in SUBSET JobsWith("pending") \ {{}} : claimed' = [claimed EXCEPT ![e] = S]
    /\ phase' = [phase EXCEPT ![e] = "claim"]
    /\ UNCHANGED <<vars, queue, built>>

CommitClaim(e) ==
    /\ phase[e] = "claim"
    /\ SetStatus(claimed[e], "running")
    /\ phase' = [phase EXCEPT ![e] = "begin"]
    /\ UNCHANGED <<vars, claimed, built>>

(* Phase 2, build_and_activate. *)
BeginBuild(e) ==
    /\ phase[e] = "begin"
    /\ ReadActive(e)
    /\ phase' = [phase EXCEPT ![e] = "build"]
    /\ UNCHANGED <<queue, claimed, built>>

RunBuild(e) ==
    /\ phase[e] = "build"
    /\ BuildStep(e)
    /\ built' = [built EXCEPT ![e] =
          IF job[e].pc = "activate" /\ gens' # gens THEN job[e].lab ELSE @]
    /\ UNCHANGED <<queue, claimed, phase>>

Return(e) ==
    /\ claimed' = [claimed EXCEPT ![e] = {}]
    /\ phase' = [phase EXCEPT ![e] = "idle"]
    /\ built' = [built EXCEPT ![e] = NULL]
    /\ UNCHANGED vars

(* The build raised: mark the claimed jobs failed. *)
MarkFailed(e) ==
    /\ phase[e] = "build"
    /\ job[e].pc = "idle"
    /\ built[e] = NULL
    /\ SetStatus(claimed[e], "failed")
    /\ Return(e)

(* Phase 3: mark the claimed jobs succeeded, with the generation. *)
MarkSucceeded(e) ==
    /\ phase[e] = "build"
    /\ job[e].pc = "idle"
    /\ built[e] # NULL
    /\ queue' = [j \in Jobs |->
          IF j \in claimed[e]
          THEN [queue[j] EXCEPT !.status = "succeeded", !.gen = built[e]]
          ELSE queue[j]]
    /\ Return(e)

(* The process dies; the ids it had claimed stay known to the history. *)
CrashExecutor(e) ==
    /\ "crash" \in Faults
    /\ phase[e] \notin {"idle", "dead"}
    /\ phase' = [phase EXCEPT ![e] = "dead"]
    /\ Finish(e)
    /\ UNCHANGED <<stores, recordVars, queue, claimed, built>>

(* What an executor does once it has found pending jobs. *)
GoOn(e) ==
    \/ CommitClaim(e)
    \/ BeginBuild(e) \/ RunBuild(e)
    \/ MarkFailed(e) \/ MarkSucceeded(e)

JobsNext ==
    \/ \E e \in Builders : ReadPending(e) \/ GoOn(e) \/ CrashExecutor(e)
    \/ \E r \in Records, authoritative \in BOOLEAN : Review(r, authoritative)
    \/ \E r \in Records : Crawl(r)

JobsSpec == JobsInit /\ [][JobsNext]_allVars

(* A run of the command goes on once it has found jobs: its calls have time  *)
(* limits.                                                                   *)
FairJobsSpec == JobsSpec /\ \A e \in Builders : WF_allVars(GoOn(e))

-----------------------------------------------------------------------------
(* At most one job waits for each record and operation, also when reviews    *)
(* and crawls move the record back and forth while executors claim, fail and *)
(* write outcomes (_ensure_index_job).                                       *)
OneWaitingJob ==
    \A j, k \in JobsWith("pending") :
        queue[j].rec = queue[k].rec /\ queue[j].op = queue[k].op => j = k

(* A job that succeeded names a generation that was activated and whose      *)
(* records were read after the job was enqueued: a build under way does not  *)
(* settle a job that comes later, and two executors that claimed the same    *)
(* job do not spoil each other's outcome (run_pending_jobs, phases 1 and 3). *)
SucceededIsFresh ==
    \A j \in JobsWith("succeeded") :
        /\ queue[j].gen # NULL
        /\ gens[queue[j].gen].status \in {"active", "retired"}
        /\ queue[j].gen \notin queue[j].older

(* A claimed job gets its outcome, whatever the build does, unless an        *)
(* executor that claimed it died (run_pending_jobs).                         *)
JobsSettle ==
    \A j \in Jobs :
        queue[j].status = "running" ~>
            \/ queue[j].status \in {"succeeded", "failed"}
            \/ \E e \in Builders : phase[e] = "dead" /\ j \in claimed[e]

=============================================================================
