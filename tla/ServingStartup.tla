--------------------------- MODULE ServingStartup ---------------------------
(***************************************************************************)
(* The API worker's start-up, _ensure_serving_generation, and the script   *)
(* reset_serving_state.                                                    *)
(*                                                                         *)
(* A worker that finds no active generation wipes the serving state (the   *)
(* alias, every generation collection, every generation row) and builds    *)
(* generation "v1".  The check, each Qdrant call and each transaction is a *)
(* step of its own, so the worker may die and be restarted between any two *)
(* of them, and a build started elsewhere (the build script, an update     *)
(* cycle) runs on in between.  Builders that are not workers are those.    *)
(* Their operators may also run the script, which wipes the same state but *)
(* asks nothing and works from lists made at its beginning.                *)
(***************************************************************************)
EXTENDS ServingGenerations

CONSTANTS
    Workers,      \* API processes; each also runs its own build
    FirstLabel,   \* the label "v1"
    MaxScripts,   \* bound on the number of runs of the reset script
    MaxTroubles   \* bound on the number of worker crashes and such runs together

ASSUME WorkersAssumption == Workers \subseteq Builders
ASSUME FirstLabelAssumption == FirstLabel \in Labels
ASSUME MaxScriptsAssumption == MaxScripts \in Nat
ASSUME MaxTroublesAssumption == MaxTroubles \in Nat

VARIABLES
    boot,     \* where each worker is in its start-up
    doomed,   \* the collections a worker or script has listed and not yet deleted
    crashes,  \* number of worker crashes so far
    script,   \* where an operator is in the reset script, and if it saw the alias
    scripts   \* number of runs of the script so far

bootVars == <<boot, doomed, crashes>>
scriptVars == <<script, scripts>>
startupVars == <<vars, bootVars, scriptVars>>

Operators == Builders \ Workers
NoScript == [pc |-> "none", aliased |-> FALSE]

BootPhase == {"down", "check", "alias", "list", "wipe", "begin", "build", "up", "unwiped"}

StartupTypeOK ==
    /\ TypeOK
    /\ boot \in [Workers -> BootPhase]
    /\ doomed \in [Builders -> SUBSET Labels]
    /\ crashes \in 0..MaxTroubles
    /\ script \in [Operators -> [pc : {"none", "list", "alias", "wipe"}, aliased : BOOLEAN]]
    /\ scripts \in 0..MaxScripts

(* The records were ingested before the API is started for the first time. *)
StartupInit ==
    /\ gens = [l \in Labels |-> NoRow]
    /\ collections = {}
    /\ points = [l \in Labels |-> NoPoints]
    /\ alias = NULL
    /\ loadable \in SUBSET Records
    /\ serving = [r \in Records |-> IF r \in loadable THEN "eligible" ELSE "ineligible"]
    /\ job = [b \in Builders |-> IdleJob]
    /\ boot = [w \in Workers |-> "down"]
    /\ doomed = [b \in Builders |-> {}]
    /\ crashes = 0
    /\ script = [b \in Operators |-> NoScript]
    /\ scripts = 0

EnterPhase(w, phase) == boot' = [boot EXCEPT ![w] = phase]

(* One transaction deletes every generation row and resets the records. *)
ClearRows ==
    /\ gens' = [l \in Labels |-> NoRow]
    /\ serving' = [r \in Records |->
          IF serving[r] = "indexed_active" THEN "eligible" ELSE serving[r]]

-----------------------------------------------------------------------------
(* Faulty variants, used by no specification. *)

(* The wipe leaves the generation rows in the database. *)
RowsKept(w) ==
    /\ boot[w] = "wipe"
    /\ doomed[w] = {}
    /\ EnterPhase(w, "begin")
    /\ UNCHANGED <<vars, doomed, crashes>>

(* The reset writes a status outside the column's check constraint. *)
ResetToUnknown(w) ==
    /\ boot[w] = "wipe"
    /\ doomed[w] = {}
    /\ gens' = [l \in Labels |-> NoRow]
    /\ serving' = [r \in Records |->
          IF serving[r] = "indexed_active" THEN "reset" ELSE serving[r]]
    /\ EnterPhase(w, "begin")
    /\ UNCHANGED <<collections, points, alias, loadable, job, doomed, crashes>>

-----------------------------------------------------------------------------
StartWorker(w) ==
    /\ boot[w] = "down"
    /\ EnterPhase(w, "check")
    /\ UNCHANGED <<vars, doomed, crashes>>

(* Serving starts at once if some generation is active. *)
CheckActive(w) ==
    /\ boot[w] = "check"
    /\ EnterPhase(w, IF ActiveLabel # NULL THEN "up" ELSE "alias")
    /\ UNCHANGED <<vars, doomed, crashes>>

RemoveAlias(w) ==
    /\ boot[w] = "alias"
    /\ alias' = NULL
    /\ EnterPhase(w, "list")
    /\ UNCHANGED <<gens, collections, points, recordVars, job, doomed, crashes>>

ListCollections(w) ==
    /\ boot[w] = "list"
    /\ doomed' = [doomed EXCEPT ![w] = collections]
    /\ EnterPhase(w, "wipe")
    /\ UNCHANGED <<vars, crashes>>

DeleteListed(w, l) ==
    /\ boot[w] = "wipe"
    /\ l \in doomed[w]
    /\ DeleteCollection(l)
    /\ doomed' = [doomed EXCEPT ![w] = @ \ {l}]
    /\ UNCHANGED <<gens, recordVars, job, boot, crashes>>

(* A Qdrant call of the wipe raises: logged, and the worker serves as is. *)
WipeFails(w) ==
    /\ "reset" \in Faults
    /\ boot[w] \in {"alias", "list", "wipe"}
    /\ EnterPhase(w, "unwiped")
    /\ doomed' = [doomed EXCEPT ![w] = {}]
    /\ UNCHANGED <<vars, crashes>>

ResetRows(w) ==
    /\ boot[w] = "wipe"
    /\ doomed[w] = {}
    /\ ClearRows
    /\ EnterPhase(w, "begin")
    /\ UNCHANGED <<collections, points, alias, loadable, job, doomed, crashes>>

BeginBuild(w) ==
    /\ boot[w] = "begin"
    /\ ReadActive(w)
    /\ EnterPhase(w, "build")
    /\ UNCHANGED <<doomed, crashes>>

(* build_and_activate(generation_label="v1") *)
WorkerBuildStep(w) ==
    /\ boot[w] = "build"
    /\ StagePlan(w, FirstLabel) \/ StageRejected(w, FirstLabel) \/ AfterPlan(w)
    /\ UNCHANGED bootVars

(* The build has returned or its exception was logged. *)
Ready(w) ==
    /\ boot[w] = "build"
    /\ job[w].pc = "idle"
    /\ EnterPhase(w, "up")
    /\ UNCHANGED <<vars, doomed, crashes>>

(* The worker dies; so does an exception in ResetRows, which nothing catches. *)
CrashWorker(w) ==
    /\ "crash" \in Faults
    /\ crashes + scripts < MaxTroubles
    /\ boot[w] # "down"
    /\ EnterPhase(w, "down")
    /\ doomed' = [doomed EXCEPT ![w] = {}]
    /\ crashes' = crashes + 1
    /\ Finish(w)
    /\ UNCHANGED <<stores, recordVars>>

WorkerStep(w) ==
    /\ \/ StartWorker(w) \/ CheckActive(w) \/ RemoveAlias(w) \/ ListCollections(w)
       \/ \E l \in Labels : DeleteListed(w, l)
       \/ WipeFails(w) \/ ResetRows(w)
       \/ BeginBuild(w) \/ WorkerBuildStep(w) \/ Ready(w)
    /\ UNCHANGED scriptVars

OtherBuilderStep(b) ==
    /\ (script[b] = NoScript /\ ReadActive(b)) \/ BuildStep(b) \/ Crash(b)
    /\ UNCHANGED <<bootVars, scriptVars>>

-----------------------------------------------------------------------------
(* The reset script of an operator who is not building. *)

EnterScript(b, pc) == script' = [script EXCEPT ![b].pc = pc]

ReadAliases(b) ==
    /\ script[b] = NoScript
    /\ job[b].pc = "idle"
    /\ scripts < MaxScripts
    /\ crashes + scripts < MaxTroubles
    /\ script' = [script EXCEPT ![b] = [pc |-> "list", aliased |-> alias # NULL]]
    /\ scripts' = scripts + 1
    /\ UNCHANGED <<vars, bootVars>>

ReadCollections(b) ==
    /\ script[b].pc = "list"
    /\ doomed' = [doomed EXCEPT ![b] = collections]
    /\ EnterScript(b, "alias")
    /\ UNCHANGED <<vars, boot, crashes, scripts>>

(* An alias set since it looked stays. *)
DropAlias(b) ==
    /\ script[b].pc = "alias"
    /\ alias' = IF script[b].aliased THEN NULL ELSE alias
    /\ EnterScript(b, "wipe")
    /\ UNCHANGED <<gens, collections, points, recordVars, job, bootVars, scripts>>

DropCollection(b, l) ==
    /\ script[b].pc = "wipe"
    /\ l \in doomed[b]
    /\ DeleteCollection(l)
    /\ doomed' = [doomed EXCEPT ![b] = @ \ {l}]
    /\ UNCHANGED <<gens, recordVars, job, boot, crashes, scriptVars>>

DropRows(b) ==
    /\ script[b].pc = "wipe"
    /\ doomed[b] = {}
    /\ ClearRows
    /\ script' = [script EXCEPT ![b] = NoScript]
    /\ UNCHANGED <<collections, points, alias, loadable, job, bootVars, scripts>>

(* A call raises or the script is stopped; what it has done stays done. *)
ScriptStops(b) ==
    /\ "reset" \in Faults
    /\ script[b] # NoScript
    /\ script' = [script EXCEPT ![b] = NoScript]
    /\ doomed' = [doomed EXCEPT ![b] = {}]
    /\ UNCHANGED <<vars, boot, crashes, scripts>>

ScriptStep(b) ==
    \/ ReadAliases(b) \/ ReadCollections(b) \/ DropAlias(b)
    \/ \E l \in Labels : DropCollection(b, l)
    \/ DropRows(b) \/ ScriptStops(b)

-----------------------------------------------------------------------------
StartupNext ==
    \/ \E w \in Workers : WorkerStep(w) \/ (CrashWorker(w) /\ UNCHANGED scriptVars)
    \/ \E b \in Operators : OtherBuilderStep(b) \/ ScriptStep(b)
    \/ RecordStep /\ UNCHANGED <<bootVars, scriptVars>>

StartupSpec == StartupInit /\ [][StartupNext]_startupVars

(* The platform restarts a worker that died, and its calls have time limits. *)
FairStartupSpec ==
    StartupSpec /\ \A w \in Workers : WF_startupVars(WorkerStep(w))

-----------------------------------------------------------------------------
NobodyElseBuilds == \A b \in Operators : job[b] = IdleJob

WipesSucceed == \A w \in Workers : boot[w] # "unwiped"

NoScriptRuns == \A b \in Operators : script[b] = NoScript

(* A start after which no reset script is under way any more. *)
StartsUndisturbed ==
    <>((\E w \in Workers : boot[w] = "check") /\ []NoScriptRuns)

(* Wherever the only worker dies during the wipe or the build, and wherever *)
(* a reset script stops, a worker that starts afterwards ends up serving an *)
(* active generation, and it stays active: the wipe clears whatever a dead  *)
(* build left under the label "v1".  It is excused if a Qdrant call of the  *)
(* wipe fails, or if somebody else builds as well.                          *)
ServesAfterRestarts ==
    [](NobodyElseBuilds /\ WipesSucceed) /\ StartsUndisturbed => <>[](ActiveLabel # NULL)

=============================================================================
