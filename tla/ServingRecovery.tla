-------------------------- MODULE ServingRecovery ---------------------------
(***************************************************************************)
(* recover_on_startup: reconciling the database and the alias once the     *)
(* builder of this process has died.  No other builder runs meanwhile.     *)
(* Nothing in the program calls the method; it is modelled as a tool that  *)
(* may be run whenever no build is.                                        *)
(*                                                                         *)
(* Two history variables record what a build left undone: they are read by *)
(* the properties only.                                                    *)
(***************************************************************************)
EXTENDS ServingGenerations

VARIABLES
    recovery,   \* "none", "read", "repoint", "fail" or "done"
    found,      \* the active label and the alias the recovery has read
    doubtful,   \* history: the alias was left to a recovery and not yet repaired
    littered    \* history: a replaced collection was not cleaned up

recoveryVars == <<recovery, found, doubtful, littered>>

NothingFound == [active |-> NULL, target |-> NULL]

RecoveryTypeOK ==
    /\ TypeOK
    /\ recovery \in {"none", "read", "repoint", "fail", "done"}
    /\ found \in [active : Labels \cup {NULL}, target : Labels \cup {NULL}]
    /\ doubtful \in BOOLEAN
    /\ littered \in BOOLEAN

RecoveryInit ==
    /\ Init
    /\ recovery = "none"
    /\ found = NothingFound
    /\ doubtful = FALSE
    /\ littered = FALSE

-----------------------------------------------------------------------------
(* Faulty variants, used by no specification. *)

(* Only a missing alias is repaired, not one that points elsewhere. *)
RepointMissingOnly ==
    /\ recovery = "read"
    /\ recovery' = IF found.active = NULL THEN "fail"
                   ELSE IF alias = NULL THEN "repoint" ELSE "done"
    /\ found' = [found EXCEPT !.target = alias]
    /\ doubtful' = (recovery' # "done" /\ doubtful)
    /\ UNCHANGED <<vars, littered>>

(* Only the row of the alias's collection is marked. *)
MarkAliasedOnly ==
    /\ recovery = "fail"
    /\ gens' = [l \in Labels |->
          IF gens[l].status = "staged" /\ l = found.target
          THEN [gens[l] EXCEPT !.status = "failed"] ELSE gens[l]]
    /\ recovery' = "done"
    /\ UNCHANGED <<collections, points, alias, recordVars, job, found, doubtful, littered>>

(* The rows get a status outside the column's check constraint. *)
MarkStagedAborted ==
    /\ recovery = "fail"
    /\ gens' = [l \in Labels |->
          IF gens[l].status = "staged" THEN [gens[l] EXCEPT !.status = "aborted"]
          ELSE gens[l]]
    /\ recovery' = "done"
    /\ UNCHANGED <<collections, points, alias, recordVars, job, found, doubtful, littered>>

-----------------------------------------------------------------------------
(* get_active_generation in its own session. *)
ReadGeneration ==
    /\ recovery = "none"
    /\ Quiescent
    /\ recovery' = "read"
    /\ found' = [NothingFound EXCEPT !.active = ActiveLabel]
    /\ UNCHANGED <<vars, doubtful, littered>>

(* resolve_alias, and what to do about it. *)
ReadAlias ==
    /\ recovery = "read"
    /\ recovery' = IF found.active = NULL THEN "fail"
                   ELSE IF alias # found.active THEN "repoint" ELSE "done"
    /\ found' = [found EXCEPT !.target = alias]
    /\ doubtful' = (recovery' # "done" /\ doubtful)
    /\ UNCHANGED <<vars, littered>>

RepointAlias ==
    /\ recovery = "repoint"
    /\ found.active \in collections
    /\ alias' = found.active
    /\ recovery' = "done"
    /\ doubtful' = FALSE
    /\ UNCHANGED <<gens, collections, points, recordVars, job, found, littered>>

(* Without an active generation every staged row is marked failed. *)
MarkStagedFailed ==
    /\ recovery = "fail"
    /\ gens' = [l \in Labels |->
          IF gens[l].status = "staged" THEN [gens[l] EXCEPT !.status = "failed"]
          ELSE gens[l]]
    /\ recovery' = "done"
    /\ UNCHANGED <<collections, points, alias, recordVars, job, found, doubtful, littered>>

(* The process that recovered goes on. *)
Resume ==
    /\ recovery = "done"
    /\ recovery' = "none"
    /\ found' = NothingFound
    /\ UNCHANGED <<vars, doubtful, littered>>

Recover == ReadGeneration \/ ReadAlias \/ RepointAlias \/ MarkStagedFailed \/ Resume

(* A step of the builder; a rollback that fails leaves the alias in doubt, a *)
(* clean-up that fails leaves litter.                                        *)
RunBuilder(b) ==
    /\ recovery = "none"
    /\ ReadActive(b) \/ BuildStep(b)
    /\ doubtful' = (doubtful \/ (job[b].pc = "rollback" /\ alias' # job[b].prev))
    /\ littered' = (littered \/ (job[b].pc = "cleanup" /\ job[b].prev \in collections'))
    /\ UNCHANGED <<recovery, found>>

CrashBuilder(b) ==
    /\ recovery = "none"
    /\ Crash(b)
    /\ doubtful' = TRUE
    /\ littered' = TRUE
    /\ UNCHANGED <<recovery, found>>

RecoveryNext ==
    \/ Recover
    \/ \E b \in Builders : RunBuilder(b) \/ CrashBuilder(b)
    \/ RecordStep /\ UNCHANGED recoveryVars

RecoverySpec == RecoveryInit /\ [][RecoveryNext]_<<vars, recoveryVars>>

-----------------------------------------------------------------------------
(* With one builder the alias resolves to the active generation whenever no  *)
(* build runs: failed activations switch it back, and after a crash or a     *)
(* failed rollback one recovery is enough (switch_alias, its rollback, the   *)
(* activation commit and recover_on_startup together).                       *)
AliasFollows == doubtful \/ AliasAtRest

(* With one builder a replaced generation's collection is gone when no build *)
(* runs, unless the clean-up itself failed or the process died: no failed    *)
(* activation or rollback leaks one (delete_collection).                     *)
RetiredIsDeleted ==
    Quiescent /\ ~littered => \A l \in collections : gens[l].status # "retired"

(* After a recovery without an active generation no row pretends that a      *)
(* build is under way (recover_on_startup).                                  *)
NoStagedLeft ==
    recovery = "done" /\ ActiveLabel = NULL =>
        \A l \in Labels : gens[l].status # "staged"

=============================================================================
