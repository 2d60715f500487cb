---------------------- MODULE ServingGenerationsProofs ----------------------
(***************************************************************************)
(* Proofs about ServingGenerations for every set of records, labels and    *)
(* builders, and every combination of faults.                              *)
(*                                                                         *)
(* The argument.  A builder that is past planning owns the staged row of   *)
(* its label, so no two builders write the same collection, and a label    *)
(* no row uses has no collection.  What a builder remembers as the         *)
(* previous collection belongs to a generation that is active or retired,  *)
(* and to a retired one once the builder has committed: deleting it never  *)
(* touches the active generation.  So what is active stays whole.          *)
(***************************************************************************)
EXTENDS ServingGenerations, TLAPS

-----------------------------------------------------------------------------
(* The inductive invariant. *)

(* A builder with local state j that is past planning owns its label's row. *)
OwnsLabel(b, j) ==
    j.pc \in {"embed", "upsert", "switch", "activate", "rollback"} =>
        /\ j.lab \in Labels
        /\ gens[j.lab].status = "staged"
        /\ gens[j.lab].owner = b

(* Its points in that collection are those of the records it embedded. *)
HoldsPoints(b, j) ==
    /\ j.pc = "load" => j.new = {}
    /\ j.pc \in {"embed", "upsert", "switch", "activate"} =>
          {r \in Records : points[j.lab][r] = b} = j.new
    /\ (j.pc \in {"upsert", "switch", "activate"} \/ (j.pc = "embed" /\ j.new # {})) =>
          j.lab \in collections

(* The generation it read as the active one was published, and is retired   *)
(* when the builder is about to delete its collection.                       *)
PrevPublished(j) ==
    /\ j.prev # NULL => gens[j.prev].status \in {"active", "retired"}
    /\ j.pc \in {"rollback", "cleanup"} => j.prev \in Labels
    /\ j.pc = "cleanup" => gens[j.prev].status = "retired"

JobOK(b, j) == OwnsLabel(b, j) /\ HoldsPoints(b, j) /\ PrevPublished(j)

JobsOK == \A b \in Builders : JobOK(b, job[b])

UnusedLabels ==
    \A l \in Labels :
        /\ gens[l].status = "absent" <=> gens[l].owner = NULL
        /\ gens[l].status = "absent" => l \notin collections /\ points[l] = NoPoints

IInv ==
    /\ TypeOK
    /\ JobsOK
    /\ UnusedLabels
    /\ SingleActive
    /\ ActiveIntact

-----------------------------------------------------------------------------
(* Facts about the constants, the active label and a job update. *)

LEMMA ConstantFacts ==
    /\ NULL \notin Labels /\ NULL \notin Builders
    /\ \A S \in SUBSET Records : Primary(S) \in SUBSET S
BY NullAssumption, PrimaryAssumption

LEMMA ActiveLabelFacts ==
    /\ ActiveLabel \in Labels \cup {NULL}
    /\ ActiveLabel # NULL => ActiveLabel \in Labels /\ IsActive(ActiveLabel)
    /\ ActiveLabel = NULL => \A l \in Labels : ~IsActive(l)
<1>1. ActiveLabels \subseteq Labels /\ \A l \in ActiveLabels : IsActive(l)
  BY DEF ActiveLabels
<1>2. CASE ActiveLabels = {}
  BY <1>2 DEF ActiveLabel, ActiveLabels
<1>3. CASE ActiveLabels # {}
  <2>1. (CHOOSE l \in ActiveLabels : TRUE) \in ActiveLabels
    BY <1>3
  <2>2. QED
    BY <1>1, <1>3, <2>1, NullAssumption DEF ActiveLabel
<1>4. QED
  BY <1>2, <1>3

LEMMA SetJobFacts ==
    ASSUME TypeOK, NEW b \in Builders, NEW j \in Job, SetJob(b, j)
    PROVE  /\ job' \in [Builders -> Job]
           /\ job'[b] = j
           /\ \A c \in Builders : c # b => job'[c] = job[c]
BY DEF TypeOK, SetJob

LEMMA IdleJobFacts ==
    ASSUME NEW b \in Builders
    PROVE  IdleJob \in Job /\ JobOK(b, IdleJob)
BY DEF IdleJob, Job, JobOK, OwnsLabel, HoldsPoints, PrevPublished

-----------------------------------------------------------------------------
(* A step that changes, of what the invariant reads, only one builder's      *)
(* local state, to one that is in order, preserves the invariant.            *)
LEMMA JobOnlyStep ==
    ASSUME IInv, NEW b \in Builders, NEW j \in Job,
           SetJob(b, j), JobOK(b, j),
           UNCHANGED <<gens, collections, points, loadable, serving>>,
           alias' \in Labels \cup {NULL}
    PROVE  IInv'
<1>1. /\ job' \in [Builders -> Job]
      /\ job'[b] = j
      /\ \A c \in Builders : c # b => job'[c] = job[c]
  BY SetJobFacts DEF IInv
<1>2. TypeOK'
  BY <1>1 DEF IInv, TypeOK
<1>3. JobsOK'
  <2> SUFFICES ASSUME NEW c \in Builders PROVE JobOK(c, job[c])'
    BY DEF JobsOK
  <2>1. JobOK(c, job'[c])
    BY <1>1 DEF IInv, JobsOK
  <2>2. QED
    BY <2>1 DEF JobOK, OwnsLabel, HoldsPoints, PrevPublished
<1>4. (UnusedLabels /\ SingleActive /\ ActiveIntact)'
  BY DEF IInv, UnusedLabels, SingleActive, ActiveIntact, IsActive, Contents
<1>5. QED
  BY <1>2, <1>3, <1>4 DEF IInv

(* The builder stops: the invariant asks nothing of an idle builder.         *)
LEMMA FinishStep ==
    ASSUME IInv, NEW b \in Builders, Finish(b), UNCHANGED <<stores, recordVars>>
    PROVE  IInv'
BY JobOnlyStep, IdleJobFacts DEF Finish, stores, recordVars, IInv, TypeOK

-----------------------------------------------------------------------------
(* The steps that change only the builder's own state or the alias. *)

LEMMA ReadActiveStep ==
    ASSUME IInv, NEW b \in Builders, ReadActive(b) PROVE IInv'
<1> DEFINE j == [IdleJob EXCEPT !.pc = "load", !.prev = ActiveLabel,
                                !.prevIds = IF ActiveLabel = NULL THEN {}
                                            ELSE gens[ActiveLabel].ids]
<1>1. j \in Job
  BY ActiveLabelFacts DEF IInv, TypeOK, Row, IdleJob, Job
<1>2. j.pc = "load" /\ j.prev = ActiveLabel /\ j.new = {}
  BY DEF IdleJob
<1>3. JobOK(b, j)
  BY <1>2, ActiveLabelFacts DEF JobOK, OwnsLabel, HoldsPoints, PrevPublished, IsActive
<1>4. QED
  BY <1>1, <1>3, JobOnlyStep DEF ReadActive, stores, recordVars, IInv, TypeOK

(* A builder that stops, or a call of it that fails, undoes nothing. *)
LEMMA StopStep ==
    ASSUME IInv, NEW b \in Builders,
           \/ \E l \in Labels : StageRejected(b, l)
           \/ ZeroChunks(b) \/ RollBackFails(b) \/ CleanUpFails(b)
           \/ BuildFails(b) \/ Crash(b)
    PROVE  IInv'
<1>1. Finish(b) /\ UNCHANGED <<stores, recordVars>>
  BY DEF StageRejected, ZeroChunks, RollBackFails, CleanUpFails, BuildFails, Crash
<1>2. QED
  BY <1>1, FinishStep

LEMMA EmbedFailsStep ==
    ASSUME IInv, NEW b \in Builders, NEW r \in Records, EmbedFails(b, r) PROVE IInv'
<1> DEFINE j == [job[b] EXCEPT !.bad = @ \cup {r}]
<1>1. job[b] \in Job /\ JobOK(b, job[b])
  BY DEF IInv, TypeOK, JobsOK
<1>2. j \in Job
  BY <1>1 DEF Job
<1>3. JobOK(b, j)
  BY <1>1 DEF Job, JobOK, OwnsLabel, HoldsPoints, PrevPublished
<1>4. QED
  BY <1>2, <1>3, JobOnlyStep DEF EmbedFails, stores, recordVars, IInv, TypeOK

(* Going on to the next phase. *)
LEMMA GotoFacts ==
    ASSUME IInv, NEW b \in Builders,
           NEW q \in {"upsert", "switch", "activate", "rollback"}
    PROVE  /\ [job[b] EXCEPT !.pc = q] \in Job
           /\ LET j == [job[b] EXCEPT !.pc = q]
              IN  /\ j.pc = q
                  /\ j.lab = job[b].lab /\ j.prev = job[b].prev /\ j.new = job[b].new
<1>1. job[b] \in Job
  BY DEF IInv, TypeOK
<1>2. QED
  BY <1>1 DEF Job

LEMMA EmbedDoneStep ==
    ASSUME IInv, NEW b \in Builders, EmbedDone(b) PROVE IInv'
<1> DEFINE j == [job[b] EXCEPT !.pc = "switch"]
<1>1. JobOK(b, job[b])
  BY DEF IInv, JobsOK
<1>2. JobOK(b, j)
  BY <1>1, GotoFacts DEF EmbedDone, JobOK, OwnsLabel, HoldsPoints, PrevPublished
<1>3. QED
  BY <1>2, GotoFacts, JobOnlyStep DEF EmbedDone, Goto, stores, recordVars, IInv, TypeOK

LEMMA SwitchAliasStep ==
    ASSUME IInv, NEW b \in Builders, SwitchAlias(b) PROVE IInv'
<1> DEFINE j == [job[b] EXCEPT !.pc = "activate"]
<1>1. JobOK(b, job[b])
  BY DEF IInv, JobsOK
<1>2. JobOK(b, j)
  BY <1>1, GotoFacts DEF SwitchAlias, JobOK, OwnsLabel, HoldsPoints, PrevPublished
<1>3. job[b].lab \in Labels
  BY <1>1 DEF JobOK, OwnsLabel, SwitchAlias
<1>4. QED
  BY <1>2, <1>3, GotoFacts, JobOnlyStep DEF SwitchAlias, Goto, recordVars

LEMMA ActivateFailsStep ==
    ASSUME IInv, NEW b \in Builders, ActivateFails(b) PROVE IInv'
<1>1. CASE job[b].prev = NULL
  BY <1>1, FinishStep DEF ActivateFails
<1>2. CASE job[b].prev # NULL
  <2> DEFINE j == [job[b] EXCEPT !.pc = "rollback"]
  <2>1. job[b] \in Job /\ JobOK(b, job[b])
    BY DEF IInv, TypeOK, JobsOK
  <2>2. job[b].prev \in Labels
    BY <1>2, <2>1 DEF Job
  <2>3. JobOK(b, j)
    BY <2>1, <2>2, GotoFacts
    DEF ActivateFails, JobOK, OwnsLabel, HoldsPoints, PrevPublished
  <2>4. QED
    BY <1>2, <2>3, GotoFacts, JobOnlyStep
    DEF ActivateFails, Goto, stores, recordVars, IInv, TypeOK
<1>3. QED
  BY <1>1, <1>2

LEMMA RollBackAliasStep ==
    ASSUME IInv, NEW b \in Builders, RollBackAlias(b) PROVE IInv'
<1>1. job[b].prev \in Labels
  BY DEF IInv, JobsOK, JobOK, PrevPublished, RollBackAlias
<1>2. QED
  BY <1>1, JobOnlyStep, IdleJobFacts DEF RollBackAlias, Finish, recordVars

LEMMA RecordStepInv ==
    ASSUME IInv, RecordStep PROVE IInv'
<1>1. PICK r \in Records, isLoadable \in BOOLEAN, status \in ServingStatus :
         SetRecord(r, isLoadable, status)
  BY DEF RecordStep, Classify, Recompute, Downgrade, ServingStatus
<1>2. TypeOK'
  BY <1>1 DEF SetRecord, IInv, TypeOK, stores
<1>3. UNCHANGED <<gens, collections, points, job>>
  BY <1>1 DEF SetRecord, stores
<1>4. QED
  BY <1>2, <1>3 DEF IInv, JobsOK, JobOK, OwnsLabel, HoldsPoints, PrevPublished,
                    UnusedLabels, SingleActive, ActiveIntact, IsActive, Contents

-----------------------------------------------------------------------------
(* The steps that write a store. *)

(* Two builders past planning write different collections. *)
LEMMA LabelsDiffer ==
    ASSUME JobsOK, NEW b \in Builders, NEW c \in Builders, b # c,
           job[b].pc \in {"embed", "upsert", "switch", "activate", "rollback"},
           job[c].pc \in {"embed", "upsert", "switch", "activate", "rollback"}
    PROVE  job[b].lab # job[c].lab
BY DEF JobsOK, JobOK, OwnsLabel

LEMMA StagePlanStep ==
    ASSUME IInv, NEW b \in Builders, NEW l \in Labels, StagePlan(b, l) PROVE IInv'
<1> DEFINE j == [job[b] EXCEPT !.pc = "embed", !.lab = l,
                               !.plan = Primary(CurrentAuthoritative)]
<1>1. TypeOK /\ JobsOK /\ UnusedLabels /\ SingleActive /\ ActiveIntact
  BY DEF IInv
<1>2. job[b] \in Job /\ job[b].pc = "load" /\ gens[l].status = "absent" /\ gens[l] \in Row
  BY <1>1 DEF StagePlan, TypeOK
<1>3. Primary(CurrentAuthoritative) \in SUBSET Records
  BY <1>1, ConstantFacts DEF CurrentAuthoritative, TypeOK
<1>4. /\ j \in Job
      /\ j.pc = "embed" /\ j.lab = l /\ j.prev = job[b].prev /\ j.new = job[b].new
  BY <1>2, <1>3 DEF Job
<1>5. /\ job' \in [Builders -> Job]
      /\ job'[b] = j
      /\ \A c \in Builders : c # b => job'[c] = job[c]
  BY <1>1, <1>4, SetJobFacts DEF StagePlan
<1>6. /\ gens' \in [Labels -> Row]
      /\ gens'[l] = [status |-> "staged", owner |-> b, ids |-> {}]
      /\ \A k \in Labels : k # l => gens'[k] = gens[k]
  BY <1>1 DEF StagePlan, TypeOK, Row, GenStatus
<1>7. UNCHANGED <<collections, points, alias, loadable, serving>>
  BY DEF StagePlan, recordVars
<1>8. TypeOK'
  BY <1>1, <1>5, <1>6, <1>7 DEF TypeOK
<1>9. l \notin collections /\ points[l] = NoPoints
  BY <1>1, <1>2 DEF UnusedLabels
<1>10. JobsOK'
  <2> SUFFICES ASSUME NEW c \in Builders PROVE JobOK(c, job[c])'
    BY DEF JobsOK
  <2>1. JobOK(c, job[c]) /\ job[c] \in Job
    BY <1>1 DEF JobsOK, TypeOK
  <2>2. CASE c = b
    <3>1. OwnsLabel(c, job[c])'
      BY <2>2, <1>4, <1>5, <1>6 DEF OwnsLabel
    <3>2. HoldsPoints(c, job[c])'
      <4>1. job[b].new = {}
        BY <2>1, <2>2, <1>2 DEF JobOK, HoldsPoints
      <4>2. {r \in Records : points[l][r] = b} = {}
        BY <1>9, NullAssumption DEF NoPoints
      <4>3. QED
        BY <2>2, <1>4, <1>5, <1>7, <4>1, <4>2 DEF HoldsPoints
    <3>3. PrevPublished(job[c])'
      BY <2>1, <2>2, <1>2, <1>4, <1>5, <1>6 DEF JobOK, PrevPublished, Job
    <3>4. QED
      BY <3>1, <3>2, <3>3 DEF JobOK
  <2>3. CASE c # b
    <3>1. OwnsLabel(c, job[c])'
      BY <2>1, <2>3, <1>2, <1>5, <1>6 DEF JobOK, OwnsLabel
    <3>2. HoldsPoints(c, job[c])'
      BY <2>1, <2>3, <1>5, <1>7 DEF JobOK, HoldsPoints
    <3>3. PrevPublished(job[c])'
      BY <2>1, <2>3, <1>2, <1>5, <1>6 DEF JobOK, PrevPublished, Job
    <3>4. QED
      BY <3>1, <3>2, <3>3 DEF JobOK
  <2>4. QED
    BY <2>2, <2>3
<1>11. UnusedLabels'
  BY <1>1, <1>6, <1>7, NullAssumption DEF UnusedLabels
<1>12. \A k \in Labels : IsActive(k)' <=> IsActive(k) /\ k # l
  BY <1>2, <1>6 DEF IsActive
<1>13. SingleActive'
  BY <1>1, <1>12 DEF SingleActive
<1>14. ActiveIntact'
  BY <1>1, <1>6, <1>7, <1>12 DEF ActiveIntact, Contents
<1>15. QED
  BY <1>8, <1>10, <1>11, <1>13, <1>14 DEF IInv

(* Writing into the collection of a builder's own staged label: nothing the  *)
(* invariant says of other builders or of the active generation changes.      *)
LEMMA OwnCollectionStep ==
    ASSUME IInv, NEW b \in Builders, NEW j \in Job,
           NEW pts \in [Records -> Builders \cup {NULL}],
           job[b].pc \in {"embed", "upsert"},
           SetJob(b, j), JobOK(b, job[b])',
           collections' = collections \cup {job[b].lab},
           points' = [points EXCEPT ![job[b].lab] = pts],
           UNCHANGED <<gens, alias, loadable, serving>>
    PROVE  IInv'
<1> DEFINE l == job[b].lab
<1>1. TypeOK /\ JobsOK /\ UnusedLabels /\ SingleActive /\ ActiveIntact
  BY DEF IInv
<1>2. l \in Labels /\ gens[l].status = "staged" /\ gens[l].owner = b
  BY <1>1 DEF JobsOK, JobOK, OwnsLabel
<1>3. /\ job' \in [Builders -> Job]
      /\ job'[b] = j
      /\ \A c \in Builders : c # b => job'[c] = job[c]
  BY <1>1, SetJobFacts
<1>4. \A k \in Labels : k # l => points'[k] = points[k] /\ (k \in collections' <=> k \in collections)
  BY <1>1, <1>2 DEF TypeOK
<1>5. TypeOK'
  BY <1>1, <1>2, <1>3 DEF TypeOK
<1>6. JobsOK'
  <2> SUFFICES ASSUME NEW c \in Builders PROVE JobOK(c, job[c])'
    BY DEF JobsOK
  <2>1. CASE c = b
    BY <2>1
  <2>2. CASE c # b
    <3>1. JobOK(c, job[c]) /\ job'[c] = job[c]
      BY <1>1, <1>3, <2>2 DEF JobsOK
    <3>2. job[c].pc \in {"embed", "upsert", "switch", "activate"} =>
             job[c].lab # l /\ job[c].lab \in Labels
      BY <1>2, <2>2, <3>1 DEF JobOK, OwnsLabel
    <3>3. OwnsLabel(c, job[c])' /\ PrevPublished(job[c])'
      BY <3>1 DEF JobOK, OwnsLabel, PrevPublished
    <3>4. HoldsPoints(c, job[c])'
      BY <3>1, <3>2, <1>4 DEF JobOK, HoldsPoints
    <3>5. QED
      BY <3>3, <3>4 DEF JobOK
  <2>3. QED
    BY <2>1, <2>2
<1>7. UnusedLabels'
  BY <1>1, <1>2, <1>4 DEF UnusedLabels
<1>8. SingleActive'
  BY <1>1 DEF SingleActive, IsActive
<1>9. ActiveIntact'
  <2> SUFFICES ASSUME NEW k \in Labels, IsActive(k)'
               PROVE  k \in collections' /\ Contents(k)' = gens'[k].ids
    BY DEF ActiveIntact
  <2>1. IsActive(k) /\ k # l
    BY <1>2 DEF IsActive
  <2>2. QED
    BY <2>1, <1>1, <1>4 DEF ActiveIntact, Contents
<1>10. QED
  BY <1>5, <1>6, <1>7, <1>8, <1>9 DEF IInv

LEMMA CreateCollectionStep ==
    ASSUME IInv, NEW b \in Builders, CreateCollection(b) PROVE IInv'
<1> DEFINE j == [job[b] EXCEPT !.pc = "upsert"]
           pts == points[job[b].lab]
<1>1. TypeOK /\ job[b] \in Job /\ JobOK(b, job[b]) /\ job[b].pc = "embed"
  BY DEF IInv, TypeOK, JobsOK, CreateCollection
<1>2. j \in Job
  BY <1>1 DEF Job
<1>3. job' \in [Builders -> Job] /\ job'[b] = j
  BY <1>1, <1>2, SetJobFacts DEF CreateCollection, Goto
<1>4. job[b].lab \in Labels
  BY <1>1 DEF JobOK, OwnsLabel
<1>5. /\ pts \in [Records -> Builders \cup {NULL}]
      /\ points' = [points EXCEPT ![job[b].lab] = pts]
  BY <1>1, <1>4 DEF CreateCollection, TypeOK
<1>6. JobOK(b, job[b])'
  <2>1. OwnsLabel(b, job[b])'
    BY <1>1, <1>3, GotoFacts DEF CreateCollection, JobOK, OwnsLabel
  <2>2. HoldsPoints(b, job[b])'
    BY <1>1, <1>3, GotoFacts DEF CreateCollection, JobOK, HoldsPoints
  <2>3. PrevPublished(job[b])'
    BY <1>1, <1>3, GotoFacts DEF CreateCollection, JobOK, PrevPublished
  <2>4. QED
    BY <2>1, <2>2, <2>3 DEF JobOK
<1>7. QED
  BY <1>1, <1>2, <1>5, <1>6, OwnCollectionStep DEF CreateCollection, Goto, recordVars

LEMMA UpsertStep ==
    ASSUME IInv, NEW b \in Builders, NEW r \in Records, Upsert(b, r) PROVE IInv'
<1> DEFINE j == [job[b] EXCEPT !.pc = "embed", !.new = @ \cup {r}]
           pts == [points[job[b].lab] EXCEPT ![r] = b]
<1>1. TypeOK /\ job[b] \in Job /\ JobOK(b, job[b]) /\ job[b].pc \in {"embed", "upsert"}
  BY DEF IInv, TypeOK, JobsOK, Upsert
<1>2. /\ j \in Job
      /\ j.pc = "embed" /\ j.lab = job[b].lab /\ j.prev = job[b].prev
      /\ j.new = job[b].new \cup {r}
  BY <1>1 DEF Job
<1>3. job' \in [Builders -> Job] /\ job'[b] = j
  BY <1>1, <1>2, SetJobFacts DEF Upsert
<1>4. job[b].lab \in Labels /\ {s \in Records : points[job[b].lab][s] = b} = job[b].new
  BY <1>1 DEF JobOK, OwnsLabel, HoldsPoints
<1>5. /\ pts \in [Records -> Builders \cup {NULL}]
      /\ {s \in Records : pts[s] = b} = job[b].new \cup {r}
  BY <1>1, <1>4 DEF TypeOK
<1>6. points' = [points EXCEPT ![job[b].lab] = pts]
  BY DEF Upsert
<1>7. points'[job[b].lab] = pts
  BY <1>1, <1>4, <1>6 DEF TypeOK
<1>8. job[b].lab \in collections /\ collections' = collections \cup {job[b].lab}
  BY DEF Upsert
<1>9. JobOK(b, job[b])'
  <2>1. OwnsLabel(b, job[b])'
    BY <1>1, <1>2, <1>3 DEF Upsert, JobOK, OwnsLabel
  <2>2. HoldsPoints(b, job[b])'
    BY <1>2, <1>3, <1>5, <1>7, <1>8 DEF HoldsPoints
  <2>3. PrevPublished(job[b])'
    BY <1>1, <1>2, <1>3 DEF Upsert, JobOK, PrevPublished
  <2>4. QED
    BY <2>1, <2>2, <2>3 DEF JobOK
<1>10. QED
  BY <1>1, <1>2, <1>5, <1>6, <1>8, <1>9, OwnCollectionStep DEF Upsert, recordVars

LEMMA EmbedNothingStep ==
    ASSUME IInv, NEW b \in Builders, EmbedNothing(b) PROVE IInv'
<1> DEFINE j == [job[b] EXCEPT !.pc = "switch"]
           pts == points[job[b].lab]
<1>1. TypeOK /\ job[b] \in Job /\ JobOK(b, job[b]) /\ job[b].pc = "embed"
  BY DEF IInv, TypeOK, JobsOK, EmbedNothing
<1>2. j \in Job
  BY <1>1 DEF Job
<1>3. job' \in [Builders -> Job] /\ job'[b] = j
  BY <1>1, <1>2, SetJobFacts DEF EmbedNothing, Goto
<1>4. job[b].lab \in Labels
  BY <1>1 DEF JobOK, OwnsLabel
<1>5. /\ pts \in [Records -> Builders \cup {NULL}]
      /\ points' = [points EXCEPT ![job[b].lab] = pts]
  BY <1>1, <1>4 DEF EmbedNothing, TypeOK
<1>6. JobOK(b, job[b])'
  <2>1. OwnsLabel(b, job[b])'
    BY <1>1, <1>3, GotoFacts DEF EmbedNothing, JobOK, OwnsLabel
  <2>2. HoldsPoints(b, job[b])'
    BY <1>1, <1>3, GotoFacts DEF EmbedNothing, JobOK, HoldsPoints
  <2>3. PrevPublished(job[b])'
    BY <1>1, <1>3, GotoFacts DEF EmbedNothing, JobOK, PrevPublished
  <2>4. QED
    BY <2>1, <2>2, <2>3 DEF JobOK
<1>7. QED
  BY <1>1, <1>2, <1>5, <1>6, OwnCollectionStep DEF EmbedNothing, Goto, recordVars

LEMMA CommitFacts ==
    ASSUME IInv, NEW b \in Builders, Activate(b)
    PROVE  LET l == job[b].lab IN
           /\ l \in Labels
           /\ gens[l].status = "staged" /\ gens[l].owner = b
           /\ gens' \in [Labels -> Row]
           /\ gens'[l] = [status |-> "active", owner |-> b, ids |-> job[b].new]
           /\ \A k \in Labels : k # l =>
                 /\ gens'[k].owner = gens[k].owner /\ gens'[k].ids = gens[k].ids
                 /\ gens'[k].status = IF IsActive(k) THEN "retired" ELSE gens[k].status
           /\ serving' \in [Records -> ServingStatus]
           /\ UNCHANGED <<collections, points, alias, loadable>>
<1> DEFINE l == job[b].lab
<1>1. TypeOK /\ JobOK(b, job[b]) /\ job[b] \in Job /\ job[b].pc = "activate"
  BY DEF IInv, TypeOK, JobsOK, Activate
<1>2. l \in Labels /\ gens[l].status = "staged" /\ gens[l].owner = b
  BY <1>1 DEF JobOK, OwnsLabel
<1>3. job[b].new \in SUBSET Records
  BY <1>1 DEF Job
<1>4. gens' = [k \in Labels |->
          IF k = l THEN [status |-> "active", owner |-> b, ids |-> job[b].new]
          ELSE IF IsActive(k) THEN [gens[k] EXCEPT !.status = "retired"]
          ELSE gens[k]]
  BY DEF Activate, ActivationCommit
<1>5. \A k \in Labels : gens[k] \in Row
  BY <1>1 DEF TypeOK
<1>6. gens' \in [Labels -> Row]
  BY <1>3, <1>4, <1>5 DEF Row, GenStatus
<1>7. serving' \in [Records -> ServingStatus]
  BY <1>1 DEF Activate, ActivationCommit, TypeOK, ServingStatus
<1>8. UNCHANGED <<collections, points, alias, loadable>>
  BY DEF Activate, ActivationCommit
<1>9. \A k \in Labels : k # l =>
         /\ gens'[k].owner = gens[k].owner /\ gens'[k].ids = gens[k].ids
         /\ gens'[k].status = IF IsActive(k) THEN "retired" ELSE gens[k].status
  BY <1>4, <1>5 DEF Row
<1>10. QED
  BY <1>2, <1>4, <1>6, <1>7, <1>8, <1>9

LEMMA ActivateStep ==
    ASSUME IInv, NEW b \in Builders, Activate(b) PROVE IInv'
<1> DEFINE l == job[b].lab
           j == IF job[b].prev \in {NULL, l} THEN IdleJob
                ELSE [job[b] EXCEPT !.pc = "cleanup"]
<1>1. /\ TypeOK /\ JobsOK /\ UnusedLabels /\ SingleActive /\ ActiveIntact
      /\ JobOK(b, job[b]) /\ job[b] \in Job /\ job[b].pc = "activate"
  BY DEF IInv, TypeOK, JobsOK, Activate
<1>2. /\ l \in Labels
      /\ gens[l].status = "staged" /\ gens[l].owner = b
      /\ gens' \in [Labels -> Row]
      /\ gens'[l] = [status |-> "active", owner |-> b, ids |-> job[b].new]
      /\ \A k \in Labels : k # l =>
            /\ gens'[k].owner = gens[k].owner /\ gens'[k].ids = gens[k].ids
            /\ gens'[k].status = IF IsActive(k) THEN "retired" ELSE gens[k].status
      /\ serving' \in [Records -> ServingStatus]
      /\ UNCHANGED <<collections, points, alias, loadable>>
  BY CommitFacts
<1>3. j \in Job
  BY <1>1, IdleJobFacts DEF Job
<1>4. /\ job' \in [Builders -> Job]
      /\ job'[b] = j
      /\ \A c \in Builders : c # b => job'[c] = job[c]
  BY <1>1, <1>3, SetJobFacts DEF Activate, Finish, Goto
<1>5. TypeOK'
  BY <1>1, <1>2, <1>4 DEF TypeOK
<1>6. \A k \in Labels : gens[k].status \in {"active", "retired"} =>
         k # l /\ gens'[k].status = "retired"
  BY <1>2 DEF IsActive
<1>7. JobsOK'
  <2> SUFFICES ASSUME NEW c \in Builders PROVE JobOK(c, job[c])'
    BY DEF JobsOK
  <2>1. CASE c = b
    <3>1. CASE job[b].prev \in {NULL, l}
      <4>1. job'[b].pc = "idle" /\ job'[b].prev = NULL /\ job'[b].new = {}
        BY <1>4, <3>1 DEF IdleJob
      <4>2. QED
        BY <2>1, <4>1 DEF JobOK, OwnsLabel, HoldsPoints, PrevPublished
    <3>2. CASE job[b].prev \notin {NULL, l}
      <4>1. job'[b].pc = "cleanup" /\ job'[b].prev = job[b].prev
        BY <1>1, <1>4, <3>2 DEF Job
      <4>2. job[b].prev \in Labels /\ gens[job[b].prev].status \in {"active", "retired"}
        BY <1>1, <3>2 DEF Job, JobOK, PrevPublished
      <4>3. gens'[job[b].prev].status = "retired"
        BY <1>6, <4>2
      <4>4. QED
        BY <2>1, <4>1, <4>2, <4>3 DEF JobOK, OwnsLabel, HoldsPoints, PrevPublished
    <3>3. QED
      BY <3>1, <3>2
  <2>2. CASE c # b
    <3>1. JobOK(c, job[c]) /\ job'[c] = job[c] /\ job[c] \in Job
      BY <1>1, <1>4, <2>2 DEF JobsOK, TypeOK
    <3>2. OwnsLabel(c, job[c])'
      BY <1>2, <2>2, <3>1 DEF JobOK, OwnsLabel, IsActive
    <3>3. HoldsPoints(c, job[c])'
      BY <1>2, <3>1 DEF JobOK, HoldsPoints
    <3>4. PrevPublished(job[c])'
      BY <1>6, <3>1 DEF JobOK, PrevPublished, Job
    <3>5. QED
      BY <3>2, <3>3, <3>4 DEF JobOK
  <2>3. QED
    BY <2>1, <2>2
<1>8. \A k \in Labels : IsActive(k)' <=> k = l
  BY <1>2 DEF IsActive
<1>9. UnusedLabels'
  <2> SUFFICES ASSUME NEW k \in Labels
               PROVE  /\ gens'[k].status = "absent" <=> gens'[k].owner = NULL
                      /\ gens'[k].status = "absent" =>
                            k \notin collections' /\ points'[k] = NoPoints
    BY DEF UnusedLabels
  <2>1. CASE k = l
    BY <2>1, <1>2, NullAssumption
  <2>2. CASE k # l
    BY <2>2, <1>1, <1>2 DEF UnusedLabels, IsActive
  <2>3. QED
    BY <2>1, <2>2
<1>10. SingleActive'
  BY <1>8 DEF SingleActive
<1>11. ActiveIntact'
  <2> SUFFICES ASSUME NEW k \in Labels, IsActive(k)'
               PROVE  k \in collections' /\ Contents(k)' = gens'[k].ids
    BY DEF ActiveIntact
  <2>1. k \in collections /\ {r \in Records : points[k][r] = b} = job[b].new
    BY <1>1, <1>8 DEF JobOK, HoldsPoints
  <2>2. gens'[k].owner = b /\ gens'[k].ids = job[b].new /\ b # NULL
    BY <1>2, <1>8, NullAssumption
  <2>3. QED
    BY <1>2, <2>1, <2>2 DEF Contents
<1>12. QED
  BY <1>5, <1>7, <1>9, <1>10, <1>11 DEF IInv

LEMMA CleanUpStep ==
    ASSUME IInv, NEW b \in Builders, CleanUp(b) PROVE IInv'
<1> DEFINE p == job[b].prev
<1>1. /\ TypeOK /\ JobsOK /\ UnusedLabels /\ SingleActive /\ ActiveIntact
      /\ JobOK(b, job[b]) /\ job[b].pc = "cleanup"
  BY DEF IInv, JobsOK, CleanUp
<1>2. p \in Labels /\ gens[p].status = "retired"
  BY <1>1 DEF JobOK, PrevPublished
<1>3. /\ collections' = collections \ {p}
      /\ points' = [points EXCEPT ![p] = NoPoints]
      /\ alias' = IF alias = p THEN NULL ELSE alias
      /\ UNCHANGED <<gens, loadable, serving>>
  BY DEF CleanUp, DeleteCollection, recordVars
<1>4. /\ job' \in [Builders -> Job]
      /\ job'[b] = IdleJob
      /\ \A c \in Builders : c # b => job'[c] = job[c]
  BY <1>1, IdleJobFacts, SetJobFacts DEF CleanUp, Finish
<1>5. \A k \in Labels : k # p => points'[k] = points[k]
  BY <1>1, <1>3 DEF TypeOK
<1>6. TypeOK'
  <2>1. NoPoints \in [Records -> Builders \cup {NULL}]
    BY DEF NoPoints
  <2>2. QED
    BY <1>1, <1>3, <1>4, <2>1 DEF TypeOK
<1>7. JobsOK'
  <2> SUFFICES ASSUME NEW c \in Builders PROVE JobOK(c, job[c])'
    BY DEF JobsOK
  <2>1. CASE c = b
    BY <2>1, <1>4 DEF IdleJob, JobOK, OwnsLabel, HoldsPoints, PrevPublished
  <2>2. CASE c # b
    <3>1. JobOK(c, job[c]) /\ job'[c] = job[c]
      BY <1>1, <1>4, <2>2 DEF JobsOK
    <3>2. job[c].pc \in {"embed", "upsert", "switch", "activate"} =>
             job[c].lab # p /\ job[c].lab \in Labels
      BY <1>2, <3>1 DEF JobOK, OwnsLabel
    <3>3. OwnsLabel(c, job[c])' /\ PrevPublished(job[c])'
      BY <1>3, <3>1 DEF JobOK, OwnsLabel, PrevPublished
    <3>4. HoldsPoints(c, job[c])'
      BY <1>3, <1>5, <3>1, <3>2 DEF JobOK, HoldsPoints
    <3>5. QED
      BY <3>3, <3>4 DEF JobOK
  <2>3. QED
    BY <2>1, <2>2
<1>8. UnusedLabels'
  BY <1>1, <1>2, <1>3, <1>5 DEF UnusedLabels
<1>9. SingleActive'
  BY <1>1, <1>3 DEF SingleActive, IsActive
<1>10. ActiveIntact'
  <2> SUFFICES ASSUME NEW k \in Labels, IsActive(k)'
               PROVE  k \in collections' /\ Contents(k)' = gens'[k].ids
    BY DEF ActiveIntact
  <2>1. IsActive(k) /\ k # p
    BY <1>2, <1>3 DEF IsActive
  <2>2. QED
    BY <2>1, <1>1, <1>3, <1>5 DEF ActiveIntact, Contents
<1>11. QED
  BY <1>6, <1>7, <1>8, <1>9, <1>10 DEF IInv

-----------------------------------------------------------------------------
(* The invariant. *)

LEMMA InitInv == Init => IInv
<1> SUFFICES ASSUME Init PROVE IInv
  OBVIOUS
<1>1. TypeOK
  BY IdleJobFacts DEF Init, TypeOK, Row, NoRow, GenStatus, NoPoints, ServingStatus
<1>2. \A l \in Labels : gens[l].status = "absent" /\ gens[l].owner = NULL
                         /\ points[l] = NoPoints /\ l \notin collections
  BY DEF Init, NoRow
<1>3. JobsOK
  BY IdleJobFacts DEF Init, JobsOK
<1>4. QED
  BY <1>1, <1>2, <1>3 DEF IInv, UnusedLabels, SingleActive, ActiveIntact, IsActive

LEMMA NextInv == IInv /\ [Next]_vars => IInv'
<1> SUFFICES ASSUME IInv, [Next]_vars PROVE IInv'
  OBVIOUS
<1>1. ASSUME NEW b \in Builders, ReadActive(b) PROVE IInv'
  BY <1>1, ReadActiveStep
<1>2. ASSUME NEW b \in Builders, BuildStep(b) PROVE IInv'
  <2>1. ASSUME NEW l \in Labels, StagePlan(b, l) PROVE IInv'
    BY <2>1, StagePlanStep
  <2>2. CASE CreateCollection(b)
    BY <2>2, CreateCollectionStep
  <2>3. ASSUME NEW r \in Records, Upsert(b, r) PROVE IInv'
    BY <2>3, UpsertStep
  <2>4. ASSUME NEW r \in Records, EmbedFails(b, r) PROVE IInv'
    BY <2>4, EmbedFailsStep
  <2>5. CASE EmbedDone(b)
    BY <2>5, EmbedDoneStep
  <2>6. CASE EmbedNothing(b)
    BY <2>6, EmbedNothingStep
  <2>7. CASE SwitchAlias(b)
    BY <2>7, SwitchAliasStep
  <2>8. CASE Activate(b)
    BY <2>8, ActivateStep
  <2>9. CASE ActivateFails(b)
    BY <2>9, ActivateFailsStep
  <2>10. CASE RollBackAlias(b)
    BY <2>10, RollBackAliasStep
  <2>11. CASE CleanUp(b)
    BY <2>11, CleanUpStep
  <2>12. CASE \/ \E l \in Labels : StageRejected(b, l)
              \/ ZeroChunks(b) \/ RollBackFails(b) \/ CleanUpFails(b)
              \/ BuildFails(b)
    BY <2>12, StopStep
  <2>13. QED
    BY <1>2, <2>1, <2>2, <2>3, <2>4, <2>5, <2>6, <2>7, <2>8, <2>9, <2>10,
       <2>11, <2>12 DEF BuildStep, AfterPlan
<1>3. ASSUME NEW b \in Builders, Crash(b) PROVE IInv'
  BY <1>3, StopStep
<1>4. CASE RecordStep
  BY <1>4, RecordStepInv
<1>5. CASE UNCHANGED vars
  BY <1>5 DEF vars, IInv, TypeOK, JobsOK, JobOK, OwnsLabel, HoldsPoints,
              PrevPublished, UnusedLabels, SingleActive, ActiveIntact,
              IsActive, Contents
<1>6. QED
  BY <1>1, <1>2, <1>3, <1>4, <1>5 DEF Next

(* The inductive invariant holds in every state of the system.               *)
THEOREM Invariant == Spec => []IInv
BY InitInv, NextInv, PTL DEF Spec

(* Every value the builders, the two stores and the record rows hold is of   *)
(* its declared kind; above all a generation's status stays within the       *)
(* column's check constraint and a builder deletes only a real collection.   *)
THEOREM TypeCorrect == Spec => []TypeOK
<1>1. IInv => TypeOK
  BY DEF IInv
<1>2. QED
  BY <1>1, Invariant, PTL

(* However many builders overlap, fail and crash, at most one generation is  *)
(* active (activate_generation).                                             *)
THEOREM OneActive == Spec => []SingleActive
<1>1. IInv => SingleActive
  BY DEF IInv
<1>2. QED
  BY <1>1, Invariant, PTL

(* However many builders overlap, fail and crash, the active generation's    *)
(* collection exists and holds exactly the records of its metadata           *)
(* (build_and_activate: ownership of the label, rollback, clean-up).         *)
THEOREM ActiveStaysIntact == Spec => []ActiveIntact
<1>1. IInv => ActiveIntact
  BY DEF IInv
<1>2. QED
  BY <1>1, Invariant, PTL

-----------------------------------------------------------------------------
(* Every step publishes a generation or changes nothing a reader sees. *)

ActiveIds == UNION {gens[l].ids : l \in ActiveLabels}

LiveIsActive == LiveContent = ActiveIds

LEMMA LiveContentIsActiveIds == ActiveIntact => LiveIsActive
<1> SUFFICES ASSUME ActiveIntact PROVE LiveContent = ActiveIds
  BY DEF LiveIsActive
<1>1. ActiveLabels \cap collections = ActiveLabels
  BY DEF ActiveLabels, ActiveIntact
<1>2. \A l \in ActiveLabels : Contents(l) = gens[l].ids
  BY DEF ActiveLabels, ActiveIntact
<1>3. QED
  BY <1>1, <1>2 DEF LiveContent, ActiveIds

LEMMA LiveContentIsActiveIdsNext == ActiveIntact' => LiveIsActive'
BY LiveContentIsActiveIds, PTL

LEMMA ReaderSeesNothing ==
    ASSUME IInv, IInv',
           \A l \in Labels : gens'[l] = gens[l]
                              \/ {gens[l].status, gens'[l].status} \cap {"active", "retired"} = {}
    PROVE  UNCHANGED <<ActiveLabel, LiveContent, EverActive>>
<1>1. ActiveLabels' = ActiveLabels /\ EverActive' = EverActive
  BY DEF ActiveLabels, EverActive, IsActive
<1>2. ActiveLabel' = ActiveLabel
  BY <1>1 DEF ActiveLabel
<1>3. \A l \in ActiveLabels : gens'[l].ids = gens[l].ids
  BY DEF ActiveLabels, IsActive
<1>4. LiveContent = ActiveIds
  BY LiveContentIsActiveIds DEF IInv, LiveIsActive
<1>5. LiveContent' = ActiveIds'
  BY LiveContentIsActiveIdsNext DEF IInv, LiveIsActive
<1>6. LiveContent' = LiveContent
  BY <1>1, <1>3, <1>4, <1>5 DEF ActiveIds
<1>7. QED
  BY <1>1, <1>2, <1>6

LEMMA ActivatePublishes ==
    ASSUME IInv, IInv', NEW b \in Builders, Activate(b)
    PROVE  Promise!Next
<1>1. PICK l \in Labels :
         /\ l = job[b].lab
         /\ gens[l].status = "staged"
         /\ gens'[l] = [status |-> "active", owner |-> b, ids |-> job[b].new]
         /\ \A k \in Labels : k # l =>
               gens'[k].status = IF IsActive(k) THEN "retired" ELSE gens[k].status
  BY CommitFacts
<1>2. job[b].new \in SUBSET Records
  BY DEF IInv, TypeOK, Job
<1>3. ActiveLabels' = {l} /\ l \notin EverActive /\ EverActive' = EverActive \cup {l}
  BY <1>1 DEF ActiveLabels, EverActive, IsActive
<1>4. ActiveLabel' = l
  BY <1>3 DEF ActiveLabel
<1>5. LiveContent' = job[b].new
  <2>1. LiveContent' = ActiveIds'
    BY LiveContentIsActiveIdsNext DEF IInv, LiveIsActive
  <2>2. {gens'[k].ids : k \in ActiveLabels'} = {job[b].new}
    BY <1>1, <1>3
  <2>3. QED
    BY <2>1, <2>2 DEF ActiveIds
<1>6. Promise!Publish(l, job[b].new)
  BY <1>3, <1>4, <1>5 DEF Promise!Publish
<1>7. QED
  BY <1>2, <1>6 DEF Promise!Next

LEMMA StepIsPublishOrStutter ==
    IInv /\ IInv' /\ [Next]_vars =>
        [Promise!Next]_<<ActiveLabel, LiveContent, EverActive>>
<1> SUFFICES ASSUME IInv, IInv', [Next]_vars
             PROVE  Promise!Next \/ UNCHANGED <<ActiveLabel, LiveContent, EverActive>>
  OBVIOUS
<1>1. ASSUME NEW b \in Builders, NEW l \in Labels, StagePlan(b, l)
      PROVE  UNCHANGED <<ActiveLabel, LiveContent, EverActive>>
  <2>1. gens[l].status = "absent" /\ gens'[l].status = "staged"
    BY <1>1 DEF StagePlan, IInv, TypeOK
  <2>2. \A k \in Labels : k # l => gens'[k] = gens[k]
    BY <1>1 DEF StagePlan, IInv, TypeOK
  <2>3. QED
    BY <2>1, <2>2, ReaderSeesNothing
<1>2. ASSUME NEW b \in Builders, Activate(b) PROVE Promise!Next
  BY <1>2, ActivatePublishes
<1>3. CASE UNCHANGED gens
  BY <1>3, ReaderSeesNothing
<1>4. \/ UNCHANGED gens
      \/ \E b \in Builders : Activate(b) \/ \E l \in Labels : StagePlan(b, l)
  BY DEF Next, BuildStep, AfterPlan, vars, ReadActive, StageRejected, CreateCollection,
         Upsert, EmbedFails, EmbedDone, EmbedNothing, ZeroChunks, SwitchAlias,
         ActivateFails, RollBackAlias, RollBackFails, CleanUp, CleanUpFails,
         BuildFails, Crash, RecordStep, Classify, Recompute, Downgrade,
         SetRecord, stores
<1>5. QED
  BY <1>1, <1>2, <1>3, <1>4

(* The builders implement the promise to readers: what the active generation *)
(* answers from is replaced in one step by a generation that was never        *)
(* published before, and no other step of any builder, failed or not,         *)
(* changes it (build_and_activate, activate_generation, delete_collection).   *)
THEOREM Refinement == Spec => PublishesAtomically
<1>1. Init => Promise!Init
  BY DEF Init, Promise!Init, ActiveLabel, ActiveLabels, LiveContent, EverActive,
         IsActive, NoRow
<1>2. QED
  BY <1>1, Invariant, StepIsPublishOrStutter, PTL
  DEF PublishesAtomically, Promise!Spec, Spec

=============================================================================
