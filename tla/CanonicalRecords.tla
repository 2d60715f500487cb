--------------------------- MODULE CanonicalRecords ---------------------------
(***************************************************************************)
(* The canonical records: what a crawl or an ingestion                     *)
(* (pipeline/canonical_upsert.py), a review (pipeline/                     *)
(* review_resolution.py), the reconciliation of duplicates                 *)
(* (pipeline/supporting_evidence.py) and a build of the serving index make *)
(* of the stored rows.  Each of them is one database transaction and so    *)
(* one action; ServingGenerations has the steps of a build.                *)
(*                                                                         *)
(* Simplifications: every version has attributes chosen once, in "pool"    *)
(* (a real one may change its tier or dates when it is delivered again);   *)
(* a batch holds a version once, and types the schema accepts.             *)
(***************************************************************************)
EXTENDS Currentness

CONSTANTS
    Pools,      \* the candidate pools: functions from versions to candidates
    BatchSizes, \* how many candidates a batch may hold
    MaxDay      \* bound on the number of crawls

Candidates ==
    [ver : Nat, rec : Nat, type : STRING, scope : Nat, key : Nat, val : Nat, tier : 1 .. 9,
     spec : Nat, label : Nat, from : Nat, until : Nat, fetched : Nat, sure : BOOLEAN,
     res : STRING, src : Nat, parent : Nat \cup {NoParent}, parentSrc : Nat \cup {NoParent}]

(* A version number names one candidate. *)
ASSUME PoolsAssumption ==
    /\ MaxDay \in Nat
    /\ \A p \in Pools : /\ p \in [DOMAIN p -> Candidates] /\ IsFiniteSet(DOMAIN p)
                       /\ \A v \in DOMAIN p : p[v].ver = v

VARIABLES
    pool,       \* the candidates that may be delivered, by version number
    rows,       \* canonical_records: a function on the stored versions
    pending,    \* versions with a pending manual_review_required event
    resolved,   \* the last resolution of versions with a resolved event
    indexed,    \* the versions in the active serving generation
    today       \* the clock: crawl times and dates

vars == <<pool, rows, pending, resolved, indexed, today>>

Queryable == {"eligible", "pending_index", "indexed_active"}

Row ==
    [verification : {"pending", "verified", "rejected"},
     freshness : {"current", "stale", "unknown", "contradictory", "restricted", "removed"},
     serving : Queryable \cup {"ineligible", "pending_deindex", "deindexed"},
     cand : BOOLEAN, auth : BOOLEAN, fetched : Nat]

Stored == DOMAIN rows

Fetched(v, t) == [pool[v] EXCEPT !.fetched = t]

(* candidate_from_row *)
Candidate(v) == Fetched(v, rows[v].fetched)

----------------------------------------------------------------------------
(* decision_engine.py: the state of a candidate's parent.                   *)

Bit(b) == IF b THEN 1 ELSE 0

Missing == [resolved |-> FALSE]

(* What is remembered of a row or of a decision.  The best rank wins; of   *)
(* equal ones, which only a row and its own decision can be, the first.    *)
Entry(c, s, first) ==
    [ver |-> c.ver, rec |-> c.rec, src |-> c.src,
     rank |-> <<Bit(s.auth), Bit(s.verification = "verified"), Bit(s.freshness = "current"),
                Bit(s.serving \in Queryable), c.fetched, c.ver, Bit(first)>>,
     state |-> [resolved |-> TRUE, verification |-> s.verification,
                freshness |-> s.freshness, auth |-> s.auth]]

Best(entries) ==
    IF entries = {} THEN Missing
    ELSE (CHOOSE e \in entries : \A f \in entries : ~ Above(f.rank, e.rank)).state

(* ParentStateLookup.resolve: the record is looked up before the page. *)
ParentOf(c, entries) ==
    IF c.parent # NoParent THEN Best({e \in entries : e.rec = c.parent})
    ELSE IF c.parentSrc # NoParent THEN Best({e \in entries : e.src = c.parentSrc})
    ELSE Missing

(* load_parent_rows, as the lookups remember them; rs is what the session  *)
(* sees of the rows.                                                       *)
ParentRows(cands, rs, first) ==
    {Entry(Candidate(v), rs[v], first) : v \in
        {w \in Stored : \E c \in cands : pool[w].rec = c.parent \/ pool[w].src = c.parentSrc}}

Siblings(c, cands) == {s \in cands : s.scope = c.scope /\ s.ver # c.ver}

(* _candidate_parent_resolution_rank, among the candidates with a parent. *)
ResolutionOrder(c) == <<c.scope, c.ver, c.fetched>>

(* classify_candidates_for_parent_resolution: the candidates without a     *)
(* parent, then the others one by one, each decision remembered before the *)
(* next is made.  Only the last decision of a version is returned.         *)
BaseDecisions(cands, rs, now) ==
    LET Remember(c, p) == Entry(c, Classify(c, Siblings(c, cands), p, now), FALSE)
        children == {c \in cands : c.type \in ExplicitParent}
        stored == ParentRows(cands, rs, TRUE)
        Earlier(c) == {d \in children : Above(ResolutionOrder(c), ResolutionOrder(d))}
        remembered[n \in 0 .. Cardinality(children)] ==
            IF n = 0 THEN {Remember(c, Missing) : c \in cands \ children}
            ELSE LET done == remembered[n - 1]
                     next == {c \in children : Cardinality(Earlier(c)) = n - 1}
                 IN done \cup {Remember(c, ParentOf(c, stored \cup done)) : c \in next}
        all == remembered[Cardinality(children)]
    IN {e \in all : \A f \in all : f.ver = e.ver => f.rank[5] <= e.rank[5]}

(* build_parent_state_lookup: base decisions first, then the stored rows - *)
(* with the state they had before this transaction.                        *)
ParentLookup(cands, base, rs) ==
    {[e EXCEPT !.rank[7] = 1] : e \in base} \cup ParentRows(cands, rs, FALSE)

----------------------------------------------------------------------------
(* process_scope_updates                                                    *)

FromDecision(d, t) ==
    [verification |-> d.verification, freshness |-> d.freshness, serving |-> d.serving,
     cand |-> d.cand, auth |-> d.auth, fetched |-> t]

(* apply_decision *)
Apply(row, d) ==
    [FromDecision(d, row.fetched) EXCEPT
        !.serving = IF row.serving = "indexed_active" /\ ~ d.auth
                    THEN "pending_deindex" ELSE d.serving]

(* Variant: the demotion writes a status the schema does not know, ... *)
FailClosedBlocked(row) == [row EXCEPT !.serving = "blocked", !.cand = FALSE, !.auth = FALSE]

(* ... or leaves a row that is not indexed yet as it is. *)
FailClosedIndexedOnly(row) ==
    [row EXCEPT !.serving = IF @ = "indexed_active" THEN "pending_deindex" ELSE @,
                !.cand = FALSE, !.auth = FALSE]

(* What a scope that needs a review does to its stored rows. *)
FailClosed(row) ==
    [row EXCEPT !.serving = IF @ = "indexed_active" THEN "pending_deindex"
                            ELSE IF @ \in Queryable THEN "ineligible" ELSE @,
                !.cand = FALSE, !.auth = FALSE]

Supersede(row) ==
    [row EXCEPT !.serving = IF @ \in {"indexed_active", "pending_deindex"}
                            THEN "pending_deindex" ELSE "ineligible",
                !.auth = FALSE]

InScope(s, V) == {v \in V : pool[v].scope = s}

(* The candidates of the scopes a batch touches, with their decisions.  A  *)
(* stored version that is delivered again is among them twice; the         *)
(* delivered copy decides.                                                 *)
Decided(batch, existing, now) ==
    LET cands == {Candidate(v) : v \in existing} \cup {Fetched(v, now) : v \in batch}
        lookup == ParentLookup(cands, BaseDecisions(cands, rows, now), rows)
    IN {[ver |-> c.ver, decision |-> Classify(c, Siblings(c, cands), ParentOf(c, lookup), now)] :
           c \in {e \in cands : e.ver \in batch => e.fetched = now}}

(* Variant: the other rows of a scope that needs a review keep theirs. *)
UpsertedOpen(v, d, batch, failClosed, now) ==
    IF v \in Stored THEN Apply(rows[v], d) ELSE FromDecision(d, now)

(* A stored version that is delivered again: its decision is applied once  *)
(* for each of its two candidates.                                         *)
Upserted(v, d, batch, failClosed, now) ==
    IF v \notin Stored THEN FromDecision(d, now)
    ELSE IF v \in batch THEN [Apply(Apply(rows[v], d), d) EXCEPT !.fetched = now]
    ELSE IF pool[v].scope \in failClosed THEN FailClosed(Apply(rows[v], d))
    ELSE Apply(rows[v], d)

(* link_superseded_records: the latest delivered candidate that won takes  *)
(* over from every other stored row of its scope, whatever the type.       *)
TakesOver(s, winners) ==
    {v \in InScope(s, winners) : \A w \in InScope(s, winners) :
        ~ Above(<<pool[w].from, Authority(pool[w]), w>>, <<pool[v].from, Authority(pool[v]), v>>)}

LinkSuperseded(v, row, winners) ==
    LET latest == TakesOver(pool[v].scope, winners) IN
    IF /\ latest \ {v} # {} /\ v \in Stored
       /\ row.auth \/ row.serving \in {"indexed_active", "pending_deindex"}
    THEN Supersede(row) ELSE row

(* create_verification_event: a version has one pending event at most. *)
WithEvents(V) == pending \cup V

ProcessScopeUpdates(batch, now) ==
    LET scopes == {pool[v].scope : v \in batch}
        existing == {v \in Stored : pool[v].scope \in scopes}
        decided == Decided(batch, existing, now)
        D(v) == (CHOOSE x \in decided : x.ver = v).decision
        reviewed == {x.ver : x \in {y \in decided : y.decision.review # ""}}
        failClosed == {pool[v].scope : v \in reviewed \cap batch}
        winners == {v \in batch : D(v).auth /\ pool[v].scope \notin failClosed}
    IN /\ rows' = [v \in Stored \cup batch |->
                      IF v \in existing \cup batch
                      THEN LinkSuperseded(v, Upserted(v, D(v), batch, failClosed, now), winners)
                      ELSE rows[v]]
       /\ pending' = WithEvents(reviewed)

(* A crawl or an ingestion delivers a batch; its time is later than any    *)
(* stored one.                                                             *)
Crawl(batch) ==
    /\ today < MaxDay
    /\ today' = today + 1
    /\ ProcessScopeUpdates(batch, today + 1)
    /\ UNCHANGED <<pool, resolved, indexed>>

----------------------------------------------------------------------------
(* review_resolution.py                                                     *)

(* load_recompute_rows: the loop goes on while it reaches a row over scope, *)
(* record, page or as a child of those; what it ends with is the smallest  *)
(* set around the anchor that reaches no other row.                        *)
Reaches(c, e) ==
    \/ e.scope = c.scope \/ e.rec = c.rec \/ e.src = c.src
    \/ e.parent = c.rec \/ e.parentSrc = c.src

ReachesNoOther(V) ==
    \A v \in V : \A w \in Stored \ V : ~ Reaches(pool[v], pool[w])

Affected(v) ==
    LET around == {V \in SUBSET Stored : v \in V /\ ReachesNoOther(V)}
    IN {w \in Stored : \A V \in around : w \in V}

(* _apply_recomputed_decision; the index jobs it enqueues are IndexJobs'. *)
ApplyRecomputed(row, d) ==
    [FromDecision(d, row.fetched) EXCEPT
        !.serving = IF CanEnterServing(d)
                    THEN IF row.serving = "indexed_active" THEN "indexed_active" ELSE "pending_index"
                    ELSE IF row.serving \in {"indexed_active", "pending_deindex"}
                         THEN "pending_deindex" ELSE "ineligible"]

(* Variant: a rejected row is kept out, but the decision's verification is  *)
(* written over the rejection.                                             *)
RejectionForgotten(d) == [d EXCEPT !.serving = "ineligible", !.cand = FALSE, !.auth = FALSE]

RejectedBy(d) ==
    [d EXCEPT !.verification = "rejected", !.serving = "ineligible", !.cand = FALSE, !.auth = FALSE]

(* recompute_scope_state: rejected rows are nobody's siblings and stay     *)
(* rejected.                                                               *)
RecomputeScopeState(v, resolution) ==
    LET affected == Affected(v)
        rs == [rows EXCEPT ![v].verification = resolution]
        active == {Candidate(w) : w \in {u \in affected : rs[u].verification # "rejected"}}
        lookup == ParentLookup({Candidate(w) : w \in affected}, BaseDecisions(active, rs, today), rs)
        Base(w) == Classify(Candidate(w), Siblings(Candidate(w), active),
                            ParentOf(Candidate(w), lookup), today)
    IN rows' = [w \in Stored |->
           IF w \notin affected THEN rows[w]
           ELSE ApplyRecomputed(rows[w],
                    IF rs[w].verification = "rejected" THEN RejectedBy(Base(w)) ELSE Base(w))]

(* _resolve_review: nothing asks whether the event is still pending. *)
Resolve(v, resolution) ==
    /\ v \in pending \cup DOMAIN resolved
    /\ UNCHANGED <<pool, indexed, today>>
    /\ pending' = pending \ {v}
    /\ resolved' = [w \in DOMAIN resolved \cup {v} |-> IF w = v THEN resolution ELSE resolved[w]]
    /\ RecomputeScopeState(v, resolution)

----------------------------------------------------------------------------
(* supporting_evidence.py and the build                                     *)

(* load_current_authoritative_decisions *)
LoadedFrom(rs) ==
    {[pool[v] EXCEPT !.fetched = rs[v].fetched] : v \in
        {w \in DOMAIN rs : /\ rs[w].auth /\ rs[w].serving \in Queryable
                           /\ rs[w].freshness = "current" /\ rs[w].verification = "verified"}}

Versions(cands) == {c.ver : c \in cands}

(* Variant: the conflict is recorded without a review event. *)
ReconcileSilently ==
    LET conflicts == Versions(DedupeConflicts(LoadedFrom(rows))) IN
    /\ rows' = [v \in Stored |->
           IF v \notin conflicts THEN rows[v]
           ELSE [rows[v] EXCEPT !.freshness = "contradictory", !.serving = "ineligible",
                     !.cand = FALSE, !.auth = FALSE]]
    /\ UNCHANGED <<pool, pending, resolved, indexed, today>>

(* persist_supporting_links *)
Reconcile ==
    LET conflicts == Versions(DedupeConflicts(LoadedFrom(rows))) IN
    /\ rows' = [v \in Stored |->
           IF v \notin conflicts THEN rows[v]
           ELSE [rows[v] EXCEPT !.freshness = "contradictory", !.cand = FALSE, !.auth = FALSE,
                     !.serving = IF @ = "indexed_active" THEN "pending_deindex" ELSE "ineligible"]]
    /\ pending' = WithEvents(conflicts)
    /\ UNCHANGED <<pool, resolved, indexed, today>>

(* build_and_activate with every record embedded: the primaries are        *)
(* indexed, what only the replaced generation has is de-indexed.           *)
Build ==
    LET primaries == Versions(Primaries(LoadedFrom(rows))) IN
    /\ indexed' = primaries
    /\ rows' = [v \in Stored |->
           IF v \in primaries THEN [rows[v] EXCEPT !.serving = "indexed_active"]
           ELSE IF v \in indexed THEN [rows[v] EXCEPT !.serving = "deindexed"]
           ELSE rows[v]]
    /\ UNCHANGED <<pool, pending, resolved, today>>

----------------------------------------------------------------------------
RecordsInit ==
    /\ pool \in Pools
    /\ rows = << >>
    /\ pending = {} /\ resolved = << >> /\ indexed = {}
    /\ today = 0

RecordsNext ==
    \/ \E batch \in {b \in SUBSET DOMAIN pool : Cardinality(b) \in BatchSizes} : Crawl(batch)
    \/ \E v \in DOMAIN pool, resolution \in {"verified", "rejected"} : Resolve(v, resolution)
    \/ Reconcile
    \/ Build

RecordsSpec == RecordsInit /\ [][RecordsNext]_vars

----------------------------------------------------------------------------
RecordsTypeOK ==
    /\ Stored \subseteq DOMAIN pool
    /\ \A v \in Stored : rows[v] \in Row
    /\ pending \subseteq Stored /\ DOMAIN resolved \subseteq Stored /\ indexed \subseteq Stored
    /\ today \in 0 .. MaxDay

(* A scope has one current value per type and cycle, whatever sequence of   *)
(* crawls, reviews, reconciliations and builds led here.  What depends on  *)
(* its parent alone (publications, awards, affiliations) has no winner.    *)
OneCurrentValue ==
    \A v, w \in Stored :
        /\ rows[v].auth /\ rows[w].auth
        /\ pool[v].scope = pool[w].scope /\ pool[v].type = pool[w].type
        /\ pool[v].label = pool[w].label /\ pool[v].type \notin ParentDependent
        => pool[v].val = pool[w].val

(* What queries may see is exactly what is current and authoritative,      *)
(* except what a build took out of the index.                              *)
QueryableIsCurrent ==
    \A v \in Stored :
        /\ rows[v].serving \in Queryable =>
               rows[v].auth /\ rows[v].verification = "verified" /\ rows[v].freshness = "current"
        /\ rows[v].auth => rows[v].serving \in Queryable \cup {"deindexed"}

(* Nobody is held back without a review event that says so, except a child *)
(* that only shows the freshness of its parent.                            *)
HeldBackIsReviewed ==
    \A v \in Stored : rows[v].freshness = "contradictory" =>
        v \in pending \cup DOMAIN resolved \/ pool[v].type \in ExplicitParent

(* A batch that needs a review takes everything else in its scope out.     *)
FailsClosed ==
    [][\A v \in pending' \ pending : v \in DOMAIN rows' /\ rows'[v].fetched = today' /\ today' # today =>
          \A w \in Stored : pool[w].scope = pool[v].scope /\ rows'[w].fetched # today' =>
              ~ rows'[w].auth /\ rows'[w].serving \notin Queryable]_vars

(* A rejection takes effect, and holds through the reviews of other        *)
(* records, reconciliations and builds; only a crawl that touches the      *)
(* scope, or an approval, lifts it.                                        *)
RejectionHolds ==
    [][\A v \in DOMAIN resolved' :
          /\ today' = today
          /\ resolved'[v] = "rejected"
          /\ IF v \in DOMAIN resolved /\ resolved[v] = "rejected"
             THEN rows[v].verification = "rejected" ELSE TRUE
          => rows'[v].verification = "rejected" /\ ~ rows'[v].auth]_vars

(* After a build of reconciled records the audit's counts agree, and no    *)
(* key is indexed twice.                                                   *)
AuditPasses ==
    [][indexed' # indexed /\ DedupeConflicts(LoadedFrom(rows)) = {} =>
          /\ indexed' = Versions(Primaries(LoadedFrom(rows')))
          /\ \A v, w \in indexed' : pool[v].key = pool[w].key => v = w]_vars

=============================================================================
