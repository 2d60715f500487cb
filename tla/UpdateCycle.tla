------------------------------ MODULE UpdateCycle ------------------------------
(***************************************************************************)
(* An update cycle (pipeline/orchestrator.py, pipeline/source_lifecycle.py, *)
(* db/repositories/source_registry.py, crawl/jobs.py): the sources that are *)
(* due are crawled one by one in one database session, which is committed   *)
(* at two checkpoints, then the disappeared and the expired ones are        *)
(* reconciled, a generation is built and audited.  Cycles do not overlap.   *)
(*                                                                         *)
(* Simplifications: a page has one record, and pages have different scopes *)
(* (CanonicalRecords has the competition within a scope); a redirection    *)
(* leads to a page that is not redirected itself; the build succeeds or    *)
(* fails as a whole (ServingGenerations has its steps).                    *)
(***************************************************************************)
EXTENDS Naturals, Sequences, FiniteSets

CONSTANTS
    Pages,      \* the urls
    NoPage,     \* no parent_source_url
    Seeds,      \* the seed entries
    Ingested,   \* the sets of sources that may have been delivered with records
    ParentOf,   \* their parents
    Research,   \* the pages of class research_subdomain
    Removable,  \* the pages whose records have a removable type
    Links,      \* the pages a page may link to
    Redirects,  \* the pages a page may be redirected to
    Priority,   \* the order of the crawl
    Interval,   \* the refresh interval of a page; 0 for manual_only
    Grace,      \* the grace window of a page
    Limits,     \* how many sources a cycle may select
    MaxDay      \* bound on the number of cycles

(* The urls of one site are finitely many, and _priority ends in the url,   *)
(* so that no two of them are equally urgent.                              *)
ASSUME PagesAssumption ==
    /\ IsFiniteSet(Pages)
    /\ Seeds \subseteq Pages /\ Ingested \subseteq SUBSET Pages
    /\ ParentOf \in [Pages -> Pages \cup {NoPage}]
    /\ Links \in [Pages -> SUBSET Pages] /\ Redirects \in [Pages -> SUBSET Pages]
    /\ Limits \subseteq Nat

ASSUME PriorityAssumption ==
    /\ Priority \in [Pages -> Nat]
    /\ \A u, v \in Pages : Priority[u] = Priority[v] => u = v

ASSUME RedirectsEnd == \A u \in Pages : \A v \in Redirects[u] : Redirects[v] = {}

VARIABLES
    reg,        \* source_registry: a function on the registered urls
    recs,       \* canonical_records: a function on the pages they came from
    phase,      \* what the orchestrator does
    queue,      \* selected_jobs
    processed,  \* processed_source_urls
    found,      \* _discovered_child_urls of the _crawled_parent_urls
    indexed,    \* the records in the active generation
    audit,      \* what the last audit raised
    today       \* the clock: a cycle a day

vars == <<reg, recs, phase, queue, processed, found, indexed, audit, today>>

Queryable == {"eligible", "pending_index", "indexed_active"}

(* A registry row has parent, active, gone (disappeared), status, and the    *)
(* days crawled and success, 0 where the column is null; the status          *)
(* "failed" stands for failed:...  A record has page, auth, fresh, serving.  *)

----------------------------------------------------------------------------
(* crawl/jobs.py                                                            *)

IsCrawlable(u, row) ==
    row.active /\ (u \in Research => row.status \in {"unverified", "verified_live"})

IsRefreshDue(u, row, now) ==
    Interval[u] # 0 /\ (row.crawled = 0 \/ now - row.crawled >= Interval[u])

Sorted(S) ==
    CHOOSE q \in [1 .. Cardinality(S) -> S] :
        \A i, j \in DOMAIN q : i < j => Priority[q[i]] < Priority[q[j]]

(* select_sources_for_crawl, of entries by url *)
SelectSources(entries, now) ==
    Sorted({u \in DOMAIN entries : IsCrawlable(u, entries[u]) /\ IsRefreshDue(u, entries[u], now)})

WithinGrace(u, row, now) == row.success # 0 /\ now - row.success <= Grace[u]

----------------------------------------------------------------------------
(* source_registry.py                                                       *)

Entry(parent, status) ==
    [parent |-> parent, active |-> TRUE, gone |-> FALSE, status |-> status,
     crawled |-> 0, success |-> 0]

(* Variant: a page keeps the parent that found it first. *)
UpsertedFirstParent(g, entries) ==
    [u \in DOMAIN g \cup DOMAIN entries |->
        IF u \notin DOMAIN g THEN entries[u]
        ELSE IF u \notin DOMAIN entries THEN g[u]
        ELSE [g[u] EXCEPT !.active = TRUE]]

(* upsert_entries: an entry that is listed again becomes active, but stays  *)
(* disappeared until it is crawled.                                        *)
Upserted(g, entries) ==
    [u \in DOMAIN g \cup DOMAIN entries |->
        IF u \notin DOMAIN g THEN entries[u]
        ELSE IF u \notin DOMAIN entries THEN g[u]
        ELSE [g[u] EXCEPT !.active = TRUE, !.parent = entries[u].parent,
                 !.status = IF entries[u].status # "none" THEN entries[u].status ELSE @]]

Later(a, b) == IF a > b THEN a ELSE b

(* Variant: merging two rows loses the activity of the old one. *)
ReboundAsItWas(g, old, new) ==
    [u \in (DOMAIN g \ {old}) \cup {new} |->
        LET row == IF u = new /\ u \notin DOMAIN g THEN g[old] ELSE g[u]
        IN [row EXCEPT !.parent = IF @ = old THEN new ELSE @]]

(* rebind_source_url: the old row takes the new url, or is merged into the  *)
(* row that has it.                                                        *)
Rebound(g, old, new) ==
    [u \in (DOMAIN g \ {old}) \cup {new} |->
        LET row == IF u # new THEN g[u]
                   ELSE IF u \notin DOMAIN g THEN g[old]
                   ELSE [g[u] EXCEPT !.active = @ \/ g[old].active,
                            !.crawled = Later(@, g[old].crawled),
                            !.success = Later(@, g[old].success)]
        IN [row EXCEPT !.parent = IF @ = old THEN new ELSE @]]

(* Variant: its records stay with the row that is gone. *)
MovedNowhere(rs, old, new) == rs

Moved(rs, old, new) ==
    [r \in DOMAIN rs |-> IF rs[r].page = old THEN [rs[r] EXCEPT !.page = new] ELSE rs[r]]

----------------------------------------------------------------------------
(* source_lifecycle.py                                                      *)

(* record_source_error *)
WithError(g, u) == [g EXCEPT ![u].crawled = today, ![u].status = "failed"]

(* normalized_crawl_status and record_source_success *)
WithSuccess(g, u, any) ==
    [g EXCEPT ![u].crawled = today, ![u].success = today, ![u].gone = FALSE, ![u].active = TRUE,
              ![u].status = IF u \in Research
                            THEN IF any THEN "verified_live" ELSE "verified_placeholder"
                            ELSE IF any \/ @ \in {"none", "failed"} THEN "verified_live" ELSE @]

(* What process_scope_updates makes of the one candidate of a page: it is  *)
(* classified as current or held back, and its predecessors leave.         *)
WithCandidate(rs, u, review) ==
    [r \in DOMAIN rs \cup {u} |->
        IF r = u
        THEN [page |-> u, auth |-> ~ review, fresh |-> IF review THEN "contradictory" ELSE "current",
              serving |-> IF review THEN "ineligible" ELSE "eligible"]
        ELSE IF rs[r].page = u /\ rs[r].auth
        THEN [rs[r] EXCEPT !.auth = FALSE,
                 !.serving = IF @ = "indexed_active" THEN "pending_deindex" ELSE "ineligible"]
        ELSE rs[r]]

(* reconcile_disappeared_sources: the children of the crawled pages that    *)
(* no longer link to them.                                                 *)
Disappearing ==
    {u \in DOMAIN reg : /\ reg[u].active /\ ~ reg[u].gone
                        /\ reg[u].parent \in DOMAIN found /\ u \notin found[reg[u].parent]}

(* downgrade_expired_sources, of the rows that are still there *)
Expired(g) ==
    {u \in DOMAIN g : /\ g[u].active /\ ~ g[u].gone
                      /\ g[u].status = "failed" /\ ~ WithinGrace(u, g[u], today)}

Removed(row) ==
    [row EXCEPT !.fresh = "removed", !.auth = FALSE,
                !.serving = IF @ = "indexed_active" THEN "pending_deindex" ELSE "ineligible"]

Downgraded(row) ==
    [row EXCEPT !.fresh = "unknown", !.auth = FALSE,
                !.serving = IF @ \in Queryable \cup {"pending_deindex"}
                            THEN "pending_deindex" ELSE "ineligible"]

----------------------------------------------------------------------------
(* orchestrator.py                                                          *)

(* An ingestion (scripts/ingest_records.py) before the first cycle: it knows *)
(* nothing of any crawl.                                                    *)
CycleInit ==
    /\ \E delivered \in Ingested :
          /\ reg = [u \in delivered |-> Entry(ParentOf[u], "none")]
          /\ recs = [u \in delivered |-> [page |-> u, auth |-> TRUE, fresh |-> "current",
                                         serving |-> "eligible"]]
    /\ phase = "idle" /\ queue = << >> /\ processed = {} /\ found = << >>
    /\ indexed = {} /\ audit = "none" /\ today = 0

(* The command upserts the seeds, reads the active entries and starts the  *)
(* orchestrator, which upserts those again and selects the ones to crawl.  *)
BeginCycle(limit) ==
    /\ phase = "idle" /\ today < MaxDay
    /\ today' = today + 1
    /\ LET g == Upserted(reg, [u \in Seeds |->
                    Entry(NoPage, IF u \in Research THEN "unverified" ELSE "none")])
           active == {u \in DOMAIN g : g[u].active /\ ~ g[u].gone}
           selected == SelectSources([u \in active |-> g[u]], today + 1)
       IN /\ reg' = g
          /\ queue' = IF limit < Len(selected) THEN SubSeq(selected, 1, limit) ELSE selected
    /\ phase' = "crawl" /\ processed' = {} /\ found' = << >> /\ audit' = "none"
    /\ UNCHANGED <<recs, indexed>>

(* fetch_artifact raises *)
FetchFails ==
    /\ phase = "crawl" /\ queue # << >>
    /\ queue' = Tail(queue) /\ processed' = processed \cup {Head(queue)}
    /\ reg' = WithError(reg, Head(queue))
    /\ UNCHANGED <<recs, phase, found, indexed, audit, today>>

(* Variant: only what is waiting is not queued again. *)
NewJobsAgain(entries, rest, done) ==
    SelectSources([v \in DOMAIN entries \ {rest[i] : i \in DOMAIN rest} |-> entries[v]], today)

(* The discovered sources that are due and neither processed nor queued, in *)
(* the order in which they are selected.                                   *)
NewJobs(entries, rest, done) ==
    SelectSources([v \in DOMAIN entries \ (done \cup {rest[i] : i \in DOMAIN rest}) |-> entries[v]],
                  today)

(* One source: it is fetched under the url "page", links to "children",    *)
(* and its extraction and processing come out as "outcome".                *)
CrawlSource(page, children, outcome) ==
    LET job == Head(queue)
        bound == IF page = job THEN reg ELSE Rebound(reg, job, page)
        moved == IF page = job THEN recs ELSE Moved(recs, job, page)
        listed == Upserted(bound, [v \in children |-> Entry(page, "none")])
        entries == [v \in children |-> [listed[v] EXCEPT !.active = TRUE, !.status = "none"]]
        done == processed \cup {job}
    IN /\ processed' = done
       /\ queue' = Tail(queue) \o NewJobs(entries, Tail(queue), done)
       /\ found' = [u \in DOMAIN found \cup {page} |->
                       IF u # page THEN found[u]
                       ELSE children \cup (IF u \in DOMAIN found THEN found[u] ELSE {})]
       /\ reg' = CASE outcome = "extraction_failed" -> WithError(listed, page)
                   [] outcome = "scope_processing_failed" ->
                          WithError(WithSuccess(listed, page, TRUE), page)
                   [] OTHER -> WithSuccess(listed, page, outcome # "nothing")
       /\ recs' = IF outcome \in {"current", "review"}
                  THEN WithCandidate(moved, page, outcome = "review") ELSE moved
       /\ UNCHANGED <<phase, indexed, audit, today>>

CrawlNext ==
    /\ phase = "crawl" /\ queue # << >>
    /\ \E page \in {Head(queue)} \cup Redirects[Head(queue)],
          outcome \in {"extraction_failed", "scope_processing_failed", "nothing", "current", "review"} :
           \E children \in SUBSET Links[page] : CrawlSource(page, children, outcome)

(* The crawl checkpoint. *)
CommitCrawl ==
    /\ phase = "crawl" /\ queue = << >>
    /\ phase' = "reconcile"
    /\ UNCHANGED <<reg, recs, queue, processed, found, indexed, audit, today>>

(* _run_reconciliation_phase, with its checkpoint *)
Reconcile ==
    /\ phase = "reconcile"
    /\ phase' = "build"
    /\ reg' = [u \in DOMAIN reg |-> IF u \in Disappearing
                                     THEN [reg[u] EXCEPT !.gone = TRUE, !.active = FALSE] ELSE reg[u]]
    /\ recs' = [r \in DOMAIN recs |->
                  LET u == recs[r].page IN
                  IF u \in Disappearing
                  THEN IF r \in Removable /\ recs[r].fresh \in {"current", "unknown"}
                       THEN Removed(recs[r]) ELSE recs[r]
                  ELSE IF u \in Expired(reg) /\ recs[r].fresh = "current"
                       THEN Downgraded(recs[r]) ELSE recs[r]]
    /\ processed' = {} /\ found' = << >>
    /\ UNCHANGED <<queue, indexed, audit, today>>

(* _run_generation_phase, with auto_activate *)
BuildGeneration ==
    LET loaded == {r \in DOMAIN recs : recs[r].auth /\ recs[r].fresh = "current"
                                       /\ recs[r].serving \in Queryable}
    IN /\ phase = "build"
       /\ phase' = "audit"
       /\ indexed' = loaded
       /\ recs' = [r \in DOMAIN recs |->
                     IF r \in loaded THEN [recs[r] EXCEPT !.serving = "indexed_active"]
                     ELSE IF r \in indexed THEN [recs[r] EXCEPT !.serving = "deindexed"]
                     ELSE recs[r]]
       /\ UNCHANGED <<reg, queue, processed, found, audit, today>>

(* manual_review_mode, or the build fails.                                 *)
SkipActivation ==
    /\ phase = "build"
    /\ phase' = "idle"
    /\ UNCHANGED <<reg, recs, queue, processed, found, indexed, audit, today>>

InactiveIndexed == {r \in indexed : ~ reg[recs[r].page].active}

(* _run_audit_phase: what it raises, it raises after the activation. *)
Audit ==
    /\ phase = "audit"
    /\ phase' = "idle"
    /\ audit' = IF InactiveIndexed # {} THEN "blocked_or_inactive" ELSE "complete"
    /\ UNCHANGED <<reg, recs, queue, processed, found, indexed, today>>

(* The process dies, or the session breaks, before the crawl checkpoint: of *)
(* everything the crawl did, nothing was committed. *)
CrawlLost ==
    /\ phase = "idle" /\ today < MaxDay
    /\ today' = today + 1 /\ audit' = "none"
    /\ UNCHANGED <<reg, recs, phase, queue, processed, found, indexed>>

(* The process dies between two checkpoints after it. *)
CrashCycle ==
    /\ phase \in {"reconcile", "build", "audit"}
    /\ phase' = "idle" /\ processed' = {} /\ found' = << >>
    /\ UNCHANGED <<reg, recs, queue, indexed, audit, today>>

(* A keyboard interrupt on a terminal returns from inside the session's    *)
(* scope, which commits the half of a crawl that is there.                 *)
InterruptCycle ==
    /\ phase = "crawl"
    /\ phase' = "idle" /\ queue' = << >>
    /\ processed' = {} /\ found' = << >>
    /\ UNCHANGED <<reg, recs, indexed, audit, today>>

CycleStep ==
    \/ FetchFails \/ CrawlNext \/ CommitCrawl
    \/ Reconcile \/ BuildGeneration \/ Audit

CycleNext ==
    \/ \E limit \in Limits : BeginCycle(limit)
    \/ CycleStep
    \/ SkipActivation \/ CrawlLost \/ CrashCycle \/ InterruptCycle

CycleSpec == CycleInit /\ [][CycleNext]_vars

(* The orchestrator goes on with a cycle it has begun. *)
FairCycleSpec == CycleSpec /\ WF_vars(CycleStep)

----------------------------------------------------------------------------
(* Whatever is rebound, merged, lost and interrupted: no record is without  *)
(* its source.                                                              *)
RecordsHaveSource == \A r \in DOMAIN recs : recs[r].page \in DOMAIN reg

(* Once reconciled, a record that is removed with its page does not outlive *)
(* it, wherever redirections have moved it.                                 *)
RemovedWithItsPage ==
    phase \in {"build", "audit"} =>
        \A r \in DOMAIN recs \cap Removable : recs[r].auth => reg[recs[r].page].active

(* A page to which a page fetched in the same cycle links is not declared   *)
(* disappeared, whoever was its parent in earlier cycles.                   *)
DisappearedIsUnlinked ==
    [][phase = "reconcile" /\ phase' = "build" =>
          \A u \in DOMAIN reg : reg'[u].gone /\ ~ reg[u].gone =>
              \A p \in DOMAIN found : u \notin found[p]]_vars

(* A cycle ends: discovery does not feed the queue for ever. *)
CycleEnds == phase # "idle" ~> phase = "idle"

(* The audit's assertion that no record of an inactive source is in the     *)
(* active alias.                                                            *)
AuditHolds == audit # "blocked_or_inactive"

=============================================================================
