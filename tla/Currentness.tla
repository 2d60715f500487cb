----------------------------- MODULE Currentness -----------------------------
(***************************************************************************)
(* verify/currentness.py, verify/source_class_currentness.py and           *)
(* verify/deduplication.py: what one candidate's siblings, source and      *)
(* parent make of it.  Pure operators, no state.                           *)
(*                                                                         *)
(* A candidate is a record.  Its identifiers, dates and tier are numbers,  *)
(* because the rules compare them; 0 stands for a missing date and for a   *)
(* missing cycle label.  "val" is the effective value hash.                *)
(***************************************************************************)
EXTENDS Naturals, Sequences, FiniteSets

CONSTANTS
    Blocked,    \* sources whose policy forbids serving (partners set them)
    NoParent    \* a candidate without parent record, or without parent page

CycleAware == {"admissions_cycle", "program_fee_schedule", "merit_list"}
ParentDependent == {"faculty_publication", "faculty_award", "faculty_affiliation"}
ContextDependent == {"document_asset"}
VersionAware == {"faculty_profile", "policy_rule"}
LatestVersion ==
    {"general", "program", "program_curriculum", "university_info", "student_service",
     "org_unit", "research_entity", "news_event", "scholarship", "evidence",
     "document_landing"}
ExplicitParent == ParentDependent \cup ContextDependent
NonContradictory == LatestVersion \cup {"faculty_profile"}

(* Python's tuple comparison, on tuples of equal length. *)
Above(s, t) ==
    \E i \in DOMAIN s : s[i] > t[i] /\ \A j \in 1 .. i - 1 : s[j] = t[j]

(* -source_authority_tier: tiers are 1 .. 9, a lower one has more authority. *)
Authority(c) == 9 - c.tier

RankLatest(c) == <<c.from, c.fetched, Authority(c), c.ver>>
RankCycle(c) == <<c.from, c.fetched, Authority(c), c.rec>>

----------------------------------------------------------------------------
(* Decisions.  A decision says what the row of the candidate becomes.      *)

Decision(verification, freshness, cand, auth, review) ==
    [verification |-> verification, freshness |-> freshness,
     serving |-> IF auth THEN "eligible" ELSE "ineligible",
     cand |-> cand, auth |-> auth, review |-> review]

Restricted == Decision("rejected", "restricted", FALSE, FALSE, "")
Stale == Decision("verified", "stale", TRUE, FALSE, "")
Contradictory == Decision("pending", "contradictory", FALSE, FALSE, "same_tier_conflict")
AmbiguousDate == Decision("pending", "unknown", FALSE, FALSE, "ambiguous_date")
Uncorroborated == Decision("verified", "current", TRUE, FALSE, "requires_corroboration")
Unresolved == Decision("pending", "unknown", FALSE, FALSE, "")
Winner == Decision("verified", "current", TRUE, TRUE, "")

(* _ineligible_child: the child of a parent that does not serve. *)
IneligibleChild(p) ==
    Decision(IF p.verification = "verified" THEN "verified" ELSE "pending",
             IF p.freshness = "current" THEN "stale" ELSE p.freshness,
             FALSE, FALSE, "")

(* can_enter_serving *)
CanEnterServing(d) ==
    d.verification = "verified" /\ d.freshness = "current" /\ d.auth /\ d.serving = "eligible"

----------------------------------------------------------------------------
(* Same-tier conflicts.                                                     *)

Comparable(c, siblings) == {s \in siblings : s.scope = c.scope /\ s.type = c.type}

(* Two records say the same: val is what is left of a record's value when   *)
(* dashes, marks, spaces and case no longer count (effective_value_hash).   *)
SameValue(c, d) == c.val = d.val

(* The siblings whose value contradicts c's: same scope, type and tier,    *)
(* and not a type or a cycle in which a newer value simply replaces it.    *)
Contradicting(c, siblings) ==
    {s \in Comparable(c, siblings) :
        /\ s.tier = c.tier
        /\ ~ SameValue(s, c)
        /\ c.type \notin NonContradictory
        /\ ~ (c.type \in CycleAware /\ c.label # 0 /\ s.label # 0 /\ s.label # c.label)}

(* An admissions date of a more specific page, or a newer one of an        *)
(* equally specific page, replaces what it contradicts.                    *)
OverridesBySpecificity(c, conflicting) ==
    /\ c.type = "admissions_cycle"
    /\ \A s \in conflicting :
          \/ s.spec < c.spec
          \/ s.spec = c.spec /\ Above(SubSeq(RankLatest(c), 1, 3), SubSeq(RankLatest(s), 1, 3))

SameTierConflict(c, siblings) ==
    LET conflicting == Contradicting(c, siblings) IN
    conflicting # {} /\ ~ OverridesBySpecificity(c, conflicting)

----------------------------------------------------------------------------
(* The rules of the record types.                                           *)

(* Variant: candidates are compared by effective_from alone. *)
LatestByDate(c, siblings) ==
    IF \E s \in Comparable(c, siblings) : s.from > c.from THEN Stale ELSE Winner

(* _default_latest_version: one total order, so one winner. *)
Latest(c, siblings) ==
    IF \E s \in Comparable(c, siblings) : Above(RankLatest(s), RankLatest(c))
    THEN Stale ELSE Winner

(* _has_admissions_corroboration *)
Corroborated(c, comparable) ==
    \E s \in comparable : SameValue(s, c) /\ (s.res = "explicit" \/ s.src # c.src)

(* _cycle_aware_supersession: max() keeps the first of equal candidates,   *)
(* and each candidate is the first of its own list.                        *)
LatestOfCycle(c, siblings) ==
    LET comparable == {s \in Comparable(c, siblings) : s.sure} IN
    IF \E s \in comparable : Above(RankCycle(s), RankCycle(c))
    THEN Stale
    ELSE IF /\ c.type = "admissions_cycle"
            /\ c.res = "weekday_inferred"
            /\ ~ Corroborated(c, comparable)
         THEN Uncorroborated
         ELSE Winner

(* _parent_dependent and _context_dependent. *)
UnderParent(p, underServingParent) ==
    IF ~ p.resolved THEN Unresolved
    ELSE IF ~ p.auth \/ p.verification # "verified" THEN IneligibleChild(p)
    ELSE underServingParent

(* classify: the rule registered for the type; an unknown type fails closed. *)
ByType(c, siblings, p) ==
    CASE c.type \in CycleAware -> LatestOfCycle(c, siblings)
      [] c.type \in VersionAware \cup LatestVersion -> Latest(c, siblings)
      [] c.type \in ParentDependent -> UnderParent(p, Winner)
      [] c.type \in ContextDependent -> UnderParent(p, Latest(c, siblings))
      [] OTHER -> Unresolved

(* classify_currentness: the shared guards, then the rule of the type. *)
Classify(c, siblings, p, today) ==
    IF c.src \in Blocked THEN Restricted
    ELSE IF c.until # 0 /\ c.until < today THEN Stale
    ELSE IF SameTierConflict(c, siblings) THEN Contradictory
    ELSE IF c.type \in CycleAware /\ ~ c.sure THEN AmbiguousDate
    ELSE ByType(c, siblings, p)

----------------------------------------------------------------------------
(* Deduplication of the candidates that may serve.                          *)

WinningTier(group) == {c \in group : \A d \in group : c.tier <= d.tier}

SameKey(c, serving) == {d \in serving : d.key = c.key}

(* The candidates of the best tier of a key that disagree on the value. *)
DedupeConflicts(serving) ==
    {c \in serving :
        LET winning == WinningTier(SameKey(c, serving)) IN
        c \in winning /\ \E d \in winning : \E e \in winning : ~ SameValue(d, e)}

(* Variant: every agreeing candidate of the best tier is primary. *)
PrimariesOfTier(serving) ==
    {c \in serving \ DedupeConflicts(serving) : c \in WinningTier(SameKey(c, serving))}

(* primary_records: of the agreeing candidates of the best tier, one. *)
Primaries(serving) ==
    {c \in serving \ DedupeConflicts(serving) :
        LET winning == WinningTier(SameKey(c, serving)) IN
        c \in winning /\ \A d \in winning : c.ver <= d.ver}

=============================================================================
