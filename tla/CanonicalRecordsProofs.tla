------------------------ MODULE CanonicalRecordsProofs ------------------------
(***************************************************************************)
(* The canonical records, for any pools of candidates: one current value   *)
(* per scope, nothing queryable that is not current, conflicts that have a *)
(* review event, scopes that fail closed, rejections that hold, and an     *)
(* index that the audit's counts agree with.                               *)
(*                                                                         *)
(* The state of a candidate's parent is remembered in a recursive function *)
(* and chosen by rank: that it is well defined follows from the least      *)
(* number principle (LeastNumber, EveryNumber) and from the finiteness of  *)
(* the pools.                                                              *)
(***************************************************************************)
EXTENDS CanonicalRecords, FiniteSetTheorems, WellFoundedInduction, TLAPS

(* A set of numbers has a least one ... *)
LEMMA LeastNumber ==
    ASSUME NEW S \in SUBSET Nat, S # {}
    PROVE  \E n \in S : \A m \in S : n <= m
<1> DEFINE R == {p \in Nat \X Nat : p[1] < p[2]}
<1>1. IsWellFoundedOn(R, Nat)
      BY NatLessThanWellFounded DEF OpToRel
<1> HIDE DEF R
<1>2. PICK n \in S : \A m \in S : <<m, n>> \notin R
      BY <1>1, WFMin
<1>3. ASSUME NEW m \in S PROVE n <= m
      <2>1. n \in Nat /\ m \in Nat /\ <<m, n>> \notin R
            BY <1>2
      <2>2. ~ (m < n)
            BY <2>1 DEF R
      <2> QED BY <2>1, <2>2
<1> QED BY <1>3

(* ... so one that holds 0 and every successor holds them all. *)
LEMMA EveryNumber ==
    ASSUME NEW S \in SUBSET Nat, 0 \in S, \A n \in S : n + 1 \in S
    PROVE  \A n \in Nat : n \in S
<1> SUFFICES ASSUME NEW k \in Nat, k \notin S PROVE FALSE
    OBVIOUS
<1> DEFINE T == Nat \ S
<1>1. T \in SUBSET Nat /\ T # {}
      OBVIOUS
<1> HIDE DEF T
<1>2. PICK n \in T : \A m \in T : n <= m
      BY <1>1, LeastNumber
<1> USE DEF T
<1>3. n # 0 /\ n - 1 \in Nat /\ n - 1 \notin T
      BY <1>2
<1>4. (n - 1) + 1 \in S
      BY <1>3
<1> QED BY <1>2, <1>4

(* An image of a finite set is finite. *)
LEMMA FiniteImage ==
    ASSUME NEW S, IsFiniteSet(S), NEW f, NEW T, T = {f[x] : x \in S}
    PROVE  IsFiniteSet(T)
<1> DEFINE g == [x \in S |-> f[x]]
<1>1. g \in [S -> T] /\ \A y \in T : \E x \in S : g[x] = y
      OBVIOUS
<1>2. g \in Surjection(S, T)
      BY <1>1 DEF Surjection
<1> QED BY <1>2, FS_Surjection

----------------------------------------------------------------------------
(* The order of tuples.                                                     *)

LEMMA AboveIsTotal ==
    ASSUME NEW s \in [1 .. 4 -> Nat], NEW t \in [1 .. 4 -> Nat], ~ Above(s, t), ~ Above(t, s)
    PROVE  s[1] = t[1] /\ s[2] = t[2] /\ s[3] = t[3] /\ s[4] = t[4]
<1>1. DOMAIN s = 1 .. 4 /\ DOMAIN t = 1 .. 4
      OBVIOUS
<1>2. s[1] = t[1]
      BY <1>1 DEF Above
<1>3. s[2] = t[2]
      BY <1>1, <1>2 DEF Above
<1>4. s[3] = t[3]
      BY <1>1, <1>2, <1>3 DEF Above
<1>5. s[4] = t[4]
      BY <1>1, <1>2, <1>3, <1>4 DEF Above
<1> QED BY <1>2, <1>3, <1>4, <1>5

Ranks == [1 .. 7 -> Nat]

LEMMA AboveIsAnOrder ==
    ASSUME NEW r \in Ranks, NEW s \in Ranks, NEW t \in Ranks
    PROVE  ~ Above(r, r) /\ (Above(r, s) /\ Above(s, t) => Above(r, t))
<1>1. ~ Above(r, r)
      BY DEF Above, Ranks
<1>2. ASSUME Above(r, s), Above(s, t) PROVE Above(r, t)
      <2>1. PICK i \in 1 .. 7 : r[i] > s[i] /\ \A k \in 1 .. i - 1 : r[k] = s[k]
            BY <1>2 DEF Above, Ranks
      <2>2. PICK j \in 1 .. 7 : s[j] > t[j] /\ \A k \in 1 .. j - 1 : s[k] = t[k]
            BY <1>2 DEF Above, Ranks
      <2>3. \A k \in 1 .. 7 : r[k] \in Nat /\ s[k] \in Nat /\ t[k] \in Nat
            BY DEF Ranks
      <2>4. CASE i <= j
            <3>1. r[i] > t[i] /\ \A k \in 1 .. i - 1 : r[k] = t[k]
                  BY <2>1, <2>2, <2>3, <2>4
            <3> QED BY <3>1 DEF Above, Ranks
      <2>5. CASE j < i
            <3>1. r[j] > t[j] /\ \A k \in 1 .. j - 1 : r[k] = t[k]
                  BY <2>1, <2>2, <2>3, <2>5
            <3> QED BY <3>1 DEF Above, Ranks
      <2> QED BY <2>4, <2>5
<1> QED BY <1>1, <1>2

----------------------------------------------------------------------------
(* Decisions.                                                               *)

Verifications == {"pending", "verified", "rejected"}
Freshnesses == {"current", "stale", "unknown", "contradictory", "restricted", "removed"}

(* What is remembered of a parent. *)
Remembered == [resolved : {TRUE}, verification : Verifications, freshness : Freshnesses,
               auth : BOOLEAN]
Parents == {Missing} \cup Remembered

Decisions == [verification : Verifications, freshness : Freshnesses,
              serving : {"eligible", "ineligible"}, cand : BOOLEAN, auth : BOOLEAN,
              review : {"", "same_tier_conflict", "ambiguous_date", "requires_corroboration"}]

Expired(c, now) == c.until # 0 /\ c.until < now

(* The candidate is held back, whatever its type. *)
HeldBack(c, siblings, now) ==
    c.src \notin Blocked /\ ~ Expired(c, now) /\ SameTierConflict(c, siblings)

(* Only a winner is authoritative, what is authoritative is eligible, and  *)
(* a contradiction without a review is the parent's.                       *)
Sound(d) ==
    /\ d \in Decisions
    /\ d.auth => d = Winner
    /\ d.serving = "eligible" <=> d.auth

LEMMA DecisionsAreSound ==
    /\ Sound(Restricted) /\ Sound(Stale) /\ Sound(Contradictory) /\ Sound(AmbiguousDate)
    /\ Sound(Uncorroborated) /\ Sound(Unresolved) /\ Sound(Winner)
    /\ \A p \in Remembered : Sound(IneligibleChild(p))
<1>1. Sound(Restricted)
      BY DEF Sound, Decisions, Verifications, Freshnesses, Decision, Restricted
<1>2. Sound(Stale)
      BY DEF Sound, Decisions, Verifications, Freshnesses, Decision, Stale
<1>3. Sound(Contradictory)
      BY DEF Sound, Decisions, Verifications, Freshnesses, Decision, Contradictory
<1>4. Sound(AmbiguousDate)
      BY DEF Sound, Decisions, Verifications, Freshnesses, Decision, AmbiguousDate
<1>5. Sound(Uncorroborated)
      BY DEF Sound, Decisions, Verifications, Freshnesses, Decision, Uncorroborated
<1>6. Sound(Unresolved)
      BY DEF Sound, Decisions, Verifications, Freshnesses, Decision, Unresolved
<1>7. Sound(Winner)
      BY DEF Sound, Decisions, Verifications, Freshnesses, Decision, Winner
<1>8. ASSUME NEW p \in Remembered PROVE Sound(IneligibleChild(p))
      <2> DEFINE d == IneligibleChild(p)
                 v == IF p.verification = "verified" THEN "verified" ELSE "pending"
                 f == IF p.freshness = "current" THEN "stale" ELSE p.freshness
      <2>1. v \in Verifications /\ f \in Freshnesses
            BY DEF Remembered, Verifications, Freshnesses
      <2>2. d = [verification |-> v, freshness |-> f, serving |-> "ineligible",
                 cand |-> FALSE, auth |-> FALSE, review |-> ""]
            BY DEF IneligibleChild, Decision
      <2> HIDE DEF v, f, d
      <2>3. d \in Decisions /\ d.auth = FALSE /\ d.serving = "ineligible"
            BY <2>1, <2>2 DEF Decisions
      <2> QED BY <2>3 DEF Sound, d
<1> QED BY <1>1, <1>2, <1>3, <1>4, <1>5, <1>6, <1>7, <1>8

(* The rule of a type gives one of the decisions. *)
LEMMA RuleGives ==
    ASSUME NEW c, NEW siblings, NEW p \in Parents
    PROVE  \/ ByType(c, siblings, p) \in {Stale, Uncorroborated, Unresolved, Winner}
           \/ /\ c.type \in ExplicitParent /\ p \in Remembered
              /\ ByType(c, siblings, p) = IneligibleChild(p)
<1>1. LatestOfCycle(c, siblings) \in {Stale, Uncorroborated, Winner}
      BY DEF LatestOfCycle
<1>2. Latest(c, siblings) \in {Stale, Winner}
      BY DEF Latest
<1>3. ASSUME p.resolved PROVE p \in Remembered
      <2>1. ~ Missing.resolved
            BY DEF Missing
      <2> QED BY <1>3, <2>1 DEF Parents
<1>4. ASSUME NEW d
      PROVE  \/ UnderParent(p, d) \in {Unresolved, d}
             \/ p \in Remembered /\ UnderParent(p, d) = IneligibleChild(p)
      <2>1. CASE ~ p.resolved
            BY <2>1 DEF UnderParent
      <2>2. CASE p.resolved
            BY <1>3, <2>2 DEF UnderParent
      <2> QED BY <2>1, <2>2
<1>5. CASE c.type \in CycleAware
      BY <1>1, <1>5 DEF ByType, CycleAware, VersionAware, LatestVersion, ParentDependent,
                        ContextDependent
<1>6. CASE c.type \in VersionAware \cup LatestVersion
      BY <1>2, <1>6 DEF ByType, CycleAware, VersionAware, LatestVersion, ParentDependent,
                        ContextDependent
<1>7. CASE c.type \in ParentDependent
      <2>1. ByType(c, siblings, p) = UnderParent(p, Winner)
            BY <1>7 DEF ByType, CycleAware, VersionAware, LatestVersion, ParentDependent,
                        ContextDependent
      <2> QED BY <1>4, <1>7, <2>1 DEF ExplicitParent
<1>8. CASE c.type \in ContextDependent
      <2>1. ByType(c, siblings, p) = UnderParent(p, Latest(c, siblings))
            BY <1>8 DEF ByType, CycleAware, VersionAware, LatestVersion, ParentDependent,
                        ContextDependent
      <2> QED BY <1>2, <1>4, <1>8, <2>1 DEF ExplicitParent
<1>9. CASE c.type \notin CycleAware \cup VersionAware \cup LatestVersion \cup ExplicitParent
      BY <1>9 DEF ByType, ExplicitParent
<1> QED BY <1>5, <1>6, <1>7, <1>8, <1>9 DEF ExplicitParent

LEMMA ClassifyIs ==
    ASSUME NEW c, NEW siblings, NEW p \in Parents, NEW now,
           NEW d, d = Classify(c, siblings, p, now)
    PROVE  /\ Sound(d)
           /\ HeldBack(c, siblings, now) => d.review # ""
           /\ d.freshness = "contradictory" =>
                  HeldBack(c, siblings, now) \/ c.type \in ExplicitParent
<1> DEFINE r == ByType(c, siblings, p)
<1>1. \/ r \in {Stale, Uncorroborated, Unresolved, Winner}
      \/ c.type \in ExplicitParent /\ p \in Remembered /\ r = IneligibleChild(p)
      BY RuleGives
<1> HIDE DEF r
<1>2. CASE HeldBack(c, siblings, now)
      <2>1. d = Contradictory
            BY <1>2 DEF Classify, HeldBack, Expired
      <2>2. Contradictory.review # ""
            BY DEF Contradictory, Decision
      <2> QED BY <1>2, <2>1, <2>2, DecisionsAreSound
<1>3. CASE ~ HeldBack(c, siblings, now)
      <2>1. d \in {Restricted, Stale, AmbiguousDate} \/ d = r
            BY <1>3 DEF Classify, HeldBack, Expired, r
      <2>2. Sound(d)
            BY <1>1, <2>1, DecisionsAreSound
      <2>3. /\ Restricted.freshness # "contradictory" /\ Stale.freshness # "contradictory"
            /\ AmbiguousDate.freshness # "contradictory" /\ Winner.freshness # "contradictory"
            /\ Uncorroborated.freshness # "contradictory"
            /\ Unresolved.freshness # "contradictory"
            BY DEF Decision, Restricted, Stale, AmbiguousDate, Uncorroborated, Unresolved, Winner
      <2> QED BY <1>1, <1>3, <2>1, <2>2, <2>3
<1> QED BY <1>2, <1>3

(* More siblings contradict more. *)
LEMMA ConflictGrows ==
    ASSUME NEW c, NEW S, NEW T, S \subseteq T, SameTierConflict(c, S)
    PROVE  SameTierConflict(c, T)
BY DEF SameTierConflict, Contradicting, Comparable, OverridesBySpecificity

----------------------------------------------------------------------------
(* Winners.                                                                 *)

LEMMA OnlyWinnersAreAuthoritative ==
    /\ ~ Restricted.auth /\ ~ Stale.auth /\ ~ Contradictory.auth /\ ~ AmbiguousDate.auth
    /\ ~ Uncorroborated.auth /\ ~ Unresolved.auth
    /\ \A p : ~ IneligibleChild(p).auth
BY DEF Decision, Restricted, Stale, Contradictory, AmbiguousDate, Uncorroborated, Unresolved,
       IneligibleChild

(* A winner whose type has winners: nothing comparable ranks above it.     *)
LEMMA WinnerIs ==
    ASSUME NEW c, NEW siblings, NEW p, NEW now, Classify(c, siblings, p, now).auth,
           c.type \notin ParentDependent
    PROVE  /\ ~ SameTierConflict(c, siblings)
           /\ \/ /\ c.type \in CycleAware /\ c.sure
                 /\ \A s \in Comparable(c, siblings) :
                        s.sure => ~ Above(RankCycle(s), RankCycle(c))
              \/ /\ c.type \notin CycleAware
                 /\ \A s \in Comparable(c, siblings) : ~ Above(RankLatest(s), RankLatest(c))
<1> DEFINE r == ByType(c, siblings, p)
<1>1. /\ ~ SameTierConflict(c, siblings) /\ r.auth
      /\ c.type \in CycleAware => c.sure
      BY OnlyWinnersAreAuthoritative DEF Classify
<1>2. CASE c.type \in CycleAware
      <2>1. r = LatestOfCycle(c, siblings)
            BY <1>2 DEF ByType, CycleAware, VersionAware, LatestVersion, ParentDependent,
                        ContextDependent
      <2> HIDE DEF r
      <2>2. ~ \E s \in {t \in Comparable(c, siblings) : t.sure} : Above(RankCycle(s), RankCycle(c))
            BY <1>1, <2>1, OnlyWinnersAreAuthoritative DEF LatestOfCycle
      <2> QED BY <1>1, <1>2, <2>2
<1>3. CASE c.type \notin CycleAware
      <2>1. CASE c.type \in VersionAware \cup LatestVersion
            <3>1. r = Latest(c, siblings)
                  BY <2>1 DEF ByType, CycleAware, VersionAware, LatestVersion, ParentDependent,
                              ContextDependent
            <3> HIDE DEF r
            <3> QED BY <1>1, <1>3, <3>1, OnlyWinnersAreAuthoritative DEF Latest
      <2>2. CASE c.type \in ContextDependent
            <3>1. r = UnderParent(p, Latest(c, siblings))
                  BY <2>2 DEF ByType, CycleAware, VersionAware, LatestVersion, ParentDependent,
                              ContextDependent
            <3> HIDE DEF r
            <3>2. Latest(c, siblings).auth
                  BY <1>1, <3>1, OnlyWinnersAreAuthoritative DEF UnderParent
            <3> QED BY <1>1, <1>3, <3>2, OnlyWinnersAreAuthoritative DEF Latest
      <2>3. CASE c.type \notin VersionAware \cup LatestVersion \cup ContextDependent
            <3>1. r = Unresolved
                  BY <1>3, <2>3 DEF ByType
            <3> QED BY <1>1, <3>1, OnlyWinnersAreAuthoritative
      <2> QED BY <2>1, <2>2, <2>3
<1> QED BY <1>2, <1>3

(* Two winners of one scope, type and cycle have one value. *)
LEMMA WinnersAgree ==
    ASSUME NEW cands, NEW c \in cands, NEW e \in cands, c \in Candidates, e \in Candidates,
           c.ver # e.ver, c.scope = e.scope, c.type = e.type, c.label = e.label,
           c.type \notin ParentDependent, NEW p, NEW q, NEW now,
           Classify(c, Siblings(c, cands), p, now).auth,
           Classify(e, Siblings(e, cands), q, now).auth
    PROVE  c.val = e.val
<1> DEFINE S == Siblings(c, cands)
           T == Siblings(e, cands)
<1>1. e \in S /\ e \in Comparable(c, S) /\ c \in T /\ c \in Comparable(e, T)
      BY DEF Siblings, Comparable
<1> HIDE DEF S, T
<1>2. /\ c.from \in Nat /\ c.fetched \in Nat /\ c.tier \in 1 .. 9 /\ c.ver \in Nat /\ c.rec \in Nat
      /\ e.from \in Nat /\ e.fetched \in Nat /\ e.tier \in 1 .. 9 /\ e.ver \in Nat /\ e.rec \in Nat
      /\ c.spec \in Nat /\ e.spec \in Nat
      BY DEF Candidates
<1>3. Authority(c) \in Nat /\ Authority(e) \in Nat /\ (Authority(c) = Authority(e) => c.tier = e.tier)
      BY <1>2 DEF Authority
<1>4. ~ SameTierConflict(c, S) /\ ~ SameTierConflict(e, T)
      BY WinnerIs DEF S, T
<1>5. CASE c.type \in CycleAware
      <2>1. c.sure /\ e.sure
            BY <1>5, WinnerIs
      <2>2. ~ Above(RankCycle(e), RankCycle(c)) /\ ~ Above(RankCycle(c), RankCycle(e))
            BY <1>1, <1>5, <2>1, WinnerIs DEF S, T
      <2>3. c.from = e.from /\ c.fetched = e.fetched /\ c.tier = e.tier
            <3>1. RankCycle(c) \in [1 .. 4 -> Nat] /\ RankCycle(e) \in [1 .. 4 -> Nat]
                  BY <1>2, <1>3 DEF RankCycle
            <3>2. /\ RankCycle(c)[1] = RankCycle(e)[1] /\ RankCycle(c)[2] = RankCycle(e)[2]
                  /\ RankCycle(c)[3] = RankCycle(e)[3]
                  BY <2>2, <3>1, AboveIsTotal
            <3> QED BY <1>3, <3>2 DEF RankCycle
      <2> SUFFICES ASSUME c.val # e.val PROVE FALSE
          OBVIOUS
      <2>4. e \in Contradicting(c, S) /\ c \in Contradicting(e, T)
            BY <1>1, <1>5, <2>3 DEF Contradicting, SameValue, CycleAware, NonContradictory,
                                    LatestVersion
      <2>5. OverridesBySpecificity(c, Contradicting(c, S)) /\ OverridesBySpecificity(e, Contradicting(e, T))
            BY <1>4, <2>4 DEF SameTierConflict
      <2>6. Above(SubSeq(RankLatest(c), 1, 3), SubSeq(RankLatest(e), 1, 3))
            BY <1>2, <2>4, <2>5 DEF OverridesBySpecificity
      <2>7. \A i \in 1 .. 3 : SubSeq(RankLatest(c), 1, 3)[i] = SubSeq(RankLatest(e), 1, 3)[i]
            BY <2>3 DEF RankLatest, Authority
      <2>8. /\ DOMAIN SubSeq(RankLatest(c), 1, 3) = 1 .. 3
            /\ \A i \in 1 .. 3 : SubSeq(RankLatest(c), 1, 3)[i] \in Nat
            BY <1>2, <1>3 DEF RankLatest
      <2> HIDE DEF RankLatest
      <2> QED BY <2>6, <2>7, <2>8 DEF Above
<1>6. CASE c.type \notin CycleAware
      <2>1. ~ Above(RankLatest(e), RankLatest(c)) /\ ~ Above(RankLatest(c), RankLatest(e))
            BY <1>1, <1>6, WinnerIs DEF S, T
      <2>2. RankLatest(c) \in [1 .. 4 -> Nat] /\ RankLatest(e) \in [1 .. 4 -> Nat]
            BY <1>2, <1>3 DEF RankLatest
      <2>3. RankLatest(c)[4] = RankLatest(e)[4]
            BY <2>1, <2>2, AboveIsTotal
      <2> QED BY <2>3 DEF RankLatest
<1> QED BY <1>5, <1>6

----------------------------------------------------------------------------
(* Parents.                                                                 *)

Entries == [ver : Nat, rec : Nat, src : Nat, rank : Ranks, state : Remembered]

LEMMA PoolIs ==
    ASSUME pool \in Pools
    PROVE  /\ IsFiniteSet(DOMAIN pool)
           /\ \A v \in DOMAIN pool : pool[v] \in Candidates /\ pool[v].ver = v /\ v \in Nat
<1>1. \A v \in DOMAIN pool : pool[v] \in Candidates /\ pool[v].ver = v
      BY PoolsAssumption
<1>2. \A v \in DOMAIN pool : pool[v].ver \in Nat
      BY <1>1 DEF Candidates
<1> QED BY <1>1, <1>2, PoolsAssumption

LEMMA FetchedIs ==
    ASSUME pool \in Pools, NEW v \in DOMAIN pool, NEW t \in Nat,
           NEW c, c = Fetched(v, t)
    PROVE  /\ c \in Candidates /\ c.ver = v /\ c.fetched = t
           /\ c.scope = pool[v].scope /\ c.type = pool[v].type
           /\ c.label = pool[v].label /\ c.val = pool[v].val
<1>1. pool[v] \in Candidates /\ pool[v].ver = v
      BY PoolIs
<1>2. c = [pool[v] EXCEPT !.fetched = t]
      BY DEF Fetched
<1> QED BY <1>1, <1>2 DEF Candidates

LEMMA EntryIs ==
    ASSUME NEW c \in Candidates, NEW s, s.verification \in Verifications,
           s.freshness \in Freshnesses, s.auth \in BOOLEAN, NEW first \in BOOLEAN
    PROVE  Entry(c, s, first) \in Entries
<1>1. \A b : Bit(b) \in Nat
      BY DEF Bit
<1>2. c.ver \in Nat /\ c.rec \in Nat /\ c.src \in Nat /\ c.fetched \in Nat
      BY DEF Candidates
<1>3. <<Bit(s.auth), Bit(s.verification = "verified"), Bit(s.freshness = "current"),
        Bit(s.serving \in Queryable), c.fetched, c.ver, Bit(first)>> \in Ranks
      BY <1>1, <1>2 DEF Ranks
<1>4. [resolved |-> TRUE, verification |-> s.verification,
       freshness |-> s.freshness, auth |-> s.auth] \in Remembered
      BY DEF Remembered
<1> QED BY <1>2, <1>3, <1>4 DEF Entry, Entries

(* Of finitely many entries one has the best rank: the one with the fewest *)
(* above it.                                                               *)
LEMMA BestIs ==
    ASSUME NEW E \in SUBSET Entries, IsFiniteSet(E)
    PROVE  Best(E) \in Parents
<1> DEFINE Over(e) == {f \in E : Above(f.rank, e.rank)}
           N == {Cardinality(Over(e)) : e \in E}
<1>1. CASE E = {}
      BY <1>1 DEF Best, Parents
<1>2. CASE E # {}
      <2>1. \A e \in E : IsFiniteSet(Over(e)) /\ Cardinality(Over(e)) \in Nat
            BY FS_Subset, FS_CardinalityType
      <2>2. N \in SUBSET Nat /\ N # {}
            BY <1>2, <2>1
      <2>3. PICK k \in N : \A m \in N : k <= m
            <3> HIDE DEF N
            <3> QED BY <2>2, LeastNumber
      <2>4. PICK e \in E : k = Cardinality(Over(e))
            OBVIOUS
      <2>5. ASSUME NEW f \in E, Above(f.rank, e.rank) PROVE FALSE
            <3>1. Over(f) \in SUBSET Over(e) /\ f \in Over(e) /\ f \notin Over(f)
                  BY <2>5, AboveIsAnOrder DEF Entries
            <3>2. /\ Cardinality(Over(f)) <= Cardinality(Over(e))
                  /\ Cardinality(Over(e)) = Cardinality(Over(f)) => Over(e) = Over(f)
                  BY <2>1, <3>1, FS_Subset
            <3>3. Cardinality(Over(e)) <= Cardinality(Over(f))
                  BY <2>3, <2>4
            <3>4. Cardinality(Over(f)) \in Nat /\ Cardinality(Over(e)) \in Nat
                  BY <2>1
            <3> HIDE DEF Over
            <3> QED BY <3>1, <3>2, <3>3, <3>4
      <2>6. \E d \in E : \A f \in E : ~ Above(f.rank, d.rank)
            BY <2>5
      <2>7. \E d \in E : Best(E) = d.state
            BY <1>2, <2>6 DEF Best
      <2> QED BY <2>7 DEF Entries, Parents
<1> QED BY <1>1, <1>2

LEMMA ParentOfIs ==
    ASSUME NEW c, NEW E \in SUBSET Entries, IsFiniteSet(E)
    PROVE  ParentOf(c, E) \in Parents
<1>1. \A F \in SUBSET E : Best(F) \in Parents
      BY FS_Subset, BestIs
<1>2. Missing \in Parents
      BY DEF Parents
<1> QED BY <1>1, <1>2 DEF ParentOf

(* What the lookups of a transaction read: the rows, as the session has them. *)
Read(rs) ==
    /\ pool \in Pools /\ Stored \subseteq DOMAIN pool
    /\ \A v \in Stored : rows[v] \in Row /\ rs[v] \in Row

LEMMA ParentRowsIs ==
    ASSUME NEW rs, Read(rs), NEW cands, NEW first \in BOOLEAN,
           NEW E, E = ParentRows(cands, rs, first)
    PROVE  E \in SUBSET Entries /\ IsFiniteSet(E)
<1> DEFINE V == {w \in Stored : \E c \in cands : pool[w].rec = c.parent \/ pool[w].src = c.parentSrc}
           f == [v \in V |-> Entry(Candidate(v), rs[v], first)]
<1>1. ASSUME NEW v \in Stored PROVE Entry(Candidate(v), rs[v], first) \in Entries
      <2>1. v \in DOMAIN pool /\ rows[v].fetched \in Nat
            BY DEF Read, Row
      <2>2. Candidate(v) \in Candidates
            BY <2>1, FetchedIs DEF Read, Candidate
      <2>3. /\ rs[v].verification \in Verifications /\ rs[v].freshness \in Freshnesses
            /\ rs[v].auth \in BOOLEAN
            BY DEF Read, Row, Verifications, Freshnesses
      <2> QED BY <2>2, <2>3, EntryIs
<1>2. V \in SUBSET Stored /\ IsFiniteSet(Stored)
      BY PoolIs, FS_Subset DEF Read
<1>3. IsFiniteSet(V)
      BY <1>2, FS_Subset
<1>4. E = {Entry(Candidate(v), rs[v], first) : v \in V}
      BY DEF ParentRows
<1> HIDE DEF V
<1>5. E = {f[v] : v \in V}
      BY <1>4
<1> HIDE DEF f
<1>6. IsFiniteSet(E)
      BY <1>3, <1>5, FiniteImage
<1> QED BY <1>1, <1>2, <1>4, <1>6

LEMMA BaseDecisionsIs ==
    ASSUME NEW rs, Read(rs), NEW cands \in SUBSET Candidates, IsFiniteSet(cands), NEW now,
           NEW E, E = BaseDecisions(cands, rs, now)
    PROVE  E \in SUBSET Entries /\ IsFiniteSet(E)
<1> DEFINE Remember(c, p) == Entry(c, Classify(c, Siblings(c, cands), p, now), FALSE)
           children == {c \in cands : c.type \in ExplicitParent}
           stored == ParentRows(cands, rs, TRUE)
           Earlier(c) == {d \in children : Above(ResolutionOrder(c), ResolutionOrder(d))}
           K == Cardinality(children)
           A == {Remember(c, Missing) : c \in cands \ children}
           Next(n) == {c \in children : Cardinality(Earlier(c)) = n - 1}
           Step(n, done) == done \cup {Remember(c, ParentOf(c, stored \cup done)) : c \in Next(n)}
           remembered[n \in 0 .. K] == IF n = 0 THEN A ELSE Step(n, remembered[n - 1])
           all == remembered[K]
<1>1. E = {e \in all : \A f \in all : f.ver = e.ver => f.rank[5] <= e.rank[5]}
      BY DEF BaseDecisions
<1>2. K \in Nat /\ IsFiniteSet(children) /\ IsFiniteSet(cands \ children)
      BY FS_Subset, FS_CardinalityType
<1>3. stored \in SUBSET Entries /\ IsFiniteSet(stored)
      BY ParentRowsIs
<1>4. ASSUME NEW c \in cands, NEW p \in Parents PROVE Remember(c, p) \in Entries
      <2> DEFINE d == Classify(c, Siblings(c, cands), p, now)
      <2>1. d \in Decisions
            BY ClassifyIs DEF Sound
      <2> HIDE DEF d
      <2>2. d.verification \in Verifications /\ d.freshness \in Freshnesses /\ d.auth \in BOOLEAN
            BY <2>1 DEF Decisions
      <2>3. Entry(c, d, FALSE) \in Entries
            BY <2>2, EntryIs
      <2> QED BY <2>3 DEF d
<1> HIDE DEF stored, Remember
<1>5. A \in SUBSET Entries /\ IsFiniteSet(A)
      <2> DEFINE f == [c \in cands \ children |-> Remember(c, Missing)]
      <2>1. A \in SUBSET Entries
            BY <1>4 DEF Parents
      <2>2. A = {f[c] : c \in cands \ children}
            OBVIOUS
      <2> HIDE DEF f, A, children
      <2> QED BY <1>2, <2>1, <2>2, FiniteImage
<1>6. ASSUME NEW n, NEW done \in SUBSET Entries, IsFiniteSet(done)
      PROVE  Step(n, done) \in SUBSET Entries /\ IsFiniteSet(Step(n, done))
      <2> DEFINE f == [c \in Next(n) |-> Remember(c, ParentOf(c, stored \cup done))]
                 new == {Remember(c, ParentOf(c, stored \cup done)) : c \in Next(n)}
      <2>1. stored \cup done \in SUBSET Entries /\ IsFiniteSet(stored \cup done)
            BY <1>3, <1>6, FS_Union
      <2>2. \A c : ParentOf(c, stored \cup done) \in Parents
            BY <2>1, ParentOfIs
      <2>3. new \in SUBSET Entries
            BY <1>4, <2>2
      <2>4. IsFiniteSet(Next(n))
            BY <1>2, FS_Subset
      <2>5. new = {f[c] : c \in Next(n)}
            OBVIOUS
      <2>6. Step(n, done) = done \cup new
            OBVIOUS
      <2> HIDE DEF f, new, Next, Step
      <2>7. IsFiniteSet(new)
            BY <2>4, <2>5, FiniteImage
      <2> QED BY <1>6, <2>3, <2>6, <2>7, FS_Union
<1> HIDE DEF A, Step
<1> DEFINE Upto(k) == \E g : g = [n \in 0 .. k |-> IF n = 0 THEN A ELSE Step(n, g[n - 1])]
           S == {k \in Nat : Upto(k)}
<1>7. 0 \in S
      <2> DEFINE g == [n \in 0 .. 0 |-> A]
      <2>1. g = [n \in 0 .. 0 |-> IF n = 0 THEN A ELSE Step(n, g[n - 1])]
            OBVIOUS
      <2> HIDE DEF g
      <2> QED BY <2>1
<1>8. ASSUME NEW k \in S PROVE k + 1 \in S
      <2>1. PICK g : g = [n \in 0 .. k |-> IF n = 0 THEN A ELSE Step(n, g[n - 1])]
            OBVIOUS
      <2> DEFINE h == [n \in 0 .. k + 1 |-> IF n = k + 1 THEN Step(n, g[k]) ELSE g[n]]
                 hh == [n \in 0 .. k + 1 |-> IF n = 0 THEN A ELSE Step(n, h[n - 1])]
      <2>2. k \in Nat
            OBVIOUS
      <2>3. ASSUME NEW n \in 0 .. k + 1 PROVE h[n] = hh[n]
            <3>1. CASE n = 0
                  BY <2>1, <2>2, <3>1
            <3>2. CASE n = k + 1
                  <4>1. h[n] = Step(n, g[k]) /\ h[n - 1] = g[k] /\ n # 0
                        BY <2>2, <3>2
                  <4> QED BY <4>1
            <3>3. CASE n # 0 /\ n # k + 1
                  <4>1. n \in 0 .. k /\ n - 1 \in 0 .. k /\ h[n] = g[n] /\ h[n - 1] = g[n - 1]
                        BY <2>2, <3>3
                  <4>2. g[n] = Step(n, g[n - 1])
                        BY <2>1, <3>3, <4>1
                  <4> QED BY <3>3, <4>1, <4>2
            <3> QED BY <3>1, <3>2, <3>3
      <2>4. h = hh
            BY <2>3
      <2>5. h = [n \in 0 .. k + 1 |-> IF n = 0 THEN A ELSE Step(n, h[n - 1])]
            BY <2>4
      <2> HIDE DEF h, hh
      <2> QED BY <2>2, <2>5
<1>9. Upto(K)
      <2>1. \A k \in Nat : k \in S
            <3> HIDE DEF S
            <3>1. S \in SUBSET Nat
                  BY DEF S
            <3> QED BY <1>7, <1>8, <3>1, EveryNumber
      <2> QED BY <1>2, <2>1
<1>10. remembered = [n \in 0 .. K |-> IF n = 0 THEN A ELSE Step(n, remembered[n - 1])]
      BY <1>9
<1> HIDE DEF remembered, S, K
<1> DEFINE T == {k \in Nat : k <= K => remembered[k] \in SUBSET Entries /\ IsFiniteSet(remembered[k])}
<1>11. 0 \in T
      <2>1. remembered[0] = A
            BY <1>2, <1>10
      <2> QED BY <1>5, <2>1
<1>12. ASSUME NEW k \in T PROVE k + 1 \in T
      <2>1. k \in Nat /\ k + 1 \in Nat
            OBVIOUS
      <2>2. ASSUME k + 1 <= K
            PROVE  remembered[k + 1] \in SUBSET Entries /\ IsFiniteSet(remembered[k + 1])
            <3>1. remembered[k + 1] = Step(k + 1, remembered[k])
                  BY <1>2, <1>10, <2>1, <2>2
            <3>2. remembered[k] \in SUBSET Entries /\ IsFiniteSet(remembered[k])
                  BY <1>2, <2>1, <2>2
            <3> QED BY <1>6, <3>1, <3>2
      <2> QED BY <2>1, <2>2
<1>13. remembered[K] \in SUBSET Entries /\ IsFiniteSet(remembered[K])
      <2>1. \A k \in Nat : k \in T
            <3> HIDE DEF T
            <3>1. T \in SUBSET Nat
                  BY DEF T
            <3> QED BY <1>11, <1>12, <3>1, EveryNumber
      <2> QED BY <1>2, <2>1
<1>14. E \in SUBSET all
      BY <1>1
<1> QED BY <1>13, <1>14, FS_Subset

LEMMA LookupIs ==
    ASSUME NEW rs, Read(rs), NEW cands, NEW base \in SUBSET Entries, IsFiniteSet(base),
           NEW E, E = ParentLookup(cands, base, rs)
    PROVE  E \in SUBSET Entries /\ IsFiniteSet(E)
<1> DEFINE f == [e \in base |-> [e EXCEPT !.rank[7] = 1]]
           first == {f[e] : e \in base}
           read == ParentRows(cands, rs, FALSE)
<1>1. read \in SUBSET Entries /\ IsFiniteSet(read)
      BY ParentRowsIs
<1>2. E = first \cup read
      BY DEF ParentLookup
<1>3. first \in SUBSET Entries
      BY DEF Entries, Ranks
<1>4. IsFiniteSet(first)
      <2> HIDE DEF f
      <2> QED BY FiniteImage
<1> HIDE DEF first, read
<1> QED BY <1>1, <1>2, <1>3, <1>4, FS_Union

----------------------------------------------------------------------------
(* The invariant.                                                           *)

HasEvent(v) == v \in pending \cup DOMAIN resolved

(* What is authoritative is current; what queries may see is authoritative. *)
SoundRow(row) ==
    /\ row \in Row
    /\ row.auth => /\ row.verification = "verified" /\ row.freshness = "current"
                   /\ row.serving \in Queryable \cup {"deindexed"}
    /\ row.serving \in Queryable => row.auth

RowsAreSound == \A v \in Stored : SoundRow(rows[v]) /\ rows[v].fetched <= today

(* Whoever contradicts another stored record of its scope has a review     *)
(* event, also after a review: a recomputation that lets the contradiction *)
(* through creates no event.                                               *)
StoredCandidates == {Candidate(v) : v \in Stored}

ConflictsAreReviewed ==
    \A v \in Stored :
        HeldBack(Candidate(v), Siblings(Candidate(v), StoredCandidates), today) => HasEvent(v)

RecordsInv ==
    /\ pool \in Pools
    /\ RecordsTypeOK
    /\ RowsAreSound
    /\ OneCurrentValue
    /\ HeldBackIsReviewed
    /\ ConflictsAreReviewed

----------------------------------------------------------------------------
(* What the operations make of a row.                                       *)

LEMMA WinnerHas ==
    /\ Winner.verification = "verified" /\ Winner.freshness = "current"
    /\ Winner.serving = "eligible"
BY DEF Winner, Decision

LEMMA FromDecisionIs ==
    ASSUME NEW d, Sound(d), NEW t \in Nat, NEW r, r = FromDecision(d, t)
    PROVE  SoundRow(r) /\ r.auth = d.auth /\ r.freshness = d.freshness /\ r.fetched = t
<1>1. r = [verification |-> d.verification, freshness |-> d.freshness, serving |-> d.serving,
           cand |-> d.cand, auth |-> d.auth, fetched |-> t]
      BY DEF FromDecision
<1>2. d \in Decisions
      BY DEF Sound
<1>3. r \in Row
      <2>1. /\ d.verification \in Verifications /\ d.freshness \in Freshnesses
            /\ d.serving \in {"eligible", "ineligible"} /\ d.cand \in BOOLEAN /\ d.auth \in BOOLEAN
            BY <1>2 DEF Decisions
      <2> QED BY <1>1, <2>1 DEF Row, Queryable, Verifications, Freshnesses
<1>4. d.auth => d.verification = "verified" /\ d.freshness = "current" /\ d.serving = "eligible"
      BY WinnerHas DEF Sound
<1>5. d.serving \in {"eligible", "ineligible"} /\ (d.serving = "eligible" <=> d.auth)
      BY <1>2 DEF Sound, Decisions
<1> QED BY <1>1, <1>3, <1>4, <1>5 DEF SoundRow, Queryable

LEMMA ApplyIs ==
    ASSUME NEW row, SoundRow(row), NEW d, Sound(d), NEW r, r = Apply(row, d)
    PROVE  SoundRow(r) /\ r.auth = d.auth /\ r.freshness = d.freshness /\ r.fetched = row.fetched
<1> DEFINE q == FromDecision(d, row.fetched)
<1>1. row.fetched \in Nat
      BY DEF SoundRow, Row
<1>2. /\ SoundRow(q) /\ q.auth = d.auth /\ q.freshness = d.freshness /\ q.fetched = row.fetched
      BY <1>1, FromDecisionIs
<1>3. q.serving = d.serving
      BY DEF FromDecision
<1>4. r = [q EXCEPT !.serving = IF row.serving = "indexed_active" /\ ~ d.auth
                                THEN "pending_deindex" ELSE d.serving]
      BY DEF Apply
<1> HIDE DEF q
<1>5. CASE row.serving = "indexed_active" /\ ~ d.auth
      BY <1>2, <1>4, <1>5 DEF SoundRow, Row, Queryable
<1>6. CASE ~ (row.serving = "indexed_active" /\ ~ d.auth)
      <2>1. r = q
            BY <1>2, <1>3, <1>4, <1>6 DEF SoundRow, Row
      <2> QED BY <1>2, <2>1
<1> QED BY <1>5, <1>6

LEMMA FailClosedIs ==
    ASSUME NEW row, SoundRow(row), NEW r, r = FailClosed(row)
    PROVE  /\ SoundRow(r) /\ ~ r.auth /\ r.serving \notin Queryable
           /\ r.freshness = row.freshness /\ r.fetched = row.fetched
BY DEF FailClosed, SoundRow, Row, Queryable

LEMMA SupersedeIs ==
    ASSUME NEW row, SoundRow(row), NEW r, r = Supersede(row)
    PROVE  /\ SoundRow(r) /\ ~ r.auth /\ r.serving \notin Queryable
           /\ r.freshness = row.freshness /\ r.fetched = row.fetched
BY DEF Supersede, SoundRow, Row, Queryable

LEMMA LinkIs ==
    ASSUME NEW v, NEW row, SoundRow(row), NEW winners, NEW r, r = LinkSuperseded(v, row, winners)
    PROVE  /\ SoundRow(r) /\ (r.auth => row.auth) /\ r.freshness = row.freshness
           /\ r.fetched = row.fetched
           /\ row.serving \notin Queryable => r.serving \notin Queryable
<1>1. r \in {row, Supersede(row)}
      BY DEF LinkSuperseded
<1>2. CASE r = row
      BY <1>2
<1>3. CASE r = Supersede(row)
      BY <1>3, SupersedeIs
<1> QED BY <1>1, <1>2, <1>3

LEMMA UpsertedIs ==
    ASSUME NEW v, v \in Stored => SoundRow(rows[v]), NEW d, Sound(d), NEW batch,
           v \notin Stored => v \in batch,
           NEW failClosed, NEW now \in Nat, NEW r, r = Upserted(v, d, batch, failClosed, now)
    PROVE  /\ SoundRow(r) /\ (r.auth => d.auth) /\ r.freshness = d.freshness
           /\ r.fetched = IF v \in batch THEN now ELSE rows[v].fetched
           /\ v \notin batch /\ pool[v].scope \in failClosed =>
                  ~ r.auth /\ r.serving \notin Queryable
<1>1. CASE v \notin Stored
      <2>1. r = FromDecision(d, now) /\ v \in batch
            BY <1>1 DEF Upserted
      <2> QED BY <2>1, FromDecisionIs
<1>2. CASE v \in Stored /\ v \in batch
      <2> DEFINE a == Apply(rows[v], d)
                 b == Apply(a, d)
      <2>1. SoundRow(a)
            BY <1>2, ApplyIs
      <2>2. SoundRow(b) /\ b.auth = d.auth /\ b.freshness = d.freshness
            BY <2>1, ApplyIs
      <2>3. r = [b EXCEPT !.fetched = now]
            BY <1>2 DEF Upserted
      <2> HIDE DEF b
      <2> QED BY <1>2, <2>2, <2>3 DEF SoundRow, Row
<1>3. CASE v \in Stored /\ v \notin batch
      <2> DEFINE a == Apply(rows[v], d)
      <2>1. SoundRow(a) /\ a.auth = d.auth /\ a.freshness = d.freshness /\ a.fetched = rows[v].fetched
            BY <1>3, ApplyIs
      <2>2. CASE pool[v].scope \in failClosed
            <3>1. r = FailClosed(a)
                  BY <1>3, <2>2 DEF Upserted
            <3> HIDE DEF a
            <3> QED BY <1>3, <2>1, <3>1, FailClosedIs
      <2>3. CASE pool[v].scope \notin failClosed
            <3>1. r = a
                  BY <1>3, <2>3 DEF Upserted
            <3> QED BY <1>3, <2>1, <2>3, <3>1
      <2> QED BY <2>2, <2>3
<1> QED BY <1>1, <1>2, <1>3

LEMMA RecomputedIs ==
    ASSUME NEW row, SoundRow(row), NEW d, Sound(d), NEW r, r = ApplyRecomputed(row, d)
    PROVE  /\ SoundRow(r) /\ r.auth = d.auth /\ r.freshness = d.freshness
           /\ r.fetched = row.fetched /\ r.verification = d.verification
<1> DEFINE q == FromDecision(d, row.fetched)
<1>1. row.fetched \in Nat
      BY DEF SoundRow, Row
<1>2. /\ SoundRow(q) /\ q.auth = d.auth /\ q.freshness = d.freshness /\ q.fetched = row.fetched
      BY <1>1, FromDecisionIs
<1>3. q.verification = d.verification
      BY DEF FromDecision
<1>4. CanEnterServing(d) => d.auth
      BY DEF CanEnterServing
<1>5. d.auth => CanEnterServing(d)
      BY WinnerHas DEF CanEnterServing, Sound
<1>6. r = [q EXCEPT !.serving =
              IF CanEnterServing(d)
              THEN IF row.serving = "indexed_active" THEN "indexed_active" ELSE "pending_index"
              ELSE IF row.serving \in {"indexed_active", "pending_deindex"}
                   THEN "pending_deindex" ELSE "ineligible"]
      BY DEF ApplyRecomputed
<1> HIDE DEF q
<1> QED BY <1>2, <1>3, <1>4, <1>5, <1>6 DEF SoundRow, Row, Queryable

LEMMA RejectedIs ==
    ASSUME NEW d, Sound(d), NEW r, r = RejectedBy(d)
    PROVE  Sound(r) /\ ~ r.auth /\ r.freshness = d.freshness /\ r.verification = "rejected"
BY DEF Sound, RejectedBy, Decisions, Verifications

----------------------------------------------------------------------------
(* A crawl.                                                                 *)

(* The candidates of a crawl, and the one of each version that decides.    *)
Judged(batch, existing, now) ==
    {Candidate(v) : v \in existing} \cup {Fetched(v, now) : v \in batch}

Deciding(v, batch, now) == IF v \in batch THEN Fetched(v, now) ELSE Candidate(v)

LEMMA DecidingIs ==
    ASSUME Read(rows), NEW batch \in SUBSET DOMAIN pool, NEW existing \in SUBSET Stored,
           NEW now \in Nat, NEW v \in existing \cup batch, NEW c, c = Deciding(v, batch, now)
    PROVE  /\ c \in Judged(batch, existing, now) /\ c \in Candidates /\ c.ver = v
           /\ v \in batch => c.fetched = now
           /\ c.scope = pool[v].scope /\ c.type = pool[v].type
           /\ c.label = pool[v].label /\ c.val = pool[v].val
<1>1. pool \in Pools /\ v \in DOMAIN pool /\ (v \in Stored => rows[v].fetched \in Nat)
      BY DEF Read, Row
<1>2. CASE v \in batch
      <2>1. c = Fetched(v, now)
            BY <1>2 DEF Deciding
      <2> QED BY <1>1, <1>2, <2>1, FetchedIs DEF Judged
<1>3. CASE v \notin batch
      <2>1. c = Candidate(v) /\ v \in Stored /\ v \in existing
            BY <1>3 DEF Deciding
      <2>2. c = Fetched(v, rows[v].fetched)
            BY <2>1 DEF Candidate
      <2>3. c \in Judged(batch, existing, now)
            BY <2>1 DEF Judged
      <2> QED BY <1>1, <1>3, <2>1, <2>2, <2>3, FetchedIs
<1> QED BY <1>2, <1>3

LEMMA JudgedIs ==
    ASSUME Read(rows), NEW batch \in SUBSET DOMAIN pool, NEW existing \in SUBSET Stored,
           NEW now \in Nat, NEW c \in Judged(batch, existing, now),
           c.ver \in batch => c.fetched = now
    PROVE  c.ver \in existing \cup batch /\ c = Deciding(c.ver, batch, now)
<1>1. pool \in Pools /\ \A v \in Stored : v \in DOMAIN pool /\ rows[v].fetched \in Nat
      BY DEF Read, Row
<1>2. CASE \E v \in batch : c = Fetched(v, now)
      <2>1. PICK v \in batch : c = Fetched(v, now)
            BY <1>2
      <2>2. c.ver = v
            BY <1>1, <2>1, FetchedIs
      <2> QED BY <2>1, <2>2 DEF Deciding
<1>3. CASE \E v \in existing : c = Candidate(v)
      <2>1. PICK v \in existing : c = Candidate(v)
            BY <1>3
      <2>2. c = Fetched(v, rows[v].fetched)
            BY <2>1 DEF Candidate
      <2>3. c.ver = v /\ c.fetched = rows[v].fetched
            BY <1>1, <2>1, <2>2, FetchedIs
      <2>4. v \in batch => c = Fetched(v, now)
            BY <2>2, <2>3
      <2> QED BY <2>1, <2>3, <2>4 DEF Deciding
<1> QED BY <1>2, <1>3 DEF Judged

LEMMA JudgedIsFinite ==
    ASSUME Read(rows), NEW batch \in SUBSET DOMAIN pool, NEW existing \in SUBSET Stored,
           NEW now \in Nat
    PROVE  /\ Judged(batch, existing, now) \in SUBSET Candidates
           /\ IsFiniteSet(Judged(batch, existing, now))
<1> DEFINE f == [v \in existing |-> Candidate(v)]
           g == [v \in batch |-> Fetched(v, now)]
           F == {f[v] : v \in existing}
           G == {g[v] : v \in batch}
<1>1. \A v \in Stored : v \in DOMAIN pool /\ rows[v].fetched \in Nat
      BY DEF Read, Row
<1>2. pool \in Pools
      BY DEF Read
<1>3. Judged(batch, existing, now) = F \cup G
      BY DEF Judged
<1>4. F \in SUBSET Candidates /\ G \in SUBSET Candidates
      BY <1>1, <1>2, FetchedIs DEF Candidate
<1>5. IsFiniteSet(existing) /\ IsFiniteSet(batch)
      <2>1. existing \in SUBSET DOMAIN pool
            BY <1>1
      <2> QED BY <1>2, <2>1, PoolIs, FS_Subset
<1> HIDE DEF f, g
<1>6. IsFiniteSet(F) /\ IsFiniteSet(G)
      BY <1>5, FiniteImage
<1> HIDE DEF F, G
<1> QED BY <1>3, <1>4, <1>6, FS_Union

(* One decision for every version of the scopes, and none for another. *)
OneEach(decided, batch, existing, now) ==
    /\ \A x \in decided :
           /\ x.ver \in existing \cup batch
           /\ \E p \in Parents : x.decision =
                  Classify(Deciding(x.ver, batch, now),
                           Siblings(Deciding(x.ver, batch, now), Judged(batch, existing, now)),
                           p, now)
    /\ \A v \in existing \cup batch : \E x \in decided : x.ver = v
    /\ \A x, y \in decided : x.ver = y.ver => x = y

LEMMA DecidedIs ==
    ASSUME Read(rows), NEW batch \in SUBSET DOMAIN pool, NEW existing \in SUBSET Stored,
           NEW now \in Nat, NEW decided, decided = Decided(batch, existing, now)
    PROVE  OneEach(decided, batch, existing, now)
<1> DEFINE cands == Judged(batch, existing, now)
           base == BaseDecisions(cands, rows, now)
           lookup == ParentLookup(cands, base, rows)
           C == {e \in cands : e.ver \in batch => e.fetched = now}
           Item(c) == [ver |-> c.ver,
                       decision |-> Classify(c, Siblings(c, cands), ParentOf(c, lookup), now)]
<1>1. decided = {Item(c) : c \in C}
      BY DEF Decided, Judged
<1>2. cands \in SUBSET Candidates /\ IsFiniteSet(cands)
      BY JudgedIsFinite
<1> HIDE DEF cands
<1>3. base \in SUBSET Entries /\ IsFiniteSet(base)
      BY <1>2, BaseDecisionsIs
<1> HIDE DEF base
<1>4. lookup \in SUBSET Entries /\ IsFiniteSet(lookup)
      BY <1>3, LookupIs
<1> HIDE DEF lookup
<1>5. \A c : ParentOf(c, lookup) \in Parents
      BY <1>4, ParentOfIs
<1>6. ASSUME NEW c \in C
      PROVE  c.ver \in existing \cup batch /\ c = Deciding(c.ver, batch, now)
      BY JudgedIs DEF cands
<1>7. ASSUME NEW v \in existing \cup batch
      PROVE  Deciding(v, batch, now) \in C /\ Deciding(v, batch, now).ver = v
      <2> DEFINE c == Deciding(v, batch, now)
      <2>1. c \in Judged(batch, existing, now) /\ c.ver = v /\ (v \in batch => c.fetched = now)
            BY DecidingIs
      <2> HIDE DEF c
      <2>2. c \in C
            BY <2>1 DEF cands
      <2> QED BY <2>1, <2>2 DEF c
<1> HIDE DEF C
<1>8. \A c \in C : Item(c).ver = c.ver /\ Item(c).decision = Classify(c, Siblings(c, cands), ParentOf(c, lookup), now)
      OBVIOUS
<1> HIDE DEF Item
<1>9. \A v \in existing \cup batch : \E x \in decided : x.ver = v
      BY <1>1, <1>7, <1>8
<1>10. \A x, y \in decided : x.ver = y.ver => x = y
      <2> SUFFICES ASSUME NEW c \in C, NEW e \in C, c.ver = e.ver PROVE c = e
          BY <1>1, <1>8
      <2> QED BY <1>6
<1>11. ASSUME NEW x \in decided
       PROVE  /\ x.ver \in existing \cup batch
              /\ \E p \in Parents : x.decision =
                     Classify(Deciding(x.ver, batch, now),
                              Siblings(Deciding(x.ver, batch, now), cands), p, now)
      <2>1. PICK c \in C : x = Item(c)
            BY <1>1
      <2>2. c = Deciding(x.ver, batch, now) /\ x.ver \in existing \cup batch
            BY <1>6, <1>8, <2>1
      <2>3. x.decision = Classify(c, Siblings(c, cands), ParentOf(c, lookup), now)
            BY <1>8, <2>1
      <2> QED BY <1>5, <2>2, <2>3
<1> QED BY <1>9, <1>10, <1>11 DEF cands, OneEach

Existing(batch) == {v \in Stored : pool[v].scope \in {pool[u].scope : u \in batch}}
Touched(batch) == Existing(batch) \cup batch

(* d may be what a crawl of the batch decides about v. *)
Decides(d, v, batch, now) ==
    LET c == Deciding(v, batch, now)
    IN \E p \in Parents : d = Classify(c, Siblings(c, Judged(batch, Existing(batch), now)), p, now)

(* What a crawl does to the rows of the scopes it touches. *)
Crawled(batch, now) ==
    /\ now \in Nat /\ now <= MaxDay /\ today' = now
    /\ pool' = pool /\ resolved' = resolved /\ indexed' = indexed
    /\ DOMAIN rows' = Stored \cup batch
    /\ \A v \in Stored : v \notin Touched(batch) => rows'[v] = rows[v]
    /\ pending \subseteq pending' /\ pending' \subseteq pending \cup Touched(batch)
    /\ \A v \in Touched(batch) : \E d :
           /\ Decides(d, v, batch, now)
           /\ SoundRow(rows'[v]) /\ (rows'[v].auth => d.auth)
           /\ rows'[v].freshness = d.freshness
           /\ rows'[v].fetched = IF v \in batch THEN now ELSE rows[v].fetched
           /\ d.review # "" => v \in pending'
    /\ \A v \in batch : v \in pending' \ pending =>
           \A w \in Stored : pool[w].scope = pool[v].scope /\ w \notin batch =>
               ~ rows'[w].auth /\ rows'[w].serving \notin Queryable

LEMMA CrawlIs ==
    ASSUME RecordsInv, NEW batch \in SUBSET DOMAIN pool, Crawl(batch),
           NEW now, now = today + 1
    PROVE  Crawled(batch, now)
<1> DEFINE scopes == {pool[v].scope : v \in batch}
           existing == {v \in Stored : pool[v].scope \in scopes}
           decided == Decided(batch, existing, now)
           D(v) == (CHOOSE x \in decided : x.ver = v).decision
           reviewed == {x.ver : x \in {y \in decided : y.decision.review # ""}}
           failClosed == {pool[v].scope : v \in reviewed \cap batch}
           winners == {v \in batch : D(v).auth /\ pool[v].scope \notin failClosed}
           U(v) == Upserted(v, D(v), batch, failClosed, now)
           L(v) == LinkSuperseded(v, U(v), winners)
<1>1. /\ today' = now /\ now <= MaxDay /\ now \in Nat /\ today \in Nat
      /\ pool' = pool /\ resolved' = resolved /\ indexed' = indexed
      BY PoolsAssumption DEF Crawl, RecordsInv, RecordsTypeOK
<1>2. /\ rows' = [v \in Stored \cup batch |-> IF v \in existing \cup batch THEN L(v) ELSE rows[v]]
      /\ pending' = pending \cup reviewed
      <2>1. ProcessScopeUpdates(batch, now)
            BY DEF Crawl
      <2> QED BY <2>1 DEF ProcessScopeUpdates, WithEvents
<1>3. Read(rows)
      BY DEF Read, RecordsInv, RecordsTypeOK
<1>4. existing = Existing(batch) /\ existing \in SUBSET Stored /\ existing \cup batch = Touched(batch)
      BY DEF Existing, Touched
<1> DEFINE cands == Judged(batch, existing, now)
<1>5. /\ \A x \in decided :
             /\ x.ver \in existing \cup batch
             /\ \E p \in Parents : x.decision =
                    Classify(Deciding(x.ver, batch, now),
                             Siblings(Deciding(x.ver, batch, now),
                                      Judged(batch, existing, now)), p, now)
      /\ \A v \in existing \cup batch : \E x \in decided : x.ver = v
      /\ \A x, y \in decided : x.ver = y.ver => x = y
      <2>1. decided = Decided(batch, existing, now)
            OBVIOUS
      <2> HIDE DEF decided, existing
      <2>2. now \in Nat /\ existing \in SUBSET Stored
            BY <1>1, <1>4
      <2>3. OneEach(decided, batch, existing, now)
            BY <1>3, <2>1, <2>2, DecidedIs
      <2> QED BY <2>3 DEF OneEach
<1> HIDE DEF decided
<1>6. ASSUME NEW v \in existing \cup batch
      PROVE  /\ \E x \in decided : x.ver = v /\ x.decision = D(v)
             /\ Decides(D(v), v, batch, now) /\ Sound(D(v))
      <2>1. PICK x \in decided : x.ver = v /\ x.decision = D(v)
            BY <1>5
      <2> DEFINE c == Deciding(v, batch, now)
      <2> HIDE DEF D, existing
      <2>2. PICK p \in Parents : D(v) = Classify(c, Siblings(c, cands), p, now)
            BY <1>5, <2>1
      <2>3. Sound(D(v))
            BY <2>2, ClassifyIs
      <2>4. Decides(D(v), v, batch, now)
            BY <1>4, <2>2 DEF Decides
      <2> QED BY <2>1, <2>3, <2>4
<1>7. ASSUME NEW v \in existing \cup batch PROVE v \in reviewed <=> D(v).review # ""
      <2>1. PICK x \in decided : x.ver = v /\ x.decision = D(v)
            BY <1>6
      <2>2. \A y \in decided : y.ver = v => y = x
            BY <1>5, <2>1
      <2> HIDE DEF D
      <2> QED BY <2>1, <2>2
<1>8. reviewed \subseteq existing \cup batch
      BY <1>5
<1> HIDE DEF D, reviewed
<1>9. ASSUME NEW v \in existing \cup batch
      PROVE  /\ SoundRow(L(v)) /\ (L(v).auth => D(v).auth) /\ L(v).freshness = D(v).freshness
             /\ L(v).fetched = IF v \in batch THEN now ELSE rows[v].fetched
             /\ v \notin batch /\ pool[v].scope \in failClosed =>
                    ~ L(v).auth /\ L(v).serving \notin Queryable
      <2>1. v \in Stored => SoundRow(rows[v])
            BY DEF RecordsInv, RowsAreSound
      <2>2. v \notin Stored => v \in batch
            OBVIOUS
      <2> HIDE DEF failClosed, winners, existing
      <2>3. /\ SoundRow(U(v)) /\ (U(v).auth => D(v).auth) /\ U(v).freshness = D(v).freshness
            /\ U(v).fetched = IF v \in batch THEN now ELSE rows[v].fetched
            /\ v \notin batch /\ pool[v].scope \in failClosed =>
                   ~ U(v).auth /\ U(v).serving \notin Queryable
            BY <1>1, <1>6, <2>1, <2>2, UpsertedIs
      <2> HIDE DEF U
      <2>4. /\ SoundRow(L(v)) /\ (L(v).auth => U(v).auth) /\ L(v).freshness = U(v).freshness
            /\ L(v).fetched = U(v).fetched
            /\ U(v).serving \notin Queryable => L(v).serving \notin Queryable
            BY <2>3, LinkIs
      <2> HIDE DEF L
      <2> QED BY <2>3, <2>4
<1> HIDE DEF L
<1>10. DOMAIN rows' = Stored \cup batch
       BY <1>2
<1>11. \A v \in existing \cup batch : rows'[v] = L(v)
       BY <1>2
<1>12. \A v \in Stored : v \notin existing \cup batch => rows'[v] = rows[v]
       BY <1>2
<1>13. ASSUME NEW v \in batch, v \in pending' \ pending, NEW w \in Stored,
              pool[w].scope = pool[v].scope, w \notin batch
       PROVE  ~ rows'[w].auth /\ rows'[w].serving \notin Queryable
       <2>1. v \in reviewed
             BY <1>2, <1>13
       <2>2. pool[w].scope \in failClosed /\ w \in existing
             BY <1>13, <2>1
       <2> HIDE DEF failClosed, existing
       <2> QED BY <1>9, <1>11, <1>13, <2>2
<1>14. ASSUME NEW v \in existing \cup batch
       PROVE  /\ Decides(D(v), v, batch, now)
              /\ SoundRow(rows'[v]) /\ (rows'[v].auth => D(v).auth)
              /\ rows'[v].freshness = D(v).freshness
              /\ rows'[v].fetched = IF v \in batch THEN now ELSE rows[v].fetched
              /\ D(v).review # "" => v \in pending'
       <2> HIDE DEF existing, failClosed
       <2>1. rows'[v] = L(v)
             BY <1>11
       <2>2. D(v).review # "" => v \in pending'
             BY <1>2, <1>7
       <2> QED BY <1>6, <1>9, <2>1, <2>2
<1>15. pending \subseteq pending' /\ pending' \subseteq pending \cup Touched(batch)
       BY <1>2, <1>4, <1>8
<1> HIDE DEF existing
<1> QED BY <1>1, <1>4, <1>10, <1>12, <1>13, <1>14, <1>15 DEF Crawled

LEMMA CrawlKeeps ==
    ASSUME RecordsInv, NEW batch \in SUBSET DOMAIN pool, Crawl(batch)
    PROVE  RecordsInv'
<1> DEFINE now == today + 1
           T == Touched(batch)
           J == Judged(batch, Existing(batch), now)
           C(v) == Deciding(v, batch, now)
<1>1. /\ now \in Nat /\ now <= MaxDay /\ today' = now
      /\ pool' = pool /\ resolved' = resolved /\ indexed' = indexed
      /\ DOMAIN rows' = Stored \cup batch
      /\ \A v \in Stored : v \notin T => rows'[v] = rows[v]
      /\ pending \subseteq pending' /\ pending' \subseteq pending \cup T
      /\ \A v \in T : \E d :
             /\ Decides(d, v, batch, now)
             /\ SoundRow(rows'[v]) /\ (rows'[v].auth => d.auth)
             /\ rows'[v].freshness = d.freshness
             /\ rows'[v].fetched = IF v \in batch THEN now ELSE rows[v].fetched
             /\ d.review # "" => v \in pending'
      <2>1. Crawled(batch, now)
            BY CrawlIs
      <2> HIDE DEF now
      <2> QED BY <2>1 DEF Crawled
<1>2. /\ pool \in Pools /\ RecordsTypeOK /\ RowsAreSound /\ OneCurrentValue
      /\ HeldBackIsReviewed /\ ConflictsAreReviewed /\ today \in Nat
      BY DEF RecordsInv, RecordsTypeOK
<1>3. /\ Read(rows) /\ Existing(batch) \in SUBSET Stored /\ T = Existing(batch) \cup batch
      /\ T \subseteq DOMAIN rows'
      BY <1>1, <1>2 DEF Read, RecordsTypeOK, Existing, Touched
<1>4. ASSUME NEW v \in T
      PROVE  /\ C(v) \in J /\ C(v) \in Candidates /\ C(v).ver = v
             /\ C(v).scope = pool[v].scope /\ C(v).type = pool[v].type
             /\ C(v).label = pool[v].label /\ C(v).val = pool[v].val
      <2>1. v \in Existing(batch) \cup batch
            BY <1>3
      <2>2. PICK c : c = Deciding(v, batch, now)
            OBVIOUS
      <2>3. now \in Nat /\ Read(rows) /\ Existing(batch) \in SUBSET Stored
            BY <1>1, <1>3
      <2>4. C(v) = c
            BY <2>2
      <2> HIDE DEF now, C
      <2>5. /\ c \in Judged(batch, Existing(batch), now) /\ c \in Candidates /\ c.ver = v
            /\ c.scope = pool[v].scope /\ c.type = pool[v].type
            /\ c.label = pool[v].label /\ c.val = pool[v].val
            BY <2>1, <2>2, <2>3, DecidingIs
      <2> QED BY <2>4, <2>5
<1>5. ASSUME NEW v \in DOMAIN rows', NEW w \in DOMAIN rows', pool[v].scope = pool[w].scope, v \in T
      PROVE  w \in T
      <2>1. pool[v].scope \in {pool[u].scope : u \in batch}
            BY <1>5 DEF Touched, Existing
      <2> QED BY <1>1, <1>5, <2>1 DEF Touched, Existing
<1>6. ASSUME NEW v \in T
      PROVE  \E d : /\ \E p \in Parents : d = Classify(C(v), Siblings(C(v), J), p, now)
                    /\ SoundRow(rows'[v]) /\ (rows'[v].auth => d.auth)
                    /\ rows'[v].freshness = d.freshness
                    /\ rows'[v].fetched = IF v \in batch THEN now ELSE rows[v].fetched
                    /\ d.review # "" => v \in pending'
      BY <1>1 DEF Decides
<1> HIDE DEF T, J, C, now
<1>7. \A v \in DOMAIN rows' : SoundRow(rows'[v]) /\ rows'[v].fetched <= now
      <2> SUFFICES ASSUME NEW v \in DOMAIN rows' PROVE SoundRow(rows'[v]) /\ rows'[v].fetched <= now
          OBVIOUS
      <2>1. v \in Stored => SoundRow(rows[v]) /\ rows[v].fetched <= today /\ rows[v].fetched \in Nat
            BY <1>2 DEF RowsAreSound, SoundRow, Row
      <2>2. v \in T => SoundRow(rows'[v]) /\ rows'[v].fetched = IF v \in batch THEN now ELSE rows[v].fetched
            BY <1>6
      <2>3. now = today + 1 /\ (v \notin batch => v \in Stored) /\ (v \notin T => v \in Stored)
            BY <1>1, <1>3 DEF now
      <2>4. CASE v \in batch
            <3>1. v \in T
                  BY <1>3, <2>4
            <3>2. rows'[v].fetched = now /\ SoundRow(rows'[v]) /\ now \in Nat
                  BY <1>1, <2>2, <2>4, <3>1
            <3> QED BY <3>2
      <2>5. CASE v \in T /\ v \notin batch
            BY <1>2, <2>1, <2>2, <2>3, <2>5
      <2>6. CASE v \notin T
            <3>1. rows'[v] = rows[v]
                  BY <1>1, <2>3, <2>6
            <3> QED BY <1>2, <2>1, <2>3, <2>6, <3>1
      <2> QED BY <2>4, <2>5, <2>6
<1>8. RecordsTypeOK'
      <2>1. DOMAIN rows' \subseteq DOMAIN pool /\ Stored \subseteq DOMAIN rows'
            BY <1>1, <1>2 DEF RecordsTypeOK
      <2>2. pending' \subseteq DOMAIN rows' /\ DOMAIN resolved' \subseteq DOMAIN rows'
            BY <1>1, <1>2, <1>3, <2>1 DEF RecordsTypeOK
      <2>3. indexed' \subseteq DOMAIN rows'
            BY <1>1, <1>2, <2>1 DEF RecordsTypeOK
      <2>6. today' \in 0 .. MaxDay
            <3>1. MaxDay \in Nat
                  BY PoolsAssumption
            <3>2. now \in Nat /\ now <= MaxDay /\ today' = now
                  BY <1>1
            <3> QED BY <3>1, <3>2
      <2>4. \A v \in DOMAIN rows' : rows'[v] \in Row
            BY <1>7 DEF SoundRow
      <2>5. pool' = pool
            BY <1>1
      <2> QED BY <2>1, <2>2, <2>3, <2>4, <2>5, <2>6 DEF RecordsTypeOK, Stored
<1>9. RowsAreSound'
      BY <1>1, <1>7 DEF RowsAreSound, Stored
<1>10. OneCurrentValue'
      <2> SUFFICES ASSUME NEW v \in DOMAIN rows', NEW w \in DOMAIN rows', rows'[v].auth, rows'[w].auth,
                          pool[v].scope = pool[w].scope, pool[v].type = pool[w].type,
                          pool[v].label = pool[w].label, pool[v].type \notin ParentDependent
                   PROVE  pool[v].val = pool[w].val
          BY <1>1 DEF OneCurrentValue, Stored
      <2>1. CASE v \notin T
            <3>1. w \notin T /\ v \in Stored /\ w \in Stored
                  BY <1>1, <1>3, <1>5, <2>1
            <3>2. rows'[v] = rows[v] /\ rows'[w] = rows[w]
                  BY <1>1, <2>1, <3>1
            <3> QED BY <1>2, <3>1, <3>2 DEF OneCurrentValue
      <2>2. CASE v \in T /\ v # w
            <3>1. w \in T
                  BY <1>5, <2>2
            <3>2. PICK p \in Parents : Classify(C(v), Siblings(C(v), J), p, now).auth
                  BY <1>6, <2>2
            <3>3. PICK q \in Parents : Classify(C(w), Siblings(C(w), J), q, now).auth
                  BY <1>6, <3>1
            <3>4. C(v) \in J /\ C(w) \in J /\ C(v) \in Candidates /\ C(w) \in Candidates
                  BY <1>4, <2>2, <3>1
            <3>5. /\ C(v).ver # C(w).ver /\ C(v).scope = C(w).scope /\ C(v).type = C(w).type
                  /\ C(v).label = C(w).label /\ C(v).type \notin ParentDependent
                  BY <1>4, <2>2, <3>1
            <3>6. C(v).val = C(w).val
                  BY <3>2, <3>3, <3>4, <3>5, WinnersAgree
            <3> QED BY <1>4, <2>2, <3>1, <3>6
      <2> QED BY <2>1, <2>2
<1>11. ASSUME NEW v \in T
       PROVE  /\ rows'[v].freshness = "contradictory" =>
                     v \in pending' \/ pool[v].type \in ExplicitParent
              /\ HeldBack(C(v), Siblings(C(v), J), now) => v \in pending'
      <2>3. PICK d : /\ \E p \in Parents : d = Classify(C(v), Siblings(C(v), J), p, now)
                     /\ rows'[v].freshness = d.freshness
                     /\ d.review # "" => v \in pending'
            BY <1>6
      <2>1. PICK p \in Parents : d = Classify(C(v), Siblings(C(v), J), p, now)
            BY <2>3
      <2>2. /\ HeldBack(C(v), Siblings(C(v), J), now) => d.review # ""
            /\ d.freshness = "contradictory" =>
                   HeldBack(C(v), Siblings(C(v), J), now) \/ C(v).type \in ExplicitParent
            BY <2>1, ClassifyIs
      <2> QED BY <1>4, <2>2, <2>3
<1>12. HeldBackIsReviewed'
      <2> SUFFICES ASSUME NEW v \in DOMAIN rows', rows'[v].freshness = "contradictory"
                   PROVE  v \in pending' \cup DOMAIN resolved \/ pool[v].type \in ExplicitParent
          BY <1>1 DEF HeldBackIsReviewed, Stored
      <2>1. CASE v \in T
            BY <1>11, <2>1
      <2>2. CASE v \notin T
            <3>1. v \in Stored /\ rows'[v] = rows[v]
                  BY <1>1, <1>3, <2>2
            <3> QED BY <1>1, <1>2, <3>1 DEF HeldBackIsReviewed
      <2> QED BY <2>1, <2>2
<1> DEFINE N(v) == Fetched(v, rows'[v].fetched)
           Ns == {N(w) : w \in DOMAIN rows'}
<1>13. ASSUME NEW v \in DOMAIN rows', HeldBack(N(v), Siblings(N(v), Ns), now)
       PROVE  v \in pending' \cup DOMAIN resolved
      <2>1. \A w \in T : N(w) = C(w)
            <3> SUFFICES ASSUME NEW w \in T PROVE N(w) = C(w)
                OBVIOUS
            <3>1. rows'[w].fetched = IF w \in batch THEN now ELSE rows[w].fetched
                  BY <1>6
            <3> QED BY <3>1 DEF C, Deciding, Candidate
      <2>2. \A w \in DOMAIN rows' : w \notin T => w \in Stored /\ N(w) = Candidate(w)
            BY <1>1, <1>3 DEF Candidate
      <2>3. \A w \in DOMAIN rows' : N(w).scope = pool[w].scope /\ N(w).ver = w
            <3> SUFFICES ASSUME NEW w \in DOMAIN rows'
                         PROVE  N(w).scope = pool[w].scope /\ N(w).ver = w
                OBVIOUS
            <3>1. w \in DOMAIN pool /\ rows'[w].fetched \in Nat
                  BY <1>1, <1>7, <1>8 DEF SoundRow, Row, RecordsTypeOK, Stored
            <3> QED BY <1>2, <3>1, FetchedIs
      <2> HIDE DEF N
      <2>4. CASE v \in T
            <3>1. Siblings(N(v), Ns) \subseteq Siblings(C(v), J)
                  <4> SUFFICES ASSUME NEW w \in DOMAIN rows', N(w).scope = N(v).scope, N(w).ver # N(v).ver
                               PROVE  N(w) \in Siblings(C(v), J)
                      BY DEF Siblings
                  <4>1. w \in T
                        BY <1>5, <2>3, <2>4
                  <4>2. N(w) = C(w) /\ N(v) = C(v) /\ C(w) \in J
                        BY <1>4, <2>1, <2>4, <4>1
                  <4> QED BY <4>2 DEF Siblings
            <3>2. N(v) = C(v)
                  BY <2>1, <2>4
            <3>3. HeldBack(C(v), Siblings(C(v), J), now)
                  <4> HIDE DEF Ns
                  <4> QED BY <1>13, <3>1, <3>2, ConflictGrows DEF HeldBack
            <3> QED BY <1>11, <2>4, <3>3
      <2>5. CASE v \notin T
            <3> DEFINE S == StoredCandidates
            <3>1. Siblings(N(v), Ns) \subseteq Siblings(N(v), S)
                  <4> SUFFICES ASSUME NEW w \in DOMAIN rows', N(w).scope = N(v).scope, N(w).ver # N(v).ver
                               PROVE  N(w) \in Siblings(N(v), S)
                      BY DEF Siblings
                  <4>1. w \notin T
                        BY <1>5, <2>3, <2>5
                  <4>2. N(w) \in S
                        BY <2>2, <4>1 DEF StoredCandidates
                  <4> QED BY <4>2 DEF Siblings
            <3>2. N(v) = Candidate(v) /\ v \in Stored
                  BY <2>2, <2>5
            <3>3. ~ Expired(N(v), today)
                  <4>1. N(v).until \in Nat
                        <5>1. v \in DOMAIN pool /\ rows'[v].fetched \in Nat
                              BY <1>1, <1>7, <1>8 DEF SoundRow, Row, RecordsTypeOK, Stored
                        <5>2. N(v) \in Candidates
                              BY <1>2, <5>1, FetchedIs DEF N
                        <5> QED BY <5>2 DEF Candidates
                  <4>2. ~ Expired(N(v), now)
                        BY <1>13 DEF HeldBack
                  <4> QED BY <1>2, <4>1, <4>2 DEF Expired, now
            <3>4. HeldBack(N(v), Siblings(N(v), S), today)
                  <4> HIDE DEF Ns, S
                  <4> QED BY <1>13, <3>1, <3>3, ConflictGrows DEF HeldBack
            <3>5. HasEvent(v)
                  BY <1>2, <3>2, <3>4 DEF ConflictsAreReviewed
            <3> QED BY <1>1, <3>5 DEF HasEvent
      <2> QED BY <2>4, <2>5
<1>14. ConflictsAreReviewed'
      <2>1. \A v : Candidate(v)' = N(v)
            BY <1>1 DEF Candidate, Fetched
      <2>2. StoredCandidates' = Ns
            BY <2>1 DEF StoredCandidates, Stored
      <2> HIDE DEF N, Ns
      <2>3. \A v \in DOMAIN rows' :
                HeldBack(Candidate(v)', Siblings(Candidate(v)', StoredCandidates'), today')
                    => v \in pending' \cup DOMAIN resolved'
            BY <1>1, <1>13, <2>1, <2>2
      <2> QED BY <2>3 DEF ConflictsAreReviewed, HasEvent, Stored
<1> QED BY <1>1, <1>2, <1>8, <1>9, <1>10, <1>12, <1>14 DEF RecordsInv

----------------------------------------------------------------------------
(* A review.                                                                *)

LEMMA AffectedIs ==
    ASSUME NEW v \in Stored
    PROVE  /\ Affected(v) \subseteq Stored /\ v \in Affected(v)
           /\ \A u \in Affected(v), w \in Stored :
                  pool[w].scope = pool[u].scope => w \in Affected(v)
<1>1. Affected(v) \subseteq Stored /\ v \in Affected(v)
      BY DEF Affected
<1>2. ASSUME NEW u \in Affected(v), NEW w \in Stored, pool[w].scope = pool[u].scope,
             NEW V \in SUBSET Stored, v \in V, ReachesNoOther(V)
      PROVE  w \in V
      <2>1. u \in V
            BY <1>2 DEF Affected
      <2>2. Reaches(pool[u], pool[w])
            BY <1>2 DEF Reaches
      <2> QED BY <1>2, <2>1, <2>2 DEF ReachesNoOther
<1>3. ASSUME NEW u \in Affected(v), NEW w \in Stored, pool[w].scope = pool[u].scope
      PROVE  w \in Affected(v)
      BY <1>2, <1>3 DEF Affected
<1> QED BY <1>1, <1>3

(* The affected rows that are not rejected. *)
Alive(v, resolution) ==
    {u \in Affected(v) : IF u = v THEN resolution # "rejected" ELSE rows[u].verification # "rejected"}

Recomputed(v, resolution) ==
    /\ DOMAIN rows' = Stored
    /\ \A w \in Stored : w \notin Affected(v) => rows'[w] = rows[w]
    /\ \A w \in Affected(v) : \E d :
           /\ \E p \in Parents : d =
                  Classify(Candidate(w),
                           Siblings(Candidate(w), {Candidate(u) : u \in Alive(v, resolution)}),
                           p, today)
           /\ SoundRow(rows'[w]) /\ rows'[w].fetched = rows[w].fetched
           /\ rows'[w].freshness = d.freshness
           /\ rows'[w].auth => w \in Alive(v, resolution) /\ d.auth
           /\ w \notin Alive(v, resolution) => rows'[w].verification = "rejected" /\ ~ rows'[w].auth

LEMMA RecomputeIs ==
    ASSUME RecordsInv, NEW v \in Stored, NEW resolution \in {"verified", "rejected"},
           RecomputeScopeState(v, resolution)
    PROVE  Recomputed(v, resolution)
<1> DEFINE affected == Affected(v)
           rs == [rows EXCEPT ![v].verification = resolution]
           active == {Candidate(w) : w \in {u \in affected : rs[u].verification # "rejected"}}
           cands == {Candidate(w) : w \in affected}
           base == BaseDecisions(active, rs, today)
           lookup == ParentLookup(cands, base, rs)
           Base(w) == Classify(Candidate(w), Siblings(Candidate(w), active),
                               ParentOf(Candidate(w), lookup), today)
           New(w) == ApplyRecomputed(rows[w],
                         IF rs[w].verification = "rejected" THEN RejectedBy(Base(w)) ELSE Base(w))
<1>1. rows' = [w \in Stored |-> IF w \notin affected THEN rows[w] ELSE New(w)]
      BY DEF RecomputeScopeState
<1>2. affected \subseteq Stored
      BY AffectedIs
<1>3. /\ pool \in Pools /\ Stored \subseteq DOMAIN pool
      /\ \A w \in Stored : rows[w] \in Row /\ SoundRow(rows[w])
      BY DEF RecordsInv, RecordsTypeOK, RowsAreSound
<1>4. DOMAIN rs = Stored /\ \A w \in Stored : rs[w] \in Row
      BY <1>3 DEF Row, Stored
<1>5. Read(rs)
      BY <1>3, <1>4 DEF Read
<1>6. \A w \in Stored : rs[w].verification = IF w = v THEN resolution ELSE rows[w].verification
      BY <1>3 DEF Row, Stored
<1> HIDE DEF rs
<1>7. \A w \in affected : w \in Alive(v, resolution) <=> rs[w].verification # "rejected"
      BY <1>2, <1>6 DEF Alive
<1>8. active = {Candidate(u) : u \in Alive(v, resolution)}
      BY <1>2, <1>6 DEF Alive
<1>9. active \in SUBSET Candidates /\ IsFiniteSet(active)
      <2> DEFINE V == {u \in affected : rs[u].verification # "rejected"}
                 f == [w \in V |-> Candidate(w)]
      <2>1. \A w \in Stored : Candidate(w) \in Candidates
            <3> SUFFICES ASSUME NEW w \in Stored PROVE Candidate(w) \in Candidates
                OBVIOUS
            <3>1. w \in DOMAIN pool /\ rows[w].fetched \in Nat
                  BY <1>3 DEF Row
            <3> QED BY <1>3, <3>1, FetchedIs DEF Candidate
      <2>2. IsFiniteSet(V)
            <3>1. V \in SUBSET DOMAIN pool
                  BY <1>2, <1>3
            <3> HIDE DEF V
            <3> QED BY <1>3, <3>1, PoolIs, FS_Subset
      <2>3. active = {f[w] : w \in V}
            OBVIOUS
      <2>4. IsFiniteSet(active)
            <3> HIDE DEF f, V, active
            <3> QED BY <2>2, <2>3, FiniteImage
      <2> QED BY <1>2, <2>1, <2>4
<1> HIDE DEF active, cands, affected
<1>10. base \in SUBSET Entries /\ IsFiniteSet(base)
       BY <1>5, <1>9, BaseDecisionsIs
<1> HIDE DEF base
<1>11. lookup \in SUBSET Entries /\ IsFiniteSet(lookup)
       BY <1>5, <1>10, LookupIs
<1> HIDE DEF lookup
<1>12. \A c : ParentOf(c, lookup) \in Parents
       BY <1>11, ParentOfIs
<1>13. ASSUME NEW w \in affected
       PROVE  /\ \E p \in Parents : Base(w) =
                     Classify(Candidate(w), Siblings(Candidate(w), active), p, today)
              /\ SoundRow(New(w)) /\ New(w).fetched = rows[w].fetched
              /\ New(w).freshness = Base(w).freshness
              /\ New(w).auth => w \in Alive(v, resolution) /\ Base(w).auth
              /\ w \notin Alive(v, resolution) => New(w).verification = "rejected" /\ ~ New(w).auth
       <2>1. Sound(Base(w))
             BY <1>12, ClassifyIs
       <2>2. \E p \in Parents : Base(w) =
                 Classify(Candidate(w), Siblings(Candidate(w), active), p, today)
             BY <1>12
       <2> HIDE DEF Base
       <2>3. SoundRow(rows[w])
             BY <1>2, <1>3
       <2>4. CASE w \in Alive(v, resolution)
             <3>1. New(w) = ApplyRecomputed(rows[w], Base(w))
                   BY <1>7, <2>4
             <3> HIDE DEF New
             <3> QED BY <2>1, <2>2, <2>3, <2>4, <3>1, RecomputedIs
       <2>5. CASE w \notin Alive(v, resolution)
             <3> DEFINE d == RejectedBy(Base(w))
             <3>1. New(w) = ApplyRecomputed(rows[w], d)
                   BY <1>7, <2>5
             <3>2. Sound(d) /\ ~ d.auth /\ d.freshness = Base(w).freshness /\ d.verification = "rejected"
                   BY <2>1, RejectedIs
             <3> HIDE DEF New, d
             <3>3. /\ SoundRow(New(w)) /\ New(w).auth = d.auth /\ New(w).freshness = d.freshness
                   /\ New(w).fetched = rows[w].fetched /\ New(w).verification = d.verification
                   BY <2>3, <3>1, <3>2, RecomputedIs
             <3> QED BY <2>2, <2>5, <3>2, <3>3
       <2> QED BY <2>4, <2>5
<1> HIDE DEF New, Base
<1>14. \A w \in affected : rows'[w] = New(w)
       BY <1>1, <1>2
<1>15. DOMAIN rows' = Stored /\ \A w \in Stored : w \notin affected => rows'[w] = rows[w]
       BY <1>1
<1> QED BY <1>8, <1>13, <1>14, <1>15 DEF Recomputed, affected

(* Nothing but the times of the rows matters to the conflicts of the rows. *)
LEMMA ConflictsKept ==
    ASSUME RecordsInv, pool' = pool, today' = today, DOMAIN rows' = Stored,
           \A v \in Stored : rows'[v].fetched = rows[v].fetched,
           \A v : HasEvent(v) => HasEvent(v)'
    PROVE  ConflictsAreReviewed'
<1>1. \A v \in Stored : Candidate(v)' = Candidate(v)
      BY DEF Candidate, Fetched
<1>2. Stored' = Stored
      BY DEF Stored
<1>3. StoredCandidates' = StoredCandidates
      BY <1>1, <1>2 DEF StoredCandidates
<1>4. \A v \in Stored :
          HeldBack(Candidate(v)', Siblings(Candidate(v)', StoredCandidates'), today') => HasEvent(v)'
      BY <1>1, <1>3 DEF RecordsInv, ConflictsAreReviewed
<1> QED BY <1>2, <1>4 DEF ConflictsAreReviewed

LEMMA ResolveKeeps ==
    ASSUME RecordsInv, NEW v \in DOMAIN pool, NEW resolution \in {"verified", "rejected"},
           Resolve(v, resolution)
    PROVE  RecordsInv'
<1> DEFINE A == Affected(v)
           alive == Alive(v, resolution)
           S == {Candidate(u) : u \in alive}
<1>1. /\ pool \in Pools /\ RecordsTypeOK /\ RowsAreSound /\ OneCurrentValue
      /\ HeldBackIsReviewed /\ ConflictsAreReviewed /\ today \in Nat
      BY DEF RecordsInv, RecordsTypeOK
<1>2. /\ pool' = pool /\ indexed' = indexed /\ today' = today
      /\ pending' = pending \ {v} /\ DOMAIN resolved' = DOMAIN resolved \cup {v}
      /\ v \in Stored /\ RecomputeScopeState(v, resolution)
      BY <1>1 DEF Resolve, RecordsTypeOK
<1>3. /\ DOMAIN rows' = Stored
      /\ \A w \in Stored : w \notin A => rows'[w] = rows[w]
      /\ \A w \in A : \E d :
             /\ \E p \in Parents : d = Classify(Candidate(w), Siblings(Candidate(w), S), p, today)
             /\ SoundRow(rows'[w]) /\ rows'[w].fetched = rows[w].fetched
             /\ rows'[w].freshness = d.freshness
             /\ rows'[w].auth => w \in alive /\ d.auth
             /\ w \notin alive => rows'[w].verification = "rejected" /\ ~ rows'[w].auth
      <2>1. Recomputed(v, resolution)
            BY <1>2, RecomputeIs
      <2> QED BY <2>1 DEF Recomputed
<1>4. /\ A \subseteq Stored /\ alive \subseteq A /\ alive \subseteq Stored
      /\ \A u \in A, w \in Stored : pool[w].scope = pool[u].scope => w \in A
      BY <1>2, AffectedIs DEF Alive
<1>5. ASSUME NEW w \in Stored
      PROVE  /\ Candidate(w) \in Candidates /\ Candidate(w).ver = w
             /\ Candidate(w).scope = pool[w].scope /\ Candidate(w).type = pool[w].type
             /\ Candidate(w).label = pool[w].label /\ Candidate(w).val = pool[w].val
      <2>1. w \in DOMAIN pool /\ rows[w].fetched \in Nat
            BY <1>1 DEF RecordsTypeOK, Row
      <2> QED BY <1>1, <2>1, FetchedIs DEF Candidate
<1> HIDE DEF A, alive
<1>6. \A w \in Stored : SoundRow(rows'[w]) /\ rows'[w].fetched = rows[w].fetched
      BY <1>1, <1>3 DEF RowsAreSound
<1>7. RecordsTypeOK'
      <2>1. \A w \in Stored : rows'[w] \in Row
            BY <1>6 DEF SoundRow
      <2> QED BY <1>1, <1>2, <1>3, <2>1 DEF RecordsTypeOK, Stored
<1>8. RowsAreSound'
      BY <1>1, <1>2, <1>3, <1>6 DEF RowsAreSound, Stored
<1>9. OneCurrentValue'
      <2> SUFFICES ASSUME NEW u \in Stored, NEW w \in Stored, rows'[u].auth, rows'[w].auth,
                          pool[u].scope = pool[w].scope, pool[u].type = pool[w].type,
                          pool[u].label = pool[w].label, pool[u].type \notin ParentDependent
                   PROVE  pool[u].val = pool[w].val
          BY <1>2, <1>3 DEF OneCurrentValue, Stored
      <2>1. CASE u \notin A
            <3>1. w \notin A
                  BY <1>4, <2>1
            <3>2. rows'[u] = rows[u] /\ rows'[w] = rows[w]
                  BY <1>3, <2>1, <3>1
            <3> QED BY <1>1, <3>2 DEF OneCurrentValue
      <2>2. CASE u \in A /\ u # w
            <3>1. w \in A
                  BY <1>4, <2>2
            <3>2. u \in alive /\ w \in alive
                  BY <1>3, <2>2, <3>1
            <3>3. PICK p \in Parents : Classify(Candidate(u), Siblings(Candidate(u), S), p, today).auth
                  BY <1>3, <2>2
            <3>4. PICK q \in Parents : Classify(Candidate(w), Siblings(Candidate(w), S), q, today).auth
                  BY <1>3, <3>1
            <3>5. Candidate(u) \in S /\ Candidate(w) \in S
                  BY <3>2
            <3>6. /\ Candidate(u) \in Candidates /\ Candidate(w) \in Candidates
                  /\ Candidate(u).ver # Candidate(w).ver
                  /\ Candidate(u).scope = Candidate(w).scope /\ Candidate(u).type = Candidate(w).type
                  /\ Candidate(u).label = Candidate(w).label
                  /\ Candidate(u).type \notin ParentDependent
                  BY <1>5, <2>2
            <3> HIDE DEF S
            <3>7. Candidate(u).val = Candidate(w).val
                  BY <3>3, <3>4, <3>5, <3>6, WinnersAgree
            <3> QED BY <1>5, <3>7
      <2> QED BY <2>1, <2>2
<1>10. \A w : HasEvent(w) => HasEvent(w)'
       BY <1>2 DEF HasEvent
<1>11. HeldBackIsReviewed'
      <2> SUFFICES ASSUME NEW w \in Stored, rows'[w].freshness = "contradictory",
                          pool[w].type \notin ExplicitParent
                   PROVE  HasEvent(w)
          BY <1>2, <1>3, <1>10 DEF HeldBackIsReviewed, Stored, HasEvent
      <2>1. CASE w \notin A
            <3>1. rows'[w] = rows[w]
                  BY <1>3, <2>1
            <3> QED BY <1>1, <3>1 DEF HeldBackIsReviewed, HasEvent
      <2>2. CASE w \in A
            <3>1. PICK d : /\ \E p \in Parents : d = Classify(Candidate(w), Siblings(Candidate(w), S), p, today)
                           /\ rows'[w].freshness = d.freshness
                  BY <1>3, <2>2
            <3>2. PICK p \in Parents : d = Classify(Candidate(w), Siblings(Candidate(w), S), p, today)
                  BY <3>1
            <3>a. Candidate(w) \in Candidates /\ Candidate(w).type = pool[w].type
                  BY <1>5
            <3>b. d.freshness = "contradictory" =>
                      HeldBack(Candidate(w), Siblings(Candidate(w), S), today)
                      \/ Candidate(w).type \in ExplicitParent
                  <4> HIDE DEF S
                  <4> QED BY <3>a, <3>2, ClassifyIs
            <3>3. HeldBack(Candidate(w), Siblings(Candidate(w), S), today)
                  BY <3>a, <3>b, <3>1
            <3>4. Siblings(Candidate(w), S) \subseteq Siblings(Candidate(w), StoredCandidates)
                  BY <1>4 DEF Siblings, StoredCandidates
            <3>5. HeldBack(Candidate(w), Siblings(Candidate(w), StoredCandidates), today)
                  <4> HIDE DEF S
                  <4> QED BY <3>3, <3>4, ConflictGrows DEF HeldBack
            <3> QED BY <1>1, <3>5 DEF ConflictsAreReviewed
      <2> QED BY <2>1, <2>2
<1>12. ConflictsAreReviewed'
       BY <1>2, <1>3, <1>6, <1>10, ConflictsKept
<1> QED BY <1>1, <1>2, <1>7, <1>8, <1>9, <1>11, <1>12 DEF RecordsInv

----------------------------------------------------------------------------
(* A reconciliation and a build.                                            *)

LEMMA LoadedIs ==
    ASSUME pool \in Pools, NEW c \in LoadedFrom(rows), Stored \subseteq DOMAIN pool,
           \A v \in Stored : rows[v] \in Row
    PROVE  /\ c.ver \in Stored /\ c = Candidate(c.ver)
           /\ LET row == rows[c.ver]
              IN row.auth /\ row.serving \in Queryable /\ row.freshness = "current"
                 /\ row.verification = "verified"
<1>1. PICK v \in Stored : /\ c = [pool[v] EXCEPT !.fetched = rows[v].fetched]
                          /\ rows[v].auth /\ rows[v].serving \in Queryable
                          /\ rows[v].freshness = "current" /\ rows[v].verification = "verified"
      BY DEF LoadedFrom, Stored
<1>2. c = Fetched(v, rows[v].fetched) /\ v \in DOMAIN pool /\ rows[v].fetched \in Nat
      BY <1>1 DEF Fetched, Row
<1>3. c.ver = v
      BY <1>2, FetchedIs
<1> QED BY <1>1, <1>2, <1>3 DEF Candidate

LEMMA ReconcileKeeps ==
    ASSUME RecordsInv, Reconcile
    PROVE  RecordsInv'
<1> DEFINE conflicts == Versions(DedupeConflicts(LoadedFrom(rows)))
<1>1. /\ pool \in Pools /\ RecordsTypeOK /\ RowsAreSound /\ OneCurrentValue
      /\ HeldBackIsReviewed /\ today \in Nat
      BY DEF RecordsInv, RecordsTypeOK
<1>2. /\ pool' = pool /\ indexed' = indexed /\ today' = today /\ resolved' = resolved
      /\ pending' = pending \cup conflicts
      /\ rows' = [v \in Stored |->
             IF v \notin conflicts THEN rows[v]
             ELSE [rows[v] EXCEPT !.freshness = "contradictory", !.cand = FALSE, !.auth = FALSE,
                      !.serving = IF @ = "indexed_active" THEN "pending_deindex" ELSE "ineligible"]]
      BY DEF Reconcile, WithEvents
<1>3. conflicts \subseteq Stored
      <2>1. \A c \in LoadedFrom(rows) : c.ver \in Stored
            BY <1>1, LoadedIs DEF RecordsTypeOK
      <2> QED BY <2>1 DEF Versions, DedupeConflicts
<1> HIDE DEF conflicts
<1>4. ASSUME NEW v \in Stored
      PROVE  /\ SoundRow(rows'[v]) /\ rows'[v].fetched = rows[v].fetched
             /\ rows'[v].auth => rows[v].auth
             /\ rows'[v].freshness = "contradictory" => v \in conflicts \/ rows[v].freshness = "contradictory"
      <2>1. SoundRow(rows[v])
            BY <1>1 DEF RowsAreSound
      <2>2. CASE v \notin conflicts
            BY <1>2, <2>1, <2>2
      <2>3. CASE v \in conflicts
            <3>1. rows'[v] = [rows[v] EXCEPT !.freshness = "contradictory", !.cand = FALSE, !.auth = FALSE,
                      !.serving = IF @ = "indexed_active" THEN "pending_deindex" ELSE "ineligible"]
                  BY <1>2, <2>3
            <3> QED BY <2>1, <2>3, <3>1 DEF SoundRow, Row, Queryable
      <2> QED BY <2>2, <2>3
<1>5. DOMAIN rows' = Stored
      BY <1>2
<1>6. RecordsTypeOK'
      <2>1. \A v \in Stored : rows'[v] \in Row
            BY <1>4 DEF SoundRow
      <2> QED BY <1>1, <1>2, <1>3, <1>5, <2>1 DEF RecordsTypeOK, Stored
<1>7. RowsAreSound'
      BY <1>1, <1>2, <1>4, <1>5 DEF RowsAreSound, Stored
<1>8. OneCurrentValue'
      <2>0. Stored' = Stored /\ pool' = pool
            BY <1>2, <1>5 DEF Stored
      <2> SUFFICES ASSUME NEW u \in Stored, NEW w \in Stored, rows'[u].auth, rows'[w].auth,
                          pool[u].scope = pool[w].scope, pool[u].type = pool[w].type,
                          pool[u].label = pool[w].label, pool[u].type \notin ParentDependent
                   PROVE  pool[u].val = pool[w].val
          BY <2>0 DEF OneCurrentValue
      <2>1. rows[u].auth /\ rows[w].auth
            BY <1>4
      <2> QED BY <1>1, <2>1 DEF OneCurrentValue
<1>9. HeldBackIsReviewed'
      BY <1>1, <1>2, <1>4, <1>5 DEF HeldBackIsReviewed, Stored
<1>10. ConflictsAreReviewed'
      <2>1. \A v : HasEvent(v) => HasEvent(v)'
            BY <1>2 DEF HasEvent
      <2> QED BY <1>2, <1>4, <1>5, <2>1, ConflictsKept
<1> QED BY <1>1, <1>2, <1>6, <1>7, <1>8, <1>9, <1>10 DEF RecordsInv

LEMMA BuildKeeps ==
    ASSUME RecordsInv, Build
    PROVE  RecordsInv'
<1> DEFINE primaries == Versions(Primaries(LoadedFrom(rows)))
<1>1. /\ pool \in Pools /\ RecordsTypeOK /\ RowsAreSound /\ OneCurrentValue
      /\ HeldBackIsReviewed /\ today \in Nat
      BY DEF RecordsInv, RecordsTypeOK
<1>2. /\ pool' = pool /\ today' = today /\ resolved' = resolved /\ pending' = pending
      /\ indexed' = primaries
      /\ rows' = [v \in Stored |->
             IF v \in primaries THEN [rows[v] EXCEPT !.serving = "indexed_active"]
             ELSE IF v \in indexed THEN [rows[v] EXCEPT !.serving = "deindexed"]
             ELSE rows[v]]
      BY DEF Build
<1>3. primaries \subseteq Stored /\ \A v \in primaries : rows[v].auth
      <2>1. \A c \in LoadedFrom(rows) : c.ver \in Stored /\ rows[c.ver].auth
            BY <1>1, LoadedIs DEF RecordsTypeOK
      <2> QED BY <2>1 DEF Versions, Primaries
<1> HIDE DEF primaries
<1>4. ASSUME NEW v \in Stored
      PROVE  /\ SoundRow(rows'[v]) /\ rows'[v].fetched = rows[v].fetched
             /\ rows'[v].auth = rows[v].auth /\ rows'[v].freshness = rows[v].freshness
      <2>1. SoundRow(rows[v])
            BY <1>1 DEF RowsAreSound
      <2>2. CASE v \in primaries
            <3>1. rows'[v] = [rows[v] EXCEPT !.serving = "indexed_active"]
                  BY <1>2, <2>2
            <3> QED BY <1>3, <2>1, <2>2, <3>1 DEF SoundRow, Row, Queryable
      <2>3. CASE v \notin primaries /\ v \in indexed
            <3>1. rows'[v] = [rows[v] EXCEPT !.serving = "deindexed"]
                  BY <1>2, <2>3
            <3> QED BY <2>1, <3>1 DEF SoundRow, Row, Queryable
      <2>4. CASE v \notin primaries /\ v \notin indexed
            BY <1>2, <2>1, <2>4
      <2> QED BY <2>2, <2>3, <2>4
<1>5. DOMAIN rows' = Stored
      BY <1>2
<1>6. RecordsTypeOK'
      <2>1. \A v \in Stored : rows'[v] \in Row
            BY <1>4 DEF SoundRow
      <2> QED BY <1>1, <1>2, <1>3, <1>5, <2>1 DEF RecordsTypeOK, Stored
<1>7. RowsAreSound'
      BY <1>1, <1>2, <1>4, <1>5 DEF RowsAreSound, Stored
<1>8. OneCurrentValue'
      BY <1>1, <1>2, <1>4, <1>5 DEF OneCurrentValue, Stored
<1>9. HeldBackIsReviewed'
      BY <1>1, <1>2, <1>4, <1>5 DEF HeldBackIsReviewed, Stored
<1>10. ConflictsAreReviewed'
      <2>1. \A v : HasEvent(v) => HasEvent(v)'
            BY <1>2 DEF HasEvent
      <2> QED BY <1>2, <1>4, <1>5, <2>1, ConflictsKept
<1> QED BY <1>1, <1>2, <1>6, <1>7, <1>8, <1>9, <1>10 DEF RecordsInv

----------------------------------------------------------------------------
(* The invariant holds, and what it says.                                   *)

LEMMA StartsSound ==
    ASSUME RecordsInit
    PROVE  RecordsInv
<1>1. Stored = {}
      BY DEF RecordsInit, Stored
<1>2. pool \in Pools /\ pending = {} /\ DOMAIN resolved = {} /\ indexed = {} /\ today = 0
      BY DEF RecordsInit
<1>3. RecordsTypeOK
      BY <1>1, <1>2, PoolsAssumption DEF RecordsTypeOK
<1> QED BY <1>1, <1>2, <1>3
        DEF RecordsInv, RowsAreSound, OneCurrentValue, HeldBackIsReviewed, ConflictsAreReviewed

LEMMA StutterKeeps ==
    ASSUME RecordsInv, UNCHANGED vars
    PROVE  RecordsInv'
<1>1. /\ pool' = pool /\ rows' = rows /\ pending' = pending /\ resolved' = resolved
      /\ indexed' = indexed /\ today' = today /\ Stored' = Stored
      BY DEF vars, Stored
<1>2. pool' \in Pools /\ RecordsTypeOK'
      BY <1>1 DEF RecordsInv, RecordsTypeOK
<1>3. RowsAreSound'
      BY <1>1 DEF RecordsInv, RowsAreSound
<1>4. OneCurrentValue'
      BY <1>1 DEF RecordsInv, OneCurrentValue
<1>5. HeldBackIsReviewed'
      BY <1>1 DEF RecordsInv, HeldBackIsReviewed
<1>6. ConflictsAreReviewed'
      <2>1. \A v : HasEvent(v) => HasEvent(v)'
            BY <1>1 DEF HasEvent
      <2>2. pool' = pool /\ today' = today /\ DOMAIN rows' = Stored
            BY <1>1 DEF Stored
      <2>3. \A v \in Stored : rows'[v].fetched = rows[v].fetched
            BY <1>1
      <2> QED BY <2>1, <2>2, <2>3, ConflictsKept
<1> QED BY <1>2, <1>3, <1>4, <1>5, <1>6 DEF RecordsInv

(* The inductive invariant of the canonical records: types, rows whose      *)
(* three statuses agree, one current value, and review events for whoever   *)
(* contradicts or is held back.                                             *)
THEOREM RecordsInvariant == RecordsSpec => []RecordsInv
<1>1. RecordsInit => RecordsInv
      BY StartsSound
<1>2. RecordsInv /\ [RecordsNext]_vars => RecordsInv'
      <2> SUFFICES ASSUME RecordsInv, [RecordsNext]_vars PROVE RecordsInv'
          OBVIOUS
      <2>1. ASSUME NEW batch \in SUBSET DOMAIN pool, Crawl(batch) PROVE RecordsInv'
            BY <2>1, CrawlKeeps
      <2>2. ASSUME NEW v \in DOMAIN pool, NEW resolution \in {"verified", "rejected"},
                   Resolve(v, resolution)
            PROVE  RecordsInv'
            BY <2>2, ResolveKeeps
      <2>3. CASE Reconcile
            BY <2>3, ReconcileKeeps
      <2>4. CASE Build
            BY <2>4, BuildKeeps
      <2>5. CASE UNCHANGED vars
            BY <2>5, StutterKeeps
      <2> QED BY <2>1, <2>2, <2>3, <2>4, <2>5 DEF RecordsNext
<1> QED BY <1>1, <1>2, PTL DEF RecordsSpec

(* Every stored row has the statuses of the schema, and events and the      *)
(* index name stored versions only.                                         *)
THEOREM RecordsTypeCorrect == RecordsSpec => []RecordsTypeOK
<1>1. RecordsInv => RecordsTypeOK
      BY DEF RecordsInv
<1> QED BY <1>1, RecordsInvariant, PTL

(* Whatever crawls, reviews, reconciliations and builds come in whatever    *)
(* order, two authoritative rows of one scope, type and cycle agree on the  *)
(* value: the rules of process_scope_updates and of recompute_scope_state   *)
(* leave no second winner behind.                                           *)
THEOREM OneValueIsCurrent == RecordsSpec => []OneCurrentValue
<1>1. RecordsInv => OneCurrentValue
      BY DEF RecordsInv
<1> QED BY <1>1, RecordsInvariant, PTL

(* What queries may see is verified, current and authoritative, and what is *)
(* authoritative may be seen or was taken out by a build.                   *)
THEOREM QueryableRowsAreCurrent == RecordsSpec => []QueryableIsCurrent
<1>1. RecordsInv => QueryableIsCurrent
      BY DEF RecordsInv, RowsAreSound, SoundRow, QueryableIsCurrent
<1> QED BY <1>1, RecordsInvariant, PTL

(* A row is never held back as contradictory without a review event.        *)
THEOREM ConflictsHaveReviews == RecordsSpec => []HeldBackIsReviewed
<1>1. RecordsInv => HeldBackIsReviewed
      BY DEF RecordsInv
<1> QED BY <1>1, RecordsInvariant, PTL

----------------------------------------------------------------------------
(* Scopes fail closed.                                                      *)

ScopeFailsClosed ==
    \A v \in pending' \ pending : v \in DOMAIN rows' /\ rows'[v].fetched = today' /\ today' # today =>
        \A w \in Stored : pool[w].scope = pool[v].scope /\ rows'[w].fetched # today' =>
            ~ rows'[w].auth /\ rows'[w].serving \notin Queryable

LEMMA CrawlFailsClosed ==
    ASSUME RecordsInv, NEW batch \in SUBSET DOMAIN pool, Crawl(batch)
    PROVE  ScopeFailsClosed
<1>1. PICK now : now = today + 1
      OBVIOUS
<1>2. Crawled(batch, now)
      BY <1>1, CrawlIs
<1>3. now \in Nat /\ today' = now /\ pending' \subseteq pending \cup Touched(batch)
      BY <1>2 DEF Crawled
<1>4. \A v \in Touched(batch) : rows'[v].fetched = IF v \in batch THEN now ELSE rows[v].fetched
      BY <1>2 DEF Crawled
<1>5. \A v \in batch : v \in pending' \ pending =>
          \A w \in Stored : pool[w].scope = pool[v].scope /\ w \notin batch =>
              ~ rows'[w].auth /\ rows'[w].serving \notin Queryable
      BY <1>2 DEF Crawled
<1>6. today \in Nat /\ \A v \in Stored : rows[v].fetched \in Nat /\ rows[v].fetched <= today
      BY PoolsAssumption DEF RecordsInv, RecordsTypeOK, RowsAreSound, Row
<1>7. batch \subseteq Touched(batch) /\ Touched(batch) \subseteq Stored \cup batch
      BY DEF Touched, Existing
<1>8. ASSUME NEW v \in Touched(batch), rows'[v].fetched = now
      PROVE  v \in batch
      <2> SUFFICES ASSUME v \notin batch PROVE FALSE
          OBVIOUS
      <2>1. v \in Stored
            BY <1>7
      <2>2. rows[v].fetched = now
            BY <1>4, <1>8
      <2> QED BY <1>1, <1>6, <2>1, <2>2
<1>9. \A w \in batch : rows'[w].fetched = now
      BY <1>4, <1>7
<1> SUFFICES ASSUME NEW v \in pending' \ pending, rows'[v].fetched = today',
                    NEW w \in Stored, pool[w].scope = pool[v].scope, rows'[w].fetched # today'
             PROVE  ~ rows'[w].auth /\ rows'[w].serving \notin Queryable
    BY DEF ScopeFailsClosed
<1>10. v \in batch /\ w \notin batch
       BY <1>3, <1>8, <1>9
<1> QED BY <1>5, <1>10

(* Whenever a crawl raises a review event for what it delivered, no row of  *)
(* the scope that it did not deliver stays authoritative or queryable.      *)
THEOREM ScopesFailClosed == RecordsSpec => FailsClosed
<1>1. RecordsInv /\ [RecordsNext]_vars => [ScopeFailsClosed]_vars
      <2> SUFFICES ASSUME RecordsInv, RecordsNext PROVE ScopeFailsClosed
          OBVIOUS
      <2>1. ASSUME NEW batch \in SUBSET DOMAIN pool, Crawl(batch) PROVE ScopeFailsClosed
            BY <2>1, CrawlFailsClosed
      <2>2. today' = today => ScopeFailsClosed
            BY DEF ScopeFailsClosed
      <2>3. ASSUME NEW v, NEW resolution, Resolve(v, resolution) PROVE today' = today
            BY <2>3 DEF Resolve
      <2>4. Reconcile \/ Build => today' = today
            BY DEF Reconcile, Build
      <2> QED BY <2>1, <2>2, <2>3, <2>4 DEF RecordsNext
<1> QED BY <1>1, RecordsInvariant, PTL DEF RecordsSpec, FailsClosed, ScopeFailsClosed

----------------------------------------------------------------------------
(* Rejections hold.                                                         *)

RejectionStays ==
    \A v \in DOMAIN resolved' :
        /\ today' = today
        /\ resolved'[v] = "rejected"
        /\ IF v \in DOMAIN resolved /\ resolved[v] = "rejected"
           THEN rows[v].verification = "rejected" ELSE TRUE
        => rows'[v].verification = "rejected" /\ ~ rows'[v].auth

(* Whoever is rejected is not authoritative. *)
LEMMA RejectedIsSilent ==
    ASSUME RecordsInv, NEW v \in Stored, rows[v].verification = "rejected"
    PROVE  ~ rows[v].auth
BY DEF RecordsInv, RowsAreSound, SoundRow

LEMMA ResolveRejects ==
    ASSUME RecordsInv, NEW u \in DOMAIN pool, NEW resolution \in {"verified", "rejected"},
           Resolve(u, resolution)
    PROVE  RejectionStays
<1>1. /\ u \in Stored /\ DOMAIN resolved \subseteq Stored /\ RecomputeScopeState(u, resolution)
      /\ resolved' = [w \in DOMAIN resolved \cup {u} |-> IF w = u THEN resolution ELSE resolved[w]]
      BY DEF Resolve, RecordsInv, RecordsTypeOK
<1>2. Recomputed(u, resolution)
      BY <1>1, RecomputeIs
<1>3. /\ \A w \in Stored : w \notin Affected(u) => rows'[w] = rows[w]
      /\ \A w \in Affected(u) : w \notin Alive(u, resolution) =>
             rows'[w].verification = "rejected" /\ ~ rows'[w].auth
      BY <1>2 DEF Recomputed
<1>4. u \in Affected(u)
      BY <1>1, AffectedIs
<1> SUFFICES ASSUME NEW v \in DOMAIN resolved', resolved'[v] = "rejected",
                    IF v \in DOMAIN resolved /\ resolved[v] = "rejected"
                    THEN rows[v].verification = "rejected" ELSE TRUE
             PROVE  rows'[v].verification = "rejected" /\ ~ rows'[v].auth
    BY DEF RejectionStays
<1>5. CASE v = u
      <2>1. resolution = "rejected"
            BY <1>1, <1>5
      <2>2. u \notin Alive(u, resolution)
            BY <2>1 DEF Alive
      <2> QED BY <1>3, <1>4, <1>5, <2>2
<1>6. CASE v # u
      <2>1. v \in DOMAIN resolved /\ resolved[v] = "rejected" /\ v \in Stored
            BY <1>1, <1>6
      <2>2. rows[v].verification = "rejected"
            BY <2>1
      <2>3. v \notin Alive(u, resolution)
            BY <1>6, <2>2 DEF Alive
      <2>4. CASE v \in Affected(u)
            BY <1>3, <2>3, <2>4
      <2>5. CASE v \notin Affected(u)
            BY <1>3, <2>1, <2>2, <2>5, RejectedIsSilent
      <2> QED BY <2>4, <2>5
<1> QED BY <1>5, <1>6

(* A reconciliation and a build verify nothing and authorise nothing. *)
LEMMA OthersRejectToo ==
    ASSUME RecordsInv, Reconcile \/ Build
    PROVE  RejectionStays
<1>1. resolved' = resolved /\ DOMAIN resolved \subseteq Stored
      BY DEF Reconcile, Build, RecordsInv, RecordsTypeOK
<1>2. ASSUME NEW v \in Stored
      PROVE  rows'[v].verification = rows[v].verification /\ (rows'[v].auth => rows[v].auth)
      <2>1. rows[v] \in Row
            BY DEF RecordsInv, RecordsTypeOK
      <2>2. CASE Reconcile
            <3>1. \/ rows'[v] = rows[v]
                  \/ rows'[v] = [rows[v] EXCEPT !.freshness = "contradictory", !.cand = FALSE,
                                     !.auth = FALSE,
                                     !.serving = IF @ = "indexed_active" THEN "pending_deindex"
                                                 ELSE "ineligible"]
                  BY <2>2 DEF Reconcile
            <3> QED BY <2>1, <3>1 DEF Row
      <2>3. CASE Build
            <3>1. \/ rows'[v] = rows[v]
                  \/ \E s \in {"indexed_active", "deindexed"} : rows'[v] = [rows[v] EXCEPT !.serving = s]
                  BY <2>3 DEF Build
            <3> QED BY <2>1, <3>1 DEF Row
      <2> QED BY <2>2, <2>3
<1> SUFFICES ASSUME NEW v \in Stored, rows[v].verification = "rejected"
             PROVE  rows'[v].verification = "rejected" /\ ~ rows'[v].auth
    BY <1>1 DEF RejectionStays
<1> QED BY <1>2, RejectedIsSilent

(* A rejection takes effect with the review that decides it, and later      *)
(* reviews, reconciliations and builds leave it in force.                   *)
THEOREM RejectionsHold == RecordsSpec => RejectionHolds
<1>1. RecordsInv /\ [RecordsNext]_vars => [RejectionStays]_vars
      <2> SUFFICES ASSUME RecordsInv, RecordsNext PROVE RejectionStays
          OBVIOUS
      <2>1. ASSUME NEW batch, Crawl(batch) PROVE RejectionStays
            <3>1. today \in Nat /\ today' = today + 1
                  BY <2>1, PoolsAssumption DEF Crawl, RecordsInv, RecordsTypeOK
            <3>2. today' # today
                  BY <3>1
            <3> QED BY <3>2 DEF RejectionStays
      <2>2. ASSUME NEW v \in DOMAIN pool, NEW resolution \in {"verified", "rejected"},
                   Resolve(v, resolution)
            PROVE  RejectionStays
            BY <2>2, ResolveRejects
      <2>3. CASE Reconcile \/ Build
            BY <2>3, OthersRejectToo
      <2> QED BY <2>1, <2>2, <2>3 DEF RecordsNext
<1> QED BY <1>1, RecordsInvariant, PTL DEF RecordsSpec, RejectionHolds, RejectionStays

----------------------------------------------------------------------------
(* The audit after a build.                                                 *)

(* Two primaries of one key are one version. *)
LEMMA OnePrimary ==
    ASSUME NEW L \in SUBSET Candidates, NEW c \in Primaries(L), NEW d \in Primaries(L),
           c.key = d.key
    PROVE  c.ver = d.ver
<1>1. SameKey(c, L) = SameKey(d, L)
      BY DEF SameKey
<1>2. c \in L /\ d \in L /\ c.ver \in Nat /\ d.ver \in Nat
      BY DEF Primaries, Candidates
<1>3. PICK W : W = WinningTier(SameKey(c, L))
      OBVIOUS
<1>4. c \in W /\ d \in W /\ (\A e \in W : c.ver <= e.ver) /\ (\A e \in W : d.ver <= e.ver)
      BY <1>1, <1>3 DEF Primaries
<1>5. c.ver <= d.ver /\ d.ver <= c.ver
      BY <1>4
<1> QED BY <1>2, <1>5

(* Where nothing conflicts, every key has a primary. *)
LEMMA HasPrimary ==
    ASSUME NEW L \in SUBSET Candidates, DedupeConflicts(L) = {}, NEW c \in L
    PROVE  \E p \in Primaries(L) : p.key = c.key
<1>1. PICK G : G = SameKey(c, L)
      OBVIOUS
<1>2. c \in G /\ G \subseteq L /\ \A d \in G : d.key = c.key /\ d.tier \in Nat /\ d.ver \in Nat
      BY <1>1 DEF SameKey, Candidates
<1>3. PICK b \in G : \A d \in G : b.tier <= d.tier
      <2> DEFINE N == {d.tier : d \in G}
      <2>1. N \in SUBSET Nat /\ N # {}
            BY <1>2
      <2>2. PICK n \in N : \A m \in N : n <= m
            BY <2>1, LeastNumber
      <2> QED BY <2>2
<1>4. PICK W : W = WinningTier(G)
      OBVIOUS
<1>5. b \in W /\ W \subseteq G
      BY <1>3, <1>4 DEF WinningTier
<1>6. PICK p \in W : \A d \in W : p.ver <= d.ver
      <2> DEFINE N == {d.ver : d \in W}
      <2>1. N \in SUBSET Nat /\ N # {}
            BY <1>2, <1>5
      <2>2. PICK n \in N : \A m \in N : n <= m
            BY <2>1, LeastNumber
      <2> QED BY <2>2
<1>7. p \in L /\ p.key = c.key
      BY <1>2, <1>5
<1>8. WinningTier(SameKey(p, L)) = W
      BY <1>1, <1>4, <1>7 DEF SameKey
<1> QED BY <1>6, <1>7, <1>8 DEF Primaries

(* What is left when other candidates than the primaries go has the same    *)
(* primaries.                                                               *)
LEMMA PrimariesStay ==
    ASSUME NEW L \in SUBSET Candidates, DedupeConflicts(L) = {}, NEW M \in SUBSET L,
           Primaries(L) \subseteq M
    PROVE  Primaries(M) = Primaries(L)
<1>1. \A c \in L : c.tier \in Nat /\ c.ver \in Nat
      BY DEF Candidates
<1>2. ASSUME NEW p \in Primaries(L)
      PROVE  p \in Primaries(M)
      <2>1. PICK W : W = WinningTier(SameKey(p, L))
            OBVIOUS
      <2>2. p \in W /\ p \in M /\ \A d \in W : p.ver <= d.ver
            BY <2>1 DEF Primaries
      <2>3. \A d, e \in W : SameValue(d, e)
            BY <2>1, <2>2 DEF DedupeConflicts
      <2>4. PICK V : V = WinningTier(SameKey(p, M))
            OBVIOUS
      <2>5. p \in V
            BY <2>1, <2>2, <2>4 DEF WinningTier, SameKey
      <2>6. V \subseteq W
            <3> SUFFICES ASSUME NEW d \in V PROVE d \in W
                OBVIOUS
            <3>1. d \in M /\ d.key = p.key /\ d.tier <= p.tier
                  BY <2>4, <2>5 DEF WinningTier, SameKey
            <3>2. \A e \in SameKey(p, L) : p.tier <= e.tier
                  BY <2>1, <2>2 DEF WinningTier
            <3>3. \A e \in SameKey(p, L) : e \in L
                  BY DEF SameKey
            <3>4. \A e \in SameKey(p, L) : d.tier <= e.tier
                  BY <1>1, <3>1, <3>2, <3>3
            <3> QED BY <2>1, <3>1, <3>4 DEF WinningTier, SameKey
      <2>7. p \notin DedupeConflicts(M)
            BY <2>3, <2>4, <2>6 DEF DedupeConflicts
      <2> QED BY <2>2, <2>4, <2>5, <2>6, <2>7 DEF Primaries
<1>3. ASSUME NEW c \in Primaries(M)
      PROVE  c \in Primaries(L)
      <2>1. c \in M /\ c \in L
            BY DEF Primaries
      <2>2. PICK p \in Primaries(L) : p.key = c.key
            BY <2>1, HasPrimary
      <2>3. SameKey(c, M) = SameKey(p, M) /\ SameKey(c, L) = SameKey(p, L)
            BY <2>2 DEF SameKey
      <2>4. PICK W : W = WinningTier(SameKey(p, L))
            OBVIOUS
      <2>5. p \in W /\ (\A d \in W : p.ver <= d.ver) /\ p \in M
            BY <2>4 DEF Primaries
      <2>6. p \in WinningTier(SameKey(c, M))
            BY <1>2, <2>2, <2>3 DEF Primaries
      <2>7. c.tier <= p.tier /\ c.ver <= p.ver
            BY <2>1, <2>2, <2>5, <2>6 DEF Primaries, WinningTier, SameKey
      <2>8. c \in W
            <3>1. \A e \in SameKey(p, L) : p.tier <= e.tier /\ e \in L
                  BY <2>4, <2>5 DEF WinningTier, SameKey
            <3>2. \A e \in SameKey(p, L) : c.tier <= e.tier
                  BY <1>1, <2>1, <2>5, <2>7, <3>1
            <3> QED BY <2>1, <2>2, <2>4, <3>2 DEF WinningTier, SameKey
      <2>9. \A d \in W : c.ver <= d.ver
            <3>1. \A d \in W : d \in L
                  BY <2>4 DEF WinningTier, SameKey
            <3> QED BY <1>1, <2>1, <2>5, <2>7, <3>1
      <2> QED BY <2>1, <2>3, <2>4, <2>8, <2>9 DEF Primaries
<1> QED BY <1>2, <1>3

(* A build takes out only what was loaded and is no primary. *)
LEMMA BuildLeaves ==
    ASSUME RecordsInv, Build, NEW L, L = LoadedFrom(rows), NEW M, M = LoadedFrom(rows')
    PROVE  /\ L \in SUBSET Candidates /\ \A c \in L : c.key = pool[c.ver].key
           /\ M \subseteq L /\ Primaries(L) \subseteq M
           /\ indexed' = Versions(Primaries(L))
<1>1. /\ pool \in Pools /\ Stored \subseteq DOMAIN pool
      /\ \A v \in Stored : rows[v] \in Row /\ rows[v].fetched \in Nat
      BY DEF RecordsInv, RecordsTypeOK, Row
<1>2. PICK P : P = Versions(Primaries(L))
      OBVIOUS
<1>3. /\ indexed' = P
      /\ rows' = [v \in Stored |->
             IF v \in P THEN [rows[v] EXCEPT !.serving = "indexed_active"]
             ELSE IF v \in indexed THEN [rows[v] EXCEPT !.serving = "deindexed"]
             ELSE rows[v]]
      BY <1>2 DEF Build
<1>4. ASSUME NEW c \in L
      PROVE  /\ c.ver \in Stored /\ c = Candidate(c.ver) /\ c \in Candidates
             /\ c.key = pool[c.ver].key
             /\ rows[c.ver].auth /\ rows[c.ver].freshness = "current"
             /\ rows[c.ver].verification = "verified"
      <2>1. /\ c.ver \in Stored /\ c = Candidate(c.ver)
            /\ rows[c.ver].auth /\ rows[c.ver].freshness = "current"
            /\ rows[c.ver].verification = "verified"
            BY <1>1, LoadedIs
      <2>2. c = [pool[c.ver] EXCEPT !.fetched = rows[c.ver].fetched] /\ c.ver \in DOMAIN pool
            BY <1>1, <2>1 DEF Candidate, Fetched
      <2>3. pool[c.ver] \in Candidates
            BY <1>1, <2>2, PoolIs
      <2>4. c \in Candidates /\ c.key = pool[c.ver].key
            BY <1>1, <2>1, <2>2, <2>3 DEF Candidates
      <2> QED BY <2>1, <2>4
<1>5. P \subseteq Stored
      BY <1>2, <1>4 DEF Versions, Primaries
<1>6. ASSUME NEW v \in Stored
      PROVE  /\ rows'[v].fetched = rows[v].fetched /\ rows'[v].auth = rows[v].auth
             /\ rows'[v].freshness = rows[v].freshness
             /\ rows'[v].verification = rows[v].verification
             /\ v \in P => rows'[v].serving = "indexed_active"
             /\ v \notin P => rows'[v].serving \in {rows[v].serving, "deindexed"}
      <2>1. CASE v \in P
            <3>1. rows'[v] = [rows[v] EXCEPT !.serving = "indexed_active"]
                  BY <1>3, <2>1
            <3> QED BY <1>1, <2>1, <3>1 DEF Row
      <2>2. CASE v \notin P
            <3>1. rows'[v] = rows[v] \/ rows'[v] = [rows[v] EXCEPT !.serving = "deindexed"]
                  BY <1>3, <2>2
            <3> QED BY <1>1, <2>2, <3>1 DEF Row
      <2> QED BY <2>1, <2>2
<1>7. DOMAIN rows' = Stored
      BY <1>3
<1>8. ASSUME NEW c \in M PROVE c \in L
      <2>1. PICK v \in Stored : /\ c = [pool[v] EXCEPT !.fetched = rows'[v].fetched]
                                /\ rows'[v].auth /\ rows'[v].serving \in Queryable
                                /\ rows'[v].freshness = "current"
                                /\ rows'[v].verification = "verified"
            BY <1>7 DEF LoadedFrom
      <2>2. c = [pool[v] EXCEPT !.fetched = rows[v].fetched]
            BY <1>6, <2>1
      <2>3. rows[v].auth /\ rows[v].freshness = "current" /\ rows[v].verification = "verified"
            BY <1>6, <2>1
      <2>4. CASE v \in P
            <3>1. PICK e \in L : e.ver = v
                  BY <1>2, <2>4 DEF Versions, Primaries
            <3>2. e = Candidate(v)
                  BY <1>4, <3>1
            <3> QED BY <2>2, <3>1, <3>2 DEF Candidate, Fetched
      <2>5. CASE v \notin P
            <3>1. rows'[v].serving \in {rows[v].serving, "deindexed"}
                  BY <1>6, <2>5
            <3>2. rows[v].serving \in Queryable
                  BY <2>1, <3>1 DEF Queryable
            <3> QED BY <2>2, <2>3, <3>2 DEF LoadedFrom, Stored
      <2> QED BY <2>4, <2>5
<1>9. ASSUME NEW c \in Primaries(L) PROVE c \in M
      <2>1. c \in L /\ c.ver \in P
            BY <1>2 DEF Versions, Primaries
      <2>2. PICK v \in Stored : v = c.ver
            BY <1>4, <2>1
      <2>3. c = [pool[v] EXCEPT !.fetched = rows'[v].fetched]
            BY <1>4, <1>6, <2>1, <2>2 DEF Candidate, Fetched
      <2>4. rows'[v].auth /\ rows'[v].freshness = "current" /\ rows'[v].verification = "verified"
            BY <1>4, <1>6, <2>1, <2>2
      <2>5. rows'[v].serving \in Queryable
            BY <1>6, <2>1, <2>2 DEF Queryable
      <2> QED BY <1>7, <2>3, <2>4, <2>5 DEF LoadedFrom
<1> QED BY <1>2, <1>3, <1>4, <1>8, <1>9

CountsAgree ==
    indexed' # indexed /\ DedupeConflicts(LoadedFrom(rows)) = {} =>
        /\ indexed' = Versions(Primaries(LoadedFrom(rows')))
        /\ \A v, w \in indexed' : pool[v].key = pool[w].key => v = w

LEMMA BuildAgrees ==
    ASSUME RecordsInv, Build
    PROVE  CountsAgree
<1>1. PICK L : L = LoadedFrom(rows)
      OBVIOUS
<1>2. PICK M : M = LoadedFrom(rows')
      OBVIOUS
<1>3. /\ L \in SUBSET Candidates /\ \A c \in L : c.key = pool[c.ver].key
      /\ M \subseteq L /\ Primaries(L) \subseteq M
      /\ indexed' = Versions(Primaries(L))
      BY <1>1, <1>2, BuildLeaves
<1> SUFFICES ASSUME DedupeConflicts(L) = {}
             PROVE  /\ indexed' = Versions(Primaries(M))
                    /\ \A v, w \in indexed' : pool[v].key = pool[w].key => v = w
    BY <1>1, <1>2 DEF CountsAgree
<1>4. Primaries(M) = Primaries(L)
      BY <1>3, PrimariesStay
<1>5. ASSUME NEW v \in indexed', NEW w \in indexed', pool[v].key = pool[w].key
      PROVE  v = w
      <2>1. PICK c \in Primaries(L) : c.ver = v
            BY <1>3 DEF Versions
      <2>2. PICK d \in Primaries(L) : d.ver = w
            BY <1>3 DEF Versions
      <2>3. c.key = d.key
            <3>1. c \in L /\ d \in L
                  BY DEF Primaries
            <3> QED BY <1>3, <1>5, <2>1, <2>2, <3>1
      <2> QED BY <1>3, <2>1, <2>2, <2>3, OnePrimary
<1> QED BY <1>3, <1>4, <1>5

(* After every build of reconciled records the index holds what the audit   *)
(* counts as primaries, and every deduplication key once.                   *)
THEOREM AuditsPass == RecordsSpec => AuditPasses
<1>1. RecordsInv /\ [RecordsNext]_vars => [CountsAgree]_vars
      <2> SUFFICES ASSUME RecordsInv, RecordsNext PROVE CountsAgree
          OBVIOUS
      <2>1. CASE Build
            BY <2>1, BuildAgrees
      <2>2. ASSUME NEW batch, Crawl(batch) PROVE indexed' = indexed
            BY <2>2 DEF Crawl
      <2>3. ASSUME NEW v, NEW resolution, Resolve(v, resolution) PROVE indexed' = indexed
            BY <2>3 DEF Resolve
      <2>4. Reconcile => indexed' = indexed
            BY DEF Reconcile
      <2>5. indexed' = indexed => CountsAgree
            BY DEF CountsAgree
      <2> QED BY <2>1, <2>2, <2>3, <2>4, <2>5 DEF RecordsNext
<1> QED BY <1>1, RecordsInvariant, PTL DEF RecordsSpec, AuditPasses, CountsAgree

=============================================================================
