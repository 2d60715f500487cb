--------------------------- MODULE AnsweringProofs ---------------------------
(***************************************************************************)
(* Theorems about Answering, for any records, requests, drafts, rankings,  *)
(* scores and settings.                                                    *)
(*                                                                         *)
(* The evidence is numbered by counting what ranks before it.  That every  *)
(* number up to the count is given out once (NumberedIs) is what citations *)
(* and prompt rest on; it holds because no chunk is found twice, so that   *)
(* the order of the evidence is total (EvidenceIs, BeforeIs).              *)
(***************************************************************************)
EXTENDS Answering, FiniteSetTheorems, TLAPS

Pieces == [v : Nat, i : Nat, tier : Nat, score : Int]

(* Finitely many pieces of evidence, of different chunks. *)
Distinct(S) ==
    /\ S \in SUBSET Pieces /\ IsFiniteSet(S)
    /\ \A a, b \in S : a.v = b.v /\ a.i = b.i => a = b

-----------------------------------------------------------------------------
(* Finite sets.                                                             *)

LEMMA ImageIsFinite ==
    ASSUME NEW S, IsFiniteSet(S), NEW f, NEW T, T = {f[x] : x \in S}
    PROVE  IsFiniteSet(T)
<1> DEFINE g == [x \in S |-> f[x]]
<1>1. g \in [S -> T] /\ \A y \in T : \E x \in S : g[x] = y
      OBVIOUS
<1>2. g \in Surjection(S, T)
      BY <1>1 DEF Surjection
<1> QED BY <1>2, FS_Surjection

LEMMA PairMin ==
    ASSUME NEW a \in Int, NEW b \in Int, NEW m, m = Min({a, b})
    PROVE  m \in {a, b} /\ m <= a /\ m <= b
<1>1. \E x \in {a, b} : \A y \in {a, b} : x <= y
      OBVIOUS
<1> QED BY <1>1 DEF Min

LEMMA PairMax ==
    ASSUME NEW a \in Int, NEW b \in Int, NEW m, m = Max({a, b})
    PROVE  m \in {a, b} /\ m >= a /\ m >= b
<1>1. \E x \in {a, b} : \A y \in {a, b} : x >= y
      OBVIOUS
<1> QED BY <1>1 DEF Max

-----------------------------------------------------------------------------
(* The order of the evidence.                                               *)

LEMMA BeforeIs ==
    ASSUME NEW S, Distinct(S), NEW a \in S, NEW b \in S, NEW c \in S
    PROVE  /\ ~ Before(a, a)
           /\ Before(a, b) /\ Before(b, c) => Before(a, c)
           /\ a # b => Before(a, b) \/ Before(b, a)
<1>1. /\ a.v \in Nat /\ a.i \in Nat /\ a.score \in Int
      /\ b.v \in Nat /\ b.i \in Nat /\ b.score \in Int
      /\ c.v \in Nat /\ c.i \in Nat /\ c.score \in Int
      BY DEF Distinct, Pieces
<1>2. a # b => a.v # b.v \/ a.i # b.i
      BY DEF Distinct
<1>3. ~ Before(a, a)
      BY <1>1 DEF Before
<1>4. Before(a, b) /\ Before(b, c) => Before(a, c)
      BY <1>1 DEF Before
<1>5. a # b => Before(a, b) \/ Before(b, a)
      BY <1>1, <1>2 DEF Before
<1> QED BY <1>3, <1>4, <1>5

LEMMA PlaceIs ==
    ASSUME NEW S, Distinct(S), NEW a \in S
    PROVE  /\ Place(S, a) \in 1 .. Cardinality(S)
           /\ \A b \in S : Place(S, a) = Place(S, b) => a = b
<1> DEFINE E(e) == {d \in S : Before(d, e)}
<1>1. IsFiniteSet(S) /\ Cardinality(S) \in Nat
      BY FS_CardinalityType DEF Distinct
<1>2. ASSUME NEW e \in S
      PROVE  /\ IsFiniteSet(E(e)) /\ Cardinality(E(e)) \in Nat /\ Cardinality(E(e)) <= Cardinality(S)
             /\ Cardinality(E(e)) # Cardinality(S)
      <2>1. E(e) \in SUBSET S /\ e \notin E(e)
            BY BeforeIs
      <2>2. E(e) # S
            BY <2>1
      <2> HIDE DEF E
      <2> QED BY <1>1, <2>1, <2>2, FS_Subset, FS_CardinalityType
<1>3. ASSUME NEW d \in S, NEW e \in S, Before(d, e)
      PROVE  Cardinality(E(d)) # Cardinality(E(e))
      <2>1. E(d) \in SUBSET E(e) /\ d \in E(e) /\ d \notin E(d)
            BY <1>3, BeforeIs
      <2>2. IsFiniteSet(E(e))
            BY <1>2
      <2> HIDE DEF E
      <2> QED BY <2>1, <2>2, FS_Subset
<1>4. \A e \in S : Place(S, e) = 1 + Cardinality(E(e))
      BY DEF Place
<1> HIDE DEF E
<1>5. Place(S, a) \in 1 .. Cardinality(S)
      <2>1. PICK n \in Nat : n = Cardinality(E(a))
            BY <1>2
      <2>2. n <= Cardinality(S) /\ n # Cardinality(S) /\ Place(S, a) = 1 + n
            BY <1>2, <1>4, <2>1
      <2> QED BY <1>1, <2>2
<1>6. ASSUME NEW b \in S, Place(S, a) = Place(S, b) PROVE a = b
      <2>1. Cardinality(E(a)) = Cardinality(E(b))
            <3>1. Cardinality(E(a)) \in Nat /\ Cardinality(E(b)) \in Nat
                  BY <1>2
            <3>2. 1 + Cardinality(E(a)) = 1 + Cardinality(E(b))
                  BY <1>4, <1>6
            <3> QED BY <3>1, <3>2
      <2> QED BY <1>3, <2>1, BeforeIs
<1> QED BY <1>5, <1>6

(* Numbering a set gives each number up to its size to one member. *)
LEMMA NumberedIs ==
    ASSUME NEW S, Distinct(S), NEW s, s = Numbered(S)
    PROVE  /\ DOMAIN s = 1 .. Cardinality(S)
           /\ \A n \in DOMAIN s : s[n] \in S
<1> DEFINE f == [e \in S |-> Place(S, e)]
           N == 1 .. Cardinality(S)
<1>1. IsFiniteSet(S) /\ Cardinality(S) \in Nat
      BY FS_CardinalityType DEF Distinct
<1>2. IsFiniteSet(N) /\ Cardinality(N) = Cardinality(S)
      BY <1>1, FS_Interval
<1>3. f \in [S -> N] /\ \A a, b \in S : f[a] = f[b] => a = b
      <2>1. \A e \in S : f[e] = Place(S, e)
            OBVIOUS
      <2>2. \A e \in S : Place(S, e) \in N /\ \A b \in S : Place(S, e) = Place(S, b) => e = b
            BY PlaceIs
      <2> QED BY <2>2
<1>4. \A e \in S : f[e] = Place(S, e)
      OBVIOUS
<1> HIDE DEF f, N
<1>5. f \in Injection(S, N)
      BY <1>3 DEF Injection, IsInjective
<1>6. f \in Surjection(S, N)
      BY <1>1, <1>2, <1>5, FS_Injection
<1>7. \A n \in N : \E e \in S : Place(S, e) = n
      BY <1>4, <1>6 DEF Surjection
<1>8. s = [n \in N |-> CHOOSE e \in S : Place(S, e) = n]
      BY DEF Numbered, N
<1>9. \A n \in N : s[n] \in S
      BY <1>7, <1>8
<1> QED BY <1>8, <1>9 DEF N

-----------------------------------------------------------------------------
(* The evidence that a search finds, and the part that is selected.         *)

LEMMA TierIs ==
    ASSUME NEW v \in Versions, NEW hint, NEW t, t = Tier(v, hint)
    PROVE  t \in Nat \ {0} /\ Decay[Min({t, 5})] \in Int
<1>1. Record[v].tier \in Nat \ {0}
      BY RecordAssumption
<1>2. t \in Nat \ {0}
      <2>1. PICK shift \in {0, 1, 2} :
                t = IF shift = 0 THEN Record[v].tier ELSE Max({1, Record[v].tier - shift})
            BY DEF Tier
      <2>2. CASE shift = 0
            BY <1>1, <2>1, <2>2
      <2>3. CASE shift # 0
            <3>1. PICK x \in Int : x = Record[v].tier - shift
                  BY <1>1
            <3>2. t = Max({1, x})
                  BY <2>1, <2>3, <3>1
            <3>3. t \in {1, x} /\ t >= 1
                  BY <3>2, PairMax
            <3> QED BY <3>3
      <2> QED BY <2>2, <2>3
<1>3. PICK m : m = Min({t, 5})
      OBVIOUS
<1>4. m \in {t, 5} /\ m <= 5
      <2>1. PICK b \in Int : b = 5
            OBVIOUS
      <2>2. t \in Int /\ m = Min({t, b})
            BY <1>2, <1>3, <2>1
      <2>3. m \in {t, b} /\ m <= b
            BY <2>1, <2>2, PairMin
      <2> QED BY <2>1, <2>3
<1>5. m \in 1 .. 5
      BY <1>2, <1>4
<1>6. \A k \in 1 .. 5 : Decay[k] \in Int
      BY DEF Decay
<1> QED BY <1>2, <1>3, <1>5, <1>6

LEMMA SearchableIs ==
    /\ IsFiniteSet(Searchable)
    /\ \A c \in Searchable : c \in Nat \X Nat /\ c[1] \in Versions
<1> DEFINE V == UNION {Matching(r, Versions) : r \in SearchedRoutes}
           f == [v \in V |-> Chunks(v)]
           C == {f[v] : v \in V}
<1>1. V \in SUBSET Versions
      BY DEF Matching
<1>2. IsFiniteSet(V)
      BY <1>1, VersionsAssumption, FS_Subset
<1>3. Searchable = UNION C
      BY DEF Searchable
<1> HIDE DEF V
<1>4. ASSUME NEW v \in V
      PROVE  IsFiniteSet(Chunks(v)) /\ \A c \in Chunks(v) : c \in Nat \X Nat /\ c[1] \in Versions
      <2>1. v \in Versions /\ v \in Nat /\ Record[v].chunks \in Nat
            BY <1>1, VersionsAssumption, RecordAssumption
      <2> DEFINE N == 1 .. Record[v].chunks
                 g == [i \in N |-> <<v, i>>]
      <2>2. IsFiniteSet(N)
            BY <2>1, FS_Interval
      <2>3. Chunks(v) = {g[i] : i \in N}
            BY DEF Chunks
      <2>4. IsFiniteSet(Chunks(v))
            <3> HIDE DEF N, g
            <3> QED BY <2>2, <2>3, ImageIsFinite
      <2> QED BY <2>1, <2>4 DEF Chunks
<1>5. IsFiniteSet(C)
      <2>1. PICK g : g = f
            OBVIOUS
      <2>2. C = {g[v] : v \in V}
            BY <2>1
      <2> HIDE DEF f, C
      <2> QED BY <1>2, <2>2, ImageIsFinite
<1>6. \A T \in C : IsFiniteSet(T) /\ \A c \in T : c \in Nat \X Nat /\ c[1] \in Versions
      BY <1>4
<1> HIDE DEF C
<1>7. IsFiniteSet(UNION C)
      BY <1>5, <1>6, FS_UNION
<1> QED BY <1>3, <1>6, <1>7

(* No chunk is found twice, whatever the scores are. *)
LEMMA EvidenceIs ==
    ASSUME NEW score \in Scored, NEW routes, NEW hint,
           NEW S, S = Relevant(Decayed(Hydrated(Found(score), routes), hint))
    PROVE  Distinct(S)
<1> DEFINE D == {d \in Searchable : score[d] >= 0}
           Item(c) == [v |-> c[1], i |-> c[2], score |-> score[c]]
           Worth(e) == [v |-> e.v, i |-> e.i, tier |-> Tier(e.v, hint),
                        score |-> e.score * Decay[Min({Tier(e.v, hint), 5})]]
           f == [c \in D |-> Worth(Item(c))]
<1>1. DOMAIN score = Searchable /\ \A c \in Searchable : score[c] \in Int
      <2>1. score \in [Searchable -> Scores \cup {-1}]
            BY DEF Scored
      <2>2. PICK X : X = Scores \cup {-1}
            OBVIOUS
      <2>3. X \subseteq Int
            BY <2>2, ScoresAssumption
      <2>4. PICK Y : Y = Searchable
            OBVIOUS
      <2>5. score \in [Y -> X]
            BY <2>1, <2>2, <2>4
      <2> QED BY <2>3, <2>4, <2>5
<1>2. IsFiniteSet(D)
      BY SearchableIs, FS_Subset
<1>3. \A c \in D : c \in Nat \X Nat /\ c[1] \in Versions /\ score[c] \in Int
      BY <1>1, SearchableIs
<1>4. Found(score) = {Item(c) : c \in D}
      BY <1>1 DEF Found
<1>5. \A e \in S : \E c \in D : e = Worth(Item(c))
      BY <1>4 DEF Relevant, Decayed, Hydrated
<1> HIDE DEF D
<1>6. ASSUME NEW c \in D
      PROVE  /\ Worth(Item(c)) \in Pieces
             /\ Worth(Item(c)).v = c[1] /\ Worth(Item(c)).i = c[2]
      <2>1. Item(c).v = c[1] /\ Item(c).i = c[2] /\ Item(c).score = score[c]
            OBVIOUS
      <2>2. Tier(c[1], hint) \in Nat /\ Decay[Min({Tier(c[1], hint), 5})] \in Int
            BY <1>3, TierIs
      <2>3. c[1] \in Nat /\ c[2] \in Nat /\ score[c] \in Int
            BY <1>3
      <2>4. score[c] * Decay[Min({Tier(c[1], hint), 5})] \in Int
            BY <2>2, <2>3
      <2> QED BY <2>1, <2>2, <2>3, <2>4 DEF Pieces
<1>7. IsFiniteSet(S)
      <2> DEFINE T == {f[c] : c \in D}
      <2>1. IsFiniteSet(T)
            <3>1. PICK g : g = f
                  OBVIOUS
            <3>2. T = {g[c] : c \in D}
                  BY <3>1
            <3> HIDE DEF T, f
            <3> QED BY <1>2, <3>2, ImageIsFinite
      <2>2. S \in SUBSET T
            <3> HIDE DEF Worth, Item
            <3> QED BY <1>5
      <2> HIDE DEF T
      <2> QED BY <2>1, <2>2, FS_Subset
<1> HIDE DEF Worth, Item
<1>8. ASSUME NEW a \in S, NEW b \in S, a.v = b.v, a.i = b.i
      PROVE  a = b
      <2>1. PICK c \in D : a = Worth(Item(c))
            BY <1>5
      <2>2. PICK d \in D : b = Worth(Item(d))
            BY <1>5
      <2>3. c[1] = d[1] /\ c[2] = d[2]
            BY <1>6, <1>8, <2>1, <2>2
      <2>4. c = d
            BY <1>3, <2>3
      <2> QED BY <2>1, <2>2, <2>4
<1>9. S \in SUBSET Pieces
      BY <1>5, <1>6
<1> QED BY <1>7, <1>8, <1>9 DEF Distinct

(* Evidence that is selected leads its key. *)
LEMMA PrimaryLeads ==
    ASSUME NEW S, NEW e \in PrimaryHits(S)
    PROVE  e \in S /\ \A d \in S : Record[d.v].key = Record[e.v].key => e.tier <= d.tier
<1> DEFINE ofKey == {{d \in S : Record[d.v].key = Record[a.v].key} : a \in S}
           winning(G) == {d \in G : \A x \in G : d.tier <= x.tier}
           agree(W) == \A a, b \in W : Record[a.v].value = Record[b.v].value
           best(W) == {a \in W : a.v \in VersionsOf(Top(W, 1))}
<1>1. PrimaryHits(S) = UNION {IF agree(W) THEN best(W) ELSE W : W \in {winning(G) : G \in ofKey}}
      BY DEF PrimaryHits
<1>2. \E G \in ofKey : e \in winning(G)
      <2> HIDE DEF ofKey, winning, agree
      <2> QED BY <1>1
<1>3. PICK a \in S : e \in winning({d \in S : Record[d.v].key = Record[a.v].key})
      BY <1>2
<1> QED BY <1>3

LEMMA TopIsPart == \A S, n : Top(S, n) \subseteq S
BY DEF Top

LEMMA SelectionIsPart ==
    ASSUME NEW S, NEW target, NEW type, NEW limit, NEW D, D = Diverse(S, target),
           NEW H, H = Reserved(D, type, limit)
    PROVE  H \subseteq S
<1>1. D \subseteq S
      BY TopIsPart DEF Diverse
<1>2. H \subseteq D
      BY TopIsPart DEF Reserved
<1> QED BY <1>1, <1>2

-----------------------------------------------------------------------------
(* The inductive invariant.                                                 *)

(* What the model is shown is clean, selected evidence, and a citation      *)
(* names what is shown under its number.                                    *)
Shown ==
    /\ \A n \in DOMAIN prompt : prompt[n] \in Clean(hits)
    /\ \A n \in DOMAIN citations : n \in DOMAIN prompt /\ citations[n] = prompt[n]

Selecting == {"classify", "retrieve", "select"}

(* An answer was validated, and grounded unless that was skipped. *)
Checked ==
    /\ pc = "done"
    /\ result.claims = Normalized(draft.claims) /\ ValidClaims(result.claims)
    /\ GroundingMode = "full" => \E loaded \in BOOLEAN : Verdict(GroundedClaims, loaded) = "grounded"

AnswerInv ==
    /\ Distinct(evidence)
    /\ hits \subseteq PrimaryHits(evidence)
    /\ pc \in Selecting => hits = {}
    /\ pc \in Selecting \cup {"validate"} => prompt = <<>> /\ citations = <<>>
    /\ Shown
    /\ draft.claims \in Claims
    /\ Answered => Checked

LEMMA AnswerStarts == AnswerInit => AnswerInv
<1> SUFFICES ASSUME AnswerInit PROVE AnswerInv
    OBVIOUS
<1>1. /\ evidence = {} /\ hits = {} /\ prompt = <<>> /\ citations = <<>>
      /\ draft = NoDraft /\ result = NoResult
      BY DEF AnswerInit
<1>2. Distinct(evidence)
      BY <1>1, FS_EmptySet DEF Distinct
<1>3. Shown
      BY <1>1 DEF Shown
<1>4. draft.claims \in Claims
      BY <1>1 DEF NoDraft, Claims
<1>5. ~ Answered
      BY <1>1 DEF NoResult, Answered
<1> QED BY <1>1, <1>2, <1>3, <1>4, <1>5 DEF AnswerInv

(* Before the end there is no answer, and an abstention is none. *)
LEMMA NotYet ==
    ASSUME AnswerInv, pc # "done"
    PROVE  ~ Answered
BY DEF AnswerInv, Checked

LEMMA AbstainedIs == \A why : Abstained(why).status # "answered"
BY DEF Abstained

(* A step that writes neither evidence nor what is shown. *)
LEMMA QuietStep ==
    ASSUME AnswerInv, evidence' = evidence, hits' = hits, prompt' = prompt,
           citations' = citations, draft'.claims \in Claims, ~ Answered',
           pc' \in Selecting => pc \in Selecting,
           pc' = "validate" => pc \in Selecting \cup {"validate"}
    PROVE  AnswerInv'
<1>1. Shown'
      BY DEF AnswerInv, Shown
<1> QED BY <1>1 DEF AnswerInv

LEMMA ClassifyKeeps ==
    ASSUME AnswerInv, NEW above, Classify(above)
    PROVE  AnswerInv'
<1>1. /\ pc = "classify" /\ evidence' = evidence /\ hits' = hits /\ prompt' = prompt
      /\ citations' = citations /\ draft' = draft
      BY DEF Classify
<1>2. \E c, secondary : Resolve(c, secondary)
      BY DEF Classify
<1>3. \/ result' = result
      \/ \E why : result' = Abstained(why)
      BY <1>2 DEF Resolve, Finish
<1>4. ~ Answered'
      BY <1>1, <1>3, NotYet, AbstainedIs DEF Answered
<1>5. pc' # "validate"
      BY <1>2 DEF Resolve, Finish
<1>6. draft'.claims \in Claims
      BY <1>1 DEF AnswerInv
<1> QED BY <1>1, <1>4, <1>5, <1>6, QuietStep DEF Selecting

LEMMA RetrieveKeeps ==
    ASSUME AnswerInv, Retrieve
    PROVE  AnswerInv'
<1>1. /\ pc = "retrieve" /\ pc' \in {"retrieve", "select"}
      /\ hits' = hits /\ prompt' = prompt /\ citations' = citations /\ draft' = draft
      /\ result' = result
      BY DEF Retrieve
<1>2. PICK score \in Scored :
          evidence' = Relevant(Decayed(Hydrated(Found(score), SearchedRoutes), route.class))
      BY DEF Retrieve
<1>3. Distinct(evidence')
      BY <1>2, EvidenceIs
<1>4. hits' = {} /\ prompt' = <<>> /\ citations' = <<>>
      BY <1>1 DEF AnswerInv, Selecting
<1>5. ~ Answered'
      BY <1>1, NotYet DEF Answered
<1>6. Shown'
      BY <1>4 DEF Shown
<1>7. Distinct(evidence)'
      BY <1>3 DEF Distinct
<1>8. draft'.claims \in Claims
      BY <1>1 DEF AnswerInv
<1> QED BY <1>4, <1>5, <1>6, <1>7, <1>8 DEF AnswerInv

LEMMA SelectKeeps ==
    ASSUME AnswerInv, Select
    PROVE  AnswerInv'
<1>1. /\ pc = "select" /\ pc' = "validate" /\ evidence' = evidence
      /\ prompt' = prompt /\ citations' = citations /\ draft' = draft /\ result' = result
      BY DEF Select
<1>2. hits' \subseteq PrimaryHits(evidence)
      <2>1. \E target, type, limit : hits' = Reserved(Diverse(PrimaryHits(evidence), target), type, limit)
            BY DEF Select
      <2> QED BY <2>1, SelectionIsPart
<1>3. prompt' = <<>> /\ citations' = <<>>
      BY <1>1 DEF AnswerInv, Selecting
<1>4. ~ Answered'
      BY <1>1, NotYet DEF Answered
<1>5. Shown'
      BY <1>3 DEF Shown
<1>6. Distinct(evidence)' /\ draft'.claims \in Claims
      BY <1>1 DEF AnswerInv
<1> QED BY <1>1, <1>2, <1>3, <1>4, <1>5, <1>6 DEF AnswerInv, Selecting

LEMMA ValidateKeeps ==
    ASSUME AnswerInv, ValidatePreGeneration
    PROVE  AnswerInv'
<1> DEFINE C == Clean(hits)
<1>1. /\ pc = "validate" /\ pc' \in {"done", "generate"} /\ evidence' = evidence /\ hits' = hits
      /\ draft' = draft
      /\ prompt' = Numbered(C) /\ citations' = Citations(Numbered(C))
      BY DEF ValidatePreGeneration, Finish
<1>2. Distinct(C)
      <2>1. hits \subseteq evidence
            BY PrimaryLeads DEF AnswerInv
      <2>2. C \in SUBSET evidence
            BY <2>1 DEF Clean
      <2>3. Distinct(evidence)
            BY DEF AnswerInv
      <2> HIDE DEF C
      <2>4. IsFiniteSet(C)
            BY <2>2, <2>3, FS_Subset DEF Distinct
      <2> QED BY <2>2, <2>3, <2>4 DEF Distinct
<1> HIDE DEF C
<1>3. \A n \in DOMAIN prompt' : prompt'[n] \in C
      BY <1>1, <1>2, NumberedIs
<1>4. \A n \in DOMAIN citations' : n \in DOMAIN prompt' /\ citations'[n] = prompt'[n]
      BY <1>1 DEF Citations
<1>5. Shown'
      <2>1. Clean(hits)' = C
            BY <1>1 DEF C, Clean
      <2> QED BY <1>3, <1>4, <2>1 DEF Shown
<1>6. ~ Answered'
      <2>1. result' = result \/ \E why : result' = Abstained(why)
            BY DEF ValidatePreGeneration, Finish
      <2> QED BY <1>1, <2>1, NotYet, AbstainedIs DEF Answered
<1>7. Distinct(evidence)' /\ draft'.claims \in Claims
      BY <1>1 DEF AnswerInv
<1>8. hits' \subseteq PrimaryHits(evidence')
      BY <1>1 DEF AnswerInv
<1> QED BY <1>1, <1>5, <1>6, <1>7, <1>8 DEF AnswerInv, Selecting

LEMMA GenerateKeeps ==
    ASSUME AnswerInv, NEW d \in Drafts, Generate(d)
    PROVE  AnswerInv'
<1>1. /\ pc # "done" /\ pc' \in {"regenerate", "finalize"} /\ draft' = d
      /\ evidence' = evidence /\ hits' = hits /\ prompt' = prompt /\ citations' = citations
      /\ result' = result
      BY DEF Generate
<1>2. ~ Answered'
      BY <1>1, NotYet DEF Answered
<1>3. draft'.claims \in Claims
      BY <1>1, DraftsAssumption
<1> QED BY <1>1, <1>2, <1>3, QuietStep DEF Selecting

LEMMA FailureKeeps ==
    ASSUME AnswerInv, RetrievalFails \/ GenerationFails
    PROVE  AnswerInv'
<1>1. /\ pc # "done" /\ pc' \in {"provider failure", "rate limited"} /\ draft' = draft
      /\ evidence' = evidence /\ hits' = hits /\ prompt' = prompt /\ citations' = citations
      /\ result' = result
      BY DEF RetrievalFails, GenerationFails
<1>2. ~ Answered'
      BY <1>1, NotYet DEF Answered
<1>3. draft'.claims \in Claims
      BY <1>1 DEF AnswerInv
<1> QED BY <1>1, <1>2, <1>3, QuietStep DEF Selecting

LEMMA FinalizeKeeps ==
    ASSUME AnswerInv, NEW loaded \in BOOLEAN, Finalize(loaded)
    PROVE  AnswerInv'
<1>1. PICK claims : claims = Normalized(draft.claims)
      OBVIOUS
<1>2. /\ pc = "finalize" /\ pc' = "done" /\ ask' = ask /\ evidence' = evidence /\ hits' = hits
      /\ prompt' = prompt /\ citations' = citations /\ draft' = draft
      /\ result' = IF ~ValidClaims(claims) THEN Abstained("bad citation")
                   ELSE IF GroundingMode = "full" /\ Verdict(GroundedClaims, loaded) # "grounded"
                   THEN Abstained(Verdict(GroundedClaims, loaded))
                   ELSE [status |-> draft.status, why |-> "draft", claims |-> claims]
      BY <1>1 DEF Finalize, Finish
<1>3. ASSUME Answered'
      PROVE  /\ result'.claims = claims /\ ValidClaims(claims)
             /\ GroundingMode = "full" => Verdict(GroundedClaims, loaded) = "grounded"
      BY <1>2, <1>3, AbstainedIs DEF Answered
<1>4. /\ \A cs : ValidClaims(cs)' = ValidClaims(cs)
      /\ Normalized(draft.claims)' = Normalized(draft.claims)
      BY <1>2 DEF ValidClaims, Cited, Normalized, Split
<1>5. GroundingMode' = GroundingMode
      BY <1>2 DEF GroundingMode, BlocksShown
<1>6. Verdict(GroundedClaims, loaded)' = Verdict(GroundedClaims, loaded)
      <2>1. GroundedClaims' = GroundedClaims
            BY <1>2, <1>4 DEF GroundedClaims
      <2> QED BY <1>2, <2>1 DEF Verdict, Supported, Cited
<1>7. Answered' => Checked'
      BY <1>1, <1>2, <1>3, <1>4, <1>5, <1>6 DEF Checked
<1>8. Shown'
      BY <1>2 DEF AnswerInv, Shown
<1>9. Distinct(evidence)' /\ draft'.claims \in Claims /\ hits' \subseteq PrimaryHits(evidence')
      BY <1>2 DEF AnswerInv
<1> QED BY <1>2, <1>7, <1>8, <1>9 DEF AnswerInv, Selecting

LEMMA AnswerStepKeeps == AnswerInv /\ [AnswerNext]_vars => AnswerInv'
<1> SUFFICES ASSUME AnswerInv, [AnswerNext]_vars PROVE AnswerInv'
    OBVIOUS
<1>1. ASSUME NEW above, Classify(above) PROVE AnswerInv'
      BY <1>1, ClassifyKeeps
<1>2. CASE Retrieve
      BY <1>2, RetrieveKeeps
<1>3. CASE RetrievalFails \/ GenerationFails
      BY <1>3, FailureKeeps
<1>4. CASE Select
      BY <1>4, SelectKeeps
<1>5. CASE ValidatePreGeneration
      BY <1>5, ValidateKeeps
<1>6. ASSUME NEW d \in Drafts, Generate(d) PROVE AnswerInv'
      BY <1>6, GenerateKeeps
<1>7. ASSUME NEW loaded \in BOOLEAN, Finalize(loaded) PROVE AnswerInv'
      BY <1>7, FinalizeKeeps
<1>8. CASE UNCHANGED vars
      <2>1. /\ evidence' = evidence /\ hits' = hits /\ prompt' = prompt /\ citations' = citations
            /\ draft' = draft /\ result' = result /\ pc' = pc /\ ask' = ask
            BY <1>8 DEF vars
      <2>2. Shown' /\ Distinct(evidence)'
            BY <2>1 DEF AnswerInv, Shown
      <2>3. Answered' => Checked'
            <3>1. Answered' = Answered
                  BY <2>1 DEF Answered
            <3>2. Checked' = Checked
                  BY <2>1 DEF Checked, Normalized, Split, ValidClaims, Cited, GroundingMode,
                              BlocksShown, GroundedClaims, Verdict, Supported
            <3> QED BY <3>1, <3>2 DEF AnswerInv
      <2> QED BY <2>1, <2>2, <2>3 DEF AnswerInv
<1> QED BY <1>1, <1>2, <1>3, <1>4, <1>5, <1>6, <1>7, <1>8 DEF AnswerNext

-----------------------------------------------------------------------------
(* The theorems.                                                            *)

(* From the search to the final answer: selected evidence leads its key,    *)
(* the numbers of prompt and citations agree, an answer was checked.        *)
THEOREM AnswerInvariant == AnswerSpec => []AnswerInv
<1> QED BY AnswerStarts, AnswerStepKeeps, PTL DEF AnswerSpec

(* Every claim of an answer is cited, and each number it cites names the    *)
(* block that the model was shown under that number                         *)
(* (validate_claim_citations, _normalize_compound_citation_ids).            *)
THEOREM AnswersCiteWhatWasShown == AnswerSpec => []CitesWhatWasShown
<1>1. AnswerInv => CitesWhatWasShown
      <2> SUFFICES ASSUME AnswerInv, Answered PROVE CitesWhatWasShown
          BY DEF CitesWhatWasShown
      <2>1. Checked /\ Shown
            BY DEF AnswerInv
      <2>2. ASSUME NEW k \in DOMAIN result.claims
            PROVE  /\ result.claims[k].ids # {}
                   /\ \A id \in result.claims[k].ids : id \in {{n} : n \in DOMAIN citations}
            BY <2>1 DEF Checked, ValidClaims, Cited
      <2>3. ASSUME NEW n \in DOMAIN citations
            PROVE  n \in DOMAIN prompt /\ citations[n] = prompt[n] /\ ~ Uncertain(prompt[n])
            BY <2>1 DEF Shown, Clean
      <2> QED BY <2>2, <2>3 DEF CitesWhatWasShown
<1> QED BY <1>1, AnswerInvariant, PTL

(* No relevant evidence for a fact that an answer may rest on came from a   *)
(* more authoritative source (select_primary_hits and all that follows it). *)
THEOREM OutrankedStaysSilent == AnswerSpec => []OutrankedIsSilent
<1>1. AnswerInv => OutrankedIsSilent
      <2> SUFFICES ASSUME AnswerInv, NEW e \in BlocksShown, NEW d \in evidence,
                          Record[d.v].key = Record[e.v].key
                   PROVE  e.tier <= d.tier
          BY DEF OutrankedIsSilent
      <2>1. e \in Clean(hits)
            BY DEF AnswerInv, Shown, BlocksShown
      <2>2. e \in PrimaryHits(evidence)
            BY <2>1 DEF AnswerInv, Clean
      <2> QED BY <2>2, PrimaryLeads
<1> QED BY <1>1, AnswerInvariant, PTL

(* Splitting compound references takes no support away. *)
LEMMA SplitSupports ==
    ASSUME NEW claims \in Claims
    PROVE  /\ Len(Normalized(claims)) = Len(claims)
           /\ Cardinality(Supported(claims)) \in Nat
           /\ Cardinality(Supported(Normalized(claims))) \in Nat
           /\ Cardinality(Supported(claims)) <= Cardinality(Supported(Normalized(claims)))
<1> DEFINE split == Normalized(claims)
<1>1. /\ DOMAIN claims = 1 .. Len(claims) /\ Len(claims) \in Nat
      /\ \A k \in DOMAIN claims : claims[k] \in [ids : SUBSET SUBSET Nat, sound : BOOLEAN]
      <2>1. PICK R : R = [ids : SUBSET SUBSET Nat, sound : BOOLEAN]
            OBVIOUS
      <2>2. claims \in Seq(R)
            BY <2>1 DEF Claims
      <2>3. DOMAIN claims = 1 .. Len(claims) /\ Len(claims) \in Nat
            BY <2>2
      <2>4. \A k \in DOMAIN claims : claims[k] \in R
            BY <2>2
      <2> QED BY <2>1, <2>3, <2>4
<1>2. /\ DOMAIN split = DOMAIN claims
      /\ \A k \in DOMAIN claims : split[k] = Split(claims[k])
      BY DEF Normalized
<1>3. ASSUME NEW k \in DOMAIN claims
      PROVE  /\ split[k].sound = claims[k].sound
             /\ \A id \in claims[k].ids : Cited(id) => id \in split[k].ids
      BY <1>1, <1>2 DEF Split
<1>4. Supported(claims) \subseteq Supported(split) /\ Supported(split) \subseteq DOMAIN claims
      <2> HIDE DEF split
      <2> QED BY <1>2, <1>3 DEF Supported
<1>5. IsFiniteSet(DOMAIN claims)
      BY <1>1, FS_Interval
<1>6. Len(split) = Len(claims)
      <2>1. split = [k \in 1 .. Len(claims) |-> Split(claims[k])]
            BY <1>1 DEF Normalized
      <2> QED BY <1>1, <2>1
<1> HIDE DEF split
<1>7. IsFiniteSet(Supported(split))
      BY <1>4, <1>5, FS_Subset
<1> QED BY <1>4, <1>6, <1>7, FS_Subset, FS_CardinalityType DEF split

(* With the detector configured, a risky answer has enough supported        *)
(* claims, though the asynchronous path grounds them before compound        *)
(* references are split (grounding.py, async_answer).                       *)
THEOREM RiskyAnswersAreGrounded == AnswerSpec => []RiskIsGrounded
<1>1. AnswerInv => RiskIsGrounded
      <2> SUFFICES ASSUME AnswerInv, Answered, ask.verifier = "lettucedetect",
                          NEW e \in BlocksShown, HighRisk(e)
                   PROVE  Verdict(result.claims, TRUE) = "grounded"
          BY DEF RiskIsGrounded
      <2>1. Checked /\ draft.claims \in Claims
            BY DEF AnswerInv
      <2>2. GroundingMode = "full"
            BY DEF GroundingMode
      <2>3. PICK loaded \in BOOLEAN : Verdict(GroundedClaims, loaded) = "grounded"
            BY <2>1, <2>2 DEF Checked
      <2>4. PICK claims : claims = draft.claims
            OBVIOUS
      <2>5. PICK split : split = Normalized(claims)
            OBVIOUS
      <2>6. result.claims = split /\ GroundedClaims \in {claims, split}
            BY <2>1, <2>4, <2>5 DEF Checked, GroundedClaims
      <2>7. /\ Len(split) = Len(claims)
            /\ Cardinality(Supported(claims)) \in Nat /\ Cardinality(Supported(split)) \in Nat
            /\ Cardinality(Supported(claims)) <= Cardinality(Supported(split))
            BY <2>1, <2>4, <2>5, SplitSupports
      <2>8. claims = <<>> => split = <<>>
            BY <2>5 DEF Normalized
      <2>9. \/ GroundedClaims = <<>>
            \/ 100 * Cardinality(Supported(GroundedClaims)) >= Threshold * Len(GroundedClaims)
            BY <2>3 DEF Verdict
      <2>10. Threshold \in Int /\ Len(claims) \in Nat /\ Threshold * Len(claims) \in Int
             <3>1. Threshold \in Int
                   BY ThresholdAssumption
             <3>2. Len(claims) \in Nat
                   BY <2>1, <2>4 DEF Claims
             <3> QED BY <3>1, <3>2
      <2>11. \/ split = <<>>
             \/ 100 * Cardinality(Supported(split)) >= Threshold * Len(split)
             <3>1. CASE GroundedClaims = split
                   BY <2>9, <3>1
             <3>2. CASE GroundedClaims = claims /\ claims # <<>>
                   <4>1. PICK m \in Int : m = Threshold * Len(claims)
                         BY <2>10
                   <4>2. 100 * Cardinality(Supported(claims)) >= m
                         BY <2>9, <3>2, <4>1
                   <4>3. 100 * Cardinality(Supported(split)) >= m
                         BY <2>7, <4>2
                   <4> QED BY <2>7, <4>1, <4>3
             <3> QED BY <2>6, <2>8, <3>1, <3>2
      <2> QED BY <2>6, <2>11 DEF Verdict
<1> QED BY <1>1, AnswerInvariant, PTL

=============================================================================
