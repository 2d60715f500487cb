------------------------------ MODULE Answering ------------------------------
(***************************************************************************)
(* One question from its classification to its answer                      *)
(* (QueryService.async_answer_query and answer_query, AnsweringService):   *)
(* retrieve, check the evidence, let the model write a draft, let it       *)
(* rewrite a draft with bad citations once, ground the claims, answer or   *)
(* abstain.                                                                *)
(*                                                                         *)
(* A claim is [ids, sound]: the references it carries and whether the      *)
(* detector finds nothing in it that the cited text does not support.  A   *)
(* reference is a set of numbers: {1} is "[1]", {1, 2} is "[1, 2]".        *)
(***************************************************************************)
EXTENDS Retrieval

CONSTANTS
    Asks,        \* the requests and the settings they meet
    Drafts,      \* what the answer models may write
    Scores,      \* the reranker's scores, in points
    Rankings,    \* what the semantic classifier may find, best class first
    Threshold,   \* grounding_threshold, in percent
    Confidence   \* grounding_confidence_threshold, in hundredths of a point

(* The claims of a draft or an answer: the blocks each one refers to, and     *)
(* whether the detector would find it supported.                             *)
Claims == Seq([ids : SUBSET SUBSET Nat, sound : BOOLEAN])

ASSUME ThresholdAssumption == Threshold \in 0 .. 100
ASSUME ScoresAssumption == Scores \subseteq Int
ASSUME DraftsAssumption == \A d \in Drafts : d.claims \in Claims

VARIABLES
    ask,        \* [q, hint, limit, async, planning, backend, skipLowRisk, verifier]
    route,      \* the resolved hints
    relaxed,    \* the classifier's hint was given up
    evidence,   \* what the search found, the database admitted and is relevant
    hits,       \* the evidence selected for the answer model
    prompt,     \* evidence block [n] the model sees
    citations,  \* Citation [n]
    draft,
    result,
    pc

vars == <<ask, route, relaxed, evidence, hits, prompt, citations, draft, result, pc>>

NoDraft == [status |-> "none", claims |-> <<>>]
NoResult == [status |-> "none", why |-> "", claims |-> <<>>]

Abstained(why) == [status |-> "abstained", why |-> why, claims |-> <<>>]

AnswerInit ==
    /\ ask \in Asks
    /\ route = [class |-> NoHint, type |-> NoHint, strict |-> FALSE, secondary |-> <<>>]
    /\ relaxed = FALSE
    /\ evidence = {}
    /\ hits = {}
    /\ prompt = <<>>
    /\ citations = <<>>
    /\ draft = NoDraft
    /\ result = NoResult
    /\ pc = "classify"

Finish(r) == result' = r /\ pc' = "done"

-----------------------------------------------------------------------------
(* _orchestrate_classification_and_rewrite; above is what the semantic     *)
(* classifier scores at or above its threshold, best first.                *)
Resolve(c, secondary) ==
    IF c.abstain
    THEN /\ Finish(Abstained("out of scope"))
         /\ UNCHANGED route
    ELSE /\ route' = [class |-> EffectiveHint(c.route.class, ask.hint),
                      type |-> c.route.type,
                      strict |-> ask.hint # NoHint,
                      secondary |-> secondary]
         /\ pc' = "retrieve"
         /\ UNCHANGED result

Classify(above) ==
    /\ pc = "classify"
    /\ IF ask.backend = "semantic"
       THEN Resolve(Reconciled(Keyword(ask.q), Semantic(ask.q, above)),
                    SemanticSecondary(ask.q, above))
       ELSE /\ above = <<>>
            /\ Resolve(Keyword(ask.q), SecondaryHints(ask.q, Keyword(ask.q)))
    /\ UNCHANGED <<ask, relaxed, evidence, hits, prompt, citations, draft>>

-----------------------------------------------------------------------------
(* Retrieval. *)

Planned == PlansRoutes(ask.planning, route.class, route.type, route.strict,
                       route.secondary)

SearchedRoutes ==
    IF Planned
    THEN Routes(route.class, route.type, route.strict, route.secondary)
    ELSE {Route(IF relaxed THEN NoHint ELSE route.class, route.type)}

CanRelax == ~Planned /\ ~relaxed /\ route.class # NoHint /\ ~route.strict

Chunks(v) == {<<v, i>> : i \in 1 .. Record[v].chunks}

Searchable == UNION {Chunks(v) : v \in UNION {Matching(r, Versions) : r \in SearchedRoutes}}

(* Any scores that the reranker, or the one it falls back to, may give the  *)
(* chunks.  Minus one stands for a chunk that is not found or that it       *)
(* leaves out, or whose record the database no longer has as current.       *)
Scored == [Searchable -> Scores \cup {-1}]

(* A search that ends with nothing relevant is repeated without the         *)
(* classifier's hint.                                                       *)
Found(score) ==
    {[v |-> c[1], i |-> c[2], score |-> score[c]] : c \in {d \in DOMAIN score : score[d] >= 0}}

Retrieve ==
    /\ pc = "retrieve"
    /\ \E score \in Scored :
            evidence' = Relevant(Decayed(Hydrated(Found(score), SearchedRoutes), route.class))
    /\ IF evidence' = {} /\ CanRelax
       THEN relaxed' = TRUE /\ UNCHANGED pc
       ELSE pc' = "select" /\ UNCHANGED relaxed
    /\ UNCHANGED <<ask, route, hits, prompt, citations, draft, result>>

(* No vectors, or every search failed. *)
RetrievalFails ==
    /\ pc = "retrieve"
    /\ pc' = "provider failure"
    /\ UNCHANGED <<ask, route, relaxed, evidence, hits, prompt, citations, draft, result>>

Select ==
    /\ pc = "select"
    /\ \E primary \in {PrimaryHits(evidence)} :
        \E diverse \in {Diverse(primary, Max({ask.limit, ReservedSlots}))} :
            hits' = Reserved(diverse, route.type, ask.limit)
    /\ pc' = "validate"
    /\ UNCHANGED <<ask, route, relaxed, evidence, prompt, citations, draft, result>>

-----------------------------------------------------------------------------
(* What must hold of the evidence before a model sees it. *)

CycleAware == {"admissions_cycle", "merit_list", "program_fee_schedule", "scholarship"}

Uncertain(e) == Record[e.v].type \in CycleAware /\ Record[e.v].year \in {"low", "unknown"}

Clean(S) == {e \in S : ~Uncertain(e)}

Numbered(S) == [n \in 1 .. Cardinality(S) |-> CHOOSE e \in S : Place(S, e) = n]

(* Variant: the citations are numbered before the freshness filter. *)
CitationsOfAll(blocks) ==
    [n \in {k \in DOMAIN blocks : Record[blocks[k].v].located} |-> Numbered(hits)[n]]

Citations(blocks) ==
    [n \in {k \in DOMAIN blocks : Record[blocks[k].v].located} |-> blocks[n]]

NumericUnanswerable(S) ==
    /\ "how many" \in ask.q \/ {"how much", "fee"} \subseteq ask.q
    /\ \A e \in S : ~Record[e.v].numeric

Contradictory(S) ==
    \E a, b \in S :
        /\ Record[a.v].scope = Record[b.v].scope
        /\ Record[a.v].key = Record[b.v].key
        /\ Record[a.v].value # Record[b.v].value
        /\ a.tier = b.tier
        /\ \A d \in S : Record[d.v].scope = Record[a.v].scope
                        /\ Record[d.v].key = Record[a.v].key => a.tier <= d.tier

(* Fees of one program at several degree levels. *)
MixedLevels(S) ==
    /\ "fee" \in ask.q
    /\ \E a, b \in S :
        /\ Record[a.v].type = "program_fee_schedule"
        /\ Record[b.v].type = "program_fee_schedule"
        /\ Record[a.v].program = Record[b.v].program
        /\ Record[a.v].level # Record[b.v].level

Refusal(S) ==
    CASE hits = {} -> "no evidence"
      [] S = {} -> "freshness"
      [] NumericUnanswerable(S) -> "no number"
      [] DOMAIN Citations(Numbered(S)) # 1 .. Cardinality(S) -> "no source"
      [] Contradictory(S) -> "conflict"
      [] MixedLevels(S) -> "ambiguous"
      [] OTHER -> ""

ValidatePreGeneration ==
    /\ pc = "validate"
    /\ \E clean \in {Clean(hits)} :
        /\ prompt' = Numbered(clean)
        /\ citations' = Citations(Numbered(clean))
        /\ IF Refusal(clean) # ""
           THEN Finish(Abstained(Refusal(clean)))
           ELSE pc' = "generate" /\ UNCHANGED result
    /\ UNCHANGED <<ask, route, relaxed, evidence, hits, draft>>

-----------------------------------------------------------------------------
(* Generation. *)

Cited(id) == id \in {{n} : n \in DOMAIN citations}

ValidClaims(claims) ==
    \A k \in DOMAIN claims :
        claims[k].ids # {} /\ \A id \in claims[k].ids : Cited(id)

(* A draft with a bad citation is written once more. *)
Generate(d) ==
    /\ pc \in {"generate", "regenerate"}
    /\ draft' = d
    /\ pc' = IF pc = "generate" /\ ~ValidClaims(d.claims) THEN "regenerate" ELSE "finalize"
    /\ UNCHANGED <<ask, route, relaxed, evidence, hits, prompt, citations, result>>

(* The primary model failed, and so did the fallback if there is one. *)
GenerationFails ==
    /\ pc \in {"generate", "regenerate"}
    /\ pc' \in {"provider failure", "rate limited"}
    /\ UNCHANGED <<ask, route, relaxed, evidence, hits, prompt, citations, draft, result>>

-----------------------------------------------------------------------------
(* Grounding and the final answer. *)

HighRiskTypes == {"program_fee_schedule", "admissions_cycle", "scholarship", "merit_list"}
HighRiskClasses == {"policy", "admissions_cycle", "scholarship", "merit_list"}

HighRisk(e) == Record[e.v].type \in HighRiskTypes \/ Record[e.v].class \in HighRiskClasses

BlocksShown == {prompt[n] : n \in DOMAIN prompt}

(* Variant: one harmless block is enough to skip the detector. *)
GroundingModeOfAny ==
    IF /\ ask.skipLowRisk
       /\ \E e \in BlocksShown : ~HighRisk(e) /\ e.score >= Confidence
    THEN "skip" ELSE "full"

GroundingMode ==
    IF /\ ask.skipLowRisk
       /\ \A e \in BlocksShown : ~HighRisk(e) /\ e.score >= Confidence
    THEN "skip" ELSE "full"

(* _normalize_compound_citation_ids *)
Split(c) ==
    [c EXCEPT !.ids = {id \in @ : Cited(id) \/ ~(id \subseteq DOMAIN citations)}
                      \cup {{n} : n \in UNION {id \in @ : id \subseteq DOMAIN citations}}]

Normalized(claims) == [k \in DOMAIN claims |-> Split(claims[k])]

Supported(claims) ==
    {k \in DOMAIN claims : claims[k].sound /\ \E id \in claims[k].ids : Cited(id)}

Verdict(claims, loaded) ==
    IF \/ ask.verifier = "passthrough" \/ claims = <<>>
       \/ /\ loaded
          /\ 100 * Cardinality(Supported(claims)) >= Threshold * Len(claims)
    THEN "grounded"
    ELSE IF loaded THEN "not grounded" ELSE "no detector"

(* The asynchronous path has grounded the claims as they were written. *)
GroundedClaims == IF ask.async THEN draft.claims ELSE Normalized(draft.claims)

Finalize(loaded) ==
    /\ pc = "finalize"
    /\ \E claims \in {Normalized(draft.claims)} :
            Finish(IF ~ValidClaims(claims) THEN Abstained("bad citation")
                   ELSE IF GroundingMode = "full"
                           /\ Verdict(GroundedClaims, loaded) # "grounded"
                   THEN Abstained(Verdict(GroundedClaims, loaded))
                   ELSE [status |-> draft.status, why |-> "draft", claims |-> claims])
    /\ UNCHANGED <<ask, route, relaxed, evidence, hits, prompt, citations, draft>>

-----------------------------------------------------------------------------

AnswerNext ==
    \/ \E above \in Rankings : Classify(above)
    \/ Retrieve
    \/ RetrievalFails
    \/ Select
    \/ ValidatePreGeneration
    \/ \E d \in Drafts : Generate(d)
    \/ GenerationFails
    \/ \E loaded \in BOOLEAN : Finalize(loaded)

AnswerSpec == AnswerInit /\ [][AnswerNext]_vars

-----------------------------------------------------------------------------
(* Properties. *)

Answered == result.status = "answered"

(* Every claim of an answer carries a citation, and each number it cites   *)
(* names the evidence block that the model was shown under that number, a  *)
(* block whose currentness is not in doubt: the numbers survive the        *)
(* freshness filter, the missing sources, the rewritten draft and the      *)
(* splitting of compound ids.                                              *)
CitesWhatWasShown ==
    Answered =>
        \A k \in DOMAIN result.claims :
            /\ result.claims[k].ids # {}
            /\ \A id \in result.claims[k].ids : \E n \in DOMAIN prompt :
                    /\ id = {n}
                    /\ n \in DOMAIN citations
                    /\ citations[n] = prompt[n]
                    /\ ~Uncertain(prompt[n])

(* What an answer may rest on is never outranked: no relevant evidence for *)
(* the same fact was retrieved from a more authoritative source.           *)
OutrankedIsSilent ==
    Answered =>
        \A e \in BlocksShown : \A d \in evidence :
            Record[d.v].key = Record[e.v].key => e.tier <= d.tier

(* With the detector configured, an answer that rests on fees, admissions, *)
(* scholarships, merit lists or policies has enough supported claims, also *)
(* when its draft was rewritten.                                           *)
RiskIsGrounded ==
    /\ Answered
    /\ ask.verifier = "lettucedetect"
    /\ \E e \in BlocksShown : HighRisk(e)
    => Verdict(result.claims, TRUE) = "grounded"

=============================================================================
