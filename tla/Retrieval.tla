------------------------------ MODULE Retrieval ------------------------------
(***************************************************************************)
(* From a question to its evidence (retrieval/): the routing hints of a    *)
(* question, the routes searched in the collection of the generation, the  *)
(* filters a point has to pass against the database, and the selection of  *)
(* the hits that reach the answer model.  Pure operators; Answering steps  *)
(* through them.                                                           *)
(*                                                                         *)
(* Abstractions.  A question is the set of intents whose keywords occur in *)
(* it.  A collection holds the chunks of record versions; a piece of       *)
(* evidence is [v, i, score]: chunk i of version v with the reranker's     *)
(* score.  Vectors, synonyms and rank fusion only decide which chunks the  *)
(* search finds and in which order, and the reranker forgets that order.   *)
(***************************************************************************)
EXTENDS Integers, FiniteSets, Sequences, FiniteSetsExt, SequencesExt

CONSTANTS
    Versions,   \* record_version_ids: numbers, in the order of the ids
    Record,     \* Record[v]: the stored record, with its source's class
    NoHint,     \* None
    MinScore,   \* retrieval_min_relevance_score, in hundredths of a point
    MaxPerSource,
    ReservedSlots

ASSUME VersionsAssumption == Versions \subseteq Nat /\ IsFiniteSet(Versions)
ASSUME RecordAssumption ==
    \A v \in Versions : Record[v].tier \in Nat \ {0} /\ Record[v].chunks \in Nat
ASSUME SlotsAssumption == {MinScore, MaxPerSource, ReservedSlots} \subseteq Nat

Route(class, type) == [class |-> class, type |-> type]

-----------------------------------------------------------------------------
(* Classification.  "weather" stands for an out-of-scope keyword, "rain in *)
(* training" for a word that merely contains one, "campus" for the         *)
(* in-scope keywords that name no intent.                                  *)

Intents == {"news", "publication", "faculty", "policy", "fee", "scholarship",
            "merit", "eligibility", "admissions"}

Chain == <<[term |-> "news",        route |-> Route("news_event", "news_event")],
           [term |-> "publication", route |-> Route("faculty", "faculty_publication")],
           [term |-> "faculty",     route |-> Route("faculty", NoHint)],
           [term |-> "policy",      route |-> Route("policy", NoHint)],
           [term |-> "fee",         route |-> Route(NoHint, "program_fee_schedule")],
           [term |-> "scholarship", route |-> Route("scholarship", "scholarship")],
           [term |-> "merit",       route |-> Route("merit_list", "merit_list")],
           [term |-> "eligibility", route |-> Route(NoHint, NoHint)],
           [term |-> "admissions",  route |-> Route("admissions_cycle",
                                                    "admissions_cycle")]>>

FirstOf(chain, q) ==
    LET hits == {i \in DOMAIN chain : chain[i].term \in q}
    IN  IF hits = {} THEN Route(NoHint, NoHint) ELSE chain[Min(hits)].route

InScope(q) == q \cap (Intents \cup {"campus"}) # {}

(* A classification: where to look, or to abstain at once. *)
Classified(route, abstain) == [route |-> route, abstain |-> abstain]

Keyword(q) ==
    IF "weather" \in q /\ ~InScope(q)
    THEN Classified(Route(NoHint, NoHint), TRUE)
    ELSE Classified(FirstOf(Chain, q), FALSE)

(* The record type the semantic classes leave to the keywords. *)
TypeFromKeywords(q, class) ==
    CASE class = "fee_or_admissions" -> FirstOf(SubSeq(Chain, 5, 9), q).type
      [] class = "faculty" -> FirstOf(SubSeq(Chain, 2, 2), q).type
      [] OTHER -> NoHint

SemanticRoute(q, class) ==
    CASE class = "news" -> Route("news_event", "news_event")
      [] class = "faculty" -> Route("faculty", TypeFromKeywords(q, class))
      [] class = "policy" -> Route("policy", NoHint)
      [] OTHER -> Route(NoHint, TypeFromKeywords(q, class))

(* above: the classes that score at or above the threshold, best first. *)
Semantic(q, above) ==
    CASE q \cap {"weather", "rain in training"} # {} /\ ~InScope(q) ->
            Classified(Route(NoHint, NoHint), TRUE)
      [] above = <<>> -> Classified(Route(NoHint, NoHint), FALSE)
      [] OTHER -> Classified(SemanticRoute(q, above[1]), above[1] = "out_of_scope")

Guarded(c) ==
    \/ c.route.class \in {"policy", "fee", "scholarship", "admissions"}
    \/ c.route.type \in {"program_fee_schedule", "scholarship", "admissions_cycle"}

Reconciled(keyword, semantic) == IF Guarded(keyword) THEN keyword ELSE semantic

(* The order in which further intents are looked for. *)
SecondaryMap == <<5, 6, 9, 7, 3, 4, 1, 8>>

FacultyTerms(q) == IF "publication" \in q THEN q \cup {"faculty"} ELSE q

SecondaryHints(q, primary) ==
    LET found(i) == /\ Chain[i].term \in FacultyTerms(q)
                    /\ Chain[i].route # primary.route
    IN  [i \in DOMAIN SelectSeq(SecondaryMap, found) |->
            Chain[SelectSeq(SecondaryMap, found)[i]].route]

SemanticSecondary(q, above) ==
    LET new(i) == /\ above[i] # "out_of_scope"
                  /\ SemanticRoute(q, above[i]) # Semantic(q, above).route
                  /\ \A j \in 2 .. i - 1 : above[j] = "out_of_scope"
                        \/ SemanticRoute(q, above[j]) # SemanticRoute(q, above[i])
        rest == SelectSeq([i \in DOMAIN Tail(above) |-> i + 1], new)
    IN  IF above = <<>> \/ Semantic(q, <<"entity">>).abstain
        THEN <<>>
        ELSE [k \in DOMAIN rest |-> SemanticRoute(q, above[rest[k]])]

Aliases == [faculty_profile |-> "faculty", policy_rule |-> "policy"]

ValidClasses == {"faculty", "policy", "news_event", "scholarship", "merit_list",
                 "admissions_cycle", "general", "document_asset"}

NormalizedHint(hint) ==
    LET resolved == IF hint \in DOMAIN Aliases THEN Aliases[hint] ELSE hint
    IN  IF resolved \in ValidClasses THEN resolved ELSE NoHint

EffectiveHint(classified, requested) ==
    IF NormalizedHint(classified) = NoHint
    THEN NormalizedHint(requested)
    ELSE NormalizedHint(classified)

-----------------------------------------------------------------------------
(* Routes and search. *)

RoutePlan(class, type, strict) ==
    IF strict
    THEN IF class = NoHint /\ type = NoHint THEN {} ELSE {Route(class, type)}
    ELSE {Route(class, NoHint), Route(NoHint, NoHint), Route(NoHint, type)}

Routes(class, type, strict, secondary) ==
    RoutePlan(class, type, strict)
        \cup {secondary[i] : i \in DOMAIN secondary \cap 1 .. 2}

PlansRoutes(planning, class, type, strict, secondary) ==
    /\ planning
    /\ \/ type # NoHint
       \/ class # NoHint /\ ~strict
       \/ secondary # <<>>

ExpandedClass(class) ==
    IF class = "policy" THEN {"policy", "document_asset"} ELSE {class}

(* _build_query_filter: the versions a route may find. *)
Matching(route, indexed) ==
    {v \in indexed :
        /\ route.class # NoHint => Record[v].class \in ExpandedClass(route.class)
        /\ route.type # NoHint => Record[v].type = route.type}

(* The classes the database filter still admits: all of them as soon as    *)
(* one route has no class.                                                 *)
Admits(routes, v) ==
    \/ \E r \in routes : r.class = NoHint
    \/ \E r \in routes : Record[v].class \in ExpandedClass(r.class)

(* _hydrate_and_filter, of the points whose record is still current. *)
Hydrated(found, routes) == {e \in found : Admits(routes, e.v)}

-----------------------------------------------------------------------------
(* Selection. *)

Decay == <<100, 99, 97, 95, 92>>

(* adjusted_authority_tier: the source's address speaks of the hint's topic. *)
Tier(v, hint) ==
    LET shift == IF hint # Record[v].topic THEN 0
                 ELSE IF hint = "scholarship" THEN 2
                 ELSE IF hint = "policy" THEN 1 ELSE 0
    IN  IF shift = 0 THEN Record[v].tier ELSE Max({1, Record[v].tier - shift})

Decayed(S, hint) ==
    {[v |-> e.v, i |-> e.i, tier |-> Tier(e.v, hint),
      score |-> e.score * Decay[Min({Tier(e.v, hint), 5})]] : e \in S}

Relevant(S) == {e \in S : e.score >= MinScore}

(* The order of every sort: by score, then by version; chunks of one       *)
(* version with one score keep the order they have, here by their index.   *)
Before(a, b) ==
    \/ a.score > b.score
    \/ a.score = b.score /\ a.v < b.v
    \/ a.score = b.score /\ a.v = b.v /\ a.i < b.i

Place(S, e) == 1 + Cardinality({d \in S : Before(d, e)})

Top(S, n) == {e \in S : Place(S, e) <= n}

VersionsOf(S) == {e.v : e \in S}

(* Variant: the best score decides between sources, not their authority. *)
PrimaryHitsByScore(S) ==
    {e \in S : \A d \in S : Record[d.v].key = Record[e.v].key /\ Before(d, e)
                                => d.v = e.v}

(* select_primary_hits: per dedupe key the most authoritative evidence;    *)
(* all of it when it disagrees, else the chunks of the best version.       *)
PrimaryHits(S) ==
    LET ofKey == {{d \in S : Record[d.v].key = Record[e.v].key} : e \in S}
        winning(G) == {d \in G : \A x \in G : d.tier <= x.tier}
        agree(W) == \A a, b \in W : Record[a.v].value = Record[b.v].value
        best(W) == {e \in W : e.v \in VersionsOf(Top(W, 1))}
    IN  UNION {IF agree(W) THEN best(W) ELSE W : W \in {winning(G) : G \in ofKey}}

(* enforce_source_diversity: at most so many versions of one address, all  *)
(* chunks of an admitted version, overflow only to fill up.                *)
Diverse(S, target) ==
    LET lead(v) == CHOOSE e \in S : e.v = v /\ \A d \in S : d.v = v => ~Before(d, e)
        earlier(v) == {w \in VersionsOf(S) : /\ Record[w].url = Record[v].url
                                             /\ Before(lead(w), lead(v))}
        kept == {e \in S : Cardinality(earlier(e.v)) < MaxPerSource}
        missing == Min({target, Cardinality(S)}) - Cardinality(kept)
    IN  IF MaxPerSource = 0 THEN Top(S, target)
        ELSE IF missing > 0 THEN kept \cup Top(S \ kept, missing)
        ELSE Top(kept, target)

(* select_with_type_reservation *)
Reserved(S, type, limit) ==
    LET hinted == {e \in S : Record[e.v].type = type}
        reserved == Top(hinted, Min({ReservedSlots, limit}))
        remaining == {e \in S : e.v \notin VersionsOf(reserved)}
    IN  IF type = NoHint THEN Top(S, limit)
        ELSE reserved \cup Top(remaining, limit - Cardinality(reserved))

=============================================================================
