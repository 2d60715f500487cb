----------------------------- MODULE MCAnswering -----------------------------
(* Two policy records that disagree, one from an address that speaks of     *)
(* policies, a fee schedule at two degree levels, two scholarships, one of   *)
(* an uncertain year and one whose evidence has no place in its source.      *)
EXTENDS Answering

Fact(type, class, tier, key, value) ==
    [type |-> type, class |-> class, tier |-> tier, key |-> key, scope |-> key,
     value |-> value, topic |-> "other", url |-> class, chunks |-> 1, year |-> "high",
     located |-> TRUE, numeric |-> TRUE, program |-> "cs", level |-> "bs"]

MCRecord ==
    <<[Fact("policy_rule", "policy", 3, "attendance", "75%")
           EXCEPT !.topic = "policy", !.chunks = 2],
      Fact("policy_rule", "document_asset", 2, "attendance", "80%"),
      [Fact("program_fee_schedule", "general", 1, "bs fee", "9")
           EXCEPT !.numeric = FALSE],
      [Fact("program_fee_schedule", "general", 1, "ms fee", "12")
           EXCEPT !.level = "ms"],
      [Fact("scholarship", "scholarship", 1, "merit aid", "5") EXCEPT !.year = "low"],
      [Fact("scholarship", "scholarship", 1, "need aid", "7") EXCEPT !.located = FALSE]>>

MCVersions == DOMAIN MCRecord

Request(q, hint, limit) ==
    [q |-> q, hint |-> hint, limit |-> limit, async |-> TRUE, planning |-> TRUE,
     backend |-> "keyword", skipLowRisk |-> TRUE, verifier |-> "lettucedetect"]

MCAsks ==
    {Request({"policy"}, NoHint, 1), Request({"policy", "fee"}, NoHint, 3),
     [Request({"policy"}, NoHint, 2) EXCEPT !.async = FALSE, !.planning = FALSE],
     [Request({"fee", "how much"}, "bogus", 2) EXCEPT !.async = FALSE],
     [Request({"scholarship"}, "policy", 2) EXCEPT !.verifier = "passthrough"],
     [Request({"campus"}, NoHint, 2) EXCEPT !.backend = "semantic"],
     [Request({"rain in training"}, NoHint, 1) EXCEPT !.backend = "semantic"],
     Request({"weather"}, NoHint, 1)}

MCRankings == {<<>>, <<"policy", "faculty">>, <<"out_of_scope", "policy">>,
               <<"faculty", "fee_or_admissions", "entity">>}

Claim(ids, sound) == [ids |-> ids, sound |-> sound]

Draft(claims) == [status |-> "answered", claims |-> claims]

MCDrafts ==
    {Draft(<<>>), [Draft(<<>>) EXCEPT !.status = "abstained"],
     Draft(<<Claim({{1}}, TRUE)>>), Draft(<<Claim({{1}, {2}}, FALSE)>>),
     Draft(<<Claim({{1, 2}}, TRUE)>>), Draft(<<Claim({{2}}, TRUE), Claim({}, TRUE)>>),
     Draft(<<Claim({{1}}, TRUE), Claim({{2}}, FALSE)>>)}

=============================================================================
