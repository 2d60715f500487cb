-------------------------- MODULE MCCanonicalRecords --------------------------
(* Pools of candidates: dates of an admissions cycle that contradict,       *)
(* override or corroborate each other; pages of one section that replace    *)
(* and duplicate each other; a profile that expires with what hangs on it;  *)
(* rules that contradict each other and lists of two cycles; a list without *)
(* a certain year; records of two scopes under one dedupe key; a document    *)
(* under rules that contradict each other.                                  *)
EXTENDS CanonicalRecords

C(v, type, scope, val) ==
    [ver |-> v, rec |-> v, type |-> type, scope |-> scope, key |-> v, val |-> val, tier |-> 1,
     spec |-> 1, label |-> 0, from |-> 0, until |-> 0, fetched |-> 0, sure |-> TRUE,
     res |-> "explicit", src |-> v, parent |-> NoParent, parentSrc |-> NoParent]

Admissions ==
    << [C(1, "admissions_cycle", 1, 1) EXCEPT !.label = 1],
       [C(2, "admissions_cycle", 1, 2) EXCEPT !.spec = 2, !.res = "weekday_inferred"],
       [C(3, "admissions_cycle", 1, 2) EXCEPT !.label = 1, !.src = 2, !.res = "weekday_inferred"],
       [C(4, "admissions_cycle", 1, 1) EXCEPT !.label = 2, !.until = 2] >>

Pages ==
    << [C(1, "program", 1, 1) EXCEPT !.key = 1],
       [C(2, "program", 1, 2) EXCEPT !.key = 2, !.rec = 1, !.src = 1],
       [C(3, "scholarship", 1, 1) EXCEPT !.key = 2, !.tier = 2],
       [C(4, "program", 2, 1) EXCEPT !.key = 2] >>

Profile ==
    << [C(1, "faculty_profile", 1, 1) EXCEPT !.until = 1],
       [C(2, "faculty_profile", 1, 2) EXCEPT !.rec = 1, !.src = 1],
       [C(3, "faculty_publication", 2, 1) EXCEPT !.parent = 1],
       [C(4, "document_asset", 3, 1) EXCEPT !.parentSrc = 1] >>

Rules ==
    << [C(1, "policy_rule", 1, 1) EXCEPT !.key = 1],
       [C(2, "policy_rule", 1, 2) EXCEPT !.key = 1],
       [C(3, "merit_list", 2, 1) EXCEPT !.label = 1],
       [C(4, "merit_list", 2, 2) EXCEPT !.label = 2, !.rec = 3] >>

Unsure ==
    << C(1, "merit_list", 1, 1),
       [C(2, "merit_list", 1, 2) EXCEPT !.tier = 2, !.sure = FALSE] >>

Twins ==
    << [C(1, "policy_rule", 1, 1) EXCEPT !.key = 1],
       [C(2, "policy_rule", 2, 2) EXCEPT !.key = 1],
       [C(3, "general", 3, 1) EXCEPT !.key = 1] >>

Works ==
    << C(1, "policy_rule", 1, 1), [C(2, "policy_rule", 1, 2) EXCEPT !.rec = 1],
       [C(3, "document_asset", 2, 1) EXCEPT !.parent = 1] >>

MCPools == {Admissions, Pages, Profile, Rules, Unsure, Twins, Works}

=============================================================================
