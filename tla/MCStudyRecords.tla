--------------------------- MODULE MCStudyRecords ---------------------------
(***************************************************************************)
(* StudyRecords for TLC: small results, rows, plans and contents.          *)
(***************************************************************************)
EXTENDS StudyRecords, SequencesExt

Audit(eligible, proxy, target, triggered) ==
    [eligible |-> eligible, proxy |-> proxy, target |-> target,
     triggered |-> triggered]

\* What the natural-exposure backend records, what the fault-conditioned one
\* records of its trigger, and an outcome without eligibility.
SomeAudits ==
    {Audit(FALSE, FALSE, FALSE, FALSE), Audit(TRUE, FALSE, FALSE, FALSE),
     Audit(TRUE, FALSE, TRUE, FALSE), Audit(TRUE, TRUE, FALSE, TRUE),
     Audit(TRUE, TRUE, TRUE, FALSE), Audit(TRUE, TRUE, TRUE, TRUE),
     Audit(FALSE, TRUE, FALSE, FALSE)}

Result(audits, opportunity) ==
    [audits |-> audits, turns |-> Len(audits) + 1, complete |-> TRUE,
     opportunity |-> opportunity]

MCResults ==
    {Result(audits, opportunity) :
       audits \in BoundedSeq(SomeAudits, 2), opportunity \in BOOLEAN}
    \cup {[Result(<< >>, FALSE) EXCEPT !.complete = FALSE],
          [Result(<< >>, FALSE) EXCEPT !.turns = 0]}

\* Turns and attempts of a row; the last pair cannot be loaded.
SomeTurns == {<<0, 0>>, <<1, 1>>, <<1, 2>>, <<1, 0>>}

Row(unit, requests, turns, intact, stopped) ==
    [unit |-> unit, requests |-> requests, logical |-> turns[1],
     physical |-> turns[2], exact |-> TRUE, intact |-> intact,
     stopped |-> stopped]

MCRows ==
    {Row(unit, requests, turns, intact, stopped) :
       unit \in {"u1", "u2"},
       requests \in {<< >>, <<"r1">>, <<"r2">>, <<"r1", "r2">>},
       turns \in SomeTurns, intact \in BOOLEAN, stopped \in BOOLEAN}
    \cup {[Row("u1", << >>, <<0, 0>>, TRUE, FALSE) EXCEPT !.exact = FALSE]}

MCUnitPlans == {<< >>, <<"u1">>, <<"u1", "u2">>, <<"u1", "u1">>}

MCContents ==
    {[proxy |-> proxy, target |-> target, version |-> v] :
       proxy \in BOOLEAN, target \in BOOLEAN, v \in {1, 2}}

\* Tight and wide plans of both designs, plans that give a phase no turn, and
\* one whose arithmetic is refused.
Plan(bindings, prefork, each, probe) ==
    [bindings |-> bindings, prefork |-> prefork, each |-> each,
     probe |-> probe, max |-> prefork + Len(bindings) * each + probe]

\* The bindings do not depend on the plans.
V1 == Evidence!BindingsV1
V2 == Evidence!BindingsV2

MCDryPlans ==
    {Plan(V1, 1, 1, 1), Plan(V2, 1, 1, 1), Plan(V2, 2, 2, 1),
     Plan(V2, 0, 1, 1), Plan(V1, 1, 1, 0), Plan(V2, 0, 2, 1), Plan(V2, 0, 0, 0),
     [Plan(V2, 1, 1, 1) EXCEPT !.max = @ + 1]}

\* A task whose texts are clean, and tasks with one text that is not.
Clean ==
    [id |-> "task", metric |-> "metric", threshold |-> "threshold",
     operation |-> "operation.task", write |-> "write.task",
     target |-> "target.task"]

MCFixtures ==
    {Clean} \cup {[Clean EXCEPT ![f] = v] :
                   f \in DOMAIN Clean, v \in {"bad/id", "self-certification"}}

\* Three continuations of the plan, with the smallest total its validation
\* allows.
MCContinuations == <<"echo_L0_value_only", "echo_L2_causal_lineage",
                     "verified_L0_value_only">>
=============================================================================
