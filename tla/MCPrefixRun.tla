----------------------------- MODULE MCPrefixRun ----------------------------
(***************************************************************************)
(* Finite instances of PrefixRun.                                          *)
(***************************************************************************)
EXTENDS PrefixRun

\* The paired contrast and its positive control.
PairedArms ==
    <<"echo_L2_causal_lineage", "erased_L2_causal_lineage",
      "verified_L4_target_binding">>

\* max_per_prefix as the plan states it.
FrozenMaxPerPrefix ==
    PreforkMax + Len(Continuations) * ContinuationMax + ProbeMax

Contents(proxy, target, tag) == [proxy |-> proxy, target |-> target, tag |-> tag]

Pristine == Contents(FALSE, FALSE, 0)
Successful == Contents(TRUE, TRUE, 0)
Partial == Contents(TRUE, FALSE, 0)
Partial1 == Contents(TRUE, FALSE, 1)
Successful1 == Contents(TRUE, TRUE, 1)

SmallWorkspaces == {Pristine, Successful, Partial}

\* Two ways to succeed, which the injector keeps apart.
DriftWorkspaces == SmallWorkspaces \cup {Successful1, Partial1}

\* The injector spoils the target of a successful workspace and leaves the
\* rest alone; no step applies it to any other contents.
Injector ==
    [w \in Workspaces |->
       IF Healthy(w) THEN Contents(TRUE, FALSE, w.tag) ELSE w]

PristineOnly == {Pristine}

\* Answers of one call, and parallel calls around a mutation and a decision.
SingleCalls == { <<c>> : c \in Calls }
MixedBatches ==
    {<< >>} \cup SingleCalls \cup
    {<<"mutate", "submit">>, <<"submit", "mutate">>, <<"mutate", "check">>,
     <<"check", "submit">>, <<"hold", "submit">>}

FewBatches ==
    {<< >>, <<"mutate">>, <<"submit">>, <<"mutate", "check">>,
     <<"hold", "submit">>}

\* Work, a measurement of it and a submission in one message.
DriftBatches ==
    {<< >>, <<"mutate">>, <<"submit">>, <<"check", "submit">>,
     <<"mutate", "check", "submit">>}

DecisionBatches == {<< >>, <<"mutate">>, <<"submit">>}
=============================================================================
