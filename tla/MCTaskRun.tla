------------------------------ MODULE MCTaskRun -----------------------------
(***************************************************************************)
(* PrefixRun with the frozen census on the workspaces of one real task:    *)
(* its contents are those the task's tools and injector leave, its         *)
(* verdicts the task's oracles, its fault the task's injector.             *)
(***************************************************************************)
EXTENDS PrefixRun

CONSTANT Task

Families == INSTANCE TaskFamilies WITH ExtraParts <- {}, SizeLimit <- 3

\* The frozen census, and the frozen arithmetic for it.
FrozenArms ==
    <<"echo_L0_value_only", "erased_L0_value_only",
      "echo_L2_causal_lineage", "erased_L2_causal_lineage",
      "echo_L4_target_binding", "verified_L4_target_binding">>
FrozenMaxPerPrefix ==
    PreforkMax + Len(Continuations) * ContinuationMax + ProbeMax

\* One completed tool run from the prepared workspace, and the fault.
ToolContents ==
    LET start == Families!Prepared(Task)
        written == {Families!Completed(Task, profile, start) :
                      profile \in Families!Profiles}
        healthy == {c \in written : Families!Succeeds(Task, c)}
    IN  {start} \cup written \cup {Families!Inject(Task, c) : c \in healthy}

View(c) ==
    [proxy |-> Families!Proxy(Task, c), target |-> Families!Target(Task, c),
     holds |-> c]

TaskWorkspaces == {View(c) : c \in ToolContents}
PreparedWorkspace == {View(Families!Prepared(Task))}

TaskInjector ==
    [x \in TaskWorkspaces |->
       IF Healthy(x) THEN View(Families!Inject(Task, x.holds)) ELSE x]

DecisionBatches == {<< >>, <<"mutate">>, <<"submit">>}

=============================================================================
