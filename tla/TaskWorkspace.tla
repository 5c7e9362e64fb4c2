---------------------------- MODULE TaskWorkspace ---------------------------
(***************************************************************************)
(* One workspace of a task: the common workspace while the agent works in  *)
(* it, then one copy of it after the fork.  Calls run the task's tools,    *)
(* which may be killed when the call's timeout expires, between two writes *)
(* or after the last (the executor reports it as an ordinary receipt), or  *)
(* write files directly.  After each call of the prefix the trigger looks  *)
(* at the contents.                                                        *)
(***************************************************************************)
EXTENDS TaskFamilies

CONSTANT Written    \* contents the agent may leave by writing files itself

ASSUME WrittenAssumption ==
    /\ DOMAIN Written = Tasks
    /\ \A t \in Tasks : Written[t] \subseteq Contents(t)

VARIABLES
    task,
    phase,      \* "prefix", "copy", or why the run ended
    w,          \* contents
    stages,     \* what the running tool has still to write
    call,       \* "none", or how far the current or last call got
    touched     \* did the agent ever write files itself?

vars == <<task, phase, w, stages, call, touched>>

Init ==
    /\ task \in Tasks
    /\ phase = "prefix"
    /\ w = Prepared(task)
    /\ stages = << >>
    /\ call = "none"
    /\ touched = FALSE

Working == phase \in {"prefix", "copy"} /\ call # "running"

RunTool(profile) ==
    /\ Working
    /\ stages' = Stages(task, profile, w)
    /\ call' = "running"
    /\ UNCHANGED <<task, phase, w, touched>>

Write ==
    /\ call = "running"
    /\ stages # << >>
    /\ w' = Head(stages)
    /\ stages' = Tail(stages)
    /\ UNCHANGED <<task, phase, call, touched>>

\* The trigger looks at the contents a call of the prefix leaves: it aborts
\* on a naturally dangerous action, and replays a successful one in a copy,
\* into which the fault is injected unless the copy is a verified one.  An
\* injector that cannot write raises and ends the run: PrefixRun.
Judge(contents) ==
    IF phase # "prefix" \/ ~Proxy(task, contents)
      THEN w' = contents /\ UNCHANGED phase
    ELSE IF ~Target(task, contents)
      THEN w' = contents /\ phase' = "dangerous"
    ELSE \/ w' = contents /\ phase' = "copy"
         \/ /\ w' = Inject(task, contents)
            /\ phase' = IF Misleads(task, w') THEN "copy" ELSE "missed"

Finish ==
    /\ call = "running"
    /\ stages = << >>
    /\ call' = "completed"
    /\ Judge(w)
    /\ UNCHANGED <<task, stages, touched>>

\* (mutant) the tool outlives its call
KillTooLate ==
    /\ call = "running"
    /\ call' = "killed"
    /\ Judge(w)
    /\ UNCHANGED <<task, stages, touched>>

\* subprocess.run kills the tool, wherever it is; what it wrote stays.
Kill ==
    /\ call = "running"
    /\ stages' = << >>
    /\ call' = "killed"
    /\ Judge(w)
    /\ UNCHANGED <<task, touched>>

\* apply_patch, or any command that is not one of the task's tools, or one of
\* them on sources the agent has edited.
WriteFiles(contents) ==
    /\ Working
    /\ call' = "completed"
    /\ touched' = TRUE
    /\ Judge(contents)
    /\ UNCHANGED <<task, stages>>

Next ==
    \/ \E profile \in Profiles : RunTool(profile)
    \/ Write
    \/ Finish
    \/ Kill
    \/ \E contents \in Written[task] : WriteFiles(contents)

Spec == Init /\ [][Next]_vars
-----------------------------------------------------------------------------
(* Properties *)

\* Types of the state; the tools and the injector never leave contents the
\* oracles do not expect, and no tool writes after its call.
TypeOK ==
    /\ task \in Tasks
    /\ phase \in {"prefix", "copy", "dangerous", "missed"}
    /\ w \in Contents(task)
    /\ stages \in Seq(Contents(task))
    /\ call \in {"none", "running", "completed", "killed"}
    /\ touched \in BOOLEAN
    /\ call # "running" => stages = << >>

\* apply_external_fault's last check never raises: whatever successful
\* contents the agent reached, with its tools or by hand, an injector
\* that could write leaves the proxy positive and the target false.
InjectionNeverMisses == phase # "missed"

\* Half-written contents decide nothing: as long as the agent only runs the
\* task's tools, the call that becomes the focal action, or aborts the prefix
\* as dangerous, has made all its writes, whatever half-written runs came
\* before.  (It may still be reported as timed out: killed after its last
\* write, before it exits.)
HalfWrittenDecidesNothing ==
    [][phase = "prefix" /\ phase' # "prefix" /\ ~touched' =>
         call = "running" /\ stages = << >>]_vars

\* In a copy the local proxy, which the echo adapter compares with its
\* record, can only be negative after a tool was killed: a completed rerun,
\* of either profile, on faulted or healthy contents, restores it.
CompletedToolsKeepProxy ==
    phase = "copy" /\ call = "completed" /\ ~touched => Proxy(task, w)

\* The audits that gate the study pass for every task.
AuditsPass == \A t \in Tasks : HonestControl(t) /\ DiagnosticGap(t) /\ FaultControl(t)
=============================================================================
