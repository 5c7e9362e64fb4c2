---------------------------- MODULE ToolBoundary ----------------------------
(***************************************************************************)
(* What stands between a model's tool calls and the files of a workspace:  *)
(* parsing, the runner's pre-check, the counterfactual of the trigger, and *)
(* WorkspaceToolAdapter.execute with its own validation, its containment   *)
(* check and its audit trail.  Calls run in the common workspace, in a     *)
(* counterfactual copy of it, or in the copy of one continuation; files    *)
(* may be symbolic links, and copies keep links as they are.               *)
(*                                                                         *)
(* The verdicts of the trigger, the fault and the evidence are the         *)
(* business of PrefixRun; success is here one content of one file.  Empty  *)
(* directories are left out, as snapshot_tree leaves them out.             *)
(***************************************************************************)
EXTENDS Naturals, Sequences

CONSTANTS
    Batches,     \* the tool calls one message may carry, see CallType
    MaxCalls     \* bound: calls of all messages

VARIABLES
    phase,     \* control: see Phases
    cause,     \* where an exception came from when phase = "raised"
    queue,     \* calls of the current message that have no result yet
    received,  \* bound: calls received
    disk,      \* the files of each site
    adapter    \* the adapter of the common workspace and of the copy

vars == <<phase, cause, queue, received, disk, adapter>>

Sites == {"common", "candidate", "arm", "outside"}
Files == {"status", "link"}
\* "unreadable" is not UTF-8, or longer than read_byte_limit.
Contents == {"absent", "text", "done", "unreadable", "to_common", "to_outside"}

\* A call by what the code tells apart: the tool, whether its arguments match
\* the schema, the form of its path, the file it names, the contents it
\* leaves there, and the form of its argv.  A patch is text and makes no link.
Links == {"to_common", "to_outside"}
CallType ==
    {call \in
       [tool : {"read_file", "apply_patch", "run_command", "run_local_checks",
                "finalize_task", "unknown", "malformed"},
        conforms : BOOLEAN, path : {"relative", "absolute", "parent"},
        name : Files, content : Contents \cup {"undecodable"},
        argv : {"plain", "shell", "nul"}] :
     /\ call.tool = "apply_patch" => call.content \notin Links
     /\ call.tool = "run_command" => call.content # "undecodable"}

Phases == {"prefix", "counterfactual", "judged", "fork", "replay", "arm",
           "closed", "raised"}
\* The call in hand has passed the pre-check and has no result yet.
InHand == {"counterfactual", "judged", "fork", "replay"}

WorkspaceTools == {"read_file", "apply_patch", "run_command",
                   "run_local_checks", "finalize_task"}
Mutating(call) == call.tool \in {"apply_patch", "run_command"}

ASSUME BatchesAssumption ==
    /\ Batches \subseteq Seq(CallType)
    /\ MaxCalls \in Nat

-----------------------------------------------------------------------------
(* Validation *)

\* FrozenToolRegistry.validate, in its order.
Validation(call) ==
    LET named == call.tool \in {"read_file", "apply_patch"}
    IN IF call.tool \notin WorkspaceTools THEN "fatal"
       ELSE IF ~call.conforms \/ (named /\ call.path = "absolute")
         THEN "recoverable"
       ELSE IF \/ named /\ call.path = "parent"
               \/ call.tool = "run_command" /\ call.argv = "nul"
         THEN "fatal"
       ELSE "passes"

ShellString(call) == call.tool = "run_command" /\ call.argv = "shell"

\* (mutant) the pre-check leaves shell strings to the executor
PreCheckOfRegistry(call) == Validation(call)

\* recoverable_tool_validation_result
PreCheck(call) ==
    IF Validation(call) = "passes" /\ ShellString(call) THEN "recoverable"
    ELSE Validation(call)

-----------------------------------------------------------------------------
(* The workspace *)

\* Where a name leads: a link is absolute, and was made by a command.
Resolved(site, name) ==
    IF disk[site][name] = "to_common" THEN <<"common", "status">>
    ELSE IF disk[site][name] = "to_outside" THEN <<"outside", "status">>
    ELSE <<site, name>>

\* WorkspaceToolAdapter._path
Contained(site, name) == Resolved(site, name)[1] = site

Target(site, call) ==
    LET place == Resolved(site, call.name) IN disk[place[1]][place[2]]

\* How execute ends: with a result, with the missing file the runner answers,
\* or with an exception it does not.
Outcome(site, call) ==
    IF \/ /\ call.tool \in {"read_file", "apply_patch"}
          /\ ~Contained(site, call.name)
       \/ call.tool = "read_file" /\ Target(site, call) = "unreadable"
       \/ call.tool = "apply_patch" /\ call.content = "undecodable"
      THEN "raises"
    ELSE IF call.tool = "read_file" /\ Target(site, call) = "absent"
      THEN "missing"
    ELSE "result"

\* The files after a call that ended with a result.  A patch writes through a
\* link; a command replaces files of the workspace it runs in, what it may do
\* beyond is the sandbox's business.
Written(site, call) ==
    LET place == IF call.tool = "apply_patch" THEN Resolved(site, call.name)
                 ELSE <<site, call.name>>
    IN IF Mutating(call) THEN [disk EXCEPT ![place[1]][place[2]] = call.content]
       ELSE disk

Removed == [f \in Files |-> "absent"]

\* (mutant) copies follow links
CopyFollowing(from) ==
    [f \in Files |->
        LET place == Resolved(from, f) IN disk[place[1]][place[2]]]

\* shutil.copytree(symlinks=True)
Copy(from) == disk[from]

Success(files) == files["status"] = "done"

-----------------------------------------------------------------------------
(* The adapter *)

Fresh == [sequence |-> 0, audit |-> << >>, missing |-> 0, decided |-> FALSE]

Decided(old, call) == old.decided \/ call.tool = "finalize_task"

Entry(old, call) ==
    [sequence |-> old.sequence + 1, terminal |-> Decided(old, call)]

\* (mutant) a call that failed is audited too
RecordedAlways(old, call, outcome) ==
    [sequence |-> old.sequence + 1,
     audit |-> Append(old.audit, Entry(old, call)),
     missing |-> old.missing + (IF outcome = "missing" THEN 1 ELSE 0),
     decided |-> Decided(old, call)]

\* The sequence advances before the call takes effect, the audit entry is
\* written after it succeeded; missing is a history of answered failures.
Recorded(old, call, outcome) ==
    [sequence |-> old.sequence + 1,
     audit |-> IF outcome = "result" THEN Append(old.audit, Entry(old, call))
               ELSE old.audit,
     missing |-> IF outcome = "missing" THEN old.missing + 1 ELSE old.missing,
     decided |-> IF outcome = "result" THEN Decided(old, call) ELSE old.decided]

\* execute and the executor validate again, whatever the runner has checked.
AdapterRefuses(call) == Validation(call) # "passes" \/ ShellString(call)

-----------------------------------------------------------------------------
Init ==
    /\ phase = "prefix" /\ cause = "none"
    /\ queue = << >> /\ received = 0
    /\ disk = [site \in Sites |->
                 IF site \in {"common", "outside"}
                   THEN [Removed EXCEPT !["status"] = "text"] ELSE Removed]
    /\ adapter = [site \in {"common", "arm"} |-> Fresh]

Site == IF phase = "arm" THEN "arm" ELSE "common"
Open == ~adapter[Site].decided

Raise(reason) ==
    /\ phase' = "raised"
    /\ cause' = reason
    /\ UNCHANGED <<queue, received, disk, adapter>>

\* parse_tool_actions: one malformed call, and none of the message runs.
Receive(batch) ==
    /\ phase \in {"prefix", "arm"}
    /\ queue = << >> /\ Open
    /\ received + Len(batch) <= MaxCalls
    /\ IF \E i \in DOMAIN batch : batch[i].tool = "malformed" THEN Raise("parse")
       ELSE /\ queue' = batch
            /\ received' = received + Len(batch)
            /\ UNCHANGED <<phase, cause, disk, adapter>>

Call == Head(queue)
MayCall == phase \in {"prefix", "arm"} /\ queue # << >> /\ Open

\* A recoverable rejection is a result like any other.
Reject ==
    /\ MayCall
    /\ PreCheck(Call) = "recoverable"
    /\ queue' = Tail(queue)
    /\ UNCHANGED <<phase, cause, received, disk, adapter>>

Refuse == MayCall /\ PreCheck(Call) = "fatal" /\ Raise("refused")

\* execute at this site: validated again, then run; the head of the queue has
\* its result, or the missing file the runner answers.
Execute(site) ==
    LET outcome == Outcome(site, Call)
    IN /\ adapter' = [adapter EXCEPT ![site] = Recorded(@, Call, outcome)]
       /\ IF AdapterRefuses(Call)
            THEN /\ phase' = "raised" /\ cause' = "validated_again"
                 /\ UNCHANGED <<queue, disk>>
          ELSE IF outcome = "raises"
            THEN /\ phase' = "raised" /\ cause' = phase
                 /\ UNCHANGED <<queue, disk>>
          ELSE /\ queue' = Tail(queue)
               /\ disk' = IF outcome = "result" THEN Written(site, Call) ELSE disk
               /\ phase' = IF site = "arm" THEN "arm" ELSE "prefix"
               /\ UNCHANGED cause
       /\ UNCHANGED received

\* evaluate_trigger: a mutating call first runs in a copy of the workspace,
\* with an adapter of its own.
CopyCandidate ==
    /\ phase = "prefix" /\ MayCall
    /\ PreCheck(Call) = "passes" /\ Mutating(Call)
    /\ disk' = [disk EXCEPT !["candidate"] = Copy("common")]
    /\ phase' = "counterfactual"
    /\ UNCHANGED <<cause, queue, received, adapter>>

Judge ==
    LET after == Written("candidate", Call)
    IN /\ phase = "counterfactual"
       /\ IF AdapterRefuses(Call) \/ Outcome("candidate", Call) = "raises"
            THEN Raise(IF AdapterRefuses(Call) THEN "validated_again" ELSE phase)
          ELSE /\ disk' = [after EXCEPT !["candidate"] = Removed]
               /\ phase' = IF Success(after["candidate"]) THEN "fork" ELSE "judged"
               /\ UNCHANGED <<cause, queue, received, adapter>>

\* A call that is not the focal one runs in the common workspace.
ExecuteCommon ==
    \/ /\ phase = "prefix" /\ MayCall
       /\ PreCheck(Call) = "passes" /\ ~Mutating(Call)
       /\ Execute("common")
    \/ phase = "judged" /\ Execute("common")

\* fork: the copy of a continuation is made, and the focal call runs in it.
\* The calls after it are left to the continuation.
CopyArm ==
    /\ phase = "fork"
    /\ disk' = [disk EXCEPT !["arm"] = Copy("common")]
    /\ phase' = "replay"
    /\ UNCHANGED <<cause, queue, received, adapter>>

ReplayFocal == phase = "replay" /\ Execute("arm")

ExecuteArm ==
    /\ phase = "arm" /\ MayCall
    /\ PreCheck(Call) = "passes"
    /\ Execute("arm")

\* After a decision the rest of the message is dropped.
Close ==
    /\ phase \in {"prefix", "arm"} /\ ~Open
    /\ phase' = "closed"
    /\ queue' = << >>
    /\ UNCHANGED <<cause, received, disk, adapter>>

Next ==
    \/ \E batch \in Batches : Receive(batch)
    \/ Reject \/ Refuse
    \/ CopyCandidate \/ Judge \/ ExecuteCommon
    \/ CopyArm \/ ReplayFocal \/ ExecuteArm
    \/ Close

Spec == Init /\ [][Next]_vars

-----------------------------------------------------------------------------
(* Properties *)

\* Types of the state, and which phase has a call in hand.
TypeOK ==
    /\ phase \in Phases
    /\ cause \in Phases \cup {"none", "parse", "refused", "validated_again"}
    /\ queue \in Seq(CallType)
    /\ received \in 0 .. MaxCalls
    /\ disk \in [Sites -> [Files -> Contents]]
    /\ phase \in InHand => queue # << >>
    /\ phase = "raised" <=> cause # "none"
    /\ phase = "closed" => queue = << >>

\* The common workspace changes only by a call that was judged, and never to a
\* success, through whatever name it is written: not when a link made in the
\* common workspace is followed in one of its copies.  Nothing outside the
\* workspaces changes by a patch at all (_path, evaluate_trigger on a copy
\* that keeps links).
OnlyJudgedCallsChangeCommon ==
    [][ /\ disk'["outside"] = disk["outside"]
        /\ disk'["common"] # disk["common"] =>
             phase = "judged" /\ ~Success(disk'["common"]) ]_vars

\* A call that was checked completes.  Having passed the runner's pre-check it
\* is not refused by the adapter's or the executor's own, so every error the
\* model may be told about is answered; and what ran in its counterfactual
\* runs again, in the common workspace or in a copy
\* (recoverable_tool_validation_result, execute, evaluate_trigger, fork).
CheckedCallsComplete == cause \notin {"validated_again", "judged", "replay"}

\* The audit trail is complete: its sequences increase, what they skip are the
\* missing files the model was told of and the call that raised, and the
\* terminal entry, if there is one, is the last (_record).
AuditTrailComplete ==
    \A site \in DOMAIN adapter :
        LET a == adapter[site]
            skipped == a.sequence - Len(a.audit) - a.missing
        IN /\ \A i, j \in DOMAIN a.audit :
                i < j => a.audit[i].sequence < a.audit[j].sequence
           /\ skipped \in (IF phase = "raised" THEN {0, 1} ELSE {0})
           /\ \A i \in DOMAIN a.audit :
                a.audit[i].terminal <=> (a.decided /\ i = Len(a.audit))

=============================================================================
