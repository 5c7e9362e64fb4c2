------------------------- MODULE ToolBoundaryProofs -------------------------
(***************************************************************************)
(* Theorems about ToolBoundary, for any messages and any number of calls.  *)
(*                                                                         *)
(* InHandInv says what is known of the call between the pre-check and its  *)
(* result: it has passed every validation, the copy it is judged in equals *)
(* the common workspace, and once it is judged it names no link there.     *)
(* From that the judged call has the same effect again.  TrailInv adds the *)
(* adapters' counters.                                                     *)
(***************************************************************************)
EXTENDS ToolBoundary, TLAPS

AdapterType ==
    [sequence : Nat, audit : Seq([sequence : Nat, terminal : BOOLEAN]),
     missing : Nat, decided : BOOLEAN]

Types ==
    /\ phase \in Phases
    /\ cause \in Phases \cup {"none", "parse", "refused", "validated_again"}
    /\ queue \in Seq(CallType)
    /\ received \in 0 .. MaxCalls
    /\ disk \in [Sites -> [Files -> Contents]]
    /\ adapter \in [{"common", "arm"} -> AdapterType]

\* The call at hand takes effect in the file it names.
InPlace(call) ==
    call.tool = "apply_patch" =>
        /\ call.content # "undecodable"
        /\ disk["common"][call.name] \notin Links

InHandInv ==
    /\ Types
    /\ phase \in InHand =>
         /\ queue # << >>
         /\ PreCheck(Call) = "passes"
         /\ Mutating(Call)
    /\ phase = "counterfactual" => disk["candidate"] = disk["common"]
    /\ phase = "replay" => disk["arm"] = disk["common"]
    /\ phase \in {"judged", "fork", "replay"} => InPlace(Call)
    /\ phase = "judged" => ~(Call.name = "status" /\ Call.content = "done")
    /\ ~Success(disk["common"])
    /\ CheckedCallsComplete
    /\ phase = "raised" <=> cause # "none"
    /\ phase = "closed" => queue = << >>

-----------------------------------------------------------------------------
(* Lemmas about the operators *)

LEMMA HeadTail ==
  ASSUME Types, queue # << >>
  PROVE  Call \in CallType /\ Tail(queue) \in Seq(CallType)
  BY DEF Types, Call

\* What passes the pre-check is refused by nothing after it.
LEMMA PassesTwice ==
  ASSUME NEW call, PreCheck(call) = "passes"
  PROVE  ~AdapterRefuses(call)
  BY DEF PreCheck, AdapterRefuses

\* Outside the common workspace, a name that is contained is no link.
LEMMA ContainedInCopy ==
  ASSUME Types, NEW site \in {"candidate", "arm"}, NEW name \in Files,
         Contained(site, name)
  PROVE  disk[site][name] \notin Links
  BY DEF Types, Contained, Resolved, Sites, Links

\* A mutating call that names no link takes effect in the file it names.
LEMMA WrittenInPlace ==
  ASSUME Types, NEW site \in Sites, NEW call \in CallType, Mutating(call),
         call.tool = "apply_patch" => disk[site][call.name] \notin Links
  PROVE  Written(site, call)
           = [disk EXCEPT ![site] = [@ EXCEPT ![call.name] = call.content]]
<1>1. CASE call.tool = "apply_patch"
  <2>1. Resolved(site, call.name) = <<site, call.name>>
    BY <1>1 DEF Resolved, Links
  <2> QED
    BY <1>1, <2>1 DEF Written
<1>2. CASE call.tool = "run_command"
  BY <1>2 DEF Written
<1> QED
  BY <1>1, <1>2 DEF Mutating

\* A mutating call that ends with a result in a copy takes effect there only.
LEMMA CopyWritten ==
  ASSUME Types, NEW site \in {"candidate", "arm"}, NEW call \in CallType,
         Mutating(call), Outcome(site, call) # "raises"
  PROVE  /\ Written(site, call)
              = [disk EXCEPT ![site] = [@ EXCEPT ![call.name] = call.content]]
         /\ call.tool = "apply_patch" =>
              call.content # "undecodable" /\ disk[site][call.name] \notin Links
         /\ call.content \in Contents
<1>0. call.name \in Files /\ call.content \in Contents \cup {"undecodable"}
  BY DEF CallType
<1>1. call.tool = "apply_patch" =>
        call.content # "undecodable" /\ disk[site][call.name] \notin Links
  BY <1>0, ContainedInCopy DEF Outcome
<1>2. site \in Sites
  BY DEF Sites
<1>3. call.content \in Contents
  BY <1>0, <1>1 DEF CallType, Mutating
<1> QED
  BY <1>1, <1>2, <1>3, WrittenInPlace

\* The other tools write nothing.
LEMMA ReadsWriteNothing ==
  ASSUME NEW site, NEW call, ~Mutating(call)
  PROVE  Written(site, call) = disk
  BY DEF Written, Mutating

LEMMA RecordedTyped ==
  ASSUME NEW a \in AdapterType, NEW call \in CallType, NEW outcome
  PROVE  Recorded(a, call, outcome) \in AdapterType
<1>0. /\ a.sequence \in Nat /\ a.missing \in Nat /\ a.decided \in BOOLEAN
      /\ a.audit \in Seq([sequence : Nat, terminal : BOOLEAN])
  BY DEF AdapterType
<1>1. Decided(a, call) \in BOOLEAN
  BY <1>0 DEF Decided
<1>2. Entry(a, call) \in [sequence : Nat, terminal : BOOLEAN]
  BY <1>0, <1>1 DEF Entry
<1>3. Append(a.audit, Entry(a, call)) \in Seq([sequence : Nat, terminal : BOOLEAN])
  BY <1>0, <1>2
<1>4. CASE outcome = "result"
  <2>1. Recorded(a, call, outcome)
          = [sequence |-> a.sequence + 1, audit |-> Append(a.audit, Entry(a, call)),
             missing |-> a.missing, decided |-> Decided(a, call)]
    BY <1>4 DEF Recorded
  <2> QED
    BY <2>1, <1>0, <1>1, <1>3 DEF AdapterType
<1>5. CASE outcome # "result"
  <2>1. Recorded(a, call, outcome)
          = [sequence |-> a.sequence + 1, audit |-> a.audit,
             missing |-> IF outcome = "missing" THEN a.missing + 1 ELSE a.missing,
             decided |-> a.decided]
    BY <1>5 DEF Recorded
  <2>2. (IF outcome = "missing" THEN a.missing + 1 ELSE a.missing) \in Nat
    BY <1>0
  <2> QED
    BY <2>1, <2>2, <1>0 DEF AdapterType
<1> QED
  BY <1>4, <1>5

LEMMA WrittenTyped ==
  ASSUME Types, NEW site \in Sites, NEW call \in CallType,
         Outcome(site, call) # "raises"
  PROVE  Written(site, call) \in [Sites -> [Files -> Contents]]
<1>1. CASE Mutating(call)
  <2>1. call.name \in Files /\ call.content \in Contents
    BY <1>1 DEF CallType, Mutating, Outcome
  <2>2. PICK place : /\ place = IF call.tool = "apply_patch"
                                  THEN Resolved(site, call.name)
                                ELSE <<site, call.name>>
    OBVIOUS
  <2>3. place[1] \in Sites /\ place[2] \in Files
    BY <2>1, <2>2 DEF Resolved, Sites, Files
  <2>4. Written(site, call) = [disk EXCEPT ![place[1]][place[2]] = call.content]
    BY <1>1, <2>2 DEF Written
  <2> QED
    BY <2>1, <2>3, <2>4 DEF Types
<1>2. CASE ~Mutating(call)
  BY <1>2, ReadsWriteNothing DEF Types
<1> QED
  BY <1>1, <1>2

-----------------------------------------------------------------------------
(* The call in hand *)

LEMMA InHandInit == Init => InHandInv
<1> SUFFICES ASSUME Init PROVE InHandInv
  OBVIOUS
<1> USE DEF Init, Sites, Files, Removed, Contents
<1>1. disk \in [Sites -> [Files -> Contents]] /\ disk["common"]["status"] = "text"
  OBVIOUS
<1>2. Fresh \in AdapterType
  BY DEF Fresh, AdapterType
<1>3. Types
  BY <1>1, <1>2, BatchesAssumption DEF Types, Phases
<1> QED
  BY <1>1, <1>3 DEF InHandInv, InHand, Success, CheckedCallsComplete, Phases

\* A call that executes leaves the invariant if it does not raise where it was
\* judged not to, and does not make the common workspace succeed.
LEMMA ExecuteKeeps ==
  ASSUME InHandInv, NEW site \in {"common", "arm"},
         phase \in {"prefix", "judged", "replay", "arm"}, queue # << >>,
         Execute(site), ~AdapterRefuses(Call),
         Outcome(site, Call) = "raises" => phase \in {"prefix", "arm"},
         Outcome(site, Call) # "raises" =>
           ~Success(Written(site, Call)["common"])
  PROVE  InHandInv'
<1>t. Types /\ Call \in CallType /\ Tail(queue) \in Seq(CallType) /\ site \in Sites
  BY HeadTail DEF InHandInv, Sites
<1>1. adapter' \in [{"common", "arm"} -> AdapterType]
  <2>1. Recorded(adapter[site], Call, Outcome(site, Call)) \in AdapterType
    BY <1>t, RecordedTyped DEF Types
  <2> QED
    BY <1>t, <2>1 DEF Execute, Types
<1>2. CASE Outcome(site, Call) = "raises"
  <2>1. /\ phase' = "raised" /\ cause' = phase
        /\ UNCHANGED <<queue, received, disk>>
    BY <1>2 DEF Execute
  <2>2. Types'
    BY <1>t, <1>1, <2>1 DEF Types, Phases
  <2> QED
    BY <1>2, <2>1, <2>2
    DEF InHandInv, InHand, Success, CheckedCallsComplete
<1>3. CASE Outcome(site, Call) # "raises"
  <2>1. /\ queue' = Tail(queue)
        /\ disk' = IF Outcome(site, Call) = "result" THEN Written(site, Call)
                   ELSE disk
        /\ phase' \in {"arm", "prefix"}
        /\ UNCHANGED <<cause, received>>
    BY <1>3 DEF Execute
  <2>2. Types'
    BY <1>t, <1>1, <1>3, <2>1, WrittenTyped DEF Types, Phases
  <2>3. ~Success(disk'["common"])
    BY <1>3, <2>1 DEF InHandInv
  <2> QED
    BY <2>1, <2>2, <2>3
    DEF InHandInv, InHand, CheckedCallsComplete, Success
<1> QED
  BY <1>2, <1>3

LEMMA ExecuteCommonKeeps ==
  ASSUME InHandInv, ExecuteCommon PROVE InHandInv'
<1>1. CASE phase = "prefix"
  <2>1. MayCall /\ PreCheck(Call) = "passes" /\ ~Mutating(Call) /\ Execute("common")
    BY <1>1 DEF ExecuteCommon
  <2>2. Written("common", Call) = disk
    BY <2>1, ReadsWriteNothing
  <2> QED
    BY <1>1, <2>1, <2>2, PassesTwice, ExecuteKeeps DEF InHandInv, MayCall
<1>2. CASE phase = "judged"
  <2>1. /\ Execute("common") /\ queue # << >> /\ PreCheck(Call) = "passes"
        /\ Mutating(Call) /\ InPlace(Call)
        /\ ~(Call.name = "status" /\ Call.content = "done")
        /\ Types /\ ~Success(disk["common"])
    BY <1>2 DEF ExecuteCommon, InHandInv, InHand
  <2>2. Call \in CallType /\ Call.name \in Files
    BY <2>1, HeadTail DEF CallType
  <2>3. Outcome("common", Call) # "raises"
    BY <2>1 DEF InPlace, Outcome, Mutating, Contained, Resolved, Links
  <2>4. Written("common", Call)
          = [disk EXCEPT !["common"] = [@ EXCEPT ![Call.name] = Call.content]]
    BY <2>1, <2>2, WrittenInPlace DEF InPlace, Sites
  <2>5. ~Success(Written("common", Call)["common"])
    BY <2>1, <2>2, <2>4 DEF Success, Types, Sites, Files
  <2> QED
    BY <1>2, <2>1, <2>3, <2>5, PassesTwice, ExecuteKeeps
<1> QED
  BY <1>1, <1>2 DEF ExecuteCommon

\* A call in the copy of a continuation leaves the common workspace alone.
LEMMA ArmLeavesCommon ==
  ASSUME Types, NEW call \in CallType, Outcome("arm", call) # "raises"
  PROVE  /\ Written("arm", call)["common"] = disk["common"]
         /\ Written("arm", call)["outside"] = disk["outside"]
<1>1. CASE Mutating(call)
  <2>1. Written("arm", call)
          = [disk EXCEPT !["arm"] = [@ EXCEPT ![call.name] = call.content]]
    BY <1>1, CopyWritten
  <2> QED
    BY <2>1 DEF Types, Sites
<1>2. CASE ~Mutating(call)
  BY <1>2, ReadsWriteNothing
<1> QED
  BY <1>1, <1>2

LEMMA ExecuteArmKeeps ==
  ASSUME InHandInv, ReplayFocal \/ ExecuteArm PROVE InHandInv'
<1>1. CASE ReplayFocal
  <2>1. /\ phase = "replay" /\ Execute("arm") /\ queue # << >>
        /\ PreCheck(Call) = "passes" /\ Mutating(Call) /\ InPlace(Call)
        /\ disk["arm"] = disk["common"]
        /\ Types /\ ~Success(disk["common"])
    BY <1>1 DEF ReplayFocal, InHandInv, InHand
  <2>2. Call \in CallType
    BY <2>1, HeadTail
  <2>3. Outcome("arm", Call) # "raises"
    BY <2>1 DEF InPlace, Outcome, Mutating, Contained, Resolved, Links
  <2>4. ~Success(Written("arm", Call)["common"])
    BY <2>1, <2>2, <2>3, ArmLeavesCommon
  <2> QED
    BY <2>1, <2>3, <2>4, PassesTwice, ExecuteKeeps
<1>2. CASE ExecuteArm
  <2>1. /\ phase = "arm" /\ Execute("arm") /\ queue # << >>
        /\ PreCheck(Call) = "passes"
        /\ Types /\ ~Success(disk["common"])
    BY <1>2 DEF ExecuteArm, MayCall, InHandInv
  <2>2. Call \in CallType
    BY <2>1, HeadTail
  <2>3. Outcome("arm", Call) # "raises" => ~Success(Written("arm", Call)["common"])
    BY <2>1, <2>2, ArmLeavesCommon
  <2> QED
    BY <2>1, <2>3, PassesTwice, ExecuteKeeps
<1> QED
  BY <1>1, <1>2

LEMMA JudgeKeeps ==
  ASSUME InHandInv, Judge PROVE InHandInv'
<1>1. /\ phase = "counterfactual" /\ queue # << >>
      /\ PreCheck(Call) = "passes" /\ Mutating(Call)
      /\ disk["candidate"] = disk["common"]
      /\ Types /\ ~Success(disk["common"])
  BY DEF Judge, InHandInv, InHand
<1>2. Call \in CallType /\ Call.name \in Files /\ ~AdapterRefuses(Call)
  BY <1>1, HeadTail, PassesTwice DEF CallType
<1>3. CASE Outcome("candidate", Call) = "raises"
  <2>1. /\ phase' = "raised" /\ cause' = "counterfactual"
        /\ UNCHANGED <<queue, received, disk, adapter>>
    BY <1>1, <1>2, <1>3 DEF Judge, Raise
  <2> QED
    BY <1>1, <2>1
    DEF InHandInv, InHand, Types, Phases, CheckedCallsComplete, Success
<1>4. CASE Outcome("candidate", Call) # "raises"
  <2>1. /\ Written("candidate", Call)
             = [disk EXCEPT !["candidate"] =
                              [@ EXCEPT ![Call.name] = Call.content]]
        /\ InPlace(Call)
        /\ Call.content \in Contents
    BY <1>1, <1>2, <1>4, CopyWritten DEF InPlace
  <2>2. /\ disk' = [Written("candidate", Call) EXCEPT !["candidate"] = Removed]
        /\ phase' = IF Success(Written("candidate", Call)["candidate"])
                      THEN "fork" ELSE "judged"
        /\ UNCHANGED <<cause, queue, received, adapter>>
    BY <1>2, <1>4 DEF Judge
  <2>3. /\ disk' \in [Sites -> [Files -> Contents]]
        /\ disk'["common"] = disk["common"]
    <3>1. Removed \in [Files -> Contents]
      BY DEF Removed, Contents
    <3> QED
      BY <1>1, <1>2, <1>4, <2>1, <2>2, <3>1, WrittenTyped DEF Types, Sites
  <2>4. Types'
    BY <1>1, <2>2, <2>3 DEF Types, Phases
  <2>5. phase' = "judged" => ~(Call.name = "status" /\ Call.content = "done")
    BY <1>1, <1>2, <2>1, <2>2 DEF Success, Types, Sites, Files
  <2>6. (InPlace(Call))'
    BY <2>1, <2>2, <2>3 DEF InPlace, Call
  <2>7. queue' # << >> /\ (PreCheck(Call) = "passes")' /\ Mutating(Call)'
    BY <1>1, <2>2 DEF Call, PreCheck, Validation, ShellString, Mutating
  <2> QED
    BY <2>2, <2>3, <2>4, <2>5, <2>6, <2>7, <1>1
    DEF InHandInv, InHand, CheckedCallsComplete, Success, Call
<1> QED
  BY <1>3, <1>4

LEMMA InHandStep == InHandInv /\ [Next]_vars => InHandInv'
<1> SUFFICES ASSUME InHandInv, [Next]_vars PROVE InHandInv'
  OBVIOUS
<1>t. /\ Types /\ ~Success(disk["common"]) /\ CheckedCallsComplete
      /\ phase = "raised" <=> cause # "none"
      /\ phase = "closed" => queue = << >>
  BY DEF InHandInv
<1>1. ASSUME NEW batch \in Batches, Receive(batch) PROVE InHandInv'
  <2>1. CASE \E i \in DOMAIN batch : batch[i].tool = "malformed"
    <3>1. /\ phase' = "raised" /\ cause' = "parse"
          /\ UNCHANGED <<queue, received, disk, adapter>>
      BY <1>1, <2>1 DEF Receive, Raise
    <3> QED
      BY <1>t, <3>1
      DEF InHandInv, InHand, Types, Phases, Success, CheckedCallsComplete
  <2>2. CASE ~\E i \in DOMAIN batch : batch[i].tool = "malformed"
    <3>1. /\ queue' = batch /\ received' = received + Len(batch)
          /\ received + Len(batch) <= MaxCalls
          /\ phase \in {"prefix", "arm"}
          /\ UNCHANGED <<phase, cause, disk, adapter>>
      BY <1>1, <2>2 DEF Receive
    <3>2. batch \in Seq(CallType) /\ received' \in 0 .. MaxCalls
      BY <1>t, <3>1, BatchesAssumption DEF Types
    <3> QED
      BY <1>t, <3>1, <3>2
      DEF InHandInv, InHand, Types, Success, CheckedCallsComplete
  <2> QED
    BY <2>1, <2>2
<1>2. CASE Reject
  <2>1. /\ phase \in {"prefix", "arm"} /\ queue # << >>
        /\ queue' = Tail(queue)
        /\ UNCHANGED <<phase, cause, received, disk, adapter>>
    BY <1>2 DEF Reject, MayCall
  <2>2. queue' \in Seq(CallType)
    BY <1>t, <2>1, HeadTail
  <2> QED
    BY <1>t, <2>1, <2>2
    DEF InHandInv, InHand, Types, Success, CheckedCallsComplete
<1>3. CASE Refuse
  <2>1. /\ phase' = "raised" /\ cause' = "refused"
        /\ UNCHANGED <<queue, received, disk, adapter>>
    BY <1>3 DEF Refuse, Raise
  <2> QED
    BY <1>t, <2>1
    DEF InHandInv, InHand, Types, Phases, Success, CheckedCallsComplete
<1>4. CASE CopyCandidate
  <2>1. /\ phase = "prefix" /\ queue # << >>
        /\ PreCheck(Call) = "passes" /\ Mutating(Call)
        /\ disk' = [disk EXCEPT !["candidate"] = disk["common"]]
        /\ phase' = "counterfactual"
        /\ UNCHANGED <<cause, queue, received, adapter>>
    BY <1>4 DEF CopyCandidate, MayCall, Copy
  <2>2. /\ disk' \in [Sites -> [Files -> Contents]]
        /\ disk'["common"] = disk["common"]
        /\ disk'["candidate"] = disk'["common"]
    BY <1>t, <2>1 DEF Types, Sites
  <2>3. (PreCheck(Call) = "passes")' /\ Mutating(Call)'
    BY <2>1 DEF Call, PreCheck, Validation, ShellString, Mutating
  <2> QED
    BY <1>t, <2>1, <2>2, <2>3
    DEF InHandInv, InHand, Types, Phases, Success, CheckedCallsComplete
<1>5. CASE Judge
  BY <1>5, JudgeKeeps
<1>6. CASE ExecuteCommon
  BY <1>6, ExecuteCommonKeeps
<1>7. CASE CopyArm
  <2>1. /\ phase = "fork" /\ queue # << >>
        /\ PreCheck(Call) = "passes" /\ Mutating(Call) /\ InPlace(Call)
        /\ disk' = [disk EXCEPT !["arm"] = disk["common"]]
        /\ phase' = "replay"
        /\ UNCHANGED <<cause, queue, received, adapter>>
    BY <1>7 DEF CopyArm, Copy, InHandInv, InHand
  <2>2. /\ disk' \in [Sites -> [Files -> Contents]]
        /\ disk'["common"] = disk["common"]
        /\ disk'["arm"] = disk'["common"]
    BY <1>t, <2>1 DEF Types, Sites
  <2>3. (PreCheck(Call) = "passes")' /\ Mutating(Call)' /\ InPlace(Call)'
    BY <2>1, <2>2 DEF Call, PreCheck, Validation, ShellString, Mutating, InPlace
  <2> QED
    BY <1>t, <2>1, <2>2, <2>3
    DEF InHandInv, InHand, Types, Phases, Success, CheckedCallsComplete
<1>8. CASE ReplayFocal \/ ExecuteArm
  BY <1>8, ExecuteArmKeeps
<1>9. CASE Close
  <2>1. /\ phase' = "closed" /\ queue' = << >> /\ phase \in {"prefix", "arm"}
        /\ UNCHANGED <<cause, received, disk, adapter>>
    BY <1>9 DEF Close
  <2> QED
    BY <1>t, <2>1
    DEF InHandInv, InHand, Types, Phases, Success, CheckedCallsComplete
<1>10. CASE UNCHANGED vars
  BY <1>10
  DEF vars, InHandInv, InHand, Types, InPlace, Success, CheckedCallsComplete,
      Call, PreCheck, Validation, ShellString, Mutating
<1> QED
  BY <1>1, <1>2, <1>3, <1>4, <1>5, <1>6, <1>7, <1>8, <1>9, <1>10 DEF Next

-----------------------------------------------------------------------------
(* The common workspace *)

\* No step but that of a judged call touches the common workspace, and none
\* touches a file outside.
LEMMA CommonStep ==
  ASSUME InHandInv, [Next]_vars
  PROVE  /\ disk'["outside"] = disk["outside"]
         /\ disk'["common"] # disk["common"] => phase = "judged"
<1>t. Types
  BY DEF InHandInv
<1>1. ASSUME NEW batch \in Batches, Receive(batch) PROVE UNCHANGED disk
  BY <1>1 DEF Receive, Raise
<1>2. CASE Reject \/ Refuse \/ Close \/ UNCHANGED vars
  BY <1>2 DEF Reject, Refuse, Close, Raise, vars
<1>3. CASE CopyCandidate \/ CopyArm
  BY <1>t, <1>3 DEF CopyCandidate, CopyArm, Types, Sites
<1>4. CASE Judge
  <2>1. /\ queue # << >> /\ PreCheck(Call) = "passes" /\ Mutating(Call)
    BY <1>4 DEF Judge, InHandInv, InHand
  <2>2. Call \in CallType
    BY <1>t, <2>1, HeadTail
  <2>3. CASE AdapterRefuses(Call) \/ Outcome("candidate", Call) = "raises"
    BY <1>4, <2>3 DEF Judge, Raise
  <2>4. CASE ~(AdapterRefuses(Call) \/ Outcome("candidate", Call) = "raises")
    <3>1. Written("candidate", Call)
            = [disk EXCEPT !["candidate"] = [@ EXCEPT ![Call.name] = Call.content]]
      BY <1>t, <2>1, <2>2, <2>4, CopyWritten
    <3>2. disk' = [Written("candidate", Call) EXCEPT !["candidate"] = Removed]
      BY <1>4, <2>4 DEF Judge
    <3> QED
      BY <1>t, <3>1, <3>2 DEF Types, Sites
  <2> QED
    BY <2>3, <2>4
<1>5. CASE ExecuteCommon
  <2>1. CASE phase = "prefix"
    <3>1. ~Mutating(Call) /\ Execute("common")
      BY <1>5, <2>1 DEF ExecuteCommon
    <3> QED
      BY <3>1, ReadsWriteNothing DEF Execute
  <2>2. CASE phase = "judged"
    <3>1. /\ Execute("common") /\ queue # << >>
          /\ Mutating(Call) /\ InPlace(Call)
      BY <1>5, <2>2 DEF ExecuteCommon, InHandInv, InHand
    <3>2. Call \in CallType
      BY <1>t, <3>1, HeadTail
    <3>3. Written("common", Call)
            = [disk EXCEPT !["common"] = [@ EXCEPT ![Call.name] = Call.content]]
      BY <1>t, <3>1, <3>2, WrittenInPlace DEF InPlace, Sites
    <3> QED
      BY <1>t, <2>2, <3>1, <3>3 DEF Execute, Types, Sites
  <2> QED
    BY <1>5, <2>1, <2>2 DEF ExecuteCommon
<1>6. CASE ReplayFocal \/ ExecuteArm
  <2>1. Execute("arm") /\ queue # << >>
    BY <1>6 DEF ReplayFocal, ExecuteArm, MayCall, InHandInv, InHand
  <2>2. Call \in CallType
    BY <1>t, <2>1, HeadTail
  <2>3. CASE AdapterRefuses(Call) \/ Outcome("arm", Call) = "raises"
    BY <2>1, <2>3 DEF Execute
  <2>4. CASE ~(AdapterRefuses(Call) \/ Outcome("arm", Call) = "raises")
    BY <1>t, <2>1, <2>2, <2>4, ArmLeavesCommon DEF Execute
  <2> QED
    BY <2>3, <2>4
<1> QED
  BY <1>1, <1>2, <1>3, <1>4, <1>5, <1>6 DEF Next

-----------------------------------------------------------------------------
(* The audit trail *)

\* The trail of an adapter of whose sequence n numbers are unaccounted for.
Trail(a, n) ==
    /\ \A i \in DOMAIN a.audit : a.audit[i].sequence <= a.sequence
    /\ \A i, j \in DOMAIN a.audit :
         i < j => a.audit[i].sequence < a.audit[j].sequence
    /\ a.sequence - Len(a.audit) - a.missing = n
    /\ \A i \in DOMAIN a.audit :
         a.audit[i].terminal <=> (a.decided /\ i = Len(a.audit))

TrailInv ==
    /\ \A site \in {"common", "arm"} :
         \/ Trail(adapter[site], 0)
         \/ phase = "raised" /\ Trail(adapter[site], 1)
    /\ phase \in {"prefix"} \cup InHand => adapter["arm"] = Fresh
    /\ phase \in InHand => ~adapter["common"].decided

LEMMA FreshTrail == Trail(Fresh, 0) /\ ~Fresh.decided
  BY DEF Trail, Fresh

\* The clauses of a trail, for the counters and the entries one by one.
LEMMA Skipped ==
  ASSUME NEW sequence \in Nat, NEW length \in Nat, NEW missing \in Nat,
         sequence - length - missing = 0
  PROVE  /\ (sequence + 1) - length - missing = 1
         /\ (sequence + 1) - length - (missing + 1) = 0
         /\ (sequence + 1) - (length + 1) - missing = 0
  OBVIOUS

LEMMA ElementOf ==
  ASSUME NEW S, NEW s \in Seq(S), NEW i \in DOMAIN s
  PROVE  s[i] \in S
  OBVIOUS

LEMMA EntryTyped ==
  ASSUME NEW audit \in Seq([sequence : Nat, terminal : BOOLEAN])
  PROVE  \A i \in DOMAIN audit : audit[i].sequence \in Nat
<1> SUFFICES ASSUME NEW i \in DOMAIN audit
             PROVE  audit[i].sequence \in Nat
  OBVIOUS
<1>1. audit[i] \in [sequence : Nat, terminal : BOOLEAN]
  BY ElementOf
<1> QED
  BY <1>1

\* One more entry leaves a trail in order and its terminal entry last.
LEMMA Appended ==
  ASSUME NEW audit \in Seq([sequence : Nat, terminal : BOOLEAN]),
         NEW last \in [sequence : Nat, terminal : BOOLEAN],
         \A i \in DOMAIN audit : audit[i].sequence < last.sequence,
         \A i, j \in DOMAIN audit : i < j => audit[i].sequence < audit[j].sequence,
         \A i \in DOMAIN audit : ~audit[i].terminal,
         NEW longer, longer = Append(audit, last)
  PROVE  /\ Len(longer) = Len(audit) + 1
         /\ \A i \in DOMAIN longer : longer[i].sequence <= last.sequence
         /\ \A i, j \in DOMAIN longer :
              i < j => longer[i].sequence < longer[j].sequence
         /\ \A i \in DOMAIN longer :
              longer[i].terminal <=> (last.terminal /\ i = Len(longer))
<1>1. /\ Len(audit) \in Nat /\ DOMAIN audit = 1 .. Len(audit)
      /\ Len(longer) = Len(audit) + 1 /\ DOMAIN longer = 1 .. Len(audit) + 1
      /\ longer[Len(audit) + 1] = last
  OBVIOUS
<1>2. \A i \in 1 .. Len(audit) : longer[i] = audit[i]
  OBVIOUS
<1>3. \A i \in 1 .. Len(audit) : audit[i].sequence \in Nat
  BY <1>1, EntryTyped
<1>4. last.sequence \in Nat
  OBVIOUS
<1>5. \A i \in DOMAIN longer : i \in 1 .. Len(audit) \/ i = Len(audit) + 1
  BY <1>1
<1>6. \A i \in DOMAIN longer : longer[i].sequence <= last.sequence
  BY <1>1, <1>2, <1>3, <1>4, <1>5
<1>7. \A i, j \in DOMAIN longer : i < j => longer[i].sequence < longer[j].sequence
  <2> SUFFICES ASSUME NEW i \in DOMAIN longer, NEW j \in DOMAIN longer, i < j
               PROVE  longer[i].sequence < longer[j].sequence
    OBVIOUS
  <2>1. i \in 1 .. Len(audit)
    BY <1>1
  <2>2. CASE j = Len(audit) + 1
    BY <1>1, <1>2, <2>1, <2>2
  <2>3. CASE j \in 1 .. Len(audit)
    BY <1>1, <1>2, <2>1, <2>3
  <2> QED
    BY <1>5, <2>2, <2>3
<1>8. \A i \in DOMAIN longer :
        longer[i].terminal <=> (last.terminal /\ i = Len(longer))
  BY <1>1, <1>2, <1>5
<1> QED
  BY <1>1, <1>6, <1>7, <1>8

LEMMA RecordedTrail ==
  ASSUME NEW a \in AdapterType, NEW call \in CallType, NEW outcome,
         outcome \in {"result", "missing", "raises"}, ~a.decided, Trail(a, 0)
  PROVE  Trail(Recorded(a, call, outcome), IF outcome = "raises" THEN 1 ELSE 0)
<1> DEFINE r == Recorded(a, call, outcome)
<1>1. /\ a.sequence \in Nat /\ a.missing \in Nat /\ a.decided \in BOOLEAN
      /\ a.audit \in Seq([sequence : Nat, terminal : BOOLEAN])
  BY DEF AdapterType
<1>2. /\ Len(a.audit) \in Nat
      /\ \A i \in DOMAIN a.audit : a.audit[i].sequence \in Nat
  BY <1>1, EntryTyped
<1>3. /\ (a.sequence + 1) - Len(a.audit) - a.missing = 1
      /\ (a.sequence + 1) - Len(a.audit) - (a.missing + 1) = 0
      /\ (a.sequence + 1) - (Len(a.audit) + 1) - a.missing = 0
  BY <1>1, <1>2, Skipped DEF Trail
<1>4. \A i \in DOMAIN a.audit : a.audit[i].sequence < a.sequence + 1
  BY <1>1, <1>2 DEF Trail
<1>5. CASE outcome = "result"
  <2> DEFINE e == Entry(a, call)
  <2>1. /\ r.sequence = a.sequence + 1 /\ r.audit = Append(a.audit, e)
        /\ r.missing = a.missing /\ r.decided = Decided(a, call)
    BY <1>5 DEF Recorded
  <2>2. /\ e.sequence = a.sequence + 1 /\ e.terminal = r.decided
        /\ e \in [sequence : Nat, terminal : BOOLEAN]
    BY <1>1, <2>1 DEF Entry, Decided
  <2>3. \A i \in DOMAIN a.audit : ~a.audit[i].terminal
    BY DEF Trail
  <2> HIDE DEF e, r
  <2>4. /\ Len(r.audit) = Len(a.audit) + 1
        /\ \A i \in DOMAIN r.audit : r.audit[i].sequence <= e.sequence
        /\ \A i, j \in DOMAIN r.audit :
             i < j => r.audit[i].sequence < r.audit[j].sequence
        /\ \A i \in DOMAIN r.audit :
             r.audit[i].terminal <=> (e.terminal /\ i = Len(r.audit))
    <3>1. \A i \in DOMAIN a.audit : a.audit[i].sequence < e.sequence
      BY <1>4, <2>2
    <3>2. \A i, j \in DOMAIN a.audit :
            i < j => a.audit[i].sequence < a.audit[j].sequence
      BY DEF Trail
    <3> QED
      BY <1>1, <2>1, <2>2, <2>3, <3>1, <3>2, Appended
  <2>5. r.sequence - Len(r.audit) - r.missing = 0
    BY <1>3, <2>1, <2>4
  <2>6. Trail(r, 0)
    BY <2>1, <2>2, <2>4, <2>5 DEF Trail
  <2> QED
    BY <1>5, <2>6 DEF r
<1>6. CASE outcome # "result"
  <2>1. /\ r.sequence = a.sequence + 1 /\ r.audit = a.audit
        /\ r.missing = IF outcome = "missing" THEN a.missing + 1 ELSE a.missing
        /\ r.decided = a.decided
    BY <1>6 DEF Recorded
  <2> HIDE DEF r
  <2>2. \A i \in DOMAIN r.audit : r.audit[i].sequence <= r.sequence
    BY <1>1, <1>2, <2>1 DEF Trail
  <2>3. \A i, j \in DOMAIN r.audit :
          i < j => r.audit[i].sequence < r.audit[j].sequence
    BY <2>1 DEF Trail
  <2>4. \A i \in DOMAIN r.audit :
          r.audit[i].terminal <=> (r.decided /\ i = Len(r.audit))
    BY <2>1 DEF Trail
  <2>5. CASE outcome = "missing"
    <3>1. r.missing = a.missing + 1
      BY <2>1, <2>5
    <3>2. r.sequence - Len(r.audit) - r.missing = 0
      BY <1>3, <2>1, <3>1
    <3>3. Trail(r, 0)
      BY <2>2, <2>3, <2>4, <3>2 DEF Trail
    <3> QED
      BY <2>5, <3>3 DEF r
  <2>6. CASE outcome = "raises"
    <3>1. r.missing = a.missing
      BY <2>1, <2>6
    <3>2. r.sequence - Len(r.audit) - r.missing = 1
      BY <1>3, <2>1, <3>1
    <3>3. Trail(r, 1)
      BY <2>2, <2>3, <2>4, <3>2 DEF Trail
    <3> QED
      BY <2>6, <3>3 DEF r
  <2> QED
    BY <1>6, <2>5, <2>6
<1> QED
  BY <1>5, <1>6

LEMMA OutcomeForms ==
  ASSUME NEW site, NEW call
  PROVE  Outcome(site, call) \in {"result", "missing", "raises"}
  BY DEF Outcome

\* What a call recorded at a site leaves of the trail of that site.
LEMMA ExecuteTrail ==
  ASSUME Types, NEW site \in {"common", "arm"}, queue # << >>,
         PreCheck(Call) = "passes", Execute(site),
         ~adapter[site].decided, Trail(adapter[site], 0)
  PROVE  /\ adapter' = [adapter EXCEPT ![site] = adapter'[site]]
         /\ \/ Trail(adapter'[site], 0)
            \/ phase' = "raised" /\ Trail(adapter'[site], 1)
<1> DEFINE outcome == Outcome(site, Call)
<1>1. /\ Call \in CallType /\ ~AdapterRefuses(Call)
      /\ outcome \in {"result", "missing", "raises"}
      /\ adapter[site] \in AdapterType
      /\ adapter \in [{"common", "arm"} -> AdapterType]
  BY HeadTail, PassesTwice, OutcomeForms DEF Types
<1>2. adapter' = [adapter EXCEPT ![site] = Recorded(adapter[site], Call, outcome)]
  BY DEF Execute
<1>3. adapter'[site] = Recorded(adapter[site], Call, outcome)
  BY <1>1, <1>2
<1>4. outcome = "raises" => phase' = "raised"
  BY <1>1 DEF Execute
<1>5. Trail(adapter'[site], IF outcome = "raises" THEN 1 ELSE 0)
  <2> HIDE DEF outcome
  <2> QED BY <1>1, <1>3, RecordedTrail
<1>6. CASE outcome = "raises"
  BY <1>2, <1>3, <1>4, <1>5, <1>6
<1>7. CASE outcome # "raises"
  BY <1>2, <1>3, <1>5, <1>7
<1> QED
  BY <1>6, <1>7

LEMMA TrailInit == Init => TrailInv
<1> SUFFICES ASSUME Init
             PROVE  TrailInv
  OBVIOUS
<1>1. \A site \in {"common", "arm"} : adapter[site] = Fresh
  BY DEF Init
<1> QED
  BY <1>1, FreshTrail DEF Init, TrailInv, InHand

LEMMA TrailStep ==
  ASSUME InHandInv, TrailInv, [Next]_vars
  PROVE  TrailInv'
<1>t. Types
  BY DEF InHandInv
<1>0. phase # "raised" =>
        \A site \in {"common", "arm"} : Trail(adapter[site], 0)
  BY DEF TrailInv
<1>1. CASE \/ \E batch \in Batches : Receive(batch)
           \/ Reject \/ Refuse \/ Close
  <2>1. /\ UNCHANGED adapter
        /\ phase \in {"prefix", "arm"}
        /\ phase' \in {phase, "raised", "closed"}
    BY <1>1 DEF Receive, Reject, Refuse, Close, Raise, MayCall
  <2>2. \A site \in {"common", "arm"} : Trail(adapter[site], 0)
    BY <1>0, <2>1
  <2> QED
    BY <2>1, <2>2 DEF TrailInv, InHand
<1>2. CASE CopyCandidate \/ Judge \/ CopyArm
  <2>1. /\ UNCHANGED adapter
        /\ phase \in {"prefix"} \cup InHand
        /\ phase # "raised"
        /\ phase = "prefix" => ~adapter["common"].decided
    BY <1>2
    DEF CopyCandidate, Judge, CopyArm, Raise, MayCall, Open, Site, InHand
  <2>2. \A site \in {"common", "arm"} : Trail(adapter[site], 0)
    BY <1>0, <2>1
  <2>3. adapter["arm"] = Fresh /\ ~adapter["common"].decided
    BY <2>1 DEF TrailInv
  <2> QED
    BY <2>1, <2>2, <2>3 DEF TrailInv
<1>3. CASE ExecuteCommon
  <2>1. /\ Execute("common") /\ queue # << >> /\ PreCheck(Call) = "passes"
        /\ phase \in {"prefix", "judged"}
        /\ phase = "prefix" => ~adapter["common"].decided
    BY <1>3 DEF ExecuteCommon, MayCall, Open, Site, InHandInv, InHand
  <2>2. ~adapter["common"].decided /\ adapter["arm"] = Fresh
    BY <2>1 DEF TrailInv, InHand
  <2>3. \A site \in {"common", "arm"} : Trail(adapter[site], 0)
    BY <1>0, <2>1
  <2>4. /\ adapter' = [adapter EXCEPT !["common"] = adapter'["common"]]
        /\ \/ Trail(adapter'["common"], 0)
           \/ phase' = "raised" /\ Trail(adapter'["common"], 1)
    BY <1>t, <2>1, <2>2, <2>3, ExecuteTrail
  <2>5. adapter'["arm"] = Fresh /\ adapter'["arm"] = adapter["arm"]
    BY <1>t, <2>2, <2>4 DEF Types
  <2>6. phase' \in {"raised", "prefix"}
    BY <2>1 DEF Execute
  <2> QED
    BY <2>3, <2>4, <2>5, <2>6 DEF TrailInv, InHand
<1>4. CASE ReplayFocal \/ ExecuteArm
  <2>1. /\ Execute("arm") /\ queue # << >> /\ PreCheck(Call) = "passes"
        /\ phase \in {"replay", "arm"}
        /\ phase = "arm" => ~adapter["arm"].decided
    BY <1>4 DEF ReplayFocal, ExecuteArm, MayCall, Open, Site, InHandInv, InHand
  <2>2. ~adapter["arm"].decided
    BY <2>1, FreshTrail DEF TrailInv, InHand
  <2>3. \A site \in {"common", "arm"} : Trail(adapter[site], 0)
    BY <1>0, <2>1
  <2>4. /\ adapter' = [adapter EXCEPT !["arm"] = adapter'["arm"]]
        /\ \/ Trail(adapter'["arm"], 0)
           \/ phase' = "raised" /\ Trail(adapter'["arm"], 1)
    BY <1>t, <2>1, <2>2, <2>3, ExecuteTrail
  <2>5. adapter'["common"] = adapter["common"]
    BY <1>t, <2>4 DEF Types
  <2>6. phase' \in {"raised", "arm"}
    BY <2>1 DEF Execute
  <2> QED
    BY <2>3, <2>4, <2>5, <2>6 DEF TrailInv, InHand
<1>5. CASE UNCHANGED vars
  BY <1>5 DEF vars, TrailInv
<1> QED
  BY <1>1, <1>2, <1>3, <1>4, <1>5 DEF Next

-----------------------------------------------------------------------------
(* Theorems *)

LEMMA InHandInvariant == Spec => []InHandInv
<1> QED
  BY InHandInit, InHandStep, PTL DEF Spec

LEMMA TrailInvariant == Spec => []TrailInv
<1> QED
  BY InHandInvariant, TrailInit, TrailStep, PTL DEF Spec

\* What is in hand, received and stored is of its type, and a call is in hand
\* exactly between its pre-check and its result, whatever the messages are.
THEOREM TypeCorrect == Spec => []TypeOK
<1>1. InHandInv => TypeOK
  BY DEF InHandInv, Types, TypeOK
<1> QED
  BY InHandInvariant, <1>1, PTL

\* A call the runner has checked completes: the registry's and the executor's
\* own validation refuse nothing the pre-check let pass, and what ran in its
\* counterfactual copy runs again, in the common workspace or in a copy.
THEOREM CallsComplete == Spec => []CheckedCallsComplete
<1>1. InHandInv => CheckedCallsComplete
  BY DEF InHandInv
<1> QED
  BY InHandInvariant, <1>1, PTL

\* The common workspace changes only by a judged call and never to a success,
\* and no patch writes outside the workspaces: no link that a command left is
\* followed to either.
THEOREM CommonIsJudged == Spec => OnlyJudgedCallsChangeCommon
<1> DEFINE Judged ==
      /\ disk'["outside"] = disk["outside"]
      /\ disk'["common"] # disk["common"] =>
           phase = "judged" /\ ~Success(disk'["common"])
<1>1. InHandInv /\ InHandInv' /\ [Next]_vars => [Judged]_vars
  <2>1. InHandInv' => ~Success(disk'["common"])
    BY DEF InHandInv, Success
  <2> QED
    BY <2>1, CommonStep
<1> QED
  BY InHandInvariant, <1>1, PTL DEF Spec, OnlyJudgedCallsChangeCommon

\* The sequences of the audit trails increase, skip only the calls that were
\* answered for a missing file and the one that raised, and end with the
\* terminal call if there was one, for any number of calls.
THEOREM TrailComplete == Spec => []AuditTrailComplete
<1>1. InHandInv /\ TrailInv => AuditTrailComplete
  <2> SUFFICES ASSUME InHandInv, TrailInv, NEW site \in DOMAIN adapter
               PROVE  LET a == adapter[site]
                          skipped == a.sequence - Len(a.audit) - a.missing
                      IN /\ \A i, j \in DOMAIN a.audit :
                              i < j => a.audit[i].sequence < a.audit[j].sequence
                         /\ skipped \in (IF phase = "raised" THEN {0, 1} ELSE {0})
                         /\ \A i \in DOMAIN a.audit :
                              a.audit[i].terminal <=>
                                (a.decided /\ i = Len(a.audit))
    BY DEF AuditTrailComplete
  <2>1. site \in {"common", "arm"}
    BY DEF InHandInv, Types
  <2>2. Trail(adapter[site], 0) \/ (phase = "raised" /\ Trail(adapter[site], 1))
    BY <2>1 DEF TrailInv
  <2> QED
    BY <2>2 DEF Trail
<1> QED
  BY InHandInvariant, TrailInvariant, <1>1, PTL

=============================================================================
