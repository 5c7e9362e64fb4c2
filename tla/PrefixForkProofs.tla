--------------------------- MODULE PrefixForkProofs -------------------------
(***************************************************************************)
(* What the fork of a prefix run establishes and the continuations keep,   *)
(* for every census of continuations and every set of workspace contents:  *)
(* the matched contrast, the isolation of the copies, the decisions, and   *)
(* that the runner implements the study's contract.                        *)
(***************************************************************************)
EXTENDS PrefixRunProofs

USE ContinuationsAssumption, PlanAssumption, WorkspaceAssumption,
    BatchAssumption, ReplayAssumption, RetryCountAssumption

-----------------------------------------------------------------------------
(* The fork: what the copies are made of, and what they are compared with  *)

\* What a replay that repeats the focal call leaves in copy i.
Prepared(i) == IF Faulted(i) THEN Fault[focal] ELSE focal

\* The call that triggered was successful, and until the copies are made
\* nothing else becomes focal.
FocalInv ==
    pc \in {"fork", "fork_audit", "arm", "closed", "probe", "audit",
            "published"} => Healthy(focal)

\* Each copy was frozen after its checks, and no agent has worked in it
\* before the fork is audited.
FrozenInv ==
    /\ \A i \in 1 .. Len(forked) :
         /\ Faulted(i) => Dangerous(forked[i])
         /\ Replayable => forked[i] = Prepared(i)
    /\ pc \in {"fork", "fork_audit"} => ws = forked

\* The label of each continuation is still what its audited assignment says.
AssignedTruth ==
    Forked => \A i \in Arms : TargetTruth(i) <=> (Source(i) = "verified")

\* Every audited assignment holds, and the copies of the continuations to
\* come are still as they were frozen.
AuditedInv ==
    /\ AssignedTruth
    /\ Forked => \A i \in Arms : i > k => ws[i] = forked[i]
    /\ pc \in {"audit", "published"} => k = N

ForkInv ==
    /\ PrefixStaysNegative
    /\ FocalInv
    /\ FrozenInv
    /\ AuditedInv
    /\ ForkNeverFails

LEMMA Verdicts ==
    ASSUME NEW w \in Workspaces
    PROVE  w.proxy \in BOOLEAN /\ w.target \in BOOLEAN
  OBVIOUS

\* The continuations that get no fault are the verified ones.
LEMMA SourceFacts ==
    ASSUME NEW i
    PROVE  /\ Source(i) \in {"echo", "erased", "verified"}
           /\ Faulted(i) <=> Source(i) # "verified"
  BY DEF Source, SourceArm, Faulted

LEMMA LengthZero ==
    ASSUME NEW S, NEW s \in Seq(S), Len(s) = 0
    PROVE  s = << >>
  OBVIOUS

LEMMA ForkInit == Init => ForkInv
  <1> SUFFICES ASSUME Init
               PROVE  ForkInv
    OBVIOUS
  <1>1. ~common.proxy
    BY DEF Init
  <1>2. FocalInv /\ FrozenInv /\ AuditedInv /\ ForkNeverFails
    BY DEF Init, FocalInv, FrozenInv, AuditedInv, AssignedTruth, Forked,
           ForkNeverFails
  <1> QED BY <1>1, <1>2 DEF ForkInv, PrefixStaysNegative

\* Stopping with an error that is not the fork's disturbs nothing.
LEMMA FailFork ==
    ASSUME ForkInv, NEW reason, Fail(reason),
           reason \notin {"fault_precondition", "fault_ineffective",
                         "assignment", "replay"}
    PROVE  ForkInv'
  BY DEF Fail, ForkInv, PrefixStaysNegative, FocalInv, FrozenInv, AuditedInv,
         AssignedTruth, TargetTruth, Forked, ForkNeverFails, Prepared, prefixVars,
         armVars

\* A step that neither works in a workspace nor moves the run on.
LEMMA QuietFork ==
    ASSUME ForkInv, UNCHANGED <<pc, error, common, focal, k, forked, ws>>
    PROVE  ForkInv'
  BY DEF ForkInv, PrefixStaysNegative, FocalInv, FrozenInv, AuditedInv,
         AssignedTruth, TargetTruth, Forked, ForkNeverFails, Prepared

\* One step per action of the common prefix.
LEMMA PreforkFork ==
    ASSUME ControlInv, ForkInv, Prefork
    PROVE  ForkInv'
  <1> USE DEF prefixVars, armVars
  <1>0. ASSUME UNCHANGED <<error, common, focal, forked, ws>>,
               pc = "prefork", pc' \in {"prefork", "no_opportunity"}
        PROVE  ForkInv'
    BY <1>0 DEF ForkInv, PrefixStaysNegative, FocalInv, FrozenInv, AuditedInv,
                AssignedTruth, Forked, ForkNeverFails, Prepared
  <1>1. ASSUME NEW attempts \in Attempts, NEW calls \in Batches,
               PreforkTurn(attempts, calls)
        PROVE  ForkInv'
    <2>1. CASE MayCharge(ledger, attempts, PreforkMax)
      BY <1>0, <1>1, <2>1 DEF PreforkTurn, PreforkHead
    <2>2. CASE ~MayCharge(ledger, attempts, PreforkMax)
      BY <1>1, <2>2, FailFork DEF PreforkTurn
    <2> QED BY <2>1, <2>2
  <1>2. CASE PreforkEnds
    <2>1. CASE Opens(PreforkMax)
      BY <1>0, <1>2, <2>1 DEF PreforkEnds, PreforkHead
    <2>2. CASE ~Opens(PreforkMax)
      BY <1>2, <2>2, FailFork DEF PreforkEnds
    <2> QED BY <2>1, <2>2
  <1>3. CASE PreforkIgnores \/ PreforkObserves \/ PreforkFinalizes
    BY <1>3, QuietFork DEF PreforkIgnores, PreforkObserves, PreforkFinalizes
  <1>4. ASSUME NEW w \in Workspaces, NEW real \in Workspaces,
               PreforkMutates(w, real)
        PROVE  ForkInv'
    <2>1. Replayable => ~real.proxy
      BY <1>4, Verdicts DEF PreforkMutates, Triggers, Healthy, Dangerous
    <2>2. /\ common' = real /\ pc = "prefork"
          /\ UNCHANGED <<pc, error, focal, k, forked, ws>>
      BY <1>4 DEF PreforkMutates, PreforkCall
    <2> QED BY <2>1, <2>2
            DEF ForkInv, PrefixStaysNegative, FocalInv, FrozenInv, AuditedInv,
                AssignedTruth, Forked, ForkNeverFails, Prepared
  <1>5. ASSUME NEW w \in Workspaces, PreforkDangerous(w)
        PROVE  ForkInv'
    BY <1>5, FailFork DEF PreforkDangerous
  <1>6. ASSUME NEW w \in Workspaces, PreforkTriggers(w)
        PROVE  ForkInv'
    <2>1. /\ Healthy(w) /\ focal' = w /\ pc = "prefork" /\ pc' = "fork"
          /\ UNCHANGED <<error, common, forked, ws>>
      BY <1>6 DEF PreforkTriggers, PreforkCall, Triggers
    <2>2. Len(forked) = 0 /\ forked = << >> /\ ws = << >>
      BY <2>1, LengthZero DEF ControlInv, CopiesInv, TypeOK
    <2> QED BY <2>1, <2>2
            DEF ForkInv, PrefixStaysNegative, FocalInv, FrozenInv, AuditedInv,
                AssignedTruth, Forked, ForkNeverFails
  <1> QED BY <1>1, <1>2, <1>3, <1>4, <1>5, <1>6 DEF Prefork

\* One more copy: with calls that repeat their effect no check of the fault
\* can fail, and the copy is frozen as the focal action and the fault leave it.
LEMMA CopyFork ==
    ASSUME ControlInv, ForkInv, NEW w \in Workspaces, ForkArm(w)
    PROVE  ForkInv'
  <1> USE DEF prefixVars, armVars
  <1> DEFINE i == Len(ws) + 1
             prepared == IF Faulted(i) THEN Fault[w] ELSE w
  <1>1. /\ pc = "fork" /\ Healthy(focal) /\ (Replayable => w = focal)
        /\ ws = forked /\ Len(ws) \in Nat /\ i = Len(forked) + 1
        /\ forked \in Seq(Workspaces) /\ focal \in Workspaces
    BY DEF ForkArm, ForkInv, FocalInv, FrozenInv, ControlInv, TypeOK
  <1>2. ASSUME Replayable, InjectorWorks, Faulted(i)
        PROVE  Healthy(w) /\ Dangerous(prepared)
    BY <1>1, <1>2 DEF InjectorWorks
  <1>3. ASSUME NEW reason, Fail(reason), ~(Replayable /\ InjectorWorks)
        PROVE  ForkInv'
    BY <1>3 DEF Fail, ForkInv, PrefixStaysNegative, FocalInv, FrozenInv, AuditedInv,
                AssignedTruth, Forked, ForkNeverFails, Prepared, InjectorWorks
  <1>4. CASE Faulted(i) /\ ~Healthy(w)
    BY <1>2, <1>3, <1>4 DEF ForkArm
  <1>5. CASE Faulted(i) /\ Healthy(w) /\ ~Dangerous(prepared)
    BY <1>2, <1>3, <1>5 DEF ForkArm
  <1>6. CASE Faulted(i) => Healthy(w) /\ Dangerous(prepared)
    <2>1. /\ forked' = Append(forked, prepared) /\ ws' = Append(ws, prepared)
          /\ pc' \in {"fork", "fork_audit"}
          /\ UNCHANGED <<error, common, focal, k>>
      BY <1>6 DEF ForkArm
    <2>2. Replayable => prepared = Prepared(i)
      BY <1>1 DEF Prepared
    <2>3. prepared \in Workspaces
      OBVIOUS
    <2> HIDE DEF i, prepared
    <2>4. /\ Len(forked') = Len(forked) + 1
          /\ forked'[i] = prepared
          /\ \A j \in 1 .. Len(forked) : forked'[j] = forked[j]
      BY <1>1, <2>1, <2>3
    <2>5. \A j \in 1 .. Len(forked') :
             /\ Faulted(j) => Dangerous(forked'[j])
             /\ Replayable => forked'[j] = Prepared(j)
      <3> SUFFICES ASSUME NEW j \in 1 .. Len(forked')
                   PROVE  /\ Faulted(j) => Dangerous(forked'[j])
                          /\ Replayable => forked'[j] = Prepared(j)
        OBVIOUS
      <3>1. CASE j = i
        BY <1>6, <2>2, <2>4, <3>1
      <3>2. CASE j # i
        <4>1. j \in 1 .. Len(forked)
          BY <1>1, <2>4, <3>2
        <4> QED BY <2>4, <4>1 DEF ForkInv, FrozenInv
      <3> QED BY <3>1, <3>2
    <2>6. FrozenInv'
      BY <1>1, <2>1, <2>5 DEF FrozenInv, Prepared
    <2> QED BY <1>1, <2>1, <2>6
            DEF ForkInv, PrefixStaysNegative, FocalInv, AuditedInv, AssignedTruth,
                Forked, ForkNeverFails
  <1> QED BY <1>4, <1>5, <1>6

\* The audit of the fork passes when calls repeat their effect.
LEMMA AuditPasses ==
    ASSUME ControlInv, ForkInv, pc = "fork_audit", Replayable
    PROVE  AssignmentHolds
  <1>1. ASSUME NEW i \in Arms
        PROVE  TargetTruth(i) <=> (Source(i) = "verified")
    <2>1. i \in 1 .. Len(forked) /\ Healthy(focal)
      BY ArmsFacts DEF ControlInv, CopiesInv, ForkInv, FocalInv
    <2>2. /\ Faulted(i) => Dangerous(forked[i])
          /\ ~Faulted(i) => forked[i] = focal
      BY <2>1 DEF ForkInv, FrozenInv, Prepared
    <2> QED BY <2>1, <2>2, SourceFacts DEF TargetTruth, Healthy, Dangerous
  <1> QED BY <1>1 DEF AssignmentHolds

\* A continuation starts on the contents frozen for it.
LEMMA StartFork ==
    ASSUME ForkInv, NEW i \in Arms, StartArm(i),
           UNCHANGED <<error, prefixVars, total, armVars, probed>>,
           Healthy(focal), AssignmentHolds,
           \A j \in Arms : j > i => ws[j] = forked[j]
    PROVE  ForkInv'
  BY DEF StartArm, ForkInv, PrefixStaysNegative, FocalInv, FrozenInv, AuditedInv,
         AssignedTruth, AssignmentHolds, TargetTruth, Forked, ForkNeverFails,
         Prepared, prefixVars, armVars

LEMMA ForkingFork ==
    ASSUME ControlInv, ForkInv, Forking
    PROVE  ForkInv'
  <1>1. ASSUME NEW w \in Workspaces, ForkArm(w)
        PROVE  ForkInv'
    BY <1>1, CopyFork
  <1>2. CASE ReplayBreaks
    BY <1>2 DEF ReplayBreaks, Fail, ForkInv, PrefixStaysNegative, FocalInv,
                FrozenInv, AuditedInv, AssignedTruth, Forked, ForkNeverFails,
                Prepared, prefixVars, armVars
  <1>3. CASE FaultRaises
    BY <1>3, FailFork DEF FaultRaises
  <1>4. CASE ForkAudit
    <2>1. CASE AssignmentHolds /\ Opens(ContinuationMax)
      <3>1. /\ StartArm(1) /\ pc = "fork_audit"
            /\ UNCHANGED <<error, prefixVars, total, armVars, probed>>
        BY <1>4, <2>1 DEF ForkAudit
      <3>2. Healthy(focal) /\ ws = forked
        BY <3>1 DEF ForkInv, FocalInv, FrozenInv
      <3> QED BY <2>1, <3>1, <3>2, StartFork, ArmsFacts
    <2>2. CASE ~AssignmentHolds
      <3>1. Fail("assignment") /\ ~Replayable
        BY <1>4, <2>2, AuditPasses DEF ForkAudit
      <3> QED BY <3>1 DEF Fail, ForkInv, PrefixStaysNegative, FocalInv, FrozenInv,
                          AuditedInv, AssignedTruth, Forked, ForkNeverFails,
                          Prepared, prefixVars, armVars
    <2>3. CASE AssignmentHolds /\ ~Opens(ContinuationMax)
      BY <1>4, <2>3, FailFork DEF ForkAudit
    <2> QED BY <2>1, <2>2, <2>3
  <1> QED BY <1>1, <1>2, <1>3, <1>4 DEF Forking

\* A continuation neither touches the frozen contents nor, once it ends or
\* hands over, a copy of a continuation to come.
LEMMA ArmFork ==
    ASSUME ForkInv, UNCHANGED <<error, common, focal, k, forked, ws>>,
           pc \in {"arm", "probe", "closed"}, pc' \in {"arm", "probe", "closed"}
    PROVE  ForkInv'
  BY DEF ForkInv, PrefixStaysNegative, FocalInv, FrozenInv, AuditedInv,
         AssignedTruth, TargetTruth, Forked, ForkNeverFails, Prepared

LEMMA ContinueFork ==
    ASSUME ControlInv, ForkInv, Continuing
    PROVE  ForkInv'
  <1> USE DEF prefixVars, armVars
  <1>1. ASSUME NEW attempts \in Attempts, NEW calls \in Batches,
               ArmTurn(attempts, calls)
        PROVE  ForkInv'
    <2>1. CASE MayCharge(ledger, attempts, ContinuationMax)
      BY <1>1, <2>1, QuietFork DEF ArmTurn
    <2>2. CASE ~MayCharge(ledger, attempts, ContinuationMax)
      BY <1>1, <2>2, FailFork DEF ArmTurn
    <2> QED BY <2>1, <2>2
  <1>2. ASSUME NEW attempts \in Attempts, ArmStops(attempts)
        PROVE  ForkInv'
    <2>1. CASE MayCharge(ledger, attempts, ContinuationMax)
      BY <1>2, <2>1, ArmFork DEF ArmStops, ArmHead, EndArm
    <2>2. CASE ~MayCharge(ledger, attempts, ContinuationMax)
      BY <1>2, <2>2, FailFork DEF ArmStops
    <2> QED BY <2>1, <2>2
  <1>3. CASE ArmCeiling \/ ArmFinalized
    BY <1>3, ArmFork DEF ArmCeiling, ArmFinalized, ArmHead, EndArm
  <1>4. CASE ArmObserves \/ ArmFinalizes \/ ArmChecks
    BY <1>4, QuietFork DEF ArmObserves, ArmFinalizes, ArmChecks
  <1>5. ASSUME NEW w \in Workspaces, ArmMutates(w)
        PROVE  ForkInv'
    <2>1. /\ pc = "arm" /\ k \in Arms
          /\ ws' = [ws EXCEPT ![k] = w]
          /\ UNCHANGED <<pc, error, common, focal, k, forked>>
      BY <1>5 DEF ArmMutates, ArmCall, ControlInv, TypeOK
    <2>2. \A i \in Arms : i > k => ws'[i] = ws[i]
      BY <2>1, ArmsFacts DEF ControlInv, CopiesInv, TypeOK
    <2> QED BY <2>1, <2>2
            DEF ForkInv, PrefixStaysNegative, FocalInv, FrozenInv, AuditedInv,
                AssignedTruth, TargetTruth, Forked, ForkNeverFails, Prepared
  <1>6. CASE ArmEvidenceRefused
    BY <1>6, FailFork DEF ArmEvidenceRefused
  <1> QED BY <1>1, <1>2, <1>3, <1>4, <1>5, <1>6 DEF Continuing

LEMMA ClosingFork ==
    ASSUME ControlInv, ForkInv, Closing
    PROVE  ForkInv'
  <1> USE DEF prefixVars, armVars
  <1>1. ASSUME NEW attempts \in Attempts, Probe(attempts)
        PROVE  ForkInv'
    BY <1>1, ArmFork DEF Probe
  <1>2. CASE ProbeRaises \/ RequestIdsCollide
    BY <1>2, FailFork DEF ProbeRaises, RequestIdsCollide
  <1>3. CASE NextArm
    <2>1. /\ pc = "closed" /\ k \in 1 .. N /\ k # N
          /\ UNCHANGED <<error, prefixVars, total, armVars, probed>>
          /\ StartArm(k + 1)
      BY <1>3, ArmsFacts DEF NextArm, LastArm, ControlInv, TypeOK, N
    <2>2. k + 1 \in Arms /\ \A j \in Arms : j > k + 1 => j > k
      BY <2>1, ArmsFacts
    <2>3. /\ Healthy(focal) /\ AssignmentHolds
          /\ \A j \in Arms : j > k => ws[j] = forked[j]
      BY <2>1 DEF ForkInv, FocalInv, AuditedInv, AssignedTruth, AssignmentHolds,
                  Forked
    <2> QED BY <2>1, <2>2, <2>3, StartFork
  <1>4. CASE ArmsDone
    <2>1. /\ pc = "closed" /\ pc' = "audit" /\ k = N
          /\ UNCHANGED <<error, common, focal, k, forked, ws>>
      BY <1>4 DEF ArmsDone, LastArm, N
    <2> QED BY <2>1 DEF ForkInv, PrefixStaysNegative, FocalInv, FrozenInv,
                        AuditedInv, AssignedTruth, TargetTruth, Forked,
                        ForkNeverFails, Prepared
  <1>5. CASE Publish
    <2>1. CASE WithinPrefixBudget
      <3>1. /\ pc = "audit" /\ pc' = "published"
            /\ UNCHANGED <<error, common, focal, k, forked, ws>>
        BY <1>5, <2>1 DEF Publish
      <3> QED BY <3>1 DEF ForkInv, PrefixStaysNegative, FocalInv, FrozenInv,
                          AuditedInv, AssignedTruth, TargetTruth, Forked,
                          ForkNeverFails, Prepared
    <2>2. CASE ~WithinPrefixBudget
      BY <1>5, <2>2, FailFork DEF Publish
    <2> QED BY <2>1, <2>2
  <1> QED BY <1>1, <1>2, <1>3, <1>4, <1>5 DEF Closing

LEMMA ForkStep == ControlInv /\ ForkInv /\ [Next]_vars => ForkInv'
  <1> SUFFICES ASSUME ControlInv, ForkInv, [Next]_vars
               PROVE  ForkInv'
    OBVIOUS
  <1>1. CASE TurnRaises \/ CallRaises
    BY <1>1, FailFork DEF TurnRaises, CallRaises
  <1>2. CASE UNCHANGED vars
    BY <1>2, QuietFork DEF vars, prefixVars, armVars
  <1> QED BY <1>1, <1>2, PreforkFork, ForkingFork, ContinueFork, ClosingFork
          DEF Next

LEMMA ForkInvariant == Spec => []ForkInv
  <1> QED BY ForkInit, ForkStep, ControlInvariant, PTL DEF Spec

\* The trigger's evaluation leaves no natural prefix with a positive proxy,
\* as long as calls repeat their effect.
THEOREM PrefixNegative == Spec => []PrefixStaysNegative
  <1>1. ForkInv => PrefixStaysNegative
    BY DEF ForkInv
  <1> QED BY <1>1, ForkInvariant, PTL

\* With calls that repeat their effect and an injector that works, none of
\* the fork's checks raises, for any census and any contents.
THEOREM ForkSucceeds == Spec => []ForkNeverFails
  <1>1. ForkInv => ForkNeverFails
    BY DEF ForkInv
  <1> QED BY <1>1, ForkInvariant, PTL

\* Only the current continuation writes to its workspace, and a continuation
\* starts undecided on the contents frozen for it.
THEOREM CopiesIsolated == Spec => []CopiesAreIsolated
  <1>1. ControlInv /\ ForkInv => CopiesAreIsolated
    <2> SUFFICES ASSUME ControlInv, ForkInv, Forked, NEW i \in Arms, i > k
                 PROVE  ws[i] = forked[i] /\ decision[i] = "none"
      BY DEF CopiesAreIsolated
    <2>1. ws[i] = forked[i]
      BY DEF ForkInv, AuditedInv
    <2>2. CASE pc \in {"arm", "closed", "probe"}
      BY <2>1, <2>2 DEF ControlInv, OrderInv
    <2>3. CASE pc \in {"audit", "published"}
      BY <2>3, ArmsFacts DEF ForkInv, AuditedInv
    <2> QED BY <2>2, <2>3 DEF Forked
  <1> QED BY <1>1, ForkInvariant, ControlInvariant, PTL

\* The design's contrast, when calls repeat their effect: the echo and erased
\* copies were frozen alike, proxy positive and target false, and the
\* verified ones with the contents of the successful action.
THEOREM MatchedContrast == Replayable => (Spec => []MatchedFaultedState)
  <1> SUFFICES ASSUME Replayable
               PROVE  Spec => []MatchedFaultedState
    OBVIOUS
  <1>1. ControlInv /\ ForkInv => MatchedFaultedState
    <2> SUFFICES ASSUME ControlInv, ForkInv, Forked, NEW i \in Arms, NEW j \in Arms
                 PROVE  /\ Faulted(i) => Dangerous(forked[i])
                        /\ ~Faulted(i) => Healthy(forked[i])
                        /\ Faulted(i) = Faulted(j) => forked[i] = forked[j]
      BY DEF MatchedFaultedState
    <2>1. i \in 1 .. Len(forked) /\ j \in 1 .. Len(forked) /\ Healthy(focal)
      BY ArmsFacts DEF Forked, ControlInv, CopiesInv, ForkInv, FocalInv
    <2>2. /\ Faulted(i) => Dangerous(forked[i])
          /\ forked[i] = Prepared(i) /\ forked[j] = Prepared(j)
      BY <2>1 DEF ForkInv, FrozenInv
    <2> QED BY <2>1, <2>2 DEF Prepared
  <1> QED BY <1>1, ForkInvariant, ControlInvariant, PTL

-----------------------------------------------------------------------------
(* Decisions and evidence: what one step of a continuation may change *)

\* Who writes to the copies, the decisions and the observations.
LEMMA ArmWrites ==
    ASSUME [Next]_vars
    PROVE  \/ UNCHANGED <<ws, decision, observations, forked, standing>>
           \/ pc = "fork" /\ UNCHANGED <<decision, observations, standing>>
           \/ /\ ArmCall
              /\ \E w \in Workspaces : ws' = [ws EXCEPT ![k] = w]
              /\ standing' = [standing EXCEPT ![k] = "worked"]
              /\ UNCHANGED <<decision, observations, forked>>
           \/ ArmFinalizes /\ UNCHANGED <<ws, observations>>
           \/ ArmChecks /\ UNCHANGED <<ws, decision>>
  <1> USE DEF Fail, armVars
  <1>1. CASE Prefork
    BY <1>1 DEF Prefork, PreforkTurn, PreforkEnds, PreforkIgnores, PreforkObserves,
                PreforkFinalizes, PreforkMutates, PreforkDangerous, PreforkTriggers
  <1>2. CASE Forking
    BY <1>2 DEF Forking, ForkArm, ReplayBreaks, FaultRaises, ForkAudit
  <1>3. CASE Continuing
    <2>1. CASE \E w \in Workspaces : ArmMutates(w)
      BY <2>1 DEF ArmMutates
    <2>2. CASE ArmFinalizes \/ ArmChecks
      BY <2>2 DEF ArmFinalizes, ArmChecks
    <2> QED BY <1>3, <2>1, <2>2
            DEF Continuing, ArmTurn, ArmStops, ArmCeiling, ArmFinalized, EndArm,
                ArmObserves, ArmEvidenceRefused
  <1>4. CASE Closing
    BY <1>4 DEF Closing, Probe, ProbeRaises, NextArm, ArmsDone, RequestIdsCollide,
                Publish
  <1>5. CASE TurnRaises \/ CallRaises \/ UNCHANGED vars
    BY <1>5 DEF TurnRaises, CallRaises, vars
  <1> QED BY <1>1, <1>2, <1>3, <1>4, <1>5 DEF Next

\* After finalize_task neither the decision nor the workspace of that
\* continuation changes, whatever else its message asked for and whatever the
\* other continuations do.
THEOREM DecisionsStand == Spec => DecisionIsIrreversible
  <1>1. ASSUME ControlInv, [Next]_vars
        PROVE  \A i \in Arms : decision[i] # "none" =>
                                 decision'[i] = decision[i] /\ ws'[i] = ws[i]
    <2> SUFFICES ASSUME NEW i \in Arms, decision[i] # "none"
                 PROVE  decision'[i] = decision[i] /\ ws'[i] = ws[i]
      OBVIOUS
    <2>1. CASE pc = "fork"
      BY <1>1, <2>1 DEF ControlInv, OrderInv
    <2>2. ASSUME ArmCall
          PROVE  k \in Arms /\ i # k /\ i \in 1 .. Len(ws) /\ ws \in Seq(Workspaces)
      BY <1>1, <2>2, ArmsFacts
         DEF ArmCall, StillOpen, ControlInv, CopiesInv, TypeOK
    <2>3. ASSUME ArmCall, NEW w \in Workspaces, ws' = [ws EXCEPT ![k] = w],
                 UNCHANGED decision
          PROVE  decision'[i] = decision[i] /\ ws'[i] = ws[i]
      BY <2>2, <2>3
    <2>4. CASE ArmFinalizes /\ UNCHANGED ws
      BY <1>1, <2>2, <2>4 DEF ArmFinalizes, ControlInv, TypeOK
    <2> QED BY <1>1, <2>1, <2>3, <2>4, ArmWrites
  <1>2. ControlInv /\ [Next]_vars =>
          [\A i \in Arms :
             decision[i] # "none" =>
               /\ decision'[i] = decision[i]
               /\ ws'[i] = ws[i]]_vars
    BY <1>1
  <1> QED BY <1>2, ControlInvariant, PTL DEF Spec, DecisionIsIrreversible

\* Evidence is rendered only while it is true of the workspace as it is now.
THEOREM EvidenceTrue == Spec => EvidenceIsCurrent
  <1>1. ASSUME ControlInv, [Next]_vars
        PROVE  \A i \in Arms :
                 observations'[i] > observations[i] =>
                   /\ Source(i) = "verified" => ws[i].target
                   /\ Source(i) = "echo" => ws[i].proxy
    <2> SUFFICES ASSUME NEW i \in Arms, observations'[i] > observations[i]
                 PROVE  /\ Source(i) = "verified" => ws[i].target
                        /\ Source(i) = "echo" => ws[i].proxy
      OBVIOUS
    <2>1. observations[i] \in Nat /\ observations \in [Arms -> Nat] /\ k \in Arms
      BY <1>1 DEF ControlInv, TypeOK
    <2>2. CASE UNCHANGED observations
      BY <2>1, <2>2
    <2>3. CASE ArmChecks
      <3>1. i = k /\ EvidenceAgrees
        BY <2>1, <2>3 DEF ArmChecks
      <3>2. i \in 1 .. Len(ws) /\ ws \in Seq(Workspaces)
        BY <1>1, <2>3, ArmsFacts
           DEF ArmChecks, ArmCall, ControlInv, CopiesInv, TypeOK
      <3>3. ws[i].proxy \in BOOLEAN /\ ws[i].target \in BOOLEAN
        BY <3>2, Verdicts
      <3> QED BY <3>1, <3>3, SourceFacts
              DEF EvidenceAgrees, NativePositive, RecordPositive
    <2> QED BY <1>1, <2>2, <2>3, ArmWrites
  <1>2. ControlInv /\ [Next]_vars =>
          [\A i \in Arms :
             observations'[i] > observations[i] =>
               /\ Source(i) = "verified" => ws[i].target
               /\ Source(i) = "echo" => ws[i].proxy]_vars
    BY <1>1
  <1> QED BY <1>2, ControlInvariant, PTL DEF Spec, EvidenceIsCurrent

Early == {"prefork", "fork", "fork_audit", "no_opportunity"}

\* The continuations are run after the audit, and nothing returns from them.
LEMMA PhaseMoves ==
    ASSUME [Next]_vars
    PROVE  /\ Forked' => Forked \/ pc = "fork_audit"
           /\ pc' \in Early => pc \in Early
  <1> USE DEF Fail, Forked, Early
  <1>1. CASE Prefork
    BY <1>1 DEF Prefork, PreforkTurn, PreforkEnds, PreforkIgnores, PreforkObserves,
                PreforkFinalizes, PreforkMutates, PreforkDangerous, PreforkTriggers,
                PreforkHead, PreforkCall
  <1>2. CASE Forking
    BY <1>2 DEF Forking, ForkArm, ReplayBreaks, FaultRaises, ForkAudit, StartArm
  <1>3. CASE Continuing
    BY <1>3 DEF Continuing, ArmTurn, ArmStops, ArmCeiling, ArmFinalized, EndArm,
                ArmObserves, ArmMutates, ArmFinalizes, ArmChecks, ArmHead, ArmCall,
                ArmEvidenceRefused
  <1>4. CASE Closing
    BY <1>4 DEF Closing, Probe, ProbeRaises, NextArm, ArmsDone, RequestIdsCollide,
                Publish, StartArm
  <1>5. CASE TurnRaises \/ CallRaises \/ UNCHANGED vars
    BY <1>5 DEF TurnRaises, CallRaises, vars
  <1> QED BY <1>1, <1>2, <1>3, <1>4, <1>5 DEF Next

\* What is known of a copy from what happened to it last.
StandingInv ==
    /\ pc \in Early => \A i \in Arms : standing[i] = "frozen"
    /\ Forked =>
         \A i \in Arms :
            /\ standing[i] = "frozen" => ws[i] = forked[i]
            /\ standing[i] = "measured" /\ Source(i) = "verified" => ws[i].target

LEMMA StandingStep ==
    ControlInv /\ ForkInv /\ StandingInv /\ [Next]_vars => StandingInv'
  <1> SUFFICES ASSUME ControlInv, ForkInv, StandingInv, [Next]_vars
               PROVE  StandingInv'
    OBVIOUS
  <1>0. Early \subseteq Pcs /\ (Forked => pc \notin Early)
    BY DEF Early, Pcs, Forked
  <1>1. ASSUME ArmCall
        PROVE  /\ pc = "arm" /\ Forked /\ pc \notin Early /\ k \in Arms
               /\ k \in 1 .. Len(ws) /\ ws \in Seq(Workspaces)
               /\ standing \in [Arms -> {"frozen", "worked", "measured"}]
    BY <1>1, ArmsFacts DEF ArmCall, Forked, Early, ControlInv, CopiesInv, TypeOK
  <1>2. CASE UNCHANGED <<ws, decision, observations, forked, standing>>
    <2>1. CASE pc = "fork_audit"
      <3>1. ws = forked /\ \A i \in Arms : standing[i] = "frozen"
        BY <2>1 DEF ForkInv, FrozenInv, StandingInv, Early
      <3> QED BY <1>2, <3>1 DEF StandingInv
    <2>2. CASE pc # "fork_audit"
      BY <1>2, <2>2, PhaseMoves DEF StandingInv
    <2> QED BY <2>1, <2>2
  <1>3. CASE pc = "fork" /\ UNCHANGED <<decision, observations, standing>>
    <2>1. ~Forked /\ pc \in Early
      BY <1>3 DEF Forked, Early
    <2> QED BY <1>3, <2>1, PhaseMoves DEF StandingInv
  <1>4. ASSUME ArmCall, NEW w \in Workspaces, ws' = [ws EXCEPT ![k] = w],
               standing' = [standing EXCEPT ![k] = "worked"], UNCHANGED forked
        PROVE  StandingInv'
    <2>1. /\ standing'[k] = "worked"
          /\ \A i \in Arms : i # k => standing'[i] = standing[i] /\ ws'[i] = ws[i]
      BY <1>1, <1>4
    <2>2. pc' \notin Early
      BY <1>1, <1>4, PhaseMoves
    <2> QED BY <1>1, <1>4, <2>1, <2>2 DEF StandingInv
  <1>5. CASE ArmFinalizes
    BY <1>5, PhaseMoves DEF ArmFinalizes, StandingInv, ArmCall, Forked
  <1>6. CASE ArmChecks /\ UNCHANGED ws
    <2>1. EvidenceAgrees /\ ArmCall /\ UNCHANGED <<pc, forked>>
      BY <1>6 DEF ArmChecks
    <2>2. /\ standing'[k] = "frozen" => standing[k] = "frozen"
          /\ \A i \in Arms : i # k => standing'[i] = standing[i]
      BY <1>1, <1>6, <2>1 DEF ArmChecks
    <2>3. Source(k) = "verified" => ws[k].target
      <3>1. ws[k] \in Workspaces
        BY <1>1, <2>1
      <3> QED BY <2>1, <3>1, Verdicts
              DEF EvidenceAgrees, NativePositive, RecordPositive
    <2> QED BY <1>1, <1>6, <2>1, <2>2, <2>3 DEF StandingInv, Forked
  <1> QED BY <1>2, <1>3, <1>4, <1>5, <1>6, ArmWrites

LEMMA StandingInvariant == Spec => []StandingInv
  <1>1. Init => StandingInv
    BY DEF Init, StandingInv, Forked
  <1> QED BY <1>1, StandingStep, ControlInvariant, ForkInvariant, PTL DEF Spec

\* Whatever calls do on replay, label, arm and submitted contents agree for
\* every continuation that submits its copy as it was frozen, and for a
\* verified one that measured after its last change.
THEOREM LabelsHold == Spec => []LabelHoldsAtSubmission
  <1>1. ControlInv /\ ForkInv /\ StandingInv => LabelHoldsAtSubmission
    <2> SUFFICES ASSUME ControlInv, ForkInv, StandingInv, Forked,
                        NEW i \in Arms, Vouched(i)
                 PROVE  /\ TargetTruth(i) <=> ws[i].target
                        /\ ws[i].target <=> (Source(i) = "verified")
      BY DEF LabelHoldsAtSubmission
    <2>1. TargetTruth(i) <=> (Source(i) = "verified")
      BY DEF ForkInv, AuditedInv, AssignedTruth
    <2>2. CASE standing[i] = "frozen"
      <3>1. ws[i] = forked[i]
        BY <2>2 DEF StandingInv
      <3> QED BY <2>1, <3>1 DEF TargetTruth
    <2>3. CASE standing[i] = "measured" /\ Source(i) = "verified"
      <3>1. ws[i].target
        BY <2>3 DEF StandingInv
      <3> QED BY <2>1, <2>3, <3>1
    <2> QED BY <2>2, <2>3 DEF Vouched
  <1> QED BY <1>1, ControlInvariant, ForkInvariant, StandingInvariant, PTL

-----------------------------------------------------------------------------
(* The runner implements the study's contract: module StudyContract *)

ContractVars == <<Phase, [i \in Arms |-> Verdict(i)]>>

\* A step the study does not see.
LEMMA ContractStutters ==
    ASSUME Phase' = Phase, \A i \in Arms : Verdict(i)' = Verdict(i)
    PROVE  UNCHANGED ContractVars
  BY DEF ContractVars, Arms

\* A run that stops with an error was not over.
LEMMA ContractAborts ==
    ASSUME NEW reason, Fail(reason), pc \notin Final, ControlInv
    PROVE  Contract!Abort
  BY DEF Fail, Final, Contract!Abort, Phase, Verdict, armVars, ControlInv, TypeOK, Pcs,
         Arms

LEMMA PreforkContract ==
    ASSUME ControlInv, Prefork
    PROVE  Contract!Next \/ UNCHANGED ContractVars
  <1> USE DEF prefixVars, armVars
  <1>1. ASSUME pc = "prefork", pc' \in {"prefork", "fork"},
               UNCHANGED <<decision, mode>>
        PROVE  UNCHANGED ContractVars
    <2>1. Phase' = Phase
      BY <1>1 DEF Phase
    <2> QED BY <1>1, <2>1, ContractStutters DEF Verdict
  <1>2. ASSUME pc = "prefork", pc' = "no_opportunity", UNCHANGED <<decision, mode>>
        PROVE  Contract!Pass
    BY <1>2 DEF Contract!Pass, Phase, Verdict
  <1>3. ASSUME NEW reason, Fail(reason), pc = "prefork"
        PROVE  Contract!Abort
    BY <1>3, ContractAborts DEF Final
  <1>4. CASE PreforkEnds
    BY <1>2, <1>3, <1>4 DEF PreforkEnds, PreforkHead, Contract!Next
  <1>5. CASE PreforkIgnores \/ PreforkObserves \/ PreforkFinalizes
    BY <1>1, <1>5 DEF PreforkIgnores, PreforkObserves, PreforkFinalizes, PreforkCall
  <1>6. ASSUME NEW attempts \in Attempts, NEW calls \in Batches,
               PreforkTurn(attempts, calls)
        PROVE  Contract!Next \/ UNCHANGED ContractVars
    <2>1. CASE Fail("charge")
      BY <1>3, <1>6, <2>1 DEF PreforkTurn, PreforkHead, Contract!Next
    <2>2. CASE /\ pc' = IF calls = << >> THEN "no_opportunity" ELSE "prefork"
               /\ UNCHANGED <<decision, mode>>
      BY <1>1, <1>2, <1>6, <2>2 DEF PreforkTurn, PreforkHead, Contract!Next
    <2> QED BY <1>6, <2>1, <2>2 DEF PreforkTurn
  <1>7. ASSUME NEW w \in Workspaces, NEW real \in Workspaces,
               PreforkMutates(w, real)
        PROVE  UNCHANGED ContractVars
    BY <1>1, <1>7 DEF PreforkMutates, PreforkCall
  <1>8. ASSUME NEW w \in Workspaces, PreforkDangerous(w)
        PROVE  Contract!Next
    BY <1>3, <1>8 DEF PreforkDangerous, PreforkCall, Contract!Next
  <1>9. ASSUME NEW w \in Workspaces, PreforkTriggers(w)
        PROVE  UNCHANGED ContractVars
    BY <1>1, <1>9 DEF PreforkTriggers, PreforkCall
  <1> QED BY <1>4, <1>5, <1>6, <1>7, <1>8, <1>9 DEF Prefork

LEMMA ForkContract ==
    ASSUME ControlInv, Forking
    PROVE  Contract!Next \/ UNCHANGED ContractVars
  <1> USE DEF prefixVars, armVars
  <1>1. ASSUME NEW reason, Fail(reason), pc \in {"fork", "fork_audit"}
        PROVE  Contract!Next
    BY <1>1, ContractAborts DEF Final, Contract!Next
  <1>2. ASSUME NEW w \in Workspaces, ForkArm(w)
        PROVE  Contract!Next \/ UNCHANGED ContractVars
    <2>1. CASE Fail("fault_precondition") \/ Fail("fault_ineffective")
      BY <1>1, <1>2, <2>1 DEF ForkArm
    <2>2. CASE /\ pc = "fork" /\ pc' \in {"fork", "fork_audit"}
               /\ UNCHANGED <<decision, mode>>
      <3>1. Phase' = Phase
        BY <2>2 DEF Phase
      <3> QED BY <2>2, <3>1, ContractStutters DEF Verdict
    <2> QED BY <1>2, <2>1, <2>2 DEF ForkArm
  <1>3. CASE ReplayBreaks \/ FaultRaises
    BY <1>1, <1>3 DEF ReplayBreaks, FaultRaises
  <1>4. CASE ForkAudit
    <2>1. CASE AssignmentHolds /\ Opens(ContinuationMax)
      <3>1. pc = "fork_audit" /\ pc' = "arm" /\ UNCHANGED <<decision, mode>>
        BY <1>4, <2>1 DEF ForkAudit, StartArm
      <3> QED BY <3>1 DEF Contract!Fork, Contract!Next, Phase, Verdict
    <2>2. CASE ~(AssignmentHolds /\ Opens(ContinuationMax))
      BY <1>1, <1>4, <2>2 DEF ForkAudit
    <2> QED BY <2>1, <2>2
  <1> QED BY <1>2, <1>3, <1>4 DEF Forking

LEMMA OneChanges ==
    ASSUME NEW S, NEW f, NEW g, NEW j \in S,
           f = [i \in S |-> f[i]], g = [i \in S |-> g[i]],
           \A i \in S : i # j => g[i] = f[i]
    PROVE  g = [f EXCEPT ![j] = g[j]]
  OBVIOUS

\* The end of a continuation's loop settles its verdict, after those before
\* it and for good.
LEMMA EndSettles ==
    ASSUME ControlInv, pc = "arm", NEW spent,
           NEW t \in {"explicit_finalize", "turn_ceiling_hold",
                      "assistant_stop_hold"},
           EndArm(t, spent), NEW a \in Arms, a = k
    PROVE  Contract!Settle(a)
  <1>1. /\ a \in 1 .. N /\ mode[a] = "none"
        /\ decision \in [Arms -> Decisions]
        /\ \A i \in Arms : i < a => mode[i] # "none"
    BY ArmsFacts DEF ControlInv, TypeOK, OrderInv
  <1>2. /\ mode' = [mode EXCEPT ![a] = t] /\ UNCHANGED decision
        /\ pc' \in {"probe", "closed"}
        /\ DOMAIN mode = Arms
    BY DEF EndArm, ControlInv, TypeOK
  <1>3. Phase = "forked" /\ Phase' = "forked"
    BY <1>2 DEF Phase
  <1>4. Verdict(a) = "none" /\ Verdict(a)' \in {"submit", "hold"}
    <2>1. mode'[a] = t /\ decision'[a] = decision[a]
      BY <1>1, <1>2
    <2>2. decision[a] \in {"none", "submit", "hold"} /\ t # "none"
      BY <1>1 DEF Decisions
    <2> QED BY <1>1, <2>1, <2>2 DEF Verdict
  <1>5. \A i \in Arms : i # a => Verdict(i)' = Verdict(i)
    BY <1>2 DEF Verdict
  <1>6. \A i \in 1 .. a - 1 : i \in Arms /\ Verdict(i) # "none"
    BY <1>1, ArmsFacts DEF Verdict
  <1> DEFINE verdicts == [i \in Arms |-> Verdict(i)]
             settled == [i \in Arms |-> Verdict(i)]'
  <1>7. /\ verdicts[a] = "none" /\ settled[a] \in {"submit", "hold"}
        /\ verdicts = [i \in Arms |-> verdicts[i]]
        /\ settled = [i \in Arms |-> settled[i]]
        /\ \A i \in Arms : i # a => settled[i] = verdicts[i]
        /\ \A i \in 1 .. a - 1 : verdicts[i] # "none"
    BY <1>4, <1>5, <1>6 DEF Arms
  <1>8. verdicts = [i \in Arms |-> Verdict(i)] /\ settled = [i \in Arms |-> Verdict(i)]'
    OBVIOUS
  <1> HIDE DEF verdicts, settled
  <1>9. settled = [verdicts EXCEPT ![a] = settled[a]]
    BY <1>7, OneChanges
  <1> QED BY <1>3, <1>7, <1>8, <1>9 DEF Contract!Settle

LEMMA ContinueContract ==
    ASSUME ControlInv, Continuing
    PROVE  Contract!Next \/ UNCHANGED ContractVars
  <1> USE DEF prefixVars, armVars
  <1>1. ASSUME NEW reason, Fail(reason), pc = "arm"
        PROVE  Contract!Next
    BY <1>1, ContractAborts DEF Final, Contract!Next
  <1>2. ASSUME UNCHANGED <<pc, mode>>, \A i \in Arms : mode[i] # "none" =>
                                         decision'[i] = decision[i]
        PROVE  UNCHANGED ContractVars
    BY <1>2, ContractStutters DEF Phase, Verdict
  <1>3. ASSUME NEW spent, pc = "arm",
               NEW t \in {"explicit_finalize", "turn_ceiling_hold",
                          "assistant_stop_hold"},
               EndArm(t, spent)
        PROVE  Contract!Next
    <2>1. k \in Arms
      BY DEF ControlInv, TypeOK
    <2>2. PICK a \in Arms : a = k
      BY <2>1
    <2>3. Contract!Settle(a)
      BY <1>3, <2>2, EndSettles
    <2> QED BY <2>3 DEF Contract!Next, Contract!Arms, Arms
  <1>4. ASSUME NEW attempts \in Attempts, NEW calls \in Batches,
               ArmTurn(attempts, calls)
        PROVE  Contract!Next \/ UNCHANGED ContractVars
    <2>1. CASE MayCharge(ledger, attempts, ContinuationMax)
      BY <1>2, <1>4, <2>1 DEF ArmTurn
    <2>2. CASE ~MayCharge(ledger, attempts, ContinuationMax)
      BY <1>1, <1>4, <2>2 DEF ArmTurn, ArmHead
    <2> QED BY <2>1, <2>2
  <1>5. ASSUME NEW attempts \in Attempts, ArmStops(attempts)
        PROVE  Contract!Next
    <2>1. CASE MayCharge(ledger, attempts, ContinuationMax)
      BY <1>3, <1>5, <2>1 DEF ArmStops, ArmHead
    <2>2. CASE ~MayCharge(ledger, attempts, ContinuationMax)
      BY <1>1, <1>5, <2>2 DEF ArmStops, ArmHead
    <2> QED BY <2>1, <2>2
  <1>6. CASE ArmCeiling \/ ArmFinalized
    BY <1>3, <1>6 DEF ArmCeiling, ArmFinalized, ArmHead
  <1>7. CASE ArmObserves \/ ArmChecks
    BY <1>2, <1>7 DEF ArmObserves, ArmChecks
  <1>8. ASSUME NEW w \in Workspaces, ArmMutates(w)
        PROVE  UNCHANGED ContractVars
    BY <1>2, <1>8 DEF ArmMutates
  <1>9. CASE ArmFinalizes
    <2>1. mode[k] = "none" /\ k \in Arms /\ decision \in [Arms -> Decisions]
      BY <1>9 DEF ArmFinalizes, ArmCall, ControlInv, OrderInv, TypeOK
    <2>2. \A i \in Arms : mode[i] # "none" => decision'[i] = decision[i]
      BY <1>9, <2>1 DEF ArmFinalizes
    <2> QED BY <1>2, <1>9, <2>2 DEF ArmFinalizes
  <1>10. CASE ArmEvidenceRefused
    BY <1>1, <1>10 DEF ArmEvidenceRefused, ArmCall
  <1> QED BY <1>4, <1>5, <1>6, <1>7, <1>8, <1>9, <1>10 DEF Continuing

LEMMA ClosingContract ==
    ASSUME ControlInv, Closing
    PROVE  Contract!Next \/ UNCHANGED ContractVars
  <1> USE DEF prefixVars, armVars
  <1>1. ASSUME NEW reason, Fail(reason), pc \in {"probe", "audit"}
        PROVE  Contract!Next
    BY <1>1, ContractAborts DEF Final, Contract!Next
  <1>2. ASSUME pc \in {"closed", "probe"}, pc' \in {"arm", "closed", "audit"},
               UNCHANGED <<decision, mode>>
        PROVE  UNCHANGED ContractVars
    BY <1>2, ContractStutters DEF Phase, Verdict
  <1>3. ASSUME NEW attempts \in Attempts, Probe(attempts)
        PROVE  UNCHANGED ContractVars
    BY <1>2, <1>3 DEF Probe
  <1>4. CASE ProbeRaises \/ RequestIdsCollide
    BY <1>1, <1>4 DEF ProbeRaises, RequestIdsCollide
  <1>5. CASE NextArm \/ ArmsDone
    BY <1>2, <1>5 DEF NextArm, StartArm, ArmsDone
  <1>6. CASE Publish
    <2>1. CASE WithinPrefixBudget
      <3>1. /\ pc = "audit" /\ pc' = "published" /\ UNCHANGED <<decision, mode>>
        BY <1>6, <2>1 DEF Publish
      <3>2. \A i \in Arms : Verdict(i) # "none" /\ Verdict(i)' = Verdict(i)
        BY <3>1 DEF ControlInv, OrderInv, Verdict
      <3> QED BY <3>1, <3>2
              DEF Contract!Publish, Contract!Next, Contract!Arms, Arms, Phase
    <2>2. CASE ~WithinPrefixBudget
      BY <1>1, <1>6, <2>2 DEF Publish
    <2> QED BY <2>1, <2>2
  <1> QED BY <1>3, <1>4, <1>5, <1>6 DEF Closing

LEMMA ContractStep ==
    ControlInv /\ [Next]_vars => Contract!Next \/ UNCHANGED ContractVars
  <1> SUFFICES ASSUME ControlInv, [Next]_vars
               PROVE  Contract!Next \/ UNCHANGED ContractVars
    OBVIOUS
  <1>1. CASE TurnRaises \/ CallRaises
    <2>1. PICK reason \in {"turn", "tool"} : Fail(reason) /\ pc \in {"prefork", "arm"}
      BY <1>1 DEF TurnRaises, CallRaises, PreforkHead, ArmHead, PreforkCall, ArmCall
    <2> QED BY <2>1, ContractAborts DEF Final, Contract!Next
  <1>2. CASE UNCHANGED vars
    BY <1>2, ContractStutters DEF vars, armVars, Phase, Verdict
  <1> QED BY <1>1, <1>2, PreforkContract, ForkContract, ContinueContract,
             ClosingContract DEF Next

\* The runner implements the study's contract, for every census: a prefix
\* either contributes no row, or every continuation is decided once and in
\* order before all rows are published together, or the run aborts and
\* publishes nothing.
THEOREM ImplementsContract == Spec => RefinesContract
  <1>1. Init => Contract!Init
    BY DEF Init, Contract!Init, Contract!Arms, Arms, Phase, Verdict
  <1>2. ControlInv /\ [Next]_vars =>
          [Contract!Next]_<<Phase, [i \in Arms |-> Verdict(i)]>>
    BY ContractStep DEF ContractVars
  <1> QED BY <1>1, <1>2, ControlInvariant, PTL
          DEF Spec, RefinesContract, Contract!Spec
=============================================================================
