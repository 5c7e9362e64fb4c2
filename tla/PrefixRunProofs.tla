--------------------------- MODULE PrefixRunProofs --------------------------
(***************************************************************************)
(* Theorems about PrefixRun, for every census of continuations, every plan *)
(* whose arithmetic adds up, and every set of workspace contents.          *)
(***************************************************************************)
EXTENDS PrefixRun, BudgetLedgerProofs, TLAPS

USE ContinuationsAssumption, PlanAssumption, WorkspaceAssumption,
    BatchAssumption, ReplayAssumption, RetryCountAssumption

-----------------------------------------------------------------------------
(* Control: how far the fork is, and what the current history still owes *)

N == Len(Continuations)

\* One workspace copy per continuation, made during the fork only.
CopiesInv ==
    /\ Len(forked) = Len(ws)
    /\ pc \in {"prefork", "no_opportunity"} => Len(ws) = 0
    /\ pc = "fork" => Len(ws) < N
    /\ pc \in {"fork_audit", "arm", "closed", "probe", "audit", "published"}
         => Len(ws) = N

\* While the history is open, the calls without a result are exactly those
\* the runner has still to execute; at the fork these are the pending ones.
OwedInv ==
    /\ pc = "prefork" /\ commonDecision = "none" => owed = Len(batch)
    /\ pc \in {"fork", "fork_audit", "arm", "closed", "probe"}
         => prefixOwed = Len(pending)
    /\ pc = "arm" => owed = Len(batch)
    /\ pc = "probe" => owed = Len(batch) /\ (decision[k] = "none" => owed = 0)

\* Continuations are taken in order: those before the current one have their
\* termination mode, those after it have not decided.
OrderInv ==
    /\ pc \in {"prefork", "fork", "fork_audit"} =>
         \A i \in Arms : decision[i] = "none" /\ mode[i] = "none"
    /\ pc \in {"arm", "closed", "probe"} =>
         \A i \in Arms :
            /\ i < k => mode[i] # "none"
            /\ i > k => decision[i] = "none" /\ mode[i] = "none"
    /\ pc = "arm" => mode[k] = "none"
    /\ pc \in {"closed", "probe"} => mode[k] # "none"
    /\ pc \in {"audit", "published"} => \A i \in Arms : mode[i] # "none"

ControlInv == TypeOK /\ CopiesInv /\ OwedInv /\ OrderInv

LEMMA ArmsFacts == N \in Nat \ {0} /\ Arms = 1 .. N /\ 1 \in Arms
  BY DEF N, Arms

LEMMA ControlInit == Init => ControlInv
  <1> SUFFICES ASSUME Init
               PROVE  ControlInv
    OBVIOUS
  <1>1. TypeOK
    <2>1. common \in Workspaces /\ focal \in Workspaces
      BY DEF Init
    <2>2. ledger \in LedgerType /\ total \in LedgerType
      BY DEF Init, Opened, LedgerType
    <2>3. /\ decision \in [Arms -> Decisions] /\ observations \in [Arms -> Nat]
          /\ mode \in [Arms -> {"none", "explicit_finalize", "turn_ceiling_hold",
                               "assistant_stop_hold"}]
      BY DEF Init, Decisions
    <2>4. /\ pending \in Seq(Calls) /\ batch \in Seq(Calls)
          /\ forked \in Seq(Workspaces) /\ ws \in Seq(Workspaces)
      BY DEF Init
    <2> QED BY <2>1, <2>2, <2>3, <2>4, ArmsFacts DEF Init, TypeOK, Pcs, Decisions
  <1>2. CopiesInv /\ OwedInv /\ OrderInv
    BY ArmsFacts DEF Init, CopiesInv, OwedInv, OrderInv
  <1> QED BY <1>1, <1>2 DEF ControlInv

\* Charging a turn and closing a ledger keep the ledgers well typed.
LEMMA LedgerTyped ==
    ASSUME NEW l \in LedgerType, NEW n \in Attempts
    PROVE  Charge(l, n) \in LedgerType
  BY DEF LedgerType, Charge, Attempts

LEMMA CloseTyped ==
    ASSUME total \in LedgerType, NEW l \in LedgerType
    PROVE  Close(l) \in LedgerType
  BY DEF LedgerType, Close

\* Answering a call takes it off the batch and off the debt.
LEMMA TailFacts ==
    ASSUME NEW s \in Seq(Calls), s # << >>
    PROVE  /\ Tail(s) \in Seq(Calls)
           /\ Len(Tail(s)) = Len(s) - 1
           /\ Len(s) \in Nat \ {0}
           /\ Head(s) \in Calls
  OBVIOUS

\* Stopping with an error disturbs nothing.
LEMMA FailControl ==
    ASSUME ControlInv, NEW reason, Fail(reason)
    PROVE  ControlInv'
  BY DEF Fail, ControlInv, TypeOK, CopiesInv, OwedInv, OrderInv, Pcs, prefixVars,
         armVars

\* One step per action of the common prefix.
LEMMA PreforkControl ==
    ASSUME ControlInv, Prefork
    PROVE  ControlInv'
  <1> USE DEF ControlInv, prefixVars, armVars
  <1>1. ASSUME NEW attempts \in Attempts, NEW calls \in Batches,
               PreforkTurn(attempts, calls)
        PROVE  ControlInv'
    <2>1. CASE MayCharge(ledger, attempts, PreforkMax)
      <3>1. /\ PreforkHead /\ Charged(attempts, calls)
            /\ pc' = IF calls = << >> THEN "no_opportunity" ELSE "prefork"
            /\ UNCHANGED <<error, prefixVars, k, total, armVars, probed>>
        BY <1>1, <2>1 DEF PreforkTurn
      <3>2. calls \in Seq(Calls) /\ Len(calls) \in Nat
        OBVIOUS
      <3>3. ledger' \in LedgerType
        BY <3>1, LedgerTyped DEF Charged, TypeOK
      <3>4. owed = 0 /\ owed' = Len(calls) /\ batch' = calls
        BY <1>1, <3>1, <3>2 DEF PreforkTurn, PreforkHead, Charged, OwedInv, TypeOK
      <3>5. TypeOK'
        BY <3>1, <3>2, <3>3, <3>4 DEF TypeOK, Pcs
      <3>6. CopiesInv' /\ OwedInv' /\ OrderInv'
        BY <3>1, <3>4 DEF PreforkHead, CopiesInv, OwedInv, OrderInv
      <3> QED BY <3>5, <3>6
    <2>2. CASE ~MayCharge(ledger, attempts, PreforkMax)
      BY <1>1, <2>2, FailControl DEF PreforkTurn
    <2> QED BY <2>1, <2>2
  <1>2. CASE PreforkEnds
    <2>1. CASE Opens(PreforkMax)
      BY <1>2, <2>1 DEF PreforkEnds, PreforkHead, TypeOK, Pcs, CopiesInv, OwedInv,
                        OrderInv
    <2>2. CASE ~Opens(PreforkMax)
      BY <1>2, <2>2, FailControl DEF PreforkEnds
    <2> QED BY <2>1, <2>2
  <1>3. CASE PreforkIgnores
    BY <1>3 DEF PreforkIgnores, StillOpen, TypeOK, Pcs, CopiesInv, OwedInv,
                OrderInv
  <1>4. ASSUME PreforkCall, Answered
        PROVE  /\ owed' \in Nat /\ batch' \in Seq(Calls) /\ owed' = Len(batch')
               /\ pc = "prefork"
    BY <1>4, TailFacts DEF PreforkCall, Answered, StillOpen, OwedInv, TypeOK
  <1>5. CASE PreforkObserves
    BY <1>4, <1>5 DEF PreforkObserves, TypeOK, Pcs, CopiesInv, OwedInv, OrderInv
  <1>6. CASE PreforkFinalizes
    BY <1>4, <1>6 DEF PreforkFinalizes, TypeOK, Pcs, Decisions, CopiesInv,
                      OwedInv,
                      OrderInv
  <1>7. ASSUME NEW w \in Workspaces, NEW real \in Workspaces,
               PreforkMutates(w, real)
        PROVE  ControlInv'
    BY <1>4, <1>7 DEF PreforkMutates, TypeOK, Pcs, CopiesInv, OwedInv, OrderInv
  <1>8. ASSUME NEW w \in Workspaces, PreforkDangerous(w)
        PROVE  ControlInv'
    BY <1>8, FailControl DEF PreforkDangerous
  <1>9. ASSUME NEW w \in Workspaces, PreforkTriggers(w)
        PROVE  ControlInv'
    <2>1. /\ Tail(batch) \in Seq(Calls) /\ Len(Tail(batch)) = Len(batch) - 1
          /\ Len(batch) \in Nat \ {0} /\ owed = Len(batch)
      BY <1>9, TailFacts
         DEF PreforkTriggers, PreforkCall, StillOpen, OwedInv, TypeOK
    <2>2. total' \in LedgerType
      BY <1>9, CloseTyped DEF PreforkTriggers, TypeOK
    <2>3. TypeOK'
      BY <1>9, <2>1, <2>2 DEF PreforkTriggers, TypeOK, Pcs
    <2>4. CopiesInv' /\ OwedInv' /\ OrderInv'
      BY <1>9, <2>1, ArmsFacts
         DEF PreforkTriggers, PreforkCall, CopiesInv, OwedInv, OrderInv, TypeOK
    <2> QED BY <2>3, <2>4
  <1> QED BY <1>1, <1>2, <1>3, <1>5, <1>6, <1>7, <1>8, <1>9 DEF Prefork

\* Starting a continuation on the shared prefix.
LEMMA StartControl ==
    ASSUME ControlInv, NEW i \in Arms, StartArm(i),
           UNCHANGED <<error, prefixVars, total, armVars, probed>>,
           Len(ws) = N, prefixOwed = Len(pending),
           \A j \in Arms : /\ j < i => mode[j] # "none"
                           /\ j >= i => decision[j] = "none" /\ mode[j] = "none"
    PROVE  ControlInv'
  <1> USE DEF ControlInv, prefixVars, armVars
  <1>1. ledger' \in LedgerType
    BY DEF StartArm, Opened, LedgerType
  <1>2. TypeOK'
    BY <1>1 DEF StartArm, TypeOK, Pcs
  <1>3. CopiesInv' /\ OwedInv' /\ OrderInv'
    BY ArmsFacts DEF StartArm, CopiesInv, OwedInv, OrderInv, TypeOK
  <1> QED BY <1>2, <1>3

LEMMA ForkControl ==
    ASSUME ControlInv, Forking
    PROVE  ControlInv'
  <1> USE DEF ControlInv, prefixVars, armVars
  <1>1. ASSUME NEW w \in Workspaces, ForkArm(w)
        PROVE  ControlInv'
    <2> DEFINE i == Len(ws) + 1
               prepared == IF Faulted(i) THEN Fault[w] ELSE w
    <2>1. CASE \E reason : Fail(reason)
      BY <2>1, FailControl
    <2>2. CASE /\ forked' = Append(forked, prepared)
               /\ ws' = Append(ws, prepared)
               /\ pc' = IF i = N THEN "fork_audit" ELSE "fork"
               /\ UNCHANGED <<error, prefixVars, k, batch, owed, ledger, total,
                              decision, mode, observations, standing, probed>>
      <3>1. prepared \in Workspaces
        OBVIOUS
      <3>2. /\ forked' \in Seq(Workspaces) /\ ws' \in Seq(Workspaces)
            /\ Len(forked') = Len(forked) + 1 /\ Len(ws') = Len(ws) + 1
            /\ Len(ws) \in Nat /\ Len(ws) < N /\ pc = "fork"
        BY <1>1, <2>2, <3>1 DEF ForkArm, TypeOK, CopiesInv
      <3>3. TypeOK'
        BY <2>2, <3>2 DEF TypeOK, Pcs
      <3>4. CopiesInv' /\ OwedInv' /\ OrderInv'
        BY <2>2, <3>2, ArmsFacts DEF CopiesInv, OwedInv, OrderInv
      <3> QED BY <3>3, <3>4
    <2> QED BY <1>1, <2>1, <2>2 DEF ForkArm, N
  <1>2. CASE ReplayBreaks \/ FaultRaises
    BY <1>2, FailControl DEF ReplayBreaks, FaultRaises
  <1>3. CASE ForkAudit
    <2>1. CASE AssignmentHolds /\ Opens(ContinuationMax)
      <3>1. /\ StartArm(1) /\ pc = "fork_audit"
            /\ UNCHANGED <<error, prefixVars, total, armVars, probed>>
        BY <1>3, <2>1 DEF ForkAudit
      <3>2. /\ Len(ws) = N /\ prefixOwed = Len(pending)
            /\ \A j \in Arms : decision[j] = "none" /\ mode[j] = "none"
            /\ \A j \in Arms : ~(j < 1)
        BY <3>1, ArmsFacts DEF CopiesInv, OwedInv, OrderInv
      <3> QED BY <3>1, <3>2, StartControl, ArmsFacts
    <2>2. CASE ~(AssignmentHolds /\ Opens(ContinuationMax))
      BY <1>3, <2>2, FailControl DEF ForkAudit
    <2> QED BY <2>1, <2>2
  <1> QED BY <1>1, <1>2, <1>3 DEF Forking

\* The continuation's loop ends with a termination mode.
LEMMA EndControl ==
    ASSUME ControlInv, pc = "arm", decision[k] = "none" => batch = << >>,
           NEW spent \in LedgerType, ledger' \in LedgerType,
           NEW t \in {"explicit_finalize", "turn_ceiling_hold",
                      "assistant_stop_hold"},
           EndArm(t, spent)
    PROVE  ControlInv'
  <1> USE DEF ControlInv, prefixVars, armVars
  <1>1. total' \in LedgerType
    BY CloseTyped DEF EndArm, TypeOK
  <1>2. /\ mode' \in [Arms -> {"none", "explicit_finalize", "turn_ceiling_hold",
                               "assistant_stop_hold"}]
        /\ mode'[k] # "none"
        /\ \A i \in Arms : i # k => mode'[i] = mode[i]
    BY DEF EndArm, TypeOK
  <1>3. TypeOK'
    BY <1>1, <1>2 DEF EndArm, TypeOK, Pcs
  <1>4. CopiesInv' /\ OwedInv' /\ OrderInv'
    BY <1>2, ArmsFacts DEF EndArm, CopiesInv, OwedInv, OrderInv, TypeOK
  <1> QED BY <1>3, <1>4

LEMMA ContinueControl ==
    ASSUME ControlInv, Continuing
    PROVE  ControlInv'
  <1> USE DEF ControlInv, prefixVars, armVars
  <1>1. ASSUME NEW attempts \in Attempts, NEW calls \in Batches,
               ArmTurn(attempts, calls)
        PROVE  ControlInv'
    <2>1. CASE MayCharge(ledger, attempts, ContinuationMax)
      <3>1. /\ ArmHead /\ Charged(attempts, calls)
            /\ UNCHANGED <<pc, error, prefixVars, k, total, armVars, probed>>
        BY <1>1, <2>1 DEF ArmTurn
      <3>2. calls \in Seq(Calls) /\ Len(calls) \in Nat
        OBVIOUS
      <3>3. ledger' \in LedgerType
        BY <3>1, LedgerTyped DEF Charged, TypeOK
      <3>4. owed = 0 /\ owed' = Len(calls) /\ batch' = calls
        BY <3>1, <3>2 DEF ArmHead, Charged, OwedInv, TypeOK
      <3>5. TypeOK'
        BY <3>1, <3>2, <3>3, <3>4 DEF TypeOK
      <3>6. CopiesInv' /\ OwedInv' /\ OrderInv'
        BY <3>1, <3>4 DEF ArmHead, CopiesInv, OwedInv, OrderInv
      <3> QED BY <3>5, <3>6
    <2>2. CASE ~MayCharge(ledger, attempts, ContinuationMax)
      BY <1>1, <2>2, FailControl DEF ArmTurn
    <2> QED BY <2>1, <2>2
  <1>2. ASSUME NEW attempts \in Attempts, ArmStops(attempts)
        PROVE  ControlInv'
    <2>1. CASE MayCharge(ledger, attempts, ContinuationMax)
      <3>1. /\ pc = "arm" /\ batch = << >> /\ ledger' = Charge(ledger, attempts)
            /\ EndArm("assistant_stop_hold", Charge(ledger, attempts))
        BY <1>2, <2>1 DEF ArmStops, ArmHead
      <3>2. Charge(ledger, attempts) \in LedgerType
        BY LedgerTyped DEF TypeOK
      <3> QED BY <3>1, <3>2, EndControl
    <2>2. CASE ~MayCharge(ledger, attempts, ContinuationMax)
      BY <1>2, <2>2, FailControl DEF ArmStops
    <2> QED BY <2>1, <2>2
  <1>3. CASE ArmCeiling
    <2>1. /\ pc = "arm" /\ batch = << >>
          /\ ledger \in LedgerType /\ ledger' \in LedgerType
      BY <1>3 DEF ArmCeiling, ArmHead, TypeOK
    <2> QED BY <1>3, <2>1, EndControl DEF ArmCeiling
  <1>4. CASE ArmFinalized
    <2>1. /\ pc = "arm" /\ decision[k] # "none"
          /\ ledger \in LedgerType /\ ledger' \in LedgerType
      BY <1>4 DEF ArmFinalized, StillOpen, TypeOK
    <2> QED BY <1>4, <2>1, EndControl DEF ArmFinalized
  <1>5. ASSUME ArmCall, Answered
        PROVE  /\ owed' \in Nat /\ batch' \in Seq(Calls) /\ owed' = Len(batch')
               /\ pc = "arm"
    BY <1>5, TailFacts DEF ArmCall, Answered, StillOpen, OwedInv, TypeOK
  <1>6. CASE ArmObserves
    BY <1>5, <1>6 DEF ArmObserves, TypeOK, CopiesInv, OwedInv, OrderInv
  <1>7. ASSUME NEW w \in Workspaces, ArmMutates(w)
        PROVE  ControlInv'
    <2>1. Len(ws) = N /\ k \in 1 .. Len(ws)
      BY <1>7, ArmsFacts DEF ArmMutates, ArmCall, CopiesInv, TypeOK
    <2>2. /\ ws' \in Seq(Workspaces) /\ Len(ws') = Len(ws)
          /\ standing' \in [Arms -> {"frozen", "worked", "measured"}]
      BY <1>7, <2>1 DEF ArmMutates, TypeOK
    <2> QED BY <1>5, <1>7, <2>2 DEF ArmMutates, TypeOK, CopiesInv, OwedInv,
                                    OrderInv
  <1>8. CASE ArmFinalizes
    <2>1. Head(batch) \in Decisions /\ k \in Arms
      BY <1>8 DEF ArmFinalizes, Decisions, TypeOK
    <2>2. /\ decision' \in [Arms -> Decisions]
          /\ \A i \in Arms : i # k => decision'[i] = decision[i]
      BY <1>8, <2>1 DEF ArmFinalizes, TypeOK
    <2>3. TypeOK'
      BY <1>5, <1>8, <2>2 DEF ArmFinalizes, TypeOK
    <2>4. CopiesInv' /\ OwedInv' /\ OrderInv'
      BY <1>5, <1>8, <2>1, <2>2, ArmsFacts
         DEF ArmFinalizes, CopiesInv, OwedInv, OrderInv
    <2> QED BY <2>3, <2>4
  <1>9. CASE ArmChecks
    <2>1. /\ observations' \in [Arms -> Nat]
          /\ standing' \in [Arms -> {"frozen", "worked", "measured"}]
      BY <1>9 DEF ArmChecks, TypeOK
    <2> QED BY <1>5, <1>9, <2>1 DEF ArmChecks, TypeOK, CopiesInv, OwedInv,
                                    OrderInv
  <1>10. CASE ArmEvidenceRefused
    BY <1>10, FailControl DEF ArmEvidenceRefused
  <1> QED BY <1>1, <1>2, <1>3, <1>4, <1>6, <1>7, <1>8, <1>9, <1>10 DEF Continuing

LEMMA ClosingControl ==
    ASSUME ControlInv, Closing
    PROVE  ControlInv'
  <1> USE DEF ControlInv, prefixVars, armVars
  <1>1. ASSUME NEW attempts \in Attempts, Probe(attempts)
        PROVE  ControlInv'
    <2>1. [logical |-> 1, physical |-> attempts] \in LedgerType
      BY DEF LedgerType, Attempts
    <2>2. total' \in LedgerType
      BY <1>1, <2>1, CloseTyped DEF Probe, TypeOK
    <2> QED BY <1>1, <2>2 DEF Probe, TypeOK, Pcs, CopiesInv, OwedInv, OrderInv
  <1>2. CASE ProbeRaises
    BY <1>2, FailControl DEF ProbeRaises
  <1>3. CASE NextArm
    <2>1. /\ pc = "closed" /\ k + 1 \in Arms /\ StartArm(k + 1)
          /\ UNCHANGED <<error, prefixVars, total, armVars, probed>>
      BY <1>3, ArmsFacts DEF NextArm, LastArm, TypeOK, N
    <2>2. /\ Len(ws) = N /\ prefixOwed = Len(pending)
          /\ \A j \in Arms :
               /\ j < k + 1 => mode[j] # "none"
               /\ j >= k + 1 => decision[j] = "none" /\ mode[j] = "none"
      <3>1. Len(ws) = N /\ prefixOwed = Len(pending)
        BY <2>1 DEF CopiesInv, OwedInv
      <3>2. /\ k \in Arms /\ mode[k] # "none"
            /\ \A j \in Arms :
                 /\ j < k => mode[j] # "none"
                 /\ j > k => decision[j] = "none" /\ mode[j] = "none"
        BY <2>1 DEF OrderInv, TypeOK
      <3>3. \A j \in Arms : (j < k + 1 => j < k \/ j = k) /\ (j >= k + 1 => j > k)
        BY <3>2, ArmsFacts
      <3> QED BY <3>1, <3>2, <3>3
    <2> QED BY <2>1, <2>2, StartControl
  <1>4. CASE ArmsDone
    <2>1. pc = "closed" /\ k = N
      BY <1>4 DEF ArmsDone, LastArm, N
    <2>2. \A i \in Arms : mode[i] # "none"
      BY <2>1, ArmsFacts DEF OrderInv
    <2> QED BY <1>4, <2>1, <2>2
            DEF ArmsDone, TypeOK, Pcs, CopiesInv, OwedInv, OrderInv
  <1>5. CASE RequestIdsCollide
    BY <1>5, FailControl DEF RequestIdsCollide
  <1>6. CASE Publish
    <2>1. CASE WithinPrefixBudget
      BY <1>6, <2>1 DEF Publish, TypeOK, Pcs, CopiesInv, OwedInv, OrderInv
    <2>2. CASE ~WithinPrefixBudget
      BY <1>6, <2>2, FailControl DEF Publish
    <2> QED BY <2>1, <2>2
  <1> QED BY <1>1, <1>2, <1>3, <1>4, <1>5, <1>6 DEF Closing

LEMMA ControlStep == ControlInv /\ [Next]_vars => ControlInv'
  <1> SUFFICES ASSUME ControlInv, [Next]_vars
               PROVE  ControlInv'
    OBVIOUS
  <1>1. CASE TurnRaises \/ CallRaises
    BY <1>1, FailControl DEF TurnRaises, CallRaises
  <1>2. CASE UNCHANGED vars
    BY <1>2 DEF vars, prefixVars, armVars, ControlInv, TypeOK, CopiesInv, OwedInv,
                OrderInv
  <1> QED BY <1>1, <1>2, PreforkControl, ForkControl, ContinueControl,
             ClosingControl DEF Next

LEMMA ControlInvariant == Spec => []ControlInv
  <1> QED BY ControlInit, ControlStep, PTL DEF Spec

\* The run's state is well typed; in particular no tool call of a history is
\* answered twice.
THEOREM TypeCorrect == Spec => []TypeOK
  <1>1. ControlInv => TypeOK
    BY DEF ControlInv
  <1> QED BY <1>1, ControlInvariant, PTL

\* Only a turn taken on an exhausted message charges the open ledger, and
\* only a closed continuation is probed.
LEMMA LedgerMoves ==
    ASSUME [Next]_vars
    PROVE  /\ \/ ledger' = ledger
              \/ ledger' = Opened
              \/ PreforkHead /\ commonDecision = "none"
              \/ ArmHead
           /\ probed' # probed => pc = "probe"
  <1> USE DEF Fail
  <1>1. CASE Prefork
    BY <1>1 DEF Prefork, PreforkTurn, PreforkEnds, PreforkIgnores,
                PreforkObserves,
                PreforkFinalizes, PreforkMutates, PreforkDangerous,
                PreforkTriggers
  <1>2. CASE Forking
    BY <1>2 DEF Forking, ForkArm, ReplayBreaks, FaultRaises, ForkAudit,
                StartArm
  <1>3. CASE Continuing
    BY <1>3 DEF Continuing, ArmTurn, ArmStops, EndArm, ArmCeiling, ArmFinalized,
                ArmObserves, ArmMutates, ArmFinalizes, ArmChecks,
                ArmEvidenceRefused
  <1>4. CASE Closing
    BY <1>4 DEF Closing, Probe, ProbeRaises, NextArm, ArmsDone, RequestIdsCollide,
                Publish, StartArm
  <1>5. CASE TurnRaises \/ CallRaises \/ UNCHANGED vars
    BY <1>5 DEF TurnRaises, CallRaises, vars
  <1> QED BY <1>1, <1>2, <1>3, <1>4, <1>5 DEF Next

\* A turn is requested only when every tool call in its history has its
\* result, in the prefix and in every continuation; the probe's history
\* leaves open what the continuation's own finalize_task cut off, no more.
THEOREM HistoriesAnswered == Spec => AnsweredBeforeRequest
  <1>1. ASSUME ControlInv, [Next]_vars
        PROVE  ledger'.logical > ledger.logical => owed = 0
    <2>1. CASE PreforkHead /\ commonDecision = "none"
      BY <1>1, <2>1 DEF PreforkHead, ControlInv, OwedInv
    <2>2. CASE ArmHead
      BY <1>1, <2>2 DEF ArmHead, ControlInv, OwedInv
    <2>3. CASE ledger' = ledger \/ ledger' = Opened
      BY <1>1, <2>3 DEF ControlInv, TypeOK, LedgerType, Opened
    <2> QED BY <1>1, <2>1, <2>2, <2>3, LedgerMoves
  <1>2. ASSUME ControlInv, [Next]_vars
        PROVE  probed' # probed =>
                 owed = Len(batch) /\ (decision[k] = "none" => owed = 0)
    BY <1>2, LedgerMoves DEF ControlInv, OwedInv
  <1>3. ASSUME ControlInv, [Next]_vars
        PROVE  [/\ ledger'.logical > ledger.logical => owed = 0
                /\ probed' # probed => /\ owed = Len(batch)
                                       /\ decision[k] = "none" => owed = 0]_vars
    BY <1>1, <1>2, <1>3
  <1> QED BY <1>3, ControlInvariant, PTL DEF Spec, AnsweredBeforeRequest

-----------------------------------------------------------------------------
(* Budgets: what each loop has spent, and what the closed loops add up to *)

\* A ledger whose turns cost at most RetryCount+1 attempts each.
WithinRetries(l) == l.physical <= l.logical * (1 + RetryCount)

ProbeSpent == IF probed THEN 1 ELSE 0

\* The continuations whose loops are closed.
LoopsClosed ==
    IF pc = "arm" THEN k - 1
    ELSE IF pc \in {"probe", "closed"} THEN k
    ELSE IF pc \in {"audit", "published"} THEN N
    ELSE 0

AfterFork == {"arm", "closed", "probe", "audit", "published"}
AfterPrefix == AfterFork \cup {"fork", "fork_audit"}

LoopInv ==
    /\ WithinRetries(ledger)
    /\ WithinRetries(total)
    /\ pc = "prefork" => total = Opened
    /\ pc = "prefork" /\ Opens(PreforkMax) => ledger.logical <= PreforkMax
    /\ pc = "arm" => ledger.logical <= ContinuationMax

\* The common prefix has an answer to work on, or a continuation runs, only
\* under limits that open the ledger.
PlanInv ==
    /\ pc = "prefork" /\ batch # << >> => Opens(PreforkMax)
    /\ pc \in AfterPrefix => Opens(PreforkMax)
    /\ pc \in AfterFork => Opens(ContinuationMax)

\* The probe follows the one continuation it belongs to.
ProbeInv ==
    /\ pc \in {"prefork", "fork", "fork_audit"} => ~probed
    /\ pc = "probe" => Probed(k)
    /\ probed /\ pc \in {"arm", "probe"} => \E i \in Arms : i < k /\ Probed(i)
    /\ probed /\ pc = "closed" => \E i \in Arms : i <= k /\ Probed(i)
    /\ probed => \E i \in Arms : Probed(i)

\* Each closed loop contributes at most its ceiling, the probe one turn.
TotalInv ==
    pc \in AfterPrefix =>
      total.logical <= PreforkMax + LoopsClosed * ContinuationMax + ProbeSpent

SpendingInv == LoopInv /\ PlanInv /\ ProbeInv /\ TotalInv /\ BudgetsSuffice

LEMMA SpendingInit == Init => SpendingInv
  <1>1. Init => LoopInv
    BY DEF Init, Opened, Opens, LoopInv, WithinRetries
  <1>2. Init => PlanInv /\ ProbeInv /\ TotalInv /\ BudgetsSuffice
    BY DEF Init, PlanInv, ProbeInv, TotalInv, BudgetsSuffice, AfterPrefix,
           AfterFork
  <1> QED BY <1>1, <1>2 DEF SpendingInv

\* A loop below its ceiling can pay for one more turn.
LEMMA TurnAffordable ==
    ASSUME TypeOK, WithinRetries(ledger), NEW attempts \in Attempts,
           NEW ceiling \in Int, ledger.logical < ceiling
    PROVE  /\ MayCharge(ledger, attempts, ceiling)
           /\ Charge(ledger, attempts) \in LedgerType
           /\ WithinRetries(Charge(ledger, attempts))
           /\ Charge(ledger, attempts).logical <= ceiling
  <1>1. ledger \in [logical : Nat, physical : Nat]
    BY DEF TypeOK, LedgerType
  <1>2. attempts \in 1 .. RetryCount + 1 /\ ceiling \in Nat
    BY <1>1 DEF Attempts
  <1>3. ledger.physical <= ledger.logical * (1 + RetryCount)
    BY DEF WithinRetries
  <1>4. /\ MayCharge(ledger, attempts, ceiling)
        /\ Charge(ledger, attempts) \in LedgerType
        /\ Charge(ledger, attempts).physical
             <= Charge(ledger, attempts).logical * (1 + RetryCount)
    BY <1>1, <1>2, <1>3, ChargeAccepted, Zenon DEF LedgerType
  <1>5. Charge(ledger, attempts).logical = ledger.logical + 1
    BY DEF Charge
  <1>6. ledger.logical + 1 <= ceiling
    BY <1>1
  <1> QED BY <1>4, <1>5, <1>6 DEF WithinRetries

LEMMA ProductNat ==
    ASSUME NEW a \in Nat, NEW b \in Nat
    PROVE  a * b \in Nat
  OBVIOUS

\* One more loop within its share.
LEMMA ShareAdded ==
    ASSUME NEW before \in Nat, NEW spent \in Nat, NEW done \in Nat,
           NEW extra \in Nat, NEW share \in Nat, NEW first \in Nat,
           before <= first + done + extra, spent <= share
    PROVE  before + spent <= first + (done + share) + extra
  OBVIOUS

\* Closing a ledger adds it to the totals.
LEMMA CloseAdds ==
    ASSUME total \in LedgerType, WithinRetries(total),
           NEW l \in LedgerType, WithinRetries(l)
    PROVE  /\ Close(l) \in LedgerType
           /\ Close(l).logical = total.logical + l.logical
           /\ WithinRetries(Close(l))
  <1>1. /\ Close(l) \in LedgerType
        /\ Close(l).logical = total.logical + l.logical
        /\ Close(l).physical = total.physical + l.physical
    BY DEF Close, LedgerType
  <1>2. total.physical + l.physical
          <= (total.logical + l.logical) * (1 + RetryCount)
    BY SumWithinRetries, Zenon DEF LedgerType, WithinRetries
  <1> QED BY <1>1, <1>2 DEF WithinRetries

LEMMA FailSpending ==
    ASSUME SpendingInv, NEW reason, reason \notin {"budget", "charge"},
    Fail(reason)
    PROVE  SpendingInv'
  BY DEF Fail, SpendingInv, LoopInv, PlanInv, ProbeInv, TotalInv, BudgetsSuffice,
         WithinRetries, LoopsClosed, ProbeSpent, AfterPrefix, AfterFork,
         prefixVars, armVars

\* A step within the loop that charges nothing.
LEMMA QuietSpending ==
    ASSUME SpendingInv, UNCHANGED <<pc, error, k, ledger, total, probed>>,
           batch = << >> => batch' = << >>
    PROVE  SpendingInv'
  BY DEF SpendingInv, LoopInv, PlanInv, ProbeInv, TotalInv, BudgetsSuffice,
         WithinRetries,
         LoopsClosed, ProbeSpent, AfterPrefix, AfterFork

LEMMA PreforkSpending ==
    ASSUME ControlInv, SpendingInv, Prefork
    PROVE  SpendingInv'
  <1> USE DEF prefixVars, armVars
  <1>1. ASSUME NEW attempts \in Attempts, NEW calls \in Batches,
               PreforkTurn(attempts, calls)
        PROVE  SpendingInv'
    <2>1. /\ MayCharge(ledger, attempts, PreforkMax)
          /\ Opens(PreforkMax)
          /\ WithinRetries(Charge(ledger, attempts))
          /\ Charge(ledger, attempts).logical <= PreforkMax
      <3>1. /\ PreforkMax \in Int /\ ledger.logical < PreforkMax
            /\ TypeOK /\ WithinRetries(ledger)
        BY <1>1 DEF PreforkTurn, ControlInv, SpendingInv, LoopInv
      <3>2. Opens(PreforkMax)
        BY <3>1 DEF Opens, TypeOK, LedgerType
      <3> QED BY <3>1, <3>2, TurnAffordable
    <2>2. /\ pc = "prefork" /\ ledger' = Charge(ledger, attempts)
          /\ pc' \in {"prefork", "no_opportunity"}
          /\ UNCHANGED <<error, k, total, probed>>
      BY <1>1, <2>1 DEF PreforkTurn, PreforkHead, Charged
    <2> QED BY <2>1, <2>2
            DEF SpendingInv, LoopInv, PlanInv, ProbeInv, TotalInv, BudgetsSuffice,
                WithinRetries, LoopsClosed, ProbeSpent, AfterPrefix, AfterFork
  <1>2. CASE PreforkEnds
    <2>1. CASE Opens(PreforkMax)
      BY <1>2, <2>1
         DEF PreforkEnds, PreforkHead, SpendingInv, LoopInv, PlanInv, ProbeInv,
             TotalInv, BudgetsSuffice, WithinRetries, LoopsClosed, ProbeSpent,
             AfterPrefix, AfterFork
    <2>2. CASE ~Opens(PreforkMax)
      BY <1>2, <2>2, FailSpending DEF PreforkEnds
    <2> QED BY <2>1, <2>2
  <1>3. CASE PreforkIgnores
    BY <1>3, QuietSpending DEF PreforkIgnores
  <1>4. CASE PreforkObserves
    BY <1>4, QuietSpending DEF PreforkObserves, PreforkCall
  <1>5. CASE PreforkFinalizes
    BY <1>5, QuietSpending DEF PreforkFinalizes, PreforkCall
  <1>6. ASSUME NEW w \in Workspaces, NEW real \in Workspaces,
               PreforkMutates(w, real)
        PROVE  SpendingInv'
    BY <1>6, QuietSpending DEF PreforkMutates, PreforkCall
  <1>7. ASSUME NEW w \in Workspaces, PreforkDangerous(w)
        PROVE  SpendingInv'
    BY <1>7, FailSpending DEF PreforkDangerous
  <1>8. ASSUME NEW w \in Workspaces, PreforkTriggers(w)
        PROVE  SpendingInv'
    <2>1. /\ pc = "prefork" /\ pc' = "fork" /\ total' = Close(ledger)
          /\ UNCHANGED <<error, k, ledger, probed>>
          /\ Opens(PreforkMax)
      BY <1>8 DEF PreforkTriggers, PreforkCall, SpendingInv, PlanInv
    <2>2. /\ total = Opened /\ ledger.logical <= PreforkMax /\ ledger \in LedgerType
          /\ total \in LedgerType /\ WithinRetries(ledger) /\ WithinRetries(total)
      BY <2>1 DEF SpendingInv, LoopInv, ControlInv, TypeOK
    <2>3. /\ total'.logical = ledger.logical /\ WithinRetries(Close(ledger))
      BY <2>1, <2>2, CloseAdds DEF Opened, LedgerType
    <2> QED BY <2>1, <2>2, <2>3
            DEF SpendingInv, LoopInv, PlanInv, ProbeInv, TotalInv, BudgetsSuffice,
                WithinRetries, LoopsClosed, ProbeSpent, AfterPrefix, AfterFork,
                LedgerType
  <1> QED BY <1>1, <1>2, <1>3, <1>4, <1>5, <1>6, <1>7, <1>8 DEF Prefork

\* A continuation starts with a fresh ledger; the loops before it are closed.
LEMMA StartSpending ==
    ASSUME SpendingInv, NEW i \in Arms, StartArm(i),
           UNCHANGED <<error, total, probed>>,
           Opens(PreforkMax), Opens(ContinuationMax),
           total.logical <= PreforkMax + (i - 1) * ContinuationMax + ProbeSpent,
           probed => \E j \in Arms : j < i /\ Probed(j)
    PROVE  SpendingInv'
  <1>1. WithinRetries(Opened)
    BY DEF WithinRetries, Opened
  <1>2. LoopInv'
    BY <1>1 DEF StartArm, SpendingInv, LoopInv, WithinRetries, Opened, Opens
  <1>3. PlanInv' /\ ProbeInv' /\ TotalInv' /\ BudgetsSuffice'
    <2>1. ProbeInv'
      BY DEF StartArm, SpendingInv, ProbeInv, Probed
    <2> QED BY <2>1 DEF StartArm, SpendingInv, PlanInv, TotalInv, BudgetsSuffice,
                        LoopsClosed, AfterPrefix, AfterFork, ProbeSpent
  <1> QED BY <1>2, <1>3 DEF SpendingInv

LEMMA ForkSpending ==
    ASSUME ControlInv, SpendingInv, Forking
    PROVE  SpendingInv'
  <1> USE DEF prefixVars, armVars
  <1>1. ASSUME NEW w \in Workspaces, ForkArm(w)
        PROVE  SpendingInv'
    <2>1. CASE Fail("fault_precondition") \/ Fail("fault_ineffective")
      BY <2>1, FailSpending
    <2>2. CASE /\ pc = "fork" /\ pc' \in {"fork", "fork_audit"}
               /\ UNCHANGED <<error, k, ledger, total, probed>>
      BY <2>2 DEF SpendingInv, LoopInv, PlanInv, ProbeInv, TotalInv,
                  BudgetsSuffice,
                  WithinRetries, LoopsClosed, ProbeSpent, AfterPrefix, AfterFork
    <2> QED BY <1>1, <2>1, <2>2 DEF ForkArm
  <1>2. CASE ReplayBreaks \/ FaultRaises
    BY <1>2, FailSpending DEF ReplayBreaks, FaultRaises
  <1>3. CASE ForkAudit
    <2>1. CASE AssignmentHolds /\ Opens(ContinuationMax)
      <3>1. /\ StartArm(1) /\ pc = "fork_audit"
            /\ UNCHANGED <<error, total, probed>>
        BY <1>3, <2>1 DEF ForkAudit
      <3>2. /\ total.logical <= PreforkMax + (1 - 1) * ContinuationMax + ProbeSpent
            /\ ~probed /\ Opens(PreforkMax)
        BY <3>1 DEF SpendingInv, TotalInv, ProbeInv, PlanInv, LoopsClosed,
                    AfterPrefix
      <3> QED BY <2>1, <3>1, <3>2, StartSpending, ArmsFacts
    <2>2. CASE ~(AssignmentHolds /\ Opens(ContinuationMax))
      BY <1>3, <2>2, FailSpending DEF ForkAudit
    <2> QED BY <2>1, <2>2
  <1> QED BY <1>1, <1>2, <1>3 DEF Forking

\* The current continuation's loop closes within its share.
LEMMA EndSpending ==
    ASSUME ControlInv, SpendingInv, pc = "arm", NEW spent \in LedgerType,
           WithinRetries(spent), spent.logical <= ContinuationMax,
           ledger' = spent, NEW t, EndArm(t, spent)
    PROVE  SpendingInv'
  <1> USE DEF prefixVars, armVars
  <1>1. /\ total' = Close(spent) /\ UNCHANGED <<error, k, probed>>
        /\ pc' = IF Probed(k) THEN "probe" ELSE "closed"
    BY DEF EndArm
  <1>2. /\ total \in LedgerType /\ WithinRetries(total) /\ k \in Arms
        /\ total.logical <= PreforkMax + (k - 1) * ContinuationMax + ProbeSpent
        /\ Opens(PreforkMax) /\ Opens(ContinuationMax)
    BY DEF ControlInv, TypeOK, SpendingInv, LoopInv, TotalInv, PlanInv,
           LoopsClosed,
           AfterPrefix, AfterFork
  <1>3. /\ WithinRetries(Close(spent))
        /\ Close(spent).logical = total.logical + spent.logical
    BY <1>2, CloseAdds
  <1>4. k \in Nat /\ k - 1 \in Nat /\ ContinuationMax \in Nat /\ PreforkMax \in Nat
    BY <1>2, ArmsFacts DEF Opens
  <1>5. /\ (k - 1) * ContinuationMax \in Nat
        /\ k * ContinuationMax = (k - 1) * ContinuationMax + ContinuationMax
    BY <1>4, ProductNat
  <1>6. total'.logical <= PreforkMax + k * ContinuationMax + ProbeSpent
    <2>1. ProbeSpent \in Nat
      BY DEF ProbeSpent
    <2>2. total.logical \in Nat /\ spent.logical \in Nat
      BY <1>2 DEF LedgerType
    <2>3. total.logical + spent.logical
            <= PreforkMax + ((k - 1) * ContinuationMax + ContinuationMax) + ProbeSpent
      BY <1>2, <1>4, <1>5, <2>1, <2>2, ShareAdded, Zenon
    <2> QED BY <1>1, <1>3, <1>5, <2>3, Zenon
  <1>7. LoopInv' /\ PlanInv' /\ TotalInv' /\ BudgetsSuffice'
    BY <1>1, <1>2, <1>3, <1>6
       DEF SpendingInv, LoopInv, PlanInv, TotalInv, BudgetsSuffice, WithinRetries,
           LoopsClosed, AfterPrefix, AfterFork, ProbeSpent
  <1>8. ProbeInv'
    <2>1. probed' => \E i \in Arms : Probed(i)
      BY <1>1 DEF SpendingInv, ProbeInv
    <2>2. pc' = "probe" => Probed(k') /\ (probed' => \E i \in Arms : i < k' /\ Probed(i))
      BY <1>1 DEF SpendingInv, ProbeInv, Probed
    <2>3. probed' /\ pc' = "closed" => \E i \in Arms : i <= k' /\ Probed(i)
      BY <1>1, <1>2, ArmsFacts DEF SpendingInv, ProbeInv, Probed
    <2> QED BY <1>1, <2>1, <2>2, <2>3 DEF ProbeInv, Probed
  <1> QED BY <1>7, <1>8 DEF SpendingInv

LEMMA ContinueSpending ==
    ASSUME ControlInv, SpendingInv, Continuing
    PROVE  SpendingInv'
  <1> USE DEF prefixVars, armVars
  <1>1. ASSUME ArmHead, ledger.logical < ContinuationMax,
               NEW attempts \in Attempts
        PROVE  /\ pc = "arm"
               /\ MayCharge(ledger, attempts, ContinuationMax)
               /\ Charge(ledger, attempts) \in LedgerType
               /\ WithinRetries(Charge(ledger, attempts))
               /\ Charge(ledger, attempts).logical <= ContinuationMax
    BY <1>1, TurnAffordable DEF ArmHead, ControlInv, SpendingInv, LoopInv
  <1>2. ASSUME NEW attempts \in Attempts, NEW calls \in Batches,
               ArmTurn(attempts, calls)
        PROVE  SpendingInv'
    <2>1. /\ pc = "arm" /\ ledger' = Charge(ledger, attempts)
          /\ WithinRetries(Charge(ledger, attempts))
          /\ Charge(ledger, attempts).logical <= ContinuationMax
          /\ UNCHANGED <<pc, error, k, total, probed>>
      BY <1>1, <1>2 DEF ArmTurn, Charged
    <2> QED BY <2>1 DEF SpendingInv, LoopInv, PlanInv, ProbeInv, TotalInv,
                        BudgetsSuffice,
                        WithinRetries, LoopsClosed, ProbeSpent, AfterPrefix,
                        AfterFork
  <1>3. ASSUME NEW attempts \in Attempts, ArmStops(attempts)
        PROVE  SpendingInv'
    <2>1. /\ ledger' = Charge(ledger, attempts)
          /\ EndArm("assistant_stop_hold", Charge(ledger, attempts))
      BY <1>1, <1>3 DEF ArmStops
    <2> QED BY <1>1, <1>3, <2>1, EndSpending DEF ArmStops
  <1>4. ASSUME pc = "arm"
        PROVE  /\ ledger \in LedgerType /\ WithinRetries(ledger)
               /\ ledger.logical <= ContinuationMax
    BY <1>4 DEF ControlInv, TypeOK, SpendingInv, LoopInv
  <1>5. CASE ArmCeiling
    BY <1>4, <1>5, EndSpending DEF ArmCeiling, ArmHead
  <1>6. CASE ArmFinalized
    BY <1>4, <1>6, EndSpending DEF ArmFinalized
  <1>7. CASE ArmObserves \/ ArmFinalizes \/ ArmChecks
    BY <1>7, QuietSpending DEF ArmObserves, ArmFinalizes, ArmChecks, ArmCall
  <1>8. ASSUME NEW w \in Workspaces, ArmMutates(w)
        PROVE  SpendingInv'
    BY <1>8, QuietSpending DEF ArmMutates, ArmCall
  <1>9. CASE ArmEvidenceRefused
    BY <1>9, FailSpending DEF ArmEvidenceRefused
  <1> QED BY <1>2, <1>3, <1>5, <1>6, <1>7, <1>8, <1>9 DEF Continuing

LEMMA ClosingSpending ==
    ASSUME ControlInv, SpendingInv, Closing
    PROVE  SpendingInv'
  <1> USE DEF prefixVars, armVars
  <1>1. ASSUME NEW attempts \in Attempts, Probe(attempts)
        PROVE  SpendingInv'
    <2> DEFINE one == [logical |-> 1, physical |-> attempts]
    <2>1. one \in LedgerType /\ WithinRetries(one)
      BY DEF LedgerType, WithinRetries, Attempts
    <2>2. /\ pc = "probe" /\ pc' = "closed" /\ probed' /\ total' = Close(one)
          /\ UNCHANGED <<error, k, ledger>>
      BY <1>1 DEF Probe
    <2>3. /\ total \in LedgerType /\ WithinRetries(total) /\ k \in Arms
          /\ total.logical <= PreforkMax + k * ContinuationMax + ProbeSpent
          /\ Probed(k) /\ Opens(PreforkMax) /\ Opens(ContinuationMax)
      BY <2>2 DEF ControlInv, TypeOK, SpendingInv, LoopInv, TotalInv, ProbeInv,
                  PlanInv, LoopsClosed, AfterPrefix, AfterFork
    <2>4. ~probed
      BY <2>2, <2>3, ArmsFacts DEF SpendingInv, ProbeInv, Probed
    <2>5. WithinRetries(Close(one)) /\ Close(one).logical = total.logical + 1
      BY <2>1, <2>3, CloseAdds
    <2>6. k * ContinuationMax \in Nat
      BY <2>3, ArmsFacts DEF Opens
    <2>7. total'.logical <= PreforkMax + k * ContinuationMax + 1
      BY <2>2, <2>3, <2>4, <2>5, <2>6 DEF LedgerType, ProbeSpent
    <2>8. LoopInv' /\ PlanInv' /\ TotalInv' /\ BudgetsSuffice'
      BY <2>2, <2>3, <2>5, <2>7
         DEF SpendingInv, LoopInv, PlanInv, TotalInv, BudgetsSuffice,
             WithinRetries,
             LoopsClosed, AfterPrefix, AfterFork, ProbeSpent
    <2>9. ProbeInv'
      BY <2>2, <2>3, ArmsFacts DEF ProbeInv, Probed
    <2> QED BY <2>8, <2>9 DEF SpendingInv
  <1>2. CASE ProbeRaises
    BY <1>2, FailSpending DEF ProbeRaises
  <1>3. CASE NextArm
    <2>1. /\ pc = "closed" /\ k + 1 \in Arms /\ StartArm(k + 1) /\ k \in Arms
          /\ UNCHANGED <<error, total, probed>>
      <3>1. k \in 1 .. N /\ k # N
        BY <1>3, ArmsFacts DEF NextArm, LastArm, ControlInv, TypeOK, N
      <3>2. k + 1 \in 1 .. N
        BY <3>1, ArmsFacts
      <3> QED BY <1>3, <3>1, <3>2, ArmsFacts DEF NextArm
    <2>2. /\ (k + 1) - 1 = k
          /\ total.logical <= PreforkMax + k * ContinuationMax + ProbeSpent
          /\ Opens(PreforkMax) /\ Opens(ContinuationMax)
      BY <2>1, ArmsFacts DEF SpendingInv, TotalInv, PlanInv, LoopsClosed,
                             AfterPrefix,
                             AfterFork
    <2>3. probed => \E j \in Arms : j < k + 1 /\ Probed(j)
      BY <2>1, ArmsFacts DEF SpendingInv, ProbeInv
    <2> QED BY <2>1, <2>2, <2>3, StartSpending
  <1>4. CASE ArmsDone
    <2>1. /\ pc = "closed" /\ pc' = "audit" /\ k = N
          /\ UNCHANGED <<error, k, ledger, total, probed>>
      BY <1>4 DEF ArmsDone, LastArm, N
    <2> QED BY <2>1 DEF SpendingInv, LoopInv, PlanInv, ProbeInv, TotalInv,
                        BudgetsSuffice,
                        WithinRetries, LoopsClosed, ProbeSpent, AfterPrefix,
                        AfterFork
  <1>5. CASE RequestIdsCollide
    BY <1>5, FailSpending DEF RequestIdsCollide
  <1>6. CASE Publish
    <2>1. pc = "audit"
      BY <1>6 DEF Publish
    <2>2. /\ total.logical <= PreforkMax + N * ContinuationMax + ProbeSpent
          /\ total \in LedgerType /\ WithinRetries(total)
          /\ Opens(PreforkMax) /\ Opens(ContinuationMax)
          /\ probed => \E i \in Arms : Probed(i)
      BY <2>1 DEF SpendingInv, TotalInv, LoopInv, PlanInv, ProbeInv, LoopsClosed,
                  ControlInv, TypeOK, AfterPrefix, AfterFork
    <2>3. N * ContinuationMax \in Nat /\ PreforkMax \in Nat
      BY <2>2, ArmsFacts DEF Opens
    <2>4. ProbeSpent <= ProbeTurns /\ {ProbeSpent, ProbeTurns} \subseteq 0 .. 1
      BY <2>2 DEF ProbeSpent, ProbeTurns
    <2>5. ASSUME ProbeTurns <= ProbeMax
          PROVE  WithinPrefixBudget
      <3>1. MaxPerPrefix = PreforkMax + N * ContinuationMax + ProbeMax
        BY DEF N
      <3>2. /\ MaxPerPrefix \in Nat /\ total.logical <= MaxPerPrefix
        BY <2>2, <2>3, <2>4, <2>5, <3>1 DEF LedgerType
      <3>3. total.logical * (1 + RetryCount) <= MaxPerPrefix * (1 + RetryCount)
        BY <2>2, <3>2, ProductMonotone DEF LedgerType
      <3>4. /\ total.logical * (1 + RetryCount) \in Nat
            /\ MaxPerPrefix * (1 + RetryCount) \in Nat
        BY <2>2, <3>2 DEF LedgerType
      <3> QED BY <2>2, <3>2, <3>3, <3>4
              DEF WithinPrefixBudget, PhysicalCeiling, WithinRetries, LedgerType
    <2>6. CASE WithinPrefixBudget
      <3>1. pc' = "published" /\ UNCHANGED <<error, k, ledger, total, probed>>
        BY <1>6, <2>6 DEF Publish
      <3> QED BY <2>1, <3>1
              DEF SpendingInv, LoopInv, PlanInv, ProbeInv, TotalInv,
                  BudgetsSuffice,
                  WithinRetries, LoopsClosed, ProbeSpent, AfterPrefix, AfterFork
    <2>7. CASE ~WithinPrefixBudget
      <3>1. ProbeMax < ProbeTurns
        BY <2>4, <2>5, <2>7
      <3>2. /\ pc' = "failed" /\ error' = "budget"
            /\ UNCHANGED <<k, ledger, total, probed>>
        BY <1>6, <2>7 DEF Publish, Fail
      <3> QED BY <3>1, <3>2
              DEF SpendingInv, LoopInv, PlanInv, ProbeInv, TotalInv,
                  BudgetsSuffice,
                  WithinRetries, LoopsClosed, ProbeSpent, AfterPrefix, AfterFork
    <2> QED BY <2>6, <2>7
  <1> QED BY <1>1, <1>2, <1>3, <1>4, <1>5, <1>6 DEF Closing

LEMMA SpendingStep ==
    ControlInv /\ SpendingInv /\ [Next]_vars => SpendingInv'
  <1> SUFFICES ASSUME ControlInv, SpendingInv, [Next]_vars
               PROVE  SpendingInv'
    OBVIOUS
  <1>1. CASE TurnRaises \/ CallRaises
    BY <1>1, FailSpending DEF TurnRaises, CallRaises
  <1>2. CASE UNCHANGED vars
    BY <1>2, QuietSpending DEF vars
  <1> QED BY <1>1, <1>2, PreforkSpending, ForkSpending, ContinueSpending,
             ClosingSpending DEF Next

\* Under any plan whose limits add up, zero and negative ones included, a
\* turn that was paid for is charged, whatever the retries and the number of
\* continuations; the totals raise after the last continuation only if the
\* plan leaves the probe no turn.
THEOREM BudgetsAlwaysSuffice == Spec => []BudgetsSuffice
  <1>1. SpendingInv => BudgetsSuffice
    BY DEF SpendingInv
  <1> QED BY <1>1, SpendingInit, SpendingStep, ControlInvariant, PTL DEF Spec
=============================================================================
