------------------------- MODULE BudgetLedgerProofs ------------------------
(***************************************************************************)
(* Lemmas about the ledger's arithmetic, for every retry count and         *)
(* ceiling.                                                                *)
(***************************************************************************)
EXTENDS BudgetLedger, TLAPS

\* A product by RetryCount+1 grows with its other factor.
LEMMA ProductMonotone ==
    ASSUME NEW a \in Nat, NEW b \in Nat, a <= b
    PROVE  a * (1 + RetryCount) <= b * (1 + RetryCount)
  <1>1. PICK d \in Nat : b = a + d
    <2>1. b - a \in Nat /\ b = a + (b - a)
      OBVIOUS
    <2> QED BY <2>1
  <1>2. b * (1 + RetryCount) = a * (1 + RetryCount) + d * (1 + RetryCount)
    BY <1>1, RetryCountAssumption
  <1>3. a * (1 + RetryCount) \in Nat /\ d * (1 + RetryCount) \in Nat
    BY <1>1, RetryCountAssumption
  <1> QED BY <1>2, <1>3

\* A ledger below its ceiling whose turns cost at most RetryCount+1 attempts
\* accepts one more such turn (BudgetLedger.charge does not raise).
LEMMA ChargeAccepted ==
    ASSUME NEW l \in [logical : Nat, physical : Nat],
           NEW n \in 1 .. RetryCount + 1, NEW c \in Nat,
           l.logical < c, l.physical <= l.logical * (1 + RetryCount)
    PROVE  /\ MayCharge(l, n, c)
           /\ Charge(l, n) \in [logical : Nat, physical : Nat]
           /\ Charge(l, n).physical <= Charge(l, n).logical * (1 + RetryCount)
  <1>1. (l.logical + 1) * (1 + RetryCount)
          = l.logical * (1 + RetryCount) + (1 + RetryCount)
    BY RetryCountAssumption
  <1>2. (l.logical + 1) * (1 + RetryCount) <= c * (1 + RetryCount)
    BY ProductMonotone
  <1>3. l.logical * (1 + RetryCount) \in Nat /\ c * (1 + RetryCount) \in Nat
    BY RetryCountAssumption
  <1>4. l.physical + n <= (l.logical + 1) * (1 + RetryCount)
    BY <1>1, <1>3, RetryCountAssumption
  <1>5. MayCharge(l, n, c)
    BY <1>2, <1>3, <1>4, RetryCountAssumption DEF MayCharge, PhysicalCeiling
  <1> QED BY <1>4, <1>5, RetryCountAssumption DEF Charge

\* Two ledgers whose turns cost at most RetryCount+1 attempts each add up to
\* such a ledger.
LEMMA SumWithinRetries ==
    ASSUME NEW a \in [logical : Nat, physical : Nat],
           NEW b \in [logical : Nat, physical : Nat],
           a.physical <= a.logical * (1 + RetryCount),
           b.physical <= b.logical * (1 + RetryCount)
    PROVE  a.physical + b.physical <= (a.logical + b.logical) * (1 + RetryCount)
  <1>1. (a.logical + b.logical) * (1 + RetryCount)
          = a.logical * (1 + RetryCount) + b.logical * (1 + RetryCount)
    BY RetryCountAssumption
  <1>2. a.logical * (1 + RetryCount) \in Nat /\ b.logical * (1 + RetryCount) \in Nat
    BY RetryCountAssumption
  <1> QED BY <1>1, <1>2
=============================================================================
