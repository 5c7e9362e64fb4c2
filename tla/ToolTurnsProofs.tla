--------------------------- MODULE ToolTurnsProofs --------------------------
(***************************************************************************)
(* Theorems about ToolTurns, for every retry count, ceiling, set of        *)
(* payloads and bound on the calls.                                        *)
(***************************************************************************)
EXTENDS ToolTurns, BudgetLedgerProofs, TLAPS

\* What makes the budget invariant inductive: a turn in progress was begun
\* below the ceiling, and the turns charged so far cost at most RetryCount+1
\* attempts each.
InProgress == pc \in {"sent", "backoff"}

BudgetInv ==
    /\ TypeOK
    /\ InProgress => calls # << >>
    /\ pc = "backoff" => rows # << >>
    /\ InProgress /\ Kind = "turn" => ledger.logical < LogicalCeiling
    /\ ledger.physical <= ledger.logical * (1 + RetryCount)
    /\ ChargeNeverRefused

USE DEF InProgress

-----------------------------------------------------------------------------
(* The budget invariant *)

\* The journal appends a well-formed row.
LEMMA RowTyped ==
    ASSUME TypeOK, JournalAccepts, NEW status \in Statuses, NEW diskFails,
           AppendRow(status, diskFails)
    PROVE  /\ rows' \in Seq(Rows) /\ rows' # << >> /\ sequence' \in Nat
           /\ stored' \in BOOLEAN
  <1>1. NextSequence(digest) \in Nat
    BY DEF TypeOK, NextSequence
  <1>2. NextOrdinal(digest) \in 0 .. RetryCount
    <2>1. CASE ContinuesRequest(digest)
      <3>1. rows[Len(rows)] \in Rows
        BY <2>1 DEF TypeOK, ContinuesRequest
      <3>2. LastRow = rows[Len(rows)]
        BY DEF LastRow, Last
      <3> QED BY <2>1, <3>1, <3>2, RetryCountAssumption
               DEF NextOrdinal, Rows, JournalAccepts
    <2>2. CASE ~ContinuesRequest(digest)
      BY <2>2, RetryCountAssumption DEF NextOrdinal
    <2> QED BY <2>1, <2>2
  <1>3. Row(status) \in Rows
    BY <1>1, <1>2 DEF Row, Rows, TypeOK
  <1>4. Append(rows, Row(status)) # << >>
    <2>1. Len(Append(rows, Row(status))) = Len(rows) + 1 /\ Len(rows) \in Nat
      BY <1>3 DEF TypeOK
    <2> QED BY <2>1
  <1> QED BY <1>1, <1>3, <1>4 DEF AppendRow, TypeOK

LEMMA BudgetInit == Init => BudgetInv
  BY RetryCountAssumption, ToolTurnsAssumption
     DEF Init, BudgetInv, TypeOK, ChargeNeverRefused, Errors, Opened, Rows

\* Beginning a call.
LEMMA BudgetBegin ==
    ASSUME BudgetInv, NEW kind \in {"turn", "probe"},
           NEW d \in TurnDigests \cup {ProbeDigest}, Begin(kind, d),
           sent' \in SUBSET TurnDigests,
           kind = "turn" => ledger.logical < LogicalCeiling
    PROVE  BudgetInv'
  <1>1. Last(calls') = kind /\ calls' # << >>
    BY DEF Begin, BudgetInv, TypeOK, Last
  <1> QED BY <1>1, RetryCountAssumption
          DEF Begin, BudgetInv, TypeOK, ChargeNeverRefused, Kind

\* Every attempt leaves the type and the budget part in order.
LEMMA BudgetAttempt ==
    ASSUME BudgetInv, Send
    PROVE  BudgetInv'
  <1> USE RetryCountAssumption DEF BudgetInv
  <1>1. CASE pc = "sent" /\ ~JournalAccepts
    <2>1. JournalRefuses
      BY <1>1 DEF Send
    <2> QED BY <2>1 DEF JournalRefuses, Fail, TypeOK, ChargeNeverRefused, Errors,
                        NextSequence, Kind
  <1>2. ASSUME NEW status \in Statuses, NEW diskFails \in DiskFailures,
               AttemptRetried(status, diskFails)
        PROVE  BudgetInv'
    <2>1. /\ rows' \in Seq(Rows) /\ rows' # << >> /\ sequence' \in Nat
          /\ stored' \in BOOLEAN
      BY <1>2, RowTyped DEF AttemptRetried
    <2>2. attempt' \in 0 .. RetryCount
      BY <1>2 DEF AttemptRetried, Retry, TypeOK
    <2> QED BY <1>2, <2>1, <2>2
            DEF AttemptRetried, TypeOK, ChargeNeverRefused, Kind
  <1>3. ASSUME NEW status \in Statuses, NEW diskFails \in DiskFailures,
               AttemptRefused(status, diskFails)
        PROVE  BudgetInv'
    <2>1. /\ rows' \in Seq(Rows) /\ rows' # << >> /\ sequence' \in Nat
          /\ stored' \in BOOLEAN
      BY <1>3, RowTyped DEF AttemptRefused
    <2> QED BY <1>3, <2>1
            DEF AttemptRefused, Fail, TypeOK, ChargeNeverRefused, Errors, Kind
  <1>4. CASE AttemptMalformed
    <2>1. /\ rows' \in Seq(Rows) /\ rows' # << >> /\ sequence' \in Nat
          /\ stored' \in BOOLEAN
      BY <1>4, RowTyped DEF AttemptMalformed, Statuses
    <2> QED BY <1>4, <2>1
            DEF AttemptMalformed, Fail, TypeOK, ChargeNeverRefused, Errors, Kind
  <1>5. CASE AttemptAnswered
    <2>1. /\ rows' \in Seq(Rows) /\ rows' # << >> /\ sequence' \in Nat
          /\ stored' \in BOOLEAN
      BY <1>5, RowTyped DEF AttemptAnswered, Statuses
    <2>2. CASE Kind = "turn"
      <3>1. attempt + 1 \in 1 .. RetryCount + 1
        BY DEF TypeOK
      <3>2. ledger.logical < LogicalCeiling
        BY <1>5, <2>2 DEF AttemptAnswered
      <3>3. /\ MayCharge(ledger, attempt + 1, LogicalCeiling)
            /\ Charge(ledger, attempt + 1) \in [logical : Nat, physical : Nat]
            /\ Charge(ledger, attempt + 1).physical
                 <= Charge(ledger, attempt + 1).logical * (1 + RetryCount)
        BY <3>1, <3>2, ChargeAccepted, ToolTurnsAssumption DEF TypeOK
      <3> QED BY <1>5, <2>1, <2>2, <3>3
              DEF AttemptAnswered, TypeOK, ChargeNeverRefused
    <2>3. CASE Kind # "turn"
      BY <1>5, <2>1, <2>3 DEF AttemptAnswered, TypeOK, ChargeNeverRefused
    <2> QED BY <2>2, <2>3
  <1>6. CASE AttemptBreaks
    <2>1. CASE AppendRow("transport_error", FALSE)
      <3>1. /\ rows' \in Seq(Rows) /\ rows' # << >> /\ sequence' \in Nat
            /\ stored' \in BOOLEAN
        BY <1>6, <2>1, RowTyped DEF AttemptBreaks, Statuses
      <3> QED BY <1>6, <3>1
              DEF AttemptBreaks, Fail, TypeOK, ChargeNeverRefused, Errors, Kind
    <2>2. CASE UNCHANGED <<rows, sequence, stored>>
      BY <1>6, <2>2
         DEF AttemptBreaks, Fail, TypeOK, ChargeNeverRefused, Errors, Kind
    <2> QED BY <1>6, <2>1, <2>2 DEF AttemptBreaks
  <1> QED BY <1>1, <1>2, <1>3, <1>4, <1>5, <1>6 DEF Send, Attempt

LEMMA BudgetBackoff ==
    ASSUME BudgetInv, Backoff
    PROVE  BudgetInv'
  <1> USE RetryCountAssumption DEF BudgetInv
  <1>1. PICK diskFails \in DiskFailures : NoteRetry(diskFails)
    BY DEF Backoff
  <1>2. CASE NoteRefusal # "none"
    BY <1>1, <1>2 DEF NoteRetry, NoteRefusal, Fail, TypeOK, ChargeNeverRefused,
                      Errors, Kind
  <1>3. CASE NoteRefusal = "none"
    <2>1. rows' = [rows EXCEPT ![Len(rows)] = Annotated(LastRow)]
      BY <1>1, <1>3 DEF NoteRetry
    <2>2. rows' \in Seq(Rows)
      <3>1. rows # << >>
        BY <1>1 DEF NoteRetry
      <3>2. LastRow \in Rows
        BY <3>1 DEF TypeOK, LastRow, Last
      <3>3. Annotated(LastRow) \in Rows
        BY <3>2 DEF Annotated, Rows
      <3> QED BY <2>1, <3>1, <3>3 DEF TypeOK
    <2> QED BY <1>1, <1>3, <2>2
            DEF NoteRetry, Fail, TypeOK, ChargeNeverRefused, Errors, Kind
  <1> QED BY <1>2, <1>3

LEMMA BudgetStep == BudgetInv /\ [Next]_vars => BudgetInv'
  <1> SUFFICES ASSUME BudgetInv, [Next]_vars
               PROVE  BudgetInv'
    OBVIOUS
  <1>1. ASSUME NEW d \in TurnDigests, BeginTurn(d)
        PROVE  BudgetInv'
    <2>1. sent' \in SUBSET TurnDigests
      BY <1>1 DEF BeginTurn, BudgetInv, TypeOK
    <2> QED BY <1>1, <2>1, BudgetBegin DEF BeginTurn
  <1>2. CASE NextLoop
    BY <1>2, RetryCountAssumption
       DEF NextLoop, BudgetInv, TypeOK, ChargeNeverRefused, Opened, Kind
  <1>3. CASE BeginProbe
    <2>1. sent' \in SUBSET TurnDigests
      BY <1>3 DEF BeginProbe, BudgetInv, TypeOK
    <2> QED BY <1>3, <2>1, BudgetBegin DEF BeginProbe
  <1>4. CASE Send
    BY <1>4, BudgetAttempt
  <1>5. CASE Backoff
    BY <1>5, BudgetBackoff
  <1>6. CASE UNCHANGED vars
    BY <1>6 DEF vars, BudgetInv, TypeOK, ChargeNeverRefused, Kind
  <1> QED BY <1>1, <1>2, <1>3, <1>4, <1>5, <1>6 DEF Next

LEMMA BudgetInvariant == Spec => []BudgetInv
  <1> QED BY BudgetInit, BudgetStep, PTL DEF Spec

\* The state of the turn loop, journal included, is well typed.
THEOREM TypeCorrect == Spec => []TypeOK
  <1>1. BudgetInv => TypeOK
    BY DEF BudgetInv
  <1> QED BY <1>1, BudgetInvariant, PTL

\* BudgetLedger.charge never raises after a turn was taken, for every retry
\* count and ceiling: the check of the logical ceiling before the turn bounds
\* the physical attempts too.
THEOREM ChargesAccepted == Spec => []ChargeNeverRefused
  <1>1. BudgetInv => ChargeNeverRefused
    BY DEF BudgetInv
  <1> QED BY <1>1, BudgetInvariant, PTL

-----------------------------------------------------------------------------
(* Refinement *)

\* Every step of the detailed loop is a step of the abstract one or leaves
\* its two variables alone.
LEMMA RefinementStep ==
    ASSUME BudgetInv, [Next]_vars
    PROVE  [TurnsRefined!Next]_<<ledger, pc = "failed">>
  <1> USE DEF TurnsRefined!Next, TurnsRefined!Fail, TurnsRefined!NextLoop
  <1>1. ASSUME NEW d \in TurnDigests, BeginTurn(d)
        PROVE  UNCHANGED <<ledger, pc = "failed">>
    BY <1>1 DEF BeginTurn, Begin
  <1>2. CASE NextLoop
    BY <1>2 DEF NextLoop, Opened, TurnsRefined!Opened
  <1>3. CASE BeginProbe
    BY <1>3 DEF BeginProbe, Begin
  <1>4. CASE Send
    <2>1. CASE pc = "sent" /\ ~JournalAccepts
      BY <1>4, <2>1 DEF Send, JournalRefuses, Fail
    <2>2. ASSUME NEW status \in Statuses, NEW diskFails \in DiskFailures,
                 AttemptRetried(status, diskFails)
          PROVE  UNCHANGED <<ledger, pc = "failed">>
      BY <2>2 DEF AttemptRetried
    <2>3. ASSUME NEW status \in Statuses, NEW diskFails \in DiskFailures,
                 AttemptRefused(status, diskFails)
          PROVE  TurnsRefined!Fail
      BY <2>3 DEF AttemptRefused, Fail
    <2>4. CASE AttemptMalformed
      BY <2>4 DEF AttemptMalformed, Fail
    <2>5. CASE AttemptAnswered
      <3>1. CASE Kind = "turn" /\ MayCharge(ledger, attempt + 1, LogicalCeiling)
        <4>1. attempt + 1 \in 1 .. RetryCount + 1
          BY RetryCountAssumption DEF BudgetInv, TypeOK
        <4>2. ledger' = Charge(ledger, attempt + 1) /\ pc = "sent" /\ pc' = "idle"
          BY <2>5, <3>1 DEF AttemptAnswered
        <4>3. TurnsRefined!Turn
          BY <3>1, <4>1, <4>2
             DEF TurnsRefined!Turn, TurnsRefined!MayCharge, TurnsRefined!Charge,
                 TurnsRefined!PhysicalCeiling, MayCharge, Charge, PhysicalCeiling
        <4> QED BY <4>3
      <3>2. CASE Kind = "turn" /\ ~MayCharge(ledger, attempt + 1, LogicalCeiling)
        BY <2>5, <3>2 DEF AttemptAnswered, Fail
      <3>3. CASE Kind # "turn"
        BY <2>5, <3>3 DEF AttemptAnswered
      <3> QED BY <3>1, <3>2, <3>3
    <2>6. CASE AttemptBreaks
      BY <2>6 DEF AttemptBreaks, Fail
    <2> QED BY <1>4, <2>1, <2>2, <2>3, <2>4, <2>5, <2>6 DEF Send, Attempt
  <1>5. CASE Backoff
    BY <1>5 DEF Backoff, NoteRetry, Fail
  <1>6. CASE UNCHANGED vars
    BY <1>6 DEF vars
  <1> QED BY <1>1, <1>2, <1>3, <1>4, <1>5, <1>6 DEF Next

\* Retries, back-off, journal and probe implement the budget-level loop.
THEOREM LoopRefined == Spec => RefinesLogicalTurns
  <1>1. Init => TurnsRefined!Init
    BY DEF Init, TurnsRefined!Init, TurnsRefined!Opened, Opened
  <1>2. BudgetInv /\ [Next]_vars => [TurnsRefined!Next]_<<ledger, pc = "failed">>
    BY RefinementStep
  <1> QED BY <1>1, <1>2, BudgetInvariant, PTL
          DEF Spec, RefinesLogicalTurns, TurnsRefined!Spec

-----------------------------------------------------------------------------
(* The journal *)

\* How the last row relates to the call in progress.  After an accepted call
\* the last status is not retryable, so the next call opens a new sequence
\* even if its payload repeats; within a turn the journal's ordinal and the
\* loop's attempt are the same number, within a probe the journal's is at
\* most the loop's (it restarts when a written-off answer is resent).  What
\* a back-off follows is retryable, or an answer whose checkpoint failed.
OrdinalInv ==
    /\ pc # "failed" => error = "none"
    /\ pc = "idle" /\ rows # << >> => LastRow.status = "ok"
    /\ pc = "sent" => NextOrdinal(digest) <= attempt
    /\ pc = "sent" /\ Kind = "turn" => NextOrdinal(digest) = attempt
    /\ pc = "backoff" =>
         /\ Kind = "turn"
         /\ LastRow.digest = digest
         /\ LastRow.call = Len(calls)
         /\ LastRow.status \in JournalRetryable \/ ~stored
         /\ attempt = LastRow.ordinal + 1
    /\ JournalAgreesWithLoop

\* How all rows relate to the calls.
GroupingInv ==
    /\ \A i \in DOMAIN rows :
         /\ rows[i].sequence <= sequence
         /\ rows[i].call \in 1 .. Len(calls)
         /\ rows[i].sequence = sequence => rows[i].call = LastRow.call
    /\ pc = "sent" /\ ContinuesRequest(digest) => LastRow.call = Len(calls)
    /\ pc = "sent" /\ Kind = "turn" =>
         \A i \in DOMAIN rows :
            rows[i].call = Len(calls) =>
              /\ ContinuesRequest(digest)
              /\ rows[i].sequence = sequence
              /\ rows[i].status \in JournalRetryable
              /\ rows[i].noted
    /\ pc = "backoff" =>
         /\ LastRow.call = Len(calls)
         /\ \A i \in DOMAIN rows :
              rows[i].call = Len(calls) =>
                /\ rows[i].sequence = sequence
                /\ i # Len(rows) =>
                     rows[i].status \in JournalRetryable /\ rows[i].noted
    /\ SequencesFollowCalls
    /\ TurnResendsAccounted

\* Access to an extended sequence.
LEMMA AppendAccess ==
    ASSUME NEW S, NEW s \in Seq(S), NEW e \in S
    PROVE  /\ Len(Append(s, e)) = Len(s) + 1
           /\ DOMAIN Append(s, e) = 1 .. Len(s) + 1
           /\ DOMAIN s = 1 .. Len(s)
           /\ Len(s) \in Nat
           /\ \A i \in 1 .. Len(s) : Append(s, e)[i] = s[i]
           /\ Append(s, e)[Len(s) + 1] = e
  OBVIOUS

\* What a journaled attempt leaves: the old rows, and one last row.
LEMMA RowAppended ==
    ASSUME TypeOK, JournalAccepts, NEW status \in Statuses, NEW diskFails,
           AppendRow(status, diskFails)
    PROVE  /\ rows' = Append(rows, Row(status)) /\ Row(status) \in Rows
           /\ Len(rows') = Len(rows) + 1 /\ rows' # << >>
           /\ DOMAIN rows' = 1 .. Len(rows) + 1
           /\ DOMAIN rows = 1 .. Len(rows) /\ Len(rows) \in Nat
           /\ \A i \in 1 .. Len(rows) : rows'[i] = rows[i]
           /\ rows'[Len(rows) + 1] = Row(status)
           /\ LastRow' = Row(status)
  <1>1. Row(status) \in Rows
    <2>1. rows' \in Seq(Rows) /\ rows' = Append(rows, Row(status))
      BY RowTyped DEF AppendRow
    <2>2. Len(rows') = Len(rows) + 1 /\ rows'[Len(rows) + 1] = Row(status)
      BY <2>1 DEF TypeOK
    <2> QED BY <2>1, <2>2 DEF TypeOK
  <1>2. rows' = Append(rows, Row(status))
    BY DEF AppendRow
  <1>3. /\ Len(rows') = Len(rows) + 1
        /\ DOMAIN rows' = 1 .. Len(rows) + 1
        /\ DOMAIN rows = 1 .. Len(rows) /\ Len(rows) \in Nat
        /\ \A i \in 1 .. Len(rows) : rows'[i] = rows[i]
        /\ rows'[Len(rows) + 1] = Row(status)
    BY <1>1, <1>2, AppendAccess DEF TypeOK
  <1> QED BY <1>1, <1>2, <1>3, RowTyped DEF LastRow, Last

LEMMA OrdinalInit == Init => OrdinalInv
  BY DEF Init, OrdinalInv, JournalAgreesWithLoop

\* A new call starts a new request in the journal.
LEMMA OrdinalBegin ==
    ASSUME BudgetInv, OrdinalInv, NEW kind, NEW d, Begin(kind, d)
    PROVE  OrdinalInv' /\ ~ContinuesRequest(d)
  <1>1. ~ContinuesRequest(d)
    BY DEF ContinuesRequest, JournalRetryable, Gateway, OrdinalInv, Begin
  <1>2. NextOrdinal(d) = 0 /\ rows' = rows /\ digest' = d /\ attempt' = 0
    BY <1>1 DEF NextOrdinal, Begin
  <1>3. NextOrdinal(digest)' = NextOrdinal(d)
    BY <1>2 DEF NextOrdinal, ContinuesRequest, LastRow
  <1> QED BY <1>1, <1>2, <1>3
          DEF Begin, OrdinalInv, JournalAgreesWithLoop

\* The journal never refuses an attempt.
LEMMA JournalNeverFull ==
    ASSUME BudgetInv, OrdinalInv, pc = "sent"
    PROVE  JournalAccepts
  <1>1. CASE ContinuesRequest(digest)
    <2>1. LastRow \in Rows
      BY <1>1 DEF ContinuesRequest, BudgetInv, TypeOK, LastRow, Last
    <2>2. NextOrdinal(digest) \in Nat
      BY <1>1, <2>1, RetryCountAssumption DEF NextOrdinal, Rows
    <2> QED BY <2>2, RetryCountAssumption
            DEF OrdinalInv, JournalAccepts, BudgetInv, TypeOK
  <1>2. CASE ~ContinuesRequest(digest)
    BY <1>2, RetryCountAssumption DEF JournalAccepts, NextOrdinal
  <1> QED BY <1>1, <1>2

LEMMA OrdinalSend ==
    ASSUME BudgetInv, OrdinalInv, Send
    PROVE  OrdinalInv'
  <1> USE RetryCountAssumption
  <1>1. TypeOK
    BY DEF BudgetInv
  <1>2. pc = "sent" /\ JournalAccepts /\ Attempt
    BY JournalNeverFull
       DEF Send, Attempt, AttemptRetried, AttemptRefused, AttemptMalformed,
           AttemptAnswered, AttemptBreaks
  <1>3. ASSUME NEW status \in Statuses, NEW diskFails \in DiskFailures,
               AttemptRetried(status, diskFails)
        PROVE  OrdinalInv'
    <2>1. LastRow' = Row(status) /\ rows' # << >> /\ Row(status) \in Rows
      BY <1>1, <1>3, RowAppended DEF AttemptRetried
    <2>2. /\ Row(status).ordinal = NextOrdinal(digest)
          /\ Row(status).digest = digest
          /\ Row(status).status = status
          /\ Row(status).call = Len(calls)
      BY DEF Row
    <2>3. NextOrdinal(digest) \in Nat /\ attempt \in Nat
      BY <1>1, <2>1, <2>2 DEF Rows, TypeOK
    <2>4. CASE Kind = "turn"
      <3>1. status \in JournalRetryable \/ stored' = FALSE
        BY <1>3, <2>4 DEF AttemptRetried, AppendRow, Retry, Retryable, Seen,
                          DiskFailures
      <3> QED BY <1>2, <1>3, <2>1, <2>2, <2>3, <2>4, <3>1
              DEF AttemptRetried, OrdinalInv, Kind, JournalAgreesWithLoop
    <2>5. CASE Kind # "turn"
      <3>1. NextOrdinal(digest)' \in {0, NextOrdinal(digest) + 1}
        BY <1>3, <2>1, <2>2 DEF AttemptRetried, NextOrdinal
      <3> QED BY <1>2, <1>3, <2>3, <2>5, <3>1
              DEF AttemptRetried, OrdinalInv, Kind, JournalAgreesWithLoop
    <2> QED BY <2>4, <2>5
  <1>4. ASSUME NEW status \in Statuses, NEW diskFails \in DiskFailures,
               AttemptRefused(status, diskFails)
        PROVE  OrdinalInv'
    BY <1>4 DEF AttemptRefused, Fail, OrdinalInv, JournalAgreesWithLoop
  <1>5. CASE AttemptMalformed
    BY <1>5 DEF AttemptMalformed, Fail, OrdinalInv, JournalAgreesWithLoop
  <1>6. CASE AttemptAnswered
    <2>1. LastRow' = Row("ok")
      BY <1>1, <1>6, RowAppended DEF AttemptAnswered, Statuses
    <2>2. LastRow'.status = "ok"
      BY <2>1 DEF Row
    <2> QED BY <1>6, <2>2
            DEF AttemptAnswered, Fail, OrdinalInv, JournalAgreesWithLoop
  <1>7. CASE AttemptBreaks
    BY <1>7 DEF AttemptBreaks, Fail, OrdinalInv, JournalAgreesWithLoop
  <1> QED BY <1>2, <1>3, <1>4, <1>5, <1>6, <1>7 DEF Attempt

\* The annotation touches the last row only, and only its noted field.
LEMMA RowAnnotated ==
    ASSUME BudgetInv, pc = "backoff",
           rows' = [rows EXCEPT ![Len(rows)] = Annotated(LastRow)]
    PROVE  /\ rows # << >> /\ Len(rows) \in DOMAIN rows
           /\ rows' # << >> /\ Len(rows') = Len(rows)
           /\ DOMAIN rows' = DOMAIN rows /\ DOMAIN rows = 1 .. Len(rows)
           /\ \A i \in DOMAIN rows : i # Len(rows) => rows'[i] = rows[i]
           /\ LastRow = rows[Len(rows)] /\ LastRow \in Rows
           /\ rows'[Len(rows)] = LastRow' /\ LastRow'.noted = TRUE
           /\ LastRow'.digest = LastRow.digest
           /\ LastRow'.status = LastRow.status
           /\ LastRow'.ordinal = LastRow.ordinal
           /\ LastRow'.sequence = LastRow.sequence
           /\ LastRow'.call = LastRow.call
  <1>1. rows \in Seq(Rows) /\ rows # << >>
    BY DEF BudgetInv, TypeOK
  <1>2. Len(rows) \in 1 .. Len(rows) /\ DOMAIN rows = 1 .. Len(rows)
    BY <1>1
  <1>3. LastRow = rows[Len(rows)] /\ LastRow \in Rows
    BY <1>1, <1>2 DEF LastRow, Last
  <1>4. Annotated(LastRow) \in Rows
    BY <1>3 DEF Annotated, Rows
  <1>5. rows' \in Seq(Rows) /\ Len(rows') = Len(rows)
    BY <1>1, <1>2, <1>4
  <1>6. rows'[Len(rows)] = Annotated(LastRow)
    BY <1>1, <1>2
  <1>7. LastRow' = Annotated(LastRow) /\ rows' # << >>
    BY <1>2, <1>5, <1>6 DEF LastRow, Last
  <1>8. /\ Annotated(LastRow).noted = TRUE
        /\ Annotated(LastRow).digest = LastRow.digest
        /\ Annotated(LastRow).status = LastRow.status
        /\ Annotated(LastRow).ordinal = LastRow.ordinal
        /\ Annotated(LastRow).sequence = LastRow.sequence
        /\ Annotated(LastRow).call = LastRow.call
    BY <1>3 DEF Annotated, Rows
  <1> QED BY <1>1, <1>2, <1>3, <1>5, <1>6, <1>7, <1>8

LEMMA OrdinalBackoff ==
    ASSUME BudgetInv, OrdinalInv, Backoff
    PROVE  OrdinalInv'
  <1>1. PICK diskFails \in DiskFailures : NoteRetry(diskFails)
    BY DEF Backoff
  <1>2. CASE NoteRefusal # "none"
    <2>1. NoteRefusal = "note_after_terminal" /\ ~stored
      BY <1>1, <1>2 DEF NoteRetry, NoteRefusal, OrdinalInv
    <2>2. /\ error' = "note_after_terminal" /\ pc' = "failed" /\ rows' = rows
          /\ stored' = stored /\ calls' = calls
          /\ LastRow.call = Len(calls)
      BY <1>1, <2>1 DEF NoteRetry, Fail, OrdinalInv
    <2>3. LastRow' = LastRow
      BY <2>2 DEF LastRow
    <2> QED BY <2>1, <2>2, <2>3 DEF OrdinalInv, JournalAgreesWithLoop
  <1>3. CASE NoteRefusal = "none"
    <2>1. rows' = [rows EXCEPT ![Len(rows)] = Annotated(LastRow)] /\ pc = "backoff"
      BY <1>1, <1>3 DEF NoteRetry
    <2>2. /\ rows' # << >> /\ LastRow'.digest = LastRow.digest
          /\ LastRow'.status = LastRow.status /\ LastRow'.ordinal = LastRow.ordinal
      BY <2>1, RowAnnotated
    <2>3. /\ LastRow.digest = digest /\ LastRow.status \in JournalRetryable
          /\ attempt = LastRow.ordinal + 1
      BY <1>3 DEF NoteRefusal
    <2>4. NextOrdinal(digest)' = attempt /\ attempt' = attempt
      BY <1>1, <2>2, <2>3 DEF NextOrdinal, ContinuesRequest, NoteRetry
    <2>5. attempt \in Nat
      BY RetryCountAssumption DEF BudgetInv, TypeOK
    <2>6. \/ error' = "none" /\ pc' = "sent"
          \/ error' = "disk" /\ pc' = "failed"
      BY <1>1, <1>3 DEF NoteRetry, Fail, OrdinalInv
    <2> QED BY <2>4, <2>5, <2>6 DEF OrdinalInv, JournalAgreesWithLoop
  <1> QED BY <1>2, <1>3

LEMMA OrdinalStep == BudgetInv /\ OrdinalInv /\ [Next]_vars => OrdinalInv'
  <1> SUFFICES ASSUME BudgetInv, OrdinalInv, [Next]_vars
               PROVE  OrdinalInv'
    OBVIOUS
  <1>1. ASSUME NEW d \in TurnDigests, BeginTurn(d)
        PROVE  OrdinalInv'
    BY <1>1, OrdinalBegin DEF BeginTurn
  <1>2. CASE NextLoop
    BY <1>2 DEF NextLoop, OrdinalInv, JournalAgreesWithLoop, LastRow
  <1>3. CASE BeginProbe
    BY <1>3, OrdinalBegin DEF BeginProbe
  <1>4. CASE Send
    BY <1>4, OrdinalSend
  <1>5. CASE Backoff
    BY <1>5, OrdinalBackoff
  <1>6. CASE UNCHANGED vars
    BY <1>6 DEF vars, OrdinalInv, JournalAgreesWithLoop, LastRow, Kind,
                NextOrdinal, ContinuesRequest
  <1> QED BY <1>1, <1>2, <1>3, <1>4, <1>5, <1>6 DEF Next

LEMMA OrdinalInvariant == Spec => []OrdinalInv
  <1> QED BY OrdinalInit, OrdinalStep, BudgetInvariant, PTL DEF Spec

\* Whatever payloads repeat, append and note_retry raise in one case only:
\* the loop backs off after an answer whose checkpoint failed.
THEOREM JournalAgrees == Spec => []JournalAgreesWithLoop
  <1>1. OrdinalInv => JournalAgreesWithLoop
    BY DEF OrdinalInv
  <1> QED BY <1>1, OrdinalInvariant, PTL

LEMMA GroupingInit == Init => GroupingInv
  BY DEF Init, GroupingInv, SequencesFollowCalls, TurnResendsAccounted

\* A new call has no row yet, and its payload continues no request.
LEMMA GroupingBegin ==
    ASSUME BudgetInv, OrdinalInv, GroupingInv,
           NEW kind \in {"turn", "probe"}, NEW d, Begin(kind, d)
    PROVE  GroupingInv'
  <1>1. ~ContinuesRequest(d)
    BY OrdinalBegin
  <1>2. /\ rows' = rows /\ sequence' = sequence /\ digest' = d /\ pc' = "sent"
        /\ calls' = Append(calls, kind)
    BY DEF Begin
  <1>3. ~ContinuesRequest(digest)'
    BY <1>1, <1>2 DEF ContinuesRequest, LastRow
  <1>4. /\ Len(calls') = Len(calls) + 1 /\ Len(calls) \in Nat
        /\ \A i \in 1 .. Len(calls) : calls'[i] = calls[i]
    BY <1>2, AppendAccess DEF BudgetInv, TypeOK
  <1>5. \A i \in DOMAIN rows :
          /\ rows[i].call \in 1 .. Len(calls)
          /\ rows[i].call # Len(calls')
    BY <1>4 DEF GroupingInv
  <1>6. SequencesFollowCalls' /\ TurnResendsAccounted'
    BY <1>2, <1>4, <1>5 DEF GroupingInv, SequencesFollowCalls,
                            TurnResendsAccounted
  <1> QED BY <1>2, <1>3, <1>4, <1>5, <1>6 DEF GroupingInv, LastRow

\* An attempt's row joins the rows of its call.
LEMMA GroupingAppend ==
    ASSUME BudgetInv, OrdinalInv, GroupingInv, pc = "sent", JournalAccepts,
           NEW status \in Statuses, NEW diskFails,
           AppendRow(status, diskFails), calls' = calls
    PROVE  /\ \A i \in DOMAIN rows' :
                /\ rows'[i].sequence <= sequence'
                /\ rows'[i].call \in 1 .. Len(calls)
                /\ rows'[i].sequence = sequence' => rows'[i].call = LastRow'.call
           /\ LastRow'.call = Len(calls)
           /\ Kind = "turn" =>
                \A i \in DOMAIN rows' :
                   rows'[i].call = Len(calls) =>
                     /\ rows'[i].sequence = sequence'
                     /\ i # Len(rows') =>
                          rows'[i].status \in JournalRetryable /\ rows'[i].noted
           /\ SequencesFollowCalls'
           /\ TurnResendsAccounted'
  <1> DEFINE n == Len(rows)
             new == Row(status)
  <1>1. TypeOK
    BY DEF BudgetInv
  <1>2. /\ DOMAIN rows' = 1 .. n + 1 /\ DOMAIN rows = 1 .. n /\ n \in Nat
        /\ \A i \in 1 .. n : rows'[i] = rows[i]
        /\ rows'[n + 1] = new /\ LastRow' = new /\ Len(rows') = n + 1
    BY <1>1, RowAppended
  <1>3. /\ new.sequence = sequence' /\ new.call = Len(calls)
        /\ sequence' = NextSequence(digest)
    BY DEF AppendRow, Row
  <1>4. /\ Len(calls) \in Nat /\ Len(calls) \in 1 .. Len(calls)
        /\ Kind = calls[Len(calls)]
        /\ sequence \in Nat
    <2>1. calls # << >> /\ calls \in Seq({"turn", "probe"})
      BY DEF BudgetInv, TypeOK
    <2>2. Len(calls) \in Nat /\ Len(calls) # 0
      BY <2>1
    <2> QED BY <1>1, <2>1, <2>2 DEF Kind, Last, TypeOK
  <1>5. \A i \in 1 .. n :
          /\ rows[i].sequence \in Nat
          /\ rows[i].sequence <= sequence
          /\ rows[i].call \in 1 .. Len(calls)
    <2>1. \A i \in 1 .. n : rows[i] \in Rows
      BY <1>1, <1>2 DEF TypeOK
    <2>2. \A i \in 1 .. n : rows[i].sequence \in Nat
      BY <2>1 DEF Rows
    <2> QED BY <1>2, <2>2 DEF GroupingInv
  <1>6. \/ ContinuesRequest(digest) /\ sequence' = sequence
        \/ ~ContinuesRequest(digest) /\ sequence' = sequence + 1
    BY <1>3 DEF NextSequence
  \* Old rows of the current sequence belong to the current call, and for a
  \* turn the converse.
  <1>7. \A i \in 1 .. n :
          /\ rows[i].sequence <= sequence'
          /\ rows[i].sequence = sequence' => rows[i].call = Len(calls)
    <2>1. CASE ContinuesRequest(digest) /\ sequence' = sequence
      BY <1>2, <1>4, <1>5, <2>1 DEF GroupingInv
    <2>2. CASE ~ContinuesRequest(digest) /\ sequence' = sequence + 1
      BY <1>4, <1>5, <2>2
    <2> QED BY <1>6, <2>1, <2>2
  <1>8. ASSUME Kind = "turn", NEW i \in 1 .. n, rows[i].call = Len(calls)
        PROVE  /\ rows[i].sequence = sequence'
               /\ rows[i].status \in JournalRetryable /\ rows[i].noted
    <2>1. /\ ContinuesRequest(digest) /\ rows[i].sequence = sequence
          /\ rows[i].status \in JournalRetryable /\ rows[i].noted
      BY <1>2, <1>8 DEF GroupingInv
    <2> QED BY <1>6, <2>1
  <1>9. SequencesFollowCalls'
    <2> SUFFICES ASSUME NEW i \in 1 .. n + 1, NEW j \in 1 .. n + 1
                 PROVE  /\ rows'[i].sequence = rows'[j].sequence
                             => rows'[i].call = rows'[j].call
                        /\ (rows'[i].call = rows'[j].call
                              /\ calls[rows'[i].call] = "turn")
                             => rows'[i].sequence = rows'[j].sequence
      BY <1>2 DEF SequencesFollowCalls
    <2>1. CASE i \in 1 .. n /\ j \in 1 .. n
      BY <1>2, <2>1 DEF GroupingInv, SequencesFollowCalls
    <2>2. CASE i = n + 1 /\ j \in 1 .. n
      BY <1>2, <1>3, <1>4, <1>7, <1>8, <2>2
    <2>3. CASE i \in 1 .. n /\ j = n + 1
      BY <1>2, <1>3, <1>4, <1>7, <1>8, <2>3
    <2>4. CASE i = n + 1 /\ j = n + 1
      BY <2>4
    <2> QED BY <1>2, <2>1, <2>2, <2>3, <2>4
  <1>10. TurnResendsAccounted'
    <2> SUFFICES ASSUME NEW i \in 1 .. n + 1, NEW j \in 1 .. n + 1, i < j,
                        rows'[i].call = rows'[j].call,
                        calls[rows'[i].call] = "turn"
                 PROVE  rows'[i].status \in JournalRetryable /\ rows'[i].noted
      BY <1>2 DEF TurnResendsAccounted
    <2>1. i \in 1 .. n /\ rows'[i] = rows[i]
      BY <1>2
    <2>2. CASE j \in 1 .. n
      BY <1>2, <2>1, <2>2 DEF GroupingInv, TurnResendsAccounted
    <2>3. CASE j = n + 1
      BY <1>2, <1>3, <1>4, <1>8, <2>1, <2>3
    <2> QED BY <1>2, <2>2, <2>3
  <1>11. \A i \in DOMAIN rows' :
           /\ rows'[i].sequence <= sequence'
           /\ rows'[i].call \in 1 .. Len(calls)
           /\ rows'[i].sequence = sequence' => rows'[i].call = LastRow'.call
    <2>1. sequence' \in Nat
      BY <1>4, <1>6
    <2> QED BY <1>2, <1>3, <1>4, <1>5, <1>7, <2>1
  <1>12. Kind = "turn" =>
           \A i \in DOMAIN rows' :
              rows'[i].call = Len(calls) =>
                /\ rows'[i].sequence = sequence'
                /\ i # Len(rows') =>
                     rows'[i].status \in JournalRetryable /\ rows'[i].noted
    BY <1>2, <1>3, <1>8
  <1> QED BY <1>2, <1>3, <1>9, <1>10, <1>11, <1>12

LEMMA GroupingSend ==
    ASSUME BudgetInv, OrdinalInv, GroupingInv, Send
    PROVE  GroupingInv'
  <1>1. pc = "sent" /\ JournalAccepts /\ Attempt
    BY JournalNeverFull
       DEF Send, Attempt, AttemptRetried, AttemptRefused, AttemptMalformed,
           AttemptAnswered, AttemptBreaks
  <1>2. "ok" \in Statuses
    BY DEF Statuses
  <1>3. ASSUME NEW status \in Statuses, NEW diskFails \in DiskFailures,
               AttemptRetried(status, diskFails)
        PROVE  GroupingInv'
    <2>1. /\ AppendRow(status, diskFails) /\ calls' = calls /\ digest' = digest
          /\ pc' = IF Kind = "turn" THEN "backoff" ELSE "sent"
          /\ Kind' = Kind
      BY <1>3 DEF AttemptRetried, Kind
    <2> QED BY <1>1, <2>1, GroupingAppend DEF GroupingInv
  <1>4. ASSUME NEW status \in Statuses, NEW diskFails \in DiskFailures,
               AttemptRefused(status, diskFails)
        PROVE  GroupingInv'
    <2>1. AppendRow(status, diskFails) /\ calls' = calls /\ pc' = "failed"
      BY <1>4 DEF AttemptRefused, Fail
    <2> QED BY <1>1, <2>1, GroupingAppend DEF GroupingInv
  <1>5. CASE AttemptMalformed
    <2>1. AppendRow("ok", FALSE) /\ calls' = calls /\ pc' = "failed"
      BY <1>5 DEF AttemptMalformed, Fail
    <2> QED BY <1>1, <1>2, <2>1, GroupingAppend DEF GroupingInv
  <1>6. CASE AttemptAnswered
    <2>1. AppendRow("ok", FALSE) /\ calls' = calls /\ pc' \in {"idle", "failed"}
      BY <1>6 DEF AttemptAnswered, Fail
    <2> QED BY <1>1, <1>2, <2>1, GroupingAppend DEF GroupingInv
  <1>7. CASE AttemptBreaks
    <2>1. calls' = calls /\ pc' = "failed"
      BY <1>7 DEF AttemptBreaks, Fail
    <2>2. CASE AppendRow("transport_error", FALSE)
      BY <1>1, <2>1, <2>2, GroupingAppend DEF GroupingInv, Statuses
    <2>3. CASE UNCHANGED <<rows, sequence, stored>>
      BY <2>1, <2>3 DEF GroupingInv, LastRow, SequencesFollowCalls,
                        TurnResendsAccounted
    <2> QED BY <1>7, <2>2, <2>3 DEF AttemptBreaks
  <1> QED BY <1>1, <1>3, <1>4, <1>5, <1>6, <1>7 DEF Attempt

LEMMA GroupingBackoff ==
    ASSUME BudgetInv, OrdinalInv, GroupingInv, Backoff
    PROVE  GroupingInv'
  <1>1. PICK diskFails \in DiskFailures : NoteRetry(diskFails)
    BY DEF Backoff
  <1>2. /\ pc = "backoff" /\ calls' = calls /\ digest' = digest
        /\ sequence' = sequence /\ pc' \in {"sent", "failed"} /\ Kind' = Kind
    BY <1>1 DEF NoteRetry, Fail, Kind
  <1>3. CASE NoteRefusal # "none"
    <2>1. rows' = rows /\ pc' = "failed"
      BY <1>1, <1>3 DEF NoteRetry, Fail
    <2> QED BY <1>2, <2>1 DEF GroupingInv, LastRow, SequencesFollowCalls,
                              TurnResendsAccounted
  <1>4. CASE NoteRefusal = "none"
    <2>1. rows' = [rows EXCEPT ![Len(rows)] = Annotated(LastRow)]
      BY <1>1, <1>4 DEF NoteRetry
    <2>2. /\ rows' # << >> /\ Len(rows') = Len(rows) /\ DOMAIN rows' = DOMAIN rows
          /\ \A i \in DOMAIN rows : i # Len(rows) => rows'[i] = rows[i]
          /\ LastRow = rows[Len(rows)] /\ rows'[Len(rows)] = LastRow'
          /\ LastRow'.noted = TRUE /\ LastRow'.digest = LastRow.digest
          /\ LastRow'.status = LastRow.status
          /\ LastRow'.sequence = LastRow.sequence
          /\ LastRow'.call = LastRow.call
      BY <1>2, <2>1, RowAnnotated
    <2>3. \A i \in DOMAIN rows :
            /\ rows'[i].sequence = rows[i].sequence
            /\ rows'[i].call = rows[i].call
            /\ rows'[i].status = rows[i].status
            /\ rows[i].noted => rows'[i].noted
      BY <2>2
    <2>4. SequencesFollowCalls' /\ TurnResendsAccounted'
      BY <1>2, <2>2, <2>3 DEF GroupingInv, SequencesFollowCalls,
                              TurnResendsAccounted
    <2>5. LastRow.digest = digest /\ LastRow.status \in JournalRetryable
      BY <1>4 DEF NoteRefusal
    <2>6. ContinuesRequest(digest)'
      BY <1>2, <2>2, <2>5 DEF ContinuesRequest
    <2>7. \A i \in DOMAIN rows' :
             rows'[i].call = Len(calls) =>
               /\ rows'[i].sequence = sequence
               /\ rows'[i].status \in JournalRetryable
               /\ rows'[i].noted
      BY <1>2, <2>2, <2>3, <2>5 DEF GroupingInv
    <2> QED BY <1>2, <2>2, <2>3, <2>4, <2>6, <2>7 DEF GroupingInv
  <1> QED BY <1>3, <1>4

LEMMA GroupingStep ==
    BudgetInv /\ OrdinalInv /\ GroupingInv /\ [Next]_vars => GroupingInv'
  <1> SUFFICES ASSUME BudgetInv, OrdinalInv, GroupingInv, [Next]_vars
               PROVE  GroupingInv'
    OBVIOUS
  <1>1. ASSUME NEW d \in TurnDigests, BeginTurn(d)
        PROVE  GroupingInv'
    BY <1>1, GroupingBegin DEF BeginTurn
  <1>2. CASE NextLoop
    BY <1>2 DEF NextLoop, GroupingInv, LastRow, SequencesFollowCalls,
                TurnResendsAccounted
  <1>3. CASE BeginProbe
    BY <1>3, GroupingBegin DEF BeginProbe
  <1>4. CASE Send
    BY <1>4, GroupingSend
  <1>5. CASE Backoff
    BY <1>5, GroupingBackoff
  <1>6. CASE UNCHANGED vars
    BY <1>6 DEF vars, GroupingInv, LastRow, Kind, ContinuesRequest,
                SequencesFollowCalls, TurnResendsAccounted
  <1> QED BY <1>1, <1>2, <1>3, <1>4, <1>5, <1>6 DEF Next

LEMMA GroupingInvariant == Spec => []GroupingInv
  <1> QED BY GroupingInit, GroupingStep, OrdinalInvariant, BudgetInvariant, PTL
          DEF Spec

\* The journal's logical requests are the loop's calls, even when the
\* continuations send the same bytes.
THEOREM SequencesMatchCalls == Spec => []SequencesFollowCalls
  <1>1. GroupingInv => SequencesFollowCalls
    BY DEF GroupingInv
  <1> QED BY <1>1, GroupingInvariant, PTL

\* A turn never resends after a terminal answer, not even when the journal
\* write of that answer failed, and every resend's delay is on its row.
THEOREM ResendsAccounted == Spec => []TurnResendsAccounted
  <1>1. GroupingInv => TurnResendsAccounted
    BY DEF GroupingInv
  <1> QED BY <1>1, GroupingInvariant, PTL

-----------------------------------------------------------------------------
(* What a turn charges *)

\* The rows of a turn in progress are the last ones, one per attempt made.
CountInv ==
    InProgress /\ Kind = "turn" =>
      /\ attempt <= Len(rows)
      /\ \A i \in DOMAIN rows :
           rows[i].call = Len(calls) <=> i > Len(rows) - attempt

LEMMA CountInit == Init => CountInv
  BY DEF Init, CountInv

\* A call that begins has no row.
LEMMA CountBegin ==
    ASSUME BudgetInv, GroupingInv, NEW kind \in {"turn", "probe"}, NEW d,
           Begin(kind, d)
    PROVE  CountInv'
  <1>1. rows' = rows /\ attempt' = 0 /\ calls' = Append(calls, kind)
    BY DEF Begin
  <1>2. Len(calls') = Len(calls) + 1 /\ Len(calls) \in Nat
    BY <1>1 DEF BudgetInv, TypeOK
  <1>3. Len(rows) \in Nat /\ DOMAIN rows = 1 .. Len(rows)
    BY DEF BudgetInv, TypeOK
  <1>4. \A i \in DOMAIN rows : rows[i].call # Len(calls')
    BY <1>2 DEF GroupingInv
  <1>5. \A i \in DOMAIN rows : ~(i > Len(rows) - 0)
    BY <1>3
  <1>6. 0 <= Len(rows)
    BY <1>3
  <1> QED BY <1>1, <1>4, <1>5, <1>6 DEF CountInv

\* An attempt of a turn puts one more row at the end.
LEMMA CountAppend ==
    ASSUME BudgetInv, CountInv, pc = "sent", Kind = "turn", JournalAccepts,
           NEW status \in Statuses, NEW diskFails,
           AppendRow(status, diskFails), calls' = calls
    PROVE  /\ attempt + 1 <= Len(rows')
           /\ \A i \in DOMAIN rows' :
                rows'[i].call = Len(calls) <=> i > Len(rows') - (attempt + 1)
  <1> DEFINE n == Len(rows)
  <1>1. /\ DOMAIN rows' = 1 .. n + 1 /\ DOMAIN rows = 1 .. n /\ n \in Nat
        /\ \A i \in 1 .. n : rows'[i] = rows[i]
        /\ rows'[n + 1] = Row(status) /\ Len(rows') = n + 1
    BY RowAppended DEF BudgetInv
  <1>2. Row(status).call = Len(calls)
    BY DEF Row
  <1>3. attempt \in Nat /\ attempt <= n
    BY RetryCountAssumption DEF BudgetInv, TypeOK, CountInv
  <1>4. \A i \in 1 .. n : rows[i].call = Len(calls) <=> i > n - attempt
    BY <1>1 DEF CountInv
  <1> HIDE DEF n
  <1>5. \A i \in 1 .. n : rows'[i].call = Len(calls) <=> i > n + 1 - (attempt + 1)
    <2> TAKE i \in 1 .. n
    <2>1. i > n + 1 - (attempt + 1) <=> i > n - attempt
      BY <1>1, <1>3
    <2>2. rows'[i].call = rows[i].call
      BY <1>1
    <2> QED BY <1>4, <2>1, <2>2
  <1>6. rows'[n + 1].call = Len(calls) /\ n + 1 > n + 1 - (attempt + 1)
    BY <1>1, <1>2, <1>3
  <1>7. \A i \in 1 .. n + 1 : i \in 1 .. n \/ i = n + 1
    BY <1>1
  <1>8. attempt + 1 <= n + 1
    BY <1>1, <1>3
  <1>9. ASSUME NEW i \in 1 .. n + 1
        PROVE  rows'[i].call = Len(calls) <=> i > n + 1 - (attempt + 1)
    <2>1. CASE i \in 1 .. n
      BY <1>5, <2>1
    <2>2. CASE i = n + 1
      BY <1>6, <2>2
    <2> QED BY <1>7, <2>1, <2>2
  <1>10. /\ Len(rows') = n + 1 /\ DOMAIN rows' = 1 .. n + 1 /\ n \in Nat
         /\ attempt \in Nat
    BY <1>1, <1>3
  <1>11. attempt + 1 <= Len(rows')
    BY <1>8, <1>10
  <1>12. Len(rows') - (attempt + 1) = n + 1 - (attempt + 1)
    BY <1>10
  <1>13. ASSUME NEW i \in DOMAIN rows'
         PROVE  rows'[i].call = Len(calls) <=> i > Len(rows') - (attempt + 1)
    <2>1. i \in 1 .. n + 1
      BY <1>10, <1>13
    <2>2. rows'[i].call = Len(calls) <=> i > n + 1 - (attempt + 1)
      BY <1>9, <2>1
    <2> QED BY <1>12, <2>2, Zenon
  <1> QED BY <1>11, <1>13, Zenon

LEMMA CountStep ==
    BudgetInv /\ OrdinalInv /\ GroupingInv /\ CountInv /\ [Next]_vars => CountInv'
  <1> SUFFICES ASSUME BudgetInv, OrdinalInv, GroupingInv, CountInv, [Next]_vars
               PROVE  CountInv'
    OBVIOUS
  <1>1. CASE (\E d \in TurnDigests : BeginTurn(d)) \/ BeginProbe
    BY <1>1, CountBegin DEF BeginTurn, BeginProbe
  <1>2. CASE NextLoop
    BY <1>2 DEF NextLoop, CountInv
  <1>3. CASE Send
    <2>1. pc = "sent" /\ JournalAccepts /\ Attempt
      BY <1>3, JournalNeverFull
         DEF Send, Attempt, AttemptRetried, AttemptRefused, AttemptMalformed,
             AttemptAnswered, AttemptBreaks
    <2>2. CASE pc' \in {"idle", "failed"}
      BY <2>2 DEF CountInv
    <2>3. ASSUME NEW status \in Statuses, NEW diskFails \in DiskFailures,
                 AttemptRetried(status, diskFails)
          PROVE  CountInv'
      <3>1. /\ AppendRow(status, diskFails) /\ calls' = calls /\ attempt' = attempt + 1
            /\ Kind' = Kind
        BY <2>3 DEF AttemptRetried, Kind
      <3>2. CASE Kind = "turn"
        BY <2>1, <3>1, <3>2, CountAppend DEF CountInv
      <3>3. CASE Kind # "turn"
        BY <3>1, <3>3 DEF CountInv
      <3> QED BY <3>2, <3>3
    <2> QED BY <2>1, <2>2, <2>3
            DEF Attempt, AttemptRefused, AttemptMalformed, AttemptAnswered,
                AttemptBreaks, Fail
  <1>4. CASE Backoff
    <2>1. PICK diskFails \in DiskFailures : NoteRetry(diskFails)
      BY <1>4 DEF Backoff
    <2>2. /\ pc = "backoff" /\ calls' = calls /\ attempt' = attempt /\ Kind' = Kind
          /\ rows' \in {rows, [rows EXCEPT ![Len(rows)] = Annotated(LastRow)]}
      BY <2>1 DEF NoteRetry, Kind
    <2>3. CASE rows' = rows
      BY <2>2, <2>3 DEF CountInv
    <2>4. CASE rows' = [rows EXCEPT ![Len(rows)] = Annotated(LastRow)]
      <3>1. /\ Len(rows') = Len(rows) /\ DOMAIN rows' = DOMAIN rows
            /\ \A i \in DOMAIN rows : i # Len(rows) => rows'[i] = rows[i]
            /\ LastRow = rows[Len(rows)] /\ rows'[Len(rows)] = LastRow'
            /\ LastRow'.call = LastRow.call
        BY <2>2, <2>4, RowAnnotated
      <3>2. \A i \in DOMAIN rows : rows'[i].call = rows[i].call
        BY <3>1
      <3> QED BY <2>2, <3>1, <3>2 DEF CountInv
    <2> QED BY <2>2, <2>3, <2>4
  <1>5. CASE UNCHANGED vars
    BY <1>5 DEF vars, CountInv, Kind
  <1> QED BY <1>1, <1>2, <1>3, <1>4, <1>5 DEF Next

LEMMA CountInvariant == Spec => []CountInv
  <1> QED BY CountInit, CountStep, GroupingInvariant, OrdinalInvariant,
             BudgetInvariant, PTL DEF Spec

\* Only an accepted turn charges, and it charges the attempts it made.
LEMMA ChargeIs ==
    ASSUME BudgetInv, [Next]_vars, ledger'.physical > ledger.physical
    PROVE  /\ AttemptAnswered /\ Kind = "turn" /\ pc = "sent" /\ JournalAccepts
           /\ AppendRow("ok", FALSE) /\ calls' = calls
           /\ ledger'.physical - ledger.physical = attempt + 1
  <1>1. ledger.physical \in Nat /\ attempt \in Nat
    BY RetryCountAssumption DEF BudgetInv, TypeOK
  <1>2. ledger' # ledger /\ ledger' # Opened
    BY <1>1 DEF Opened
  <1>3. AttemptAnswered /\ Kind = "turn" /\ ledger' = Charge(ledger, attempt + 1)
    <2>1. CASE AttemptAnswered
      BY <1>2, <2>1 DEF AttemptAnswered
    <2> QED BY <1>2, <2>1
            DEF Next, BeginTurn, BeginProbe, Begin, NextLoop, Send, Attempt,
                AttemptRetried, AttemptRefused, AttemptMalformed, AttemptBreaks,
                JournalRefuses, Backoff, NoteRetry, vars
  <1>4. ledger'.physical = ledger.physical + (attempt + 1)
    BY <1>3 DEF Charge
  <1>5. ledger'.physical - ledger.physical = attempt + 1
    BY <1>1, <1>4
  <1> QED BY <1>3, <1>5 DEF AttemptAnswered

\* The attempts a turn is charged are the journal's last rows, all of this
\* call, and all but the last of them were answered in a retryable way.
THEOREM ChargesJournaled == Spec => ChargedAttemptsAreJournaled
  <1>1. ASSUME BudgetInv, GroupingInv, CountInv, [Next]_vars,
               ledger'.physical > ledger.physical
        PROVE  LET n == ledger'.physical - ledger.physical
                   first == Len(rows') - n
               IN /\ \A i \in DOMAIN rows' :
                        (rows'[i].call = Len(calls)) <=> (i > first)
                  /\ \A i \in first + 1 .. Len(rows') :
                        (rows'[i].status = "ok") <=> (i = Len(rows'))
    <2> DEFINE n == ledger'.physical - ledger.physical
               first == Len(rows') - n
    <2>1. /\ Kind = "turn" /\ pc = "sent" /\ JournalAccepts /\ "ok" \in Statuses
          /\ AppendRow("ok", FALSE) /\ calls' = calls /\ n = attempt + 1
      BY <1>1, ChargeIs DEF Statuses
    <2>2. /\ n <= Len(rows')
          /\ \A i \in DOMAIN rows' : (rows'[i].call = Len(calls)) <=> (i > first)
      BY <1>1, <2>1, CountAppend
    <2>3. /\ DOMAIN rows' = 1 .. Len(rows) + 1 /\ DOMAIN rows = 1 .. Len(rows)
          /\ Len(rows) \in Nat /\ Len(rows') = Len(rows) + 1
          /\ \A i \in 1 .. Len(rows) : rows'[i] = rows[i]
          /\ rows'[Len(rows')] = Row("ok")
      BY <1>1, <2>1, RowAppended DEF BudgetInv
    <2>4. Row("ok").status = "ok"
      BY DEF Row
    <2>5. attempt \in Nat
      BY <1>1, RetryCountAssumption DEF BudgetInv, TypeOK
    <2> HIDE DEF n
    <2>6. ASSUME NEW i \in first + 1 .. Len(rows'), i # Len(rows')
          PROVE  rows'[i].status # "ok"
      <3>1. i \in 1 .. Len(rows) /\ i > first
        BY <2>1, <2>2, <2>3, <2>5, <2>6
      <3>2. rows[i].call = Len(calls) /\ i \in DOMAIN rows
        BY <2>2, <2>3, <3>1
      <3>3. rows[i].status \in JournalRetryable
        BY <1>1, <2>1, <3>2 DEF GroupingInv
      <3> QED BY <2>3, <3>1, <3>3 DEF JournalRetryable, Gateway
    <2> QED BY <2>2, <2>3, <2>4, <2>6 DEF n
  <1>2. BudgetInv /\ GroupingInv /\ CountInv /\ [Next]_vars =>
          [ledger'.physical > ledger.physical =>
             LET n == ledger'.physical - ledger.physical
                 first == Len(rows') - n
             IN /\ \A i \in DOMAIN rows' :
                      (rows'[i].call = Len(calls)) <=> (i > first)
                /\ \A i \in first + 1 .. Len(rows') :
                      (rows'[i].status = "ok") <=> (i = Len(rows'))]_vars
    BY <1>1
  <1> QED BY <1>2, BudgetInvariant, GroupingInvariant, CountInvariant, PTL
          DEF Spec, ChargedAttemptsAreJournaled
=============================================================================
