----------------------------- MODULE ToolTurns ------------------------------
(***************************************************************************)
(* The provider side of a prefix run: OllamaToolLoop._one_turn and the     *)
(* post-decision probe, over a transport that answers, refuses, drops or   *)
(* times out each attempt, with the content-blind attempt journal the V8   *)
(* runner requires.                                                        *)
(*                                                                         *)
(* A call is one logical request; an attempt is one physical send of it,   *)
(* OllamaCloudTransport.chat.  The object that wraps this transport and    *)
(* owns the journal is not part of the repository: it is modelled from     *)
(* what the loop calls on it, chat (send once, append one journal row,     *)
(* return or raise) and record_retry_delay (note_retry on the last row).   *)
(***************************************************************************)
EXTENDS BudgetLedger, Sequences, SequencesExt

CONSTANTS
    LogicalCeiling,   \* turns one loop's ledger allows
    TurnDigests,      \* payload digests a loop may send
    ProbeDigest,      \* payload digest of the probe
    ProbeAllowed,     \* does a probe end a loop of this run?
    DiskMayFail,      \* may SafeAttemptJournal._write raise OSError?
    MaxCalls          \* bound: calls made in one behaviour

ASSUME ToolTurnsAssumption ==
    /\ LogicalCeiling \in Nat \ {0}
    /\ MaxCalls \in Nat
    /\ ProbeDigest \notin TurnDigests
    /\ {ProbeAllowed, DiskMayFail} \subseteq BOOLEAN

VARIABLES
    pc,        \* "idle", "sent", "backoff" or "failed"
    error,     \* what raised when pc = "failed"
    calls,     \* the kind of every call begun, in order
    digest,    \* payload digest of the current call
    attempt,   \* ordinal of the current attempt, from 0
    sent,      \* payloads this loop has sent: its history only grows
    ledger,    \* the current loop's BudgetLedger
    rows,      \* SafeAttemptJournal.attempts
    sequence,  \* SafeAttemptJournal._logical_request_sequence
    stored     \* history: did the checkpoint of the last row return?

vars == <<pc, error, calls, digest, attempt, sent, ledger, rows, sequence, stored>>

-----------------------------------------------------------------------------
(* Attempt outcomes *)

Errors == {"none", "exhausted", "refused", "malformed", "uncaught", "disk",
           "budget", "journal_ceiling",
           "note_lacks_attempt", "note_after_terminal", "note_drift"}

\* HTTP 500, the 502/503/504 class, every other status but 200, and an
\* OSError, socket.timeout or SSLError out of chat.
Gateway == {"gateway_5xx"}
Statuses == {"ok", "server_500", "other_http", "transport_error"} \cup Gateway

\* SafeAttemptJournal.prior_retryable: the policy's statuses.
JournalRetryable == Gateway \cup {"server_500", "transport_error"}

\* (mutant) the loop retries statuses the journal takes as final
RetryableAlsoOther(kind) == IF kind = "turn" THEN Statuses \ {"ok"} ELSE Gateway

\* The V8 loop is built with RETRYABLE_HTTP | {500}; the probe has a retry
\* loop of its own over RETRYABLE_HTTP.
Retryable(kind) ==
    IF kind = "turn" THEN JournalRetryable ELSE Gateway \cup {"transport_error"}

Kind == Last(calls)
LastRow == Last(rows)

-----------------------------------------------------------------------------
(* SafeAttemptJournal *)

\* (mutant) the journal forgets to look at the previous status
ContinuesSameDigest(d) == rows # << >> /\ LastRow.digest = d

ContinuesRequest(d) ==
    /\ rows # << >>
    /\ LastRow.digest = d
    /\ LastRow.status \in JournalRetryable

NextOrdinal(d) == IF ContinuesRequest(d) THEN LastRow.ordinal + 1 ELSE 0

NextSequence(d) == IF ContinuesRequest(d) THEN sequence ELSE sequence + 1

\* append: the row reaches memory before _write is tried.  "call" is a
\* history field: which call of this behaviour the row belongs to.
Row(status) ==
    [sequence |-> NextSequence(digest), ordinal |-> NextOrdinal(digest),
     digest |-> digest, status |-> status, noted |-> FALSE,
     call |-> Len(calls)]

JournalAccepts == NextOrdinal(digest) < RetryCount + 1

AppendRow(status, diskFails) ==
    /\ sequence' = NextSequence(digest)
    /\ rows' = Append(rows, Row(status))
    /\ stored' = ~diskFails

\* What the loop sees of an attempt the wire answered with status: a failing
\* _write leaves chat as an OSError.
Seen(status, diskFails) == IF diskFails THEN "transport_error" ELSE status

DiskFailures == IF DiskMayFail THEN BOOLEAN ELSE {FALSE}

-----------------------------------------------------------------------------
Init ==
    /\ pc = "idle"
    /\ error = "none"
    /\ calls = << >>
    /\ digest = ProbeDigest
    /\ attempt = 0
    /\ sent = {}
    /\ ledger = Opened
    /\ rows = << >>
    /\ sequence = 0
    /\ stored = TRUE

Fail(reason) ==
    /\ pc' = "failed"
    /\ error' = reason

Begin(kind, d) ==
    /\ pc = "idle"
    /\ Len(calls) < MaxCalls
    /\ calls' = Append(calls, kind)
    /\ digest' = d
    /\ attempt' = 0
    /\ pc' = "sent"
    /\ UNCHANGED <<error, ledger, rows, sequence, stored>>

\* The runner asks for a turn only below its logical ceiling.
BeginTurn(d) ==
    /\ ledger.logical < LogicalCeiling
    /\ d \notin sent
    /\ Begin("turn", d)
    /\ sent' = sent \cup {d}

\* A loop ends and the next one starts with a fresh OllamaToolLoop and
\* ledger.  Every continuation starts from the same messages, so the first
\* payload of the next loop may repeat one already sent.
NextLoop ==
    /\ pc = "idle"
    /\ sent # {}
    /\ sent' = {}
    /\ ledger' = Opened
    /\ UNCHANGED <<pc, error, calls, digest, attempt, rows, sequence, stored>>

\* A probe follows a continuation, so at least the turn that triggered the
\* fork.
BeginProbe ==
    /\ ProbeAllowed
    /\ calls # << >>
    /\ "probe" \notin ToSet(calls)
    /\ Begin("probe", ProbeDigest)
    /\ UNCHANGED sent

-----------------------------------------------------------------------------
(* One attempt: transport.chat, then the loop's reaction *)

\* (mutant) off by one: a retry beyond the last attempt
RetryOnceMore(seen) ==
    /\ seen \in Retryable(Kind)
    /\ attempt <= RetryCount

Retry(seen) ==
    /\ seen \in Retryable(Kind)
    /\ attempt < RetryCount

\* Retryable with an attempt left.  The loop announces the delay before it
\* resends; the probe resends at once and announces nothing.
AttemptRetried(status, diskFails) ==
    /\ pc = "sent"
    /\ JournalAccepts
    /\ Retry(Seen(status, diskFails))
    /\ AppendRow(status, diskFails)
    /\ attempt' = attempt + 1
    /\ pc' = IF Kind = "turn" THEN "backoff" ELSE "sent"
    /\ UNCHANGED <<error, calls, digest, sent, ledger>>

\* The last attempt failed in a retryable way, or the status is not 200.
AttemptRefused(status, diskFails) ==
    /\ pc = "sent"
    /\ JournalAccepts
    /\ Seen(status, diskFails) # "ok"
    /\ ~Retry(Seen(status, diskFails))
    /\ AppendRow(status, diskFails)
    /\ Fail(IF Seen(status, diskFails) = "transport_error"
              THEN "exhausted" ELSE "refused")
    /\ UNCHANGED <<calls, digest, attempt, sent, ledger>>

\* Status 200, but the body, model, request identity, token accounting or
\* message shape is rejected.
AttemptMalformed ==
    /\ pc = "sent"
    /\ JournalAccepts
    /\ AppendRow("ok", FALSE)
    /\ Fail("malformed")
    /\ UNCHANGED <<calls, digest, attempt, sent, ledger>>

\* (mutant) the probe is charged to the ledger of the loop it follows
AttemptAnsweredAlwaysCharged ==
    /\ pc = "sent"
    /\ JournalAccepts
    /\ AppendRow("ok", FALSE)
    /\ ledger' = Charge(ledger, attempt + 1)
    /\ pc' = "idle"
    /\ UNCHANGED <<error, calls, digest, attempt, sent>>

\* Status 200 and accepted.  The runner charges a turn after it; the probe
\* is charged to no ledger.
AttemptAnswered ==
    /\ pc = "sent"
    /\ JournalAccepts
    /\ AppendRow("ok", FALSE)
    /\ IF Kind = "turn"
         THEN IF MayCharge(ledger, attempt + 1, LogicalCeiling)
                THEN /\ ledger' = Charge(ledger, attempt + 1)
                     /\ pc' = "idle"
                     /\ UNCHANGED error
                ELSE /\ Fail("budget")
                     /\ UNCHANGED ledger
         ELSE /\ pc' = "idle"
              /\ UNCHANGED <<error, ledger>>
    /\ UNCHANGED <<calls, digest, attempt, sent>>

\* chat raises what neither loop catches, an exception that is no OSError
\* (http.client.IncompleteRead out of response.read, say).  Whether the
\* wrapper journals such an attempt is not known here: it may, or may not.
AttemptBreaks ==
    /\ pc = "sent"
    /\ JournalAccepts
    /\ \/ AppendRow("transport_error", FALSE)
       \/ UNCHANGED <<rows, sequence, stored>>
    /\ Fail("uncaught")
    /\ UNCHANGED <<calls, digest, attempt, sent, ledger>>

\* append raises when the ordinal reaches the policy's maximum_attempts; it
\* has by then moved the sequence, and keeps no row.
JournalRefuses ==
    /\ sequence' = NextSequence(digest)
    /\ Fail("journal_ceiling")
    /\ UNCHANGED <<calls, digest, attempt, sent, ledger, rows, stored>>

Attempt ==
    \/ \E status \in Statuses, diskFails \in DiskFailures :
         \/ AttemptRetried(status, diskFails)
         \/ AttemptRefused(status, diskFails)
    \/ AttemptMalformed
    \/ AttemptAnswered
    \/ AttemptBreaks

Send == IF pc = "sent" /\ ~JournalAccepts THEN JournalRefuses ELSE Attempt

-----------------------------------------------------------------------------
(* record_retry_delay -> note_retry, then the back-off sleep *)

\* (mutant) the annotation does not look at the status it follows
NoteRefusalByOrdinal ==
    IF attempt # LastRow.ordinal + 1 THEN "note_drift" ELSE "none"

\* note_retry's checks on the row it annotates, in their order.
NoteRefusal ==
    IF LastRow.digest # digest THEN "note_lacks_attempt"
    ELSE IF LastRow.status \notin JournalRetryable THEN "note_after_terminal"
    ELSE IF attempt # LastRow.ordinal + 1 THEN "note_drift"
    ELSE "none"

Annotated(row) == [row EXCEPT !.noted = TRUE]

\* (mutant) the delay is announced and the attempt is not made
NoteRetryWithoutResend(diskFails) ==
    /\ pc = "backoff"
    /\ rows' = [rows EXCEPT ![Len(rows)] = Annotated(LastRow)]
    /\ UNCHANGED <<pc, error, calls, digest, attempt, sent, ledger, sequence, stored>>

\* The checkpoint of the annotation is outside the loop's try block: an
\* OSError there ends the run.
NoteRetry(diskFails) ==
    /\ pc = "backoff"
    /\ IF NoteRefusal # "none"
         THEN /\ Fail(NoteRefusal)
              /\ UNCHANGED rows
         ELSE /\ rows' = [rows EXCEPT ![Len(rows)] = Annotated(LastRow)]
              /\ IF diskFails
                   THEN Fail("disk")
                   ELSE pc' = "sent" /\ UNCHANGED error
    /\ UNCHANGED <<calls, digest, attempt, sent, ledger, sequence, stored>>

Backoff == \E diskFails \in DiskFailures : NoteRetry(diskFails)

Next ==
    \/ \E d \in TurnDigests : BeginTurn(d)
    \/ NextLoop
    \/ BeginProbe
    \/ Send
    \/ Backoff

\* chat returns or raises within timeout_seconds, and the back-off sleeps
\* are finite, so a call in progress always takes its next step.
Spec == Init /\ [][Next]_vars /\ WF_vars(Send \/ Backoff)
-----------------------------------------------------------------------------
(* Properties *)

Rows == [sequence : Nat, ordinal : 0 .. RetryCount,
         digest : TurnDigests \cup {ProbeDigest}, status : Statuses,
         noted : BOOLEAN, call : Nat]

\* Types of the state; attempt stays within the retry range of _one_turn.
TypeOK ==
    /\ pc \in {"idle", "sent", "backoff", "failed"}
    /\ error \in Errors
    /\ calls \in Seq({"turn", "probe"})
    /\ digest \in TurnDigests \cup {ProbeDigest}
    /\ attempt \in 0 .. RetryCount
    /\ sent \subseteq TurnDigests
    /\ ledger \in [logical : Nat, physical : Nat]
    /\ rows \in Seq(Rows)
    /\ sequence \in Nat
    /\ stored \in BOOLEAN

\* A turn is charged only after it was taken, so a refusal would throw away
\* an answer already paid for.  BudgetLedger.charge never refuses: the test
\* of the logical ceiling before the turn is enough for both ceilings.
ChargeNeverRefused == error # "budget"

\* The journal tells a retry from a new request by digest and status and
\* counts retries on its own; the loop counts attempts and has a status set
\* of its own; append and note_retry raise when the two disagree.  Whatever
\* payloads repeat, they disagree in one case only: the answer was final for
\* both, but its checkpoint failed, so chat left as an OSError and the loop
\* took it for a transport error.  note_retry then raises before that
\* request goes out again.
JournalAgreesWithLoop ==
    /\ error \notin {"journal_ceiling", "note_lacks_attempt", "note_drift"}
    /\ error = "note_after_terminal" => ~stored /\ LastRow.call = Len(calls)

\* SafeAttemptJournal.append groups rows into logical requests by guessing:
\* same digest after a retryable status.  The guess is right although the
\* continuations of a prefix open with byte-identical payloads: rows of two
\* calls never share a sequence number, rows of one turn always do.
SequencesFollowCalls ==
    \A i, j \in DOMAIN rows :
        /\ rows[i].sequence = rows[j].sequence => rows[i].call = rows[j].call
        /\ (rows[i].call = rows[j].call /\ calls[rows[i].call] = "turn")
             => rows[i].sequence = rows[j].sequence

\* A turn is resent only after a retryable answer whose row carries the
\* announced delay.  In particular an answer the provider gave, but whose
\* journal write failed, is never asked for a second time.
TurnResendsAccounted ==
    \A i, j \in DOMAIN rows :
        (i < j /\ rows[i].call = rows[j].call /\ calls[rows[i].call] = "turn")
          => rows[i].status \in JournalRetryable /\ rows[i].noted

\* What a turn charges as physical attempts is what the journal holds for
\* it: the last rows, all of this call, all but the last retryable.
ChargedAttemptsAreJournaled ==
    [][ledger'.physical > ledger.physical =>
         LET n == ledger'.physical - ledger.physical
             first == Len(rows') - n
         IN /\ \A i \in DOMAIN rows' :
                  (rows'[i].call = Len(calls)) <=> (i > first)
            /\ \A i \in first + 1 .. Len(rows') :
                  (rows'[i].status = "ok") <=> (i = Len(rows'))]_vars

\* Retries end: a call that was begun is answered or ends the run.
CallsSettle == pc \in {"sent", "backoff"} ~> pc \in {"idle", "failed"}

\* Retries, journal and probe implement the loop the runner relies on.
TurnsRefined == INSTANCE LogicalTurns WITH stopped <- pc = "failed"
RefinesLogicalTurns == TurnsRefined!Spec

\* The module's documentation: a provider 500 is retried like 502/503/504
\* while attempts remain.
ServerErrorsAreRetried ==
    (error = "refused" /\ LastRow.status = "server_500") => attempt = RetryCount
=============================================================================
