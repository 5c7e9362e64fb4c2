# A verification project for Do ≠ See

The repository runs a study: a model works on a small software task with tools;
one of its successful actions is withheld, replayed in several copies of its
workspace, silently spoiled in some of them, and the model decides in each copy
whether to submit. What the study may conclude depends on properties of the
runner that no single run shows: that the copies are equal where the design
says so, that evidence is true of what it speaks of, that decisions are final,
that nothing partial is published, that retries neither lose nor repeat paid
answers, that a journal survives a crash, and that the reports drawn from the
results count what they are named for. This directory states those properties
in TLA+, checks them with TLC on small instances and proves them with TLAPS for
every value of the constants; only the two liveness properties rest on TLC
alone.

All source paths below are under `src/src/dosee/`, all documents under
`src/docs/`.

## 1. The system

| Component | Code | State | Operations |
|---|---|---|---|
| Turn loop | `p9_ollama_loop.py` | request IDs seen | `_one_turn`: send, retry, back off, accept or raise; `run`: the one-call loop |
| Post-decision probe | `p9_prospective_runner.py` `_post_decision_probe` | none | one request with its own retry loop |
| Attempt journal | `p9_transport_resilience.py` | rows, logical request number, last digest; a temporary file and the checkpoint file | `append`, `note_retry`, `_write`, `audit_journal_file` |
| Budget | `p9_controller.py` `BudgetLedger` | turns, attempts | `charge` |
| Prefix runner | `p9_prospective_runner_v2.py` | histories, ledgers, pending calls, rows | `run`, `_run_continuation_v2`, `_execute_batch` |
| First runner | `p9_prospective_runner.py` `ProspectiveRunner` | the same, one call per turn | `run`, `_run_continuation` |
| Fork backend | `p9_prospective_runner.py`, `p12_fault_conditioned_runtime.py` | workspace copies, records | `evaluate_trigger`, `fork` |
| Observation adapter | `p9_prospective_runner.py` | observations rendered | `execute` |
| Renderers | `p9e_provenance_renderers.py`, `CONTINUATION_BINDINGS` | none | `validate_record`, what each level shows of a record |
| Tasks and oracles | `p11a_benchmark.py` | workspace contents | `prepare`, the tools, `proxy_oracle`, `target_oracle`, `audit_task` |
| Fault injectors | `p12_fault_injection.py` | workspace contents | `apply_external_fault`, `audit_fault_injection` |
| Workspace adapter | `p9_domain_adapters.py` | sequence, terminal decision, audit trail | `execute` for each tool |
| Command sandbox | `p9_sandbox.py` | none | `execute`, with a timeout |
| Registry and validation | `p9_controller.py`, `p9_runtime_factory.py` | the frozen registry | `validate`, the runner's pre-check |
| Dry-run controller | `p9_controller.py` | ledger, rows of one scripted task | `run_dry_task` |
| P9E contract and forks | `p9e_contract.py`, `p9e_filesystem_forks.py` | source tree, three copies, a recorded bundle | `create_filesystem_forks`, `validate_fork_bundle` |
| Operational gate | `p9_operational_gate.py` | none: a fold over rows | `load_operational_unit`, `audit_operational_slice` |
| Opportunity funnel | `p11b_opportunity_funnel.py` | none: a fold over results | `analyze_opportunity_funnel` |

**How they interact.** Everything runs in one thread per prefix, through calls.
The runner asks the loop for a turn; the loop sends the payload through
`transport.chat` (`OllamaCloudTransport`, or a wrapper of it that owns the
journal and is not in the repository); the journal writes a row for every
attempt and recomputes, from digests and statuses alone, which logical request
and which retry it belongs to, and replaces its checkpoint file. The runner
charges the turn afterwards. The calls of the answer are checked by the runner,
then executed one by one by an adapter that validates them again; in the common
prefix every mutating call is first tried in a throw-away copy and judged by
both oracles. The call that would make both true is the focal action: the
backend forks the workspace once per continuation, replays the action, injects
the fault and freezes a provenance record and a target truth. The continuations
then run one after another, each with its own ledger, loop and workspace; local
checks are answered from the frozen record, rendered at the continuation's
level after it is compared with the workspace as it is now. After the echo-L2
continuation comes the probe. The rows are published together or not at all,
and read by the funnel and the gate.

**What is hard.** The nondeterminism is in the provider (answers, refusals,
timeouts, identical payloads), in the model (any batch of calls, decisions in
the middle of a batch, links between workspaces), in the tools (killed between
two writes, not repeating their effect), in the disk under the journal and in
the process, which may die between two system calls. State is frozen at the
fork and used much later (records, target truth). Two components count the same
attempts independently (loop and journal), two oracles judge the same contents
at different times, three places validate the same call. `PROJECT.json` lists
each hazard at its line, with the properties that would catch it, or why none
does.

**What makes each component correct.**

- Turn loop and journal: retries end; the budget charged is what the journal
  holds; the journal never refuses what the loop does; logical request numbers
  follow the requests; an answer already given is not asked for again.
- Journal file: at its path there is never a torn or readable file; rows are
  only added, by one launch, and what a returned call stored stays.
- Runner: every turn is requested on a history without open tool calls, and the
  probe on one that leaves open only the calls its continuation's own
  `finalize_task` cut off; a paid turn is never refused, and a finished run is
  lost to a budget only if the plan gave the probe no turn; decisions are final;
  rows are published in the frozen order, all or none; every run ends.
- Tool boundary: what was checked is not refused later; what was judged is what
  runs; nothing else changes the common workspace; the audit trail accounts for
  every sequence number.
- Fork: copies with the same assignment are equal, faulted ones dangerous,
  verified ones healthy; a row's label holds of the contents submitted, where
  they are as frozen or a verified copy was measured last, or the run aborts.
- Evidence: what is rendered holds of the workspace at that moment, and what
  the continuations are shown differs by the design's contrasts only.
- Tasks and injectors: from whatever successful contents, the fault leaves the
  proxy positive and the target false; half-written contents trigger nothing.
- Funnel, gate, contract: a report or an acceptance means what it says, and
  results that the runner can produce are not refused.

## 2. Modules

| Module | Models |
|---|---|
| `BudgetLedger` | `BudgetLedger` as a record and its `charge`; no state of its own |
| `LogicalTurns` | abstract: what a loop of turns promises about its budget |
| `ToolTurns` | turn loop, probe and attempt journal over an unreliable provider and disk |
| `DurableJournal` | abstract: a journal that only grows and keeps what it acknowledged |
| `JournalFile` | the checkpoint file, system call by system call, under crashes and relaunches |
| `StudyContract` | abstract: what one prefix run promises to the study |
| `PrefixRun` | the second runner, the fork backend, the adapters and the evidence check |
| `ProspectiveRunner` | the first runner and `OllamaToolLoop.run` |
| `ToolBoundary` | validation, path containment, counterfactual, adapter audit; copies file by file with links |
| `TaskFamilies` | operators: the four tasks' contents, tools, oracles, injectors and audits |
| `TaskWorkspace` | one workspace under tool runs, kills, direct writes, trigger and fault |
| `Renderers` | operators: records, levels, bindings |
| `EvidenceRun` | the evidence of one forked prefix: records frozen, copies worked on, checks rendered |
| `DryRun` | the controller's scripted rehearsal of a task |
| `EcologicalFork` | the P9E forks over a source that may change, and the bundle contract |
| `OpportunityFunnel`, `OperationalGate` | the two folds over results |
| `StudyRecords` | what the study records and folds: the six subjects that share no state, side by side |
| `MCPrefixRun`, `MCTaskRun`, `MCTaskWorkspace`, `MCToolBoundary`, `MCStudyRecords` | instances for TLC |
| `BudgetLedgerProofs`, `ToolTurnsProofs`, `PrefixRunProofs`, `PrefixForkProofs`, `TaskWorkspaceProofs`, `JournalFileProofs`, `ToolBoundaryProofs`, `StudyRecordsProofs` | theorems |

`ToolTurns`, `PrefixRun`, `ProspectiveRunner` and `DryRun` extend
`BudgetLedger`; `EvidenceRun` and `DryRun` extend `Renderers`. `ToolTurns`
implements `LogicalTurns`, `PrefixRun` implements `StudyContract`, `JournalFile`
implements `DurableJournal`. `MCTaskRun` composes `PrefixRun` with
`TaskFamilies`: its workspaces are the contents of a real task, its verdicts the
task's oracles and its fault the task's injector. `PrefixRun` takes a turn as
one step that costs between one and `RetryCount`+1 attempts or raises;
`LogicalTurns`, which `ToolTurns` implements, is what justifies that.
`ToolTurns` takes a checkpoint as one step that succeeds or fails; `JournalFile`
opens that step. `PrefixRun` takes a call as one step on contents;
`ToolBoundary` opens the path a call takes to the files.

### ToolTurns

`calls` is the list of requests begun, `attempt`, `digest` and `pc` the place
inside `_one_turn` (or in the probe's loop), `rows` and `sequence` the journal,
`ledger` the loop's `BudgetLedger`, `sent` the payloads this loop has sent: a
loop's history only grows, so it repeats none, while the next loop may start
with any of them. `BeginTurn` is the runner's ceiling test and the request;
`AttemptRetried`, `AttemptRefused`, `AttemptMalformed` and `AttemptAnswered`
are one call of `transport.chat` with the journal's `append` inside it and the
loop's reaction after it; `NoteRetry` is `record_retry_delay` with
`note_retry`'s checks in their order. When the checkpoint fails, the row is in
memory and the loop sees a transport error. `JournalRefuses` is the ceiling
error of `append`; `JournalAgreesWithLoop` shows it is never taken.
`note_retry` can raise, in one case: the answer was final, its checkpoint
failed, and the loop, which saw an OSError, wants to send again. `error` keeps
which check raised, `stored` whether the last checkpoint was written, and the
property allows that case alone. `AttemptBreaks` is an exception of `chat` that
neither loop catches, as `http.client.IncompleteRead` is no OSError.

`OllamaCloudTransport.chat` is in the source; the wrapper that calls the
journal is not. It is modelled from what the loop and the journal require of
it, one `append` for each send that comes back and `note_retry` for each
announced delay; whether it appends an attempt that broke is left open.

### JournalFile

`Launches` are runs started one after another with the same journal path.
`Launch` is the constructor, which refuses an existing file and creates none;
`AppendRow` and `NoteRetry` change the rows in memory; `WriteTemporary`,
`ChmodTemporary`, `Replace` and `ChmodFile` are the system calls of `_write`, in
order. `TearTemporary` is a `write_bytes` that got part of the way, `CallRaises`
a system call that raised, `Stop` the end or death of the process, at any point.
`returned` is a history variable: what the last call that returned had in
memory.

### PrefixRun

`pc` is where `run` is: `prefork`, `fork` (one step per copy), `fork_audit`,
`arm` (a continuation), `closed`, `probe`, `audit`, then `published`,
`no_opportunity` or `failed`. `batch` holds the calls of the current message
not yet executed, `owed` how many tool calls of the current history have no
result; `pending` and `prefixOwed` are both as every continuation starts with
them. `forked` are the copies' contents when their records and labels were
frozen, `ws` their contents now, `common` the common workspace. Contents are
records with both verdicts. Tools may leave any contents. `standing` is a
history variable: whether a continuation's copy is as frozen, worked on, or
measured since. The plan's limits are any integers that add up, as the
constructor checks; a ledger that does not open is `error = "ceiling"`, one that
refuses a paid turn `"charge"`, and totals beyond the plan `"budget"`. A history
is represented by what it owes, a message by its batch. The audit trail, digests
and timestamps are left out: two digests are equal when the contents are.

`Replayable` says whether a call repeats its effect and its receipt. The code
can only hope so; with `FALSE` every replay may leave other contents, answer
another receipt or raise.

### ProspectiveRunner

The first runner, with `kind = "tool_loop"` for `OllamaToolLoop.run` alone. A
turn that carries anything but one valid call that succeeds raises, and so does
a continuation at its ceiling: `DecidedBeforeProbe` holds here, and is what the
second runner gave up (section 6, 2).

### ToolBoundary

`disk` has four sites: the common workspace, the counterfactual copy, the copy
of one continuation, and a file outside of all. A file may be a symbolic link,
made by a command, into the common workspace or out of it; `copytree` keeps
links as they are. `queue` holds the calls of the current message. `Reject` is a
recoverable validation error, `Refuse` a fatal one; `CopyCandidate` and `Judge`
are `evaluate_trigger`; `ExecuteCommon` runs a call that is not focal;
`CopyArm` and `ReplayFocal` are the fork of one continuation; `ExecuteArm` runs
in it. `cause` names the place an exception came from, which is what
`CheckedCallsComplete` is about. Writing a link is a command's doing; what else
a command may reach is the sandbox's business.

### TaskFamilies and TaskWorkspace

An artifact is a partial function from parts (archive entries, accounts,
routes) to how they compare with the trusted copy; contents add whether the
artifact parses, the size or version that is stated, and the status file. Sizes
in bytes are represented by the number of entries: the tools and the injector
write the fixed entries of the task, uncompressed, so fewer entries are fewer
bytes. `Stages` lists the contents after each write of a tool, which is where a
kill can fall: archives and routes are truncated and rewritten, the status
follows, the migration commits its column before its rows, and cannot add it
twice. SQLite rolls an interrupted transaction back, so the rows and the
version change together. `TaskWorkspace` runs these tools over and over in one
workspace, kills them anywhere, also between the last write and the exit, lets
the agent write files of its own, and after each call of the prefix applies the
trigger, the dangerous-action abort and the injector with its last check.

### Renderers, EvidenceRun and DryRun

A record is a function from fields to values; an identifier that is built from
another is a tuple that contains it, so that an unsafe character travels, and a
treatment label (`Marked`), which `render_observation` refuses to show: `Leaks`
asks it of the fields of a level. `Rendered(record, level)` is the restriction
of the record to the fields of the level, with `authorized` computed from three
of them at the last one. In `EvidenceRun` the agent leaves any contents in its
copy (`Work`) and asks for local checks at any time (`Check`, `CheckRaises`).
`DryRun` renders records of a task's texts (`fixture`) and decides by what they
show; the tool registry may refuse the trigger or a decision (`refuses`), and
its plans are accepted, or refused for their arithmetic, as the controller's
constructor does. Receipts cannot differ in a rehearsal: `run_dry_task`
overrides none.

### EcologicalFork

The three copies are made one after another while `Disturb` writes in the
source, and compared with the snapshot taken at first. The focal path may be a
link, which the copies follow. A bundle starts as the design wants it and
drifts: flags, digests, verdicts, payloads, classes, and ledgers of events with
orders the numbering does not promise; `Accepts` is `validate_fork_bundle`.

### OpportunityFunnel and OperationalGate

One action per envelope or row, with everything the code counts for it, then
the report or the audit. A result that the code refuses ends the analysis. The
funnel's results are sequences of trigger audits; the gate's rows carry a unit,
request IDs, turns, attempts, integrity and the quota or transport stop.

### StudyRecords

Six subjects share no state: the funnel, the gate, the evidence of a prefix, a
rehearsal, a run of the first runner, and the P9E forks. Every behaviour is one
of them, whose module is instanced (`Funnel`, `Gate`, `Evidence`, `Dry`,
`Runner`, `Ecological`) with the variables under names of its own, and the
variables of the others are `"off"`. What the code takes from plans and files
are constants: results, rows, plans, censuses, tasks, contents. Their
assumptions say what any such value is: a plan names finitely many models and
tasks (`StrataAssumption`), the counts of a row are integers, which
`load_operational_unit` makes them (`RowsAssumption`), a result's audits and
turns have their types (`ResultsAssumption`), the census is not empty
(`CensusAssumption`), the limits of a rehearsal's plan are integers, which the
controller makes them (`DryPlansAssumption`), and the literals the code puts in
records may stand in identifiers and hold no treatment label
(`UnsafeAssumption`). `MCStudyRecords` chooses the values for TLC.

## 3. Runs

TLC checks each run with two workers in a minute or less. Deadlock
checking is off in all of them because each system really ends (`published`,
`no_opportunity`, `failed`, `closed`, a report; a bound on the calls; a process
that stopped).

| Run | Instance | Shows |
|---|---|---|
| `turns_core` | 2 payloads, ceiling 2, 1 retry, 4 calls, probe, checkpoints may fail | types, budget, journal agreement, request numbers, resends, charges match rows, calls settle, `LogicalTurns` implemented |
| `journal` | 3 launches, 3 rows each | `JournalAlwaysAuditable`, and `DurableJournal` implemented, under crashes and failing calls |
| `prefix_core` | 3 continuations, 2 turns each, batches with parallel calls | types, negative prefix, fork never fails its own checks, histories answered before turns and probe, final decisions |
| `prefix_contract` | 3 continuations, 1 retry | a paid turn and a finished run are not lost to a budget, termination, `StudyContract` implemented |
| `prefix_drift` | calls that do not repeat their effect | labels hold of what is submitted, where nothing changed or the target was measured last, and rendered evidence is true, or the run aborts |
| `prefix_task` | six continuations on the migration task | copies with the same assignment match under the task's own injector; copies are isolated |
| `tasks` | all four tasks, kills between any writes and after the last, hand-written files | types, injector never misses, half-written contents decide nothing, completed reruns keep the proxy, audits pass |
| `boundary` | messages of calls of every kind, links into and out of the workspaces, 5 calls | checked calls complete, audit trails account for every number, only judged calls change the common workspace |
| `records` | the six subjects of `StudyRecords` | section below |
| `turns_server_error`, `prefix_probe`, `prefix_unmatched` | | disagreements between documents and code, section 6 |

The properties of `records`:

- `ReportTellsTheTruth` (funnel): every group narrows from prefixes to
  opportunities, models and tasks add up to the total, the flags hold of the
  prefixes. `NaturalResultsAccepted`: the funnel refuses no complete result of
  the natural-exposure study.
- `GateVerdictHolds` (gate): leaving out, repeating or exchanging a unit would
  have raised; a passing slice ran intact within its ceilings.
- `ContrastIsClean` (evidence): echo and erased at one level differ in polarity
  and source only, levels never contradict each other, the verified copies look
  like the echo below the level that tells them apart.
  `OnlyRequestIdSpoilsEvidence`: rendering raises for the provider's request ID
  only, with an unsafe character or a treatment label in it, the label only at a
  level that shows the ID, and never once a continuation has seen its evidence.
- `RehearsalFailsForCause` (dry run): the budget raises only if the plan's total,
  however split, is below the turns a rehearsal takes, and no such plan passes;
  records raise for the task's own texts only, the renderer contract never.
- `DecidedBeforeProbe` (first runner): no undecided continuation is probed or
  published.
- `ForksAreTheSourcePlusTheWrite` and `AcceptedBundleIdentifies` (P9E): forks
  are the original source plus the focal bytes or are not returned; in an
  accepted bundle the echo descends from the action and only the guard that
  sees classes separates the arms.

**Bounds.** Two payloads are enough for what the journal can confuse: a
repeated digest and a new one; four calls allow a turn, a second loop that
repeats its payload, a probe, and a turn after it. One retry gives the first
and last attempt the code tells apart, and a retry whose checkpoint failed; the
proofs hold for any number. Three launches allow one that
crashes before its file exists, one that leaves a file, and one that finds it;
three rows allow an append after an annotated and after an unannotated row.
Three continuations are one per source arm, in the frozen order, which includes
the probed one and an arm after it; `prefix_task` has the frozen six. Two turns
per continuation give a first turn, a next one after work, and the ceiling.
Contents are the three verdicts a workspace can have without the run aborting
or being uninteresting (neither, both, proxy only); `prefix_drift` doubles the
last two so that two replays can differ without changing their verdict. Five
calls allow a link to be made, the fork to happen, the link to be written
through in the copy, and a decision with a call after it. The records use two
models and two tasks with two envelopes (a group met again and one not met),
audits of up to two calls, two units in the gate, two steps per continuation in
the evidence, two drifts of a bundle (one field to be wrong and one to hide it).
A task of a rehearsal has one text that is unsafe or marked, or none; its plans
are tight, wide, and with a phase, or all of them, without a turn.
The first runner has three continuations, two turns each, and the smallest
total its plan allows. `MaxCalls`, `MaxRows`, `MaxSteps`, `MaxDrifts`,
`MaxEnvelopes`, `MaxUnits` and `Stamps` exist in the models only; the other
limits are the code's. `tasks` needs no bound on the number of tool runs: the
contents repeat.

**Fairness.** `ToolTurns` assumes weak fairness of a call in progress: `chat`
has a timeout and the back-off sleeps are finite; nothing is assumed about
turns being begun. `PrefixRun` assumes weak fairness of its next step: one
thread, every turn and every tool returns or raises within its timeout. Nothing
is assumed about answers being good or about the agent deciding. The other
modules state safety only and have no fairness; `JournalFile` could not promise
progress, since its process may die.

## 4. Proofs

All theorems hold for every value of the constants that satisfies the named
assumptions: any retry count and ceiling, any payload set, any census of
continuations, any batches, any contents with any injector, any results, rows
and bundles, any plan of integer limits whose `max_per_prefix` is the sum of
its parts (`ProspectiveController` refuses others), any size limit of at least
two entries, anything the agent writes, any number of launches, rows and calls.

**BudgetLedgerProofs.** A turn taken below the logical ceiling, when the
attempts so far are within (turns × (retries + 1)), can always be charged
(`ChargeAccepted`), and keeps them within. This is the non-linear step, proved
once from monotonicity of the product.

**ToolTurnsProofs.** `BudgetInv` adds to the types that a turn in progress
started below the ceiling and that attempts stay within the product;
it gives `TypeCorrect` and `ChargesAccepted`. `LoopRefined` maps every step to
a step of `LogicalTurns` or a stutter. `OrdinalInv` says that inside a call
the last row is the previous attempt of this very call, retryable, with the
ordinal the loop is at, and that a call about to make its first attempt cannot
continue the last row: between calls either the last row is final, or its
digest is another. That gives `JournalAgrees`; a row that is final can stand
before a back-off only if its checkpoint failed, which is the one case the
property allows. `GroupingInv` extends it to all
rows: rows of a call are consecutive, numbers never decrease, all but the last
row of a turn are retryable and annotated; `SequencesMatchCalls` and
`ResendsAccounted` follow. The first is the interesting one: six continuations
open with byte-identical payloads and the journal still tells them apart.
`CountInv` ties the two counters together: during a turn the last rows are its
attempts, as many as the loop has made, all of this call. So what a ledger is
charged when the turn ends is what the journal holds for it, which is
`ChargesJournaled`.

**JournalFileProofs**, for launches that do not overlap (`OneAtATime`).
`FileInv` says, step by step of a checkpoint, what the temporary file holds and
how private it is (`WriteProgress`), and that a live launch has in memory what
is stored, or more, and rows of its own only (`MemoryAhead`). Then a torn
temporary file is never the one renamed, whatever fails or dies, which is
`JournalKept`, and each rename extends the stored rows, which is
`JournalRefined`. `MemoryAhead` is what an invariant over the file alone lacks:
a launch that went on with an older memory would take rows back.

**ToolBoundaryProofs.** `InHandInv` says what is known of the call between its
pre-check and its result: it passed every validation, the copy it is judged in
equals the common workspace, and once judged it names no link there. So the
judged call writes in place and has the same effect again. From it come
`CallsComplete` (the registry, the adapter and the executor agree, and a judged
call does not raise where it runs for good) and `CommonIsJudged`. The trap is
the link: it points at the common workspace by its absolute path and is copied
as it is, and only the containment check keeps a write in a copy from coming
back. `TrailInv` says of each adapter that its sequence exceeds its entries by
the missing files answered, plus one for the call that raised; `TrailComplete`
follows for any number of calls.

**PrefixRunProofs.** `ControlInv` is types, the number of copies at each
control point, the order in which continuations settle, and the debt: while a
history is open, the calls without a result are exactly those left in `batch`,
and at the fork exactly the pending ones. A continuation that decides leaves its
batch behind, and the probe finds what it left. `TypeCorrect` and
`HistoriesAnswered` follow. `SpendingInv` says how many loops are closed at each
control point and that the totals are within their shares of the plan, and
`PlanInv` that a loop is only entered with a ledger that opened;
`BudgetsAlwaysSuffice` follows with the plan's arithmetic, for limits of zero or
below as well.

**PrefixForkProofs.** `ForkInv` says what the fork establishes. The call that
triggered left contents that pass both oracles (`FocalInv`); copy i was frozen
after its checks, a faulted one dangerous, and, when calls repeat their effect,
holds the focal contents or their fault (`FrozenInv`); the copies of the
continuations to come are still as they were frozen, and every audited label is
its assignment (`AuditedInv`). From it come `PrefixNegative`, `ForkSucceeds`
(the checks of the fork never fail when calls repeat their effect and the
injector works) and `CopiesIsolated`. `StandingInv` follows a copy from the
fork to the decision: as it was frozen it has the frozen contents, and a
verified one that was measured last has its target; with the audited labels
that gives `LabelsHold`. The invariant has to speak of `focal`: the frozen
verdicts alone would allow two dangerous copies that differ. `MatchedContrast`
states the design's contrast under `Replayable`: the copies that the fault was
injected in were frozen with equal, dangerous contents, the others with equal,
healthy ones; without that hypothesis it is false, which section 6, 3 shows.
`DecisionsStand` and `EvidenceTrue` are action properties and need of the state
only which continuation may act, which `ControlInv` has. `ImplementsContract`
is the refinement of `StudyContract`: phase and decisions are read off the
state, and each of the runner's actions is a step of the contract or changes
nothing it speaks of.

**TaskWorkspaceProofs.** `InjectorSound`: any contents that pass both oracles
are turned into contents that pass the proxy and fail the target, by cases over
the four injectors. It needs cardinalities of the archives because the proxy
compares sizes. `GatesPass` computes the audits symbolically. `InjectionSafe`
and `TypeCorrect` lift both to every reachable workspace. `RunsInv` is an
invariant over the contents that tools alone reach, runs and kills in any
order: in a prefix, the status file does not say what the proxy compares until
a tool's last write, after which the proxy passes and the call ends the prefix,
whether it exits or is killed before it can; so a call that did not make all
its writes neither triggers nor aborts (`HalfWrittenIdle`); in a copy, whatever
killed runs left, a run that completes passes the proxy, and the migration,
which fails at its first write when its column exists, leaves a copy as it is
(`ToolsKeepProxy`). It speaks of every half-written content at once, because
the next run starts on what the last one left.

**StudyRecordsProofs** has one inductive invariant per subject, and its steps
need no other subject.

- `RunnerInv`: past its loop a row is decided (`ProbesDecided`).
- `ForkInv`: a copy is its snapshot with the focal bytes in the focal file, and
  a fork that returned compared every snapshot with the first (`ForksHold`); an
  accepted bundle is one `Accepts` accepts (`AcceptanceIdentifies`, which opens
  the contract's checks on arbitrary ledgers of events).
- `DryInv`: rows are the plan's bindings, rendered, in order, and the ledger
  holds one turn for the fork, one for every row and one for the probe, never
  more than the plan's total; the parts of a record are the code's or the task's
  (`RehearsalsFailForCause`).
- `EvidenceInv`: what a copy may have shown is the rendering of the record that
  was frozen for it, whatever the agent did since, and that record is valid and
  leaks no label at its level. `ContrastsClean` is then a fact about two records
  of one focal action, `EvidenceSpoils` about the parts of one.
- `GateInv`: loaded rows are loadable, and a verdict is on a slice that passed
  every check that raises (`VerdictsHold`).
- `FunnelInv`: every group of counts is a census (it narrows, from prefixes to
  opportunities), and models and tasks add up to the total (`ReportTrue`,
  `NaturalNotRefused`).

The last two need sums. A fold of the community modules is a recursive function
on the subsets of a set, and before anything can be said of its values it must
be shown to have any. The section *Sums* does this without the library's
induction theorems: a set of counter-examples would have a least cardinality
(`Least`), so a property that passes from a part to the part with one element
more holds of every part of a finite set (`PartByPart`). It gives that such a
sum exists, is unique, grows by what one of its terms grows, and compares as
its terms do (`SumExists`, `SumUnique`, `SumPlus`, `SumMonotone`); `StrataSum`,
`LeftSum` and `RowSums` say that the funnel's and the gate's folds are such
sums.

**Only model-checked.** The two liveness properties, `CallsSettle` of
`ToolTurns` and `Terminates` of `PrefixRun`: the installed provers do not treat
fairness. The proofs also say nothing of the joint instance `MCTaskRun`:
`prefix_task` checks that a real task's oracles and injector fit the runner, and
the two halves of that are theorems, `MatchedContrast` for any contents and
`InjectorSound` for the real ones.

## 5. Assumptions worth knowing

- A copy of a workspace has its contents and its links (`copytree`), and a
  digest tells contents apart.
- A crash is the end of a process: what it handed to the operating system
  stays. `_write` has no `fsync`, so nothing is said of a machine that loses
  power.
- Launches with one journal path do not overlap. The constructor looks at the
  path and the first attempt creates the file, so of two that overlap both pass
  and the later replaces the earlier one's file (`p9_transport_resilience.py:185`;
  with `Overlap = TRUE`, `ReturnedRowsAreStored` fails). Nothing in the
  repository starts two.
- The injector is applied in `PrefixRun` as a function on contents. That it is
  one that works is a hypothesis of `ForkNeverFails`, discharged for the real
  tasks by `InjectorSound`.
- `PrefixStaysNegative` and `MatchedFaultedState` are about calls that repeat
  their effect. The two runs with `Replayable = FALSE` show what is left
  without that.
- An injector writes through what the agent built. If the agent left the status
  file read-only, or declared the migrated column `NOT NULL`, the injector
  raises and the run ends (`FaultRaises`); which contents refuse the write is
  not modelled, so `InjectionNeverMisses` and `InjectorSound` speak of injectors
  that could write.
- An archive with an entry twice counts one part more than it should have; a
  corrupt entry is a part in state `other`.
- An oracle that meets contents it cannot judge (a status file holding a list)
  raises, which is one of the failures of a tool call.

## 6. Where documents and code disagree

Each is the counterexample of a run and is listed in `PROJECT.json` with the
quoted line.

1. `turns_server_error`: the probe does not retry HTTP 500, which the runner's
   documentation puts with 502, 503 and 504.
2. `prefix_probe`: the probe is sent to an echo-L2 continuation that never
   finalised, and whose decision is a hold by default.
3. `prefix_unmatched`: echo and erased copies may differ after the fault when
   the focal action does not repeat its effect with an identical receipt.

Remarks met while modelling, without a run of their own:

- The probe resends without announcing a back-off
  (`p9_prospective_runner.py:239`); the journal's rows of such attempts are not
  annotated, and `TurnResendsAccounted` is about turns only.
- A continuation that repairs its target before it submits is counted as a false
  approval: the label is the one frozen at the fork
  (`p9_prospective_runner_v2.py:406`); `LabelHoldsAtSubmission` says for which
  rows it cannot be out of date.
- The probe may be sent on a history with tool calls that have no result: those
  after a `finalize_task` in the middle of a batch
  (`p9_prospective_runner_v2.py:172`, `:385`).
- The constructor accepts a plan that gives the probe no turn; the probe is sent
  all the same, and a finished run is then thrown away at the totals
  (`p9_prospective_runner_v2.py:447`).
- The rehearsal charges one total and does not look at the phases: a plan that
  gives the common prefix no turn passes it, if the total is large enough, and
  the real run's ledger refuses to open.
- A request ID with a treatment label in it (`p9e_provenance_renderers.py:109`)
  goes unnoticed at the level that does not show it: the run is lost at a later
  continuation.
- A call killed after its last write and before its exit is reported as timed
  out, and may be the focal action: its receipt is then the immediate receipt of
  all continuations (`p9_sandbox.py:144`).
- The docstring at `p9_prospective_runner_v2.py:80` says one safe observation for
  the absolute-path rule and that all other schema failures remain fatal; the
  code answers schema mismatches, too. `ToolBoundary` follows the code.
- `FrozenToolRegistryV2` does not apply `trusted_oracle_roots_visible_to_tools`,
  which the first registry does (`p9_controller.py:292`).
- In the dry run the evidence ID names the arm, and an erased copy's operation
  ID at the lineage level names its arm too; `ContrastIsClean` lists the latter
  among the allowed differences.
- `validate_fork_bundle` never compares the shown payload with
  `observed_positive` (`p9e_contract.py:279`): a bundle whose payloads have the
  opposite polarity throughout is accepted, and the observation-only policy
  then proposes approval of the erased arm only. It also takes a later read by
  the agent itself, without an observation, for the echo's path
  (`p9e_contract.py:216`).
- The gate truncates turn counts with `int()` (`p9_operational_gate.py:82`) and
  never compares the number of request IDs with the turns they belong to.
- `audit_filesystem_forks` compares the digests that were recorded once more; it
  cannot see a copy that changed since.

## 7. Not modelled

The AppWorld and iterative-ML task families (no public run uses them), the
sandbox profile (text for the operating system), the walk through a tool's JSON
schema (one Boolean, `conforms`), `task_fixtures` and the audit that calls the
rehearsal on fixed fixtures, `validate_persistence_control` (a conjunction over
one record), reading and writing of configuration, the plan, schedule and
registry data, the preflight report, figures. The wrapper
of the transport that calls the journal is not in the repository and is modelled
from how it is used. The reasons are in
`PROJECT.json`, component by component.

## 8. Plan

The modules are written, and what the runs check is proved except for liveness.
What could be added, most important first:

1. The composition as a theorem: `PrefixRun` over the contents of each of the
   four tasks, its hypotheses about the injector and the oracles discharged by
   `InjectorSound` and `GatesPass`, so that `ForkSucceeds` and
   `MatchedContrast` speak of the tasks and not of any contents.
2. What the abstract specifications promise, proved from them and carried to
   the modules that implement them: `StudyContract`, `LogicalTurns`,
   `DurableJournal`.
3. That a turn of `PrefixRun`, taken as one step, is one that `LogicalTurns`
   allows.
4. The hazards without a property (`PROJECT.json`): an oracle that raises on
   contents it cannot judge, contents an injector cannot write, and a request ID
   repeated between two loops.
