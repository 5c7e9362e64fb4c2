---------------------------- MODULE JournalFile -----------------------------
(***************************************************************************)
(* SafeAttemptJournal on disk: the checkpoint written after every append   *)
(* and every note_retry, launches that crash between any two system calls, *)
(* system calls that raise OSError, and launches that find the journal of  *)
(* an earlier one at their path.                                           *)
(*                                                                         *)
(* Which attempts are appended, and how they are numbered, is the business *)
(* of ToolTurns; a row is here the launch that made it and whether its     *)
(* retry was annotated.  A crash is the end of the process: what it handed *)
(* to the operating system stays.                                          *)
(***************************************************************************)
EXTENDS Naturals, Sequences, SequencesExt

CONSTANTS
    Launches,   \* runs started with the same journal path
    Overlap,    \* may a run be started while another one is alive?
    MaxRows     \* bound: attempts of one launch

ASSUME JournalFileAssumption == Overlap \in BOOLEAN /\ MaxRows \in Nat

VARIABLES
    pc,         \* where each launch is, see WriteSteps
    attempts,   \* SafeAttemptJournal.attempts of each launch
    temporary,  \* the file .<name>.tmp next to the journal
    file,       \* the file at the journal's path
    returned    \* history: what the last call that returned had in memory

vars == <<pc, attempts, temporary, file, returned>>

NoFile ==
    [exists |-> FALSE, rows |-> << >>, whole |-> FALSE, private |-> FALSE]
FileWith(rows, whole, private) ==
    [exists |-> TRUE, rows |-> rows, whole |-> whole, private |-> private]

WriteSteps == {"write", "chmod_temporary", "replace", "chmod_file"}
Alive(l) == pc[l] \in WriteSteps \cup {"idle"}

Goto(l, place) == pc' = [pc EXCEPT ![l] = place]

Init ==
    /\ pc = [l \in Launches |-> "waiting"]
    /\ attempts = [l \in Launches |-> << >>]
    /\ temporary = NoFile
    /\ file = NoFile
    /\ returned = << >>

-----------------------------------------------------------------------------
\* (mutant) a restarted run takes the journal it finds for its own
LaunchAnyway(l) ==
    /\ pc[l] = "waiting"
    /\ Overlap \/ \A other \in Launches : ~Alive(other)
    /\ Goto(l, "idle")
    /\ UNCHANGED <<attempts, temporary, file, returned>>

\* The constructor looks for the path and refuses an existing journal.  It
\* creates nothing: the file appears with the first attempt.
Launch(l) ==
    /\ pc[l] = "waiting"
    /\ Overlap \/ \A other \in Launches : ~Alive(other)
    /\ Goto(l, IF file.exists THEN "refused" ELSE "idle")
    /\ UNCHANGED <<attempts, temporary, file, returned>>

\* append: the row is in memory before anything is written.
AppendRow(l) ==
    /\ pc[l] = "idle"
    /\ Len(attempts[l]) < MaxRows
    /\ attempts' = [attempts EXCEPT
                      ![l] = Append(@, [launch |-> l, noted |-> FALSE])]
    /\ Goto(l, "write")
    /\ UNCHANGED <<temporary, file, returned>>

Annotated(s) == [s EXCEPT ![Len(s)] = [@ EXCEPT !.noted = TRUE]]

\* note_retry changes the last row in place, then writes.
NoteRetry(l) ==
    /\ pc[l] = "idle"
    /\ attempts[l] # << >>
    /\ ~Last(attempts[l]).noted
    /\ attempts' = [attempts EXCEPT ![l] = Annotated(@)]
    /\ Goto(l, "write")
    /\ UNCHANGED <<temporary, file, returned>>

-----------------------------------------------------------------------------
(* _write: mkdir and chmod of the directory, write_bytes, chmod, replace,  *)
(* chmod.  Memory does not change meanwhile: the snapshot is what it holds *)

\* A new file has the permissions of the umask; an old one keeps its own.
KeptMode(old) == old.exists /\ old.private

\* (mutant) the journal is written in place
WriteInPlace(l) ==
    /\ pc[l] = "write"
    /\ file' = FileWith(attempts[l], TRUE, KeptMode(file))
    /\ Goto(l, "chmod_file")
    /\ UNCHANGED <<attempts, temporary, returned>>

WriteTemporary(l) ==
    /\ pc[l] = "write"
    /\ temporary' = FileWith(attempts[l], TRUE, KeptMode(temporary))
    /\ Goto(l, "chmod_temporary")
    /\ UNCHANGED <<attempts, file, returned>>

\* write_bytes truncates, then writes: it may raise, and the process may then
\* die, with a part of the snapshot written.
TearTemporary(l) ==
    /\ pc[l] = "write"
    /\ temporary' = FileWith(<< >>, FALSE, KeptMode(temporary))
    /\ Goto(l, "idle")
    /\ UNCHANGED <<attempts, file, returned>>

ChmodTemporary(l) ==
    /\ pc[l] = "chmod_temporary"
    /\ temporary.exists
    /\ temporary' = [temporary EXCEPT !.private = TRUE]
    /\ Goto(l, "replace")
    /\ UNCHANGED <<attempts, file, returned>>

Replace(l) ==
    /\ pc[l] = "replace"
    /\ temporary.exists
    /\ file' = temporary
    /\ temporary' = NoFile
    /\ Goto(l, "chmod_file")
    /\ UNCHANGED <<attempts, returned>>

\* The last system call of _write; then append or note_retry returns.
ChmodFile(l) ==
    /\ pc[l] = "chmod_file"
    /\ file' = [file EXCEPT !.private = TRUE]
    /\ returned' = attempts[l]
    /\ Goto(l, "idle")
    /\ UNCHANGED <<attempts, temporary>>

\* A system call raises OSError and has done nothing.  The row stays in
\* memory; the caller makes another attempt or stops.
CallRaises(l) ==
    /\ pc[l] \in WriteSteps
    /\ Goto(l, "idle")
    /\ UNCHANGED <<attempts, temporary, file, returned>>

\* The run ends, or its process dies between two system calls: what it had in
\* memory is gone.
Stop(l) ==
    /\ Alive(l)
    /\ Goto(l, "stopped")
    /\ attempts' = [attempts EXCEPT ![l] = << >>]
    /\ UNCHANGED <<temporary, file, returned>>

WriteStep(l) ==
    \/ WriteTemporary(l)
    \/ TearTemporary(l)
    \/ ChmodTemporary(l)
    \/ Replace(l)
    \/ ChmodFile(l)
    \/ CallRaises(l)

Next ==
    \E l \in Launches :
        \/ Launch(l)
        \/ AppendRow(l)
        \/ NoteRetry(l)
        \/ WriteStep(l)
        \/ Stop(l)

Spec == Init /\ [][Next]_vars
-----------------------------------------------------------------------------
(* audit_journal_file *)

AuditPasses(f) == f.private /\ f.whole

StoredRows == IF file.exists /\ file.whole THEN file.rows ELSE << >>

-----------------------------------------------------------------------------
(* Properties *)

Rows == [launch : Launches, noted : BOOLEAN]
Files ==
    [exists : BOOLEAN, rows : Seq(Rows), whole : BOOLEAN, private : BOOLEAN]

\* Types of the state.  When launches do not overlap, chmod and replace find
\* the temporary file where the step before them left it.
TypeOK ==
    /\ pc \in [Launches ->
                 WriteSteps \cup {"waiting", "refused", "idle", "stopped"}]
    /\ attempts \in [Launches -> Seq(Rows)]
    /\ temporary \in Files
    /\ file \in Files
    /\ returned \in Seq(Rows)
    /\ \A l \in Launches :
         pc[l] \in {"chmod_temporary", "replace"} => temporary.exists

\* Whenever a process dies or a system call fails, the journal at its path is
\* absent, or complete and private: audit_journal_file never meets a torn or
\* readable file (SafeAttemptJournal._write).
JournalAlwaysAuditable == file.exists => AuditPasses(file)

Durable == INSTANCE DurableJournal WITH stored <- StoredRows

\* The checkpoints implement a journal that is only extended, never by two
\* launches, and that holds what its callers were told (append, note_retry
\* and the constructor's refusal).
RefinesDurableJournal == Durable!Spec

\* "refusing to overwrite P9 transport journal" (SafeAttemptJournal.__init__):
\* what a call that returned has stored is still there.
ReturnedRowsAreStored == Durable!Extends(StoredRows, returned)
=============================================================================
