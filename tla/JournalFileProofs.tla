------------------------- MODULE JournalFileProofs --------------------------
(***************************************************************************)
(* What the checkpoint file guarantees when launches do not overlap, for   *)
(* any number of launches and of attempts.                                 *)
(***************************************************************************)
EXTENDS JournalFile, SequenceTheorems, TLAPS

OneAtATime == Overlap = FALSE

\* At most one launch is alive: the others never write.
Alone == \A l, m \in Launches : Alive(l) /\ Alive(m) => l = m

\* How far the live launch has come with its checkpoint.
WriteProgress ==
    \A l \in Launches :
        /\ pc[l] = "chmod_temporary" =>
             /\ temporary.exists /\ temporary.whole
             /\ temporary.rows = attempts[l]
        /\ pc[l] = "replace" => temporary = FileWith(attempts[l], TRUE, TRUE)
        /\ pc[l] = "chmod_file" => file.exists /\ file.rows = attempts[l]

\* A live launch has in memory what is stored, or more, and only rows of its
\* own.
MemoryAhead ==
    \A l \in Launches : Alive(l) =>
        /\ Durable!Extends(attempts[l], StoredRows)
        /\ \A i \in DOMAIN attempts[l] : attempts[l][i].launch = l

\* A launch that has not begun has nothing in memory.
Unused == \A l \in Launches : pc[l] = "waiting" => attempts[l] = << >>

Types ==
    /\ pc \in [Launches ->
                 WriteSteps \cup {"waiting", "refused", "idle", "stopped"}]
    /\ attempts \in [Launches -> Seq(Rows)]
    /\ temporary \in Files
    /\ file \in Files
    /\ returned \in Seq(Rows)

FileInv ==
    /\ Types
    /\ Alone
    /\ JournalAlwaysAuditable
    /\ WriteProgress
    /\ MemoryAhead
    /\ Unused
    /\ ReturnedRowsAreStored

-----------------------------------------------------------------------------
\* An appended or annotated list extends what the old one extended.
LEMMA AppendExtends ==
  ASSUME NEW l \in Launches, NEW s \in Seq(Rows), NEW t \in Seq(Rows),
         Durable!Extends(s, t), \A i \in DOMAIN s : s[i].launch = l
  PROVE  LET longer == Append(s, [launch |-> l, noted |-> FALSE])
         IN /\ longer \in Seq(Rows)
            /\ Durable!Extends(longer, t)
            /\ \A i \in DOMAIN longer : longer[i].launch = l
  BY DEF Durable!Extends, Rows

LEMMA NoteExtends ==
  ASSUME NEW l \in Launches, NEW s \in Seq(Rows), NEW t \in Seq(Rows),
         s # << >>,
         Durable!Extends(s, t), \A i \in DOMAIN s : s[i].launch = l
  PROVE  /\ Annotated(s) \in Seq(Rows)
         /\ Durable!Extends(Annotated(s), t)
         /\ \A i \in DOMAIN Annotated(s) : Annotated(s)[i].launch = l
<1> DEFINE row == [s[Len(s)] EXCEPT !.noted = TRUE]
<1>1. Len(s) \in 1 .. Len(s)
  BY EmptySeq
<1>2. s[Len(s)] \in Rows
  BY <1>1, ElementOfSeq
<1>3. row \in Rows /\ row.launch = s[Len(s)].launch /\ row.noted
  BY <1>2 DEF Rows
<1>4. Annotated(s) = [s EXCEPT ![Len(s)] = row]
  BY DEF Annotated
<1>5. /\ Annotated(s) \in Seq(Rows)
      /\ Len(Annotated(s)) = Len(s)
      /\ \A j \in 1 .. Len(s) :
           Annotated(s)[j] = IF j = Len(s) THEN row ELSE s[j]
  BY <1>1, <1>3, <1>4, ExceptSeq
<1>6. DOMAIN Annotated(s) = DOMAIN s /\ DOMAIN s = 1 .. Len(s)
  BY <1>5
<1>7. \A j \in DOMAIN s : /\ Annotated(s)[j].launch = s[j].launch
                          /\ s[j].noted => Annotated(s)[j].noted
  BY <1>3, <1>5, <1>6
<1>8. \A j \in DOMAIN t : j \in DOMAIN s
  BY DEF Durable!Extends
<1> QED
  BY <1>5, <1>6, <1>7, <1>8 DEF Durable!Extends

LEMMA ExtendsItself ==
  ASSUME NEW l \in Launches, NEW s \in Seq(Rows),
         \A i \in DOMAIN s : s[i].launch = l
  PROVE  Durable!Extends(s, s)
  BY DEF Durable!Extends

LEMMA ExtendsTwice ==
  ASSUME NEW r \in Seq(Rows), NEW s \in Seq(Rows), NEW t \in Seq(Rows),
         Durable!Extends(r, s), Durable!Extends(s, t)
  PROVE  Durable!Extends(r, t)
  BY DEF Durable!Extends

LEMMA StoredTyped == ASSUME Types PROVE StoredRows \in Seq(Rows)
  BY DEF Types, StoredRows, Files, NoFile

-----------------------------------------------------------------------------
LEMMA FileInvInit == Init => FileInv
  BY DEF Init, FileInv, Types, Alone, JournalAlwaysAuditable, WriteProgress,
     MemoryAhead, Unused, ReturnedRowsAreStored, Alive, WriteSteps, StoredRows,
     NoFile, Files, Rows, Durable!Extends

LEMMA FileInvStep ==
  ASSUME OneAtATime PROVE FileInv /\ [Next]_vars => FileInv'
<1> SUFFICES ASSUME FileInv, [Next]_vars PROVE FileInv'
  OBVIOUS
<1>t. /\ Types /\ Alone /\ JournalAlwaysAuditable /\ WriteProgress
      /\ MemoryAhead /\ Unused /\ ReturnedRowsAreStored
      /\ StoredRows \in Seq(Rows)
  BY StoredTyped DEF FileInv
<1>1. CASE UNCHANGED vars
  BY <1>t, <1>1 DEF FileInv, vars, Types, Alone, JournalAlwaysAuditable,
     WriteProgress, MemoryAhead, Unused, ReturnedRowsAreStored, Alive, StoredRows
<1>2. ASSUME NEW l \in Launches, Launch(l) PROVE FileInv'
  <2>1. Types' /\ Alone'
    BY <1>t, <1>2
    DEF OneAtATime, Launch, Goto, Types, Alone, Alive, WriteSteps
  <2>2. StoredRows' = StoredRows /\ JournalAlwaysAuditable'
    BY <1>t, <1>2 DEF Launch, StoredRows, JournalAlwaysAuditable
  <2>3. ReturnedRowsAreStored'
    BY <1>t, <1>2, <2>2 DEF Launch, ReturnedRowsAreStored
  <2>4. WriteProgress'
    BY <1>t, <1>2 DEF Launch, Goto, Types, WriteProgress
  <2>5. MemoryAhead'
    <3>1. SUFFICES ASSUME NEW m \in Launches, Alive(m)'
                   PROVE  /\ Durable!Extends(attempts[m], StoredRows)
                          /\ \A i \in DOMAIN attempts[m] :
                                attempts[m][i].launch = m
      BY <1>2, <2>2 DEF Launch, MemoryAhead
    <3>2. CASE m = l
      <4>1. ~file.exists
        BY <1>t, <1>2, <3>1, <3>2 DEF Launch, Goto, Types, Alive, WriteSteps
      <4>2. attempts[l] = << >> /\ StoredRows = << >>
        BY <1>t, <1>2, <4>1 DEF Unused, Launch, StoredRows
      <4> QED
        BY <3>2, <4>2 DEF Durable!Extends
    <3>3. CASE m # l
      <4>1. Alive(m)
        BY <1>t, <1>2, <3>1, <3>3 DEF Launch, Goto, Types, Alive
      <4> QED
        BY <1>t, <4>1 DEF MemoryAhead
    <3> QED
      BY <3>2, <3>3
  <2>6. Unused'
    BY <1>t, <1>2 DEF Launch, Goto, Types, Unused
  <2> QED
    BY <2>1, <2>2, <2>3, <2>4, <2>5, <2>6 DEF FileInv
<1>3. ASSUME NEW l \in Launches, AppendRow(l) PROVE FileInv'
  <2>1. Types' /\ Alone' /\ Unused' /\ WriteProgress' /\ StoredRows' = StoredRows
    <3>1. Append(attempts[l], [launch |-> l, noted |-> FALSE]) \in Seq(Rows)
      BY <1>t, AppendProperties DEF Types, Rows
    <3> QED
      BY <1>t, <1>3, <3>1 DEF AppendRow, Goto, Types, Alone, Alive, WriteSteps,
         Unused, WriteProgress, StoredRows
  <2>2. /\ Durable!Extends(attempts'[l], StoredRows)
        /\ \A i \in DOMAIN attempts'[l] : attempts'[l][i].launch = l
    <3>1. Alive(l) /\ attempts[l] \in Seq(Rows)
      BY <1>t, <1>3 DEF AppendRow, Alive, Types
    <3>2. attempts'[l] = Append(attempts[l], [launch |-> l, noted |-> FALSE])
      BY <1>t, <1>3 DEF AppendRow, Types
    <3>3. /\ Durable!Extends(attempts[l], StoredRows)
          /\ \A i \in DOMAIN attempts[l] : attempts[l][i].launch = l
      BY <1>t, <3>1 DEF MemoryAhead
    <3> QED
      BY <1>t, <3>1, <3>2, <3>3, AppendExtends
  <2>3. MemoryAhead'
    <3>1. ASSUME NEW m \in Launches, Alive(m)', m # l
          PROVE  Alive(m) /\ attempts'[m] = attempts[m]
      BY <1>t, <1>3, <3>1 DEF AppendRow, Goto, Types, Alive
    <3> QED
      BY <1>t, <2>1, <2>2, <3>1 DEF MemoryAhead
  <2> QED
    BY <1>t, <1>3, <2>1, <2>3
    DEF AppendRow, FileInv, JournalAlwaysAuditable, ReturnedRowsAreStored
<1>4. ASSUME NEW l \in Launches, NoteRetry(l) PROVE FileInv'
  <2>1. Alive(l) /\ attempts[l] \in Seq(Rows) /\ attempts[l] # << >>
    BY <1>t, <1>4 DEF NoteRetry, Alive, Types
  <2>2. /\ Annotated(attempts[l]) \in Seq(Rows)
        /\ Durable!Extends(Annotated(attempts[l]), StoredRows)
        /\ \A i \in DOMAIN Annotated(attempts[l]) :
             Annotated(attempts[l])[i].launch = l
    BY <1>t, <2>1, NoteExtends DEF MemoryAhead
  <2>3. attempts'[l] = Annotated(attempts[l])
    BY <1>t, <1>4 DEF NoteRetry, Types
  <2>4. Types' /\ Alone' /\ Unused' /\ WriteProgress' /\ StoredRows' = StoredRows
    BY <1>t, <1>4, <2>2 DEF NoteRetry, Goto, Types, Alone, Alive, WriteSteps,
       Unused, WriteProgress, StoredRows
  <2>5. MemoryAhead'
    BY <1>t, <1>4, <2>2, <2>3, <2>4
    DEF NoteRetry, Goto, Types, MemoryAhead, Alive, Alone
  <2> QED
    BY <1>t, <1>4, <2>4, <2>5
    DEF NoteRetry, FileInv, JournalAlwaysAuditable, ReturnedRowsAreStored
<1>5. ASSUME NEW l \in Launches, WriteTemporary(l) PROVE FileInv'
  <2>1. Types' /\ Alone' /\ Unused' /\ WriteProgress' /\ StoredRows' = StoredRows
    BY <1>t, <1>5 DEF WriteTemporary, FileWith, KeptMode, Goto, Types, Files,
       Alone, Alive, WriteSteps, Unused, WriteProgress, StoredRows
  <2> QED
    BY <1>t, <1>5, <2>1 DEF WriteTemporary, Goto, Types, FileInv, MemoryAhead,
       Alive, WriteSteps, JournalAlwaysAuditable, ReturnedRowsAreStored
<1>6. ASSUME NEW l \in Launches, TearTemporary(l) PROVE FileInv'
  <2>1. << >> \in Seq(Rows)
    BY EmptySeq
  <2>2. Types' /\ Alone' /\ Unused' /\ WriteProgress' /\ StoredRows' = StoredRows
    BY <1>t, <1>6, <2>1 DEF TearTemporary, FileWith, KeptMode, Goto, Types,
       Files, Alone, Alive, WriteSteps, Unused, WriteProgress, StoredRows
  <2> QED
    BY <1>t, <1>6, <2>2 DEF TearTemporary, Goto, Types, FileInv, MemoryAhead,
       Alive, WriteSteps, JournalAlwaysAuditable, ReturnedRowsAreStored
<1>7. ASSUME NEW l \in Launches, ChmodTemporary(l) PROVE FileInv'
  <2>1. Types' /\ Alone' /\ Unused' /\ WriteProgress' /\ StoredRows' = StoredRows
    BY <1>t, <1>7 DEF ChmodTemporary, FileWith, Goto, Types, Files, Alone,
       Alive, WriteSteps, Unused, WriteProgress, StoredRows
  <2> QED
    BY <1>t, <1>7, <2>1 DEF ChmodTemporary, Goto, Types, FileInv, MemoryAhead,
       Alive, WriteSteps, JournalAlwaysAuditable, ReturnedRowsAreStored
<1>8. ASSUME NEW l \in Launches, Replace(l) PROVE FileInv'
  <2>1. /\ file' = FileWith(attempts[l], TRUE, TRUE)
        /\ StoredRows' = attempts[l]
        /\ UNCHANGED <<attempts, returned>>
    BY <1>t, <1>8 DEF Replace, WriteProgress, FileWith, StoredRows
  <2>2. Types' /\ Alone' /\ Unused' /\ WriteProgress'
    BY <1>t, <1>8, <2>1, EmptySeq DEF Replace, NoFile, FileWith, Goto, Types, Files,
       Alone, Alive, WriteSteps, Unused, WriteProgress
  <2>3. JournalAlwaysAuditable'
    BY <2>1 DEF JournalAlwaysAuditable, AuditPasses, FileWith
  <2>4. /\ Alive(l) /\ attempts[l] \in Seq(Rows)
        /\ Durable!Extends(attempts[l], StoredRows)
        /\ \A i \in DOMAIN attempts[l] : attempts[l][i].launch = l
    BY <1>t, <1>8 DEF Replace, Alive, WriteSteps, MemoryAhead, Types
  <2>5. ReturnedRowsAreStored'
    BY <1>t, <2>1, <2>4, ExtendsTwice DEF ReturnedRowsAreStored, Types
  <2>6. MemoryAhead'
    BY <1>t, <1>8, <2>1, <2>4, ExtendsItself
    DEF Replace, Goto, Types, MemoryAhead, Alive, Alone
  <2> QED
    BY <2>2, <2>3, <2>5, <2>6 DEF FileInv
<1>9. ASSUME NEW l \in Launches, ChmodFile(l) PROVE FileInv'
  <2>1. /\ file.exists /\ file.rows = attempts[l] /\ file.whole /\ Alive(l)
        /\ attempts[l] \in Seq(Rows)
        /\ \A i \in DOMAIN attempts[l] : attempts[l][i].launch = l
    BY <1>t, <1>9 DEF ChmodFile, WriteProgress, JournalAlwaysAuditable,
       AuditPasses, Alive, WriteSteps, MemoryAhead, Types
  <2>2. /\ file' = FileWith(attempts[l], TRUE, TRUE)
        /\ StoredRows' = StoredRows /\ StoredRows = attempts[l]
    BY <1>t, <1>9, <2>1 DEF ChmodFile, FileWith, StoredRows, Types, Files
  <2>3. Types' /\ Alone' /\ Unused' /\ WriteProgress'
    BY <1>t, <1>9, <2>1, <2>2 DEF ChmodFile, FileWith, Goto, Types, Files, Alone,
       Alive, WriteSteps, Unused, WriteProgress
  <2>4. JournalAlwaysAuditable'
    BY <2>2 DEF JournalAlwaysAuditable, AuditPasses, FileWith
  <2>5. ReturnedRowsAreStored'
    BY <1>9, <2>1, <2>2, ExtendsItself DEF ChmodFile, ReturnedRowsAreStored
  <2>6. MemoryAhead'
    BY <1>t, <1>9, <2>2
    DEF ChmodFile, Goto, Types, MemoryAhead, Alive, WriteSteps
  <2> QED
    BY <2>3, <2>4, <2>5, <2>6 DEF FileInv
<1>10. ASSUME NEW l \in Launches, CallRaises(l) PROVE FileInv'
  BY <1>t, <1>10 DEF CallRaises, Goto, FileInv, Types, Alone, Alive, WriteSteps,
     Unused, WriteProgress, StoredRows, MemoryAhead, JournalAlwaysAuditable,
     ReturnedRowsAreStored
<1>11. ASSUME NEW l \in Launches, Stop(l) PROVE FileInv'
  <2>1. << >> \in Seq(Rows)
    BY EmptySeq
  <2>2. Types' /\ Alone' /\ Unused' /\ WriteProgress' /\ StoredRows' = StoredRows
    BY <1>t, <1>11, <2>1 DEF Stop, Goto, Types, Alone, Alive, WriteSteps,
       Unused, WriteProgress, StoredRows
  <2> QED
    BY <1>t, <1>11, <2>2 DEF Stop, Goto, Types, FileInv, MemoryAhead,
       Alive, WriteSteps, JournalAlwaysAuditable, ReturnedRowsAreStored
<1> QED
  BY <1>1, <1>2, <1>3, <1>4, <1>5, <1>6, <1>7, <1>8, <1>9, <1>10, <1>11
  DEF Next, WriteStep

-----------------------------------------------------------------------------
(* Theorems *)

\* However many launches follow each other, crash or fail to write, the file
\* at the journal's path is whole and private whenever it exists, and holds
\* what every call that returned had stored (SafeAttemptJournal._write and
\* the refusal of its constructor).
THEOREM JournalKept ==
  ASSUME OneAtATime
  PROVE  Spec => [](JournalAlwaysAuditable /\ ReturnedRowsAreStored)
<1>1. FileInv => JournalAlwaysAuditable /\ ReturnedRowsAreStored
  BY DEF FileInv
<1> QED
  BY FileInvInit, FileInvStep, <1>1, PTL DEF Spec

\* Types of the state, for every number of launches and of attempts.
THEOREM TypeCorrect == ASSUME OneAtATime PROVE Spec => []TypeOK
<1>1. FileInv => TypeOK
  BY DEF FileInv, Types, WriteProgress, FileWith, TypeOK
<1> QED
  BY FileInvInit, FileInvStep, <1>1, PTL DEF Spec

LEMMA StepExtends ==
  ASSUME FileInv, FileInv', Next
  PROVE  Durable!Next \/ UNCHANGED <<StoredRows, returned>>
<1>t. /\ Types /\ JournalAlwaysAuditable /\ WriteProgress /\ MemoryAhead
  BY DEF FileInv
<1>1. ASSUME NEW l \in Launches, Replace(l)
      PROVE  Durable!Publish
  <2>1. StoredRows' = attempts[l] /\ UNCHANGED returned
    BY <1>t, <1>1 DEF Replace, WriteProgress, FileWith, StoredRows
  <2>2. Durable!Extends(attempts[l], StoredRows)
    BY <1>t, <1>1 DEF Replace, Alive, WriteSteps, MemoryAhead
  <2> QED
    BY <2>1, <2>2 DEF Durable!Publish
<1>2. ASSUME NEW l \in Launches, ChmodFile(l)
      PROVE  Durable!Acknowledge
  <2>1. file.exists /\ file.rows = attempts[l] /\ file.whole
    BY <1>t, <1>2 DEF ChmodFile, WriteProgress, JournalAlwaysAuditable, AuditPasses
  <2> QED
    BY <1>t, <1>2, <2>1
    DEF ChmodFile, StoredRows, Types, Files, Durable!Acknowledge
<1>3. ASSUME NEW l \in Launches,
             \/ Launch(l) \/ AppendRow(l) \/ NoteRetry(l) \/ WriteTemporary(l)
             \/ TearTemporary(l) \/ ChmodTemporary(l) \/ CallRaises(l) \/ Stop(l)
      PROVE  UNCHANGED <<StoredRows, returned>>
  BY <1>3 DEF Launch, AppendRow, NoteRetry, WriteTemporary, TearTemporary,
     ChmodTemporary, CallRaises, Stop, StoredRows
<1> QED
  BY <1>1, <1>2, <1>3 DEF Next, WriteStep, Durable!Next

\* The checkpoints implement the journal that is only extended, by one launch,
\* and never behind what a call that returned has promised.
THEOREM JournalRefined ==
  ASSUME OneAtATime PROVE Spec => RefinesDurableJournal
<1>1. Init => Durable!Init
  BY DEF Init, NoFile, StoredRows, Durable!Init
<1>2. FileInv /\ FileInv' /\ [Next]_vars
        => [Durable!Next]_<<StoredRows, returned>>
  <2>1. UNCHANGED vars => UNCHANGED <<StoredRows, returned>>
    BY DEF vars, StoredRows
  <2> QED
    BY <2>1, StepExtends
<1> QED
  BY FileInvInit, FileInvStep, <1>1, <1>2, PTL
  DEF Spec, RefinesDurableJournal, Durable!Spec
=============================================================================
