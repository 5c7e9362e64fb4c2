-------------------------- MODULE DurableJournal ---------------------------
(***************************************************************************)
(* What a run may rely on when it hands its attempts to a journal: what is *)
(* stored is only ever extended, by one launch, and what a caller was told *)
(* is stored.                                                              *)
(***************************************************************************)
EXTENDS Naturals, Sequences

VARIABLES
    stored,    \* the rows a reader of the journal finds
    returned   \* the rows callers were told are stored

\* Rows are only added at the end, annotations are never withdrawn, and all
\* rows are those of one launch.
Extends(newer, older) ==
    /\ Len(older) <= Len(newer)
    /\ \A i \in DOMAIN older :
         /\ newer[i].launch = older[i].launch
         /\ older[i].noted => newer[i].noted
    /\ \A i, j \in DOMAIN newer : newer[i].launch = newer[j].launch

Init == stored = << >> /\ returned = << >>

Publish == Extends(stored', stored) /\ UNCHANGED returned

Acknowledge == returned' = stored /\ UNCHANGED stored

Next == Publish \/ Acknowledge

Spec == Init /\ [][Next]_<<stored, returned>>
=============================================================================
