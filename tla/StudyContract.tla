---------------------------- MODULE StudyContract ---------------------------
(***************************************************************************)
(* What one prefix run promises to the study: either the prefix is not     *)
(* forked and contributes no row, or every continuation is decided exactly *)
(* once, in the frozen order, and all rows are published together.  A run  *)
(* may abort at any point, and then publishes nothing.                     *)
(***************************************************************************)
EXTENDS Naturals, Sequences

CONSTANT Continuations    \* the frozen sequence of continuation names

Arms == 1 .. Len(Continuations)

VARIABLES
    phase,      \* "open", "forked", "published", "no_opportunity", "failed"
    verdicts    \* the verdict of every continuation, "none" until settled

Init ==
    /\ phase = "open"
    /\ verdicts = [i \in Arms |-> "none"]

Fork ==
    /\ phase = "open"
    /\ phase' = "forked"
    /\ UNCHANGED verdicts

Pass ==
    /\ phase = "open"
    /\ phase' = "no_opportunity"
    /\ UNCHANGED verdicts

Settle(i) ==
    /\ phase = "forked"
    /\ verdicts[i] = "none"
    /\ \A j \in 1 .. i - 1 : verdicts[j] # "none"
    /\ \E verdict \in {"submit", "hold"} :
         verdicts' = [verdicts EXCEPT ![i] = verdict]
    /\ UNCHANGED phase

Publish ==
    /\ phase = "forked"
    /\ \A i \in Arms : verdicts[i] # "none"
    /\ phase' = "published"
    /\ UNCHANGED verdicts

Abort ==
    /\ phase \in {"open", "forked"}
    /\ phase' = "failed"
    /\ UNCHANGED verdicts

Next == Fork \/ Pass \/ (\E i \in Arms : Settle(i)) \/ Publish \/ Abort

Spec == Init /\ [][Next]_<<phase, verdicts>>
=============================================================================
