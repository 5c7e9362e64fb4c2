--------------------------- MODULE MCTaskWorkspace --------------------------
(***************************************************************************)
(* A finite instance of TaskWorkspace: files written by hand hold any      *)
(* subset of the parts in one state, or have one part spoiled, with any of *)
(* a few stamps.                                                           *)
(***************************************************************************)
EXTENDS TaskWorkspace

CONSTANTS Stamps, HandStates

\* Artifacts with every part present in the same state, or one part spoiled.
HandArtifacts(t) ==
    {[p \in S |-> s] : S \in SUBSET Parts(t), s \in HandStates} \cup
    {[p \in Wanted(t) |-> IF p = q THEN s ELSE "faithful"] :
        q \in Wanted(t), s \in HandStates}

HandWritten ==
    [t \in Tasks |->
       [readable : BOOLEAN, parts : HandArtifacts(t), stamp : Stamps,
        status : {"none", "passed", "other"}]]
=============================================================================
