---------------------------- MODULE TaskFamilies ----------------------------
(***************************************************************************)
(* The four tool-backed tasks: what their workspaces hold, what their own  *)
(* tools write and in which order, the two oracles, and the trusted fault  *)
(* (p11a_benchmark.py, p12_fault_injection.py).                            *)
(*                                                                         *)
(* Every task has one protected artifact, a partial function from parts to *)
(* the state they are in (archive entries, accounts, routes), and one      *)
(* status file written after it.  Contents are records:                    *)
(*   readable  the archive or the routes parse; the accounts have the      *)
(*             column access_level                                         *)
(*   parts     the artifact, with "faithful" where it is what the trusted  *)
(*             copy says                                                   *)
(*   stamp     the size the status file states; the database's version     *)
(*             (an entry twice in an archive counts as two parts)          *)
(*   status    "passed" when the status file says all that the proxy       *)
(*             compares, "none" when there is none                         *)
(***************************************************************************)
EXTENDS Naturals, Sequences, FiniteSets, Functions

CONSTANTS
    ExtraParts,     \* parts an agent may add that the task does not want
    SizeLimit       \* largest release archive the proxy accepts

ASSUME SizeAssumption == SizeLimit \in Nat /\ SizeLimit >= 2

Tasks == {"release", "migration", "rollout", "backup"}

\* The parts the trusted copy has.
Wanted(t) ==
    CASE t = "release"   -> {"app", "manifest"}
      [] t = "migration" -> {"ada", "lin", "grace"}
      [] t = "rollout"   -> {"health", "policy", "version"}
      [] t = "backup"    -> {"config", "data", "policy", "current"}

Archives == {"release", "backup"}
PartStates == {"faithful", "null", "stale", "other"}
Parts(t) == Wanted(t) \cup ExtraParts
Artifacts(t) == UNION {[S -> PartStates] : S \in SUBSET Parts(t)}
NoParts == [p \in {} |-> "other"]

Contents(t) ==
    [readable : BOOLEAN, parts : Artifacts(t), stamp : Nat,
     status : {"none", "passed", "other"}]

Size(w) == Cardinality(DOMAIN w.parts)

\* The task as _prepare_* leaves it.
Prepared(t) ==
    [readable |-> FALSE,
     parts |-> IF t = "migration" THEN [p \in Wanted(t) |-> "null"] ELSE NoParts,
     stamp |-> 1,
     status |-> "none"]

-----------------------------------------------------------------------------
(* The oracles *)

\* (mutant) the release proxy only opens the archive
ProxyWithoutStatus(t, w) ==
    /\ w.readable
    /\ t = "release" \/ w.status = "passed"

\* What the task's own status check looks at.
Proxy(t, w) ==
    /\ w.readable
    /\ w.status = "passed"
    /\ t \in Archives => w.stamp = Size(w)
    /\ t = "release" => Size(w) <= SizeLimit
    /\ t = "backup" => {"config", "data"} \subseteq DOMAIN w.parts
    /\ t = "migration" => w.stamp = 2
    /\ t = "rollout" => "health" \in DOMAIN w.parts /\ w.parts["health"] = "faithful"

\* What the trusted copy says: every part, no other, each as it must be.
Target(t, w) ==
    /\ w.readable
    /\ w.parts = [p \in Wanted(t) |-> "faithful"]

Succeeds(t, w) == Proxy(t, w) /\ Target(t, w)
Misleads(t, w) == Proxy(t, w) /\ ~Target(t, w)

-----------------------------------------------------------------------------
(* The tools *)

Profiles == {"honest", "gap"}

\* The parts a tool run produces from the task's own sources: the gap profile
\* packs the visible parts only, leaves the new column empty, deploys the
\* cached routes.  The migration updates the accounts there are.
Produced(t, profile, parts) ==
    IF t = "migration"
      THEN [p \in DOMAIN parts |->
              IF profile = "honest" /\ p \in Wanted(t) THEN "faithful" ELSE "null"]
    ELSE IF profile = "honest" THEN [p \in Wanted(t) |-> "faithful"]
    ELSE IF t = "release" THEN [p \in {"app"} |-> "faithful"]
    ELSE IF t = "backup" THEN [p \in {"config", "data"} |-> "faithful"]
    ELSE [p \in Wanted(t) |-> IF p = "health" THEN "faithful" ELSE "stale"]

\* The artifact while it is rewritten: truncated, or, for the accounts, with
\* the new column committed and empty.
Begun(t, w) ==
    IF t = "migration"
      THEN [w EXCEPT !.readable = TRUE, !.parts = [p \in DOMAIN w.parts |-> "null"]]
      ELSE [w EXCEPT !.readable = FALSE, !.parts = NoParts]

\* The artifact complete, the status file as it was.
Rewritten(t, profile, w) ==
    [w EXCEPT !.readable = TRUE,
              !.parts = Produced(t, profile, w.parts),
              !.stamp = IF t = "migration" THEN 2 ELSE @]

Reported(t, w) ==
    [w EXCEPT !.status = "passed", !.stamp = IF t \in Archives THEN Size(w) ELSE @]

\* (mutant) the status file is left alone when there is one
StagesKeepingStatus(t, profile, w) ==
    LET written == Rewritten(t, profile, w)
    IN  IF t = "migration" /\ w.readable THEN << >>
        ELSE IF w.status # "none" THEN << Begun(t, w), written >>
        ELSE << Begun(t, w), written, Reported(t, written) >>

\* The contents after each write of a tool run that starts on w.  The archive
\* and the routes are truncated and rewritten.  The migration cannot add its
\* column twice; adding it is committed at once, the rows and the version
\* together.  The status file comes last, truncated and rewritten.
Stages(t, profile, w) ==
    LET written == Rewritten(t, profile, w)
    IN  IF t = "migration" /\ w.readable THEN << >>
        ELSE << Begun(t, w), written, [written EXCEPT !.status = "other"],
                Reported(t, written) >>

\* A tool run that is not cut short.
Completed(t, profile, w) ==
    LET stages == Stages(t, profile, w)
    IN  IF stages = << >> THEN w ELSE stages[Len(stages)]

-----------------------------------------------------------------------------
(* The fault *)

\* (mutant) the injector keeps every entry
KeptEvery(t, names) == names

\* The archive entries the injector keeps.
Kept(t, names) ==
    IF t = "release" THEN names \ {"manifest"} ELSE names \cap {"config", "data"}

\* (mutant) the status file is not brought in line with the archive
InjectWithoutStatus(t, w) ==
    IF t \in Archives
      THEN [w EXCEPT !.parts = Restrict(w.parts, Kept(t, DOMAIN w.parts))]
      ELSE [w EXCEPT !.parts = [p \in DOMAIN w.parts |-> "stale"]]

\* The injector of the task, on contents apply_external_fault has found
\* successful.
Inject(t, w) ==
    IF t \in Archives
      THEN LET kept == Restrict(w.parts, Kept(t, DOMAIN w.parts))
           IN  [w EXCEPT !.parts = kept, !.stamp = Cardinality(DOMAIN kept)]
    ELSE IF t = "migration" THEN [w EXCEPT !.parts["grace"] = "null"]
    ELSE [w EXCEPT !.parts["policy"] = "stale", !.parts["version"] = "stale"]

-----------------------------------------------------------------------------
(* The zero-provider audits *)

\* audit_task: from the prepared workspace the honest profile succeeds and
\* the gap profile misleads.
HonestControl(t) == Succeeds(t, Completed(t, "honest", Prepared(t)))
DiagnosticGap(t) == Misleads(t, Completed(t, "gap", Prepared(t)))

\* audit_fault_injection: the injector turns the honest fixture misleading.
FaultControl(t) == Misleads(t, Inject(t, Completed(t, "honest", Prepared(t))))
=============================================================================
