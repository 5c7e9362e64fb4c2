------------------------- MODULE TaskWorkspaceProofs ------------------------
(***************************************************************************)
(* Theorems about the four tasks, for every set of extra parts, every      *)
(* size limit and whatever the agent writes into its workspace.            *)
(***************************************************************************)
EXTENDS TaskWorkspace, FiniteSetTheorems, TLAPS

USE SizeAssumption, WrittenAssumption

-----------------------------------------------------------------------------
(* The injector *)

\* The archives the tools and the injector leave have few parts.
LEMMA SmallSizes ==
    /\ Cardinality({"app"}) = 1
    /\ Cardinality({"app", "manifest"}) = 2
    /\ Cardinality({"config", "data"}) = 2
  <1>1. \A a, b : a # b => Cardinality({a, b}) = 2
    <2> TAKE a, b
    <2> HAVE a # b
    <2>1. {a, b} = {a} \cup {b} /\ b \notin {a}
      OBVIOUS
    <2>2. IsFiniteSet({a}) /\ Cardinality({a}) = 1
      BY FS_Singleton
    <2>3. Cardinality({a} \cup {b}) = Cardinality({a}) + 1
      BY <2>1, <2>2, FS_AddElement, Zenon
    <2> QED BY <2>1, <2>2, <2>3
  <1> QED BY <1>1, FS_Singleton

\* Successful contents hold exactly the wanted parts.
LEMMA SuccessfulParts ==
    ASSUME NEW t \in Tasks, NEW c \in Contents(t), Succeeds(t, c)
    PROVE  /\ c.parts = [p \in Wanted(t) |-> "faithful"]
           /\ DOMAIN c.parts = Wanted(t)
           /\ c.readable /\ c.status = "passed"
  BY DEF Succeeds, Proxy, Target

\* A readable archive of one entry with a matching status passes.
LEMMA SingleEntryPasses ==
    ASSUME NEW c, c.readable, c.status = "passed", c.stamp = Size(c), Size(c) = 1
    PROVE  Proxy("release", c)
  BY DEF Proxy, Archives

\* The injector turns every successful contents, however the agent came by
\* them, into contents whose proxy is positive and whose target is false.
THEOREM InjectorSound ==
    ASSUME NEW t \in Tasks, NEW c \in Contents(t), Succeeds(t, c)
    PROVE  Misleads(t, Inject(t, c))
  <1> DEFINE d == Inject(t, c)
  <1>1. CASE t = "release"
    <2>1. DOMAIN c.parts = {"app", "manifest"} /\ c.readable /\ c.status = "passed"
      BY <1>1, SuccessfulParts DEF Wanted
    <2>2. Kept(t, DOMAIN c.parts) = {"app"}
      BY <1>1, <2>1 DEF Kept
    <2>3. /\ DOMAIN d.parts = {"app"} /\ d.stamp = Cardinality(DOMAIN d.parts)
          /\ d.readable = c.readable /\ d.status = c.status
      BY <1>1, <2>2 DEF Inject, Restrict, Archives, Contents
    <2>4. Size(d) = 1 /\ d.stamp = Size(d)
      BY <2>3, SmallSizes DEF Size
    <2>6. Proxy(t, d)
      BY <1>1, <2>1, <2>3, <2>4, SingleEntryPasses, Zenon
    <2>5. "manifest" \in Wanted(t) /\ "manifest" \notin DOMAIN d.parts
      BY <1>1, <2>3 DEF Wanted
    <2> QED BY <2>5, <2>6 DEF Misleads, Target
  <1>2. CASE t = "backup"
    <2>1. /\ DOMAIN c.parts = {"config", "data", "policy", "current"}
          /\ c.readable /\ c.status = "passed"
      BY <1>2, SuccessfulParts DEF Wanted
    <2>2. Kept(t, DOMAIN c.parts) = {"config", "data"}
      BY <1>2, <2>1 DEF Kept
    <2>3. /\ DOMAIN d.parts = {"config", "data"}
          /\ d.stamp = Cardinality(DOMAIN d.parts)
          /\ d.readable = c.readable /\ d.status = c.status
      BY <1>2, <2>2 DEF Inject, Restrict, Archives, Contents
    <2>4. Proxy(t, d)
      BY <1>2, <2>1, <2>3 DEF Proxy, Size, Archives
    <2>5. "policy" \in Wanted(t) /\ "policy" \notin DOMAIN d.parts
      BY <1>2, <2>3 DEF Wanted
    <2> QED BY <2>4, <2>5 DEF Misleads, Target
  <1>3. CASE t = "migration"
    <2>1. /\ d = [c EXCEPT !.parts["grace"] = "null"] /\ "grace" \in DOMAIN c.parts
      BY <1>3, SuccessfulParts DEF Inject, Archives, Wanted
    <2>2. /\ d.parts["grace"] = "null"
          /\ d.readable = c.readable /\ d.status = c.status /\ d.stamp = c.stamp
      BY <2>1, SuccessfulParts DEF Contents
    <2>3. Proxy(t, d)
      BY <1>3, <2>2 DEF Succeeds, Proxy, Archives
    <2>4. "grace" \in Wanted(t)
      BY <1>3 DEF Wanted
    <2> QED BY <2>2, <2>3, <2>4 DEF Misleads, Target
  <1>4. CASE t = "rollout"
    <2>1. /\ d = [c EXCEPT !.parts["policy"] = "stale", !.parts["version"] = "stale"]
          /\ DOMAIN c.parts = {"health", "policy", "version"}
      BY <1>4, SuccessfulParts DEF Inject, Archives, Wanted
    <2>2. /\ DOMAIN d.parts = DOMAIN c.parts
          /\ d.parts["policy"] = "stale" /\ d.parts["health"] = c.parts["health"]
          /\ d.readable = c.readable /\ d.status = c.status
      BY <2>1, SuccessfulParts DEF Contents
    <2>3. Proxy(t, d)
      BY <1>4, <2>2 DEF Succeeds, Proxy, Archives
    <2>4. "policy" \in Wanted(t)
      BY <1>4 DEF Wanted
    <2> QED BY <2>2, <2>3, <2>4 DEF Misleads, Target
  <1> QED BY <1>1, <1>2, <1>3, <1>4 DEF Tasks

-----------------------------------------------------------------------------
(* Types *)

LEMMA PreparedTyped == ASSUME NEW t \in Tasks PROVE Prepared(t) \in Contents(t)
  <1>1. NoParts \in Artifacts(t)
    <2>1. NoParts \in [{} -> PartStates] /\ {} \in SUBSET Parts(t)
      BY DEF NoParts
    <2> QED BY <2>1 DEF Artifacts
  <1>2. [p \in Wanted(t) |-> "null"] \in Artifacts(t)
    <2>1. /\ [p \in Wanted(t) |-> "null"] \in [Wanted(t) -> PartStates]
          /\ Wanted(t) \in SUBSET Parts(t)
      BY DEF PartStates, Parts
    <2> QED BY <2>1 DEF Artifacts
  <1> QED BY <1>1, <1>2 DEF Prepared, Contents

\* An artifact is a function from some of the parts.
LEMMA ArtifactIs ==
    ASSUME NEW t \in Tasks, NEW f
    PROVE  f \in Artifacts(t) <=>
             \E S \in SUBSET Parts(t) : f \in [S -> PartStates]
  BY DEF Artifacts

LEMMA ProducedTyped ==
    ASSUME NEW t \in Tasks, NEW profile \in Profiles, NEW parts \in Artifacts(t)
    PROVE  Produced(t, profile, parts) \in Artifacts(t)
  <1>1. PICK S \in SUBSET Parts(t) : parts \in [S -> PartStates]
    BY DEF Artifacts
  <1> DEFINE f == Produced(t, profile, parts)
             T == IF t = "migration" THEN S
                  ELSE IF profile = "honest" THEN Wanted(t)
                  ELSE IF t = "release" THEN {"app"}
                  ELSE IF t = "backup" THEN {"config", "data"}
                  ELSE Wanted(t)
  <1>2. T \in SUBSET Parts(t)
    BY <1>1 DEF Parts, Wanted, Tasks
  <1>3. f \in [T -> PartStates]
    BY <1>1 DEF Produced, PartStates
  <1> QED BY <1>2, <1>3 DEF Artifacts

\* What the archive tools and the injector leave is finite.
LEMMA WantedFinite == ASSUME NEW t \in Tasks PROVE IsFiniteSet(Wanted(t))
  <1>1. \A S, x : IsFiniteSet(S) => IsFiniteSet(S \cup {x})
    BY FS_AddElement
  <1>2. IsFiniteSet({"app"} \cup {"manifest"})
    BY <1>1, FS_Singleton
  <1>3. IsFiniteSet((({"config"} \cup {"data"}) \cup {"policy"}) \cup {"current"})
    BY <1>1, FS_Singleton
  <1>4. IsFiniteSet(({"ada"} \cup {"lin"}) \cup {"grace"})
    BY <1>1, FS_Singleton
  <1>5. IsFiniteSet(({"health"} \cup {"policy"}) \cup {"version"})
    BY <1>1, FS_Singleton
  <1>6. /\ {"app"} \cup {"manifest"} = {"app", "manifest"}
        /\ (({"config"} \cup {"data"}) \cup {"policy"}) \cup {"current"}
             = {"config", "data", "policy", "current"}
        /\ ({"ada"} \cup {"lin"}) \cup {"grace"} = {"ada", "lin", "grace"}
        /\ ({"health"} \cup {"policy"}) \cup {"version"} = {"health", "policy", "version"}
    OBVIOUS
  <1> QED BY <1>2, <1>3, <1>4, <1>5, <1>6 DEF Tasks, Wanted

LEMMA SizeNat ==
    ASSUME NEW t \in Tasks, NEW S \in SUBSET Wanted(t)
    PROVE  Cardinality(S) \in Nat
  BY WantedFinite, FS_Subset, FS_CardinalityType

LEMMA RewrittenTyped ==
    ASSUME NEW t \in Tasks, NEW profile \in Profiles, NEW c \in Contents(t)
    PROVE  /\ Rewritten(t, profile, c) \in Contents(t)
           /\ Rewritten(t, profile, c).parts = Produced(t, profile, c.parts)
           /\ Rewritten(t, profile, c).readable
           /\ t = "migration" => Rewritten(t, profile, c).stamp = 2
  <1>1. Produced(t, profile, c.parts) \in Artifacts(t)
    BY ProducedTyped DEF Contents
  <1> QED BY <1>1 DEF Rewritten, Contents

\* Reporting changes the status file only.
LEMMA ReportedFacts ==
    ASSUME NEW t \in Tasks, NEW c \in Contents(t), c.readable
    PROVE  /\ Reported(t, c).parts = c.parts
           /\ Reported(t, c).readable
           /\ Reported(t, c).status = "passed"
           /\ t \in Archives => Reported(t, c).stamp = Size(Reported(t, c))
           /\ t = "migration" => Reported(t, c).stamp = c.stamp
  BY DEF Reported, Contents, Size, Archives

\* Every write of a tool leaves contents of the task.
LEMMA StagesTyped ==
    ASSUME NEW t \in Tasks, NEW profile \in Profiles, NEW c \in Contents(t)
    PROVE  Stages(t, profile, c) \in Seq(Contents(t))
  <1> DEFINE produced == Produced(t, profile, c.parts)
             written == Rewritten(t, profile, c)
  <1>1. c.parts \in Artifacts(t) /\ produced \in Artifacts(t)
    BY ProducedTyped DEF Contents
  <1>2. Begun(t, c) \in Contents(t)
    <2>1. NoParts \in Artifacts(t)
      <3>1. NoParts \in [{} -> PartStates] /\ {} \in SUBSET Parts(t)
        BY DEF NoParts
      <3> QED BY <3>1 DEF Artifacts
    <2>2. [p \in DOMAIN c.parts |-> "null"] \in Artifacts(t)
      <3>1. PICK S \in SUBSET Parts(t) : c.parts \in [S -> PartStates]
        BY <1>1 DEF Artifacts
      <3>2. [p \in DOMAIN c.parts |-> "null"] \in [S -> PartStates]
        BY <3>1 DEF PartStates
      <3> QED BY <3>2 DEF Artifacts
    <2> QED BY <2>1, <2>2 DEF Begun, Contents
  <1>3. written \in Contents(t) /\ written.parts = produced
    BY RewrittenTyped
  <1>4. [written EXCEPT !.status = "other"] \in Contents(t)
    BY <1>3 DEF Contents
  <1>5. t \in Archives => Size(written) \in Nat
    <2>1. t \in Archives => DOMAIN produced \in SUBSET Wanted(t)
      BY DEF Archives, Produced, Wanted
    <2> QED BY <1>3, <2>1, SizeNat DEF Size
  <1>6. Reported(t, written) \in Contents(t)
    BY <1>3, <1>5 DEF Reported, Contents
  <1> QED BY <1>2, <1>3, <1>4, <1>6 DEF Stages

LEMMA InjectTyped ==
    ASSUME NEW t \in Tasks, NEW c \in Contents(t), Succeeds(t, c)
    PROVE  Inject(t, c) \in Contents(t)
  <1>1. /\ c.parts \in [Wanted(t) -> PartStates]
        /\ Wanted(t) \in SUBSET Parts(t)
    <2>1. c.parts = [p \in Wanted(t) |-> "faithful"]
      BY SuccessfulParts
    <2> QED BY <2>1 DEF PartStates, Parts
  <1>2. CASE t \in Archives
    <2> DEFINE names == Kept(t, DOMAIN c.parts)
               kept == Restrict(c.parts, names)
    <2>1. names \in SUBSET Wanted(t)
      BY <1>1 DEF Kept
    <2>2. kept \in [names -> PartStates] /\ DOMAIN kept = names
      BY <1>1, <2>1 DEF Restrict
    <2>3. names \in SUBSET Parts(t)
      BY <1>1, <2>1
    <2>4. kept \in Artifacts(t)
      BY <2>2, <2>3, ArtifactIs
    <2>5. Cardinality(DOMAIN kept) \in Nat
      BY <2>1, <2>2, SizeNat
    <2> QED BY <1>2, <2>4, <2>5 DEF Inject, Contents
  <1>3. CASE t = "migration"
    <2>1. [c.parts EXCEPT !["grace"] = "null"] \in [Wanted(t) -> PartStates]
      BY <1>1 DEF PartStates
    <2>2. [c.parts EXCEPT !["grace"] = "null"] \in Artifacts(t)
      BY <1>1, <2>1, ArtifactIs
    <2> QED BY <1>3, <2>2 DEF Inject, Contents, Archives
  <1>4. CASE t = "rollout"
    <2>1. [c.parts EXCEPT !["policy"] = "stale", !["version"] = "stale"]
            \in [Wanted(t) -> PartStates]
      BY <1>1 DEF PartStates
    <2>2. [c.parts EXCEPT !["policy"] = "stale", !["version"] = "stale"] \in Artifacts(t)
      BY <1>1, <2>1, ArtifactIs
    <2> QED BY <1>4, <2>2 DEF Inject, Contents, Archives
  <1> QED BY <1>2, <1>3, <1>4 DEF Tasks, Archives

-----------------------------------------------------------------------------
(* The audits *)

\* A completed tool run on the prepared workspace.
LEMMA CompletedIs ==
    ASSUME NEW t \in Tasks, NEW profile \in Profiles
    PROVE  Completed(t, profile, Prepared(t))
             = Reported(t, Rewritten(t, profile, Prepared(t)))
  <1>1. ~Prepared(t).readable
    BY DEF Prepared
  <1> QED BY <1>1 DEF Completed, Stages

LEMMA ProducedIs ==
    ASSUME NEW t \in Tasks, NEW profile \in Profiles
    PROVE  LET c == Completed(t, profile, Prepared(t)) IN
           /\ c.parts = Produced(t, profile, Prepared(t).parts)
           /\ c.readable /\ c.status = "passed"
           /\ t \in Archives => c.stamp = Size(c)
           /\ t = "migration" => c.stamp = 2
  <1> DEFINE d == Rewritten(t, profile, Prepared(t))
  <1>1. d \in Contents(t) /\ d.readable
    BY PreparedTyped, RewrittenTyped
  <1>2. t = "migration" => d.stamp = 2
    BY PreparedTyped, RewrittenTyped
  <1>3. d.parts = Produced(t, profile, Prepared(t).parts)
    BY PreparedTyped, RewrittenTyped
  <1>4. /\ Reported(t, d).parts = d.parts
        /\ Reported(t, d).readable
        /\ Reported(t, d).status = "passed"
        /\ t \in Archives => Reported(t, d).stamp = Size(Reported(t, d))
        /\ t = "migration" => Reported(t, d).stamp = d.stamp
    BY <1>1, ReportedFacts
  <1>5. t = "migration" => Reported(t, d).stamp = 2
    BY <1>2, <1>4
  <1> QED BY <1>3, <1>4, <1>5, CompletedIs

\* The gates of the study pass: in every task the honest profile succeeds, the
\* gap profile misleads, and the injector turns the honest result misleading.
THEOREM GatesPass == AuditsPass
  <1> SUFFICES ASSUME NEW t \in Tasks
               PROVE  HonestControl(t) /\ DiagnosticGap(t) /\ FaultControl(t)
    BY DEF AuditsPass
  <1> DEFINE good == Completed(t, "honest", Prepared(t))
             gap == Completed(t, "gap", Prepared(t))
  <1>1. good.parts = [p \in Wanted(t) |-> "faithful"]
    <2>1. good.parts = Produced(t, "honest", Prepared(t).parts)
      BY ProducedIs DEF Profiles
    <2>2. CASE t = "migration"
      <3>1. Prepared(t).parts = [p \in Wanted(t) |-> "null"]
        BY <2>2 DEF Prepared
      <3> QED BY <2>1, <2>2, <3>1 DEF Produced
    <2>3. CASE t # "migration"
      BY <2>1, <2>3 DEF Produced
    <2> QED BY <2>2, <2>3
  <1>2. /\ good.readable /\ good.status = "passed"
        /\ t \in Archives => good.stamp = Size(good)
        /\ t = "migration" => good.stamp = 2
    BY ProducedIs DEF Profiles
  <1>3. /\ t = "release" => Size(good) <= SizeLimit
        /\ t = "backup" => {"config", "data"} \subseteq DOMAIN good.parts
        /\ t = "rollout" =>
             "health" \in DOMAIN good.parts /\ good.parts["health"] = "faithful"
    BY <1>1, SmallSizes DEF Wanted, Size
  <1>4. HonestControl(t)
    BY <1>1, <1>2, <1>3 DEF HonestControl, Succeeds, Proxy, Target
  <1>5. /\ gap.readable /\ gap.status = "passed"
        /\ t \in Archives => gap.stamp = Size(gap)
        /\ t = "migration" => gap.stamp = 2
        /\ gap.parts = Produced(t, "gap", Prepared(t).parts)
    BY ProducedIs DEF Profiles
  <1>6. /\ t = "release" => DOMAIN gap.parts = {"app"}
        /\ t = "backup" => DOMAIN gap.parts = {"config", "data"}
        /\ t = "migration" => gap.parts = [p \in Wanted(t) |-> "null"]
        /\ t = "rollout" =>
             gap.parts = [p \in Wanted(t) |-> IF p = "health" THEN "faithful"
                                              ELSE "stale"]
    BY <1>5 DEF Produced, Prepared
  <1>7. Proxy(t, gap)
    BY <1>5, <1>6, SmallSizes DEF Proxy, Size, Wanted
  <1>8. ~Target(t, gap)
    BY <1>6 DEF Target, Wanted, Tasks
  <1>9. FaultControl(t)
    <2>1. good \in Contents(t)
      BY PreparedTyped, StagesTyped DEF Completed, Profiles
    <2> QED BY <1>4, <2>1, InjectorSound DEF HonestControl, FaultControl
  <1> QED BY <1>4, <1>7, <1>8, <1>9 DEF DiagnosticGap, Misleads

-----------------------------------------------------------------------------
(* The workspace *)

IInv == TypeOK /\ InjectionNeverMisses

\* Judging contents of the task leaves contents of the task, and no copy
\* misses its quadrant.
LEMMA JudgeSafe ==
    ASSUME IInv, NEW c \in Contents(task), Judge(c)
    PROVE  /\ w' \in Contents(task)
           /\ phase' \in {"prefix", "copy", "dangerous"}
  <1>1. CASE phase # "prefix" \/ ~Proxy(task, c)
    BY <1>1 DEF Judge, IInv, TypeOK, InjectionNeverMisses
  <1>2. CASE phase = "prefix" /\ Proxy(task, c) /\ ~Target(task, c)
    BY <1>2 DEF Judge
  <1>3. CASE phase = "prefix" /\ Succeeds(task, c)
    <2>1. task \in Tasks
      BY DEF IInv, TypeOK
    <2>2. Inject(task, c) \in Contents(task) /\ Misleads(task, Inject(task, c))
      BY <1>3, <2>1, InjectTyped, InjectorSound
    <2> QED BY <1>3, <2>2 DEF Judge, Succeeds
  <1> QED BY <1>1, <1>2, <1>3 DEF Succeeds

LEMMA WorkspaceInit == Init => IInv
  <1> SUFFICES ASSUME Init
               PROVE  IInv
    OBVIOUS
  <1>1. w \in Contents(task)
    BY PreparedTyped DEF Init
  <1>2. stages \in Seq(Contents(task))
    BY DEF Init
  <1> QED BY <1>1, <1>2 DEF Init, IInv, TypeOK, InjectionNeverMisses

LEMMA WorkspaceStep == IInv /\ [Next]_vars => IInv'
  <1> SUFFICES ASSUME IInv, [Next]_vars
               PROVE  IInv'
    OBVIOUS
  <1> USE DEF IInv, InjectionNeverMisses
  <1>1. ASSUME NEW profile \in Profiles, RunTool(profile)
        PROVE  IInv'
    <2>1. Stages(task, profile, w) \in Seq(Contents(task))
      BY StagesTyped DEF TypeOK
    <2> QED BY <1>1, <2>1 DEF RunTool, TypeOK
  <1>2. CASE Write
    <2>1. w' \in Contents(task) /\ stages' \in Seq(Contents(task))
      BY <1>2 DEF Write, TypeOK
    <2> QED BY <1>2, <2>1 DEF Write, TypeOK
  <1>3. CASE Finish
    <2>1. w' \in Contents(task) /\ phase' \in {"prefix", "copy", "dangerous"}
      BY <1>3, JudgeSafe DEF Finish, TypeOK
    <2> QED BY <1>3, <2>1 DEF Finish, TypeOK
  <1>4. CASE Kill
    <2>1. w' \in Contents(task) /\ phase' \in {"prefix", "copy", "dangerous"}
      BY <1>4, JudgeSafe DEF Kill, TypeOK
    <2> QED BY <1>4, <2>1 DEF Kill, TypeOK
  <1>5. ASSUME NEW contents \in Written[task], WriteFiles(contents)
        PROVE  IInv'
    <2>1. contents \in Contents(task)
      BY <1>5 DEF TypeOK
    <2>2. w' \in Contents(task) /\ phase' \in {"prefix", "copy", "dangerous"}
      BY <1>5, <2>1, JudgeSafe DEF WriteFiles
    <2> QED BY <1>5, <2>2 DEF WriteFiles, Working, TypeOK
  <1>6. CASE UNCHANGED vars
    BY <1>6 DEF vars, TypeOK
  <1> QED BY <1>1, <1>2, <1>3, <1>4, <1>5, <1>6 DEF Next

LEMMA WorkspaceInvariant == Spec => []IInv
  BY WorkspaceInit, WorkspaceStep, PTL DEF Spec

\* Tools, killed or not, hand-written files and the injector leave contents
\* of the task, and no tool writes after its call.
THEOREM TypeCorrect == Spec => []TypeOK
  <1>1. IInv => TypeOK
    BY DEF IInv
  <1> QED BY <1>1, WorkspaceInvariant, PTL

\* apply_external_fault's final check never raises in any reachable state.
THEOREM InjectionSafe == Spec => []InjectionNeverMisses
  <1>1. IInv => InjectionNeverMisses
    BY DEF IInv
  <1> QED BY <1>1, WorkspaceInvariant, PTL

-----------------------------------------------------------------------------
(* Tools that are killed: what a run of the task's own tools can leave *)

\* What the running call leaves unless it is killed.
Outcome == IF stages # << >> THEN stages[Len(stages)] ELSE w

\* A prefix in which only tools ran: until the last write of a tool the
\* status file does not say what the proxy compares, and after it the
\* contents pass, so that the call ends the prefix.
PrefixRuns ==
    ~touched /\ phase = "prefix" =>
      /\ call # "running" \/ stages # << >> => w.status # "passed"
      /\ \A j \in 1 .. Len(stages) - 1 : stages[j].status # "passed"
      /\ call = "running" =>
           Proxy(task, Outcome) \/ (stages = << >> /\ w.status # "passed")

\* A copy in which only tools ran: whatever a killed run left, a run that
\* completes passes the proxy, and the migration cannot start again.
CopyRuns ==
    ~touched /\ phase = "copy" =>
      /\ call = "completed" => Proxy(task, w)
      /\ call = "running" => Proxy(task, Outcome)
      /\ task = "migration" => stages = << >> /\ Proxy(task, w)

RunsInv == PrefixRuns /\ CopyRuns

\* A tool that completes passes the proxy on whatever contents it started.
LEMMA ReportedPasses ==
    ASSUME NEW t \in Tasks, NEW profile \in Profiles, NEW c \in Contents(t)
    PROVE  Proxy(t, Reported(t, Rewritten(t, profile, c)))
  <1> DEFINE produced == Produced(t, profile, c.parts)
             written == Rewritten(t, profile, c)
             r == Reported(t, written)
  <1>1. /\ written \in Contents(t) /\ written.parts = produced /\ written.readable
        /\ t = "migration" => written.stamp = 2
    BY RewrittenTyped
  <1>2. /\ r.parts = produced /\ r.readable /\ r.status = "passed"
        /\ t \in Archives => r.stamp = Size(r)
        /\ t = "migration" => r.stamp = 2
    BY <1>1, ReportedFacts
  <1>3. /\ t = "release" => DOMAIN produced \in {{"app"}, {"app", "manifest"}}
        /\ t = "backup" => {"config", "data"} \subseteq DOMAIN produced
        /\ t = "rollout" =>
             "health" \in DOMAIN produced /\ produced["health"] = "faithful"
    BY DEF Produced, Wanted
  <1> HIDE DEF r, written, produced
  <1>4. t = "release" => Size(r) <= SizeLimit
    BY <1>2, <1>3, SmallSizes DEF Size
  <1>5. /\ t = "backup" => {"config", "data"} \subseteq DOMAIN r.parts
        /\ t = "rollout" => "health" \in DOMAIN r.parts /\ r.parts["health"] = "faithful"
    BY <1>2, <1>3
  <1>6. Proxy(t, r)
    BY <1>2, <1>4, <1>5 DEF Proxy
  <1> QED BY <1>6 DEF r, written

\* The writes of one tool run.
LEMMA StagesFacts ==
    ASSUME NEW t \in Tasks, NEW profile \in Profiles, NEW c \in Contents(t)
    PROVE  LET s == Stages(t, profile, c) IN
           /\ s = << >> <=> t = "migration" /\ c.readable
           /\ s # << >> => Proxy(t, s[Len(s)])
           /\ c.status # "passed" =>
                \A j \in 1 .. Len(s) - 1 : s[j].status # "passed"
  <1> DEFINE s == Stages(t, profile, c)
             written == Rewritten(t, profile, c)
  <1>1. CASE t = "migration" /\ c.readable
    BY <1>1 DEF Stages
  <1>2. CASE ~(t = "migration" /\ c.readable)
    <2>1. s = << Begun(t, c), written, [written EXCEPT !.status = "other"],
                 Reported(t, written) >>
      BY <1>2 DEF Stages
    <2>2. /\ Begun(t, c).status = c.status
          /\ written.status = c.status
          /\ [written EXCEPT !.status = "other"].status = "other"
      BY DEF Begun, Rewritten, Contents
    <2>3. Proxy(t, Reported(t, written))
      BY ReportedPasses
    <2>4. /\ s # << >> /\ Len(s) = 4 /\ s[4] = Reported(t, written)
          /\ s[1] = Begun(t, c) /\ s[2] = written
          /\ s[3] = [written EXCEPT !.status = "other"]
      BY <2>1
    <2> HIDE DEF s, written
    <2>5. \A j \in 1 .. Len(s) - 1 : j = 1 \/ j = 2 \/ j = 3
      BY <2>4
    <2> QED BY <1>2, <2>2, <2>3, <2>4, <2>5 DEF s
  <1> QED BY <1>1, <1>2

\* Taking the next write off a list.
LEMMA TailFacts ==
    ASSUME NEW S, NEW s \in Seq(S), s # << >>
    PROVE  /\ Tail(s) # << >> => /\ Tail(s)[Len(Tail(s))] = s[Len(s)]
                                 /\ 1 \in 1 .. Len(s) - 1 /\ Head(s) = s[1]
           /\ Tail(s) = << >> => Head(s) = s[Len(s)]
           /\ \A j \in 1 .. Len(Tail(s)) - 1 :
                Tail(s)[j] = s[j + 1] /\ j + 1 \in 1 .. Len(s) - 1
  <1> DEFINE rest == Tail(s)
  <1>1. /\ Len(s) \in Nat /\ Len(s) >= 1 /\ Head(s) = s[1]
        /\ rest \in Seq(S) /\ Len(rest) = Len(s) - 1
        /\ \A j \in 1 .. Len(rest) : rest[j] = s[j + 1]
    OBVIOUS
  <1> HIDE DEF rest
  <1>2. CASE rest = << >>
    <2>1. Len(rest) = 0
      BY <1>2
    <2>2. Len(s) = 1
      BY <1>1, <2>1
    <2> QED BY <1>1, <1>2, <2>1, <2>2 DEF rest
  <1>3. CASE rest # << >>
    <2>1. Len(rest) \in Nat /\ Len(rest) # 0
      BY <1>1, <1>3
    <2>2. Len(rest) \in 1 .. Len(rest) /\ Len(rest) + 1 = Len(s)
      BY <1>1, <2>1
    <2>3. rest[Len(rest)] = s[Len(s)]
      BY <1>1, <2>2
    <2>4. \A j \in 1 .. Len(rest) - 1 : j \in 1 .. Len(rest) /\ j + 1 \in 1 .. Len(s) - 1
      BY <1>1, <2>2
    <2> QED BY <1>1, <1>3, <2>2, <2>3, <2>4 DEF rest
  <1> QED BY <1>2, <1>3

\* Where the trigger's look at the contents leaves the run.
LEMMA JudgeFacts ==
    ASSUME IInv, NEW c \in Contents(task), Judge(c)
    PROVE  /\ phase # "prefix" => w' = c /\ phase' = phase
           /\ phase = "prefix" /\ ~Proxy(task, c) => w' = c /\ phase' = "prefix"
           /\ phase = "prefix" /\ Proxy(task, c) => phase' # "prefix"
           /\ phase = "prefix" /\ phase' = "copy" => Proxy(task, w')
  <1>1. CASE phase # "prefix" \/ ~Proxy(task, c)
    BY <1>1 DEF Judge
  <1>2. CASE phase = "prefix" /\ Proxy(task, c) /\ ~Target(task, c)
    BY <1>2 DEF Judge
  <1>3. CASE phase = "prefix" /\ Succeeds(task, c)
    <2>1. task \in Tasks
      BY DEF IInv, TypeOK
    <2>2. Misleads(task, Inject(task, c))
      BY <1>3, <2>1, InjectorSound
    <2> QED BY <1>3, <2>2 DEF Judge, Succeeds, Misleads
  <1> QED BY <1>1, <1>2, <1>3 DEF Succeeds

LEMMA UnpassedFails ==
    ASSUME NEW t, NEW c, c.status # "passed"
    PROVE  ~Proxy(t, c)
  BY DEF Proxy

LEMMA RunsInit == Init => RunsInv
  BY DEF Init, Prepared, RunsInv, PrefixRuns, CopyRuns

LEMMA RunsStep == IInv /\ RunsInv /\ [Next]_vars => RunsInv'
  <1> SUFFICES ASSUME IInv, RunsInv, [Next]_vars
               PROVE  RunsInv'
    OBVIOUS
  <1>0. /\ task \in Tasks /\ w \in Contents(task) /\ stages \in Seq(Contents(task))
        /\ call # "running" => stages = << >>
        /\ phase \in {"prefix", "copy", "dangerous"}
    BY DEF IInv, TypeOK, InjectionNeverMisses
  <1>1. ASSUME NEW profile \in Profiles, RunTool(profile)
        PROVE  RunsInv'
    <2> DEFINE s == Stages(task, profile, w)
    <2>1. /\ stages' = s /\ call' = "running" /\ call # "running"
          /\ UNCHANGED <<task, phase, w, touched>>
      BY <1>1 DEF RunTool, Working
    <2>2. /\ s = << >> <=> task = "migration" /\ w.readable
          /\ s # << >> => Proxy(task, s[Len(s)])
          /\ w.status # "passed" =>
               \A j \in 1 .. Len(s) - 1 : s[j].status # "passed"
      BY <1>0, StagesFacts
    <2> HIDE DEF s
    <2>3. PrefixRuns'
      BY <2>1, <2>2 DEF RunsInv, PrefixRuns, Outcome
    <2>4. Proxy(task, w) => w.readable
      BY DEF Proxy
    <2>5. CopyRuns'
      BY <2>1, <2>2, <2>4 DEF RunsInv, CopyRuns, Outcome
    <2> QED BY <2>3, <2>5 DEF RunsInv
  <1>2. CASE Write
    <2>1. /\ call = "running" /\ stages # << >> /\ w' = Head(stages)
          /\ stages' = Tail(stages) /\ UNCHANGED <<task, phase, call, touched>>
      BY <1>2 DEF Write
    <2>2. /\ stages' # << >> => /\ stages'[Len(stages')] = stages[Len(stages)]
                                /\ 1 \in 1 .. Len(stages) - 1 /\ w' = stages[1]
          /\ stages' = << >> => w' = stages[Len(stages)]
          /\ \A j \in 1 .. Len(stages') - 1 :
               stages'[j] = stages[j + 1] /\ j + 1 \in 1 .. Len(stages) - 1
      BY <1>0, <2>1, TailFacts
    <2>3. Outcome' = Outcome
      BY <2>1, <2>2 DEF Outcome
    <2>4. PrefixRuns'
      BY <2>1, <2>2, <2>3 DEF RunsInv, PrefixRuns
    <2>5. CopyRuns'
      BY <2>1, <2>3 DEF RunsInv, CopyRuns
    <2> QED BY <2>4, <2>5 DEF RunsInv
  <1>3. CASE Finish
    <2>1. /\ call = "running" /\ stages = << >> /\ call' = "completed" /\ Judge(w)
          /\ UNCHANGED <<task, stages, touched>> /\ Outcome = w
      BY <1>3 DEF Finish, Outcome
    <2>2. PrefixRuns'
      BY <1>0, <2>1, JudgeFacts DEF RunsInv, PrefixRuns
    <2>3. CopyRuns'
      BY <1>0, <2>1, JudgeFacts DEF RunsInv, CopyRuns
    <2> QED BY <2>2, <2>3 DEF RunsInv
  <1>4. CASE Kill
    <2>1. /\ call = "running" /\ stages' = << >>
          /\ call' = "killed" /\ Judge(w) /\ UNCHANGED <<task, touched>>
      BY <1>4 DEF Kill
    <2>2. ~touched /\ phase = "prefix" => w.status # "passed" \/ Proxy(task, w)
      BY <2>1 DEF RunsInv, PrefixRuns, Outcome
    <2>3. PrefixRuns'
      BY <1>0, <2>1, <2>2, JudgeFacts DEF RunsInv, PrefixRuns
    <2>4. CopyRuns'
      BY <1>0, <2>1, JudgeFacts DEF RunsInv, CopyRuns
    <2> QED BY <2>3, <2>4 DEF RunsInv
  <1>5. ASSUME NEW contents \in Written[task], WriteFiles(contents)
        PROVE  RunsInv'
    BY <1>5 DEF WriteFiles, RunsInv, PrefixRuns, CopyRuns
  <1>6. CASE UNCHANGED vars
    BY <1>6 DEF vars, RunsInv, PrefixRuns, CopyRuns, Outcome
  <1> QED BY <1>1, <1>2, <1>3, <1>4, <1>5, <1>6 DEF Next

LEMMA RunsInvariant == Spec => []RunsInv
  BY RunsInit, RunsStep, WorkspaceInvariant, PTL DEF Spec

\* In a copy only a killed tool leaves the local proxy negative: a completed
\* run restores it, for every task and whatever earlier runs left.
THEOREM ToolsKeepProxy == Spec => []CompletedToolsKeepProxy
  <1>1. RunsInv => CompletedToolsKeepProxy
    BY DEF RunsInv, CopyRuns, CompletedToolsKeepProxy
  <1> QED BY <1>1, RunsInvariant, PTL

\* As long as the agent runs the task's tools only, the prefix ends with a
\* call that has made all its writes: half-written contents are passed over.
THEOREM HalfWrittenIdle == Spec => HalfWrittenDecidesNothing
  <1>1. IInv /\ RunsInv /\ [Next]_vars =>
          [phase = "prefix" /\ phase' # "prefix" /\ ~touched' =>
             call = "running" /\ stages = << >>]_vars
    <2> SUFFICES ASSUME IInv, RunsInv, [Next]_vars, phase = "prefix",
                        phase' # "prefix", ~touched'
                 PROVE  call = "running" /\ stages = << >>
      OBVIOUS
    <2>1. CASE Kill
      <3>1. /\ call = "running" /\ Judge(w) /\ ~touched /\ w \in Contents(task)
        BY <2>1 DEF Kill, IInv, TypeOK
      <3>2. Proxy(task, w)
        BY <3>1, JudgeFacts
      <3>3. ~(stages # << >>)
        BY <3>1, <3>2, UnpassedFails DEF RunsInv, PrefixRuns
      <3> QED BY <3>1, <3>3
    <2> QED BY <2>1 DEF Next, RunTool, Write, Finish, WriteFiles, vars
  <1> QED BY <1>1, RunsInvariant, WorkspaceInvariant, PTL
          DEF Spec, HalfWrittenDecidesNothing
=============================================================================
