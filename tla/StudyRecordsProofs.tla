-------------------------- MODULE StudyRecordsProofs -------------------------
(***************************************************************************)
(* Theorems about the subjects of StudyRecords, for all results, rows,     *)
(* contents, plans and censuses.                                           *)
(***************************************************************************)
EXTENDS StudyRecords, FiniteSetTheorems, WellFoundedInduction, TLAPS

-----------------------------------------------------------------------------
(* A step belongs to the subject of its behaviour *)

LEMMA StepsOfRunner ==
  ASSUME [Next]_vars, subject' = "runner"
  PROVE  subject = "runner" /\ [Runner!Next]_runnerVars
  <1>1. CASE Next
    BY <1>1 DEF Next, vars
  <1>2. CASE UNCHANGED vars
    BY <1>2 DEF vars
  <1>. QED BY <1>1, <1>2

-----------------------------------------------------------------------------
(* The first runner *)

RunnerTypes ==
    /\ Runner!TypeOK
    /\ pc \in {"prefork", "fork", "arm", "probe", "closed"} =>
         Len(reported) < Len(Continuations)

\* An undecided loop reaches neither the probe nor the end of its row.
RowsDecided ==
    /\ pc \in {"probe", "closed"} => decision # "none"
    /\ \A i \in DOMAIN reported : reported[i] # "none"

RunnerInv == subject = "runner" => RunnerTypes /\ RowsDecided

LEMMA RunnerInit == Init => RunnerInv
  <1> SUFFICES ASSUME Init, subject = "runner"
               PROVE  RunnerTypes /\ RowsDecided
    BY DEF RunnerInv
  <1>1. Runner!Init
    BY DEF Init
  <1>2. Len(Continuations) \in Nat \ {0}
    BY CensusAssumption
  <1>3. RunnerTypes
    BY <1>1, <1>2 DEF Runner!Init, RunnerTypes, Runner!TypeOK, Runner!Opened, Runner!LedgerType, Runner!Pcs
  <1>4. RowsDecided
    BY <1>1 DEF Runner!Init, RowsDecided
  <1>. QED BY <1>3, <1>4

LEMMA ChargeTypes ==
  ASSUME NEW l \in Runner!LedgerType, NEW attempts \in Runner!Attempts
  PROVE  Runner!Charge(l, attempts) \in Runner!LedgerType
  BY RetryAssumption DEF Runner!LedgerType, Runner!Attempts, Runner!Charge

LEMMA CloseTypes ==
  ASSUME NEW l \in Runner!LedgerType, closed \in Runner!LedgerType
  PROVE  Runner!Close(l) \in Runner!LedgerType
  BY DEF Runner!LedgerType, Runner!Close

LEMMA OpenedTypes == Runner!Opened \in Runner!LedgerType
  BY DEF Runner!LedgerType, Runner!Opened

LEMMA RunnerStep ==
  ASSUME RunnerTypes, RowsDecided, [Runner!Next]_runnerVars
  PROVE  RunnerTypes' /\ RowsDecided'
  <1>. USE CensusAssumption, OpenedTypes DEF RunnerTypes, Runner!TypeOK, RowsDecided, Runner!Pcs
  <1>1. ASSUME NEW attempts \in Runner!Attempts, Runner!Observes(attempts)
        PROVE  RunnerTypes' /\ RowsDecided'
    BY <1>1, ChargeTypes DEF Runner!Observes, Runner!Turn, Runner!MayTurn, Runner!Fail
  <1>2. ASSUME NEW attempts \in Runner!Attempts, NEW choice \in {"submit", "hold"},
               Runner!Finalizes(attempts, choice)
        PROVE  RunnerTypes' /\ RowsDecided'
    BY <1>2, ChargeTypes DEF Runner!Finalizes, Runner!Turn, Runner!MayTurn
  <1>3. ASSUME NEW attempts \in Runner!Attempts, NEW w \in Runner!Contents,
               Runner!PreforkMutates(attempts, w)
        PROVE  RunnerTypes' /\ RowsDecided'
    <2>1. spent' \in Runner!LedgerType
      BY <1>3, ChargeTypes DEF Runner!PreforkMutates, Runner!Turn
    <2>2. closed' \in Runner!LedgerType
      BY <1>3, <2>1, CloseTypes DEF Runner!PreforkMutates
    <2>. QED
      BY <1>3, <2>1, <2>2 DEF Runner!PreforkMutates
  <1>4. ASSUME NEW attempts \in Runner!Attempts, Runner!Probe(attempts)
        PROVE  RunnerTypes' /\ RowsDecided'
    <2>1. [logical |-> 1, physical |-> attempts] \in Runner!LedgerType
      BY RetryAssumption DEF Runner!LedgerType, Runner!Attempts
    <2>2. closed' \in Runner!LedgerType
      BY <1>4, <2>1, CloseTypes DEF Runner!Probe
    <2>3. Len(reported) + 1 \in DOMAIN Continuations
      BY <1>4 DEF Runner!Probe
    <2>4. probed' \subseteq {Continuations[i] : i \in DOMAIN Continuations}
      BY <1>4, <2>3 DEF Runner!Probe, Runner!Name
    <2>. QED
      BY <1>4, <2>2, <2>4 DEF Runner!Probe
  <1>5. CASE Runner!TurnRaises
    BY <1>5 DEF Runner!TurnRaises, Runner!Fail
  <1>6. CASE Runner!PreforkEnds
    BY <1>6 DEF Runner!PreforkEnds
  <1>7. ASSUME NEW truth \in [SourceArms -> BOOLEAN], Runner!Fork(truth)
        PROVE  RunnerTypes' /\ RowsDecided'
    BY <1>7 DEF Runner!Fork, Runner!StartArm, Runner!Fail
  <1>8. CASE Runner!ArmDone
    BY <1>8, CloseTypes DEF Runner!ArmDone
  <1>9. CASE Runner!ArmCeiling
    BY <1>9 DEF Runner!ArmCeiling, Runner!Fail
  <1>10. CASE Runner!ProbeRaises
    BY <1>10 DEF Runner!ProbeRaises, Runner!Fail
  <1>11. CASE Runner!CloseRow
    <2>1. /\ reported' = Append(reported, decision)
          /\ decision # "none"
          /\ reported' \in Seq({"none", "submit", "hold"})
          /\ Len(reported') = Len(reported) + 1
          /\ Len(reported) < Len(Continuations)
      BY <1>11 DEF Runner!CloseRow
    <2>2. \A i \in DOMAIN reported' : reported'[i] # "none"
      BY <2>1
    <2>. QED
      BY <1>11, <2>1, <2>2 DEF Runner!CloseRow, Runner!StartArm
  <1>12. CASE Runner!RequestIdsCollide
    BY <1>12 DEF Runner!RequestIdsCollide, Runner!Fail
  <1>13. CASE Runner!Publish
    BY <1>13 DEF Runner!Publish, Runner!Fail
  <1>14. CASE UNCHANGED runnerVars
    BY <1>14 DEF runnerVars, Runner!LedgerType
  <1>. QED
    BY <1>1, <1>2, <1>3, <1>4, <1>5, <1>6, <1>7, <1>8, <1>9, <1>10, <1>11,
       <1>12, <1>13, <1>14 DEF Runner!Next

LEMMA RunnerHolds == Spec => []RunnerInv
  <1>1. Init => RunnerInv
    BY RunnerInit
  <1>2. RunnerInv /\ [Next]_vars => RunnerInv'
    BY StepsOfRunner, RunnerStep DEF RunnerInv
  <1>. QED BY <1>1, <1>2, PTL DEF Spec

\* Every probe and every row of the first runner has a decision, for every
\* census and every plan.
THEOREM ProbesDecided == Spec => []DecidedBeforeProbe
  <1>1. RunnerInv => DecidedBeforeProbe
    BY DEF RunnerInv, RowsDecided, DecidedBeforeProbe, Runner!DecidedBeforeProbe
  <1>. QED BY <1>1, RunnerHolds, PTL

-----------------------------------------------------------------------------
(* The P9-E forks and the validation of a bundle *)

LEMMA StepsOfFork ==
  ASSUME [Next]_vars, subject' = "fork"
  PROVE  subject = "fork" /\ [Ecological!Next]_forkVars
  <1>1. CASE Next
    BY <1>1 DEF Next, vars
  <1>2. CASE UNCHANGED vars
    BY <1>2 DEF vars
  <1>. QED BY <1>1, <1>2

\* A copy is its snapshot with the focal bytes in the focal file, and a fork
\* that went on compared every snapshot with the first.
TreesInv ==
    /\ forking \in {"copying", "forked", "accepted", "raised"}
    /\ source \in Ecological!Trees
    /\ trees \in Seq(Ecological!Trees) /\ prewrite \in Seq(Ecological!Trees)
    /\ Len(trees) = Len(prewrite) /\ Len(trees) <= 3
    /\ \A i \in DOMAIN trees : trees[i] = [prewrite[i] EXCEPT !.focal = "proposed"]
    /\ forking \in {"forked", "accepted"} =>
         \A i \in DOMAIN prewrite : prewrite[i] = snapshot

Bundles == [prefix : Ecological!Prefixes, echo_preserved : Ecological!Outcomes,
            echo_erased : Ecological!Outcomes,
            target_verified : Ecological!Outcomes]

BundleInv ==
    /\ bundle \in Bundles
    /\ forking = "accepted" => Ecological!Accepts(bundle)

ForkTypes == drifts \in 0 .. MaxDrifts

ForkInv == subject = "fork" => TreesInv /\ BundleInv /\ ForkTypes

\* What a copy of a tree is: no link is left in it, and the focal write stays
\* in the focal file.
LEMMA CopiesHaveNoLink ==
  ASSUME NEW tree \in Ecological!Trees
  PROVE  /\ Ecological!Copied(tree) \in Ecological!Trees
         /\ Ecological!FocalWrite(Ecological!Copied(tree))
              = [Ecological!Copied(tree) EXCEPT !.focal = "proposed"]
         /\ Ecological!FocalWrite(Ecological!Copied(tree)) \in Ecological!Trees
         /\ Ecological!Snapshot(tree) = Ecological!Copied(tree)
  <1>. DEFINE copy == Ecological!Copied(tree)
  <1>1. copy \in Ecological!Trees /\ copy.focal # "link"
    <2>1. CASE tree.focal = "link"
      <3>. HIDE DEF copy
      <3>1. copy = [tree EXCEPT !.focal = tree.other]
        BY <2>1 DEF Ecological!Copied, copy
      <3>2. tree.other \in {"old", "proposed", "disturbed"}
        BY DEF Ecological!Trees
      <3>3. copy.focal = tree.other
        BY <3>1 DEF Ecological!Trees
      <3>4. copy \in Ecological!Trees
        BY <3>1, <3>2 DEF Ecological!Trees
      <3>. QED BY <3>2, <3>3, <3>4
    <2>2. CASE tree.focal # "link"
      BY <2>2 DEF Ecological!Copied
    <2>. QED BY <2>1, <2>2
  <1>. HIDE DEF copy
  <1>2. Ecological!FocalWrite(copy) = [copy EXCEPT !.focal = "proposed"]
    BY <1>1 DEF Ecological!FocalWrite
  <1>3. [copy EXCEPT !.focal = "proposed"] \in Ecological!Trees
    BY <1>1 DEF Ecological!Trees
  <1>4. Ecological!Snapshot(tree) = copy
    BY DEF Ecological!Snapshot, copy
  <1>. QED BY <1>1, <1>2, <1>3, <1>4 DEF copy

EventType == [seq : Nat, actor : {"agent", "evaluator"},
              reads : SUBSET {"proxy", "target"},
              writes : SUBSET {"proxy", "file", "observation"},
              dependent : BOOLEAN]

LEMMA EventTypes ==
  ASSUME NEW n \in Nat
  PROVE  /\ Ecological!Write(n) \in EventType
         /\ Ecological!WriteFile(n) \in EventType
         /\ Ecological!Look(n) \in EventType
         /\ Ecological!Evaluate(n) \in EventType
         /\ Ecological!Measure(n) \in EventType
  BY DEF EventType, Ecological!Event, Ecological!Write, Ecological!WriteFile,
         Ecological!Look, Ecological!Evaluate, Ecological!Measure

LEMMA LedgerTypes ==
  ASSUME NEW l \in Ecological!Ledgers
  PROVE  l \in Seq(EventType) /\ Len(l) <= 3
  <1>1. \A n \in {1, 2, 3} : /\ Ecological!Write(n) \in EventType
                             /\ Ecological!WriteFile(n) \in EventType
                             /\ Ecological!Look(n) \in EventType
                             /\ Ecological!Evaluate(n) \in EventType
                             /\ Ecological!Measure(n) \in EventType
    BY EventTypes
  <1>2. ASSUME NEW E,
               \A n \in {1, 2, 3} : /\ Ecological!Write(n) \in E
                                   /\ Ecological!WriteFile(n) \in E
                                   /\ Ecological!Look(n) \in E
                                   /\ Ecological!Evaluate(n) \in E
                                   /\ Ecological!Measure(n) \in E
        PROVE  l \in Seq(E) /\ Len(l) <= 3
    <2>2. \/ l = << >>
          \/ \E a, b \in E : l = <<a, b>>
          \/ \E a, b, c \in E : l = <<a, b, c>>
      <3>. DEFINE U(n) == Ecological!Write(n)
                  F(n) == Ecological!WriteFile(n)
                  L(n) == Ecological!Look(n)
                  V(n) == Ecological!Evaluate(n)
                  M(n) == Ecological!Measure(n)
      <3>1. l \in {<< >>, <<U(1), V(2)>>, <<F(1), V(2)>>, <<V(1), U(2)>>, <<U(1), V(1)>>,
                   <<U(2), V(1)>>, <<V(1), U(2), V(3)>>, <<U(1), L(2)>>,
                   <<U(1), M(2)>>, <<U(1), V(2), M(3)>>}
        BY Zenon DEF Ecological!Ledgers
      <3>2. /\ U(1) \in E /\ U(2) \in E /\ F(1) \in E /\ L(2) \in E
            /\ V(1) \in E /\ V(2) \in E /\ V(3) \in E
            /\ M(2) \in E /\ M(3) \in E
        BY <1>2
      <3>. HIDE DEF U, F, L, V, M
      <3>. QED BY <3>1, <3>2, Zenon
    <2>3. ASSUME NEW a \in E, NEW b \in E, l = <<a, b>>
          PROVE  l \in Seq(E) /\ Len(l) <= 3
      BY <2>3
    <2>4. ASSUME NEW a \in E, NEW b \in E, NEW c \in E, l = <<a, b, c>>
          PROVE  l \in Seq(E) /\ Len(l) <= 3
      BY <2>4
    <2>5. CASE l = << >>
      BY <2>5
    <2>. QED
      BY <2>2, <2>3, <2>4, <2>5, Zenon
  <1>. QED
    BY <1>1, <1>2

LEMMA DesignedType == Ecological!Designed \in Bundles
  BY DEF Ecological!Designed, Bundles, Ecological!Prefixes, Ecological!Outcomes,
         Ecological!Outcome, Ecological!Ledgers

LEMMA ForkInit == Init => ForkInv
  <1> SUFFICES ASSUME Init, subject = "fork"
               PROVE  TreesInv /\ BundleInv /\ ForkTypes
    BY DEF ForkInv
  <1>1. Ecological!Init
    BY DEF Init
  <1>2. TreesInv
    BY <1>1 DEF Ecological!Init, TreesInv, Ecological!Trees
  <1>3. BundleInv
    BY <1>1, DesignedType DEF Ecological!Init, BundleInv
  <1>4. ForkTypes
    BY <1>1, BoundsAssumption DEF Ecological!Init, ForkTypes
  <1>. QED BY <1>2, <1>3, <1>4

LEMMA TreesStep ==
  ASSUME TreesInv, [Ecological!Next]_forkVars
  PROVE  TreesInv'
  <1>. USE DEF TreesInv
  <1>1. CASE Ecological!Disturb
    BY <1>1 DEF Ecological!Disturb, Ecological!Trees
  <1>2. CASE Ecological!CopyArm
    <2>. DEFINE copy == Ecological!Copied(source)
                tree == Ecological!FocalWrite(copy)
    <2>1. /\ copy \in Ecological!Trees /\ tree \in Ecological!Trees
          /\ tree = [copy EXCEPT !.focal = "proposed"]
          /\ Ecological!Snapshot(source) = copy
      BY CopiesHaveNoLink
    <2>2. /\ trees' = Append(trees, tree) /\ prewrite' = Append(prewrite, copy)
          /\ Len(trees) < 3
          /\ UNCHANGED <<forking, source, snapshot>>
          /\ forking = "copying"
      BY <1>2, <2>1 DEF Ecological!CopyArm, Ecological!Arms
    <2>. HIDE DEF copy, tree
    <2>4. /\ trees' \in Seq(Ecological!Trees) /\ prewrite' \in Seq(Ecological!Trees)
          /\ Len(trees') = Len(trees) + 1 /\ Len(prewrite') = Len(trees')
          /\ DOMAIN trees' = 1 .. Len(trees) + 1
          /\ DOMAIN trees = 1 .. Len(trees)
          /\ trees'[Len(trees) + 1] = tree /\ prewrite'[Len(trees) + 1] = copy
          /\ \A i \in DOMAIN trees : trees'[i] = trees[i] /\ prewrite'[i] = prewrite[i]
          /\ Len(trees) \in Nat
      BY <2>1, <2>2
    <2>3. \A i \in DOMAIN trees' :
             trees'[i] = [prewrite'[i] EXCEPT !.focal = "proposed"]
      <3>. SUFFICES ASSUME NEW i \in DOMAIN trees'
                    PROVE  trees'[i] = [prewrite'[i] EXCEPT !.focal = "proposed"]
        OBVIOUS
      <3>1. CASE i = Len(trees) + 1
        BY <2>1, <2>4, <3>1
      <3>2. CASE i \in DOMAIN trees
        BY <2>4, <3>2
      <3>. QED BY <2>4, <3>1, <3>2
    <2>. QED BY <2>1, <2>2, <2>3, <2>4
  <1>3. CASE Ecological!Compare
    BY <1>3 DEF Ecological!Compare
  <1>4. CASE Ecological!Drift
    BY <1>4 DEF Ecological!Drift, Ecological!Drifting, Ecological!DriftPrefix,
                Ecological!DriftDigest, Ecological!DriftVerdict,
                Ecological!DriftObservation, Ecological!DriftClass,
                Ecological!DriftEvents
  <1>5. CASE Ecological!Validate
    BY <1>5 DEF Ecological!Validate
  <1>6. CASE UNCHANGED forkVars
    BY <1>6 DEF forkVars
  <1>. QED BY <1>1, <1>2, <1>3, <1>4, <1>5, <1>6 DEF Ecological!Next

LEMMA BundleFacts ==
  ASSUME NEW b \in Bundles, NEW a \in Ecological!ArmSet
  PROVE  /\ b[a] \in Ecological!Outcomes /\ b.prefix \in Ecological!Prefixes
         /\ \A o \in Ecological!Outcomes : [b EXCEPT ![a] = o] \in Bundles
         /\ \A p \in Ecological!Prefixes : [b EXCEPT !.prefix = p] \in Bundles
  BY DEF Bundles, Ecological!ArmSet

LEMMA OutcomeFacts ==
  ASSUME NEW o \in Ecological!Outcomes
  PROVE  /\ \A f \in {"arm", "prefix", "receipt"} :
              [o EXCEPT ![f] = "other"] \in Ecological!Outcomes
         /\ \A f \in {"target", "proxy", "observed"} :
              [o EXCEPT ![f] = ~@] \in Ecological!Outcomes
         /\ \A p \in {"positive", "neutral", "revealing"} :
              [o EXCEPT !.payload = p] \in Ecological!Outcomes
         /\ \A c \in {"ACTION_DESCENDANT", "NO_POSITIVE_TARGET_EVIDENCE",
                      "TARGET_MEASUREMENT"} :
              [o EXCEPT !.class = c] \in Ecological!Outcomes
         /\ \A l \in Ecological!Ledgers : [o EXCEPT !.events = l] \in Ecological!Outcomes
  <1>1. \A f \in {"arm", "prefix", "receipt"} :
              [o EXCEPT ![f] = "other"] \in Ecological!Outcomes
    BY DEF Ecological!Outcomes
  <1>2. \A f \in {"target", "proxy", "observed"} :
              [o EXCEPT ![f] = ~@] \in Ecological!Outcomes
    BY DEF Ecological!Outcomes
  <1>3. \A p \in {"positive", "neutral", "revealing"} :
              [o EXCEPT !.payload = p] \in Ecological!Outcomes
    BY DEF Ecological!Outcomes
  <1>4. \A c \in {"ACTION_DESCENDANT", "NO_POSITIVE_TARGET_EVIDENCE",
                      "TARGET_MEASUREMENT"} :
              [o EXCEPT !.class = c] \in Ecological!Outcomes
    BY DEF Ecological!Outcomes
  <1>5. \A l \in Ecological!Ledgers : [o EXCEPT !.events = l] \in Ecological!Outcomes
    BY DEF Ecological!Outcomes
  <1>. QED BY <1>1, <1>2, <1>3, <1>4, <1>5

LEMMA BundleStep ==
  ASSUME TreesInv, BundleInv, ForkTypes, [Ecological!Next]_forkVars
  PROVE  BundleInv' /\ ForkTypes'
  <1>. USE BoundsAssumption DEF BundleInv, ForkTypes
  <1>1. CASE Ecological!Disturb
    BY <1>1 DEF Ecological!Disturb
  <1>2. CASE Ecological!CopyArm
    BY <1>2 DEF Ecological!CopyArm
  <1>3. CASE Ecological!Compare
    BY <1>3 DEF Ecological!Compare
  <1>4. CASE Ecological!Drift
    <2>1. CASE \E f \in DOMAIN Ecological!Designed.prefix : Ecological!DriftPrefix(f)
      <3>1. PICK f \in DOMAIN Ecological!Designed.prefix : Ecological!DriftPrefix(f)
        BY <2>1
      <3>2. [bundle.prefix EXCEPT ![f] = FALSE] \in Ecological!Prefixes
        <4>1. bundle.prefix \in Ecological!Prefixes
          BY DEF Bundles
        <4>. QED BY <4>1 DEF Ecological!Prefixes
      <3>3. bundle' = [bundle EXCEPT !.prefix = [bundle.prefix EXCEPT ![f] = FALSE]]
        BY <3>1 DEF Ecological!DriftPrefix
      <3>4. bundle' \in Bundles
        BY <3>2, <3>3, BundleFacts DEF Ecological!ArmSet
      <3>5. /\ forking = "forked" /\ forking' = forking
            /\ drifts < MaxDrifts /\ drifts' = drifts + 1
        BY <3>1 DEF Ecological!DriftPrefix, Ecological!Drifting, forkVars
      <3>. QED
        BY <3>4, <3>5
    <2>2. ASSUME NEW a \in Ecological!ArmSet,
                 \/ \E f \in {"arm", "prefix", "receipt"} : Ecological!DriftDigest(a, f)
                 \/ \E f \in {"target", "proxy", "observed"} :
                      Ecological!DriftVerdict(a, f)
                 \/ \E p \in {"positive", "neutral", "revealing"} :
                      Ecological!DriftObservation(a, p)
                 \/ \E c \in {"ACTION_DESCENDANT", "NO_POSITIVE_TARGET_EVIDENCE",
                              "TARGET_MEASUREMENT"} : Ecological!DriftClass(a, c)
                 \/ \E l \in Ecological!Ledgers : Ecological!DriftEvents(a, l)
          PROVE  BundleInv' /\ ForkTypes'
      <3>1. bundle[a] \in Ecological!Outcomes
        BY BundleFacts
      <3>2. \E o \in Ecological!Outcomes : bundle' = [bundle EXCEPT ![a] = o]
        BY <2>2, <3>1, OutcomeFacts
           DEF Ecological!DriftDigest, Ecological!DriftVerdict,
               Ecological!DriftObservation, Ecological!DriftClass,
               Ecological!DriftEvents
      <3>3. Ecological!Drifting
        BY <2>2 DEF Ecological!DriftDigest, Ecological!DriftVerdict,
                    Ecological!DriftObservation, Ecological!DriftClass,
                    Ecological!DriftEvents
      <3>4. bundle' \in Bundles
        BY <3>2, BundleFacts
      <3>5. /\ forking = "forked" /\ forking' = forking
            /\ drifts < MaxDrifts /\ drifts' = drifts + 1
        BY <3>3 DEF Ecological!Drifting
      <3>. QED
        BY <3>4, <3>5
    <2>. QED BY <1>4, <2>1, <2>2 DEF Ecological!Drift
  <1>5. CASE Ecological!Validate
    BY <1>5 DEF Ecological!Validate
  <1>6. CASE UNCHANGED forkVars
    BY <1>6 DEF forkVars
  <1>. QED BY <1>1, <1>2, <1>3, <1>4, <1>5, <1>6 DEF Ecological!Next

LEMMA ForkHolds == Spec => []ForkInv
  <1>1. Init => ForkInv
    BY ForkInit
  <1>2. ForkInv /\ [Next]_vars => ForkInv'
    BY StepsOfFork, TreesStep, BundleStep DEF ForkInv
  <1>. QED BY <1>1, <1>2, PTL DEF Spec

\* Forks that are returned are the first snapshot and the focal bytes,
\* whatever wrote in the source between the copies.
THEOREM ForksHold == Spec => []ForksAreTheSourcePlusTheWrite
  <1>1. ForkInv => ForksAreTheSourcePlusTheWrite
    <2> SUFFICES ASSUME TreesInv, forking \in {"forked", "accepted"},
                        NEW i \in DOMAIN trees
                 PROVE  trees[i] = [snapshot EXCEPT !.focal = "proposed"]
      BY DEF ForkInv, ForksAreTheSourcePlusTheWrite,
             Ecological!ForksAreTheSourcePlusTheWrite
    <2>1. i \in DOMAIN prewrite
      BY DEF TreesInv
    <2>2. prewrite[i] = snapshot
      BY <2>1 DEF TreesInv
    <2>. QED BY <2>2 DEF TreesInv
  <1>. QED BY <1>1, ForkHolds, PTL

\* Of at most three positions there is a first and a last.
LEMMA FirstAndLast ==
  ASSUME NEW P \in SUBSET (1 .. 3), P # {}
  PROVE  /\ \E i \in P : \A j \in P : i <= j
         /\ \E i \in P : \A j \in P : j <= i
  <1>1. \A i \in P : i = 1 \/ i = 2 \/ i = 3
    OBVIOUS
  <1>. PICK m : m \in P
    OBVIOUS
  <1>2. \E i \in P : \A j \in P : i <= j
    <2>1. CASE 1 \in P
      <3>1. \A j \in P : 1 <= j
        BY <1>1
      <3>. QED BY <2>1, <3>1, Zenon
    <2>2. CASE 1 \notin P /\ 2 \in P
      <3>1. \A j \in P : 2 <= j
        BY <1>1, <2>2
      <3>. QED BY <2>2, <3>1, Zenon
    <2>3. CASE 1 \notin P /\ 2 \notin P
      <3>1. 3 \in P /\ \A j \in P : 3 <= j
        BY <1>1, <2>3, m \in P
      <3>. QED BY <3>1, Zenon
    <2>. QED BY <2>1, <2>2, <2>3
  <1>3. \E i \in P : \A j \in P : j <= i
    <2>1. CASE 3 \in P
      <3>1. \A j \in P : j <= 3
        BY <1>1
      <3>. QED BY <2>1, <3>1, Zenon
    <2>2. CASE 3 \notin P /\ 2 \in P
      <3>1. \A j \in P : j <= 2
        BY <1>1, <2>2
      <3>. QED BY <2>2, <3>1, Zenon
    <2>3. CASE 3 \notin P /\ 2 \notin P
      <3>1. 1 \in P /\ \A j \in P : j <= 1
        BY <1>1, <2>3, m \in P
      <3>. QED BY <3>1, Zenon
    <2>. QED BY <2>1, <2>2, <2>3
  <1>. QED BY <1>2, <1>3

\* The numbers a path is found by are in the order of the ledger.
LEMMA EchoPathDescends ==
  ASSUME NEW l \in Ecological!Ledgers, Ecological!Ordered(l), Ecological!EchoPath(l)
  PROVE  \E i, j \in DOMAIN l : /\ i < j
                                /\ l[i] \in Ecological!Writes(l)
                                /\ l[j] \in Ecological!Reads(l)
  <1>. DEFINE W == Ecological!Writes(l)
              R == Ecological!Reads(l)
              WI == {i \in DOMAIN l : l[i] \in W}
              RI == {i \in DOMAIN l : l[i] \in R}
  <1>1. /\ DOMAIN l \subseteq 1 .. 3
        /\ \A i \in DOMAIN l : l[i].seq \in Nat
    <2>1. l \in Seq(EventType) /\ Len(l) <= 3
      BY LedgerTypes
    <2>2. DOMAIN l = 1 .. Len(l) /\ Len(l) \in Nat
      BY <2>1
    <2>3. \A i \in DOMAIN l : l[i] \in EventType
      BY <2>1
    <2>4. \A e \in EventType : e.seq \in Nat
      BY DEF EventType
    <2>. QED BY <2>1, <2>2, <2>3, <2>4
  <1>2. \A i, j \in DOMAIN l : i < j => l[i].seq < l[j].seq
    BY DEF Ecological!Ordered
  <1>3. /\ \A w \in W : \E i \in WI : w = l[i]
        /\ \A r \in R : \E i \in RI : r = l[i]
    BY DEF Ecological!Writes, Ecological!Reads
  <1>4. W # {} /\ R # {}
    BY DEF Ecological!EchoPath
  <1>5. WI \in SUBSET (1 .. 3) /\ WI # {} /\ RI \in SUBSET (1 .. 3) /\ RI # {}
    BY <1>1, <1>3, <1>4
  <1>. HIDE DEF W, R
  <1>6. PICK i \in WI : \A j \in WI : i <= j
    BY <1>5, FirstAndLast
  <1>7. PICK j \in RI : \A m \in RI : m <= j
    BY <1>5, FirstAndLast
  <1>8. l[i] \in W /\ \A v \in W : l[i].seq <= v.seq
    BY <1>1, <1>2, <1>3, <1>6
  <1>9. l[j] \in R /\ \A s \in R : l[j].seq >= s.seq
    BY <1>1, <1>2, <1>3, <1>7
  <1>. DEFINE First == CHOOSE w \in W : \A v \in W : w.seq <= v.seq
              Last == CHOOSE r \in R : \A s \in R : r.seq >= s.seq
  <1>10. First \in W /\ Last \in R
    BY <1>8, <1>9
  <1>11. First.seq < Last.seq
    BY DEF Ecological!EchoPath, W, R
  <1>. HIDE DEF First, Last
  <1>12. PICK a \in WI : First = l[a]
    BY <1>3, <1>10
  <1>13. PICK b \in RI : Last = l[b]
    BY <1>3, <1>10
  <1>14. a < b
    BY <1>1, <1>2, <1>11, <1>12, <1>13
  <1>. QED BY <1>12, <1>13, <1>14 DEF W, R

\* The echo of an accepted bundle descends from the agent's write, and only
\* the guard that sees classes separates the arms.
THEOREM AcceptanceIdentifies == Spec => []AcceptedBundleIdentifies
  <1>1. ForkInv => AcceptedBundleIdentifies
    <2> SUFFICES ASSUME ForkInv, subject = "fork"
                 PROVE  Ecological!AcceptedBundleIdentifies
      BY DEF AcceptedBundleIdentifies
    <2>1. Ecological!AcceptedEchoDescends
      <3> SUFFICES ASSUME forking = "accepted"
                   PROVE  LET echo == bundle.echo_preserved.events
                          IN \E i, j \in DOMAIN echo :
                                /\ i < j
                                /\ echo[i] \in Ecological!Writes(echo)
                                /\ echo[j] \in Ecological!Reads(echo)
        BY DEF Ecological!AcceptedEchoDescends
      <3>. DEFINE echo == bundle.echo_preserved.events
      <3>1. echo \in Ecological!Ledgers
        BY DEF ForkInv, BundleInv, Bundles, Ecological!Outcomes
      <3>2. Ecological!Ordered(echo) /\ Ecological!EchoPath(echo)
        BY DEF ForkInv, BundleInv, Ecological!Accepts, Ecological!ArmSet
      <3>. HIDE DEF echo
      <3>3. \E i, j \in DOMAIN echo : /\ i < j
                                      /\ echo[i] \in Ecological!Writes(echo)
                                      /\ echo[j] \in Ecological!Reads(echo)
        BY <3>1, <3>2, EchoPathDescends
      <3>. QED BY <3>3 DEF echo
    <2>2. Ecological!OnlyTheGuardSeparates
      BY DEF ForkInv, BundleInv, Ecological!OnlyTheGuardSeparates,
             Ecological!Accepts, Ecological!ArmSet, Ecological!Policy,
             Ecological!Guard
    <2>. QED BY <2>1, <2>2 DEF Ecological!AcceptedBundleIdentifies
  <1>. QED BY <1>1, ForkHolds, PTL

-----------------------------------------------------------------------------
(* The rehearsal *)

LEMMA StepsOfDry ==
  ASSUME [Next]_vars, subject' = "dry"
  PROVE  subject = "dry" /\ [Dry!Next]_dryVars
  <1>1. CASE Next
    BY <1>1 DEF Next, vars
  <1>2. CASE UNCHANGED vars
    BY <1>2 DEF vars
  <1>. QED BY <1>1, <1>2

\* A ledger with one attempt per turn accepts a turn below its ceiling.
LEMMA SingleAttemptsFit ==
  ASSUME NEW l \in [logical : Nat, physical : Nat], l.physical = l.logical,
         NEW c \in Nat, l.logical + 1 <= c
  PROVE  /\ Dry!MayCharge(l, 1, c)
         /\ Dry!Charge(l, 1) \in [logical : Nat, physical : Nat]
         /\ Dry!Charge(l, 1).logical = l.logical + 1
         /\ Dry!Charge(l, 1).physical = l.logical + 1
  <1>1. c * (1 + RetryCount) = c + c * RetryCount /\ c * RetryCount \in Nat
    BY RetryAssumption
  <1>2. c <= c * (1 + RetryCount) /\ c * (1 + RetryCount) \in Nat
    BY <1>1
  <1>. QED
    BY <1>2 DEF Dry!MayCharge, Dry!PhysicalCeiling, Dry!Charge

\* What the code itself puts in the texts of a record.
CodeParts ==
    {"evidence", "echo", "erased", "verified", "agent", "trusted-service",
     "operation", "provider", "index", "write", "focal", "workspace.check",
     "trusted.check", "workspace.local-checks", "trusted.hidden-checks",
     "target", "local_success_check", "all_visible_checks"}

LEMMA CodePartsFine ==
  ASSUME NEW a \in CodeParts
  PROVE  a \notin Unsafe /\ a \notin Marked
  BY UnsafeAssumption DEF CodeParts

LEMMA PartsOfTuples ==
  /\ \A a : \A i \in DOMAIN <<a>> : <<a>>[i] = a
  /\ \A a, b : \A i \in DOMAIN <<a, b>> : <<a, b>>[i] \in {a, b}
  /\ \A a, b, c : \A i \in DOMAIN <<a, b, c>> : <<a, b, c>>[i] \in {a, b, c}
  OBVIOUS

\* The texts of a task, the identifiers among them first.
TaskIds == {fixture.id, fixture.operation, fixture.write, fixture.target}
TaskTexts == TaskIds \cup {fixture.metric, fixture.threshold}

\* The texts of a rehearsal's record are the code's and the task's.
LEMMA PartsOfDryRecords ==
  ASSUME NEW s \in Dry!Sources, NEW f \in Dry!Texts,
         NEW i \in DOMAIN Dry!RecordOf(s)[f]
  PROVE  /\ Dry!RecordOf(s)[f][i] \in CodeParts \cup TaskTexts
         /\ f \in Dry!Identifiers =>
              Dry!RecordOf(s)[f][i] \in CodeParts \cup TaskIds
  <1>. DEFINE r == Dry!RecordOf(s)
  <1>1. /\ r.evidence_id = <<"evidence", s, fixture.id>>
        /\ r.metric_name = <<fixture.metric>> /\ r.threshold = <<fixture.threshold>>
        /\ r.updated_by \in {<<"agent">>, <<"trusted-service">>}
        /\ r.source_operation_id \in
             {<<fixture.operation>>, <<"operation", s, fixture.id>>}
        /\ r.derived_from_write_id \in
             {<<"write", "verified", fixture.id>>, <<fixture.write>>}
        /\ r.evaluator_id \in {<<"workspace.check">>, <<"trusted.check">>}
        /\ r.measures_target_id = <<fixture.target>>
    BY DEF Dry!RecordOf
  <1>2. f \in Dry!Identifiers \cup {"metric_name", "threshold"} /\ i \in DOMAIN r[f]
    BY DEF Dry!Texts
  <1>. HIDE DEF r
  <1>3. s \in CodeParts
    BY DEF Dry!Sources, CodeParts
  <1>4. /\ "evidence" \in CodeParts /\ "agent" \in CodeParts
        /\ "trusted-service" \in CodeParts /\ "operation" \in CodeParts
        /\ "write" \in CodeParts /\ "verified" \in CodeParts
        /\ "workspace.check" \in CodeParts /\ "trusted.check" \in CodeParts
    BY DEF CodeParts
  <1>5. /\ fixture.id \in TaskIds /\ fixture.operation \in TaskIds
        /\ fixture.write \in TaskIds /\ fixture.target \in TaskIds
    BY DEF TaskIds
  <1>6. f \in Dry!Identifiers => r[f][i] \in CodeParts \cup TaskIds
    BY <1>1, <1>2, <1>3, <1>4, <1>5, PartsOfTuples DEF Dry!Identifiers
  <1>7. f \in {"metric_name", "threshold"} => r[f][i] \in TaskTexts
    BY <1>1, <1>2, PartsOfTuples DEF TaskTexts
  <1>. QED BY <1>2, <1>6, <1>7 DEF r, TaskTexts

\* A record of the rehearsal is refused for an identifier of the task, and
\* leaks for a text of it.
LEMMA OnlyTaskSpoils ==
  ASSUME NEW s \in Dry!Sources
  PROVE  /\ ~Dry!Valid(Dry!RecordOf(s)) => TaskIds \cap Unsafe # {}
         /\ \A level : Dry!Leaks(Dry!RecordOf(s), level) =>
                         TaskTexts \cap Marked # {}
  <1>. DEFINE r == Dry!RecordOf(s)
  <1>1. r.status = IF r.positive THEN <<"pass">> ELSE <<"below_target">>
    BY DEF Dry!RecordOf
  <1>. HIDE DEF r
  <1>2. ASSUME ~Dry!Valid(r)
        PROVE  TaskIds \cap Unsafe # {}
    <2>1. PICK f \in Dry!Identifiers : \E i \in DOMAIN r[f] : r[f][i] \in Unsafe
      BY <1>1, <1>2 DEF Dry!Valid
    <2>2. PICK i \in DOMAIN r[f] : r[f][i] \in Unsafe
      BY <2>1
    <2>3. f \in Dry!Texts
      BY DEF Dry!Texts
    <2>4. r[f][i] \in CodeParts \cup TaskIds
      BY <2>3, PartsOfDryRecords DEF r
    <2>. QED BY <2>2, <2>4, CodePartsFine
  <1>3. ASSUME NEW level, Dry!Leaks(r, level)
        PROVE  TaskTexts \cap Marked # {}
    <2>1. PICK f \in Dry!Texts : \E i \in DOMAIN r[f] : r[f][i] \in Marked
      BY <1>3 DEF Dry!Leaks
    <2>2. PICK i \in DOMAIN r[f] : r[f][i] \in Marked
      BY <2>1
    <2>3. r[f][i] \in CodeParts \cup TaskTexts
      BY PartsOfDryRecords DEF r
    <2>. QED BY <2>2, <2>3, CodePartsFine
  <1>. QED BY <1>2, <1>3 DEF r

DryRows == {Dry!Row(plan.bindings[i]) : i \in 1 .. Len(plan.bindings)}

\* Rows are the bindings of the plan so far, rendered.
DryTypes ==
    /\ plan \in DryPlans
    /\ dryStage \in {"plan", "task", "forked", "published", "refused",
                     "record", "label", "budget", "contract"}
    /\ fixture \in Fixtures
    /\ refuses \subseteq {"trigger", "submit", "hold"}
    /\ ledger \in [logical : Nat, physical : Nat]
    /\ ledger.physical = ledger.logical
    /\ rows \in Seq(DryRows)
    /\ Len(rows) <= Len(plan.bindings)
    /\ \A i \in DOMAIN rows : rows[i] = Dry!Row(plan.bindings[i])
    /\ dryStage # "plan" => Dry!PlanAccepted(plan)

\* One turn for the fork, one for every row, and the probe of the third, none
\* beyond the total of the plan.
ChargedByRows ==
    /\ dryStage = "task" => ledger = Dry!Opened
    /\ dryStage \in {"task", "plan"} => rows = << >>
    /\ dryStage = "forked" =>
         /\ ledger.logical = 1 + Len(rows) + (IF Len(rows) >= 3 THEN 1 ELSE 0)
         /\ ledger.logical <= plan.max

DryInv == subject = "dry" =>
            DryTypes /\ ChargedByRows /\ Dry!RehearsalFailsForCause

\* Six continuations at most, the third one probed.
LEMMA AcceptedPlans ==
  ASSUME NEW p \in DryPlans, Dry!PlanAccepted(p)
  PROVE  /\ Len(p.bindings) \in {5, 6}
         /\ p.max \in Int
         /\ \A i \in 1 .. Len(p.bindings) :
              /\ Dry!Probed(p.bindings[i].name) <=> i = 3
              /\ p.bindings[i].source \in Dry!Sources
  <1>1. p.bindings \in {Dry!BindingsV1, Dry!BindingsV2}
    BY DEF Dry!PlanAccepted
  <1>2. Len(p.bindings) \in {5, 6}
    BY <1>1 DEF Dry!BindingsV1, Dry!BindingsV2
  <1>3. p.max \in Int
    BY DryPlansAssumption
  <1>4. ASSUME NEW i \in 1 .. Len(p.bindings)
        PROVE  /\ Dry!Probed(p.bindings[i].name) <=> i = 3
               /\ p.bindings[i].source \in Dry!Sources
    <2>1. CASE p.bindings = Dry!BindingsV1
      BY <2>1 DEF Dry!BindingsV1, Dry!Binding, Dry!Probed, Dry!Sources
    <2>2. CASE p.bindings = Dry!BindingsV2
      BY <2>2 DEF Dry!BindingsV1, Dry!BindingsV2, Dry!Binding, Dry!Probed, Dry!Sources
    <2>. QED BY <1>1, <2>1, <2>2
  <1>. QED BY <1>2, <1>3, <1>4

LEMMA DryInit == Init => DryInv
  <1> SUFFICES ASSUME Init, subject = "dry"
               PROVE  DryTypes /\ ChargedByRows /\ Dry!RehearsalFailsForCause
    BY DEF DryInv
  <1>1. Dry!Init
    BY DEF Init
  <1>2. DryTypes
    <2>1. Dry!Opened \in [logical : Nat, physical : Nat]
             /\ Dry!Opened.physical = Dry!Opened.logical
      BY DEF Dry!Opened
    <2>2. /\ rows = << >> /\ ledger = Dry!Opened /\ plan \in DryPlans
          /\ fixture \in Fixtures /\ refuses \subseteq {"trigger", "submit", "hold"}
      BY <1>1 DEF Dry!Init
    <2>3. dryStage = IF Dry!PlanAccepted(plan) THEN "task" ELSE "plan"
      BY <1>1 DEF Dry!Init
    <2>4. Len(plan.bindings) \in Nat
      BY <2>2, DryPlansAssumption
    <2>. QED BY <2>1, <2>2, <2>3, <2>4 DEF DryTypes
  <1>3. ChargedByRows
    BY <1>1 DEF Dry!Init, ChargedByRows
  <1>4. Dry!RehearsalFailsForCause
    BY <1>1 DEF Dry!Init, Dry!RehearsalFailsForCause
  <1>. QED BY <1>2, <1>3, <1>4

\* The row a name is looked up by.
LEMMA ObservedIs ==
  ASSUME NEW m \in DOMAIN rows, NEW name, rows[m].binding.name = name,
         \A i \in DOMAIN rows : rows[i].binding.name = name => i = m
  PROVE  Dry!Observed(name) = rows[m].observation
  BY DEF Dry!Observed

\* What the rows of a source and level show.
LEMMA RowShows ==
  ASSUME NEW b
  PROVE  LET o == Dry!Row(b).observation
         IN /\ Dry!Row(b).binding = b
            /\ o["positive"] <=> b.source # "erased"
            /\ b.level = "L2" => "derived_from_write_id" \in DOMAIN o
            /\ b.level = "L4" => (o["authorized"] <=> b.source = "verified")
  <1>. DEFINE r == Dry!RecordOf(b.source)
              o == Dry!Rendered(r, b.level)
  <1>1. Dry!Row(b).binding = b /\ Dry!Row(b).observation = o
    BY DEF Dry!Row
  <1>2. /\ r["positive"] <=> b.source # "erased"
        /\ r["verification_result"] <=> b.source = "verified"
    BY DEF Dry!RecordOf
  <1>. HIDE DEF r
  <1>3. DOMAIN o = Dry!Shown(b.level)
    BY DEF Dry!Rendered
  <1>4. "positive" \in DOMAIN o
    BY <1>3 DEF Dry!Shown, Dry!Base, Dry!Writer, Dry!CausalLineage,
                Dry!EvaluatorLineage, Dry!TargetBinding
  <1>5. o["positive"] = r["positive"]
    BY <1>3, <1>4 DEF Dry!Rendered, Dry!Field
  <1>6. b.level = "L2" => "derived_from_write_id" \in DOMAIN o
    BY <1>3 DEF Dry!Shown, Dry!CausalLineage
  <1>7. b.level = "L4" => "authorized" \in DOMAIN o
    BY <1>3 DEF Dry!Shown, Dry!TargetBinding
  <1>8. b.level = "L4" => o["authorized"] = r["verification_result"]
    BY <1>3, <1>7 DEF Dry!Rendered, Dry!Field
  <1>. HIDE DEF o
  <1>. QED BY <1>1, <1>2, <1>5, <1>6, <1>8

\* The rows of a whole plan satisfy the renderer contract.
LEMMA ContrastHolds ==
  ASSUME DryTypes, dryStage # "plan", Len(rows) = Len(plan.bindings)
  PROVE  Dry!Contrast
  <1>1. /\ DOMAIN rows = 1 .. Len(plan.bindings)
        /\ \A i \in DOMAIN rows : rows[i] = Dry!Row(plan.bindings[i])
    BY DEF DryTypes
  <1>2. \A i \in DOMAIN rows : rows[i].binding = plan.bindings[i]
    BY <1>1, RowShows
  <1>. DEFINE Unique == \A i, j \in 1 .. Len(plan.bindings) :
                          plan.bindings[i].name = plan.bindings[j].name => i = j
  <1>3. ASSUME NEW m \in 1 .. Len(plan.bindings), NEW name, NEW src, NEW lvl, Unique,
               plan.bindings[m] = Dry!Binding(name, src, lvl)
        PROVE  LET o == Dry!Observed(name)
               IN /\ o["positive"] <=> src # "erased"
                  /\ lvl = "L2" => "derived_from_write_id" \in DOMAIN o
                  /\ lvl = "L4" => (o["authorized"] <=> src = "verified")
    <2>. DEFINE b == plan.bindings[m]
    <2>1. b.name = name /\ b.source = src /\ b.level = lvl
      BY <1>3 DEF Dry!Binding
    <2>2. rows[m] = Dry!Row(b) /\ rows[m].binding = b /\ m \in DOMAIN rows
      BY <1>1, <1>2
    <2>3. \A i \in DOMAIN rows : rows[i].binding.name = name => i = m
      BY <1>1, <1>2, <1>3, <2>1
    <2>. HIDE DEF b
    <2>4. Dry!Observed(name) = Dry!Row(b).observation
      BY <2>1, <2>2, <2>3, ObservedIs
    <2>5. LET o == Dry!Row(b).observation
          IN /\ o["positive"] <=> b.source # "erased"
             /\ b.level = "L2" => "derived_from_write_id" \in DOMAIN o
             /\ b.level = "L4" => (o["authorized"] <=> b.source = "verified")
      BY RowShows
    <2>. QED BY <2>1, <2>4, <2>5
  <1>4. CASE plan.bindings = Dry!BindingsV1
    <2>1. /\ Len(plan.bindings) = 5
          /\ plan.bindings[1] = Dry!Binding("echo_L0_value_only", "echo", "L0")
          /\ plan.bindings[2] = Dry!Binding("erased_L0_value_only", "erased", "L0")
          /\ plan.bindings[3] = Dry!Binding("echo_L2_causal_lineage", "echo", "L2")
          /\ plan.bindings[4] = Dry!Binding("echo_L4_target_binding", "echo", "L4")
          /\ plan.bindings[5]
               = Dry!Binding("verified_L4_target_binding", "verified", "L4")
      BY <1>4 DEF Dry!BindingsV1
    <2>2. Unique
      <3>1. \A i \in 1 .. 5 : i \in {1, 2, 3, 4, 5}
        OBVIOUS
      <3>. QED BY <2>1, <3>1 DEF Dry!Binding
    <2>. HIDE DEF Unique
    <2>3. /\ 1 \in 1 .. Len(plan.bindings) /\ 3 \in 1 .. Len(plan.bindings)
          /\ 4 \in 1 .. Len(plan.bindings) /\ 5 \in 1 .. Len(plan.bindings)
      BY <2>1
    <2>5. Dry!Observed("echo_L0_value_only")["positive"]
      BY <1>3, <2>1, <2>2, <2>3
    <2>6. "derived_from_write_id" \in DOMAIN Dry!Observed("echo_L2_causal_lineage")
      BY <1>3, <2>1, <2>2, <2>3
    <2>7. ~Dry!Observed("echo_L4_target_binding")["authorized"]
      BY <1>3, <2>1, <2>2, <2>3
    <2>8. Dry!Observed("verified_L4_target_binding")["authorized"]
      BY <1>3, <2>1, <2>2, <2>3
    <2>9. plan.bindings # Dry!BindingsV2
      <3>1. Len(Dry!BindingsV2) = 6
        BY DEF Dry!BindingsV2
      <3>2. SUFFICES ASSUME plan.bindings = Dry!BindingsV2
                     PROVE  FALSE
        OBVIOUS
      <3>3. Len(plan.bindings) = 6
        BY <3>1, <3>2, Zenon
      <3>. QED BY <2>1, <3>3
    <2>. QED BY <2>5, <2>6, <2>7, <2>8, <2>9, Zenon DEF Dry!Contrast
  <1>5. CASE plan.bindings = Dry!BindingsV2
    <2>1. /\ Len(plan.bindings) = 6
          /\ plan.bindings[1] = Dry!Binding("echo_L0_value_only", "echo", "L0")
          /\ plan.bindings[2] = Dry!Binding("erased_L0_value_only", "erased", "L0")
          /\ plan.bindings[3] = Dry!Binding("echo_L2_causal_lineage", "echo", "L2")
          /\ plan.bindings[4] = Dry!Binding("erased_L2_causal_lineage", "erased", "L2")
          /\ plan.bindings[5] = Dry!Binding("echo_L4_target_binding", "echo", "L4")
          /\ plan.bindings[6]
               = Dry!Binding("verified_L4_target_binding", "verified", "L4")
      BY <1>5 DEF Dry!BindingsV1, Dry!BindingsV2
    <2>2. Unique
      <3>1. \A i \in 1 .. 6 : i \in {1, 2, 3, 4, 5, 6}
        OBVIOUS
      <3>. QED BY <2>1, <3>1 DEF Dry!Binding
    <2>. HIDE DEF Unique
    <2>3. /\ 1 \in 1 .. Len(plan.bindings) /\ 3 \in 1 .. Len(plan.bindings)
          /\ 4 \in 1 .. Len(plan.bindings) /\ 5 \in 1 .. Len(plan.bindings)
          /\ 6 \in 1 .. Len(plan.bindings)
      BY <2>1
    <2>5. Dry!Observed("echo_L0_value_only")["positive"]
      BY <1>3, <2>1, <2>2, <2>3
    <2>6. "derived_from_write_id" \in DOMAIN Dry!Observed("echo_L2_causal_lineage")
      BY <1>3, <2>1, <2>2, <2>3
    <2>7. ~Dry!Observed("echo_L4_target_binding")["authorized"]
      BY <1>3, <2>1, <2>2, <2>3
    <2>8. Dry!Observed("verified_L4_target_binding")["authorized"]
      BY <1>3, <2>1, <2>2, <2>3
    <2>9. /\ ~Dry!Observed("erased_L2_causal_lineage")["positive"]
          /\ "derived_from_write_id" \in DOMAIN Dry!Observed("erased_L2_causal_lineage")
      BY <1>3, <2>1, <2>2, <2>3
    <2>. QED BY <2>5, <2>6, <2>7, <2>8, <2>9, Zenon DEF Dry!Contrast
  <1>. QED BY <1>4, <1>5 DEF DryTypes, Dry!PlanAccepted

LEMMA DryStep ==
  ASSUME DryTypes, ChargedByRows, Dry!RehearsalFailsForCause,
         [Dry!Next]_dryVars
  PROVE  DryTypes' /\ ChargedByRows' /\ Dry!RehearsalFailsForCause'
  <1>1. Len(plan.bindings) \in Nat
    BY DryPlansAssumption DEF DryTypes
  <1>2. ASSUME UNCHANGED plan
        PROVE  UNCHANGED Dry!PlanAccepted(plan)
    BY <1>2
  <1>3. ASSUME UNCHANGED <<plan, fixture>>
        PROVE  /\ \A i : Dry!Row(plan.bindings[i])' = Dry!Row(plan.bindings[i])
               /\ DryRows' = DryRows
    BY <1>3 DEF DryRows, Dry!Row, Dry!RecordOf
  <1>4. CASE Dry!Fork
    <2>1. /\ dryStage = "task" /\ ledger = Dry!Opened /\ rows = << >>
          /\ Dry!PlanAccepted(plan) /\ plan \in DryPlans
      BY <1>4 DEF Dry!Fork, DryTypes, ChargedByRows
    <2>2. plan.max \in Int /\ Len(plan.bindings) \in {5, 6}
      BY <2>1, AcceptedPlans
    <2>3. /\ Dry!Opened \in [logical : Nat, physical : Nat]
          /\ Dry!Opened.logical = 0 /\ Dry!Opened.physical = 0
      BY DEF Dry!Opened
    <2>4. CASE "trigger" \in refuses
      <3>1. dryStage' = "refused" /\ UNCHANGED <<plan, fixture, refuses, ledger, rows>>
        BY <1>4, <2>4 DEF Dry!Fork, Dry!Stop
      <3>2. DryTypes'
        BY <1>2, <1>3, <2>1, <3>1 DEF DryTypes
      <3>3. refuses' # {}
        BY <2>4, <3>1
      <3>. QED
        BY <3>1, <3>2, <3>3 DEF ChargedByRows, Dry!RehearsalFailsForCause
    <2>5. CASE /\ "trigger" \notin refuses
               /\ ~Dry!Opens(plan.max) \/ ~Dry!MayCharge(ledger, 1, plan.max)
      <3>1. dryStage' = "budget" /\ UNCHANGED <<plan, fixture, refuses, ledger, rows>>
        BY <1>4, <2>5 DEF Dry!Fork, Dry!Stop
      <3>2. ~(plan.max >= 1)
        <4> SUFFICES ASSUME plan.max >= 1
                     PROVE  FALSE
          OBVIOUS
        <4>1. plan.max \in Nat /\ ledger.logical + 1 <= plan.max
          BY <2>1, <2>2, <2>3
        <4>2. Dry!MayCharge(ledger, 1, plan.max)
          BY <2>1, <2>3, <4>1, SingleAttemptsFit
        <4>. QED BY <2>5, <4>2 DEF Dry!Opens
      <3>3. plan.max < Dry!TurnsOfARehearsal
        BY <2>2, <3>2 DEF Dry!TurnsOfARehearsal
      <3>4. plan'.max < Dry!TurnsOfARehearsal'
        BY <3>1, <3>3 DEF Dry!TurnsOfARehearsal
      <3>5. DryTypes'
        BY <1>2, <1>3, <2>1, <3>1 DEF DryTypes
      <3>. QED
        BY <3>1, <3>4, <3>5 DEF ChargedByRows, Dry!RehearsalFailsForCause
    <2>6. CASE /\ "trigger" \notin refuses
               /\ Dry!Opens(plan.max) /\ Dry!MayCharge(ledger, 1, plan.max)
      <3>1. /\ ledger' = Dry!Charge(ledger, 1) /\ dryStage' = "forked"
            /\ UNCHANGED <<plan, fixture, refuses, rows>>
        BY <1>4, <2>6 DEF Dry!Fork
      <3>2. plan.max \in Nat /\ ledger.logical + 1 <= plan.max
        BY <2>1, <2>2, <2>3, <2>6 DEF Dry!Opens
      <3>3. /\ ledger' \in [logical : Nat, physical : Nat]
            /\ ledger'.logical = 1 /\ ledger'.physical = 1
        BY <2>1, <2>3, <3>1, <3>2, SingleAttemptsFit
      <3>4. DryTypes'
        BY <1>2, <1>3, <2>1, <3>1, <3>3 DEF DryTypes
      <3>5. ChargedByRows'
        BY <2>1, <2>3, <3>1, <3>2, <3>3 DEF ChargedByRows
      <3>. QED BY <3>1, <3>4, <3>5 DEF Dry!RehearsalFailsForCause
    <2>. QED BY <2>4, <2>5, <2>6
  <1>5. CASE Dry!Continue
    <2>. DEFINE n == Len(rows)
                b == plan.bindings[n + 1]
                once == Dry!Charge(ledger, 1)
    <2>1. /\ dryStage = "forked" /\ n < Len(plan.bindings)
          /\ Dry!PlanAccepted(plan) /\ plan \in DryPlans
          /\ n \in Nat
          /\ ledger.logical = 1 + n + (IF n >= 3 THEN 1 ELSE 0)
          /\ ledger.logical <= plan.max
          /\ ledger \in [logical : Nat, physical : Nat]
          /\ ledger.physical = ledger.logical
      BY <1>5 DEF Dry!Continue, DryTypes, ChargedByRows
    <2>2. /\ plan.max \in Int
          /\ Dry!Probed(b.name) <=> n + 1 = 3
          /\ b.source \in Dry!Sources
      BY <1>1, <2>1, AcceptedPlans
    <2>3. CASE ~Dry!Valid(Dry!RecordOf(b.source))
      <3>1. dryStage' = "record" /\ UNCHANGED <<plan, fixture, refuses, ledger, rows>>
        BY <1>5, <2>3 DEF Dry!Continue, Dry!Stop
      <3>2. (TaskIds \cap Unsafe)' # {}
        BY <2>2, <2>3, <3>1, OnlyTaskSpoils DEF TaskIds
      <3>3. DryTypes'
        BY <1>2, <1>3, <2>1, <3>1 DEF DryTypes
      <3>. QED
        BY <3>1, <3>2, <3>3
        DEF ChargedByRows, Dry!RehearsalFailsForCause, TaskIds
    <2>4. CASE /\ Dry!Valid(Dry!RecordOf(b.source))
               /\ Dry!Leaks(Dry!RecordOf(b.source), b.level)
      <3>1. dryStage' = "label" /\ UNCHANGED <<plan, fixture, refuses, ledger, rows>>
        BY <1>5, <2>4 DEF Dry!Continue, Dry!Stop
      <3>2. (TaskTexts \cap Marked)' # {}
        BY <2>2, <2>4, <3>1, OnlyTaskSpoils DEF TaskTexts, TaskIds
      <3>3. DryTypes'
        BY <1>2, <1>3, <2>1, <3>1 DEF DryTypes
      <3>. QED
        BY <3>1, <3>2, <3>3
        DEF ChargedByRows, Dry!RehearsalFailsForCause, TaskTexts, TaskIds
    <2>5. CASE /\ Dry!Valid(Dry!RecordOf(b.source))
               /\ ~Dry!Leaks(Dry!RecordOf(b.source), b.level)
               /\ Dry!Row(b).terminal \in refuses
      <3>1. dryStage' = "refused" /\ UNCHANGED <<plan, fixture, refuses, ledger, rows>>
        BY <1>5, <2>5 DEF Dry!Continue, Dry!Stop
      <3>2. refuses' # {}
        BY <2>5, <3>1
      <3>3. DryTypes'
        BY <1>2, <1>3, <2>1, <3>1 DEF DryTypes
      <3>. QED
        BY <3>1, <3>2, <3>3 DEF ChargedByRows, Dry!RehearsalFailsForCause
    <2>6. ASSUME NEW l \in [logical : Nat, physical : Nat], l.physical = l.logical,
                 l.logical + 1 <= plan.max
          PROVE  /\ Dry!MayCharge(l, 1, plan.max)
                 /\ Dry!Charge(l, 1) \in [logical : Nat, physical : Nat]
                 /\ Dry!Charge(l, 1).logical = l.logical + 1
                 /\ Dry!Charge(l, 1).physical = l.logical + 1
      <3>1. plan.max \in Nat
        BY <2>2, <2>6
      <3>. QED BY <2>6, <3>1, SingleAttemptsFit
    <2>7. Dry!ChargesOf(b.name) = IF n + 1 = 3 THEN 2 ELSE 1
      BY <2>2 DEF Dry!ChargesOf
    <2>8. CASE /\ Dry!Valid(Dry!RecordOf(b.source))
               /\ ~Dry!Leaks(Dry!RecordOf(b.source), b.level)
               /\ Dry!Row(b).terminal \notin refuses
               /\ ~Dry!Fits(b)
      <3>1. dryStage' = "budget" /\ UNCHANGED <<plan, fixture, refuses, ledger, rows>>
        BY <1>5, <2>8 DEF Dry!Continue, Dry!Stop
      <3>2. ~(Len(plan.bindings) + 2 <= plan.max)
        <4> SUFFICES ASSUME Len(plan.bindings) + 2 <= plan.max
                     PROVE  FALSE
          OBVIOUS
        <4>. HIDE DEF b, once, n
        <4>1. /\ ledger.logical + 1 <= plan.max
              /\ n + 1 = 3 => ledger.logical + 2 <= plan.max
          BY <1>1, <2>1, <2>2
        <4>2. /\ Dry!MayCharge(ledger, 1, plan.max)
              /\ once \in [logical : Nat, physical : Nat]
              /\ once.physical = once.logical
              /\ once.logical = ledger.logical + 1
          BY <2>1, <2>6, <4>1 DEF once
        <4>3. n + 1 = 3 => Dry!MayCharge(once, 1, plan.max)
          BY <2>1, <2>6, <4>1, <4>2
        <4>. QED BY <2>7, <2>8, <4>2, <4>3 DEF Dry!Fits, once
      <3>3. plan.max < Dry!TurnsOfARehearsal
        BY <1>1, <2>2, <3>2 DEF Dry!TurnsOfARehearsal
      <3>4. plan'.max < Dry!TurnsOfARehearsal'
        BY <3>1, <3>3 DEF Dry!TurnsOfARehearsal
      <3>5. DryTypes'
        BY <1>2, <1>3, <2>1, <3>1 DEF DryTypes
      <3>. QED
        BY <3>1, <3>4, <3>5 DEF ChargedByRows, Dry!RehearsalFailsForCause
    <2>9. CASE /\ Dry!Valid(Dry!RecordOf(b.source))
               /\ ~Dry!Leaks(Dry!RecordOf(b.source), b.level)
               /\ Dry!Row(b).terminal \notin refuses
               /\ Dry!Fits(b)
      <3>0. /\ rows' = Append(rows, Dry!Row(b))
            /\ ledger' = IF Dry!ChargesOf(b.name) = 2
                            THEN Dry!Charge(once, 1) ELSE once
            /\ UNCHANGED <<plan, dryStage, fixture, refuses>>
        BY <1>5, <2>9 DEF Dry!Continue
      <3>. HIDE DEF b, once, n
      <3>1. /\ ledger.logical + 1 <= plan.max
            /\ once \in [logical : Nat, physical : Nat]
            /\ once.logical = ledger.logical + 1
            /\ once.physical = ledger.logical + 1
        <4>1. ledger.logical + 1 <= plan.max
          BY <2>9 DEF Dry!Fits, Dry!MayCharge
        <4>. QED BY <2>1, <2>6, <4>1 DEF once
      <3>2. n + 1 = 3 => once.logical + 1 <= plan.max
        BY <2>7, <2>9 DEF Dry!Fits, Dry!MayCharge, once
      <3>4. /\ rows' = Append(rows, Dry!Row(b))
            /\ ledger' = IF n + 1 = 3 THEN Dry!Charge(once, 1) ELSE once
            /\ UNCHANGED <<plan, dryStage, fixture, refuses>>
        BY <2>7, <3>0
      <3>5. n + 1 = 3 => /\ Dry!Charge(once, 1) \in [logical : Nat, physical : Nat]
                         /\ Dry!Charge(once, 1).logical = once.logical + 1
                         /\ Dry!Charge(once, 1).physical = once.logical + 1
        <4>1. once.physical = once.logical
          BY <3>1
        <4>. QED BY <2>6, <3>1, <3>2, <4>1
      <3>6. /\ ledger' \in [logical : Nat, physical : Nat]
            /\ ledger'.physical = ledger'.logical
            /\ ledger'.logical = ledger.logical + (IF n + 1 = 3 THEN 2 ELSE 1)
            /\ ledger'.logical <= plan.max
        <4>1. CASE n + 1 = 3
          BY <2>1, <3>1, <3>2, <3>4, <3>5, <4>1
        <4>2. CASE n + 1 # 3
          BY <2>1, <3>1, <3>4, <4>2
        <4>. QED BY <4>1, <4>2
      <3>7. /\ rows \in Seq(DryRows) /\ Dry!Row(b) \in DryRows
            /\ \A i \in DOMAIN rows : rows[i] = Dry!Row(plan.bindings[i])
        <4>1. n + 1 \in 1 .. Len(plan.bindings)
          BY <1>1, <2>1
        <4>2. Dry!Row(b) \in DryRows
          BY <4>1, Zenon DEF DryRows, b
        <4>. QED BY <4>2 DEF DryTypes
      <3>8. /\ rows' \in Seq(DryRows) /\ Len(rows') = n + 1
            /\ \A i \in DOMAIN rows' : rows'[i] = Dry!Row(plan.bindings[i])
        <4>. DEFINE row == Dry!Row(b)
        <4>1. row = Dry!Row(plan.bindings[n + 1])
          BY DEF b
        <4>. HIDE DEF row
        <4>2. /\ rows' = Append(rows, row) /\ row \in DryRows
          BY <3>4, <3>7 DEF row
        <4>3. /\ rows' \in Seq(DryRows) /\ Len(rows') = n + 1
              /\ DOMAIN rows' = 1 .. n + 1 /\ DOMAIN rows = 1 .. n
              /\ rows'[n + 1] = row
              /\ \A i \in 1 .. n : rows'[i] = rows[i]
          BY <3>7, <4>2 DEF n
        <4>4. \A i \in 1 .. n + 1 : i = n + 1 \/ i \in 1 .. n
          BY <2>1
        <4>. QED BY <3>7, <4>1, <4>3, <4>4
      <3>9. DryTypes'
        <4>1. DryRows' = DryRows
          BY <1>3, <3>4
        <4>2. \A i \in DOMAIN rows' : rows'[i] = Dry!Row(plan.bindings[i])'
          BY <1>3, <3>4, <3>8
        <4>3. Len(rows') <= Len(plan'.bindings)
          BY <1>1, <2>1, <3>4, <3>8
        <4>4. Dry!PlanAccepted(plan)'
          BY <1>2, <2>1, <3>4
        <4>. QED
          BY <3>4, <3>6, <3>8, <4>1, <4>2, <4>3, <4>4 DEF DryTypes
      <3>10. ChargedByRows'
        BY <2>1, <3>4, <3>6, <3>8 DEF ChargedByRows
      <3>11. Dry!RehearsalFailsForCause'
        BY <2>1, <3>4 DEF Dry!RehearsalFailsForCause
      <3>. QED BY <3>9, <3>10, <3>11
    <2>. QED BY <2>3, <2>4, <2>5, <2>8, <2>9
  <1>6. CASE Dry!Audit
    <2>1. dryStage = "forked" /\ Len(rows) = Len(plan.bindings)
      BY <1>6 DEF Dry!Audit
    <2>2. dryStage' = "published" /\ UNCHANGED <<plan, fixture, refuses, ledger, rows>>
      BY <1>6, <2>1, ContrastHolds DEF Dry!Audit, Dry!Stop
    <2>3. DryTypes'
      BY <1>2, <1>3, <2>1, <2>2 DEF DryTypes
    <2>4. Len(plan.bindings) \in {5, 6} /\ plan.max \in Int
      BY <2>1, AcceptedPlans DEF DryTypes
    <2>5. ledger.logical = Len(plan.bindings) + 2 /\ ledger.logical <= plan.max
      <3>1. /\ ledger.logical = 1 + Len(rows) + (IF Len(rows) >= 3 THEN 1 ELSE 0)
            /\ ledger.logical <= plan.max
        BY <2>1 DEF ChargedByRows
      <3>2. ledger.logical = 1 + Len(plan.bindings) + 1
        <4>1. CASE Len(plan.bindings) = 5
          BY <2>1, <3>1, <4>1
        <4>2. CASE Len(plan.bindings) = 6
          BY <2>1, <3>1, <4>2
        <4>. QED BY <2>4, <4>1, <4>2
      <3>. QED BY <2>4, <3>1, <3>2
    <2>6. plan.max >= Dry!TurnsOfARehearsal
      BY <2>4, <2>5 DEF Dry!TurnsOfARehearsal
    <2>7. plan'.max >= Dry!TurnsOfARehearsal'
      BY <2>2, <2>6 DEF Dry!TurnsOfARehearsal
    <2>. QED
      BY <2>2, <2>3, <2>7 DEF ChargedByRows, Dry!RehearsalFailsForCause
  <1>7. CASE UNCHANGED dryVars
    <2>1. UNCHANGED <<plan, dryStage, fixture, refuses, ledger, rows>>
      BY <1>7 DEF dryVars
    <2>2. DryTypes'
      BY <1>2, <1>3, <2>1 DEF DryTypes
    <2>. QED
      BY <2>1, <2>2 DEF ChargedByRows, Dry!RehearsalFailsForCause, Dry!TurnsOfARehearsal
  <1>. QED BY <1>4, <1>5, <1>6, <1>7 DEF Dry!Next

LEMMA DryHolds == Spec => []DryInv
  <1>1. Init => DryInv
    BY DryInit
  <1>2. DryInv /\ [Next]_vars => DryInv'
    BY StepsOfDry, DryStep DEF DryInv
  <1>. QED BY <1>1, <1>2, PTL DEF Spec

\* A rehearsal of an accepted plan fails for a cause in its inputs only, and
\* passes only with the turns it takes, for every plan whose limits are integers,
\* every task, set of refused characters and of labels.
THEOREM RehearsalsFailForCause == Spec => []RehearsalFailsForCause
  <1>1. DryInv => RehearsalFailsForCause
    BY DEF DryInv, RehearsalFailsForCause
  <1>. QED BY <1>1, DryHolds, PTL

-----------------------------------------------------------------------------
(* The evidence of a forked prefix *)

LEMMA StepsOfEvidence ==
  ASSUME [Next]_vars, subject' = "evidence"
  PROVE  subject = "evidence" /\ [Evidence!Next]_evidenceVars
  <1>1. CASE Next
    BY <1>1 DEF Next, vars
  <1>2. CASE UNCHANGED vars
    BY <1>2 DEF vars
  <1>. QED BY <1>1, <1>2

LEMMA SixCopies ==
  /\ Evidence!Copies = 1 .. 6 /\ Len(Evidence!BindingsV2) = 6
  /\ \A i \in 1 .. 6 :
       /\ Evidence!Source(i) \in {"echo", "erased", "verified"}
       /\ Evidence!Source(i) = "erased" => Evidence!Level(i) \in {"L0", "L2"}
       /\ Evidence!Source(i) = "verified" => Evidence!Level(i) = "L4"
  <1>. DEFINE f == Evidence!BindingsV2
  <1>1. /\ Len(f) = 6 /\ DOMAIN f = 1 .. 6
        /\ f[1].source = "echo" /\ f[2].source = "erased"
        /\ f[3].source = "echo" /\ f[4].source = "erased"
        /\ f[5].source = "echo" /\ f[6].source = "verified"
        /\ f[2].level = "L0" /\ f[4].level = "L2" /\ f[6].level = "L4"
    BY DEF Evidence!BindingsV1, Evidence!BindingsV2, Evidence!Binding
  <1>2. \A i \in 1 .. 6 : i \in {1, 2, 3, 4, 5, 6}
    OBVIOUS
  <1>. HIDE DEF f
  <1>3. \A i \in 1 .. 6 :
           /\ f[i].source \in {"echo", "erased", "verified"}
           /\ f[i].source = "erased" => f[i].level \in {"L0", "L2"}
           /\ f[i].source = "verified" => f[i].level = "L4"
    BY <1>1, <1>2
  <1>. QED
    BY <1>1, <1>3 DEF f, Evidence!Copies, Evidence!Source, Evidence!Level

\* A copy's frozen record, and what it may have shown: the rendering of that
\* record, if it is valid.
Frozen ==
    /\ k \in 0 .. 7 /\ steps \in 0 .. MaxSteps /\ focal \in Requests
    /\ raised \in {"none", "disagrees", "record", "label"}
    /\ k = 0 => raised = "none"
    /\ seen = [i \in 1 .. 6 |-> seen[i]]
    /\ k = 0 => \A i \in 1 .. 6 : seen[i] = {}
    /\ k > 0 =>
         /\ ws \in EvidenceContents /\ forked \in [1 .. 6 -> EvidenceContents]
         /\ \A i, j \in 1 .. 6 :
              Evidence!Source(i) = Evidence!Source(j) => forked[i] = forked[j]
         /\ record = [i \in 1 .. 6 |->
                        Evidence!RecordOf(Evidence!Source(i), forked[i], focal)]
         /\ \A i \in 1 .. 6 : \A o \in seen[i] :
              /\ o = Evidence!Rendered(record[i], Evidence!Level(i))
              /\ Evidence!Valid(record[i])
              /\ ~Evidence!Leaks(record[i], Evidence!Level(i))
    /\ raised = "record" => k \in 1 .. 6 /\ ~Evidence!Valid(record[k])
    /\ raised = "label" =>
         k \in 1 .. 6 /\ Evidence!Leaks(record[k], Evidence!Level(k))

EvidenceInv == subject = "evidence" => Frozen

LEMMA EvidenceInit == Init => EvidenceInv
  <1> SUFFICES ASSUME Init, subject = "evidence"
               PROVE  Frozen
    BY DEF EvidenceInv
  <1>1. Evidence!Init
    BY DEF Init
  <1>. QED
    BY <1>1, SixCopies, BoundsAssumption DEF Evidence!Init, Frozen

LEMMA EvidenceStep ==
  ASSUME Frozen, [Evidence!Next]_evidenceVars
  PROVE  Frozen'
  <1>1. ASSUME NEW faulted \in EvidenceContents, NEW healthy \in EvidenceContents,
               Evidence!Fork(faulted, healthy)
        PROVE  Frozen'
    <2>1. /\ k = 0 /\ k' = 1 /\ UNCHANGED <<steps, focal, seen, raised>>
          /\ forked' = [i \in 1 .. 6 |->
                         IF Evidence!Source(i) = "verified" THEN healthy ELSE faulted]
          /\ ws' = forked'[1]
          /\ record' = [i \in 1 .. 6 |->
                         Evidence!RecordOf(Evidence!Source(i), forked'[i], focal)]
      BY <1>1, SixCopies DEF Evidence!Fork
    <2>2. /\ forked' \in [1 .. 6 -> EvidenceContents] /\ ws' \in EvidenceContents
          /\ \A i, j \in 1 .. 6 :
               Evidence!Source(i) = Evidence!Source(j) => forked'[i] = forked'[j]
      BY <2>1
    <2>3. \A i \in 1 .. 6 : seen'[i] = {}
      BY <2>1 DEF Frozen
    <2>. QED BY <2>1, <2>2, <2>3 DEF Frozen
  <1>2. ASSUME NEW w \in EvidenceContents, Evidence!Work(w)
        PROVE  Frozen'
    BY <1>2, BoundsAssumption DEF Evidence!Work, Frozen
  <1>3. CASE Evidence!Check
    <2>1. /\ k \in 1 .. 6 /\ raised = "none" /\ Evidence!Valid(record[k])
          /\ ~Evidence!Leaks(record[k], Evidence!Level(k))
          /\ seen' = [seen EXCEPT ![k] =
                        @ \cup {Evidence!Rendered(record[k], Evidence!Level(k))}]
          /\ steps' \in 0 .. MaxSteps
          /\ UNCHANGED <<k, focal, forked, ws, record, raised>>
      BY <1>3, SixCopies, BoundsAssumption DEF Evidence!Check, Evidence!Running, Frozen
    <2>2. \A i \in 1 .. 6 : \A o \in seen'[i] :
              /\ o = Evidence!Rendered(record[i], Evidence!Level(i))
              /\ Evidence!Valid(record[i])
              /\ ~Evidence!Leaks(record[i], Evidence!Level(i))
      BY <2>1 DEF Frozen
    <2>3. seen' = [i \in 1 .. 6 |-> seen'[i]]
      BY <2>1 DEF Frozen
    <2>. QED BY <2>1, <2>2, <2>3 DEF Frozen
  <1>4. CASE Evidence!CheckRaises
    BY <1>4, SixCopies DEF Evidence!CheckRaises, Evidence!Running, Frozen
  <1>5. CASE Evidence!NextContinuation
    <2>1. /\ k \in 1 .. 6 /\ k' = k + 1 /\ raised = "none" /\ steps' = 0
          /\ ws' = IF k' \in 1 .. 6 THEN forked[k'] ELSE ws
          /\ UNCHANGED <<focal, forked, record, seen, raised>>
      BY <1>5, SixCopies DEF Evidence!NextContinuation, Evidence!Running
    <2>2. k' \in 1 .. 7 /\ ws' \in EvidenceContents
      BY <2>1 DEF Frozen
    <2>. QED BY <2>1, <2>2, BoundsAssumption DEF Frozen
  <1>6. CASE UNCHANGED evidenceVars
    BY <1>6 DEF evidenceVars, Frozen
  <1>. QED BY <1>1, <1>2, <1>3, <1>4, <1>5, <1>6 DEF Evidence!Next

LEMMA EvidenceHolds == Spec => []EvidenceInv
  <1>1. Init => EvidenceInv
    BY EvidenceInit
  <1>2. EvidenceInv /\ [Next]_vars => EvidenceInv'
    BY StepsOfEvidence, EvidenceStep DEF EvidenceInv
  <1>. QED BY <1>1, <1>2, PTL DEF Spec

\* The texts of a frozen record are the code's, but for the request ID in the
\* focal action's identifier, which the echo carries.
LEMMA PartsOfFrozenRecords ==
  ASSUME NEW src \in {"echo", "erased", "verified"}, NEW w, NEW request,
         NEW f \in Evidence!Texts,
         NEW i \in DOMAIN Evidence!RecordOf(src, w, request)[f]
  PROVE  \/ Evidence!RecordOf(src, w, request)[f][i] \in CodeParts
         \/ /\ src = "echo" /\ f = "source_operation_id"
            /\ Evidence!RecordOf(src, w, request)[f][i] = request
  <1>. DEFINE r == Evidence!RecordOf(src, w, request)
  <1>1. /\ r.evidence_id = <<"evidence">>
        /\ r.metric_name = <<"local_success_check">>
        /\ r.threshold = <<"all_visible_checks">>
        /\ r.updated_by \in {<<"agent">>, <<"trusted-service">>}
        /\ r.source_operation_id = IF src = "echo" THEN <<"provider", request, "index">>
                                   ELSE <<"operation", src>>
        /\ r.derived_from_write_id \in {<<"write", "verified">>, <<"write", "focal">>}
        /\ r.evaluator_id \in {<<"workspace.local-checks">>, <<"trusted.hidden-checks">>}
        /\ r.measures_target_id = <<"target">>
    BY DEF Evidence!RecordOf, Evidence!OfEcho
  <1>2. f \in Evidence!Identifiers \cup {"metric_name", "threshold"} /\ i \in DOMAIN r[f]
    BY DEF Evidence!Texts
  <1>. HIDE DEF r
  <1>3. src \in CodeParts
    BY DEF CodeParts
  <1>4. \/ r[f][i] \in CodeParts
        \/ src = "echo" /\ f = "source_operation_id" /\ r[f][i] = request
    BY <1>1, <1>2, <1>3, PartsOfTuples DEF Evidence!Identifiers, CodeParts
  <1>. QED BY <1>4 DEF r

\* So only the request ID makes one raise: a character wherever it stands, a
\* label where it is shown.
LEMMA OnlyFocalSpoils ==
  ASSUME NEW src \in {"echo", "erased", "verified"}, NEW w, NEW request
  PROVE  /\ ~Evidence!Valid(Evidence!RecordOf(src, w, request)) =>
              request \in Unsafe /\ src = "echo"
         /\ \A level : Evidence!Leaks(Evidence!RecordOf(src, w, request), level) =>
              request \in Marked /\ src = "echo" /\ level # "L0"
  <1>. DEFINE r == Evidence!RecordOf(src, w, request)
  <1>1. r.status = IF r.positive THEN <<"pass">> ELSE <<"below_target">>
    BY DEF Evidence!RecordOf, Evidence!StatusOf
  <1>. HIDE DEF r
  <1>2. ASSUME ~Evidence!Valid(r)
        PROVE  request \in Unsafe /\ src = "echo"
    <2>1. PICK f \in Evidence!Identifiers : \E i \in DOMAIN r[f] : r[f][i] \in Unsafe
      BY <1>1, <1>2 DEF Evidence!Valid
    <2>2. PICK i \in DOMAIN r[f] : r[f][i] \in Unsafe
      BY <2>1
    <2>3. f \in Evidence!Texts
      BY DEF Evidence!Texts
    <2>. QED BY <2>2, <2>3, PartsOfFrozenRecords, CodePartsFine DEF r
  <1>3. ASSUME NEW level, Evidence!Leaks(r, level)
        PROVE  request \in Marked /\ src = "echo" /\ level # "L0"
    <2>1. PICK f \in Evidence!Shown(level) \cap Evidence!Texts :
             \E i \in DOMAIN r[f] : r[f][i] \in Marked
      BY <1>3 DEF Evidence!Leaks
    <2>2. PICK i \in DOMAIN r[f] : r[f][i] \in Marked
      BY <2>1
    <2>3. request \in Marked /\ src = "echo" /\ f = "source_operation_id"
      BY <2>2, PartsOfFrozenRecords, CodePartsFine DEF r
    <2>4. "source_operation_id" \notin Evidence!Shown("L0")
      BY DEF Evidence!Shown, Evidence!Base
    <2>. QED BY <2>3, <2>4
  <1>. QED BY <1>2, <1>3 DEF r

\* Rendering raises for a request ID only, that is no identifier or holds a
\* treatment label, in an echo continuation that has seen nothing, and for a
\* label only at a level that shows the ID.
THEOREM EvidenceSpoils == Spec => []OnlyRequestIdSpoilsEvidence
  <1>1. EvidenceInv => OnlyRequestIdSpoilsEvidence
    <2> SUFFICES ASSUME Frozen, raised \in {"record", "label"}
                 PROVE  /\ Evidence!Source(k) = "echo" /\ seen[k] = {}
                        /\ raised = "record" => focal \in Unsafe
                        /\ raised = "label" =>
                             focal \in Marked /\ Evidence!Level(k) # "L0"
      BY DEF EvidenceInv, OnlyRequestIdSpoilsEvidence,
             Evidence!OnlyRequestIdSpoilsEvidence
    <2>1. /\ k \in 1 .. 6
          /\ record[k] = Evidence!RecordOf(Evidence!Source(k), forked[k], focal)
          /\ Evidence!Source(k) \in {"echo", "erased", "verified"}
          /\ \A o \in seen[k] : /\ Evidence!Valid(record[k])
                                /\ ~Evidence!Leaks(record[k], Evidence!Level(k))
      BY SixCopies DEF Frozen
    <2>2. CASE raised = "record"
      <3>1. ~Evidence!Valid(record[k])
        BY <2>2 DEF Frozen
      <3>. QED BY <2>1, <2>2, <3>1, OnlyFocalSpoils
    <2>3. CASE raised = "label"
      <3>1. Evidence!Leaks(record[k], Evidence!Level(k))
        BY <2>3 DEF Frozen
      <3>. QED BY <2>1, <2>3, <3>1, OnlyFocalSpoils
    <2>. QED BY <2>2, <2>3
  <1>. QED BY <1>1, EvidenceHolds, PTL

\* A field of a rendering.
LEMMA RenderedField ==
  ASSUME NEW r, NEW level, NEW f \in Evidence!Shown(level)
  PROVE  Evidence!Rendered(r, level)[f]
           = IF f = "authorized" THEN r["verification_result"] ELSE r[f]
  BY DEF Evidence!Rendered, Evidence!Field

LEMMA RenderedDomain ==
  ASSUME NEW r, NEW level
  PROVE  /\ DOMAIN Evidence!Rendered(r, level) = Evidence!Shown(level)
         /\ Evidence!Base \subseteq Evidence!Shown(level)
  BY DEF Evidence!Rendered, Evidence!Shown, Evidence!Base, Evidence!Writer,
         Evidence!CausalLineage, Evidence!EvaluatorLineage, Evidence!TargetBinding

\* What a continuation has seen is the rendering of its frozen record.
LEMMA SeenIsFrozen ==
  ASSUME Frozen, NEW i \in Evidence!Copies, NEW o \in seen[i]
  PROVE  /\ i \in 1 .. 6
         /\ o = Evidence!Rendered(
                  Evidence!RecordOf(Evidence!Source(i), forked[i], focal),
                  Evidence!Level(i))
         /\ k > 0
  <1>1. i \in 1 .. 6
    BY SixCopies
  <1>2. k > 0
    BY <1>1 DEF Frozen
  <1>. QED BY <1>1, <1>2 DEF Frozen

\* The evidence of the six continuations differs by the contrasts of the
\* design only, whatever the agents do to their copies.
THEOREM ContrastsClean == Spec => []ContrastIsClean
  <1>1. ASSUME Frozen
        PROVE  Evidence!PrimaryContrast
    <2> SUFFICES ASSUME NEW i \in Evidence!Copies, NEW j \in Evidence!Copies,
                        NEW o1 \in seen[i], NEW o2 \in seen[j],
                        Evidence!Source(i) = "echo", Evidence!Source(j) = "erased",
                        Evidence!Level(i) = Evidence!Level(j)
                 PROVE  /\ DOMAIN o1 = DOMAIN o2
                        /\ Evidence!Differ(o1, o2) \subseteq
                             {"status", "positive", "updated_by", "source_operation_id"}
      BY DEF Evidence!PrimaryContrast
    <2>. DEFINE r1 == Evidence!RecordOf("echo", forked[i], focal)
                r2 == Evidence!RecordOf("erased", forked[j], focal)
                level == Evidence!Level(j)
    <2>1. o1 = Evidence!Rendered(r1, level) /\ o2 = Evidence!Rendered(r2, level)
      BY <1>1, SeenIsFrozen
    <2>2. level \in {"L0", "L2"}
      BY <1>1, SeenIsFrozen, SixCopies
    <2>3. /\ r1["evidence_id"] = r2["evidence_id"]
          /\ r1["metric_name"] = r2["metric_name"]
          /\ r1["threshold"] = r2["threshold"]
          /\ r1["derived_from_write_id"] = r2["derived_from_write_id"]
      BY DEF Evidence!RecordOf
    <2>. HIDE DEF r1, r2, level
    <2>4. DOMAIN o1 = Evidence!Shown(level) /\ DOMAIN o2 = Evidence!Shown(level)
      BY <2>1, RenderedDomain
    <2>5. Evidence!Shown(level) \subseteq
             {"evidence_id", "metric_name", "threshold", "status", "positive",
              "updated_by", "source_operation_id", "derived_from_write_id"}
      BY <2>2 DEF Evidence!Shown, Evidence!Base, Evidence!Writer, Evidence!CausalLineage
    <2>6. \A f \in Evidence!Shown(level) : f # "authorized" => o1[f] = r1[f] /\ o2[f] = r2[f]
      BY <2>1, RenderedField
    <2>7. \A f \in Evidence!Shown(level) :
             o1[f] # o2[f] => f \in {"status", "positive", "updated_by", "source_operation_id"}
      BY <2>3, <2>5, <2>6
    <2>. QED BY <2>4, <2>7 DEF Evidence!Differ
  <1>2. ASSUME Frozen
        PROVE  Evidence!LevelsAgree
    <2> SUFFICES ASSUME NEW i \in Evidence!Copies, NEW j \in Evidence!Copies,
                        NEW o1 \in seen[i], NEW o2 \in seen[j],
                        Evidence!Source(i) = Evidence!Source(j),
                        NEW f \in DOMAIN o1 \cap DOMAIN o2
                 PROVE  o1[f] = o2[f]
      BY DEF Evidence!LevelsAgree
    <2>. DEFINE r == Evidence!RecordOf(Evidence!Source(i), forked[i], focal)
    <2>1. forked[i] = forked[j]
      BY <1>2, SeenIsFrozen DEF Frozen
    <2>2. /\ o1 = Evidence!Rendered(r, Evidence!Level(i))
          /\ o2 = Evidence!Rendered(r, Evidence!Level(j))
      BY <1>2, <2>1, SeenIsFrozen
    <2>. HIDE DEF r
    <2>3. f \in Evidence!Shown(Evidence!Level(i)) /\ f \in Evidence!Shown(Evidence!Level(j))
      BY <2>2, RenderedDomain
    <2>. QED BY <2>2, <2>3, RenderedField
  <1>3. ASSUME Frozen
        PROVE  Evidence!VerifiedLooksLikeEcho
    <2> SUFFICES ASSUME NEW i \in Evidence!Copies, NEW j \in Evidence!Copies,
                        NEW o1 \in seen[i], NEW o2 \in seen[j],
                        Evidence!Source(i) = "echo", Evidence!Source(j) = "verified"
                 PROVE  /\ \A f \in Evidence!Base : o1[f] = o2[f]
                        /\ Evidence!Level(i) = "L4" => o1["authorized"] # o2["authorized"]
      BY DEF Evidence!VerifiedLooksLikeEcho
    <2>. DEFINE r1 == Evidence!RecordOf("echo", forked[i], focal)
                r2 == Evidence!RecordOf("verified", forked[j], focal)
    <2>1. /\ o1 = Evidence!Rendered(r1, Evidence!Level(i))
          /\ o2 = Evidence!Rendered(r2, Evidence!Level(j))
          /\ Evidence!Level(j) = "L4"
      BY <1>3, SeenIsFrozen, SixCopies
    <2>2. /\ r1["evidence_id"] = r2["evidence_id"]
          /\ r1["metric_name"] = r2["metric_name"]
          /\ r1["threshold"] = r2["threshold"]
          /\ r1["status"] = r2["status"]
          /\ r1["positive"] = r2["positive"]
          /\ ~r1["verification_result"] /\ r2["verification_result"]
      BY DEF Evidence!RecordOf, Evidence!StatusOf
    <2>. HIDE DEF r1, r2
    <2>3. \A f \in Evidence!Base : o1[f] = r1[f] /\ o2[f] = r2[f]
      <3>1. "authorized" \notin Evidence!Base
        BY DEF Evidence!Base
      <3>. QED BY <2>1, <3>1, RenderedField, RenderedDomain
    <2>4. \A f \in Evidence!Base : o1[f] = o2[f]
      BY <2>2, <2>3 DEF Evidence!Base
    <2>5. Evidence!Level(i) = "L4" => /\ o1["authorized"] = r1["verification_result"]
                                      /\ o2["authorized"] = r2["verification_result"]
      <3>1. "authorized" \in Evidence!Shown("L4")
        BY DEF Evidence!Shown, Evidence!TargetBinding
      <3>. QED BY <2>1, <3>1, RenderedField
    <2>. QED BY <2>2, <2>4, <2>5
  <1>4. EvidenceInv => ContrastIsClean
    BY <1>1, <1>2, <1>3 DEF EvidenceInv, ContrastIsClean, Evidence!ContrastIsClean
  <1>. QED BY <1>4, EvidenceHolds, PTL

-----------------------------------------------------------------------------
(* Sums.  The folds of the models are recursive functions: that they have    *)
(* a solution, and what it adds up to, is proved part by part of a finite    *)
(* set, from the well-foundedness of the naturals.                           *)

LEMMA Least ==
  ASSUME NEW T \in SUBSET Nat, T # {}
  PROVE  \E x \in T : \A y \in T : x <= y
  <1>. DEFINE R == OpToRel(<, Nat)
  <1>1. IsWellFoundedOn(R, Nat)
    BY NatLessThanWellFounded
  <1>2. \A x, y \in Nat : x < y => <<x, y>> \in R
    <2>1. R = {p \in Nat \X Nat : p[1] < p[2]}
      BY Zenon DEF OpToRel
    <2>. QED BY <2>1
  <1>. HIDE DEF R
  <1>3. PICK x \in T : \A y \in T : <<y, x>> \notin R
    BY <1>1, WFMin
  <1>4. ASSUME NEW y \in T
        PROVE  x <= y
    <2>1. x \in Nat /\ y \in Nat /\ ~(y < x)
      BY <1>2, <1>3
    <2>. QED BY <2>1
  <1>. QED BY <1>4

LEMMA Counting ==
  ASSUME NEW P \in SUBSET Nat, 0 \in P, \A n \in P : n + 1 \in P
  PROVE  P = Nat
  <1>. SUFFICES ASSUME Nat \ P # {} PROVE FALSE
    OBVIOUS
  <1>1. PICK x \in Nat \ P : \A y \in Nat \ P : x <= y
    BY Least
  <1>2. x # 0 /\ x - 1 \in Nat
    BY <1>1
  <1>3. x - 1 \in P
    BY <1>1, <1>2
  <1>. QED BY <1>1, <1>2, <1>3

\* f adds what the chooser c picks of every set, until nothing is left.
Adds(f, c, g, S) ==
    f = [s \in SUBSET S |-> IF s = {} THEN 0 ELSE g[c[s]] + f[s \ {c[s]}]]

Chooser(c, S) == \A s \in SUBSET S : s # {} => c[s] \in s

LEMMA Smaller ==
  ASSUME NEW S, IsFiniteSet(S), NEW s \in SUBSET S, NEW x \in s,
         NEW n \in Nat, Cardinality(s) <= n + 1
  PROVE  s \ {x} \in SUBSET S /\ Cardinality(s \ {x}) <= n
         /\ Cardinality(s \ {x}) \in Nat
  <1>1. IsFiniteSet(s)
    BY FS_Subset
  <1>2. Cardinality(s) \in Nat
    BY <1>1, FS_CardinalityType
  <1>3. IsFiniteSet(s \ {x}) /\ Cardinality(s \ {x}) = Cardinality(s) - 1
    BY <1>1, FS_RemoveElement
  <1>4. Cardinality(s \ {x}) \in Nat
    BY <1>3, FS_CardinalityType
  <1>. QED BY <1>2, <1>3, <1>4

\* A statement of the parts of a finite set may be proved from the empty part
\* upwards.
LEMMA PartByPart ==
  ASSUME NEW S, IsFiniteSet(S), NEW H \in SUBSET SUBSET S, NEW c, Chooser(c, S),
         {} \in H,
         \A s \in SUBSET S : s # {} /\ s \ {c[s]} \in H => s \in H
  PROVE  H = SUBSET S
  <1>. DEFINE P == {n \in Nat : \A s \in SUBSET S : Cardinality(s) <= n => s \in H}
  <1>1. 0 \in P
    <2>. SUFFICES ASSUME NEW s \in SUBSET S, Cardinality(s) <= 0 PROVE s \in H
      OBVIOUS
    <2>1. IsFiniteSet(s)
      BY FS_Subset
    <2>2. Cardinality(s) = 0
      BY <2>1, FS_CardinalityType
    <2>3. s = {}
      BY <2>1, <2>2, FS_EmptySet
    <2>. QED BY <2>3
  <1>2. ASSUME NEW n \in P PROVE n + 1 \in P
    <2>1. n \in Nat
      OBVIOUS
    <2>2. ASSUME NEW s \in SUBSET S, Cardinality(s) <= n + 1
          PROVE  s \in H
      <3>1. CASE s # {}
        <4>1. c[s] \in s
          BY <3>1 DEF Chooser
        <4>2. s \ {c[s]} \in SUBSET S /\ Cardinality(s \ {c[s]}) <= n
          BY <2>1, <2>2, <4>1, Smaller
        <4>3. s \ {c[s]} \in H
          BY <1>2, <4>2
        <4>. QED BY <3>1, <4>3
      <3>. QED BY <3>1
    <2>. QED BY <2>1, <2>2
  <1>. HIDE DEF P
  <1>3. P = Nat
    <2>1. P \in SUBSET Nat
      BY DEF P
    <2>. QED BY <1>1, <1>2, <2>1, Counting
  <1>4. ASSUME NEW s \in SUBSET S PROVE s \in H
    <2>1. IsFiniteSet(s)
      BY FS_Subset
    <2>2. Cardinality(s) \in P
      BY <1>3, <2>1, FS_CardinalityType
    <2>3. Cardinality(s) <= Cardinality(s)
      BY <1>3, <2>2
    <2>. QED BY <2>2, <2>3 DEF P
  <1>. QED BY <1>4

\* The recursion of a fold has a solution, with integer values.
LEMMA SumExists ==
  ASSUME NEW S, IsFiniteSet(S), NEW c, Chooser(c, S), NEW g \in [S -> Int]
  PROVE  \E f \in [SUBSET S -> Int] : Adds(f, c, g, S)
  <1>. DEFINE Up(f, n) ==
                \A s \in SUBSET S : Cardinality(s) <= n =>
                   f[s] = IF s = {} THEN 0 ELSE g[c[s]] + f[s \ {c[s]}]
              P == {n \in Nat : \E f \in [SUBSET S -> Int] : Up(f, n)}
  <1>1. 0 \in P
    <2>. DEFINE f == [s \in SUBSET S |-> 0]
    <2>1. ASSUME NEW s \in SUBSET S, Cardinality(s) <= 0
          PROVE  s = {}
      <3>1. IsFiniteSet(s)
        BY FS_Subset
      <3>2. Cardinality(s) = 0
        BY <2>1, <3>1, FS_CardinalityType
      <3>. QED BY <3>1, <3>2, FS_EmptySet
    <2>2. f \in [SUBSET S -> Int] /\ Up(f, 0)
      BY <2>1
    <2>. QED BY <2>2
  <1>2. ASSUME NEW n \in P PROVE n + 1 \in P
    <2>1. n \in Nat
      OBVIOUS
    <2>2. PICK f \in [SUBSET S -> Int] : Up(f, n)
      BY <1>2
    <2>. DEFINE F == [s \in SUBSET S |->
                        IF s = {} THEN 0 ELSE g[c[s]] + f[s \ {c[s]}]]
    <2>3. F \in [SUBSET S -> Int]
      <3>1. ASSUME NEW s \in SUBSET S, s # {}
            PROVE  g[c[s]] + f[s \ {c[s]}] \in Int
        <4>1. c[s] \in S
          BY <3>1 DEF Chooser
        <4>2. f[s \ {c[s]}] \in Int
          OBVIOUS
        <4>3. g[c[s]] \in Int
          BY <4>1
        <4>. QED BY <4>2, <4>3
      <3>2. \A s \in SUBSET S :
              (IF s = {} THEN 0 ELSE g[c[s]] + f[s \ {c[s]}]) \in Int
        BY <3>1
      <3>. QED BY <3>2
    <2>4. ASSUME NEW s \in SUBSET S, Cardinality(s) <= n + 1, s # {}
          PROVE  F[s] = g[c[s]] + F[s \ {c[s]}]
      <3>1. c[s] \in s
        BY <2>4 DEF Chooser
      <3>2. s \ {c[s]} \in SUBSET S /\ Cardinality(s \ {c[s]}) <= n
        BY <2>1, <2>4, <3>1, Smaller
      <3>3. F[s \ {c[s]}] = f[s \ {c[s]}]
        BY <2>2, <3>2
      <3>. QED BY <2>4, <3>3
    <2>5. F[{}] = 0
      OBVIOUS
    <2>6. Up(F, n + 1)
      <3>. HIDE DEF F
      <3>. QED BY <2>4, <2>5
    <2>. HIDE DEF F, Up
    <2>. QED BY <2>1, <2>3, <2>6
  <1>3. Cardinality(S) \in P
    <2>. HIDE DEF P
    <2>1. P \in SUBSET Nat
      BY DEF P
    <2>2. P = Nat
      BY <1>1, <1>2, <2>1, Counting
    <2>. QED BY <2>2, FS_CardinalityType
  <1>4. PICK f \in [SUBSET S -> Int] : Up(f, Cardinality(S))
    BY <1>3
  <1>5. \A s \in SUBSET S : f[s] = IF s = {} THEN 0 ELSE g[c[s]] + f[s \ {c[s]}]
    BY <1>4, FS_Subset
  <1>6. f = [s \in SUBSET S |-> IF s = {} THEN 0 ELSE g[c[s]] + f[s \ {c[s]}]]
    BY <1>5
  <1>. QED BY <1>6 DEF Adds

\* The same, on whichever side f adds.
AddsEitherSide(f, c, g, S) ==
    /\ f[{}] = 0
    /\ \A s \in SUBSET S :
         s # {} => \/ f[s] = g[c[s]] + f[s \ {c[s]}]
                   \/ f[s] = f[s \ {c[s]}] + g[c[s]]

\* Two solutions agree.
LEMMA SumUnique ==
  ASSUME NEW S, IsFiniteSet(S), NEW c, Chooser(c, S), NEW g \in [S -> Int],
         NEW h \in [SUBSET S -> Int], Adds(h, c, g, S),
         NEW f, AddsEitherSide(f, c, g, S)
  PROVE  f[S] = h[S]
  <1>. DEFINE H == {s \in SUBSET S : f[s] = h[s]}
  <1>1. H \in SUBSET SUBSET S /\ {} \in H
    BY DEF Adds, AddsEitherSide
  <1>2. ASSUME NEW s \in SUBSET S, s # {}, s \ {c[s]} \in H
        PROVE  s \in H
    <2>1. c[s] \in S /\ s \ {c[s]} \in SUBSET S
      BY <1>2 DEF Chooser
    <2>2. g[c[s]] \in Int /\ h[s \ {c[s]}] \in Int /\ f[s \ {c[s]}] = h[s \ {c[s]}]
      BY <1>2, <2>1
    <2>3. h[s] = g[c[s]] + h[s \ {c[s]}]
      BY <1>2 DEF Adds
    <2>4. \/ f[s] = g[c[s]] + f[s \ {c[s]}]
          \/ f[s] = f[s \ {c[s]}] + g[c[s]]
      BY <1>2 DEF AddsEitherSide
    <2>. QED BY <2>2, <2>3, <2>4
  <1>. HIDE DEF H
  <1>3. H = SUBSET S
    BY <1>1, <1>2, PartByPart
  <1>. QED BY <1>3 DEF H

SumsTo(v, c, g, S) == \E f \in [SUBSET S -> Int] : Adds(f, c, g, S) /\ v = f[S]

\* g2 is g, and d more at m.
IsMore(g2, g, m, d, S) == \A x \in S : g2[x] = g[x] + (IF x = m THEN d ELSE 0)

\* More at one element is more in the sum.
LEMMA SumPlus ==
  ASSUME NEW S, IsFiniteSet(S), NEW c, Chooser(c, S),
         NEW g \in [S -> Int], NEW v, SumsTo(v, c, g, S),
         NEW m \in S, NEW d \in Int,
         NEW g2, IsMore(g2, g, m, d, S), NEW w, SumsTo(w, c, g2, S)
  PROVE  w = v + d
  <1>1. PICK f \in [SUBSET S -> Int] : Adds(f, c, g, S) /\ v = f[S]
    BY DEF SumsTo
  <1>2. PICK h \in [SUBSET S -> Int] : Adds(h, c, g2, S) /\ w = h[S]
    BY DEF SumsTo
  <1>. DEFINE H == {s \in SUBSET S : h[s] = f[s] + (IF m \in s THEN d ELSE 0)}
  <1>3. H \in SUBSET SUBSET S /\ {} \in H
    BY <1>1, <1>2 DEF Adds
  <1>4. ASSUME NEW s \in SUBSET S, s # {}, s \ {c[s]} \in H
        PROVE  s \in H
    <2>1. c[s] \in s /\ c[s] \in S /\ s \ {c[s]} \in SUBSET S
      BY <1>4 DEF Chooser
    <2>2. /\ g[c[s]] \in Int /\ h[s \ {c[s]}] \in Int /\ f[s \ {c[s]}] \in Int
          /\ g2[c[s]] = g[c[s]] + (IF c[s] = m THEN d ELSE 0)
      BY <2>1 DEF IsMore
    <2>3. h[s \ {c[s]}] = f[s \ {c[s]}] + (IF m \in s \ {c[s]} THEN d ELSE 0)
      BY <1>4
    <2>4. f[s] = g[c[s]] + f[s \ {c[s]}] /\ h[s] = g2[c[s]] + h[s \ {c[s]}]
      BY <1>1, <1>2, <1>4 DEF Adds
    <2>5. h[s] = f[s] + (IF m \in s THEN d ELSE 0)
      BY <2>1, <2>2, <2>3, <2>4
    <2>. QED BY <2>5
  <1>. HIDE DEF H
  <1>5. H = SUBSET S
    BY <1>3, <1>4, PartByPart
  <1>. QED BY <1>5, <1>1, <1>2 DEF H

\* Nothing anywhere is nothing in the sum.
LEMMA SumZero ==
  ASSUME NEW S, IsFiniteSet(S), NEW c, Chooser(c, S),
         NEW g, \A m \in S : g[m] = 0, NEW v, SumsTo(v, c, g, S)
  PROVE  v = 0
  <1>1. PICK f \in [SUBSET S -> Int] : Adds(f, c, g, S) /\ v = f[S]
    BY DEF SumsTo
  <1>. DEFINE H == {s \in SUBSET S : f[s] = 0}
  <1>2. H \in SUBSET SUBSET S /\ {} \in H
    BY <1>1 DEF Adds
  <1>3. ASSUME NEW s \in SUBSET S, s # {}, s \ {c[s]} \in H
        PROVE  s \in H
    <2>1. c[s] \in S
      BY <1>3 DEF Chooser
    <2>2. f[s] = g[c[s]] + f[s \ {c[s]}]
      BY <1>1, <1>3 DEF Adds
    <2>. QED BY <1>3, <2>1, <2>2
  <1>. HIDE DEF H
  <1>4. H = SUBSET S
    BY <1>2, <1>3, PartByPart
  <1>. QED BY <1>4, <1>1 DEF H

\* Sums compare as what they add.
LEMMA SumMonotone ==
  ASSUME NEW S, IsFiniteSet(S), NEW c, Chooser(c, S),
         NEW g \in [S -> Int], NEW v, SumsTo(v, c, g, S),
         NEW g2 \in [S -> Int], NEW w, SumsTo(w, c, g2, S),
         \A m \in S : g[m] <= g2[m]
  PROVE  v <= w
  <1>1. PICK f \in [SUBSET S -> Int] : Adds(f, c, g, S) /\ v = f[S]
    BY DEF SumsTo
  <1>2. PICK h \in [SUBSET S -> Int] : Adds(h, c, g2, S) /\ w = h[S]
    BY DEF SumsTo
  <1>. DEFINE H == {s \in SUBSET S : f[s] <= h[s]}
  <1>3. H \in SUBSET SUBSET S /\ {} \in H
    BY <1>1, <1>2 DEF Adds
  <1>4. ASSUME NEW s \in SUBSET S, s # {}, s \ {c[s]} \in H
        PROVE  s \in H
    <2>1. c[s] \in S /\ s \ {c[s]} \in SUBSET S
      BY <1>4 DEF Chooser
    <2>2. /\ g[c[s]] \in Int /\ g2[c[s]] \in Int /\ g[c[s]] <= g2[c[s]]
          /\ h[s \ {c[s]}] \in Int /\ f[s \ {c[s]}] \in Int
          /\ f[s \ {c[s]}] <= h[s \ {c[s]}]
      BY <1>4, <2>1
    <2>3. f[s] = g[c[s]] + f[s \ {c[s]}] /\ h[s] = g2[c[s]] + h[s \ {c[s]}]
      BY <1>1, <1>2, <1>4 DEF Adds
    <2>. QED BY <2>2, <2>3
  <1>. HIDE DEF H
  <1>5. H = SUBSET S
    BY <1>3, <1>4, PartByPart
  <1>. QED BY <1>5, <1>1, <1>2 DEF H

\* The folds of the community modules are such sums.
Chosen(S) == [s \in SUBSET S |-> CHOOSE x \in s : TRUE]
Column(groups, n) == [m \in DOMAIN groups |-> groups[m][n]]

LEMMA StrataSum ==
  ASSUME NEW S, IsFiniteSet(S), NEW groups, DOMAIN groups = S, NEW n,
         \A m \in S : groups[m][n] \in Int
  PROVE  /\ Chooser(Chosen(S), S)
         /\ SumsTo(Funnel!SumOver(groups, n), Chosen(S), Column(groups, n), S)
  <1>. DEFINE c == Chosen(S)
              g == Column(groups, n)
  <1>0. g = [m \in S |-> groups[m][n]]
    BY DEF Column
  <1>1. Chooser(c, S)
    BY DEF Chooser, Chosen
  <1>2. PICK f \in [SUBSET S -> Int] : Adds(f, c, g, S)
    <2>1. g \in [S -> Int]
      BY <1>0
    <2>. HIDE DEF c, g
    <2>. QED BY <1>1, <2>1, SumExists
  <1>3. f = [s \in SUBSET S |->
               IF s = {} THEN 0
               ELSE LET x == CHOOSE x \in s : TRUE IN groups[x][n] + f[s \ {x}]]
    <2>1. \A s \in SUBSET S : s # {} =>
             /\ c[s] = CHOOSE x \in s : TRUE
             /\ c[s] \in S
             /\ g[c[s]] = groups[CHOOSE x \in s : TRUE][n]
      BY <1>0, <1>1 DEF Chooser, Chosen
    <2>. HIDE DEF g
    <2>. QED BY <1>2, <2>1 DEF Adds
  <1>. DEFINE iter[s \in SUBSET S] ==
                IF s = {} THEN 0
                ELSE LET x == CHOOSE x \in s : TRUE IN groups[x][n] + iter[s \ {x}]
  <1>4. Funnel!SumOver(groups, n) = iter[S]
    BY DEF Funnel!SumOver, Funnel!MapThenSumSet, Funnel!MapThenFoldSet
  <1>5. iter = [s \in SUBSET S |->
                  IF s = {} THEN 0
                  ELSE LET x == CHOOSE x \in s : TRUE IN groups[x][n] + iter[s \ {x}]]
    BY <1>3
  <1>. HIDE DEF iter
  <1>6. iter[S] = f[S]
    <2>1. iter[{}] = 0
      BY <1>5
    <2>2. ASSUME NEW s \in SUBSET S, s # {}
          PROVE  iter[s] = g[c[s]] + iter[s \ {c[s]}]
      <3>1. c[s] = (CHOOSE x \in s : TRUE) /\ c[s] \in S
        BY <1>1, <2>2 DEF Chooser, Chosen
      <3>2. g[c[s]] = groups[c[s]][n]
        BY <1>0, <3>1
      <3>. HIDE DEF c, g
      <3>. QED BY <1>5, <2>2, <3>1, <3>2
    <2>. HIDE DEF c, g
    <2>3. AddsEitherSide(iter, c, g, S)
      BY <2>1, <2>2 DEF AddsEitherSide
    <2>4. g \in [S -> Int]
      BY <1>0
    <2>. QED BY <1>1, <1>2, <2>3, <2>4, SumUnique
  <1>. QED BY <1>1, <1>2, <1>4, <1>6 DEF SumsTo

\* The greatest index of a sequence's part is one of them.
Greatest(n) == [s \in SUBSET (1 .. n) |-> Gate!Max(s)]

LEMMA GreatestChooses ==
  ASSUME NEW n \in Nat
  PROVE  Chooser(Greatest(n), 1 .. n)
  <1>. SUFFICES ASSUME NEW s \in SUBSET (1 .. n), s # {}
                PROVE  Gate!Max(s) \in s
    BY DEF Chooser, Greatest
  <1>. DEFINE T == {n - x : x \in s}
  <1>1. T \in SUBSET Nat /\ T # {}
    <2>1. \A x \in s : n - x \in Nat
      OBVIOUS
    <2>2. T \in SUBSET Nat
      BY <2>1
    <2>. QED BY <2>2
  <1>. HIDE DEF T
  <1>2. PICK t \in T : \A y \in T : t <= y
    BY <1>1, Least
  <1>3. PICK x \in s : t = n - x
    BY DEF T
  <1>4. \A y \in s : x >= y
    <2>. TAKE y \in s
    <2>1. n - y \in T
      BY DEF T
    <2>2. t <= n - y
      BY <1>2, <2>1
    <2>. QED BY <1>3, <2>2
  <1>. QED BY <1>4 DEF Gate!Max

\* The recursion of a left fold, which adds on the other side, has the same
\* solution.
Total(h, c, g, S) ==
    /\ Adds(h, c, g, S)
    /\ h = [s \in SUBSET S |-> IF s = {} THEN 0 ELSE h[s \ {c[s]}] + g[c[s]]]
    /\ \A f : AddsEitherSide(f, c, g, S) => f[S] = h[S]

LEMMA LeftSum ==
  ASSUME NEW S, IsFiniteSet(S), NEW c, Chooser(c, S), NEW g \in [S -> Int]
  PROVE  \E h \in [SUBSET S -> Int] : Total(h, c, g, S)
  <1>1. PICK h \in [SUBSET S -> Int] : Adds(h, c, g, S)
    BY SumExists
  <1>2. ASSUME NEW f, AddsEitherSide(f, c, g, S)
        PROVE  f[S] = h[S]
    BY <1>1, <1>2, SumUnique
  <1>3. h = [s \in SUBSET S |-> IF s = {} THEN 0 ELSE h[s \ {c[s]}] + g[c[s]]]
    <2>1. ASSUME NEW s \in SUBSET S, s # {}
          PROVE  g[c[s]] + h[s \ {c[s]}] = h[s \ {c[s]}] + g[c[s]]
      <3>1. c[s] \in S /\ s \ {c[s]} \in SUBSET S
        BY <2>1 DEF Chooser
      <3>2. g[c[s]] \in Int /\ h[s \ {c[s]}] \in Int
        BY <1>1, <3>1
      <3>. QED BY <3>2
    <2>. QED BY <1>1, <2>1 DEF Adds
  <1>. QED BY <1>1, <1>2, <1>3 DEF Total

Logical(r, n) == [i \in 1 .. n |-> r[i].logical]
Physical(r, n) == [i \in 1 .. n |-> r[i].physical]

LEMMA RowSums ==
  ASSUME NEW r, NEW n \in Nat, DOMAIN r = 1 .. n,
         \A i \in 1 .. n : r[i].logical \in Int /\ r[i].physical \in Int
  PROVE  /\ SumsTo(Gate!LogicalSum(r), Greatest(n), Logical(r, n), 1 .. n)
         /\ SumsTo(Gate!PhysicalSum(r), Greatest(n), Physical(r, n), 1 .. n)
  <1>. DEFINE S == 1 .. n
              c == Greatest(n)
  <1>1. IsFiniteSet(S) /\ Chooser(c, S)
    <2>1. IsFiniteSet(S)
      BY FS_Interval
    <2>2. Chooser(c, S)
      BY GreatestChooses
    <2>. QED BY <2>1, <2>2
  <1>2. \A s \in SUBSET S : s # {} => c[s] = Gate!Max(s) /\ c[s] \in S
    BY <1>1 DEF Chooser, Greatest
  <1>3. SumsTo(Gate!LogicalSum(r), c, Logical(r, n), S)
    <2>. DEFINE g == [i \in S |-> r[i].logical]
    <2>1. g \in [S -> Int]
      OBVIOUS
    <2>2. PICK h \in [SUBSET S -> Int] : Total(h, c, g, S)
      <3>. HIDE DEF S, c, g
      <3>. QED BY <1>1, <2>1, LeftSum
    <2>3. /\ Adds(h, c, g, S)
          /\ h = [s \in SUBSET S |-> IF s = {} THEN 0 ELSE h[s \ {c[s]}] + g[c[s]]]
          /\ \A f : AddsEitherSide(f, c, g, S) => f[S] = h[S]
      BY <2>2 DEF Total
    <2>. DEFINE iter[s \in SUBSET DOMAIN r] ==
                  IF s = {} THEN 0
                  ELSE LET x == Gate!Max(s) IN iter[s \ {x}] + r[x].logical
    <2>4. Gate!LogicalSum(r) = iter[DOMAIN r]
      BY DEF Gate!LogicalSum, Gate!FoldLeft, Gate!MapThenFoldSet
    <2>5. h = [s \in SUBSET S |->
                 IF s = {} THEN 0
                 ELSE LET x == Gate!Max(s) IN h[s \ {x}] + r[x].logical]
      <3>1. \A s \in SUBSET S :
              s # {} => /\ h[s \ {c[s]}] = h[s \ {Gate!Max(s)}]
                        /\ g[c[s]] = r[Gate!Max(s)].logical
        BY <1>2
      <3>. HIDE DEF c, g
      <3>. QED BY <2>3, <3>1
    <2>6. iter = [s \in SUBSET S |->
                    IF s = {} THEN 0
                    ELSE LET x == Gate!Max(s) IN iter[s \ {x}] + r[x].logical]
      BY <2>5
    <2>. HIDE DEF iter
    <2>7. AddsEitherSide(iter, c, g, S)
      <3>1. iter[{}] = 0
        BY <2>6
      <3>2. ASSUME NEW s \in SUBSET S, s # {}
            PROVE  iter[s] = iter[s \ {c[s]}] + g[c[s]]
        <4>1. c[s] = Gate!Max(s) /\ c[s] \in S /\ g[c[s]] = r[c[s]].logical
          BY <1>2, <3>2
        <4>. HIDE DEF c, g
        <4>. QED BY <2>6, <3>2, <4>1
      <3>. HIDE DEF S, c, g
      <3>. QED BY <3>1, <3>2 DEF AddsEitherSide
    <2>. QED BY <2>3, <2>4, <2>7 DEF SumsTo, Logical, Physical
  <1>4. SumsTo(Gate!PhysicalSum(r), c, Physical(r, n), S)
    <2>. DEFINE g == [i \in S |-> r[i].physical]
    <2>1. g \in [S -> Int]
      OBVIOUS
    <2>2. PICK h \in [SUBSET S -> Int] : Total(h, c, g, S)
      <3>. HIDE DEF S, c, g
      <3>. QED BY <1>1, <2>1, LeftSum
    <2>3. /\ Adds(h, c, g, S)
          /\ h = [s \in SUBSET S |-> IF s = {} THEN 0 ELSE h[s \ {c[s]}] + g[c[s]]]
          /\ \A f : AddsEitherSide(f, c, g, S) => f[S] = h[S]
      BY <2>2 DEF Total
    <2>. DEFINE iter[s \in SUBSET DOMAIN r] ==
                  IF s = {} THEN 0
                  ELSE LET x == Gate!Max(s) IN iter[s \ {x}] + r[x].physical
    <2>4. Gate!PhysicalSum(r) = iter[DOMAIN r]
      BY DEF Gate!PhysicalSum, Gate!FoldLeft, Gate!MapThenFoldSet
    <2>5. h = [s \in SUBSET S |->
                 IF s = {} THEN 0
                 ELSE LET x == Gate!Max(s) IN h[s \ {x}] + r[x].physical]
      <3>1. \A s \in SUBSET S :
              s # {} => /\ h[s \ {c[s]}] = h[s \ {Gate!Max(s)}]
                        /\ g[c[s]] = r[Gate!Max(s)].physical
        BY <1>2
      <3>. HIDE DEF c, g
      <3>. QED BY <2>3, <3>1
    <2>6. iter = [s \in SUBSET S |->
                    IF s = {} THEN 0
                    ELSE LET x == Gate!Max(s) IN iter[s \ {x}] + r[x].physical]
      BY <2>5
    <2>. HIDE DEF iter
    <2>7. AddsEitherSide(iter, c, g, S)
      <3>1. iter[{}] = 0
        BY <2>6
      <3>2. ASSUME NEW s \in SUBSET S, s # {}
            PROVE  iter[s] = iter[s \ {c[s]}] + g[c[s]]
        <4>1. c[s] = Gate!Max(s) /\ c[s] \in S /\ g[c[s]] = r[c[s]].physical
          BY <1>2, <3>2
        <4>. HIDE DEF c, g
        <4>. QED BY <2>6, <3>2, <4>1
      <3>. HIDE DEF S, c, g
      <3>. QED BY <3>1, <3>2 DEF AddsEitherSide
    <2>. QED BY <2>3, <2>4, <2>7 DEF SumsTo, Logical, Physical
  <1>. QED BY <1>3, <1>4

-----------------------------------------------------------------------------
(* The operational gate *)

LEMMA StepsOfGate ==
  ASSUME [Next]_vars, subject' = "gate"
  PROVE  subject = "gate" /\ [Gate!Next]_gateVars
  <1>1. CASE Next
    BY <1>1 DEF Next, vars
  <1>2. CASE UNCHANGED vars
    BY <1>2 DEF vars
  <1>. QED BY <1>1, <1>2

\* Only loadable rows are loaded, and a verdict is on a slice that passed the
\* checks that raise.
Audited ==
    /\ Gate!TypeOK
    /\ \A m \in DOMAIN units : Gate!Loadable(units[m])
    /\ verdict \in {"passed", "failed"} => Gate!SoundSlice(planned, units)
    /\ verdict = "passed" => Gate!Passes(units)

GateInv == subject = "gate" => Audited

LEMMA GateHolds == Spec => []GateInv
  <1>1. Init => GateInv
    BY DEF Init, GateInv, Audited, Gate!Init, Gate!TypeOK
  <1>2. ASSUME Audited, [Gate!Next]_gateVars
        PROVE  Audited'
    <2>1. ASSUME NEW row \in Rows, Gate!Load(row)
          PROVE  Audited'
      <3>1. /\ units \in Seq(Rows) /\ Gate!Loadable(row)
            /\ units' = Append(units, row) /\ UNCHANGED <<planned, verdict>>
            /\ verdict = "loading"
            /\ \A m \in DOMAIN units : Gate!Loadable(units[m])
        BY <1>2, <2>1 DEF Gate!Load, Audited, Gate!TypeOK
      <3>2. ASSUME NEW m \in DOMAIN units'
            PROVE  Gate!Loadable(units'[m])
          <4>1. (m \in DOMAIN units /\ units'[m] = units[m]) \/ units'[m] = row
          BY <3>1
        <4>. QED BY <3>1, <4>1
      <3>3. \A m \in DOMAIN units' : Gate!Loadable(units[m])'
        BY <3>2 DEF Gate!Loadable
      <3>. QED BY <1>2, <2>1, <3>1, <3>3 DEF Gate!Load, Audited, Gate!TypeOK
    <2>2. ASSUME NEW row \in Rows, Gate!LoadRaises(row)
          PROVE  Audited'
      BY <1>2, <2>2 DEF Gate!LoadRaises, Audited, Gate!TypeOK
    <2>3. CASE Gate!Audit
      BY <1>2, <2>3 DEF Gate!Audit, Audited, Gate!TypeOK
    <2>4. CASE UNCHANGED gateVars
      BY <1>2, <2>4 DEF gateVars, Audited, Gate!TypeOK
    <2>. QED BY <1>2, <2>1, <2>2, <2>3, <2>4 DEF Gate!Next
  <1>3. GateInv /\ [Next]_vars => GateInv'
    BY <1>2, StepsOfGate DEF GateInv
  <1>. QED BY <1>1, <1>3, PTL DEF Spec

\* Leaving out, repeating or exchanging a unit would have raised.
LEMMA PlanCovered ==
  ASSUME Audited
  PROVE  Gate!VerdictCoversPlan
  <1> SUFFICES ASSUME verdict \in {"passed", "failed"},
                      NEW i \in DOMAIN units, NEW j \in DOMAIN units
               PROVE  /\ ~Gate!SoundSlice(planned, Gate!Without(i))
                      /\ ~Gate!SoundSlice(planned, Append(units, units[i]))
                      /\ i # j => ~Gate!SoundSlice(planned, Gate!Exchanged(i, j))
    BY DEF Gate!VerdictCoversPlan
  <1>1. /\ units \in Seq(Rows) /\ Gate!Distinct(planned)
        /\ planned = [m \in DOMAIN units |-> units[m].unit]
    BY DEF Audited, Gate!TypeOK, Gate!SoundSlice, Gate!UnitIds
  <1>2. ASSUME NEW slice, Gate!SoundSlice(planned, slice)
        PROVE  /\ DOMAIN slice = DOMAIN units
               /\ \A m \in DOMAIN units : slice[m].unit = units[m].unit
    BY <1>1, <1>2 DEF Gate!SoundSlice, Gate!UnitIds
  <1>3. ~Gate!SoundSlice(planned, Gate!Without(i))
    <2>1. /\ Gate!Without(i) \in Seq(Rows)
          /\ Len(Gate!Without(i)) = Len(units) - 1
      BY <1>1 DEF Gate!Without
    <2>2. DOMAIN Gate!Without(i) # DOMAIN units
      BY <1>1, <2>1
    <2>. QED BY <1>2, <2>2
  <1>4. ~Gate!SoundSlice(planned, Append(units, units[i]))
    <2>1. DOMAIN Append(units, units[i]) # DOMAIN units
      BY <1>1
    <2>. QED BY <1>2, <2>1
  <1>5. ASSUME i # j
        PROVE  ~Gate!SoundSlice(planned, Gate!Exchanged(i, j))
    <2>1. Gate!Exchanged(i, j)[i].unit = units[j].unit
      BY <1>1, <1>5 DEF Gate!Exchanged
    <2>2. units[i].unit # units[j].unit
      BY <1>1, <1>5 DEF Gate!Distinct
    <2>. QED BY <1>2, <2>1, <2>2
  <1>. QED BY <1>3, <1>4, <1>5

\* The turns of loaded rows are no more than their attempts.
LEMMA AttemptsCover ==
  ASSUME Audited
  PROVE  Gate!LogicalSum(units) <= Gate!PhysicalSum(units)
  <1>. DEFINE n == Len(units)
              S == 1 .. n
              logical == Logical(units, n)
              physical == Physical(units, n)
  <1>1. /\ n \in Nat /\ DOMAIN units = S
        /\ \A i \in S : units[i].logical \in Int /\ units[i].physical \in Int
    BY RowsAssumption DEF Audited, Gate!TypeOK
  <1>2. /\ logical \in [S -> Int] /\ physical \in [S -> Int]
        /\ \A i \in S : logical[i] <= physical[i]
    BY <1>1 DEF Audited, Gate!Loadable, Logical, Physical
  <1>3. IsFiniteSet(S) /\ Chooser(Greatest(n), S)
    BY <1>1, FS_Interval, GreatestChooses
  <1>4. /\ SumsTo(Gate!LogicalSum(units), Greatest(n), logical, S)
        /\ SumsTo(Gate!PhysicalSum(units), Greatest(n), physical, S)
    BY <1>1, RowSums
  <1>. HIDE DEF n, S, logical, physical
  <1>. QED BY <1>2, <1>3, <1>4, SumMonotone

\* A verdict stands for the whole plan, and a passing one for its accounts:
\* for every manifest, all rows and any number of them.
THEOREM VerdictsHold == Spec => []GateVerdictHolds
  <1>1. ASSUME Audited, verdict = "passed"
        PROVE  Gate!PassedSliceIsAccounted
    <2>1. /\ units \in Seq(Rows)
          /\ planned = [m \in DOMAIN units |-> units[m].unit]
          /\ units # << >>
          /\ \A m \in DOMAIN units : units[m].intact /\ ~units[m].stopped
          /\ Gate!LogicalSum(units) <= LogicalCeiling
          /\ Gate!PhysicalSum(units) <= GatePhysicalCeiling
      BY <1>1 DEF Audited, Gate!TypeOK, Gate!SoundSlice, Gate!UnitIds, Gate!Passes
    <2>2. DOMAIN planned = DOMAIN units
      BY <2>1
    <2>3. 1 \in DOMAIN planned
      BY <2>1, <2>2
    <2>4. planned # << >>
      BY <2>3
    <2>5. ASSUME NEW id \in Gate!ToSet(planned)
          PROVE  \E i \in DOMAIN units :
                   units[i].unit = id /\ units[i].intact /\ ~units[i].stopped
      <3>1. PICK m \in DOMAIN planned : id = planned[m]
        BY <2>5 DEF Gate!ToSet
      <3>. QED BY <2>1, <2>2, <3>1
    <2>. QED BY <1>1, <2>1, <2>4, <2>5, AttemptsCover DEF Gate!PassedSliceIsAccounted
  <1>2. GateInv => GateVerdictHolds
    BY <1>1, PlanCovered
    DEF GateInv, GateVerdictHolds, Gate!GateVerdictHolds, Gate!PassedSliceIsAccounted
  <1>. QED BY <1>2, GateHolds, PTL

-----------------------------------------------------------------------------
(* The opportunity funnel *)

LEMMA StepsOfFunnel ==
  ASSUME [Next]_vars, subject' = "funnel"
  PROVE  subject = "funnel" /\ [Funnel!Next]_funnelVars
  <1>1. CASE Next
    BY <1>1 DEF Next, vars
  <1>2. CASE UNCHANGED vars
    BY <1>2 DEF vars
  <1>. QED BY <1>1, <1>2

\* What holds of the counts of every group: they narrow, a dangerous call is
\* one of a dangerous prefix, and a call is one of a prefix with calls.
Census(group) ==
    /\ Funnel!Narrows(group)
    /\ group["proxy_positive_target_false"] > 0 => group["with_target_false"] > 0
    /\ group["trigger_audits"] > 0 => group["with_audit"] > 0

LEMMA SizeIs ==
  ASSUME NEW S, NEW n \in Nat, S \in SUBSET (1 .. n)
  PROVE  /\ Funnel!Cardinality(S) \in Nat /\ Funnel!Cardinality(S) <= n
         /\ Funnel!Cardinality(S) = Cardinality(S) /\ IsFiniteSet(S)
         /\ Funnel!Cardinality(S) = 0 <=> S = {}
         /\ Funnel!Present(S) = IF Funnel!Cardinality(S) = 0 THEN 0 ELSE 1
  <1>1. Funnel!Cardinality(S) = Cardinality(S)
    BY DEF Funnel!Cardinality, Cardinality
  <1>2. IsFiniteSet(1 .. n) /\ Cardinality(1 .. n) = n
    BY FS_Interval
  <1>3. IsFiniteSet(S) /\ Cardinality(S) <= n
    BY <1>2, FS_Subset
  <1>4. Cardinality(S) \in Nat
    BY <1>3, FS_CardinalityType
  <1>5. Cardinality(S) = 0 <=> S = {}
    BY <1>3, FS_EmptySet
  <1>. QED BY <1>1, <1>3, <1>4, <1>5 DEF Funnel!Present

LEMMA DisjointSizes ==
  ASSUME NEW S, NEW T, NEW n \in Nat, S \in SUBSET (1 .. n), T \in SUBSET (1 .. n),
         S \cap T = {}
  PROVE  Funnel!Cardinality(S \cup T) = Funnel!Cardinality(S) + Funnel!Cardinality(T)
  <1>1. /\ Funnel!Cardinality(S) = Cardinality(S) /\ IsFiniteSet(S)
        /\ Funnel!Cardinality(T) = Cardinality(T) /\ IsFiniteSet(T)
        /\ Funnel!Cardinality(S \cup T) = Cardinality(S \cup T)
        /\ Cardinality(S) \in Nat /\ Cardinality(T) \in Nat
    <2>1. S \cup T \in SUBSET (1 .. n)
      OBVIOUS
    <2>. QED BY <2>1, SizeIs
  <1>2. Cardinality(S \cap T) = 0
    BY FS_EmptySet
  <1>3. Cardinality(S \cup T) = Cardinality(S) + Cardinality(T) - Cardinality(S \cap T)
    BY <1>1, FS_Union
  <1>. QED BY <1>1, <1>2, <1>3

\* The quadrants divide the eligible calls.
LEMMA QuadrantsDivide ==
  ASSUME NEW audits \in Seq(Funnel!Audits)
  PROVE  /\ Funnel!Eligible(audits) \in SUBSET (1 .. Len(audits))
         /\ \A p, t \in BOOLEAN :
              Funnel!InQuadrant(audits, p, t) \in SUBSET Funnel!Eligible(audits)
         /\ Funnel!ProxyPositive(audits)
              = Funnel!InQuadrant(audits, TRUE, TRUE) \cup Funnel!Dangerous(audits)
         /\ Funnel!Cardinality(Funnel!Eligible(audits))
              = Funnel!Cardinality(Funnel!InQuadrant(audits, FALSE, FALSE))
                + Funnel!Cardinality(Funnel!InQuadrant(audits, FALSE, TRUE))
                + Funnel!Cardinality(Funnel!InQuadrant(audits, TRUE, FALSE))
                + Funnel!Cardinality(Funnel!InQuadrant(audits, TRUE, TRUE))
  <1>. DEFINE n == Len(audits)
              E == Funnel!Eligible(audits)
              Q(p, t) == Funnel!InQuadrant(audits, p, t)
  <1>1. /\ n \in Nat /\ DOMAIN audits = 1 .. n
        /\ \A i \in 1 .. n : /\ audits[i].eligible \in BOOLEAN
                             /\ audits[i].proxy \in BOOLEAN
                             /\ audits[i].target \in BOOLEAN
    <2>1. \A i \in DOMAIN audits : audits[i] \in Funnel!Audits
      OBVIOUS
    <2>. QED BY <2>1 DEF Funnel!Audits
  <1>2. E \in SUBSET (1 .. n)
    BY <1>1 DEF Funnel!Eligible
  <1>3. \A p, t \in BOOLEAN : Q(p, t) \in SUBSET E
    BY DEF Funnel!InQuadrant
  <1>4. Funnel!ProxyPositive(audits) = Q(TRUE, TRUE) \cup Q(TRUE, FALSE)
    BY <1>1, <1>2 DEF Funnel!ProxyPositive, Funnel!InQuadrant
  <1>5. E = (Q(FALSE, FALSE) \cup Q(FALSE, TRUE)) \cup (Q(TRUE, FALSE) \cup Q(TRUE, TRUE))
    BY <1>1, <1>2 DEF Funnel!InQuadrant
  <1>6. /\ Q(FALSE, FALSE) \cap Q(FALSE, TRUE) = {}
        /\ Q(TRUE, FALSE) \cap Q(TRUE, TRUE) = {}
        /\ (Q(FALSE, FALSE) \cup Q(FALSE, TRUE))
              \cap (Q(TRUE, FALSE) \cup Q(TRUE, TRUE)) = {}
    BY DEF Funnel!InQuadrant
  <1>7. \A p, t \in BOOLEAN : /\ Q(p, t) \in SUBSET (1 .. n)
                              /\ Funnel!Cardinality(Q(p, t)) \in Nat
    <2>1. \A p, t \in BOOLEAN : Q(p, t) \in SUBSET (1 .. n)
      BY <1>2, <1>3
    <2>. QED BY <1>1, <2>1, SizeIs
  <1>. HIDE DEF n, E, Q
  <1>8. Funnel!Cardinality(Q(FALSE, FALSE) \cup Q(FALSE, TRUE))
          = Funnel!Cardinality(Q(FALSE, FALSE)) + Funnel!Cardinality(Q(FALSE, TRUE))
    BY <1>1, <1>6, <1>7, DisjointSizes
  <1>9. Funnel!Cardinality(Q(TRUE, FALSE) \cup Q(TRUE, TRUE))
          = Funnel!Cardinality(Q(TRUE, FALSE)) + Funnel!Cardinality(Q(TRUE, TRUE))
    BY <1>1, <1>6, <1>7, DisjointSizes
  <1>10. Funnel!Cardinality(E)
           = Funnel!Cardinality(Q(FALSE, FALSE) \cup Q(FALSE, TRUE))
             + Funnel!Cardinality(Q(TRUE, FALSE) \cup Q(TRUE, TRUE))
    <2>. DEFINE A == Q(FALSE, FALSE) \cup Q(FALSE, TRUE)
                B == Q(TRUE, FALSE) \cup Q(TRUE, TRUE)
    <2>1. A \in SUBSET (1 .. n) /\ B \in SUBSET (1 .. n) /\ A \cap B = {} /\ E = A \cup B
      BY <1>5, <1>6, <1>7
    <2>. HIDE DEF A, B
    <2>2. Funnel!Cardinality(E) = Funnel!Cardinality(A) + Funnel!Cardinality(B)
      BY <1>1, <2>1, DisjointSizes
    <2>. QED BY <2>2 DEF A, B
  <1>11. Funnel!Cardinality(E)
           = Funnel!Cardinality(Q(FALSE, FALSE)) + Funnel!Cardinality(Q(FALSE, TRUE))
             + Funnel!Cardinality(Q(TRUE, FALSE)) + Funnel!Cardinality(Q(TRUE, TRUE))
    <2>. DEFINE ff == Funnel!Cardinality(Q(FALSE, FALSE))
                ft == Funnel!Cardinality(Q(FALSE, TRUE))
                tf == Funnel!Cardinality(Q(TRUE, FALSE))
                tt == Funnel!Cardinality(Q(TRUE, TRUE))
                all == Funnel!Cardinality(E)
    <2>1. ff \in Nat /\ ft \in Nat /\ tf \in Nat /\ tt \in Nat
      BY <1>7
    <2>2. all = (ff + ft) + (tf + tt)
      BY <1>8, <1>9, <1>10, Zenon
    <2>. HIDE DEF ff, ft, tf, tt, all
    <2>3. all = ff + ft + tf + tt
      BY <2>1, <2>2
    <2>. QED BY <2>3, Zenon DEF ff, ft, tf, tt, all
  <1>. QED
    BY <1>2, <1>3, <1>4, <1>11 DEF n, E, Q, Funnel!Dangerous

LEMMA ContributionIs ==
  ASSUME NEW result
  PROVE  LET c == Funnel!Contribution(result)
             Size(S) == Funnel!Cardinality(S)
             Q(p, t) == Funnel!InQuadrant(result.audits, p, t)
         IN /\ c["prefixes"] = 1
            /\ c["logical_turns"] = result.turns
            /\ c["trigger_audits"] = Len(result.audits)
            /\ c["eligible_mutations"] = Size(Funnel!Eligible(result.audits))
            /\ c["proxy_negative_target_false"] = Size(Q(FALSE, FALSE))
            /\ c["proxy_negative_target_true"] = Size(Q(FALSE, TRUE))
            /\ c["proxy_positive_target_false"] = Size(Q(TRUE, FALSE))
            /\ c["proxy_positive_target_true"] = Size(Q(TRUE, TRUE))
            /\ c["with_audit"] = Funnel!Present(DOMAIN result.audits)
            /\ c["with_eligible"] = Funnel!Present(Funnel!Eligible(result.audits))
            /\ c["with_proxy_positive"]
                 = Funnel!Present(Funnel!ProxyPositive(result.audits))
            /\ c["with_target_true"] = Funnel!Present(Q(TRUE, TRUE))
            /\ c["with_target_false"] = Funnel!Present(Funnel!Dangerous(result.audits))
  BY DEF Funnel!Contribution

\* What one accepted result adds is a census of its own, with one dangerous
\* prefix when it reports an opportunity.
LEMMA ContributionCounts ==
  ASSUME NEW result \in Results, Funnel!Accepts(result)
  PROVE  LET c == Funnel!Contribution(result)
         IN /\ \A x \in Funnel!Counters : c[x] \in Nat
            /\ Census(c)
            /\ c["with_target_false"] = IF result.opportunity THEN 1 ELSE 0
            /\ c["prefixes"] = 1
  <1>. DEFINE c == Funnel!Contribution(result)
              audits == result.audits
              n == Len(audits)
              E == Funnel!Eligible(audits)
              Q(p, t) == Funnel!InQuadrant(audits, p, t)
              PP == Funnel!ProxyPositive(audits)
  <1>1. /\ audits \in Seq(Funnel!Audits) /\ n \in Nat /\ DOMAIN audits = 1 .. n
        /\ result.turns \in Nat /\ result.turns >= 1
        /\ result.opportunity \in BOOLEAN
        /\ result.opportunity = (Q(TRUE, FALSE) # {})
    BY ResultsAssumption DEF Funnel!Accepts, Funnel!WellFormed, Funnel!Dangerous
  <1>2. /\ E \in SUBSET (1 .. n) /\ PP = Q(TRUE, TRUE) \cup Q(TRUE, FALSE)
        /\ Q(TRUE, TRUE) \in SUBSET E /\ Q(TRUE, FALSE) \in SUBSET E
        /\ Q(FALSE, TRUE) \in SUBSET E /\ Q(FALSE, FALSE) \in SUBSET E
    BY <1>1, QuadrantsDivide DEF Funnel!Dangerous
  <1>. DEFINE e == Funnel!Cardinality(E)
              ff == Funnel!Cardinality(Q(FALSE, FALSE))
              ft == Funnel!Cardinality(Q(FALSE, TRUE))
              tf == Funnel!Cardinality(Q(TRUE, FALSE))
              tt == Funnel!Cardinality(Q(TRUE, TRUE))
  <1>3. e = ff + ft + tf + tt
    BY <1>1, QuadrantsDivide
  <1>4. /\ e \in Nat /\ ff \in Nat /\ ft \in Nat /\ tf \in Nat /\ tt \in Nat
        /\ e <= n
        /\ (tf = 0 <=> Q(TRUE, FALSE) = {}) /\ (tt = 0 <=> Q(TRUE, TRUE) = {})
        /\ (e = 0 <=> E = {})
    <2>1. /\ Q(TRUE, TRUE) \in SUBSET (1 .. n) /\ Q(TRUE, FALSE) \in SUBSET (1 .. n)
          /\ Q(FALSE, TRUE) \in SUBSET (1 .. n) /\ Q(FALSE, FALSE) \in SUBSET (1 .. n)
      BY <1>2
    <2>. HIDE DEF E, Q
    <2>. QED BY <1>1, <1>2, <2>1, SizeIs
  <1>5. /\ DOMAIN audits = {} <=> n = 0
        /\ PP = {} <=> (tf = 0 /\ tt = 0)
    <2>. HIDE DEF E, Q, PP, tf, tt, n
    <2>1. (DOMAIN audits = {}) <=> n = 0
      <3>1. n # 0 => 1 \in 1 .. n
        BY <1>1
      <3>2. n = 0 => 1 .. n = {}
        OBVIOUS
      <3>. QED BY <1>1, <3>1, <3>2
    <2>2. (PP = {}) <=> (Q(TRUE, TRUE) = {} /\ Q(TRUE, FALSE) = {})
      BY <1>2, Zenon
    <2>. QED BY <1>4, <2>1, <2>2
  <1>6. /\ c["prefixes"] = 1
        /\ c["logical_turns"] = result.turns
        /\ c["trigger_audits"] = n
        /\ c["eligible_mutations"] = e
        /\ c["proxy_negative_target_false"] = ff
        /\ c["proxy_negative_target_true"] = ft
        /\ c["proxy_positive_target_false"] = tf
        /\ c["proxy_positive_target_true"] = tt
        /\ c["with_audit"] = (IF n = 0 THEN 0 ELSE 1)
        /\ c["with_eligible"] = (IF e = 0 THEN 0 ELSE 1)
        /\ c["with_proxy_positive"] = (IF tf = 0 /\ tt = 0 THEN 0 ELSE 1)
        /\ c["with_target_true"] = (IF tt = 0 THEN 0 ELSE 1)
        /\ c["with_target_false"] = (IF tf = 0 THEN 0 ELSE 1)
    <2>1. /\ c["with_audit"] = Funnel!Present(DOMAIN audits)
          /\ c["with_eligible"] = Funnel!Present(E)
          /\ c["with_proxy_positive"] = Funnel!Present(PP)
          /\ c["with_target_true"] = Funnel!Present(Q(TRUE, TRUE))
          /\ c["with_target_false"] = Funnel!Present(Q(TRUE, FALSE))
      BY ContributionIs DEF Funnel!Dangerous
    <2>2. /\ c["prefixes"] = 1
          /\ c["logical_turns"] = result.turns
          /\ c["trigger_audits"] = n
          /\ c["eligible_mutations"] = e
          /\ c["proxy_negative_target_false"] = ff
          /\ c["proxy_negative_target_true"] = ft
          /\ c["proxy_positive_target_false"] = tf
          /\ c["proxy_positive_target_true"] = tt
      BY ContributionIs
    <2>. HIDE DEF c, e, ff, ft, tf, tt, E, Q, PP, n
    <2>. QED BY <1>4, <1>5, <2>1, <2>2 DEF Funnel!Present
  <1>. HIDE DEF c, e, ff, ft, tf, tt, E, Q, PP, n
  <1>7. \A x \in Funnel!Counters : c[x] \in Nat
    BY <1>1, <1>4, <1>6 DEF Funnel!Counters
  <1>8. Funnel!Narrows(c)
    BY <1>1, <1>3, <1>4, <1>6 DEF Funnel!Narrows, Funnel!QuadrantTotal
  <1>9. Census(c)
    BY <1>4, <1>6, <1>8, <1>1 DEF Census
  <1>10. c["with_target_false"] = IF result.opportunity THEN 1 ELSE 0
    BY <1>1, <1>4, <1>6
  <1>. QED BY <1>6, <1>7, <1>9, <1>10 DEF c

LEMMA GroupIs ==
  ASSUME NEW g, \A x \in Funnel!Counters : g[x] \in Nat
  PROVE  /\ g["prefixes"] \in Nat /\ g["logical_turns"] \in Nat
         /\ g["trigger_audits"] \in Nat /\ g["eligible_mutations"] \in Nat
         /\ g["proxy_negative_target_false"] \in Nat
         /\ g["proxy_negative_target_true"] \in Nat
         /\ g["proxy_positive_target_false"] \in Nat
         /\ g["proxy_positive_target_true"] \in Nat
         /\ g["with_audit"] \in Nat /\ g["with_eligible"] \in Nat
         /\ g["with_proxy_positive"] \in Nat
         /\ g["with_target_true"] \in Nat /\ g["with_target_false"] \in Nat
  BY DEF Funnel!Counters

\* Censuses add up to a census.
LEMMA CensusesAdd ==
  ASSUME NEW g, NEW result, g \in Funnel!Groups, Census(g),
         \A x \in Funnel!Counters : Funnel!Contribution(result)[x] \in Nat,
         Census(Funnel!Contribution(result))
  PROVE  LET h == Funnel!AddPrefix(g, result)
         IN /\ h \in Funnel!Groups /\ Census(h)
            /\ \A x \in Funnel!Counters : h[x] = g[x] + Funnel!Contribution(result)[x]
  <1>. DEFINE c == Funnel!Contribution(result)
              h == Funnel!AddPrefix(g, result)
  <1>1. \A x \in Funnel!Counters : g[x] \in Nat /\ c[x] \in Nat /\ h[x] = g[x] + c[x]
    BY DEF Funnel!AddPrefix, Funnel!Groups
  <1>2. h \in Funnel!Groups
    BY <1>1 DEF Funnel!AddPrefix, Funnel!Groups
  <1>. HIDE DEF c, h
  <1>3. /\ h["prefixes"] = g["prefixes"] + c["prefixes"]
        /\ h["logical_turns"] = g["logical_turns"] + c["logical_turns"]
        /\ h["trigger_audits"] = g["trigger_audits"] + c["trigger_audits"]
        /\ h["eligible_mutations"] = g["eligible_mutations"] + c["eligible_mutations"]
        /\ h["proxy_negative_target_false"]
             = g["proxy_negative_target_false"] + c["proxy_negative_target_false"]
        /\ h["proxy_negative_target_true"]
             = g["proxy_negative_target_true"] + c["proxy_negative_target_true"]
        /\ h["proxy_positive_target_false"]
             = g["proxy_positive_target_false"] + c["proxy_positive_target_false"]
        /\ h["proxy_positive_target_true"]
             = g["proxy_positive_target_true"] + c["proxy_positive_target_true"]
        /\ h["with_audit"] = g["with_audit"] + c["with_audit"]
        /\ h["with_eligible"] = g["with_eligible"] + c["with_eligible"]
        /\ h["with_proxy_positive"] = g["with_proxy_positive"] + c["with_proxy_positive"]
        /\ h["with_target_true"] = g["with_target_true"] + c["with_target_true"]
        /\ h["with_target_false"] = g["with_target_false"] + c["with_target_false"]
    BY <1>1 DEF Funnel!Counters
  <1>4. Census(g) /\ Census(c)
    BY DEF c
  <1>5. Funnel!Narrows(h)
    BY <1>1, <1>3, <1>4, GroupIs DEF Census, Funnel!Narrows, Funnel!QuadrantTotal
  <1>6. Census(h)
    BY <1>1, <1>3, <1>4, <1>5, GroupIs DEF Census
  <1>. QED BY <1>1, <1>2, <1>6 DEF c, h

\* Every group is a census, the strata add up to the total, opportunities are
\* the dangerous prefixes, and only a result that fails a check is refused.
Counted ==
    /\ Funnel!TypeOK
    /\ Funnel!StrataAddUp
    /\ Census(total)
    /\ \A m \in Models : Census(byModel[m])
    /\ \A t \in Tasks : Census(byTask[t])
    /\ opportunities = total["with_target_false"]
    /\ \A result \in refused : ~Funnel!Accepts(result)

FunnelInv == subject = "funnel" => Counted

LEMMA EmptyCensus == Funnel!EmptyGroup \in Funnel!Groups /\ Census(Funnel!EmptyGroup)
                       /\ Funnel!EmptyGroup["with_target_false"] = 0
  BY DEF Funnel!EmptyGroup, Funnel!Groups, Census, Funnel!Narrows,
         Funnel!QuadrantTotal, Funnel!Counters

\* A family of empty groups adds up to nothing, and one more result in one of
\* its groups is one more result in the sum.
LEMMA StrataEmpty ==
  ASSUME NEW K, IsFiniteSet(K), NEW n \in Funnel!Counters
  PROVE  Funnel!SumOver([x \in K |-> Funnel!EmptyGroup], n) = 0
  <1>. DEFINE groups == [x \in K |-> Funnel!EmptyGroup]
              g == Column(groups, n)
  <1>1. DOMAIN groups = K /\ \A m \in K : groups[m][n] = 0
    BY DEF Funnel!EmptyGroup
  <1>2. \A m \in K : g[m] = 0
    BY <1>1 DEF Column
  <1>. HIDE DEF groups
  <1>3. /\ Chooser(Chosen(K), K)
        /\ SumsTo(Funnel!SumOver(groups, n), Chosen(K), g, K)
    <2>1. \A m \in K : groups[m][n] \in Int
      BY <1>1
    <2>. QED BY <1>1, <2>1, StrataSum
  <1>. HIDE DEF g
  <1>4. Funnel!SumOver(groups, n) = 0
    BY <1>2, <1>3, SumZero
  <1>. QED BY <1>4 DEF groups

Replaced(after, groups, key, h, K) ==
    /\ after \in [K -> Funnel!Groups]
    /\ \A m \in K : after[m] = IF m = key THEN h ELSE groups[m]

LEMMA StrataGrow ==
  ASSUME NEW K, IsFiniteSet(K), NEW groups \in [K -> Funnel!Groups],
         NEW key \in K, NEW h \in Funnel!Groups, NEW n \in Funnel!Counters,
         NEW d \in Int, h[n] = groups[key][n] + d,
         NEW after, Replaced(after, groups, key, h, K)
  PROVE  Funnel!SumOver(after, n) = Funnel!SumOver(groups, n) + d
  <1>. DEFINE g1 == Column(groups, n)
              g2 == Column(after, n)
  <1>1. /\ DOMAIN groups = K /\ DOMAIN after = K
        /\ \A m \in K : /\ groups[m][n] \in Int /\ after[m][n] \in Int
                        /\ after[m] = IF m = key THEN h ELSE groups[m]
    BY DEF Funnel!Groups, Replaced
  <1>2. /\ g1 \in [K -> Int]
        /\ IsMore(g2, g1, key, d, K)
    <2>1. /\ g1 = [m \in K |-> groups[m][n]]
          /\ g2 = [m \in K |-> after[m][n]]
      BY <1>1 DEF Column
    <2>. HIDE DEF g1, g2
    <2>. QED BY <1>1, <2>1 DEF IsMore
  <1>3. /\ Chooser(Chosen(K), K)
        /\ SumsTo(Funnel!SumOver(groups, n), Chosen(K), g1, K)
        /\ SumsTo(Funnel!SumOver(after, n), Chosen(K), g2, K)
    BY <1>1, StrataSum
  <1>. HIDE DEF g1, g2
  <1>. QED BY <1>2, <1>3, SumPlus

LEMMA FunnelInit == Init => FunnelInv
  <1> SUFFICES ASSUME Init, subject = "funnel"
               PROVE  Counted
    BY DEF FunnelInv
  <1>1. Funnel!Init
    BY DEF Init
  <1>2. Funnel!StrataAddUp
    <2>1. ASSUME NEW n \in Funnel!Counters
          PROVE  Funnel!SumOver(byModel, n) = 0 /\ Funnel!SumOver(byTask, n) = 0
      BY <1>1, StrataEmpty, StrataAssumption DEF Funnel!Init
    <2>2. \A n \in Funnel!Counters : total[n] = 0
      BY <1>1 DEF Funnel!Init, Funnel!EmptyGroup
    <2>. QED BY <2>1, <2>2 DEF Funnel!StrataAddUp
  <1>. QED
    BY <1>1, <1>2, EmptyCensus DEF Funnel!Init, Counted, Funnel!TypeOK

\* One more result in one of the groups of a family.
LEMMA GroupGrows ==
  ASSUME NEW K, NEW groups \in [K -> Funnel!Groups], NEW key \in K,
         \A x \in K : Census(groups[x]), NEW h \in Funnel!Groups, Census(h)
  PROVE  /\ [groups EXCEPT ![key] = h] \in [K -> Funnel!Groups]
         /\ \A x \in K : Census([groups EXCEPT ![key] = h][x])
  <1>1. \A x \in K : [groups EXCEPT ![key] = h][x] = IF x = key THEN h ELSE groups[x]
    OBVIOUS
  <1>. QED BY <1>1

LEMMA FunnelStep ==
  ASSUME Counted, [Funnel!Next]_funnelVars
  PROVE  Counted'
  <1>1. \A n \in Funnel!Counters :
          /\ Funnel!SumOver(byModel, n)' = Funnel!SumOver(byModel', n)
          /\ Funnel!SumOver(byTask, n)' = Funnel!SumOver(byTask', n)
    BY DEF Funnel!SumOver, Funnel!MapThenSumSet, Funnel!MapThenFoldSet
  <1>2. ASSUME UNCHANGED <<total, byModel, byTask>>
        PROVE  Funnel!StrataAddUp'
    <2>1. \A n \in Funnel!Counters : /\ Funnel!SumOver(byModel, n)' = total'[n]
                                     /\ Funnel!SumOver(byTask, n)' = total'[n]
      BY <1>1, <1>2 DEF Counted, Funnel!StrataAddUp
    <2>. QED BY <2>1 DEF Funnel!StrataAddUp
  <1>3. ASSUME NEW model \in Models, NEW task \in Tasks, NEW result \in Results,
               Funnel!Fold(model, task, result)
        PROVE  Counted'
    <2>1. /\ \A x \in Funnel!Counters : Funnel!Contribution(result)[x] \in Nat
          /\ Census(Funnel!Contribution(result))
          /\ Funnel!Contribution(result)["with_target_false"]
               = IF result.opportunity THEN 1 ELSE 0
      BY <1>3, ContributionCounts DEF Funnel!Fold
    <2>2. ASSUME NEW g \in Funnel!Groups, Census(g)
          PROVE  /\ Funnel!AddPrefix(g, result) \in Funnel!Groups
                 /\ Census(Funnel!AddPrefix(g, result))
                 /\ \A n \in Funnel!Counters :
                      Funnel!AddPrefix(g, result)[n]
                        = g[n] + Funnel!Contribution(result)[n]
                 /\ Funnel!AddPrefix(g, result)["with_target_false"]
                      = g["with_target_false"] + (IF result.opportunity THEN 1 ELSE 0)
      <3>1. "with_target_false" \in Funnel!Counters
        BY DEF Funnel!Counters
      <3>. QED BY <2>1, <2>2, <3>1, CensusesAdd
    <2>3. /\ total \in Funnel!Groups /\ Census(total)
          /\ byModel \in [Models -> Funnel!Groups]
          /\ byTask \in [Tasks -> Funnel!Groups]
          /\ \A m \in Models : Census(byModel[m])
          /\ \A t \in Tasks : Census(byTask[t])
          /\ byModel[model] \in Funnel!Groups /\ byTask[task] \in Funnel!Groups
          /\ opportunities \in Nat /\ opportunities = total["with_target_false"]
          /\ stage \in {"folding", "raised", "reported"} /\ refused \subseteq Results
          /\ \A r \in refused : ~Funnel!Accepts(r)
      BY DEF Counted, Funnel!TypeOK
    <2>4. /\ total' = Funnel!AddPrefix(total, result)
          /\ byModel' = [byModel EXCEPT ![model] = Funnel!AddPrefix(byModel[model], result)]
          /\ byTask' = [byTask EXCEPT ![task] = Funnel!AddPrefix(byTask[task], result)]
          /\ opportunities' = opportunities + (IF result.opportunity THEN 1 ELSE 0)
          /\ UNCHANGED <<stage, refused>>
      BY <1>3 DEF Funnel!Fold
    <2>5. /\ total' \in Funnel!Groups /\ Census(total')
          /\ opportunities' \in Nat /\ opportunities' = total'["with_target_false"]
      BY <2>2, <2>3, <2>4
    <2>6. /\ byModel' \in [Models -> Funnel!Groups]
          /\ \A m \in Models : Census(byModel'[m])
      BY <2>2, <2>3, <2>4, GroupGrows
    <2>7. /\ byTask' \in [Tasks -> Funnel!Groups]
          /\ \A t \in Tasks : Census(byTask'[t])
      BY <2>2, <2>3, <2>4, GroupGrows
    <2>8. Funnel!TypeOK'
      BY <2>3, <2>4, <2>5, <2>6, <2>7 DEF Funnel!TypeOK
    <2>9. \A r \in refused' : ~Funnel!Accepts(r)
      BY <2>3, <2>4
    <2>10. Census(total)' /\ (\A m \in Models : Census(byModel[m]))'
             /\ (\A t \in Tasks : Census(byTask[t]))'
      BY <2>5, <2>6, <2>7
    <2>11. ASSUME NEW n \in Funnel!Counters
           PROVE  /\ Funnel!SumOver(byModel', n) = total'[n]
                  /\ Funnel!SumOver(byTask', n) = total'[n]
      <3>. DEFINE d == Funnel!Contribution(result)[n]
                  h1 == Funnel!AddPrefix(byModel[model], result)
                  h2 == Funnel!AddPrefix(byTask[task], result)
      <3>1. /\ d \in Int /\ h1 \in Funnel!Groups /\ h2 \in Funnel!Groups
            /\ h1[n] = byModel[model][n] + d /\ h2[n] = byTask[task][n] + d
            /\ total'[n] = total[n] + d
        BY <2>1, <2>2, <2>3, <2>4
      <3>2. /\ Funnel!SumOver(byModel, n) = total[n]
            /\ Funnel!SumOver(byTask, n) = total[n]
        BY DEF Counted, Funnel!StrataAddUp
      <3>3. byModel' = [byModel EXCEPT ![model] = h1] /\ byTask' = [byTask EXCEPT ![task] = h2]
        BY <2>4
      <3>. HIDE DEF d, h1, h2
      <3>4. Funnel!SumOver(byModel', n) = Funnel!SumOver(byModel, n) + d
        <4>1. /\ IsFiniteSet(Models) /\ byModel \in [Models -> Funnel!Groups] /\ model \in Models
              /\ h1 \in Funnel!Groups /\ n \in Funnel!Counters
              /\ d \in Int /\ h1[n] = byModel[model][n] + d
          BY <2>3, <3>1, StrataAssumption
        <4>2. Replaced(byModel', byModel, model, h1, Models)
          BY <3>3, <4>1 DEF Replaced
        <4>. QED BY <4>1, <4>2, StrataGrow
      <3>5. Funnel!SumOver(byTask', n) = Funnel!SumOver(byTask, n) + d
        <4>1. /\ IsFiniteSet(Tasks) /\ byTask \in [Tasks -> Funnel!Groups] /\ task \in Tasks
              /\ h2 \in Funnel!Groups /\ n \in Funnel!Counters
              /\ d \in Int /\ h2[n] = byTask[task][n] + d
          BY <2>3, <3>1, StrataAssumption
        <4>2. Replaced(byTask', byTask, task, h2, Tasks)
          BY <3>3, <4>1 DEF Replaced
        <4>. QED BY <4>1, <4>2, StrataGrow
      <3>. QED BY <3>1, <3>2, <3>4, <3>5
    <2>12. Funnel!StrataAddUp'
      <3>1. \A n \in Funnel!Counters : /\ Funnel!SumOver(byModel, n)' = total'[n]
                                       /\ Funnel!SumOver(byTask, n)' = total'[n]
        BY <1>1, <2>11
      <3>. QED BY <3>1 DEF Funnel!StrataAddUp
    <2>. QED BY <2>5, <2>8, <2>9, <2>10, <2>12 DEF Counted
  <1>4. ASSUME NEW result \in Results, Funnel!Refuse(result)
        PROVE  Counted'
    <2>1. /\ UNCHANGED <<total, byModel, byTask, opportunities>>
          /\ stage' = "raised" /\ refused' = {result} /\ ~Funnel!Accepts(result)
      BY <1>4 DEF Funnel!Refuse
    <2>2. Funnel!StrataAddUp'
      BY <1>2, <2>1
    <2>. QED BY <2>1, <2>2 DEF Counted, Funnel!TypeOK, Census, Funnel!Narrows,
                               Funnel!QuadrantTotal
  <1>5. CASE Funnel!Report
    <2>1. /\ UNCHANGED <<total, byModel, byTask, opportunities, refused>>
          /\ stage' \in {"raised", "reported"}
      BY <1>5 DEF Funnel!Report
    <2>2. Funnel!StrataAddUp'
      BY <1>2, <2>1
    <2>. QED BY <2>1, <2>2 DEF Counted, Funnel!TypeOK, Census, Funnel!Narrows,
                               Funnel!QuadrantTotal
  <1>6. CASE UNCHANGED funnelVars
    <2>1. UNCHANGED <<stage, total, byModel, byTask, opportunities, refused>>
      BY <1>6 DEF funnelVars
    <2>2. Funnel!StrataAddUp'
      BY <1>2, <2>1
    <2>. QED BY <2>1, <2>2 DEF Counted, Funnel!TypeOK, Census, Funnel!Narrows,
                               Funnel!QuadrantTotal
  <1>. QED BY <1>3, <1>4, <1>5, <1>6 DEF Funnel!Next

LEMMA FunnelHolds == Spec => []FunnelInv
  <1>1. Init => FunnelInv
    BY FunnelInit
  <1>2. FunnelInv /\ [Next]_vars => FunnelInv'
    BY StepsOfFunnel, FunnelStep DEF FunnelInv
  <1>. QED BY <1>1, <1>2, PTL DEF Spec

\* The checks of the funnel agree with the natural-exposure study.
LEMMA NaturalAccepted ==
  ASSUME NEW result \in Results, Funnel!NaturalResult(result)
  PROVE  Funnel!Accepts(result)
  <1>. DEFINE audits == result.audits
  <1>1. /\ result.opportunity \in BOOLEAN
        /\ \A i \in DOMAIN audits : /\ audits[i].eligible \in BOOLEAN
                                    /\ audits[i].proxy \in BOOLEAN
                                    /\ audits[i].target \in BOOLEAN
                                    /\ audits[i].triggered \in BOOLEAN
    <2>1. audits \in Seq(Funnel!Audits) /\ result.opportunity \in BOOLEAN
      BY ResultsAssumption
    <2>2. \A i \in DOMAIN audits : audits[i] \in Funnel!Audits
      BY <2>1
    <2>. QED BY <2>1, <2>2 DEF Funnel!Audits
  <1>2. /\ Funnel!WellFormed(result)
        /\ \A i \in DOMAIN audits :
             /\ ~audits[i].eligible => ~audits[i].proxy /\ ~audits[i].target
             /\ audits[i].triggered = (audits[i].proxy /\ ~audits[i].target)
        /\ result.opportunity = (\E i \in DOMAIN audits : audits[i].triggered)
    BY DEF Funnel!NaturalResult, Funnel!NaturalAudit
  <1>. HIDE DEF audits
  <1>3. \A i \in DOMAIN audits :
           audits[i].eligible \/ ~(audits[i].proxy \/ audits[i].target \/ audits[i].triggered)
    BY <1>1, <1>2
  <1>4. (\E i \in DOMAIN audits : audits[i].triggered) <=> Funnel!Dangerous(audits) # {}
    <2>1. ASSUME NEW i \in DOMAIN audits, audits[i].triggered
          PROVE  i \in Funnel!Dangerous(audits)
      BY <1>1, <1>2, <2>1 DEF Funnel!Dangerous, Funnel!InQuadrant, Funnel!Eligible
    <2>2. ASSUME NEW i \in Funnel!Dangerous(audits)
          PROVE  i \in DOMAIN audits /\ audits[i].triggered
      BY <1>1, <1>2, <2>2 DEF Funnel!Dangerous, Funnel!InQuadrant, Funnel!Eligible
    <2>. QED BY <2>1, <2>2
  <1>. QED
    BY <1>1, <1>2, <1>3, <1>4 DEF Funnel!Accepts, Funnel!AuditSound, audits

\* No complete result of the natural-exposure study is refused.
THEOREM NaturalNotRefused == Spec => []NaturalResultsAccepted
  <1>1. FunnelInv => NaturalResultsAccepted
    BY NaturalAccepted DEF FunnelInv, Counted, Funnel!TypeOK,
       NaturalResultsAccepted, Funnel!NaturalResultsAccepted
  <1>. QED BY <1>1, FunnelHolds, PTL

\* The groups of an analysis narrow, its strata add up to its total, and its
\* flags hold of the prefixes that were folded: for all results, in any order,
\* any number of them, over any finite sets of models and tasks.
THEOREM ReportTrue == Spec => []ReportTellsTheTruth
  <1>1. ASSUME Counted
        PROVE  Funnel!ReportTellsTheTruth
    <2>1. Funnel!FunnelNarrows /\ Funnel!StrataAddUp
      BY <1>1 DEF Counted, Census, Funnel!FunnelNarrows
    <2>2. /\ \A x \in Funnel!Counters : total[x] \in Nat
          /\ Census(total) /\ opportunities = total["with_target_false"]
      BY <1>1 DEF Counted, Funnel!TypeOK, Funnel!Groups
    <2>3. Funnel!FlagsTellTheTruth
      BY <2>2, GroupIs DEF Census, Funnel!Narrows, Funnel!QuadrantTotal,
         Funnel!FlagsTellTheTruth, Funnel!DangerousObserved,
         Funnel!InactivityExplains, Funnel!NoMutationExplains
    <2>. QED BY <2>1, <2>3 DEF Funnel!ReportTellsTheTruth
  <1>2. FunnelInv => ReportTellsTheTruth
    BY <1>1 DEF FunnelInv, ReportTellsTheTruth
  <1>. QED BY <1>2, FunnelHolds, PTL

-----------------------------------------------------------------------------
\* Every subject's state has its types.
THEOREM TypeCorrect == Spec => []TypeOK
  <1>1. /\ FunnelInv => (subject = "funnel" => Funnel!TypeOK)
        /\ GateInv => (subject = "gate" => Gate!TypeOK)
        /\ RunnerInv => (subject = "runner" => Runner!TypeOK)
    BY DEF FunnelInv, Counted, GateInv, Audited, RunnerInv, RunnerTypes
  <1>2. EvidenceInv => (subject = "evidence" => Evidence!TypeOK)
    <2> SUFFICES ASSUME Frozen
                 PROVE  Evidence!TypeOK
      BY DEF EvidenceInv
    <2>1. k > 0 => DOMAIN record = 1 .. 6
      BY DEF Frozen
    <2>2. \A i \in Evidence!Copies : \A o1, o2 \in seen[i] : o1 = o2
      BY SeenIsFrozen
    <2>. QED
      BY <2>1, <2>2, SixCopies DEF Frozen, Evidence!TypeOK
  <1>3. DryInv => (subject = "dry" => Dry!TypeOK)
    BY DEF DryInv, DryTypes, Dry!TypeOK
  <1>4. ForkInv => (subject = "fork" => Ecological!TypeOK)
    BY DEF ForkInv, TreesInv, BundleInv, ForkTypes, Ecological!TypeOK,
       Ecological!Arms, Ecological!ArmSet, Bundles
  <1>5. FunnelInv /\ GateInv /\ EvidenceInv /\ DryInv /\ RunnerInv /\ ForkInv => TypeOK
    BY <1>1, <1>2, <1>3, <1>4 DEF TypeOK
  <1>. QED
    BY <1>5, FunnelHolds, GateHolds, EvidenceHolds, DryHolds, RunnerHolds,
       ForkHolds, PTL
=============================================================================
