------------------------ MODULE ComponentDriverProofs ------------------------
(***************************************************************************)
(* Theorems about ComponentDriver, for every set of components, graph of   *)
(* dependencies and composition: its waves and the releases recorded after *)
(* them; what an unwind may find still running and what it deals with;     *)
(* what a step finds of the outputs it refers to; gates; and that the      *)
(* driver implements the saga.  All but the first rest on compositions     *)
(* being finite trees (NestingType, PlaceType).                            *)
(***************************************************************************)
EXTENDS ComponentDriver, WellFoundedInduction, TLAPS

-----------------------------------------------------------------------------
(* The inductive invariant. *)

\* What of the types the argument needs.
RunTypes ==
  /\ run \in {"idle", "layering", "running", "recording",
              "ok", "failed", "gated", "disabled", "unknown", "cyclic"}
  /\ target \subseteq Component /\ remaining \subseteq target
  /\ DOMAIN deps = Component
  /\ waves \in Seq(SUBSET Component) /\ wave \in 0..Len(waves)
  /\ stage \in [Component -> Stage]
  /\ declined \in Declines
  /\ recorded \subseteq Component /\ warned \subseteq Component

\* A wave holds components of the run that are placed nowhere else, and what they
\* depend on is in waves before it.
WavesLayered ==
  /\ \A c \in target \ remaining : \E i \in 1..Len(waves) : c \in waves[i]
  /\ \A i \in 1..Len(waves) :
       /\ waves[i] \subseteq target \ remaining
       /\ \A c \in waves[i] : \A j \in 1..Len(waves) : c \in waves[j] => j = i
       /\ \A c \in waves[i] : \A d \in deps[c] : \E j \in 1..(i - 1) : d \in waves[j]

\* Components start wave by wave, each when the ones before have succeeded.
WavesFollowed ==
  /\ \A c \in Component : stage[c] # "waiting" => \E i \in 1..wave : c \in waves[i]
  /\ \A i \in 1..(wave - 1) : \A c \in waves[i] : stage[c] = "ok"

\* What each part of a run may rely on.
RunProgress ==
  /\ run \in {"idle", "layering"} => wave = 0
  /\ run = "idle" => /\ target = {} /\ waves = <<>>
                     /\ \A c \in Component : deps[c] = {}
  /\ run = "layering" => \A c \in target : deps[c] \subseteq target
  /\ run \in {"running", "recording", "ok"} => remaining = {}
  /\ run \in {"recording", "ok"} => \A c \in target : stage[c] = "ok"

\* Releases are attempted once all has succeeded, and all before the run ends well,
\* unless the run declines.
Recorded ==
  /\ recorded \cup warned # {} => run \in {"recording", "ok"} /\ declined = "no"
  /\ recorded \cup warned \subseteq {c \in target : Publishes(c)}
  /\ run = "ok" /\ declined = "no" =>
       {c \in target : Publishes(c)} \subseteq recorded \cup warned

WaveInv == RunTypes /\ WavesLayered /\ WavesFollowed /\ RunProgress /\ Recorded

-----------------------------------------------------------------------------
(* What a step does to a run. *)

\* Components get on, and nothing else of the run changes.
StagesMove ==
  /\ UNCHANGED <<run, target, deps, remaining, waves, wave, declined, recorded, warned>>
  /\ stage' \in [Component -> Stage]
  /\ \A c \in Component :
       \/ stage'[c] = stage[c]
       \/ stage[c] \in {"deploying", "unwinding", "compensating"} /\ stage'[c] # "waiting"

\* The run gets on, and no component does.
RunMoves == Layer \/ RunFails \/ RunSucceeds \/ RecordingDone
              \/ \E c \in Component : RecordRelease(c)

LEMMA NextCases ==
  ASSUME RunTypes, [Next]_vars
  PROVE  StagesMove \/ RunMoves \/ Select \/ NextWave
<1> USE DEF RunTypes, Stage
<1>1. ASSUME NEW c \in Component, ComponentStep(c)
      PROVE  StagesMove \/ RunMoves
  BY <1>1 DEF ComponentStep, AfterDeployPhase, AfterRollbackPhase, DeployDone, Unwind,
              UnwindDone, RollbackDone, StagesMove, RunMoves, plan, releases
<1>2. ASSUME NEW ph \in Phase, StartPhase(ph) \/ SettlePhase(ph)
      PROVE  StagesMove
  BY <1>2 DEF StartPhase, SettlePhase, StagesMove, plan, releases
<1>3. ASSUME NEW s \in Step, StartStep(s) \/ FinishStep(s)
      PROVE  StagesMove
  BY <1>3 DEF StartStep, FinishStep, StagesMove, plan, releases
<1>4. CASE UNCHANGED vars
  BY <1>4 DEF vars, plan, deploy, releases, StagesMove
<1> QED
  BY <1>1, <1>2, <1>3, <1>4 DEF Next, Work, Exited, RunMoves

-----------------------------------------------------------------------------
(* The invariant is inductive. *)

LEMMA WaveInit == Init => WaveInv
<1> SUFFICES ASSUME Init PROVE WaveInv
  OBVIOUS
<1>1. RunTypes
  BY DEF Init, RunTypes, Stage, Declines
<1> QED
  BY <1>1 DEF Init, WaveInv, WavesLayered, WavesFollowed, RunProgress, Recorded

LEMMA SelectWaves ==
  ASSUME WaveInv, Select
  PROVE  WaveInv'
<1> USE DEF WaveInv, RunTypes, WavesLayered, WavesFollowed, RunProgress, Recorded
<1>1. /\ run = "idle" /\ wave = 0 /\ waves = <<>> /\ target = {} /\ remaining = {}
      /\ recorded = {} /\ warned = {}
      /\ UNCHANGED <<wave, stage, declined, recorded, warned>>
      /\ \A c \in Component : deps[c] = {}
  BY DEF Select, releases
<1>2. ASSUME NEW off \in SUBSET Component, NEW needs \in DependsOns, SelectAll(off, needs)
      PROVE  WaveInv'
  <2>1. /\ target' = Component \ off /\ remaining' = target' /\ waves' = <<>>
        /\ deps' = [c \in Component |-> needs[c] \ off]
        /\ run' \in {"gated", "unknown", "layering"}
        /\ run' = "layering" => \A c \in target' : deps'[c] \subseteq target'
    BY <1>1, <1>2 DEF SelectAll
  <2> QED
    BY <1>1, <2>1
<1>3. ASSUME NEW off \in SUBSET Component, NEW c \in Component, SelectOne(c, off)
      PROVE  WaveInv'
  <2>1. /\ UNCHANGED <<deps, remaining>>
        /\ \/ target' = {} /\ waves' = <<>> /\ run' = "disabled"
           \/ target' = {c} /\ waves' = <<{c}>> /\ run' \in {"gated", "running"}
    BY <1>3 DEF SelectOne
  <2>2. CASE target' = {} /\ waves' = <<>> /\ run' = "disabled"
    BY <1>1, <2>1, <2>2
  <2>3. CASE target' = {c} /\ waves' = <<{c}>> /\ run' \in {"gated", "running"}
    <3>1. waves' \in Seq(SUBSET Component) /\ Len(waves') = 1 /\ waves'[1] = {c}
      BY <2>3
    <3> QED
      BY <1>1, <2>1, <2>3, <3>1
  <2> QED
    BY <2>1, <2>2, <2>3
<1> QED
  BY <1>2, <1>3 DEF Select

LEMMA StagesMoveWaves ==
  ASSUME WaveInv, StagesMove
  PROVE  WaveInv'
<1> USE DEF WaveInv, StagesMove
<1>1. RunTypes' /\ WavesLayered'
  BY DEF RunTypes, WavesLayered
<1>2. WavesFollowed'
  BY DEF WavesFollowed, RunTypes
<1>3. RunProgress' /\ Recorded'
  BY DEF RunProgress, Recorded, RunTypes, Publishes
<1> QED
  BY <1>1, <1>2, <1>3

LEMMA LayerWaves ==
  ASSUME WaveInv, Layer
  PROVE  WaveInv'
<1> DEFINE next == {c \in remaining : Placeable(c)}
           n == Len(waves) + 1
<1>1. /\ run = "layering" /\ wave = 0 /\ recorded = {} /\ warned = {}
      /\ UNCHANGED <<target, deps, wave, stage, declined, recorded, warned>>
  BY DEF Layer, WaveInv, RunProgress, Recorded, deploy, releases
<1>2. CASE UNCHANGED <<waves, remaining>> /\ run' \in {"running", "cyclic"}
           /\ (run' = "running" => remaining = {})
  BY <1>1, <1>2 DEF WaveInv, RunTypes, WavesLayered, WavesFollowed, RunProgress, Recorded
<1>3. CASE waves' = Append(waves, next) /\ remaining' = remaining \ next /\ run' = run
  <2> USE DEF WaveInv
  <2>1. waves \in Seq(SUBSET Component) /\ next \in SUBSET Component /\ next \subseteq remaining
    BY DEF RunTypes
  <2>2. /\ waves' \in Seq(SUBSET Component) /\ Len(waves') = n /\ waves'[n] = next
        /\ \A i \in 1..Len(waves) : waves'[i] = waves[i]
        /\ \A i \in 1..n : i = n \/ i \in 1..Len(waves)
        /\ n \in Nat
    BY <1>3, <2>1
  <2>3. RunTypes'
    BY <1>1, <1>3, <2>1, <2>2 DEF RunTypes
  <2>4. ASSUME NEW c \in next, NEW d \in deps[c]
        PROVE  \E j \in 1..(n - 1) : d \in waves'[j]
    <3>1. d \in target \ remaining
      BY <1>1, <2>1 DEF RunProgress, RunTypes, Placeable
    <3>2. PICK i \in 1..Len(waves) : d \in waves[i]
      BY <3>1 DEF WavesLayered
    <3> QED
      BY <2>2, <3>2
  <2>5. WavesLayered'
    <3> HIDE DEF next
    <3>1. ASSUME NEW c \in target \ remaining'
          PROVE  \E i \in 1..n : c \in waves'[i]
      <4>1. CASE c \in next
        BY <4>1, <2>2
      <4>2. CASE c \notin next
        <5>1. PICK i \in 1..Len(waves) : c \in waves[i]
          BY <4>2, <1>3 DEF WavesLayered
        <5> QED
          BY <5>1, <2>2
      <4> QED
        BY <4>1, <4>2
    <3>2. ASSUME NEW i \in 1..n
          PROVE  /\ waves'[i] \subseteq target \ remaining'
                 /\ \A c \in waves'[i] : \A j \in 1..n : c \in waves'[j] => j = i
                 /\ \A c \in waves'[i] : \A d \in deps[c] : \E j \in 1..(i - 1) : d \in waves'[j]
      <4>1. CASE i = n
        BY <4>1, <1>3, <2>1, <2>2, <2>4 DEF WavesLayered, RunTypes
      <4>2. CASE i \in 1..Len(waves)
        <5>1. waves'[i] = waves[i] /\ waves[i] \subseteq target \ remaining
          BY <4>2, <2>2 DEF WavesLayered
        <5>2. ASSUME NEW c \in waves[i], NEW j \in 1..n, c \in waves'[j]
              PROVE  j = i
          BY <4>2, <5>1, <5>2, <2>1, <2>2 DEF WavesLayered
        <5>3. ASSUME NEW c \in waves[i], NEW d \in deps[c]
              PROVE  \E j \in 1..(i - 1) : d \in waves'[j]
          <6>1. PICK j \in 1..(i - 1) : d \in waves[j]
            BY <4>2 DEF WavesLayered
          <6>2. j \in 1..Len(waves)
            BY <4>2, <2>1
          <6> QED
            BY <6>1, <6>2, <2>2
        <5> QED
          BY <5>1, <5>2, <5>3, <1>3
      <4> QED
        BY <4>1, <4>2, <2>2
    <3> QED
      BY <3>1, <3>2, <1>1, <2>2 DEF WavesLayered
  <2>6. WavesFollowed' /\ RunProgress' /\ Recorded'
    BY <1>1, <1>3, <2>1, <2>2 DEF WavesFollowed, RunProgress, Recorded, RunTypes, Publishes
  <2> QED
    BY <2>3, <2>5, <2>6
<1> QED
  BY <1>1, <1>2, <1>3 DEF Layer

\* The members of the next wave have not started: they are in that wave alone.
LEMMA NextWaveFresh ==
  ASSUME WaveInv, NextWave, NEW c \in waves[wave']
  PROVE  stage[c] = "waiting" /\ wave' \in 1..Len(waves) /\ wave' = wave + 1
<1> USE DEF WaveInv, RunTypes
<1>1. wave' = wave + 1 /\ wave' \in 1..Len(waves) /\ wave \in Nat
  BY DEF NextWave
<1>2. c \in Component
  BY <1>1
<1>3. \A i \in 1..wave : c \notin waves[i]
  BY <1>1 DEF WavesLayered
<1> QED
  BY <1>1, <1>2, <1>3 DEF WavesFollowed

\* Before the next wave starts all the ones before it have succeeded.
LEMMA EarlierWavesOk ==
  ASSUME WaveInv, WaveSucceeded
  PROVE  \A i \in 1..wave : \A c \in waves[i] : stage[c] = "ok"
<1> SUFFICES ASSUME NEW i \in 1..wave, NEW c \in waves[i]
             PROVE  stage[c] = "ok"
  OBVIOUS
<1>1. wave \in Nat /\ (i = wave \/ i \in 1..(wave - 1))
  BY DEF WaveInv, RunTypes
<1> QED
  BY <1>1 DEF WaveInv, WavesFollowed, WaveSucceeded

LEMMA NextWaveWaves ==
  ASSUME WaveInv, NextWave
  PROVE  WaveInv'
<1> USE DEF WaveInv
<1>1. /\ run = "running" /\ recorded = {} /\ warned = {} /\ wave < Len(waves) /\ wave' = wave + 1
      /\ UNCHANGED <<run, target, deps, remaining, waves, declined, recorded, warned>>
      /\ stage' = [c \in Component |-> IF c \in waves[wave'] THEN "deploying" ELSE stage[c]]
      /\ WaveSucceeded
  BY DEF NextWave, plan, releases, Recorded
<1>2. RunTypes' /\ WavesLayered'
  BY <1>1 DEF RunTypes, WavesLayered, Stage
<1>3. WavesFollowed'
  <2>1. wave \in Nat /\ wave' - 1 = wave /\ wave' \in 1..Len(waves)
    BY <1>1 DEF RunTypes
  <2>2. ASSUME NEW c \in Component, stage'[c] # "waiting"
        PROVE  \E i \in 1..wave' : c \in waves[i]
    BY <2>2, <1>1, <2>1 DEF WavesFollowed
  <2>3. ASSUME NEW i \in 1..wave, NEW c \in waves[i]
        PROVE  stage'[c] = "ok"
    <3>1. c \in Component /\ stage[c] = "ok"
      BY <2>1, <1>1, EarlierWavesOk DEF RunTypes
    <3>2. c \notin waves[wave']
      BY <3>1, NextWaveFresh
    <3> QED
      BY <1>1, <3>1, <3>2
  <2> QED
    BY <1>1, <2>1, <2>2, <2>3 DEF WavesFollowed
<1>4. RunProgress' /\ Recorded'
  BY <1>1 DEF RunProgress, Recorded
<1> QED
  BY <1>2, <1>3, <1>4

LEMMA RunMovesWaves ==
  ASSUME WaveInv, RunMoves
  PROVE  WaveInv'
<1>1. CASE RunFails
  <2>1. /\ run = "running" /\ run' = "failed" /\ recorded = {} /\ warned = {}
        /\ UNCHANGED <<target, deps, remaining, waves, wave, stage, declined, recorded, warned>>
    BY <1>1 DEF RunFails, WaveInv, Recorded, plan, deploy, releases
  <2> QED
    BY <2>1 DEF WaveInv, RunTypes, WavesLayered, WavesFollowed, RunProgress, Recorded, Publishes
<1>2. CASE RunSucceeds
  <2>1. /\ run = "running" /\ run' = "recording" /\ wave = Len(waves)
        /\ declined' \in Declines /\ recorded = {} /\ warned = {}
        /\ UNCHANGED <<target, deps, remaining, waves, wave, stage, recorded, warned>>
    BY <1>2 DEF RunSucceeds, WaveInv, Recorded, plan, deploy
  <2>2. \A i \in 1..wave : \A c \in waves[i] : stage[c] = "ok"
    BY <1>2, EarlierWavesOk DEF RunSucceeds
  <2>3. \A c \in target : stage[c] = "ok"
    BY <2>1, <2>2 DEF WaveInv, RunProgress, WavesLayered
  <2> QED
    BY <2>1, <2>3 DEF WaveInv, RunTypes, WavesLayered, WavesFollowed, RunProgress, Recorded,
                      Publishes
<1>3. ASSUME NEW c \in Component, RecordRelease(c)
      PROVE  WaveInv'
  BY <1>3 DEF RecordRelease, ToRecord, WaveInv, RunTypes, WavesLayered, WavesFollowed,
              RunProgress, Recorded, plan, deploy, releases, Publishes
<1>4. CASE RecordingDone
  BY <1>4 DEF RecordingDone, ToRecord, WaveInv, RunTypes, WavesLayered, WavesFollowed,
              RunProgress, Recorded, plan, deploy, releases, Publishes
<1> QED
  BY <1>1, <1>2, <1>3, <1>4, LayerWaves DEF RunMoves

LEMMA WaveInvariant == Spec => []WaveInv
<1>1. WaveInv /\ [Next]_vars => WaveInv'
  BY NextCases, StagesMoveWaves, RunMovesWaves, SelectWaves, NextWaveWaves DEF WaveInv
<1> QED
  BY <1>1, WaveInit, PTL DEF Spec

-----------------------------------------------------------------------------
(* The theorems. *)

LEMMA WaveInvImplies == WaveInv => DependenciesFirst
<1> SUFFICES ASSUME WaveInv, NEW c \in Component, stage[c] # "waiting", NEW d \in deps[c]
             PROVE  stage[d] = "ok"
  BY DEF DependenciesFirst
<1> USE DEF WaveInv, RunTypes
<1>1. PICK i \in 1..wave : c \in waves[i]
  BY DEF WavesFollowed
<1>2. wave \in Nat /\ i \in 1..Len(waves)
  OBVIOUS
<1>3. PICK j \in 1..(i - 1) : d \in waves[j]
  BY <1>1, <1>2 DEF WavesLayered
<1>4. j \in 1..(wave - 1)
  BY <1>2
<1> QED
  BY <1>3, <1>4 DEF WavesFollowed

\* For any dependency graph a component starts when all it depends on has succeeded:
\* a cycle or an unknown name has ended the run before the first wave.
THEOREM Dependencies == Spec => []DependenciesFirst
BY WaveInvImplies, WaveInvariant, PTL

\* No component starts once another of the run has failed or is being unwound.
THEOREM StopsAtFailure == Spec => NoStartAfterFailure
<1> DEFINE Stays == \A c, d \in Component :
                      stage[c] = "waiting" /\ GivenUp(d) => stage'[c] = "waiting"
<1>1. WaveInv /\ [Next]_vars => Stays
  <2> SUFFICES ASSUME WaveInv, [Next]_vars, NEW c \in Component, NEW d \in Component,
                      stage[c] = "waiting", GivenUp(d)
               PROVE  stage'[c] = "waiting"
    OBVIOUS
  <2>1. CASE StagesMove
    BY <2>1 DEF StagesMove
  <2>2. CASE Select \/ RunMoves
    BY <2>2 DEF Select, RunMoves, Layer, RunFails, RunSucceeds, RecordingDone, RecordRelease, deploy
  <2>3. CASE NextWave
    <3>1. PICK i \in 1..wave : d \in waves[i]
      BY DEF GivenUp, WaveInv, WavesFollowed
    <3>2. stage[d] = "ok"
      BY <2>3, <3>1, EarlierWavesOk DEF NextWave
    <3> QED
      BY <3>2 DEF GivenUp
  <2> QED
    BY <2>1, <2>2, <2>3, NextCases DEF WaveInv
<1>2. Spec => [][Stays]_vars
  <2> HIDE DEF Stays
  <2> QED
    BY <1>1, WaveInvariant, PTL DEF Spec
<1> QED
  BY <1>2, PTL DEF NoStartAfterFailure

\* Releases are attempted for what a run has deployed, when all of it succeeded, and
\* for all of it before the run ends well, unless it declines: each is then in the
\* ledger or has been warned about.
THEOREM Releases == Spec => []ReleasesMatch
<1>1. WaveInv => ReleasesMatch
  <2> SUFFICES ASSUME WaveInv PROVE ReleasesMatch
    OBVIOUS
  <2> USE DEF WaveInv, RunTypes
  <2>1. ASSUME NEW c \in Component, stage[c] = "ok"
        PROVE  c \in target
    <3>1. PICK i \in 1..wave : c \in waves[i]
      BY <2>1 DEF WavesFollowed
    <3>2. i \in 1..Len(waves)
      OBVIOUS
    <3> QED
      BY <3>1, <3>2 DEF WavesLayered
  <2>2. recorded \cup warned # {} =>
          /\ run \in {"recording", "ok"} /\ declined = "no"
          /\ \A c \in target : stage[c] = "ok"
    BY DEF Recorded, RunProgress
  <2>3. \A c \in recorded \cup warned : Published(c)
    BY <2>2 DEF Recorded, Published
  <2>4. run = "ok" /\ declined = "no" =>
          {c \in Component : Published(c)} \subseteq recorded \cup warned
    BY <2>1 DEF Recorded, Published
  <2> QED
    BY <2>2, <2>3, <2>4 DEF ReleasesMatch
<1> QED
  BY <1>1, WaveInvariant, PTL

-----------------------------------------------------------------------------
(* Trees. *)

\* What Kids leads to from a node, the node included: the smallest set that holds
\* it and is closed under Kids.
Closed(Kids, S) == \A n \in S : Kids[n] \subseteq S
Closure(Kids, n) == {m \in DOMAIN Kids : \A S \in SUBSET DOMAIN Kids :
                                           n \in S /\ Closed(Kids, S) => m \in S}

\* Nodes lead to nodes, and nothing leads back.
Forest(N, Kids) == /\ Kids \in [N -> SUBSET N]
                   /\ \A S \in SUBSET N : S # {} => \E n \in S : Kids[n] \cap S = {}

LEMMA ClosureIsLeast ==
  ASSUME NEW N, NEW Kids, Forest(N, Kids), NEW n \in N
  PROVE  /\ Closure(Kids, n) \subseteq N
         /\ n \in Closure(Kids, n)
         /\ Closed(Kids, Closure(Kids, n))
         /\ \A S \in SUBSET N : n \in S /\ Closed(Kids, S) => Closure(Kids, n) \subseteq S
<1>1. DOMAIN Kids = N /\ \A m \in N : Kids[m] \subseteq N
  BY DEF Forest
<1>2. Closure(Kids, n) \subseteq N /\ n \in Closure(Kids, n)
  BY <1>1 DEF Closure
<1>3. \A S \in SUBSET N : n \in S /\ Closed(Kids, S) => Closure(Kids, n) \subseteq S
  BY <1>1 DEF Closure
<1>4. Closed(Kids, Closure(Kids, n))
  BY <1>1 DEF Closure, Closed
<1> QED
  BY <1>2, <1>3, <1>4

\* Closures nest.
LEMMA ClosureNests ==
  ASSUME NEW N, NEW Kids, Forest(N, Kids), NEW n \in N, NEW m \in Closure(Kids, n)
  PROVE  m \in N /\ Closure(Kids, m) \subseteq Closure(Kids, n)
<1>1. /\ Closure(Kids, n) \in SUBSET N /\ Closed(Kids, Closure(Kids, n))
  BY ClosureIsLeast
<1>2. m \in N
  BY <1>1
<1> QED
  BY <1>1, <1>2, ClosureIsLeast

\* A node leads to itself and to what its kids lead to.
LEMMA ClosureByKids ==
  ASSUME NEW N, NEW Kids, Forest(N, Kids), NEW n \in N
  PROVE  Closure(Kids, n) = {n} \cup UNION {Closure(Kids, k) : k \in Kids[n]}
<1> DEFINE R == {n} \cup UNION {Closure(Kids, k) : k \in Kids[n]}
<1>1. Kids[n] \subseteq N
  BY DEF Forest
<1>2. /\ n \in Closure(Kids, n) /\ Closed(Kids, Closure(Kids, n))
      /\ \A k \in Kids[n] : /\ Closure(Kids, k) \subseteq N /\ k \in Closure(Kids, k)
                            /\ Closed(Kids, Closure(Kids, k))
                            /\ Closure(Kids, k) \subseteq Closure(Kids, n)
  <2>1. n \in Closure(Kids, n) /\ Closed(Kids, Closure(Kids, n))
    BY ClosureIsLeast
  <2>2. ASSUME NEW k \in Kids[n]
        PROVE  /\ Closure(Kids, k) \subseteq N /\ k \in Closure(Kids, k)
               /\ Closed(Kids, Closure(Kids, k))
    BY <1>1, ClosureIsLeast
  <2>3. ASSUME NEW k \in Kids[n]
        PROVE  Closure(Kids, k) \subseteq Closure(Kids, n)
    <3>1. k \in Closure(Kids, n)
      BY <2>1 DEF Closed
    <3> QED
      BY <3>1, ClosureNests
  <2> QED
    BY <2>1, <2>2, <2>3
<1>3. R \in SUBSET N /\ n \in R
  BY <1>2
<1>4. Closed(Kids, R)
  <2> SUFFICES ASSUME NEW m \in R PROVE Kids[m] \subseteq R
    BY DEF Closed
  <2>1. CASE m = n
    BY <2>1, <1>2
  <2>2. CASE m # n
    <3>1. PICK k \in Kids[n] : m \in Closure(Kids, k)
      BY <2>2
    <3> QED
      BY <3>1, <1>2 DEF Closed
  <2> QED
    BY <2>1, <2>2
<1>5. Closure(Kids, n) \subseteq R
  BY <1>3, <1>4, ClosureIsLeast
<1>6. R \subseteq Closure(Kids, n)
  BY <1>2
<1> QED
  BY <1>5, <1>6

\* Nothing that a node leads to leads back to it.
LEMMA NoWayBack ==
  ASSUME NEW N, NEW Kids, Forest(N, Kids), NEW n \in N, NEW k \in Kids[n]
  PROVE  k \in N /\ n \notin Closure(Kids, k)
<1>1. k \in N
  BY DEF Forest
<1> SUFFICES ASSUME n \in Closure(Kids, k) PROVE FALSE
  BY <1>1
<1> DEFINE S == {m \in Closure(Kids, n) : n \in Closure(Kids, m)}
<1>2. n \in S /\ S \in SUBSET N
  BY ClosureIsLeast
<1>3. ASSUME NEW m \in S
      PROVE  \E e \in Kids[m] : e \in S
  <2>1. m \in N /\ m \in Closure(Kids, n) /\ n \in Closure(Kids, m)
    BY <1>2
  <2>2. Closure(Kids, m) = {m} \cup UNION {Closure(Kids, e) : e \in Kids[m]}
    BY <2>1, ClosureByKids
  <2>3. PICK e \in Kids[m] : n \in Closure(Kids, e)
    BY <2>1, <2>2
  <2>4. e \in Closure(Kids, n)
    BY <2>1, ClosureIsLeast DEF Closed
  <2> QED
    BY <2>3, <2>4
<1>4. \E m \in S : Kids[m] \cap S = {}
  <2> HIDE DEF S
  <2> QED
    BY <1>2 DEF Forest
<1> QED
  BY <1>3, <1>4

\* A node's part of f: what is at the node, and what f has collected from its kids.
Collects(N, Kids, Base, f) == \A n \in N : f[n] = Base[n] \cup UNION {f[k] : k \in Kids[n]}

\* There is one way to collect.
LEMMA OneCollection ==
  ASSUME NEW N, NEW Kids, NEW Base, NEW f, NEW g, Forest(N, Kids),
         Collects(N, Kids, Base, f), Collects(N, Kids, Base, g)
  PROVE  \A n \in N : f[n] = g[n]
<1>1. ASSUME NEW n \in N, \A k \in Kids[n] : f[k] = g[k]
      PROVE  f[n] = g[n]
  <2>1. f[n] = Base[n] \cup UNION {f[k] : k \in Kids[n]}
    BY DEF Collects
  <2>2. g[n] = Base[n] \cup UNION {g[k] : k \in Kids[n]}
    BY DEF Collects
  <2>3. \A x : x \in UNION {f[k] : k \in Kids[n]} <=> \E k \in Kids[n] : x \in f[k]
    OBVIOUS
  <2>4. \A x : x \in UNION {g[k] : k \in Kids[n]} <=> \E k \in Kids[n] : x \in g[k]
    OBVIOUS
  <2>5. UNION {f[k] : k \in Kids[n]} = UNION {g[k] : k \in Kids[n]}
    BY <1>1, <2>3, <2>4
  <2> QED
    BY <2>1, <2>2, <2>5
<1> DEFINE S == {n \in N : f[n] # g[n]}
<1>2. S = {}
  <2> SUFFICES ASSUME S # {} PROVE FALSE
    OBVIOUS
  <2>1. S \in SUBSET N
    OBVIOUS
  <2>2. PICK n \in S : Kids[n] \cap S = {}
    <3> HIDE DEF S
    <3> QED
      BY <2>1 DEF Forest
  <2>3. n \in N /\ Kids[n] \subseteq N
    BY DEF Forest
  <2>4. \A k \in Kids[n] : f[k] = g[k]
    BY <2>2, <2>3
  <2>5. f[n] = g[n]
    BY <1>1, <2>3, <2>4
  <2> QED
    BY <2>5
<1> QED
  BY <1>2

-----------------------------------------------------------------------------
(* Compositions. *)

\* What a phase holds, and what a gate search visits from it.
Held == [n \in Node |-> IF n \in Step THEN {} ELSE Entries(n)]
Searched == [n \in Node |-> IF n \in Step THEN {} ELSE Entries(n) \cup ToSet(OnFailure[n])]

\* A node with all that is nested in it; the phases it is nested in; all that a
\* component deploys.
Inner(n) == Closure(Held, n)
Inside(n) == {ph \in Phase \ {n} : n \in Inner(ph)}
DeployOf(c) == UNION {Inner(ph) : ph \in ToSet(Deploy[c])}

LEMMA BodyTypes ==
  /\ Phase \subseteq Node /\ Step \subseteq Node /\ Phase \cap Step = {}
  /\ \A n \in Node : n \in Phase \/ n \in Step
  /\ \A ph \in Phase : /\ Body[ph] \in Seq(Node) /\ DOMAIN Body[ph] = 1..Len(Body[ph])
                       /\ Entries(ph) \subseteq Node /\ ToSet(OnFailure[ph]) \subseteq Phase
                       /\ \A i \in DOMAIN Body[ph] : Body[ph][i] \in Entries(ph)
                       /\ \A n \in Entries(ph) : \E i \in DOMAIN Body[ph] : n = Body[ph][i]
<1>1. ASSUME NEW ph \in Phase
      PROVE  /\ Body[ph] \in Seq(Node) /\ DOMAIN Body[ph] = 1..Len(Body[ph])
             /\ Entries(ph) \subseteq Node /\ ToSet(OnFailure[ph]) \subseteq Phase
             /\ \A i \in DOMAIN Body[ph] : Body[ph][i] \in Entries(ph)
             /\ \A n \in Entries(ph) : \E i \in DOMAIN Body[ph] : n = Body[ph][i]
  BY BodyType DEF Entries, ToSet
<1> QED
  BY <1>1, NodeType DEF Node

LEMMA CompositionsAreForests == Forest(Node, Held) /\ Forest(Node, Searched)
<1>1. /\ Held \in [Node -> SUBSET Node] /\ Searched \in [Node -> SUBSET Node]
      /\ \A n \in Node : Held[n] \subseteq Searched[n]
      /\ \A n \in Step : Searched[n] = {}
      /\ \A ph \in Phase : Searched[ph] = Entries(ph) \cup ToSet(OnFailure[ph])
  BY BodyTypes DEF Held, Searched
<1>2. ASSUME NEW S \in SUBSET Node, S # {}
      PROVE  \E n \in S : Searched[n] \cap S = {}
  <2>1. CASE S \cap Step # {}
    BY <1>1, <2>1
  <2>2. CASE S \cap Step = {}
    <3>1. S \in SUBSET Phase
      BY <2>2, BodyTypes
    <3> QED
      BY <1>1, <1>2, <3>1, NestingType
  <2> QED
    BY <2>1, <2>2
<1>3. ASSUME NEW S \in SUBSET Node, S # {}
      PROVE  \E n \in S : Held[n] \cap S = {}
  <2>1. PICK n \in S : Searched[n] \cap S = {}
    BY <1>2, <1>3
  <2> QED
    BY <1>1, <2>1
<1> QED
  BY <1>1, <1>2, <1>3 DEF Forest

\* The search visits the steps that a node leads to.
LEMMA Searches == /\ \A s \in Step : s \in Below[s]
                  /\ \A ph \in Phase : \A n \in Entries(ph) : Below[n] \subseteq Below[ph]
<1> DEFINE Rec(f) == [n \in Node |-> IF n \in Step THEN {n}
                        ELSE UNION {f[m] : m \in Entries(n) \cup ToSet(OnFailure[n])}]
           g == [n \in Node |-> Step \cap Closure(Searched, n)]
<1>1. g = Rec(g)
  <2>1. ASSUME NEW n \in Node
        PROVE  Step \cap Closure(Searched, n) =
                 IF n \in Step THEN {n}
                 ELSE UNION {g[m] : m \in Entries(n) \cup ToSet(OnFailure[n])}
    <3>1. Closure(Searched, n) = {n} \cup UNION {Closure(Searched, k) : k \in Searched[n]}
      BY CompositionsAreForests, ClosureByKids
    <3>2. CASE n \in Step
      <4>1. Searched[n] = {}
        BY <3>2 DEF Searched
      <4> QED
        BY <3>1, <3>2, <4>1
    <3>3. CASE n \notin Step
      <4>1. Searched[n] = Entries(n) \cup ToSet(OnFailure[n]) /\ Searched[n] \subseteq Node
        BY <3>3, BodyTypes DEF Searched
      <4>2. \A k \in Searched[n] : g[k] = Step \cap Closure(Searched, k)
        BY <4>1
      <4> HIDE DEF g
      <4>3. Step \cap Closure(Searched, n) = UNION {g[k] : k \in Searched[n]}
        BY <3>1, <3>3, <4>2
      <4> QED
        BY <3>3, <4>1, <4>3
    <3> QED
      BY <3>2, <3>3
  <2> QED
    BY <2>1
<1>2. Below = Rec(Below)
  <2>1. Below = CHOOSE f : f = Rec(f)
    BY DEF Below
  <2> HIDE DEF g, Rec
  <2> QED
    BY <1>1, <2>1
<1>3. \A s \in Step : Below[s] = {s}
  BY <1>2, BodyTypes
<1>4. \A ph \in Phase : Below[ph] = UNION {Below[m] : m \in Entries(ph) \cup ToSet(OnFailure[ph])}
  BY <1>2, BodyTypes
<1> QED
  BY <1>3, <1>4

LEMMA InnerFacts ==
  ASSUME NEW n \in Node
  PROVE  /\ Inner(n) \subseteq Node /\ n \in Inner(n)
         /\ \A ph \in Inner(n) \cap Phase : Entries(ph) \subseteq Inner(n)
         /\ \A m \in Inner(n) : Inner(m) \subseteq Inner(n)
         /\ n \in Step => Inner(n) = {n}
         /\ n \in Phase => Inner(n) = {n} \cup UNION {Inner(e) : e \in Entries(n)}
         /\ n \in Phase => \A e \in Entries(n) : n \notin Inner(e)
         /\ \A S \in SUBSET Node :
              n \in S /\ (\A ph \in S \cap Phase : Entries(ph) \subseteq S) => Inner(n) \subseteq S
<1> USE CompositionsAreForests
<1>1. /\ \A s \in Step : Held[s] = {}
      /\ \A ph \in Phase : Held[ph] = Entries(ph)
  BY BodyTypes DEF Held
<1>2. Inner(n) \subseteq Node /\ n \in Inner(n) /\ Closed(Held, Inner(n))
  BY ClosureIsLeast DEF Inner
<1>3. \A m \in Inner(n) : Inner(m) \subseteq Inner(n)
  BY ClosureNests DEF Inner
<1>4. Inner(n) = {n} \cup UNION {Inner(e) : e \in Held[n]}
  BY ClosureByKids DEF Inner
<1>5. \A e \in Held[n] : n \notin Inner(e)
  BY NoWayBack DEF Inner
<1>6. ASSUME NEW S \in SUBSET Node, n \in S, \A ph \in S \cap Phase : Entries(ph) \subseteq S
      PROVE  Inner(n) \subseteq S
  <2>1. Closed(Held, S)
    BY <1>1, <1>6, BodyTypes DEF Closed
  <2> QED
    BY <1>6, <2>1, ClosureIsLeast DEF Inner
<1>7. \A ph \in Inner(n) \cap Phase : Entries(ph) \subseteq Inner(n)
  BY <1>1, <1>2 DEF Closed
<1>8. n \in Step => Inner(n) = {n}
  BY <1>1, <1>4
<1>9. n \in Phase => /\ Inner(n) = {n} \cup UNION {Inner(e) : e \in Entries(n)}
                     /\ \A e \in Entries(n) : n \notin Inner(e)
  BY <1>1, <1>4, <1>5
<1> QED
  BY <1>2, <1>3, <1>6, <1>7, <1>8, <1>9

\* What holds an entry of a phase holds the phase, unless it is the entry.
LEMMA HoldsPhase ==
  ASSUME NEW ph \in Phase, NEW e \in Entries(ph), NEW q \in Node, e \in Inner(q), e # q
  PROVE  ph \in Inner(q)
<1> SUFFICES ASSUME ph \notin Inner(q) PROVE FALSE
  OBVIOUS
<1> DEFINE S == Inner(q) \ {e}
<1>1. S \in SUBSET Node /\ q \in S
  BY InnerFacts
<1>2. ASSUME NEW r \in S \cap Phase
      PROVE  Entries(r) \subseteq S
  <2>1. Entries(r) \subseteq Inner(q) /\ r # ph
    BY <1>2, InnerFacts
  <2>2. e \notin Entries(r)
    BY <2>1, PlaceType
  <2> QED
    BY <2>1, <2>2
<1>3. Inner(q) \subseteq S
  <2> HIDE DEF S
  <2> QED
    BY <1>1, <1>2, InnerFacts
<1> QED
  BY <1>3

\* What is nested in a phase is an entry of one.
LEMMA NestedIsEntry ==
  ASSUME NEW q \in Node, NEW n \in Inner(q), n # q
  PROVE  \E ph \in Phase : n \in Entries(ph)
<1> SUFFICES ASSUME \A ph \in Phase : n \notin Entries(ph) PROVE FALSE
  OBVIOUS
<1> DEFINE S == Inner(q) \ {n}
<1>1. S \in SUBSET Node /\ q \in S
  BY InnerFacts
<1>2. \A r \in S \cap Phase : Entries(r) \subseteq S
  BY InnerFacts
<1>3. Inner(q) \subseteq S
  <2> HIDE DEF S
  <2> QED
    BY <1>1, <1>2, InnerFacts
<1> QED
  BY <1>3

\* Of two nodes that hold a third one holds the other.
LEMMA HoldersNest ==
  ASSUME NEW a \in Node, NEW b \in Node, NEW m, m \in Inner(a), m \in Inner(b)
  PROVE  a \in Inner(b) \/ b \in Inner(a)
<1> SUFFICES ASSUME a \notin Inner(b), b \notin Inner(a) PROVE FALSE
  OBVIOUS
<1> DEFINE S == Inner(a) \ Inner(b)
<1>1. S \in SUBSET Node /\ a \in S
  BY InnerFacts
<1>2. ASSUME NEW r \in S \cap Phase, NEW e \in Entries(r)
      PROVE  e \in S
  <2>1. e \in Inner(a) /\ e # b
    BY <1>2, InnerFacts
  <2>2. e \notin Inner(b)
    BY <2>1, HoldsPhase
  <2> QED
    BY <2>1, <2>2
<1>3. Inner(a) \subseteq S
  <2> HIDE DEF S
  <2> QED
    BY <1>1, <1>2, InnerFacts
<1> QED
  BY <1>3

\* Every node has one place.
LEMMA Places ==
  /\ \A ph \in Phase : IsInjective(Body[ph])
  /\ \A ph \in Phase : \A n \in Entries(ph) :
       /\ \A q \in Phase : n \in Entries(q) => q = ph
       /\ Inside(n) = Inside(ph) \cup {ph}
       /\ \A c \in Component : n \in DeployOf(c) <=> ph \in DeployOf(c)
  /\ \A n \in Node : \A ph \in Inside(n) : \E e \in Entries(ph) : e = n \/ e \in Inside(n)
<1>1. ASSUME NEW ph \in Phase, NEW n \in Entries(ph)
      PROVE  Inside(n) = Inside(ph) \cup {ph}
  <2>1. ph \in Node /\ n \in Node /\ ph \notin Inner(n) /\ n # ph /\ n \in Inner(ph)
    BY BodyTypes, InnerFacts
  <2>2. ASSUME NEW q \in Inside(n)
        PROVE  q \in Inside(ph) \cup {ph}
    BY <2>1, <2>2, HoldsPhase, BodyTypes DEF Inside
  <2>3. ASSUME NEW q \in Inside(ph)
        PROVE  q \in Inside(n)
    BY <2>1, <2>3, InnerFacts, BodyTypes DEF Inside
  <2> QED
    BY <2>1, <2>2, <2>3, InnerFacts DEF Inside
<1>2. ASSUME NEW ph \in Phase, NEW n \in Entries(ph), NEW c \in Component
      PROVE  n \in DeployOf(c) <=> ph \in DeployOf(c)
  <2>1. ToSet(Deploy[c]) \subseteq Phase /\ n \notin ToSet(Deploy[c])
    BY PlanType, PlaceType DEF ToSet
  <2>2. \A q \in ToSet(Deploy[c]) : n \in Inner(q) <=> ph \in Inner(q)
    BY <2>1, HoldsPhase, InnerFacts, BodyTypes
  <2> QED
    BY <2>2 DEF DeployOf
<1>3. ASSUME NEW n \in Node, NEW ph \in Inside(n)
      PROVE  \E e \in Entries(ph) : e = n \/ e \in Inside(n)
  <2>1. ph \in Phase /\ n \in Inner(ph) /\ n # ph
    BY DEF Inside
  <2>2. PICK e \in Entries(ph) : n \in Inner(e)
    BY <2>1, BodyTypes, InnerFacts
  <2>3. e \in Node /\ (e \in Step => n = e)
    BY <2>1, <2>2, BodyTypes, InnerFacts
  <2> QED
    BY <2>2, <2>3, BodyTypes DEF Inside
<1> QED
  BY <1>1, <1>2, <1>3, PlaceType

\* The steps of a phase are those nested in it.
LEMMA StepsBelowIs == \A n \in Node : StepsBelow[n] = Step \cap Inner(n)
<1> DEFINE Rec(f) == [n \in Node |-> IF n \in Step THEN {n} ELSE UNION {f[m] : m \in Entries(n)}]
           g == [n \in Node |-> Step \cap Inner(n)]
           Base == [n \in Node |-> Step \cap {n}]
<1>1. \A n \in Node : Held[n] = (IF n \in Step THEN {} ELSE Entries(n)) /\ Held[n] \subseteq Node
  BY BodyTypes DEF Held
<1>2. g = Rec(g)
  <2>1. ASSUME NEW n \in Node
        PROVE  Step \cap Inner(n) = IF n \in Step THEN {n} ELSE UNION {g[m] : m \in Entries(n)}
    <3>1. CASE n \in Step
      BY <3>1, InnerFacts
    <3>2. CASE n \notin Step
      <4>1. n \in Phase /\ Entries(n) \subseteq Node
        BY <3>2, BodyTypes
      <4>2. \A m \in Entries(n) : g[m] = Step \cap Inner(m)
        BY <4>1
      <4> HIDE DEF g
      <4>3. Inner(n) = {n} \cup UNION {Inner(e) : e \in Entries(n)}
        BY <4>1, InnerFacts
      <4>4. Step \cap Inner(n) = UNION {g[m] : m \in Entries(n)}
        BY <3>2, <4>2, <4>3
      <4> QED
        BY <3>2, <4>4
    <3> QED
      BY <3>1, <3>2
  <2> QED
    BY <2>1
<1>3. StepsBelow = Rec(StepsBelow)
  <2>1. StepsBelow = CHOOSE f : f = Rec(f)
    BY DEF StepsBelow
  <2> HIDE DEF g, Rec
  <2> QED
    BY <1>2, <2>1
<1>4. ASSUME NEW f, f = Rec(f)
      PROVE  Collects(Node, Held, Base, f)
  <2> SUFFICES ASSUME NEW n \in Node
               PROVE  f[n] = Base[n] \cup UNION {f[k] : k \in Held[n]}
    BY DEF Collects
  <2>1. CASE n \in Step
    BY <2>1, <1>1, <1>4
  <2>2. CASE n \notin Step
    BY <2>2, <1>1, <1>4
  <2> QED
    BY <2>1, <2>2
<1>5. \A n \in Node : StepsBelow[n] = g[n]
  <2> HIDE DEF g, Rec, Base
  <2> QED
    BY <1>2, <1>3, <1>4, OneCollection, CompositionsAreForests
<1> QED
  BY <1>5

\* The phases of a plan stand at the top, those of a deploy in that one alone.
LEMMA Roots ==
  \A c \in Component :
    /\ StepsOf[c] = Step \cap DeployOf(c)
    /\ \A ph \in ToSet(Deploy[c]) \cup ToSet(Rollback[c]) : Inside(ph) = {}
    /\ \A d \in Component : /\ ToSet(Deploy[d]) \cap DeployOf(c) # {} => d = c
                            /\ ToSet(Rollback[d]) \cap DeployOf(c) = {}
<1>1. ASSUME NEW c \in Component
      PROVE  ToSet(Deploy[c]) \subseteq Phase /\ ToSet(Rollback[c]) \subseteq Phase
  BY PlanType DEF ToSet
<1>2. ASSUME NEW c \in Component
      PROVE  StepsOf[c] = Step \cap DeployOf(c)
  <2>1. \A ph \in ToSet(Deploy[c]) : StepsBelow[ph] = Step \cap Inner(ph)
    BY <1>1, StepsBelowIs, BodyTypes
  <2>2. StepsOf[c] = UNION {StepsBelow[ph] : ph \in ToSet(Deploy[c])}
    BY DEF StepsOf
  <2> QED
    BY <2>1, <2>2 DEF DeployOf
<1>3. ASSUME NEW c \in Component, NEW ph \in ToSet(Deploy[c]) \cup ToSet(Rollback[c])
      PROVE  /\ \A q \in Node : ph \in Inner(q) => q = ph
             /\ Inside(ph) = {}
  <2>1. \A q \in Phase : ph \notin Entries(q)
    BY PlaceType
  <2>2. \A q \in Node : ph \in Inner(q) => q = ph
    BY <2>1, NestedIsEntry
  <2> QED
    BY <2>2, BodyTypes DEF Inside
<1>4. ASSUME NEW c \in Component, NEW d \in Component,
             NEW r \in ToSet(Deploy[d]) \cup ToSet(Rollback[d]), r \in DeployOf(c)
      PROVE  r \in ToSet(Deploy[c])
  <2>1. PICK q \in ToSet(Deploy[c]) : r \in Inner(q)
    BY <1>4 DEF DeployOf
  <2>2. q = r
    BY <1>1, <1>3, <2>1, BodyTypes
  <2> QED
    BY <2>2
<1>5. ASSUME NEW c \in Component, NEW d \in Component
      PROVE  /\ ToSet(Deploy[d]) \cap DeployOf(c) # {} => d = c
             /\ ToSet(Rollback[d]) \cap DeployOf(c) = {}
  BY <1>4, PlaceType
<1> QED
  BY <1>2, <1>3, <1>5

-----------------------------------------------------------------------------
(* Sequences. *)

\* No two of the sequence stand against the relation.
NoBack(R, e) == \A i, j \in DOMAIN e : i < j => <<e[j], e[i]>> \notin R

LEMMA LeastNumber ==
  ASSUME NEW T \in SUBSET Nat, T # {}
  PROVE  \E n \in T : \A m \in T : n <= m
<1>1. PICK n \in T : \A m \in T : <<m, n>> \notin OpToRel(<, Nat)
  BY NatLessThanWellFounded, WFMin
<1>2. ASSUME NEW m \in T, ~(n <= m) PROVE FALSE
  <2>1. m \in Nat /\ n \in Nat /\ m < n
    BY <1>2
  <2>2. <<m, n>> \in OpToRel(<, Nat)
    BY <2>1 DEF OpToRel
  <2> QED
    BY <1>1, <2>2
<1> QED
  BY <1>1, <1>2

\* What holds of zero, and of the next number whenever it holds of one, holds of all.
LEMMA Induction ==
  ASSUME NEW S, 0 \in S, \A n \in Nat : n \in S => n + 1 \in S
  PROVE  Nat \subseteq S
<1> SUFFICES ASSUME Nat \ S # {} PROVE FALSE
  OBVIOUS
<1>1. PICK n \in Nat \ S : \A m \in Nat \ S : n <= m
  BY LeastNumber
<1>2. n # 0 /\ n - 1 \in Nat
  BY <1>1
<1>3. n - 1 \in S
  BY <1>1, <1>2
<1> QED
  BY <1>1, <1>2, <1>3

LEMMA Concatenated ==
  ASSUME NEW T, NEW R, NEW e \in Seq(T), NEW f \in Seq(T), NoBack(R, e), NoBack(R, f),
         \A x \in ToSet(e), y \in ToSet(f) : <<y, x>> \notin R
  PROVE  /\ e \o f \in Seq(T)
         /\ ToSet(e \o f) = ToSet(e) \cup ToSet(f)
         /\ NoBack(R, e \o f)
<1>1. /\ Len(e) \in Nat /\ DOMAIN e = 1..Len(e)
      /\ Len(f) \in Nat /\ DOMAIN f = 1..Len(f)
      /\ e \o f \in Seq(T) /\ Len(e \o f) = Len(e) + Len(f)
      /\ DOMAIN (e \o f) = 1..(Len(e) + Len(f))
      /\ \A i \in 1..(Len(e) + Len(f)) : (e \o f)[i] = IF i <= Len(e) THEN e[i] ELSE f[i - Len(e)]
  OBVIOUS
<1> DEFINE g == e \o f
<1>2. ASSUME NEW i \in DOMAIN g
      PROVE  \/ i \in DOMAIN e /\ g[i] = e[i]
             \/ i - Len(e) \in DOMAIN f /\ g[i] = f[i - Len(e)] /\ i > Len(e)
  BY <1>1
<1>3. /\ \A i \in DOMAIN e : i \in DOMAIN g /\ g[i] = e[i]
      /\ \A i \in DOMAIN f : i + Len(e) \in DOMAIN g /\ g[i + Len(e)] = f[i]
  <2>1. \A i \in DOMAIN e : i \in DOMAIN g /\ g[i] = e[i]
    BY <1>1
  <2>2. ASSUME NEW i \in DOMAIN f
        PROVE  i + Len(e) \in DOMAIN g /\ g[i + Len(e)] = f[i]
    <3>1. i + Len(e) \in 1..(Len(e) + Len(f)) /\ ~(i + Len(e) <= Len(e)) /\ (i + Len(e)) - Len(e) = i
      BY <1>1
    <3> QED
      BY <1>1, <3>1
  <2> QED
    BY <2>1, <2>2
<1>4. ToSet(g) = ToSet(e) \cup ToSet(f)
  <2> HIDE DEF g
  <2>1. ToSet(g) \subseteq ToSet(e) \cup ToSet(f)
    BY <1>2 DEF ToSet
  <2>2. ToSet(e) \subseteq ToSet(g)
    BY <1>3 DEF ToSet
  <2>3. ToSet(f) \subseteq ToSet(g)
    BY <1>3 DEF ToSet
  <2> QED
    BY <2>1, <2>2, <2>3
<1>5. NoBack(R, g)
  <2> SUFFICES ASSUME NEW i \in DOMAIN g, NEW j \in DOMAIN g, i < j
               PROVE  <<g[j], g[i]>> \notin R
    BY DEF NoBack
  <2>0. i \in Int /\ j \in Int /\ Len(e) \in Int
    BY <1>1
  <2> HIDE DEF g
  <2>1. CASE i \in DOMAIN e /\ g[i] = e[i] /\ j \in DOMAIN e /\ g[j] = e[j]
    BY <2>1 DEF NoBack
  <2>2. CASE i \in DOMAIN e /\ g[i] = e[i] /\ j - Len(e) \in DOMAIN f /\ g[j] = f[j - Len(e)]
    BY <2>2 DEF ToSet
  <2>3. CASE /\ i - Len(e) \in DOMAIN f /\ g[i] = f[i - Len(e)]
             /\ j - Len(e) \in DOMAIN f /\ g[j] = f[j - Len(e)]
    <3>1. i - Len(e) < j - Len(e)
      BY <2>0
    <3> QED
      BY <2>3, <3>1 DEF NoBack
  <2>4. ~(i > Len(e) /\ j \in DOMAIN e)
    BY <2>0, <1>1
  <2> QED
    BY <1>2, <2>1, <2>2, <2>3, <2>4
<1> QED
  BY <1>1, <1>4, <1>5

\* Sequences put one after the other.
LEMMA Flattened ==
  ASSUME NEW T, NEW R, NEW seqs \in Seq(Seq(T)),
         \A i \in DOMAIN seqs : NoBack(R, seqs[i]),
         \A i, j \in DOMAIN seqs : i < j =>
           \A x \in ToSet(seqs[i]), y \in ToSet(seqs[j]) : <<y, x>> \notin R
  PROVE  /\ FlattenSeq(seqs) \in Seq(T)
         /\ ToSet(FlattenSeq(seqs)) = UNION {ToSet(seqs[i]) : i \in DOMAIN seqs}
         /\ NoBack(R, FlattenSeq(seqs))
<1> DEFINE n == Len(seqs)
           Part(f, i) == IF i = 1 THEN seqs[i] ELSE f[i - 1] \o seqs[i]
           flatten == CHOOSE f : f = [i \in 1..n |-> Part(f, i)]
<1>1. n \in Nat /\ DOMAIN seqs = 1..n /\ \A i \in 1..n : seqs[i] \in Seq(T)
  OBVIOUS
<1>2. CASE n = 0
  <2>1. FlattenSeq(seqs) = seqs /\ seqs = <<>>
    BY <1>2 DEF FlattenSeq
  <2> QED
    BY <2>1 DEF ToSet, NoBack
<1>3. CASE n # 0
  <2>1. FlattenSeq(seqs) = flatten[n]
    BY <1>3 DEF FlattenSeq
  <2>2. \E f : f = [i \in 1..n |-> Part(f, i)]
    <3> DEFINE S == {k \in Nat : \E f : f = [i \in 1..k |-> Part(f, i)]}
    <3>1. 0 \in S
      <4> DEFINE f == [i \in 1..0 |-> Part(<<>>, i)]
      <4>1. f = [i \in 1..0 |-> Part(f, i)]
        OBVIOUS
      <4> QED
        BY <4>1
    <3>2. ASSUME NEW k \in Nat, k \in S
          PROVE  k + 1 \in S
      <4>1. PICK f : f = [i \in 1..k |-> Part(f, i)]
        BY <3>2
      <4> DEFINE g == [i \in 1..(k + 1) |-> IF i = k + 1 THEN Part(f, i) ELSE f[i]]
      <4>2. ASSUME NEW i \in 1..(k + 1)
            PROVE  g[i] = Part(g, i)
        <5>1. i = 1 \/ (i - 1 \in 1..k /\ i - 1 # k + 1 /\ g[i - 1] = f[i - 1])
          OBVIOUS
        <5>2. Part(g, i) = Part(f, i)
          BY <5>1
        <5>3. CASE i = k + 1
          BY <5>2, <5>3
        <5>4. CASE i # k + 1
          <6>1. i \in 1..k /\ g[i] = f[i]
            BY <5>4
          <6>2. f[i] = Part(f, i)
            BY <4>1, <6>1
          <6> QED
            BY <5>2, <6>1, <6>2
        <5> QED
          BY <5>3, <5>4
      <4>3. g = [i \in 1..(k + 1) |-> Part(g, i)]
        <5>1. g = [i \in 1..(k + 1) |-> g[i]]
          OBVIOUS
        <5> HIDE DEF g, Part
        <5> QED
          BY <4>2, <5>1
      <4>4. \E h : h = [i \in 1..(k + 1) |-> Part(h, i)]
        <5> HIDE DEF g, Part
        <5> QED
          BY <4>3
      <4> HIDE DEF Part
      <4> QED
        BY <4>4
    <3>3. Nat \subseteq S
      <4> HIDE DEF S
      <4> QED
        BY <3>1, <3>2, Induction
    <3> QED
      BY <1>1, <3>3
  <2>3. flatten = [i \in 1..n |-> Part(flatten, i)]
    <3> HIDE DEF Part
    <3> QED
      BY <2>2
  <2>4. ASSUME NEW i \in 1..n
        PROVE  flatten[i] = IF i = 1 THEN seqs[i] ELSE flatten[i - 1] \o seqs[i]
    <3> HIDE DEF flatten
    <3> QED
      BY <2>3
  <2> HIDE DEF flatten
  <2> DEFINE Good(i) == /\ flatten[i] \in Seq(T)
                        /\ ToSet(flatten[i]) = UNION {ToSet(seqs[j]) : j \in 1..i}
                        /\ NoBack(R, flatten[i])
             G == {i \in Nat : i = 0 \/ i > n \/ Good(i)}
  <2>5. Nat \subseteq G
    <3>1. 0 \in G
      OBVIOUS
    <3>2. ASSUME NEW i \in Nat, i \in G
          PROVE  i + 1 \in G
      <4>1. CASE i + 1 > n
        BY <4>1
      <4>2. CASE i = 0 /\ ~(i + 1 > n)
        <5>1. 1 \in 1..n /\ flatten[1] = seqs[1] /\ 1..1 = {1}
          BY <1>1, <2>4, <4>2
        <5>2. UNION {ToSet(seqs[j]) : j \in 1..1} = ToSet(seqs[1])
          BY <5>1
        <5>3. Good(1)
          BY <1>1, <5>1, <5>2
        <5> QED
          BY <4>2, <5>3
      <4>3. CASE i # 0 /\ ~(i + 1 > n)
        <5>1. i \in 1..n /\ i + 1 \in 1..n /\ i + 1 # 1 /\ (i + 1) - 1 = i /\ ~(i > n)
          BY <1>1, <4>3
        <5>2. flatten[i + 1] = flatten[i] \o seqs[i + 1] /\ Good(i)
          BY <2>4, <3>2, <4>3, <5>1
        <5>3. ASSUME NEW x \in ToSet(flatten[i]), NEW y \in ToSet(seqs[i + 1])
              PROVE  <<y, x>> \notin R
          <6>1. PICK j \in 1..i : x \in ToSet(seqs[j])
            BY <5>2
          <6>2. j \in 1..n /\ j < i + 1
            BY <5>1
          <6> QED
            BY <1>1, <5>1, <6>1, <6>2
        <5>4. seqs[i + 1] \in Seq(T) /\ NoBack(R, seqs[i + 1])
          BY <1>1, <5>1
        <5>5. /\ flatten[i + 1] \in Seq(T) /\ NoBack(R, flatten[i + 1])
              /\ ToSet(flatten[i + 1]) = ToSet(flatten[i]) \cup ToSet(seqs[i + 1])
          <6> HIDE DEF n
          <6>1. PICK e \in Seq(T), f \in Seq(T) : e = flatten[i] /\ f = seqs[i + 1]
            BY <5>2, <5>4
          <6>2. NoBack(R, e) /\ NoBack(R, f) /\ flatten[i + 1] = e \o f
            BY <5>2, <5>4, <6>1
          <6>3. \A x \in ToSet(e), y \in ToSet(f) : <<y, x>> \notin R
            BY <5>3, <6>1
          <6>4. e \o f \in Seq(T) /\ ToSet(e \o f) = ToSet(e) \cup ToSet(f) /\ NoBack(R, e \o f)
            <7> HIDE DEF Good
            <7> QED
              BY <6>2, <6>3, Concatenated
          <6> QED
            BY <6>1, <6>2, <6>4
        <5>6. UNION {ToSet(seqs[j]) : j \in 1..(i + 1)}
                = (UNION {ToSet(seqs[j]) : j \in 1..i}) \cup ToSet(seqs[i + 1])
          <6>1. \A j : j \in 1..(i + 1) <=> j \in 1..i \/ j = i + 1
            OBVIOUS
          <6>2. ASSUME NEW x
                PROVE  x \in UNION {ToSet(seqs[j]) : j \in 1..(i + 1)}
                         <=> x \in UNION {ToSet(seqs[j]) : j \in 1..i} \/ x \in ToSet(seqs[i + 1])
            <7>1. x \in UNION {ToSet(seqs[j]) : j \in 1..(i + 1)}
                    <=> \E j \in 1..(i + 1) : x \in ToSet(seqs[j])
              OBVIOUS
            <7>2. x \in UNION {ToSet(seqs[j]) : j \in 1..i} <=> \E j \in 1..i : x \in ToSet(seqs[j])
              OBVIOUS
            <7> QED
              BY <6>1, <7>1, <7>2
          <6> QED
            BY <6>2
        <5>7. Good(i + 1)
          <6>1. ToSet(flatten[i]) = UNION {ToSet(seqs[j]) : j \in 1..i}
            BY <5>2
          <6> QED
            BY <5>5, <5>6, <6>1
        <5> QED
          BY <5>7
      <4> QED
        BY <4>1, <4>2, <4>3
    <3> HIDE DEF G
    <3> QED
      BY <3>1, <3>2, Induction
  <2>6. Good(n)
    <3>1. n \in G
      <4> HIDE DEF G
      <4> QED
        BY <1>1, <2>5
    <3>2. n = 0 \/ n > n \/ Good(n)
      <4> HIDE DEF Good
      <4> QED
        BY <3>1
    <3> HIDE DEF Good
    <3> QED
      BY <1>1, <1>3, <3>2
  <2> QED
    BY <1>1, <2>1, <2>6
<1> QED
  BY <1>2, <1>3

-----------------------------------------------------------------------------
(* Where a composition is at work. *)

\* What of the types the argument needs.
NodeTypes ==
  /\ status \in [Node -> NodeStatus]
  /\ stage \in [Component -> Stage]
  /\ at \in [Component -> Nat \ {0}]

\* What runs is inside of phases that run.
RunningInside ==
  \A n \in Node : status[n] = "running" => \A ph \in Inside(n) : status[ph] = "running"

\* What runs of a deploy is the phase the component is at, or inside of it.
AtWork(c, n) ==
  /\ stage[c] = "deploying"
  /\ at[c] \in DOMAIN Deploy[c]
  /\ n = Deploy[c][at[c]] \/ Deploy[c][at[c]] \in Inside(n)
RunningDeploys ==
  \A c \in Component, n \in Node :
    n \in DeployOf(c) /\ status[n] = "running" => AtWork(c, n)

\* In a sequential phase an entry is reached when those before it have succeeded.
InTurn ==
  \A ph \in Phase \ Parallel : status[ph] = "running" =>
    \A i \in DOMAIN Body[ph] : status[Body[ph][i]] # "waiting" =>
      \A j \in 1..(i - 1) : status[Body[ph][j]] = "ok"

\* Nothing of a phase is reached before the phase.
NotEntered ==
  \A ph \in Phase : status[ph] \in {"waiting", "skipped"} =>
    \A n \in Entries(ph) : status[n] = "waiting"

PlaceInv == NodeTypes /\ RunningInside /\ RunningDeploys /\ InTurn /\ NotEntered

LEMMA EntryTypes ==
  /\ Phase \subseteq Node /\ Step \subseteq Node /\ Phase \cap Step = {}
  /\ \A n \in Node : Inside(n) \subseteq Phase /\ n \notin Inside(n)
  /\ \A ph \in Phase : /\ Body[ph] \in Seq(Node) /\ DOMAIN Body[ph] = 1..Len(Body[ph])
                       /\ Entries(ph) \subseteq Node
                       /\ \A i \in DOMAIN Body[ph] : Body[ph][i] \in Entries(ph)
                       /\ \A n \in Entries(ph) : \E i \in DOMAIN Body[ph] : n = Body[ph][i]
                       /\ ph \notin Entries(ph)
<1>1. ASSUME NEW ph \in Phase
      PROVE  ph \notin Entries(ph)
  BY InnerFacts, BodyTypes
<1> QED
  BY <1>1, BodyTypes DEF Inside

\* A node is reached as the phase its component is at, or as an entry of a phase
\* that runs.
LEMMA ReachedFrom ==
  ASSUME NodeTypes, NEW n \in Node, Reached(n)
  PROVE  \/ /\ Inside(n) = {}
            /\ \A c \in Component : n \in DeployOf(c) => AtWork(c, n)
         \/ \E ph \in Phase : \E i \in DOMAIN Body[ph] :
              /\ status[ph] = "running"
              /\ n = Body[ph][i]
              /\ ph \in Parallel \/ \A j \in 1..(i - 1) : status[Body[ph][j]] = "ok"
<1>1. ASSUME NEW d \in Component, Running(d), at[d] <= Len(Plan(d)), n = Current(d)
      PROVE  /\ Inside(n) = {}
             /\ \A c \in Component : n \in DeployOf(c) => AtWork(c, n)
  <2>1. Deploy[d] \in Seq(Phase) /\ Rollback[d] \in Seq(Phase) /\ at[d] \in Nat \ {0}
    BY PlanType DEF NodeTypes
  <2>2. CASE stage[d] = "deploying"
    <3>1. at[d] \in DOMAIN Deploy[d] /\ n = Deploy[d][at[d]] /\ n \in ToSet(Deploy[d])
      BY <1>1, <2>1, <2>2 DEF Plan, Current, ToSet
    <3>2. \A c \in Component : n \in DeployOf(c) => c = d
      BY <3>1, Roots
    <3> QED
      BY <2>2, <3>1, <3>2, Roots DEF AtWork
  <2>3. CASE stage[d] = "compensating"
    <3>1. n \in ToSet(Rollback[d])
      BY <1>1, <2>1, <2>3 DEF Plan, Current, ToSet, Reverse
    <3>2. \A c \in Component : n \notin DeployOf(c)
      BY <3>1, Roots
    <3> QED
      BY <3>1, <3>2, Roots
  <2> QED
    BY <1>1, <2>2, <2>3 DEF Running
<1> QED
  BY <1>1 DEF Reached

\* What is reached of a deploy belongs to a component that deploys.
LEMMA ReachedAtWork ==
  ASSUME PlaceInv, NEW n \in Node, Reached(n), NEW c \in Component, n \in DeployOf(c)
  PROVE  AtWork(c, n)
<1>1. ASSUME NEW ph \in Phase, NEW i \in DOMAIN Body[ph], status[ph] = "running", n = Body[ph][i]
      PROVE  AtWork(c, n)
  <2>1. n \in Entries(ph) /\ ph \in Node
    BY <1>1, EntryTypes
  <2>2. ph \in DeployOf(c) /\ Inside(n) = Inside(ph) \cup {ph}
    BY <2>1, Places
  <2>3. AtWork(c, ph)
    BY <1>1, <2>1, <2>2 DEF PlaceInv, RunningDeploys
  <2> QED
    BY <2>2, <2>3 DEF AtWork
<1> QED
  BY <1>1, ReachedFrom DEF PlaceInv

-----------------------------------------------------------------------------
(* What a step does to a composition. *)

Starts(n) == /\ status[n] = "waiting" /\ Reached(n)
             /\ status' = [status EXCEPT ![n] = "running"]
             /\ UNCHANGED <<stage, at>>

Finishes(s) == /\ status[s] = "running"
               /\ \E r \in {"ok", "fail"} : status' = [status EXCEPT ![s] = r]
               /\ UNCHANGED <<stage, at>>

Settles(ph) == SettlePhase(ph)

\* Components get on, those whose stage changes having nothing of theirs running.
AllDone(c) == \A n \in Node : n \in DeployOf(c) => status[n] # "running"
Moves == /\ UNCHANGED status
         /\ stage' \in [Component -> Stage] /\ at' \in [Component -> Nat \ {0}]
         /\ \A c \in Component :
              \/ UNCHANGED <<stage[c], at[c]>>
              \/ AllDone(c) /\ (stage[c] # "waiting" => stage'[c] # "waiting")

LEMMA NotAtWorkMeansDone ==
  ASSUME PlaceInv, NEW c \in Component, stage[c] # "deploying" \/ at[c] > Len(Deploy[c])
  PROVE  AllDone(c)
<1>1. at[c] \in DOMAIN Deploy[c] => ~(at[c] > Len(Deploy[c]))
  BY PlanType DEF PlaceInv, NodeTypes
<1> QED
  BY <1>1 DEF AllDone, PlaceInv, RunningDeploys, AtWork

LEMMA PhaseOverMeansDone ==
  ASSUME PlaceInv, NEW c \in Component, stage[c] = "deploying", at[c] <= Len(Plan(c)),
         status[Current(c)] \in {"ok", "fail"}
  PROVE  AllDone(c)
<1>1. Current(c) = Deploy[c][at[c]]
  BY DEF Current, Plan
<1>2. SUFFICES ASSUME NEW n \in Node, n \in DeployOf(c), status[n] = "running"
               PROVE  FALSE
  BY DEF AllDone
<1>3. AtWork(c, n)
  BY <1>2 DEF PlaceInv, RunningDeploys
<1>4. status[Deploy[c][at[c]]] = "running"
  BY <1>2, <1>3 DEF AtWork, PlaceInv, RunningInside
<1> QED
  BY <1>1, <1>4

LEMMA PlaceCases ==
  ASSUME PlaceInv, [Next]_vars
  PROVE  \/ \E n \in Node : Starts(n)
         \/ \E s \in Step : Finishes(s)
         \/ \E ph \in Phase : Settles(ph)
         \/ Moves
<1> USE DEF PlaceInv, NodeTypes, Stage
<1>1. ASSUME NEW c \in Component, ComponentStep(c)
      PROVE  Moves
  <2>1. CASE AfterDeployPhase(c)
    <3>1. AllDone(c)
      BY <2>1, PhaseOverMeansDone DEF AfterDeployPhase
    <3>2. /\ UNCHANGED status /\ stage[c] # "waiting"
          /\ \/ at' = [at EXCEPT ![c] = at[c] + 1] /\ UNCHANGED stage
             \/ at' = [at EXCEPT ![c] = 1] /\ stage' = [stage EXCEPT ![c] = "unwinding"]
      BY <2>1 DEF AfterDeployPhase
    <3> QED
      BY <3>1, <3>2 DEF Moves
  <2>2. CASE AfterRollbackPhase(c)
    <3>1. AllDone(c)
      BY <2>2, NotAtWorkMeansDone DEF AfterRollbackPhase
    <3> QED
      BY <2>2, <3>1 DEF AfterRollbackPhase, Moves
  <2>3. CASE DeployDone(c)
    <3>1. AllDone(c)
      BY <2>3, NotAtWorkMeansDone DEF DeployDone, Plan
    <3> QED
      BY <2>3, <3>1 DEF DeployDone, Moves
  <2>4. CASE UnwindDone(c) \/ RollbackDone(c)
    <3>1. AllDone(c)
      BY <2>4, NotAtWorkMeansDone DEF UnwindDone, RollbackDone
    <3> QED
      BY <2>4, <3>1 DEF UnwindDone, RollbackDone, Moves
  <2>5. CASE Unwind(c) \/ RecordRelease(c)
    BY <2>5 DEF Unwind, RecordRelease, Moves, deploy
  <2> QED
    BY <1>1, <2>1, <2>2, <2>3, <2>4, <2>5 DEF ComponentStep
<1>2. CASE NextWave
  <2>1. /\ UNCHANGED <<status, at>>
        /\ stage' = [c \in Component |-> IF c \in waves[wave'] THEN "deploying" ELSE stage[c]]
    BY <1>2 DEF NextWave
  <2>2. \A c \in Component : stage'[c] = stage[c] \/ AllDone(c)
    BY <2>1, NotAtWorkMeansDone
  <2> QED
    BY <2>1, <2>2 DEF Moves
<1>3. CASE Select \/ Layer \/ RunFails \/ RunSucceeds \/ RecordingDone
  BY <1>3 DEF Select, Layer, RunFails, RunSucceeds, RecordingDone, Moves, deploy
<1>4. ASSUME NEW ph \in Phase, StartPhase(ph)
      PROVE  Starts(ph) /\ ph \in Node
  BY <1>4, EntryTypes DEF StartPhase, Starts
<1>5. ASSUME NEW s \in Step, StartStep(s)
      PROVE  Starts(s) /\ s \in Node
  BY <1>5, EntryTypes DEF StartStep, Starts
<1>6. ASSUME NEW s \in Step, FinishStep(s)
      PROVE  Finishes(s)
  BY <1>6 DEF FinishStep, Finishes
<1>7. CASE UNCHANGED vars
  BY <1>7 DEF vars, deploy, Moves
<1> QED
  BY <1>1, <1>2, <1>3, <1>4, <1>5, <1>6, <1>7 DEF Next, Work, Exited, Settles

LEMMA StartsPlace ==
  ASSUME PlaceInv, NEW n \in Node, Starts(n)
  PROVE  PlaceInv'
<1> USE EntryTypes DEF PlaceInv
<1>1. /\ status[n] = "waiting" /\ Reached(n) /\ UNCHANGED <<stage, at>>
      /\ \A m \in Node : status'[m] = IF m = n THEN "running" ELSE status[m]
  BY DEF Starts, NodeTypes
<1>2. NodeTypes'
  BY DEF Starts, NodeTypes, NodeStatus
<1>3. RunningInside'
  <2>1. \A ph \in Inside(n) : status[ph] = "running"
    <3>1. ASSUME NEW ph \in Phase, n \in Entries(ph), status[ph] = "running"
          PROVE  \A q \in Inside(n) : status[q] = "running"
      BY <3>1, Places DEF RunningInside
    <3> QED
      BY <1>1, <3>1, ReachedFrom
  <2> QED
    BY <1>1, <2>1 DEF RunningInside
<1>4. RunningDeploys'
  BY <1>1, ReachedAtWork DEF RunningDeploys, AtWork
<1>5. ASSUME NEW ph \in Phase, n \in Entries(ph)
      PROVE  /\ status[ph] = "running"
             /\ \A i \in DOMAIN Body[ph] : Body[ph][i] = n /\ ph \notin Parallel =>
                  \A j \in 1..(i - 1) : status[Body[ph][j]] = "ok"
  <2>1. Inside(n) # {}
    BY <1>5, Places
  <2>2. PICK q \in Phase : \E i \in DOMAIN Body[q] :
          /\ status[q] = "running"
          /\ n = Body[q][i]
          /\ q \in Parallel \/ \A j \in 1..(i - 1) : status[Body[q][j]] = "ok"
    BY <1>1, <2>1, ReachedFrom DEF PlaceInv
  <2>3. q = ph
    BY <1>5, <2>2, Places
  <2>4. \A i, k \in DOMAIN Body[ph] : Body[ph][k] = Body[ph][i] => k = i
    BY Places DEF IsInjective
  <2> QED
    BY <2>2, <2>3, <2>4
<1>6. InTurn'
  <2> SUFFICES ASSUME NEW ph \in Phase \ Parallel, status'[ph] = "running",
                      NEW i \in DOMAIN Body[ph], status'[Body[ph][i]] # "waiting",
                      NEW j \in 1..(i - 1)
               PROVE  status'[Body[ph][j]] = "ok"
    BY DEF InTurn
  <2>1. i \in 1..Len(Body[ph]) /\ j \in DOMAIN Body[ph]
    OBVIOUS
  <2>2. Body[ph][i] \in Entries(ph) /\ Body[ph][j] \in Entries(ph)
    BY <2>1
  <2>3. CASE n = ph
    <3>1. \A m \in Entries(ph) : m # n /\ status[m] = "waiting"
      BY <1>1, <2>3 DEF NotEntered
    <3> QED
      BY <1>1, <2>2, <3>1
  <2>4. CASE n # ph
    <3>1. status[ph] = "running"
      BY <1>1, <2>4
    <3>2. status[Body[ph][j]] = "ok"
      BY <1>1, <1>5, <2>1, <2>2, <3>1 DEF InTurn
    <3> QED
      BY <1>1, <2>2, <3>2
  <2> QED
    BY <2>3, <2>4
<1>7. NotEntered'
  BY <1>1, <1>5 DEF NotEntered
<1> QED
  BY <1>2, <1>3, <1>4, <1>6, <1>7

LEMMA FinishesPlace ==
  ASSUME PlaceInv, NEW s \in Step, Finishes(s)
  PROVE  PlaceInv'
<1> USE EntryTypes DEF PlaceInv
<1>1. PICK r \in {"ok", "fail"} :
        /\ status[s] = "running" /\ UNCHANGED <<stage, at>>
        /\ \A m \in Node : status'[m] = IF m = s THEN r ELSE status[m]
        /\ status' \in [Node -> NodeStatus]
  BY DEF Finishes, NodeTypes, NodeStatus
<1>2. NodeTypes'
  BY <1>1 DEF NodeTypes
<1>3. RunningInside' /\ RunningDeploys'
  BY <1>1 DEF RunningInside, RunningDeploys, AtWork
<1>4. InTurn'
  <2> SUFFICES ASSUME NEW ph \in Phase \ Parallel, status'[ph] = "running",
                      NEW i \in DOMAIN Body[ph], status'[Body[ph][i]] # "waiting",
                      NEW j \in 1..(i - 1)
               PROVE  status'[Body[ph][j]] = "ok"
    BY DEF InTurn
  <2>1. j \in DOMAIN Body[ph] /\ Body[ph][i] \in Node /\ Body[ph][j] \in Node
    OBVIOUS
  <2>2. status[ph] = "running" /\ status[Body[ph][i]] # "waiting"
    BY <1>1, <2>1
  <2>3. status[Body[ph][j]] = "ok"
    BY <2>2 DEF InTurn
  <2> QED
    BY <1>1, <2>1, <2>3
<1>5. NotEntered'
  BY <1>1 DEF NotEntered
<1> QED
  BY <1>2, <1>3, <1>4, <1>5

\* When a phase settles nothing inside of it runs any more: neither an entry that was
\* left out, nor anything further down.
LEMMA SettledMeansStill ==
  ASSUME PlaceInv, NEW ph \in Phase, status[ph] = "running", Settled(ph),
         NEW n \in Node, ph \in Inside(n)
  PROVE  status[n] # "running"
<1> USE EntryTypes DEF PlaceInv
<1>1. SUFFICES ASSUME status[n] = "running" PROVE FALSE
  OBVIOUS
<1>2. PICK e \in Entries(ph) : e = n \/ e \in Inside(n)
  BY Places
<1>3. status[e] = "running"
  BY <1>1, <1>2 DEF RunningInside
<1>4. ph \notin Parallel /\ Failed(ph)
  BY <1>2, <1>3 DEF Settled
<1>5. PICK f \in Entries(ph) : status[f] = "fail"
  BY <1>4 DEF Failed
<1>6. PICK i \in DOMAIN Body[ph], j \in DOMAIN Body[ph] : e = Body[ph][i] /\ f = Body[ph][j]
  BY <1>2, <1>5
<1>7. i \in Nat /\ j \in Nat /\ i >= 1 /\ j >= 1
  OBVIOUS
<1>8. CASE i < j
  BY <1>3, <1>4, <1>5, <1>6, <1>7, <1>8 DEF InTurn
<1>9. CASE j < i
  BY <1>3, <1>4, <1>5, <1>6, <1>7, <1>9 DEF InTurn
<1>10. CASE i = j
  BY <1>3, <1>5, <1>6, <1>10
<1> QED
  BY <1>7, <1>8, <1>9, <1>10

LEMMA SettlesPlace ==
  ASSUME PlaceInv, NEW ph \in Phase, Settles(ph)
  PROVE  PlaceInv'
<1> USE EntryTypes DEF PlaceInv
<1>1. PICK r \in {"ok", "fail"} :
        /\ status[ph] = "running" /\ Settled(ph) /\ UNCHANGED <<stage, at>>
        /\ status' = [n \in Node |->
              IF n = ph THEN r
              ELSE IF n \in Entries(ph) /\ status[n] = "waiting" THEN "skipped"
              ELSE status[n]]
  <2>1. PICK r : r = IF Failed(ph) THEN "fail" ELSE "ok"
    OBVIOUS
  <2> QED
    BY <2>1 DEF Settles, SettlePhase
<1>2. NodeTypes'
  BY <1>1 DEF NodeTypes, NodeStatus
<1>a. \A n \in Node : status'[n] = "running" => n # ph /\ status[n] = "running"
  BY <1>1
<1>3. RunningInside'
  <2> SUFFICES ASSUME NEW n \in Node, status'[n] = "running", NEW q \in Inside(n)
               PROVE  status'[q] = "running"
    BY DEF RunningInside
  <2>1. status[n] = "running" /\ status[q] = "running" /\ q \in Node
    BY <1>a DEF RunningInside
  <2>2. q # ph
    BY <1>1, <2>1, SettledMeansStill
  <2> QED
    BY <1>1, <2>1, <2>2
<1>4. RunningDeploys'
  BY <1>1, <1>a DEF RunningDeploys, AtWork
<1>5. InTurn'
  <2> SUFFICES ASSUME NEW q \in Phase \ Parallel, status'[q] = "running",
                      NEW i \in DOMAIN Body[q], status'[Body[q][i]] # "waiting",
                      NEW j \in 1..(i - 1)
               PROVE  status'[Body[q][j]] = "ok"
    BY DEF InTurn
  <2>1. /\ j \in DOMAIN Body[q] /\ Body[q][i] \in Entries(q) /\ Body[q][j] \in Entries(q)
        /\ q # ph /\ status[q] = "running"
    BY <1>a
  <2>2. Body[q][i] \notin Entries(ph) /\ Body[q][j] \notin Entries(ph)
    BY <2>1, Places
  <2>3. status[Body[q][i]] # "waiting"
    BY <1>1, <2>1, <2>2
  <2>4. status[Body[q][j]] = "ok"
    BY <2>1, <2>3 DEF InTurn
  <2> QED
    BY <1>1, <2>1, <2>4
<1>6. NotEntered'
  <2> SUFFICES ASSUME NEW q \in Phase, status'[q] \in {"waiting", "skipped"}, NEW n \in Entries(q)
               PROVE  status'[n] = "waiting"
    BY DEF NotEntered
  <2>1. q # ph /\ status[q] \in {"waiting", "skipped"}
    BY <1>1
  <2>2. status[n] = "waiting" /\ n \notin Entries(ph)
    BY <2>1, Places DEF NotEntered
  <2> QED
    BY <1>1, <2>2
<1> QED
  BY <1>2, <1>3, <1>4, <1>5, <1>6

LEMMA MovesPlace ==
  ASSUME PlaceInv, Moves
  PROVE  PlaceInv'
<1>1. NodeTypes' /\ RunningInside' /\ InTurn' /\ NotEntered'
  BY DEF PlaceInv, Moves, NodeTypes, RunningInside, InTurn, NotEntered
<1>2. RunningDeploys'
  BY DEF PlaceInv, Moves, RunningDeploys, AtWork, AllDone
<1> QED
  BY <1>1, <1>2 DEF PlaceInv

LEMMA PlaceInit == Init => PlaceInv
<1> SUFFICES ASSUME Init PROVE PlaceInv
  OBVIOUS
<1> QED
  BY EntryTypes DEF Init, PlaceInv, NodeTypes, NodeStatus, Stage, RunningInside, RunningDeploys,
                    InTurn, NotEntered

LEMMA PlaceInvariant == Spec => []PlaceInv
<1>1. PlaceInv /\ [Next]_vars => PlaceInv'
  BY PlaceCases, StartsPlace, FinishesPlace, SettlesPlace, MovesPlace
<1> QED
  BY <1>1, PlaceInit, PTL DEF Spec

\* Once a component unwinds no step of its deploy starts or ends any more, in any
\* composition: a phase that has failed leaves nothing running behind, however deep
\* its entries are nested and whatever ran in parallel.
THEOREM UnwindFreezes == Spec => UnwindFreezesDeploy
<1> DEFINE Frozen == \A c \in Component :
                       GivenUp(c) => \A s \in StepsOf[c] : status'[s] = status[s]
<1>1. PlaceInv /\ [Next]_vars => Frozen
  <2> SUFFICES ASSUME PlaceInv, [Next]_vars, NEW c \in Component, GivenUp(c), NEW s \in StepsOf[c]
               PROVE  status'[s] = status[s]
    OBVIOUS
  <2>1. s \in Step /\ s \in Node /\ s \in DeployOf(c) /\ status \in [Node -> NodeStatus]
    BY Roots, EntryTypes DEF PlaceInv, NodeTypes
  <2>2. \A n \in Node : ~AtWork(c, n)
    BY DEF GivenUp, AtWork
  <2>3. CASE \E n \in Node : Starts(n)
    BY <2>1, <2>2, <2>3, ReachedAtWork DEF Starts
  <2>4. CASE \E t \in Step : Finishes(t)
    BY <2>1, <2>2, <2>4, EntryTypes DEF Finishes, PlaceInv, RunningDeploys
  <2>5. ASSUME NEW ph \in Phase, Settles(ph)
        PROVE  status'[s] = status[s]
    <3>1. status[ph] = "running" /\ ph \in Node /\ s # ph
      BY <2>1, <2>5, EntryTypes DEF Settles, SettlePhase
    <3>2. s \notin Entries(ph)
      BY <2>1, <2>2, <3>1, Places DEF PlaceInv, RunningDeploys
    <3> QED
      BY <2>1, <2>5, <3>1, <3>2 DEF Settles, SettlePhase
  <2>6. CASE Moves
    BY <2>6 DEF Moves
  <2> QED
    BY <2>3, <2>4, <2>5, <2>6, PlaceCases
<1>2. Spec => [][Frozen]_vars
  <2> HIDE DEF Frozen
  <2> QED
    BY <1>1, PlaceInvariant, PTL DEF Spec
<1> QED
  BY <1>2, PTL DEF UnwindFreezesDeploy

-----------------------------------------------------------------------------
(* Outputs and the steps that refer to them. *)

\* A step of a deploy that has begun belongs to a component that has.
BegunStarted ==
  \A c \in Component : \A s \in StepsOf[c] :
    status[s] \in {"running", "ok", "fail"} => stage[c] # "waiting"

\* The outputs of what has been deployed are there.
OutputsThere == \A r \in Reference : stage[r.of] = "ok" /\ Provided(r) => r \in outputs

\* The property for one reference.
Wired == \A c \in Component : \A s \in StepsOf[c] : \A r \in Refers[s] :
           /\ status[s] \in {"running", "ok", "fail"}
           /\ LookedUp(r) /\ r.of \in deps[c] /\ Provided(r)
           => r \in resolved[s]

WiringInv == /\ DOMAIN resolved = Step
             /\ BegunStarted
             /\ OutputsThere
             /\ Wired

LEMMA BegunStartedStep ==
  ASSUME PlaceInv, BegunStarted, [Next]_vars
  PROVE  BegunStarted'
<1> SUFFICES ASSUME NEW c \in Component, NEW s \in StepsOf[c],
                    status'[s] \in {"running", "ok", "fail"}
             PROVE  stage'[c] # "waiting"
  BY DEF BegunStarted
<1>1. s \in Step /\ s \in Node /\ s \in DeployOf(c) /\ status \in [Node -> NodeStatus]
  BY Roots, EntryTypes DEF PlaceInv, NodeTypes
<1>2. ASSUME NEW n \in Node, Starts(n)
      PROVE  stage'[c] # "waiting"
  <2>1. CASE n = s
    BY <1>1, <1>2, <2>1, ReachedAtWork DEF Starts, AtWork
  <2>2. CASE n # s
    BY <1>1, <1>2, <2>2 DEF Starts, BegunStarted
  <2> QED
    BY <2>1, <2>2
<1>3. ASSUME NEW t \in Step, Finishes(t)
      PROVE  stage'[c] # "waiting"
  BY <1>1, <1>3, EntryTypes DEF Finishes, BegunStarted
<1>4. ASSUME NEW ph \in Phase, Settles(ph)
      PROVE  stage'[c] # "waiting"
  BY <1>1, <1>4, EntryTypes DEF Settles, SettlePhase, BegunStarted
<1>5. CASE Moves
  <2>1. stage[c] # "waiting"
    BY <1>5 DEF Moves, BegunStarted
  <2> QED
    BY <1>5, <2>1 DEF Moves
<1> QED
  BY <1>2, <1>3, <1>4, <1>5, PlaceCases

\* In a run that has not begun everything waits.
LEMMA IdleWaits ==
  ASSUME WaveInv, run = "idle", NEW c \in Component
  PROVE  stage[c] = "waiting"
BY DEF WaveInv, RunProgress, WavesFollowed

\* Outputs come when a component has been deployed, and only the selection that
\* begins a run takes others away.
LEMMA OutputsStep ==
  ASSUME WaveInv, OutputsThere, [Next]_vars
  PROVE  OutputsThere'
<1> SUFFICES ASSUME NEW r \in Reference, stage'[r.of] = "ok", Provided(r)
             PROVE  r \in outputs'
  BY DEF OutputsThere, Provided, Publishes
<1> DEFINE d == r.of
<1>d. d \in Component
  BY DEF Reference
<1>0. stage \in [Component -> Stage]
  BY DEF WaveInv, RunTypes
<1>1. CASE Select
  <2>1. stage[d] = "ok" /\ run = "idle"
    BY <1>1 DEF Select
  <2> QED
    BY <2>1, <1>d, IdleWaits
<1>2. ASSUME NEW c \in Component, DeployDone(c)
      PROVE  r \in outputs'
  <2>1. outputs' = outputs \cup {q \in Reference : q.of = c /\ Provided(q)}
    BY <1>2 DEF DeployDone
  <2>2. d = c \/ stage[d] = "ok"
    BY <1>0, <1>d, <1>2 DEF DeployDone
  <2> QED
    BY <2>1, <2>2 DEF OutputsThere
<1>3. CASE stage[d] = "ok" /\ outputs' = outputs
  BY <1>3 DEF OutputsThere
<1>4. \/ Select \/ \E c \in Component : DeployDone(c)
      \/ stage[d] = "ok" /\ outputs' = outputs
  <2>1. ASSUME NEW c \in Component, ComponentStep(c), ~DeployDone(c)
        PROVE  stage[d] = "ok" /\ outputs' = outputs
    <3>1. CASE UNCHANGED <<stage, outputs>>
      BY <3>1
    <3>2. CASE ~UNCHANGED <<stage, outputs>>
      <4>1. outputs' = outputs /\ \A b \in Component : stage'[b] # "ok" \/ stage'[b] = stage[b]
        BY <1>0, <2>1, <3>2 DEF ComponentStep, AfterDeployPhase, AfterRollbackPhase, Unwind,
                                UnwindDone, RollbackDone, RecordRelease, deploy
      <4> QED
        BY <1>d, <4>1
    <3> QED
      BY <3>1, <3>2
  <2>2. ASSUME NEW ph \in Phase, StartPhase(ph) \/ SettlePhase(ph)
        PROVE  stage[d] = "ok" /\ outputs' = outputs
    BY <2>2 DEF StartPhase, SettlePhase
  <2>3. ASSUME NEW s \in Step, StartStep(s) \/ FinishStep(s)
        PROVE  stage[d] = "ok" /\ outputs' = outputs
    BY <2>3 DEF StartStep, FinishStep
  <2>4. CASE Layer \/ NextWave \/ RunFails \/ RunSucceeds \/ RecordingDone \/ UNCHANGED vars
    BY <1>0, <1>d, <2>4 DEF Layer, NextWave, RunFails, RunSucceeds, RecordingDone, vars, deploy
  <2> HIDE DEF d
  <2> QED
    BY <2>1, <2>2, <2>3, <2>4 DEF Next, Work, Exited
<1> QED
  BY <1>1, <1>2, <1>3, <1>4

LEMMA WiringStep ==
  ASSUME WaveInv, PlaceInv, WiringInv, [Next]_vars
  PROVE  Wired' /\ DOMAIN resolved' = Step
<1> USE DEF WiringInv
<1>0. status \in [Node -> NodeStatus] /\ Step \subseteq Node /\ Phase \cap Step = {}
  BY EntryTypes DEF PlaceInv, NodeTypes
<1>a. ASSUME UNCHANGED <<resolved, deps>>,
             \A s \in Step : status'[s] \in {"running", "ok", "fail"} =>
                              status[s] \in {"running", "ok", "fail"}
      PROVE  Wired' /\ DOMAIN resolved' = Step
  BY <1>a, Roots DEF Wired
<1>1. ASSUME NEW t \in Step, StartStep(t)
      PROVE  Wired' /\ DOMAIN resolved' = Step
  <2>1. /\ Reached(t) /\ UNCHANGED deps
        /\ resolved' = [resolved EXCEPT ![t] = {r \in Refers[t] \cap outputs : LookedUp(r)}]
        /\ status' = [status EXCEPT ![t] = "running"]
    BY <1>1 DEF StartStep, plan
  <2>2. ASSUME NEW c \in Component, t \in StepsOf[c], NEW r \in Refers[t],
               LookedUp(r), r.of \in deps[c], Provided(r)
        PROVE  r \in resolved'[t]
    <3>1. stage[c] = "deploying"
      BY <1>0, <2>1, <2>2, Roots, ReachedAtWork DEF AtWork
    <3>2. stage[r.of] = "ok"
      BY <2>2, <3>1, WaveInvImplies DEF DependenciesFirst
    <3>3. r \in Reference
      BY StepType
    <3>4. r \in outputs
      BY <2>2, <3>2, <3>3 DEF OutputsThere
    <3> QED
      BY <2>1, <2>2, <3>4
  <2>3. ASSUME NEW c \in Component, NEW s \in StepsOf[c],
               NEW r \in Refers[s], status'[s] \in {"running", "ok", "fail"},
               LookedUp(r), r.of \in deps'[c], Provided(r)
        PROVE  r \in resolved'[s]
    <3>1. s \in Step
      BY Roots
    <3>2. CASE s = t
      BY <2>1, <2>2, <2>3, <3>2
    <3>3. CASE s # t
      BY <1>0, <2>1, <2>3, <3>1, <3>3 DEF Wired
    <3> QED
      BY <3>2, <3>3
  <2> QED
    BY <2>1, <2>3 DEF Wired
<1>2. CASE Select
  <2>1. UNCHANGED <<status, resolved>> /\ \A c \in Component : stage[c] = "waiting"
    BY <1>2, IdleWaits DEF Select
  <2> QED
    BY <2>1 DEF BegunStarted, Wired
<1>3. ASSUME NEW ph \in Phase, StartPhase(ph) \/ SettlePhase(ph)
      PROVE  Wired' /\ DOMAIN resolved' = Step
  BY <1>0, <1>3, <1>a DEF StartPhase, SettlePhase, plan
<1>4. ASSUME NEW s \in Step, FinishStep(s)
      PROVE  Wired' /\ DOMAIN resolved' = Step
  BY <1>0, <1>4, <1>a DEF FinishStep, plan
<1>5. ASSUME NEW c \in Component, ComponentStep(c)
      PROVE  Wired' /\ DOMAIN resolved' = Step
  BY <1>5, <1>a DEF ComponentStep, AfterDeployPhase, AfterRollbackPhase, DeployDone, Unwind,
                    UnwindDone, RollbackDone, RecordRelease, deploy, plan
<1>6. CASE Layer \/ NextWave \/ RunFails \/ RunSucceeds \/ RecordingDone \/ UNCHANGED vars
  BY <1>6, <1>a DEF Layer, NextWave, RunFails, RunSucceeds, RecordingDone, vars, deploy, plan
<1> QED
  BY <1>1, <1>2, <1>3, <1>4, <1>5, <1>6 DEF Next, Work, Exited

\* A step that refers to a stack output, or to the artifact of a component with a hyphen
\* in its name, finds it when its input is resolved if its own component depends on that
\* one, in any graph and any composition.
THEOREM Wiring == Spec => []WiringResolved
<1>1. Init => WiringInv
  BY Roots, EntryTypes DEF Init, WiringInv, BegunStarted, OutputsThere, Wired, Reference
<1>2. WaveInv /\ PlaceInv /\ WiringInv /\ [Next]_vars => WiringInv'
  BY BegunStartedStep, OutputsStep, WiringStep DEF WiringInv
<1>3. WiringInv => WiringResolved
  BY DEF WiringInv, Wired, WiringResolved, Found
<1> QED
  BY <1>1, <1>2, <1>3, WaveInvariant, PlaceInvariant, PTL DEF Spec

-----------------------------------------------------------------------------
(* Gates. *)

Begun == run \in {"running", "recording", "ok", "failed"}

\* Before the first wave nothing has been done; what runs later was searched, and
\* so was all that has ever been entered.
GateInv ==
  /\ status \in [Node -> NodeStatus] /\ at \in [Component -> Nat \ {0}]
  /\ Begun \/ /\ \A c \in Component : stage[c] = "waiting"
              /\ \A n \in Node : status[n] = "waiting"
  /\ Begun \/ run = "layering" => \A c \in target : ~Gated(c)
  /\ \A n \in Node : status[n] # "waiting" => Below[n] \cap Gate = {}

\* A node that is reached holds no gate, and the first wave has begun.
LEMMA ReachedHasNoGate ==
  ASSUME WaveInv, GateInv, NEW n \in Node, Reached(n)
  PROVE  Begun /\ Below[n] \cap Gate = {}
<1>1. ASSUME NEW c \in Component, Running(c), at[c] <= Len(Plan(c)), n = Current(c)
      PROVE  Begun /\ Below[n] \cap Gate = {}
  <2>1. Begun
    BY <1>1 DEF GateInv, Running
  <2>2. c \in target
    <3>1. PICK i \in 1..wave : c \in waves[i]
      BY <1>1 DEF Running, WaveInv, WavesFollowed
    <3> QED
      BY <3>1 DEF WaveInv, RunTypes, WavesLayered
  <2>3. n \in ToSet(Deploy[c]) \cup ToSet(Rollback[c])
    <3>1. Deploy[c] \in Seq(Phase) /\ Rollback[c] \in Seq(Phase) /\ at[c] \in Nat \ {0}
      BY PlanType DEF GateInv
    <3>2. CASE stage[c] = "deploying"
      BY <1>1, <3>1, <3>2 DEF Plan, Current, ToSet
    <3>3. CASE stage[c] = "compensating"
      BY <1>1, <3>1, <3>3 DEF Plan, Current, ToSet, Reverse
    <3> QED
      BY <1>1, <3>2, <3>3 DEF Running
  <2> QED
    BY <2>1, <2>2, <2>3 DEF GateInv, Gated
<1>2. ASSUME NEW ph \in Phase, NEW i \in DOMAIN Body[ph], status[ph] = "running", n = Body[ph][i]
      PROVE  Begun /\ Below[n] \cap Gate = {}
  <2>1. n \in Entries(ph) /\ ph \in Node
    BY <1>2, EntryTypes
  <2> QED
    BY <1>2, <2>1, Searches DEF GateInv
<1> QED
  BY <1>1, <1>2 DEF Reached

\* A step of a composition, taken once the first wave has begun.
LEMMA EnteredStep ==
  ASSUME GateInv, Begun, UNCHANGED <<run, target, at>>, status' \in [Node -> NodeStatus],
         \A n \in Node : status[n] = "waiting" /\ status'[n] # "waiting" => Below[n] \cap Gate = {}
  PROVE  GateInv'
BY DEF GateInv, Begun, Gated

LEMMA GateStep ==
  ASSUME WaveInv, GateInv, [Next]_vars
  PROVE  GateInv'
<1> USE DEF NodeStatus
<1>1. ASSUME NEW n \in Node, status[n] = "waiting", Reached(n), UNCHANGED <<run, target, at>>,
             status' = [status EXCEPT ![n] = "running"]
      PROVE  GateInv'
  <2>1. Begun /\ Below[n] \cap Gate = {}
    BY <1>1, ReachedHasNoGate
  <2>2. status' \in [Node -> NodeStatus] /\ \A m \in Node \ {n} : status'[m] = status[m]
    BY <1>1 DEF GateInv
  <2> QED
    BY <1>1, <2>1, <2>2, EnteredStep
<1>2. ASSUME NEW ph \in Phase, StartPhase(ph)
      PROVE  GateInv'
  BY <1>2, <1>1, EntryTypes DEF StartPhase, plan
<1>3. ASSUME NEW s \in Step, StartStep(s)
      PROVE  GateInv'
  BY <1>3, <1>1, EntryTypes DEF StartStep, plan
<1>4. ASSUME NEW s \in Step, FinishStep(s)
      PROVE  GateInv'
  <2>1. s \in Node /\ status[s] = "running" /\ UNCHANGED <<run, target, at>>
    BY <1>4, EntryTypes DEF FinishStep, plan
  <2>2. status' \in [Node -> NodeStatus] /\ \A m \in Node \ {s} : status'[m] = status[m]
    BY <1>4, <2>1 DEF FinishStep, GateInv
  <2>3. Begun
    BY <2>1 DEF GateInv
  <2> QED
    BY <2>1, <2>2, <2>3, EnteredStep
<1>5. ASSUME NEW ph \in Phase, SettlePhase(ph)
      PROVE  GateInv'
  <2>1. ph \in Node /\ status[ph] = "running" /\ UNCHANGED <<run, target, at>>
    BY <1>5, EntryTypes DEF SettlePhase, plan
  <2>2. status' \in [Node -> NodeStatus]
    BY <1>5 DEF SettlePhase, GateInv
  <2>3. ASSUME NEW n \in Node, status[n] = "waiting", status'[n] # "waiting"
        PROVE  Below[n] \cap Gate = {}
    <3>1. n \in Entries(ph)
      BY <1>5, <2>1, <2>3 DEF SettlePhase
    <3> QED
      BY <2>1, <3>1, Searches DEF GateInv
  <2>4. Begun
    BY <2>1 DEF GateInv
  <2> QED
    BY <2>1, <2>2, <2>3, <2>4, EnteredStep
<1>6. ASSUME NEW c \in Component, ComponentStep(c), ~RecordRelease(c)
      PROVE  GateInv'
  <2>1. UNCHANGED <<run, target, status>> /\ stage[c] # "waiting"
    BY <1>6 DEF ComponentStep, AfterDeployPhase, AfterRollbackPhase, DeployDone, Unwind,
                UnwindDone, RollbackDone, plan
  <2>2. at' \in [Component -> Nat \ {0}]
    <3>1. \/ UNCHANGED at
          \/ at' = [at EXCEPT ![c] = at[c] + 1]
          \/ at' = [at EXCEPT ![c] = 1]
      BY <1>6 DEF ComponentStep, AfterDeployPhase, AfterRollbackPhase, DeployDone, Unwind,
                  UnwindDone, RollbackDone
    <3> QED
      BY <3>1 DEF GateInv
  <2> QED
    BY <2>1, <2>2 DEF GateInv, Begun, Gated
<1>7. CASE RunMoves
  <2>1. UNCHANGED <<target, stage, at, status>>
    BY <1>7 DEF RunMoves, Layer, RunFails, RunSucceeds, RecordingDone, RecordRelease, plan, deploy
  <2>2. /\ Begun => Begun'
        /\ Begun' \/ run' = "layering" => Begun \/ run = "layering"
    BY <1>7 DEF RunMoves, Layer, RunFails, RunSucceeds, RecordingDone, RecordRelease, Begun
  <2> QED
    BY <2>1, <2>2 DEF GateInv, Gated
<1>8. CASE Select
  <2>1. UNCHANGED <<stage, at, status>> /\ ~Begun
    BY <1>8 DEF Select, Begun
  <2>2. ASSUME NEW off \in SUBSET Component, NEW needs \in DependsOns, SelectAll(off, needs),
               Begun' \/ run' = "layering"
        PROVE  \A c \in target' : ~Gated(c)
    BY <2>2 DEF SelectAll, Begun
  <2>3. ASSUME NEW off \in SUBSET Component, NEW c \in Component, SelectOne(c, off),
               Begun' \/ run' = "layering"
        PROVE  \A d \in target' : ~Gated(d)
    BY <2>3 DEF SelectOne, Begun
  <2>4. Begun' \/ run' = "layering" => \A c \in target' : ~Gated(c)
    BY <1>8, <2>2, <2>3 DEF Select
  <2> QED
    BY <2>1, <2>4 DEF GateInv, Gated
<1>9. CASE NextWave
  BY <1>9 DEF NextWave, GateInv, Begun, Gated, plan
<1>10. CASE UNCHANGED vars
  BY <1>10 DEF vars, plan, deploy, GateInv, Begun, Gated
<1> QED
  BY <1>2, <1>3, <1>4, <1>5, <1>6, <1>7, <1>8, <1>9, <1>10 DEF Next, Work, Exited, RunMoves

\* No gate is ever reached, wherever it is nested, and a run that is turned away
\* because of one has done nothing.
THEOREM TurnedAway == Spec => []GatesTurnedAway
<1>1. Init => GateInv
  BY DEF Init, GateInv, Begun, NodeStatus
<1>2. WaveInv /\ GateInv /\ [Next]_vars => GateInv'
  BY GateStep
<1>3. GateInv => GatesTurnedAway
  BY Searches, StepType, EntryTypes DEF GateInv, GatesTurnedAway, Begun
<1> QED
  BY WaveInvariant, <1>1, <1>2, <1>3, PTL DEF Spec

-----------------------------------------------------------------------------
(* The order a composition gives to its steps. *)

\* What runs together or one after the other: the entries of a phase, the phases
\* of a deploy.
Level(g) == \/ \E ph \in Phase : g = Body[ph]
            \/ \E c \in Component : g = Deploy[c]

\* What is nested at the top of a deploy is nested nowhere else.
LEMMA UnderRoot ==
  ASSUME NEW c \in Component, NEW r \in ToSet(Deploy[c]), NEW n \in Node,
         NEW m, m \in Inner(r), m \in Inner(n)
  PROVE  n \in Inner(r)
<1>1. r \in Phase /\ r \in Node
  BY PlanType, BodyTypes DEF ToSet
<1>2. n \in Inner(r) \/ r \in Inner(n)
  BY <1>1, HoldersNest
<1>3. CASE r \in Inner(n) /\ n # r
  <2>1. n \in Phase
    BY <1>3, BodyTypes, InnerFacts
  <2>2. n \in Inside(r)
    BY <1>3, <2>1 DEF Inside
  <2> QED
    BY <2>2, Roots
<1> QED
  BY <1>1, <1>2, <1>3, InnerFacts

LEMMA LevelsBranch ==
  ASSUME NEW g, Level(g)
  PROVE  /\ g \in Seq(Node) /\ DOMAIN g = 1..Len(g)
         /\ \A i, j \in DOMAIN g : i # j => Inner(g[i]) \cap Inner(g[j]) = {}
<1>1. ASSUME NEW ph \in Phase, NEW i \in DOMAIN Body[ph], NEW j \in DOMAIN Body[ph], i # j,
             NEW m, m \in Inner(Body[ph][i]), m \in Inner(Body[ph][j])
      PROVE  FALSE
  <2>1. /\ Body[ph][i] \in Entries(ph) /\ Body[ph][j] \in Entries(ph)
        /\ Body[ph][i] \in Node /\ Body[ph][j] \in Node
        /\ Body[ph][i] # Body[ph][j]
    BY <1>1, BodyTypes, Places DEF IsInjective
  <2>2. \A e \in Entries(ph) : ph \notin Inner(e)
    BY InnerFacts, BodyTypes
  <2> QED
    BY <1>1, <2>1, <2>2, HoldersNest, HoldsPhase
<1>2. ASSUME NEW c \in Component, NEW i \in DOMAIN Deploy[c], NEW j \in DOMAIN Deploy[c], i # j,
             NEW m, m \in Inner(Deploy[c][i]), m \in Inner(Deploy[c][j])
      PROVE  FALSE
  <2>1. /\ Deploy[c][i] \in ToSet(Deploy[c]) /\ Deploy[c][j] \in ToSet(Deploy[c])
        /\ Deploy[c][i] \in Phase /\ Deploy[c][j] \in Phase
        /\ Deploy[c][i] # Deploy[c][j]
    BY <1>2, PlanType, PlaceType DEF ToSet, IsInjective
  <2>2. Deploy[c][i] \in Inner(Deploy[c][j])
    BY <1>2, <2>1, UnderRoot, BodyTypes
  <2>3. Deploy[c][j] \in Inside(Deploy[c][i])
    BY <2>1, <2>2 DEF Inside
  <2> QED
    BY <2>1, <2>3, Roots
<1>3. \A ph \in Phase : Body[ph] \in Seq(Node)
  BY BodyTypes
<1>4. \A c \in Component : Deploy[c] \in Seq(Node)
  BY PlanType, BodyTypes
<1>5. g \in Seq(Node)
  BY <1>3, <1>4 DEF Level
<1>6. ASSUME NEW i \in DOMAIN g, NEW j \in DOMAIN g, i # j, NEW m,
             m \in Inner(g[i]), m \in Inner(g[j])
      PROVE  FALSE
  BY <1>1, <1>2, <1>6 DEF Level
<1>7. DOMAIN g = 1..Len(g)
  BY <1>5
<1> QED
  BY <1>5, <1>6, <1>7

\* A node that holds parts of two branches holds the phase that branches.
LEMMA HoldsBranching ==
  ASSUME NEW g, Level(g), NEW k \in DOMAIN g, NEW l \in DOMAIN g, k # l,
         NEW n \in Node, NEW x, NEW y, x \in Inner(n), y \in Inner(n),
         x \in Inner(g[k]), y \in Inner(g[l])
  PROVE  /\ \A ph \in Phase : g = Body[ph] => ph \in Inner(n)
         /\ \A c \in Component : g # Deploy[c]
<1>1. /\ g[k] \in Node /\ g[l] \in Node
      /\ \A m \in DOMAIN g : m = k \/ Inner(g[m]) \cap Inner(g[k]) = {}
      /\ \A m \in DOMAIN g : m = l \/ Inner(g[m]) \cap Inner(g[l]) = {}
  BY LevelsBranch
<1>2. ASSUME NEW m \in DOMAIN g, n \in Inner(g[m])
      PROVE  FALSE
  <2>1. g[m] \in Node
    BY LevelsBranch
  <2>2. Inner(n) \subseteq Inner(g[m])
    BY <1>2, <2>1, InnerFacts
  <2> QED
    BY <1>1, <2>2
<1>3. ASSUME NEW ph \in Phase, g = Body[ph]
      PROVE  ph \in Inner(n)
  <2>1. ph \in Node /\ g[k] \in Entries(ph)
    BY <1>3, BodyTypes
  <2>2. x \in Inner(ph)
    BY <2>1, InnerFacts
  <2>3. CASE n \in Inner(ph) /\ n # ph
    <3>1. PICK e \in Entries(ph) : n \in Inner(e)
      BY <2>1, <2>3, InnerFacts
    <3>2. PICK m \in DOMAIN Body[ph] : e = Body[ph][m]
      BY BodyTypes
    <3> QED
      BY <1>2, <1>3, <3>1, <3>2
  <2> QED
    BY <2>1, <2>2, <2>3, HoldersNest, InnerFacts
<1>4. ASSUME NEW c \in Component, g = Deploy[c]
      PROVE  FALSE
  <2>1. g[k] \in ToSet(Deploy[c])
    BY <1>4 DEF ToSet
  <2>2. n \in Inner(g[k])
    BY <2>1, UnderRoot
  <2> QED
    BY <1>2, <2>2
<1> QED
  BY <1>3, <1>4

\* Two levels never order two nodes in opposite ways.
LEMMA LevelsAgree ==
  ASSUME NEW g, Level(g), NEW h, Level(h),
         NEW i \in DOMAIN g, NEW j \in DOMAIN g, i < j,
         NEW k \in DOMAIN h, NEW l \in DOMAIN h, k < l,
         NEW x \in Inner(g[i]) \cap Inner(h[l]), NEW y \in Inner(g[j]) \cap Inner(h[k])
  PROVE  FALSE
<1>1. /\ i \in Int /\ j \in Int /\ k \in Int /\ l \in Int
      /\ g[i] \in Node /\ g[j] \in Node /\ h[k] \in Node /\ h[l] \in Node
  BY LevelsBranch
<1>2. i # j /\ l # k
  BY <1>1
<1>3. g # h
  <2> SUFFICES ASSUME g = h PROVE FALSE
    OBVIOUS
  <2>1. i = l /\ j = k
    BY LevelsBranch
  <2> QED
    BY <1>1, <2>1
<1>4. ASSUME NEW p \in Phase, NEW f, Level(f), NEW a \in DOMAIN f, NEW b \in DOMAIN f,
             f = Body[p], x \in Inner(f[a]), y \in Inner(f[b])
      PROVE  p \in Node /\ x \in Inner(p) /\ y \in Inner(p)
  <2>1. p \in Node /\ f[a] \in Entries(p) /\ f[b] \in Entries(p)
    BY <1>4, BodyTypes
  <2> QED
    BY <1>4, <2>1, InnerFacts
<1>5. ASSUME NEW p \in Phase, g = Body[p]
      PROVE  FALSE
  <2>1. p \in Node /\ x \in Inner(p) /\ y \in Inner(p)
    BY <1>4, <1>5
  <2>2. /\ \A q \in Phase : h = Body[q] => q \in Inner(p)
        /\ \A c \in Component : h # Deploy[c]
    BY <1>2, <2>1, HoldsBranching
  <2>3. PICK q \in Phase : h = Body[q] /\ q \in Inner(p)
    BY <2>2 DEF Level
  <2>4. q \in Node /\ x \in Inner(q) /\ y \in Inner(q)
    BY <1>4, <2>3
  <2>5. p \in Inner(q)
    BY <1>2, <1>5, <2>4, HoldsBranching
  <2>6. q # p
    BY <1>3, <1>5, <2>3
  <2>7. PICK e \in Entries(p) : q \in Inner(e)
    BY <2>1, <2>3, <2>6, InnerFacts
  <2>8. e \in Node /\ p \notin Inner(e)
    BY <2>1, BodyTypes, InnerFacts
  <2> QED
    BY <2>5, <2>7, <2>8, InnerFacts
<1>6. ASSUME NEW c \in Component, g = Deploy[c]
      PROVE  FALSE
  <2>1. PICK d \in Component : h = Deploy[d]
    <3>1. ASSUME NEW q \in Phase, h = Body[q]
          PROVE  FALSE
      <4>1. q \in Node /\ x \in Inner(q) /\ y \in Inner(q)
        BY <1>4, <3>1
      <4> QED
        BY <1>2, <1>6, <4>1, HoldsBranching
    <3> QED
      BY <3>1 DEF Level
  <2>2. g[i] \in ToSet(Deploy[c]) /\ h[l] \in ToSet(Deploy[d]) /\ h[l] \in Phase /\ g[i] \in Phase
    BY <1>6, <2>1, PlanType DEF ToSet
  <2>3. h[l] \in Inner(g[i])
    BY <1>1, <2>2, UnderRoot
  <2>4. h[l] \in DeployOf(c)
    BY <2>2, <2>3 DEF DeployOf
  <2>5. d = c
    BY <2>2, <2>4, Roots
  <2> QED
    BY <1>3, <1>6, <2>1, <2>5
<1> QED
  BY <1>5, <1>6 DEF Level

LEMMA PrecedesMeans ==
  ASSUME NEW r, NEW s, <<r, s>> \in Precedes
  PROVE  \E g : /\ \/ \E c \in Component : g = Deploy[c]
                   \/ \E ph \in Phase \ Parallel : g = Body[ph]
                /\ Level(g)
                /\ \E i, j \in DOMAIN g : i < j /\ r \in StepsBelow[g[i]] /\ s \in StepsBelow[g[j]]
<1>1. ASSUME NEW g, <<r, s>> \in InOrder(g)
      PROVE  \E i, j \in DOMAIN g : i < j /\ r \in StepsBelow[g[i]] /\ s \in StepsBelow[g[j]]
  <2>1. PICK p \in (DOMAIN g) \X (DOMAIN g) :
          p[1] < p[2] /\ <<r, s>> \in StepsBelow[g[p[1]]] \X StepsBelow[g[p[2]]]
    BY <1>1 DEF InOrder
  <2> QED
    BY <2>1
<1>2. CASE \E c \in Component : <<r, s>> \in InOrder(Deploy[c])
  BY <1>1, <1>2 DEF Level
<1>3. CASE \E ph \in Phase \ Parallel : <<r, s>> \in InOrder(Body[ph])
  BY <1>1, <1>3 DEF Level
<1> QED
  BY <1>2, <1>3 DEF Precedes

\* No step twice, and none before one it must follow.
Order == Precedes \cup {<<s, s>> : s \in Step}

\* What is executed level by level is executed in order.
LEMMA LevelsInOrder ==
  ASSUME NEW g, Level(g), NEW i \in DOMAIN g, NEW j \in DOMAIN g, i < j,
         NEW x \in StepsBelow[g[i]], NEW y \in StepsBelow[g[j]]
  PROVE  <<y, x>> \notin Order
<1>1. /\ i # j /\ g[i] \in Node /\ g[j] \in Node /\ Inner(g[i]) \cap Inner(g[j]) = {}
  BY LevelsBranch
<1>2. x \in Inner(g[i]) /\ y \in Inner(g[j]) /\ x # y
  BY <1>1, StepsBelowIs
<1>3. <<y, x>> \notin Precedes
  <2> SUFFICES ASSUME <<y, x>> \in Precedes PROVE FALSE
    OBVIOUS
  <2>1. PICK h : /\ Level(h)
                 /\ \E k, l \in DOMAIN h : k < l /\ y \in StepsBelow[h[k]] /\ x \in StepsBelow[h[l]]
    BY PrecedesMeans
  <2>2. PICK k \in DOMAIN h, l \in DOMAIN h : k < l /\ y \in StepsBelow[h[k]] /\ x \in StepsBelow[h[l]]
    BY <2>1
  <2>3. y \in Inner(h[k]) /\ x \in Inner(h[l])
    BY <2>1, <2>2, LevelsBranch, StepsBelowIs
  <2> QED
    BY <1>2, <2>1, <2>2, <2>3, LevelsAgree
<1> QED
  BY <1>2, <1>3 DEF Order

\* A step comes neither before nor after itself.
LEMMA OrderIsStrict == \A s \in Step : <<s, s>> \notin Precedes
<1> SUFFICES ASSUME NEW s \in Step, <<s, s>> \in Precedes PROVE FALSE
  OBVIOUS
<1>1. PICK h : /\ Level(h)
               /\ \E k, l \in DOMAIN h : k < l /\ s \in StepsBelow[h[k]] /\ s \in StepsBelow[h[l]]
  BY PrecedesMeans
<1>2. PICK k \in DOMAIN h, l \in DOMAIN h : k < l /\ s \in StepsBelow[h[k]] /\ s \in StepsBelow[h[l]]
  BY <1>1
<1> QED
  BY <1>1, <1>2, LevelsBranch, StepsBelowIs

-----------------------------------------------------------------------------
(* What is executed and what is unwound. *)

OkBelow(n) == {s \in StepsBelow[n] : status[s] = "ok"}
OkOf(c) == {s \in StepsOf[c] : status[s] = "ok"}
Dealt(c) == {unwound[c][i].step : i \in DOMAIN unwound[c]}

\* What has ended holds the steps of its that returned, in order; what has not ended
\* holds nothing yet.
ExecHeld ==
  /\ exec \in [Node -> Seq(Step)]
  /\ \A n \in Node : NoBack(Order, exec[n])
  /\ \A n \in Node : ToSet(exec[n]) = IF status[n] \in {"ok", "fail"} THEN OkBelow(n) ELSE {}

\* A phase that succeeded leaves nothing out.
OkEntries == \A ph \in Phase : status[ph] = "ok" => \A n \in Entries(ph) : status[n] = "ok"

\* The deploy phases before the one a component is at have succeeded, and those after
\* it have not begun.
DeploysInTurn ==
  \A c \in Component : ~GivenUp(c) =>
    /\ \A i \in DOMAIN Deploy[c] :
         /\ i < at[c] => status[Deploy[c][i]] = "ok"
         /\ i > at[c] \/ stage[c] = "waiting" => status[Deploy[c][i]] = "waiting"
    /\ stage[c] = "waiting" => at[c] = 1
    /\ stage[c] = "ok" => at[c] > Len(Deploy[c])

\* What a component keeps to unwind is all that it executed in the phases it has left
\* behind, less what it has dealt with; it never deals with a step twice.
Accounts ==
  /\ executed \in [Component -> Seq(Step)] /\ unwound \in [Component -> Seq(UnwindRecord)]
  /\ \A c \in Component :
       /\ NoBack(Order, executed[c])
       /\ ~GivenUp(c) =>
            /\ unwound[c] = <<>>
            /\ \A s : s \in ToSet(executed[c])
                 <=> \E i \in DOMAIN Deploy[c] : i < at[c] /\ s \in OkBelow(Deploy[c][i])
       /\ GivenUp(c) =>
            /\ ToSet(executed[c]) \cap Dealt(c) = {}
            /\ ToSet(executed[c]) \cup Dealt(c) = OkOf(c)
            /\ IsInjective([i \in DOMAIN unwound[c] |-> unwound[c][i].step])
       /\ stage[c] \in {"compensating", "failed"} => executed[c] = <<>>

WorkInv == ExecHeld /\ OkEntries /\ DeploysInTurn /\ Accounts

-----------------------------------------------------------------------------
(* What a step does to the work of the components. *)

work == <<status, exec, executed, unwound>>

StartsNode(n) == Starts(n) /\ UNCHANGED <<exec, executed, unwound>>

\* Steps that leave the work as it is, and at most move a component on.
Rests == UNCHANGED <<work, stage, at>>
StageStep == \/ NextWave
             \/ \E c \in Component :
                  DeployDone(c) \/ UnwindDone(c) \/ RollbackDone(c) \/ AfterRollbackPhase(c)

LEMMA WorkCases ==
  ASSUME [Next]_vars
  PROVE  \/ \E n \in Node : StartsNode(n)
         \/ \E s \in Step : FinishStep(s)
         \/ \E ph \in Phase : SettlePhase(ph)
         \/ \E c \in Component : AfterDeployPhase(c) \/ Unwind(c)
         \/ StageStep
         \/ Rests
<1>1. ASSUME NEW c \in Component, ComponentStep(c)
      PROVE  AfterDeployPhase(c) \/ Unwind(c) \/ StageStep \/ Rests
  BY <1>1 DEF ComponentStep, StageStep, RecordRelease, Rests, work, deploy
<1>2. ASSUME NEW ph \in Phase, StartPhase(ph)
      PROVE  StartsNode(ph) /\ ph \in Node
  BY <1>2, BodyTypes DEF StartPhase, StartsNode, Starts
<1>3. ASSUME NEW s \in Step, StartStep(s)
      PROVE  StartsNode(s) /\ s \in Node
  BY <1>3, BodyTypes DEF StartStep, StartsNode, Starts
<1>4. CASE Select \/ Layer \/ RunFails \/ RunSucceeds \/ RecordingDone \/ UNCHANGED vars
  BY <1>4 DEF Select, Layer, RunFails, RunSucceeds, RecordingDone, vars, deploy, Rests, work
<1>5. CASE NextWave
  BY <1>5 DEF StageStep
<1> QED
  BY <1>1, <1>2, <1>3, <1>4, <1>5 DEF Next, Work, Exited

LEMMA StageStepRests == StageStep => UNCHANGED work
BY DEF StageStep, NextWave, DeployDone, UnwindDone, RollbackDone, AfterRollbackPhase, work

-----------------------------------------------------------------------------
(* What the place of a node says of its status. *)

\* What is nested in a node that has not been entered has not been either.
LEMMA NothingYet ==
  ASSUME PlaceInv, NEW n \in Node, status[n] \in {"waiting", "skipped"}, NEW m \in Inner(n), m # n
  PROVE  status[m] = "waiting"
<1> DEFINE S == {k \in Inner(n) : k = n \/ status[k] = "waiting"}
<1>1. S \in SUBSET Node /\ n \in S
  BY InnerFacts
<1>2. ASSUME NEW ph \in S \cap Phase
      PROVE  Entries(ph) \subseteq S
  <2>1. status[ph] \in {"waiting", "skipped"} /\ ph \in Inner(n)
    OBVIOUS
  <2>2. \A e \in Entries(ph) : status[e] = "waiting"
    BY <2>1 DEF PlaceInv, NotEntered
  <2> QED
    BY <2>1, <2>2, InnerFacts
<1>3. Inner(n) \subseteq S
  <2> HIDE DEF S
  <2> QED
    BY <1>1, <1>2, InnerFacts
<1> QED
  BY <1>3

\* What is nested in one that succeeded has succeeded.
LEMMA AllOk ==
  ASSUME OkEntries, NEW n \in Node, status[n] = "ok", NEW m \in Inner(n)
  PROVE  status[m] = "ok"
<1> DEFINE S == {k \in Inner(n) : status[k] = "ok"}
<1>1. S \in SUBSET Node /\ n \in S
  BY InnerFacts
<1>2. \A ph \in S \cap Phase : Entries(ph) \subseteq S
  BY InnerFacts DEF OkEntries
<1>3. Inner(n) \subseteq S
  <2> HIDE DEF S
  <2> QED
    BY <1>1, <1>2, InnerFacts
<1> QED
  BY <1>3

\* What is nested in one that has ended does not run.
LEMMA NothingLeft ==
  ASSUME PlaceInv, NEW n \in Node, status[n] # "running", NEW m \in Inner(n)
  PROVE  status[m] # "running"
<1>1. m \in Node /\ (m = n \/ n \in Phase)
  BY BodyTypes, InnerFacts
<1>2. CASE m # n
  <2>1. n \in Inside(m)
    BY <1>1, <1>2 DEF Inside
  <2> QED
    BY <1>1, <2>1 DEF PlaceInv, RunningInside
<1> QED
  BY <1>2

\* A phase of a deploy starts or runs when its component is at it.
LEMMA RootAtWork ==
  ASSUME PlaceInv, NEW c \in Component, NEW i \in DOMAIN Deploy[c],
         status[Deploy[c][i]] = "running" \/ Reached(Deploy[c][i])
  PROVE  stage[c] = "deploying" /\ i = at[c]
<1>1. /\ Deploy[c][i] \in ToSet(Deploy[c]) /\ Deploy[c][i] \in Phase /\ Deploy[c][i] \in Node
      /\ IsInjective(Deploy[c])
  BY PlanType, PlaceType, BodyTypes DEF ToSet
<1>2. Deploy[c][i] \in DeployOf(c) /\ Inside(Deploy[c][i]) = {}
  BY <1>1, InnerFacts, Roots DEF DeployOf
<1>3. AtWork(c, Deploy[c][i])
  BY <1>1, <1>2, ReachedAtWork DEF PlaceInv, RunningDeploys
<1> QED
  BY <1>1, <1>2, <1>3 DEF AtWork, IsInjective

\* Only the end of a step changes which steps have returned.
LEMMA StepsOk ==
  ASSUME PlaceInv, (\E n \in Node : StartsNode(n)) \/ (\E ph \in Phase : SettlePhase(ph))
                     \/ UNCHANGED status
  PROVE  /\ \A n \in Node : OkBelow(n)' = OkBelow(n)
         /\ \A c \in Component : OkOf(c)' = OkOf(c)
<1>1. ASSUME NEW s \in Step
      PROVE  status'[s] = "ok" <=> status[s] = "ok"
  <2>1. s \in Node /\ s \notin Phase /\ status \in [Node -> NodeStatus]
    BY BodyTypes DEF PlaceInv, NodeTypes
  <2>2. ASSUME NEW n \in Node, StartsNode(n)
        PROVE  status'[s] = "ok" <=> status[s] = "ok"
    BY <2>1, <2>2 DEF StartsNode, Starts
  <2>3. ASSUME NEW ph \in Phase, SettlePhase(ph)
        PROVE  status'[s] = "ok" <=> status[s] = "ok"
    BY <2>1, <2>3 DEF SettlePhase
  <2> QED
    BY <2>2, <2>3
<1>2. ASSUME NEW n \in Node
      PROVE  OkBelow(n)' = OkBelow(n)
  BY <1>1, StepsBelowIs DEF OkBelow
<1>3. ASSUME NEW c \in Component
      PROVE  OkOf(c)' = OkOf(c)
  BY <1>1, Roots DEF OkOf
<1> QED
  BY <1>2, <1>3

\* The end of a step changes nothing of what has ended.
LEMMA EndedStays ==
  ASSUME PlaceInv, NEW t \in Step, FinishStep(t), NEW n \in Node, status[n] # "running"
  PROVE  OkBelow(n)' = OkBelow(n)
<1>1. status[t] = "running" /\ t \notin StepsBelow[n]
  BY NothingLeft, StepsBelowIs DEF FinishStep
<1>2. \A s \in StepsBelow[n] : status'[s] = status[s]
  <2>1. \A s \in StepsBelow[n] : s \in Node /\ s # t
    BY <1>1, StepsBelowIs, BodyTypes
  <2> QED
    BY <2>1 DEF FinishStep, PlaceInv, NodeTypes
<1> QED
  BY <1>2 DEF OkBelow

-----------------------------------------------------------------------------
(* What has ended holds what it executed. *)

LEMMA CollectedHeld ==
  ASSUME PlaceInv, ExecHeld, NEW ph \in Phase, status[ph] = "running", Settled(ph)
  PROVE  /\ Collected(ph) \in Seq(Step)
         /\ ToSet(Collected(ph)) = OkBelow(ph)
         /\ NoBack(Order, Collected(ph))
<1> DEFINE seqs == [i \in DOMAIN Body[ph] |-> exec[Body[ph][i]]]
<1>1. /\ ph \in Node /\ Level(Body[ph]) /\ DOMAIN Body[ph] = 1..Len(Body[ph]) /\ Len(Body[ph]) \in Nat
      /\ \A i \in DOMAIN Body[ph] : Body[ph][i] \in Entries(ph) /\ Body[ph][i] \in Node
      /\ \A n \in Entries(ph) : \E i \in DOMAIN Body[ph] : n = Body[ph][i]
  BY BodyTypes DEF Level
<1>2. /\ seqs \in Seq(Seq(Step)) /\ DOMAIN seqs = DOMAIN Body[ph]
      /\ \A i \in DOMAIN seqs : seqs[i] = exec[Body[ph][i]]
  BY <1>1 DEF ExecHeld
<1>3. ASSUME NEW e \in Entries(ph)
      PROVE  ToSet(exec[e]) = OkBelow(e)
  <2>1. e \in Node /\ e # ph /\ status[e] \in NodeStatus
    BY EntryTypes DEF PlaceInv, NodeTypes
  <2>2. status[e] # "running"
    <3>1. ph \in Inside(e)
      BY <2>1, Places
    <3> QED
      BY <2>1, <3>1, SettledMeansStill
  <2>3. CASE status[e] \in {"ok", "fail"}
    BY <2>1, <2>3 DEF ExecHeld
  <2>4. CASE status[e] \in {"waiting", "skipped"}
    <3>1. \A s \in StepsBelow[e] : status[s] # "ok"
      BY <2>1, <2>4, NothingYet, StepsBelowIs
    <3> QED
      BY <2>1, <2>4, <3>1 DEF ExecHeld, OkBelow
  <2> QED
    BY <2>1, <2>2, <2>3, <2>4 DEF NodeStatus
<1>4. OkBelow(ph) = UNION {OkBelow(e) : e \in Entries(ph)}
  <2>1. Inner(ph) = {ph} \cup UNION {Inner(e) : e \in Entries(ph)}
    BY <1>1, InnerFacts
  <2>2. ASSUME NEW s
        PROVE  s \in StepsBelow[ph] <=> \E e \in Entries(ph) : s \in StepsBelow[e]
    <3>1. ph \notin Step /\ StepsBelow[ph] = Step \cap Inner(ph)
      BY <1>1, StepsBelowIs, BodyTypes
    <3>2. \A e \in Entries(ph) : StepsBelow[e] = Step \cap Inner(e)
      BY StepsBelowIs, BodyTypes
    <3> QED
      BY <2>1, <3>1, <3>2
  <2> QED
    BY <2>2 DEF OkBelow
<1>5. UNION {ToSet(seqs[i]) : i \in DOMAIN seqs} = OkBelow(ph)
  <2>1. \A i \in DOMAIN seqs : ToSet(seqs[i]) = OkBelow(Body[ph][i])
    BY <1>1, <1>2, <1>3
  <2>2. \A x : x \in UNION {ToSet(seqs[i]) : i \in DOMAIN seqs}
                 <=> \E i \in DOMAIN seqs : x \in ToSet(seqs[i])
    OBVIOUS
  <2>3. \A x : x \in OkBelow(ph) <=> \E e \in Entries(ph) : x \in OkBelow(e)
    BY <1>4
  <2> HIDE DEF seqs
  <2> QED
    BY <1>1, <1>2, <2>1, <2>2, <2>3
<1>6. ASSUME NEW i \in DOMAIN seqs, NEW j \in DOMAIN seqs, i < j,
             NEW x \in ToSet(seqs[i]), NEW y \in ToSet(seqs[j])
      PROVE  <<y, x>> \notin Order
  <2>1. x \in StepsBelow[Body[ph][i]] /\ y \in StepsBelow[Body[ph][j]]
    BY <1>1, <1>2, <1>3 DEF OkBelow
  <2> QED
    BY <1>1, <1>2, <1>6, <2>1, LevelsInOrder
<1>7. \A i \in DOMAIN seqs : NoBack(Order, seqs[i])
  BY <1>1, <1>2 DEF ExecHeld
<1>8. Collected(ph) = FlattenSeq(seqs)
  BY DEF Collected
<1>9. ASSUME NEW q, q = seqs
      PROVE  /\ FlattenSeq(q) \in Seq(Step)
             /\ ToSet(FlattenSeq(q)) = UNION {ToSet(q[i]) : i \in DOMAIN q}
             /\ NoBack(Order, FlattenSeq(q))
  <2>1. /\ q \in Seq(Seq(Step))
        /\ \A i \in DOMAIN q : NoBack(Order, q[i])
        /\ \A i, j \in DOMAIN q : i < j =>
             \A x \in ToSet(q[i]), y \in ToSet(q[j]) : <<y, x>> \notin Order
    <3> HIDE DEF seqs
    <3> QED
      BY <1>2, <1>6, <1>7, <1>9
  <2> QED
    BY <2>1, Flattened
<1> HIDE DEF seqs
<1> QED
  BY <1>5, <1>8, <1>9

LEMMA ExecStep ==
  ASSUME PlaceInv, ExecHeld, [Next]_vars
  PROVE  ExecHeld'
<1>0. status \in [Node -> NodeStatus] /\ Step \subseteq Node /\ Phase \subseteq Node
  BY BodyTypes DEF PlaceInv, NodeTypes
<1>1. ASSUME NEW n \in Node, StartsNode(n)
      PROVE  ExecHeld'
  <2>1. \A m \in Node : OkBelow(m)' = OkBelow(m)
    BY <1>1, StepsOk
  <2>2. /\ UNCHANGED exec
        /\ \A m \in Node : status'[m] \in {"ok", "fail"} <=> status[m] \in {"ok", "fail"}
    BY <1>0, <1>1 DEF StartsNode, Starts
  <2> QED
    BY <2>1, <2>2 DEF ExecHeld
<1>2. ASSUME NEW t \in Step, FinishStep(t)
      PROVE  ExecHeld'
  <2>1. /\ t \in Node /\ status[t] = "running" /\ exec \in [Node -> Seq(Step)]
        /\ \/ status' = [status EXCEPT ![t] = "ok"] /\ exec' = [exec EXCEPT ![t] = <<t>>]
           \/ status' = [status EXCEPT ![t] = "fail"] /\ UNCHANGED exec
    BY <1>0, <1>2 DEF FinishStep, ExecHeld
  <2>2. ASSUME NEW m \in Node, m # t
        PROVE  /\ exec'[m] = exec[m] /\ status'[m] = status[m]
               /\ status[m] \in {"ok", "fail"} => OkBelow(m)' = OkBelow(m)
    BY <1>0, <1>2, <2>1, <2>2, EndedStays
  <2>3. StepsBelow[t] = {t}
    BY <1>0, StepsBelowIs, InnerFacts
  <2>4. /\ exec'[t] \in Seq(Step) /\ NoBack(Order, exec'[t])
        /\ status'[t] \in {"ok", "fail"} /\ ToSet(exec'[t]) = OkBelow(t)'
    <3>1. CASE status' = [status EXCEPT ![t] = "ok"] /\ exec' = [exec EXCEPT ![t] = <<t>>]
      <4>1. exec'[t] = <<t>> /\ status'[t] = "ok"
        BY <1>0, <2>1, <3>1
      <4>2. OkBelow(t)' = {t}
        BY <2>3, <4>1 DEF OkBelow
      <4> QED
        BY <4>1, <4>2 DEF ToSet, NoBack
    <3>2. CASE status' = [status EXCEPT ![t] = "fail"] /\ UNCHANGED exec
      <4>1. exec'[t] = exec[t] /\ status'[t] = "fail" /\ ToSet(exec[t]) = {}
        BY <1>0, <2>1, <3>2 DEF ExecHeld
      <4>2. OkBelow(t)' = {}
        BY <2>3, <4>1 DEF OkBelow
      <4> QED
        BY <2>1, <4>1, <4>2 DEF ExecHeld
    <3> QED
      BY <2>1, <3>1, <3>2
  <2>5. exec' \in [Node -> Seq(Step)]
    <3>1. <<t>> \in Seq(Step)
      OBVIOUS
    <3> QED
      BY <2>1, <3>1
  <2>6. \A m \in Node : NoBack(Order, exec'[m])
    BY <2>2, <2>4 DEF ExecHeld
  <2>7. ASSUME NEW m \in Node
        PROVE  ToSet(exec'[m]) = IF status'[m] \in {"ok", "fail"} THEN OkBelow(m)' ELSE {}
    BY <2>2, <2>4 DEF ExecHeld
  <2> QED
    BY <2>5, <2>6, <2>7 DEF ExecHeld
<1>3. ASSUME NEW ph \in Phase, SettlePhase(ph)
      PROVE  ExecHeld'
  <2>1. \A m \in Node : OkBelow(m)' = OkBelow(m)
    BY <1>3, StepsOk
  <2>2. /\ ph \in Node /\ status[ph] = "running" /\ Settled(ph)
        /\ exec' = [exec EXCEPT ![ph] = Collected(ph)]
        /\ status'[ph] \in {"ok", "fail"}
        /\ \A m \in Node \ {ph} : status'[m] \in {"ok", "fail"} <=> status[m] \in {"ok", "fail"}
    BY <1>0, <1>3 DEF SettlePhase
  <2>3. /\ Collected(ph) \in Seq(Step) /\ NoBack(Order, Collected(ph))
        /\ ToSet(Collected(ph)) = OkBelow(ph)
    BY <2>2, CollectedHeld
  <2> HIDE DEF ExecHeld
  <2>4. /\ exec' \in [Node -> Seq(Step)] /\ exec'[ph] = Collected(ph)
        /\ \A m \in Node \ {ph} : exec'[m] = exec[m]
    BY <2>2, <2>3 DEF ExecHeld
  <2>5. \A m \in Node : NoBack(Order, exec'[m])
    BY <2>3, <2>4 DEF ExecHeld
  <2>6. ASSUME NEW m \in Node
        PROVE  ToSet(exec'[m]) = IF status'[m] \in {"ok", "fail"} THEN OkBelow(m)' ELSE {}
    BY <2>1, <2>2, <2>3, <2>4 DEF ExecHeld
  <2> QED
    BY <2>4, <2>5, <2>6 DEF ExecHeld
<1>4. CASE UNCHANGED <<status, exec>>
  BY <1>4 DEF ExecHeld, OkBelow
<1> QED
  BY <1>1, <1>2, <1>3, <1>4, WorkCases, StageStepRests DEF AfterDeployPhase, Unwind, Rests, work

LEMMA OkEntriesStep ==
  ASSUME PlaceInv, OkEntries, [Next]_vars
  PROVE  OkEntries'
<1>0. /\ status \in [Node -> NodeStatus] /\ Step \subseteq Node /\ Phase \subseteq Node
      /\ Step \cap Phase = {} /\ \A ph \in Phase : Entries(ph) \subseteq Node
  BY BodyTypes DEF PlaceInv, NodeTypes
<1>1. ASSUME NEW n \in Node, StartsNode(n)
      PROVE  OkEntries'
  BY <1>0, <1>1 DEF StartsNode, Starts, OkEntries
<1>2. ASSUME NEW t \in Step, FinishStep(t)
      PROVE  OkEntries'
  BY <1>0, <1>2 DEF FinishStep, OkEntries
<1>3. ASSUME NEW ph \in Phase, SettlePhase(ph)
      PROVE  OkEntries'
  <2>1. /\ status[ph] = "running" /\ Settled(ph)
        /\ \A m \in Node : status[m] = "ok" => status'[m] = "ok"
        /\ \A q \in Phase \ {ph} : status'[q] = "ok" => status[q] = "ok"
        /\ status'[ph] = "ok" => ~Failed(ph)
    BY <1>0, <1>3 DEF SettlePhase
  <2>2. ASSUME status'[ph] = "ok", NEW e \in Entries(ph)
        PROVE  status'[e] = "ok"
    BY <1>0, <2>1, <2>2 DEF Settled, Failed
  <2> QED
    BY <1>0, <2>1, <2>2 DEF OkEntries
<1>4. CASE UNCHANGED status
  BY <1>4 DEF OkEntries
<1> QED
  BY <1>1, <1>2, <1>3, <1>4, WorkCases, StageStepRests DEF AfterDeployPhase, Unwind, Rests, work

\* The members of a wave that starts have not begun.
LEMMA DeploysInTurnStep ==
  ASSUME WaveInv, PlaceInv, DeploysInTurn, [Next]_vars
  PROVE  DeploysInTurn'
<1>0. /\ status \in [Node -> NodeStatus] /\ Step \cap Phase = {}
      /\ stage \in [Component -> Stage] /\ at \in [Component -> Nat \ {0}]
  BY BodyTypes DEF PlaceInv, NodeTypes
<1>a. ASSUME NEW c \in Component
      PROVE  /\ Deploy[c] \in Seq(Phase) /\ DOMAIN Deploy[c] = 1..Len(Deploy[c]) /\ Len(Deploy[c]) \in Nat
             /\ \A i \in DOMAIN Deploy[c] :
                  /\ Deploy[c][i] \in Phase /\ Deploy[c][i] \in Node
                  /\ \A ph \in Phase : Deploy[c][i] \notin Entries(ph)
  <2>1. Deploy[c] \in Seq(Phase)
    BY PlanType
  <2>2. \A i \in DOMAIN Deploy[c] : Deploy[c][i] \in ToSet(Deploy[c])
    BY DEF ToSet
  <2> QED
    BY <2>1, <2>2, PlaceType, BodyTypes
<1>b. ASSUME UNCHANGED <<stage, at>>,
             \A c \in Component : \A i \in DOMAIN Deploy[c] :
               \/ status'[Deploy[c][i]] = status[Deploy[c][i]]
               \/ stage[c] = "deploying" /\ i = at[c]
      PROVE  DeploysInTurn'
  <2> SUFFICES ASSUME NEW c \in Component, ~GivenUp(c)'
               PROVE  /\ \A i \in DOMAIN Deploy[c] :
                           /\ i < at[c] => status'[Deploy[c][i]] = "ok"
                           /\ i > at[c] \/ stage[c] = "waiting" => status'[Deploy[c][i]] = "waiting"
                      /\ stage[c] = "waiting" => at[c] = 1
                      /\ stage[c] = "ok" => at[c] > Len(Deploy[c])
    BY <1>b DEF DeploysInTurn
  <2>1. ~GivenUp(c)
    BY <1>b DEF GivenUp
  <2>2. \A i \in DOMAIN Deploy[c] : i \in Nat /\ at[c] \in Nat
    BY <1>0, <1>a
  <2> QED
    BY <1>b, <2>1, <2>2 DEF DeploysInTurn
<1>1. ASSUME NEW n \in Node, StartsNode(n)
      PROVE  DeploysInTurn'
  <2>1. ASSUME NEW c \in Component, NEW i \in DOMAIN Deploy[c]
        PROVE  \/ status'[Deploy[c][i]] = status[Deploy[c][i]]
               \/ stage[c] = "deploying" /\ i = at[c]
    BY <1>0, <1>a, <1>1, RootAtWork DEF StartsNode, Starts
  <2> QED
    BY <1>1, <1>b, <2>1 DEF StartsNode, Starts
<1>2. ASSUME NEW t \in Step, FinishStep(t)
      PROVE  DeploysInTurn'
  <2>1. ASSUME NEW c \in Component, NEW i \in DOMAIN Deploy[c]
        PROVE  status'[Deploy[c][i]] = status[Deploy[c][i]]
    BY <1>0, <1>a, <1>2 DEF FinishStep
  <2> QED
    BY <1>2, <1>b, <2>1 DEF FinishStep
<1>3. ASSUME NEW ph \in Phase, SettlePhase(ph)
      PROVE  DeploysInTurn'
  <2>1. ASSUME NEW c \in Component, NEW i \in DOMAIN Deploy[c]
        PROVE  \/ status'[Deploy[c][i]] = status[Deploy[c][i]]
               \/ stage[c] = "deploying" /\ i = at[c]
    <3>1. CASE Deploy[c][i] = ph
      BY <1>3, <3>1, RootAtWork DEF SettlePhase
    <3>2. CASE Deploy[c][i] # ph
      BY <1>3, <1>a, <3>2 DEF SettlePhase
    <3> QED
      BY <3>1, <3>2
  <2> QED
    BY <1>3, <1>b, <2>1 DEF SettlePhase
<1>4. ASSUME NEW c \in Component, AfterDeployPhase(c)
      PROVE  DeploysInTurn'
  <2>1. /\ stage[c] = "deploying" /\ at[c] \in DOMAIN Deploy[c] /\ UNCHANGED status
        /\ \/ /\ status[Deploy[c][at[c]]] = "ok" /\ UNCHANGED stage
              /\ at' = [at EXCEPT ![c] = at[c] + 1]
           \/ at' = [at EXCEPT ![c] = 1] /\ stage' = [stage EXCEPT ![c] = "unwinding"]
    BY <1>0, <1>4, <1>a DEF AfterDeployPhase, Current, Plan
  <2>2. ASSUME NEW d \in Component, ~GivenUp(d)'
        PROVE  /\ \A i \in DOMAIN Deploy[d] :
                    /\ i < at'[d] => status[Deploy[d][i]] = "ok"
                    /\ i > at'[d] \/ stage'[d] = "waiting" => status[Deploy[d][i]] = "waiting"
               /\ stage'[d] = "waiting" => at'[d] = 1
               /\ stage'[d] = "ok" => at'[d] > Len(Deploy[d])
    <3>1. CASE d # c
      <4>1. stage'[d] = stage[d] /\ at'[d] = at[d] /\ ~GivenUp(d)
        BY <1>0, <2>1, <2>2, <3>1 DEF GivenUp
      <4> QED
        BY <4>1 DEF DeploysInTurn
    <3>2. CASE d = c
      <4>1. stage'[c] # "unwinding"
        BY <2>2, <3>2 DEF GivenUp
      <4>2. /\ status[Deploy[c][at[c]]] = "ok" /\ stage'[c] = "deploying" /\ at'[c] = at[c] + 1
        BY <1>0, <2>1, <4>1
      <4>3. /\ \A i \in DOMAIN Deploy[c] : i < at[c] => status[Deploy[c][i]] = "ok"
            /\ \A i \in DOMAIN Deploy[c] : i > at[c] => status[Deploy[c][i]] = "waiting"
        BY <2>1 DEF DeploysInTurn, GivenUp
      <4>4. \A i \in DOMAIN Deploy[c] : i \in Nat /\ at[c] \in Nat
        BY <1>0, <1>a
      <4> QED
        BY <3>2, <4>2, <4>3, <4>4
    <3> QED
      BY <3>1, <3>2
  <2> QED
    BY <2>1, <2>2 DEF DeploysInTurn
<1>5. CASE NextWave
  <2>1. /\ UNCHANGED <<status, at>>
        /\ stage' = [c \in Component |-> IF c \in waves[wave'] THEN "deploying" ELSE stage[c]]
    BY <1>5 DEF NextWave
  <2>2. ASSUME NEW c \in Component
        PROVE  stage'[c] = stage[c] \/ (stage[c] = "waiting" /\ stage'[c] = "deploying")
    BY <1>5, <2>1, NextWaveFresh
  <2> QED
    BY <1>0, <2>1, <2>2 DEF DeploysInTurn, GivenUp
<1>6. ASSUME NEW c \in Component, DeployDone(c)
      PROVE  DeploysInTurn'
  BY <1>0, <1>6, <1>a DEF DeployDone, Plan, DeploysInTurn, GivenUp
<1>7. ASSUME NEW c \in Component, UnwindDone(c) \/ RollbackDone(c) \/ AfterRollbackPhase(c)
      PROVE  DeploysInTurn'
  <2>1. /\ UNCHANGED status /\ GivenUp(c) /\ GivenUp(c)'
        /\ \A d \in Component \ {c} : stage'[d] = stage[d] /\ at'[d] = at[d]
    BY <1>0, <1>7 DEF UnwindDone, RollbackDone, AfterRollbackPhase, GivenUp
  <2> QED
    BY <2>1 DEF DeploysInTurn, GivenUp
<1>8. CASE UNCHANGED <<status, stage, at>>
  BY <1>8 DEF DeploysInTurn, GivenUp
<1> QED
  BY <1>1, <1>2, <1>3, <1>4, <1>5, <1>6, <1>7, <1>8, WorkCases DEF StageStep, Unwind, Rests, work

-----------------------------------------------------------------------------
(* What is executed is accounted for. *)

\* The steps of a component that gave up are those of the phases it has been at.
LEMMA OkOfParts ==
  ASSUME PlaceInv, NEW c \in Component, NEW k \in DOMAIN Deploy[c],
         \A i \in DOMAIN Deploy[c] : i > k => status[Deploy[c][i]] = "waiting"
  PROVE  \A s : s \in OkOf(c) <=> \E i \in DOMAIN Deploy[c] : i <= k /\ s \in OkBelow(Deploy[c][i])
<1>1. /\ \A i \in DOMAIN Deploy[c] : Deploy[c][i] \in Phase /\ Deploy[c][i] \in Node
      /\ \A i \in DOMAIN Deploy[c] : i \in Int /\ k \in Int
  BY PlanType, BodyTypes
<1>2. \A s : s \in StepsOf[c] <=> \E i \in DOMAIN Deploy[c] : s \in StepsBelow[Deploy[c][i]]
  BY DEF StepsOf, ToSet
<1>3. ASSUME NEW i \in DOMAIN Deploy[c], i > k, NEW s \in StepsBelow[Deploy[c][i]]
      PROVE  status[s] # "ok"
  <2>1. s \in Step /\ s \in Inner(Deploy[c][i]) /\ s # Deploy[c][i]
    BY <1>1, StepsBelowIs, BodyTypes
  <2> QED
    BY <1>1, <1>3, <2>1, NothingYet
<1> QED
  BY <1>1, <1>2, <1>3 DEF OkOf, OkBelow

LEMMA AccountsKept ==
  ASSUME Accounts, UNCHANGED <<executed, unwound, stage, at>>,
         \A c \in Component : GivenUp(c) => OkOf(c)' = OkOf(c),
         \A c \in Component : ~GivenUp(c) =>
           \A i \in DOMAIN Deploy[c] : i < at[c] => OkBelow(Deploy[c][i])' = OkBelow(Deploy[c][i])
  PROVE  Accounts'
<1>1. \A c \in Component : GivenUp(c)' = GivenUp(c) /\ Dealt(c)' = Dealt(c)
  BY DEF GivenUp, Dealt
<1> SUFFICES ASSUME NEW c \in Component
             PROVE  /\ NoBack(Order, executed[c])
                    /\ ~GivenUp(c) =>
                         /\ unwound[c] = <<>>
                         /\ \A s : s \in ToSet(executed[c])
                              <=> \E i \in DOMAIN Deploy[c] : i < at[c] /\ s \in OkBelow(Deploy[c][i])'
                    /\ GivenUp(c) =>
                         /\ ToSet(executed[c]) \cap Dealt(c) = {}
                         /\ ToSet(executed[c]) \cup Dealt(c) = OkOf(c)'
                         /\ IsInjective([i \in DOMAIN unwound[c] |-> unwound[c][i].step])
                    /\ stage[c] \in {"compensating", "failed"} => executed[c] = <<>>
  BY <1>1 DEF Accounts
<1>2. CASE GivenUp(c)
  BY <1>2 DEF Accounts
<1>3. CASE ~GivenUp(c)
  <2>1. /\ NoBack(Order, executed[c]) /\ unwound[c] = <<>>
        /\ \A s : s \in ToSet(executed[c])
             <=> \E i \in DOMAIN Deploy[c] : i < at[c] /\ s \in OkBelow(Deploy[c][i])
        /\ stage[c] \in {"compensating", "failed"} => executed[c] = <<>>
    BY <1>3 DEF Accounts
  <2>2. \A i \in DOMAIN Deploy[c] :
          i < at[c] => OkBelow(Deploy[c][i])' = OkBelow(Deploy[c][i])
    BY <1>3
  <2>3. ASSUME NEW s
        PROVE  s \in ToSet(executed[c])
                 <=> \E i \in DOMAIN Deploy[c] : i < at[c] /\ s \in OkBelow(Deploy[c][i])'
    BY <2>1, <2>2
  <2> QED
    BY <1>3, <2>1, <2>3
<1> QED
  BY <1>2, <1>3

\* What is accounted for a component is a matter of that component.
AccountOf(c) ==
  /\ NoBack(Order, executed[c])
  /\ ~GivenUp(c) =>
       /\ unwound[c] = <<>>
       /\ \A s : s \in ToSet(executed[c])
            <=> \E i \in DOMAIN Deploy[c] : i < at[c] /\ s \in OkBelow(Deploy[c][i])
  /\ GivenUp(c) =>
       /\ ToSet(executed[c]) \cap Dealt(c) = {}
       /\ ToSet(executed[c]) \cup Dealt(c) = OkOf(c)
       /\ IsInjective([i \in DOMAIN unwound[c] |-> unwound[c][i].step])
  /\ stage[c] \in {"compensating", "failed"} => executed[c] = <<>>

LEMMA AccountOfOne ==
  ASSUME Accounts, UNCHANGED status, NEW c \in Component, AccountOf(c)',
         executed' \in [Component -> Seq(Step)], unwound' \in [Component -> Seq(UnwindRecord)],
         \A d \in Component \ {c} : /\ executed'[d] = executed[d] /\ unwound'[d] = unwound[d]
                                    /\ stage'[d] = stage[d] /\ at'[d] = at[d]
  PROVE  Accounts'
<1>1. ASSUME NEW d \in Component \ {c}
      PROVE  AccountOf(d)'
  <2>1. AccountOf(d)
    BY DEF Accounts, AccountOf
  <2>2. /\ executed'[d] = executed[d] /\ unwound'[d] = unwound[d]
        /\ stage'[d] = stage[d] /\ at'[d] = at[d]
    OBVIOUS
  <2>3. GivenUp(d)' = GivenUp(d) /\ Dealt(d)' = Dealt(d) /\ OkOf(d)' = OkOf(d)
    BY <2>2 DEF GivenUp, Dealt, OkOf
  <2>4. \A n : OkBelow(n)' = OkBelow(n)
    BY DEF OkBelow
  <2> QED
    BY <2>1, <2>2, <2>3, <2>4 DEF AccountOf
<1>2. \A d \in Component : AccountOf(d)'
  BY <1>1
<1> QED
  BY <1>2 DEF Accounts, AccountOf

LEMMA AfterDeployPhaseAccounts ==
  ASSUME PlaceInv, WorkInv, NEW c \in Component, AfterDeployPhase(c)
  PROVE  Accounts'
<1> DEFINE k == at[c]
           ph == Deploy[c][k]
<1>1. /\ stage \in [Component -> Stage] /\ at \in [Component -> Nat \ {0}]
      /\ executed \in [Component -> Seq(Step)] /\ unwound \in [Component -> Seq(UnwindRecord)]
      /\ exec \in [Node -> Seq(Step)]
  BY DEF PlaceInv, NodeTypes, WorkInv, Accounts, ExecHeld
<1>2. /\ stage[c] = "deploying" /\ k \in DOMAIN Deploy[c] /\ ph \in Phase /\ ph \in Node
      /\ status[ph] \in {"ok", "fail"} /\ UNCHANGED <<status, unwound>>
      /\ executed' = [executed EXCEPT ![c] = executed[c] \o exec[ph]]
      /\ \/ stage' = stage /\ at' = [at EXCEPT ![c] = k + 1]
         \/ at' = [at EXCEPT ![c] = 1] /\ stage' = [stage EXCEPT ![c] = "unwinding"]
  <2>1. Deploy[c] \in Seq(Phase)
    BY PlanType
  <2>2. Plan(c) = Deploy[c] /\ Current(c) = Deploy[c][at[c]] /\ stage[c] = "deploying"
    BY DEF AfterDeployPhase, Current, Plan
  <2>3. at[c] \in DOMAIN Deploy[c] /\ ph \in Phase
    BY <1>1, <2>1, <2>2 DEF AfterDeployPhase
  <2> QED
    BY <2>2, <2>3, BodyTypes DEF AfterDeployPhase
<1>3. /\ \A i \in DOMAIN Deploy[c] : i \in Int
      /\ k \in Nat /\ k \in Int
      /\ \A i \in DOMAIN Deploy[c] : i > k => status[Deploy[c][i]] = "waiting"
      /\ ~GivenUp(c)
  <2>1. Deploy[c] \in Seq(Phase)
    BY PlanType
  <2>2. ~GivenUp(c)
    BY <1>2 DEF GivenUp
  <2>3. \A i \in DOMAIN Deploy[c] : i > k => status[Deploy[c][i]] = "waiting"
    BY <2>2 DEF WorkInv, DeploysInTurn
  <2>4. \A i \in DOMAIN Deploy[c] : i \in Int
    BY <2>1
  <2> QED
    BY <1>1, <2>2, <2>3, <2>4
<1>4. /\ NoBack(Order, executed[c]) /\ unwound[c] = <<>>
      /\ \A s : s \in ToSet(executed[c])
           <=> \E i \in DOMAIN Deploy[c] : i < k /\ s \in OkBelow(Deploy[c][i])
  BY <1>3 DEF WorkInv, Accounts
<1>5. exec[ph] \in Seq(Step) /\ NoBack(Order, exec[ph]) /\ ToSet(exec[ph]) = OkBelow(ph)
  BY <1>1, <1>2 DEF WorkInv, ExecHeld
<1>6. ASSUME NEW x \in ToSet(executed[c]), NEW y \in ToSet(exec[ph])
      PROVE  <<y, x>> \notin Order
  <2>1. PICK i \in DOMAIN Deploy[c] : i < k /\ x \in StepsBelow[Deploy[c][i]]
    BY <1>4 DEF OkBelow
  <2>2. y \in StepsBelow[Deploy[c][k]]
    BY <1>5 DEF OkBelow
  <2>3. Level(Deploy[c])
    BY DEF Level
  <2> QED
    BY <1>2, <2>1, <2>2, <2>3, LevelsInOrder
<1>7. /\ executed[c] \o exec[ph] \in Seq(Step) /\ NoBack(Order, executed[c] \o exec[ph])
      /\ ToSet(executed[c] \o exec[ph]) = ToSet(executed[c]) \cup ToSet(exec[ph])
  <2>1. ASSUME NEW e \in Seq(Step), NEW f \in Seq(Step), e = executed[c], f = exec[ph]
        PROVE  /\ e \o f \in Seq(Step) /\ NoBack(Order, e \o f)
               /\ ToSet(e \o f) = ToSet(e) \cup ToSet(f)
    <3>1. /\ NoBack(Order, e) /\ NoBack(Order, f)
          /\ \A x \in ToSet(e), y \in ToSet(f) : <<y, x>> \notin Order
      BY <1>4, <1>5, <1>6, <2>1
    <3> QED
      BY <3>1, Concatenated
  <2>2. executed[c] \in Seq(Step)
    BY <1>1
  <2> HIDE DEF k, ph
  <2> QED
    BY <1>5, <2>1, <2>2
<1>8. ASSUME NEW s
      PROVE  s \in ToSet(executed[c] \o exec[ph])
               <=> \E i \in DOMAIN Deploy[c] : i <= k /\ s \in OkBelow(Deploy[c][i])
  <2> HIDE DEF k
  <2>1. s \in ToSet(executed[c] \o exec[ph])
          <=> s \in OkBelow(Deploy[c][k])
              \/ \E i \in DOMAIN Deploy[c] : i < k /\ s \in OkBelow(Deploy[c][i])
    BY <1>4, <1>5, <1>7
  <2>2. \A i \in DOMAIN Deploy[c] : i <= k <=> i < k \/ i = k
    BY <1>3
  <2>3. k \in DOMAIN Deploy[c]
    BY <1>2
  <2> QED
    BY <2>1, <2>2, <2>3
<1>9. /\ executed' \in [Component -> Seq(Step)] /\ executed'[c] = executed[c] \o exec[ph]
      /\ \A n : OkBelow(n)' = OkBelow(n)
      /\ OkOf(c)' = OkOf(c) /\ Dealt(c)' = {} /\ unwound'[c] = <<>>
  <2>1. executed' \in [Component -> Seq(Step)] /\ executed'[c] = executed[c] \o exec[ph]
    <3> HIDE DEF ph
    <3> QED
      BY <1>1, <1>2, <1>7
  <2>2. (\A n : OkBelow(n)' = OkBelow(n)) /\ OkOf(c)' = OkOf(c) /\ Dealt(c)' = {} /\ unwound'[c] = <<>>
    BY <1>2, <1>4 DEF OkBelow, OkOf, Dealt
  <2> QED
    BY <2>1, <2>2
<1>10. CASE stage' = stage /\ at' = [at EXCEPT ![c] = k + 1]
  <2>1. at'[c] = k + 1 /\ stage'[c] = "deploying" /\ ~GivenUp(c)'
    BY <1>1, <1>2, <1>10 DEF GivenUp
  <2>2. \A i \in DOMAIN Deploy[c] : i < k + 1 <=> i <= k
    BY <1>3
  <2>3. AccountOf(c)'
    <3> HIDE DEF k, ph
    <3>1. \A s : s \in ToSet(executed'[c])
            <=> \E i \in DOMAIN Deploy[c] : i < at'[c] /\ s \in OkBelow(Deploy[c][i])'
      BY <1>8, <1>9, <2>1, <2>2
    <3>2. NoBack(Order, executed'[c])
      BY <1>7, <1>9
    <3> QED
      BY <1>9, <2>1, <3>1, <3>2 DEF AccountOf
  <2>4. \A d \in Component \ {c} : /\ executed'[d] = executed[d] /\ unwound'[d] = unwound[d]
                                   /\ stage'[d] = stage[d] /\ at'[d] = at[d]
    BY <1>1, <1>2, <1>10
  <2> QED
    BY <1>1, <1>2, <1>9, <2>3, <2>4, AccountOfOne DEF WorkInv
<1>11. CASE at' = [at EXCEPT ![c] = 1] /\ stage' = [stage EXCEPT ![c] = "unwinding"]
  <2>1. stage'[c] = "unwinding" /\ GivenUp(c)'
    BY <1>1, <1>11 DEF GivenUp
  <2>2. \A s : s \in OkOf(c) <=> \E i \in DOMAIN Deploy[c] : i <= k /\ s \in OkBelow(Deploy[c][i])
    <3>1. ASSUME NEW j \in DOMAIN Deploy[c], j = k
          PROVE  \A s : s \in OkOf(c) <=> \E i \in DOMAIN Deploy[c] : i <= j /\ s \in OkBelow(Deploy[c][i])
      <4>1. \A i \in DOMAIN Deploy[c] : i > j => status[Deploy[c][i]] = "waiting"
        BY <1>3, <3>1
      <4> QED
        BY <4>1, OkOfParts
    <3> HIDE DEF k
    <3> QED
      BY <1>2, <3>1
  <2>3. AccountOf(c)'
    <3> HIDE DEF k, ph
    <3>1. ToSet(executed'[c]) = OkOf(c)'
      <4>1. \A s : s \in ToSet(executed[c] \o exec[Deploy[c][k]]) <=> s \in OkOf(c)
        BY <1>8, <2>2 DEF ph
      <4>2. ToSet(executed[c] \o exec[Deploy[c][k]]) = OkOf(c)
        <5>1. \A s \in ToSet(executed[c] \o exec[Deploy[c][k]]) : s \in OkOf(c)
          BY <4>1
        <5>2. \A s \in OkOf(c) : s \in ToSet(executed[c] \o exec[Deploy[c][k]])
          BY <4>1
        <5> QED
          BY <5>1, <5>2
      <4> QED
        BY <1>9, <4>2 DEF ph
    <3>2. NoBack(Order, executed'[c])
      BY <1>7, <1>9
    <3>3. IsInjective([i \in DOMAIN unwound'[c] |-> unwound'[c][i].step])
      BY <1>9 DEF IsInjective
    <3> QED
      BY <1>9, <2>1, <3>1, <3>2, <3>3 DEF AccountOf
  <2>4. \A d \in Component \ {c} : /\ executed'[d] = executed[d] /\ unwound'[d] = unwound[d]
                                   /\ stage'[d] = stage[d] /\ at'[d] = at[d]
    BY <1>1, <1>2, <1>11
  <2> QED
    BY <1>1, <1>2, <1>9, <2>3, <2>4, AccountOfOne DEF WorkInv
<1> QED
  BY <1>2, <1>10, <1>11

\* The last step of those kept is dealt with, and is gone from them.
LEMMA UnwoundLast ==
  ASSUME Accounts, NEW c \in Component, Unwind(c), GivenUp(c)
  PROVE  /\ UnwindNext(c) \in ToSet(executed[c]) /\ UnwindNext(c) \in Step
         /\ executed'[c] \in Seq(Step) /\ NoBack(Order, executed'[c])
         /\ ToSet(executed'[c]) = ToSet(executed[c]) \ {UnwindNext(c)}
         /\ \A s \in ToSet(executed[c]) : <<UnwindNext(c), s>> \notin Precedes
<1> DEFINE e == executed[c]
           n == Len(e)
<1>1. /\ e \in Seq(Step) /\ e # <<>> /\ NoBack(Order, e) /\ executed'[c] = Front(e)
      /\ UnwindNext(c) = e[n]
  BY DEF Accounts, Unwind, UnwindNext, Last
<1>2. /\ n \in Nat /\ n \in DOMAIN e /\ DOMAIN e = 1..n /\ e[n] \in Step
      /\ Front(e) \in Seq(Step) /\ Len(Front(e)) = n - 1
      /\ DOMAIN Front(e) = 1..(n - 1)
      /\ \A i \in 1..(n - 1) : Front(e)[i] = e[i] /\ i \in DOMAIN e
  BY <1>1 DEF Front
<1> HIDE DEF e, n
<1>3. \A i \in 1..(n - 1) : <<e[n], e[i]>> \notin Order /\ i < n
  BY <1>1, <1>2 DEF NoBack
<1>4. \A i \in 1..(n - 1) : e[i] # e[n]
  BY <1>2, <1>3 DEF Order
<1>5. \A i \in DOMAIN e : i = n \/ i \in 1..(n - 1)
  BY <1>2
<1>6. ToSet(Front(e)) = ToSet(e) \ {e[n]}
  BY <1>2, <1>4, <1>5 DEF ToSet
<1>7. NoBack(Order, Front(e))
  BY <1>1, <1>2 DEF NoBack
<1>8. ASSUME NEW s \in ToSet(e)
      PROVE  <<e[n], s>> \notin Precedes
  <2>1. PICK i \in DOMAIN e : s = e[i]
    BY DEF ToSet
  <2>2. CASE i = n
    BY <1>2, <2>1, <2>2, OrderIsStrict
  <2>3. CASE i \in 1..(n - 1)
    BY <1>3, <2>1, <2>3 DEF Order
  <2> QED
    BY <1>5, <2>2, <2>3
<1>9. e[n] \in ToSet(e)
  BY <1>2 DEF ToSet
<1> QED
  BY <1>1, <1>2, <1>6, <1>7, <1>8, <1>9 DEF e

LEMMA UnwindAccounts ==
  ASSUME Accounts, NEW c \in Component, Unwind(c)
  PROVE  Accounts'
<1> DEFINE s == UnwindNext(c)
           steps(u) == [i \in DOMAIN u |-> u[i].step]
<1>1. /\ stage[c] = "unwinding" /\ GivenUp(c) /\ UNCHANGED <<status, stage, at>>
      /\ executed \in [Component -> Seq(Step)] /\ unwound \in [Component -> Seq(UnwindRecord)]
      /\ executed' = [executed EXCEPT ![c] = Front(executed[c])]
  BY DEF Unwind, GivenUp, Accounts
<1>2. /\ s \in ToSet(executed[c]) /\ s \in Step
      /\ executed'[c] \in Seq(Step) /\ NoBack(Order, executed'[c])
      /\ ToSet(executed'[c]) = ToSet(executed[c]) \ {s}
  BY <1>1, UnwoundLast
<1>3. /\ ToSet(executed[c]) \cap Dealt(c) = {}
      /\ ToSet(executed[c]) \cup Dealt(c) = OkOf(c)
      /\ IsInjective(steps(unwound[c]))
  BY <1>1 DEF Accounts
<1>4. PICK r \in UnwindRecord : r.step = s /\ unwound' = [unwound EXCEPT ![c] = Append(unwound[c], r)]
  <2>1. PICK result \in {"rolledBack", "fail", "optedOut"} :
          unwound' = [unwound EXCEPT ![c] = Append(unwound[c], [step |-> s, result |-> result])]
    BY DEF Unwind
  <2> QED
    BY <1>2, <2>1 DEF UnwindRecord
<1> DEFINE u == unwound[c]
           n == Len(u)
<1>5. /\ u \in Seq(UnwindRecord) /\ n \in Nat /\ DOMAIN u = 1..n
      /\ unwound'[c] = Append(u, r) /\ unwound' \in [Component -> Seq(UnwindRecord)]
      /\ DOMAIN unwound'[c] = 1..(n + 1)
      /\ unwound'[c][n + 1] = r
      /\ \A i \in 1..n : unwound'[c][i] = u[i]
  BY <1>1, <1>4
<1> HIDE DEF s, u, n
<1>6. Dealt(c)' = Dealt(c) \cup {s}
  <2>1. \A i : i \in 1..(n + 1) <=> i \in 1..n \/ i = n + 1
    BY <1>5
  <2>2. Dealt(c) = {u[i].step : i \in 1..n}
    BY <1>5 DEF Dealt, u
  <2>3. Dealt(c)' = {unwound'[c][i].step : i \in 1..(n + 1)}
    BY <1>5 DEF Dealt
  <2> QED
    BY <1>4, <1>5, <2>1, <2>2, <2>3
<1>7. IsInjective(steps(unwound'[c]))
  <2>1. \A i \in 1..n : u[i].step \in Dealt(c)
    BY <1>5 DEF Dealt, u
  <2>2. \A i, j \in 1..n : u[i].step = u[j].step => i = j
    BY <1>3, <1>5 DEF IsInjective, u
  <2>3. s \notin Dealt(c)
    BY <1>2, <1>3
  <2>4. ASSUME NEW i \in 1..(n + 1), NEW j \in 1..(n + 1),
               unwound'[c][i].step = unwound'[c][j].step
        PROVE  i = j
    <3>1. (i \in 1..n \/ i = n + 1) /\ (j \in 1..n \/ j = n + 1)
      BY <1>5
    <3> QED
      BY <1>4, <1>5, <2>1, <2>2, <2>3, <2>4, <3>1
  <2> QED
    BY <1>5, <2>4 DEF IsInjective
<1>8. /\ ToSet(executed'[c]) \cap Dealt(c)' = {}
      /\ ToSet(executed'[c]) \cup Dealt(c)' = OkOf(c)
  BY <1>2, <1>3, <1>6
<1>9. executed' \in [Component -> Seq(Step)] /\ OkOf(c)' = OkOf(c) /\ stage'[c] = "unwinding" /\ GivenUp(c)'
  <2>1. OkOf(c)' = OkOf(c) /\ stage'[c] = "unwinding" /\ GivenUp(c)'
    BY <1>1 DEF OkOf, GivenUp
  <2>2. executed' \in [Component -> Seq(Step)]
    BY <1>1, <1>2
  <2> QED
    BY <2>1, <2>2
<1>10. AccountOf(c)'
  BY <1>2, <1>7, <1>8, <1>9 DEF AccountOf
<1>11. \A d \in Component \ {c} : /\ executed'[d] = executed[d] /\ unwound'[d] = unwound[d]
                                  /\ stage'[d] = stage[d] /\ at'[d] = at[d]
  BY <1>1, <1>4
<1> QED
  BY <1>1, <1>5, <1>9, <1>10, <1>11, AccountOfOne

LEMMA StageStepAccounts ==
  ASSUME WaveInv, PlaceInv, Accounts, StageStep
  PROVE  Accounts'
<1>1. /\ stage \in [Component -> Stage] /\ at \in [Component -> Nat \ {0}]
      /\ UNCHANGED <<status, exec, executed, unwound>>
  BY StageStepRests DEF PlaceInv, NodeTypes, work
<1>2. /\ \A n : OkBelow(n)' = OkBelow(n)
      /\ \A c \in Component : OkOf(c)' = OkOf(c) /\ Dealt(c)' = Dealt(c)
  BY <1>1 DEF OkBelow, OkOf, Dealt
<1>3. ASSUME NEW c \in Component
      PROVE  /\ GivenUp(c)' = GivenUp(c)
             /\ at'[c] = at[c] \/ GivenUp(c)
             /\ stage'[c] \in {"compensating", "failed"} =>
                  executed[c] = <<>> \/ stage[c] \in {"compensating", "failed"}
  <2>1. CASE NextWave
    <3>1. /\ UNCHANGED at
          /\ stage' = [d \in Component |-> IF d \in waves[wave'] THEN "deploying" ELSE stage[d]]
      BY <2>1 DEF NextWave
    <3>2. c \in waves[wave'] => stage[c] = "waiting"
      BY <2>1, NextWaveFresh
    <3> QED
      BY <3>1, <3>2 DEF GivenUp
  <2>2. ASSUME NEW d \in Component, DeployDone(d)
        PROVE  /\ GivenUp(c)' = GivenUp(c) /\ at'[c] = at[c]
               /\ stage'[c] \in {"compensating", "failed"} => stage[c] \in {"compensating", "failed"}
    BY <1>1, <2>2 DEF DeployDone, GivenUp
  <2>3. ASSUME NEW d \in Component, UnwindDone(d)
        PROVE  /\ GivenUp(c)' = GivenUp(c) /\ at'[c] = at[c]
               /\ stage'[c] \in {"compensating", "failed"} =>
                    executed[c] = <<>> \/ stage[c] \in {"compensating", "failed"}
    BY <1>1, <2>3 DEF UnwindDone, GivenUp
  <2>4. ASSUME NEW d \in Component, RollbackDone(d) \/ AfterRollbackPhase(d)
        PROVE  /\ GivenUp(c)' = GivenUp(c) /\ (at'[c] = at[c] \/ GivenUp(c))
               /\ stage'[c] \in {"compensating", "failed"} => stage[c] \in {"compensating", "failed"}
    BY <1>1, <2>4 DEF RollbackDone, AfterRollbackPhase, GivenUp
  <2> QED
    BY <2>1, <2>2, <2>3, <2>4 DEF StageStep
<1>4. ASSUME NEW c \in Component
      PROVE  AccountOf(c)'
  <2>1. AccountOf(c)
    BY DEF Accounts, AccountOf
  <2>2. CASE GivenUp(c)
    BY <1>1, <1>2, <1>3, <2>1, <2>2 DEF AccountOf
  <2>3. CASE ~GivenUp(c)
    <3>1. at'[c] = at[c] /\ ~GivenUp(c)' /\ stage'[c] \notin {"compensating", "failed"}
      BY <1>3, <2>3 DEF GivenUp
    <3> QED
      BY <1>1, <1>2, <2>1, <2>3, <3>1 DEF AccountOf
  <2> QED
    BY <2>2, <2>3
<1> QED
  BY <1>1, <1>4 DEF Accounts, AccountOf

LEMMA AccountsStep ==
  ASSUME WaveInv, PlaceInv, WorkInv, [Next]_vars
  PROVE  Accounts'
<1> USE DEF WorkInv
<1>0. \A c \in Component : \A i \in DOMAIN Deploy[c] : Deploy[c][i] \in Node
  BY PlanType, BodyTypes
<1>1. CASE (\E n \in Node : StartsNode(n)) \/ \E ph \in Phase : SettlePhase(ph)
  <2>1. UNCHANGED <<executed, unwound, stage, at>>
    BY <1>1 DEF StartsNode, Starts, SettlePhase
  <2>2. /\ \A n \in Node : OkBelow(n)' = OkBelow(n)
        /\ \A c \in Component : OkOf(c)' = OkOf(c)
    BY <1>1, StepsOk
  <2> QED
    BY <1>0, <2>1, <2>2, AccountsKept
<1>2. ASSUME NEW t \in Step, FinishStep(t)
      PROVE  Accounts'
  <2>1. UNCHANGED <<executed, unwound, stage, at>> /\ status[t] = "running" /\ t \in Node
    BY <1>2, BodyTypes DEF FinishStep
  <2>2. ASSUME NEW c \in Component, GivenUp(c)
        PROVE  OkOf(c)' = OkOf(c)
    <3>1. t \notin StepsOf[c]
      <4>1. ~AtWork(c, t)
        BY <2>2 DEF AtWork, GivenUp
      <4> QED
        BY <2>1, <4>1, Roots DEF PlaceInv, RunningDeploys
    <3>2. ASSUME NEW s \in StepsOf[c]
          PROVE  status'[s] = status[s]
      <4>1. s \in Node /\ s # t
        BY <3>1, Roots, BodyTypes
      <4> QED
        BY <1>2, <4>1 DEF FinishStep, PlaceInv, NodeTypes
    <3> QED
      BY <3>2 DEF OkOf
  <2>3. ASSUME NEW c \in Component, ~GivenUp(c), NEW i \in DOMAIN Deploy[c], i < at[c]
        PROVE  OkBelow(Deploy[c][i])' = OkBelow(Deploy[c][i])
    <3>1. status[Deploy[c][i]] = "ok"
      BY <2>3 DEF DeploysInTurn
    <3> QED
      BY <1>0, <1>2, <3>1, EndedStays
  <2> QED
    BY <2>1, <2>2, <2>3, AccountsKept
<1>3. ASSUME NEW c \in Component, AfterDeployPhase(c) \/ Unwind(c)
      PROVE  Accounts'
  BY <1>3, AfterDeployPhaseAccounts, UnwindAccounts
<1>4. CASE Rests
  BY <1>4, AccountsKept DEF Rests, work, OkOf, OkBelow
<1> QED
  BY <1>1, <1>2, <1>3, <1>4, WorkCases, StageStepAccounts

LEMMA WorkInit == Init => WorkInv
<1> SUFFICES ASSUME Init PROVE WorkInv
  OBVIOUS
<1>1. ExecHeld /\ OkEntries
  BY BodyTypes DEF Init, ExecHeld, OkEntries, NoBack, ToSet
<1>2. DeploysInTurn
  <2>1. \A c \in Component : \A i \in DOMAIN Deploy[c] : Deploy[c][i] \in Node /\ i \in Nat \ {0}
    BY PlanType, BodyTypes
  <2> QED
    BY <2>1 DEF Init, DeploysInTurn, GivenUp
<1>3. Accounts
  <2>1. \A c \in Component : \A i \in DOMAIN Deploy[c] : i \in Nat \ {0}
    BY PlanType
  <2> QED
    BY <2>1 DEF Init, Accounts, GivenUp, NoBack, ToSet
<1> QED
  BY <1>1, <1>2, <1>3 DEF WorkInv

LEMMA WorkInvariant == Spec => []WorkInv
<1>1. WaveInv /\ PlaceInv /\ WorkInv /\ [Next]_vars => WorkInv'
  BY ExecStep, OkEntriesStep, DeploysInTurnStep, AccountsStep DEF WorkInv
<1> QED
  BY <1>1, WorkInit, WaveInvariant, PlaceInvariant, PTL DEF Spec

\* In any composition a component that gave up and unwound has dealt once with every
\* step of its deploy that returned, in whatever phase or parallel branch.
THEOREM UnwindComplete == Spec => []UnwindAccountsForAll
<1>1. WorkInv => UnwindAccountsForAll
  <2> SUFFICES ASSUME WorkInv, NEW c \in Component, stage[c] \in {"compensating", "failed"}
               PROVE  /\ Dealt(c) = OkOf(c)
                      /\ IsInjective([i \in DOMAIN unwound[c] |-> unwound[c][i].step])
    BY DEF UnwindAccountsForAll, Dealt, OkOf
  <2>1. GivenUp(c) /\ executed[c] = <<>>
    BY DEF GivenUp, WorkInv, Accounts
  <2>2. ToSet(executed[c]) = {}
    BY <2>1 DEF ToSet
  <2> QED
    BY <2>1, <2>2 DEF WorkInv, Accounts
<1> QED
  BY <1>1, WorkInvariant, PTL

-----------------------------------------------------------------------------
(* The driver implements the saga. *)

\* A step belongs to the deploy of one component.
LEMMA OneOwner ==
  ASSUME NEW c \in Component, NEW d \in Component, NEW s \in StepsOf[c], s \in StepsOf[d]
  PROVE  d = c
<1>1. PICK q \in ToSet(Deploy[c]), r \in ToSet(Deploy[d]) : s \in Inner(q) /\ s \in Inner(r)
  BY Roots DEF DeployOf
<1>2. r \in Node /\ r \in DeployOf(c)
  <2>1. r \in Node
    BY PlanType, BodyTypes DEF ToSet
  <2> QED
    BY <1>1, <2>1, UnderRoot DEF DeployOf
<1> QED
  BY <1>2, Roots

\* While a component goes ahead it has done what returned; once it gave up, what it
\* keeps to unwind.
LEMMA DidIs ==
  ASSUME WorkInv, NEW c \in Component
  PROVE  Did(c) = IF GivenUp(c) THEN ToSet(executed[c]) ELSE OkOf(c)
<1>1. Did(c) = OkOf(c) \ Dealt(c)
  BY DEF Did, OkOf, Dealt
<1>2. ~GivenUp(c) => Dealt(c) = {}
  <2>1. ~GivenUp(c) => unwound[c] = <<>>
    BY DEF WorkInv, Accounts
  <2> QED
    BY <2>1 DEF Dealt
<1>3. GivenUp(c) => /\ ToSet(executed[c]) \cap Dealt(c) = {}
                    /\ ToSet(executed[c]) \cup Dealt(c) = OkOf(c)
  BY DEF WorkInv, Accounts
<1> QED
  BY <1>1, <1>2, <1>3

\* When a step runs all that its composition runs before it has returned.
LEMMA BeforeIsDone ==
  ASSUME PlaceInv, WorkInv, NEW c \in Component, NEW s \in StepsOf[c], status[s] = "running",
         NEW r, <<r, s>> \in Precedes
  PROVE  r \in OkOf(c)
<1>0. s \in Step /\ s \in Node /\ s \in DeployOf(c)
  BY Roots, BodyTypes
<1>1. AtWork(c, s)
  BY <1>0 DEF PlaceInv, RunningDeploys
<1> DEFINE k == at[c]
<1>2. /\ k \in DOMAIN Deploy[c] /\ Deploy[c][k] \in ToSet(Deploy[c]) /\ Level(Deploy[c])
      /\ Deploy[c][k] \in Node /\ s \in Inner(Deploy[c][k])
      /\ ~GivenUp(c)
  <2>1. k \in DOMAIN Deploy[c] /\ Deploy[c][k] \in ToSet(Deploy[c]) /\ Level(Deploy[c]) /\ ~GivenUp(c)
    BY <1>1 DEF AtWork, GivenUp, ToSet, Level
  <2>2. Deploy[c][k] \in Node
    BY <2>1, LevelsBranch
  <2>3. s \in Inner(Deploy[c][k])
    BY <1>1, <2>2, InnerFacts DEF AtWork, Inside
  <2> QED
    BY <2>1, <2>2, <2>3
<1> HIDE DEF k
<1>3. PICK g : /\ \/ \E d \in Component : g = Deploy[d]
                  \/ \E ph \in Phase \ Parallel : g = Body[ph]
               /\ Level(g)
               /\ \E i, j \in DOMAIN g : i < j /\ r \in StepsBelow[g[i]] /\ s \in StepsBelow[g[j]]
  BY PrecedesMeans
<1>4. PICK i \in DOMAIN g, j \in DOMAIN g : i < j /\ r \in StepsBelow[g[i]] /\ s \in StepsBelow[g[j]]
  BY <1>3
<1>5. /\ g[i] \in Node /\ g[j] \in Node /\ r \in Step
      /\ r \in Inner(g[i]) /\ s \in Inner(g[j])
      /\ DOMAIN g = 1..Len(g) /\ i \in Int /\ j \in Int /\ i \in 1..(j - 1)
  <2>1. g \in Seq(Node) /\ DOMAIN g = 1..Len(g)
    BY <1>3, LevelsBranch
  <2> QED
    BY <1>4, <2>1, StepsBelowIs
<1>6. ASSUME NEW d \in Component, g = Deploy[d]
      PROVE  r \in OkOf(c)
  <2>1. g[i] \in ToSet(Deploy[d]) /\ g[j] \in ToSet(Deploy[d])
    BY <1>6 DEF ToSet
  <2>2. s \in StepsOf[d] /\ r \in StepsOf[d]
    BY <1>4, <2>1 DEF StepsOf
  <2>3. d = c
    BY <2>2, OneOwner
  <2>4. j = k
    BY <1>2, <1>5, <1>6, <2>3, LevelsBranch
  <2>5. status[Deploy[c][i]] = "ok"
    BY <1>2, <1>4, <1>6, <2>3, <2>4 DEF WorkInv, DeploysInTurn, k
  <2>6. status[r] = "ok"
    BY <1>5, <1>6, <2>3, <2>5, AllOk DEF WorkInv
  <2> QED
    BY <2>2, <2>3, <2>6 DEF OkOf
<1>7. ASSUME NEW ph \in Phase \ Parallel, g = Body[ph]
      PROVE  r \in OkOf(c)
  <2>1. /\ ph \in Node /\ g[i] \in Entries(ph) /\ g[j] \in Entries(ph)
        /\ Inner(g[j]) \subseteq Inner(ph) /\ Inner(g[i]) \subseteq Inner(ph)
        /\ g[i] \in Inner(ph) /\ g[j] \in Inner(ph)
    <3>1. ph \in Node /\ g[i] \in Entries(ph) /\ g[j] \in Entries(ph)
      BY <1>7, BodyTypes
    <3> QED
      BY <3>1, InnerFacts
  <2>2. s \in Inner(ph) /\ r \in Inner(ph) /\ ph # s
    BY <1>0, <1>5, <2>1, BodyTypes
  <2>3. status[ph] = "running"
    <3>1. ph \in Inside(s)
      BY <2>2 DEF Inside
    <3> QED
      BY <1>0, <3>1 DEF PlaceInv, RunningInside
  <2>4. status[g[j]] = "running"
    <3>1. g[j] = s \/ g[j] \in Inside(s)
      BY <1>5, BodyTypes, InnerFacts DEF Inside
    <3> QED
      BY <1>0, <3>1 DEF PlaceInv, RunningInside
  <2>5. status[g[i]] = "ok"
    BY <1>5, <1>7, <2>3, <2>4 DEF PlaceInv, InTurn
  <2>6. status[r] = "ok"
    BY <1>5, <2>5, AllOk DEF WorkInv
  <2>7. ph \in Inner(Deploy[c][k])
    BY <1>2, <2>1, <2>2, UnderRoot
  <2>8. r \in Inner(Deploy[c][k])
    BY <1>2, <2>2, <2>7, InnerFacts
  <2>9. r \in StepsOf[c]
    BY <1>2, <1>5, <2>8, Roots DEF DeployOf
  <2> QED
    BY <2>6, <2>9 DEF OkOf
<1> QED
  BY <1>3, <1>6, <1>7

\* A step that changes neither a stage of the saga nor what was done is none of it.
LEMMA SagaStutters ==
  ASSUME \A c \in Component : SagaStage(c)' = SagaStage(c) /\ Did(c)' = Did(c)
  PROVE  UNCHANGED Saga!sagaVars
BY DEF Saga!sagaVars

SagaOf == [c \in Component |-> SagaStage(c)]
DidOf == [c \in Component |-> Did(c)]

LEMMA FinishIsDo ==
  ASSUME PlaceInv, WorkInv, NEW t \in Step, FinishStep(t)
  PROVE  Saga!SagaNext \/ UNCHANGED Saga!sagaVars
<1>0. /\ status \in [Node -> NodeStatus] /\ t \in Node /\ status[t] = "running"
      /\ UNCHANGED <<stage, unwound>>
      /\ \A m \in Node \ {t} : status'[m] = status[m]
      /\ status'[t] \in {"ok", "fail"}
  BY BodyTypes DEF PlaceInv, NodeTypes, FinishStep
<1>1. /\ \A c \in Component : SagaStage(c)' = SagaStage(c)
      /\ SagaOf' = SagaOf
  BY <1>0 DEF SagaStage, SagaOf
<1>2. ASSUME NEW c \in Component, t \notin StepsOf[c] \/ status'[t] = "fail"
      PROVE  Did(c)' = Did(c)
  <2>1. \A s \in StepsOf[c] : s \in Node
    BY Roots, BodyTypes
  <2>2. \A s \in StepsOf[c] : status'[s] = "ok" <=> status[s] = "ok"
    BY <1>0, <1>2, <2>1
  <2> QED
    BY <1>0, <2>2 DEF Did
<1>3. ASSUME NEW c \in Component, t \in StepsOf[c], status'[t] = "ok"
      PROVE  Saga!Do(c, t)
  <2>1. stage[c] = "deploying" /\ ~GivenUp(c)
    <3>1. AtWork(c, t)
      BY <1>0, <1>3, Roots DEF PlaceInv, RunningDeploys
    <3> QED
      BY <3>1 DEF AtWork, GivenUp
  <2>2. Did(c) = OkOf(c) /\ t \notin Did(c) /\ unwound[c] = <<>>
    BY <1>0, <2>1, DidIs DEF OkOf, WorkInv, Accounts
  <2>3. Did(c)' = Did(c) \cup {t}
    <3>1. \A s \in StepsOf[c] : s \in Node
      BY Roots, BodyTypes
    <3>2. \A s \in StepsOf[c] : status'[s] = "ok" <=> status[s] = "ok" \/ s = t
      BY <1>0, <1>3, <3>1
    <3> QED
      BY <1>0, <1>3, <2>2, <3>2 DEF Did
  <2>4. \A d \in Component \ {c} : Did(d)' = Did(d)
    BY <1>2, <1>3, OneOwner
  <2>5. Saga!Before(c, t) \subseteq Did(c)
    BY <1>0, <1>3, <2>2, BeforeIsDone DEF Saga!Before
  <2>6. SagaOf[c] = "going" /\ SagaOf' = SagaOf
    <3>1. SagaStage(c) = "going"
      BY <2>1 DEF SagaStage
    <3> QED
      BY <1>1, <3>1 DEF SagaOf
  <2>7. DidOf' = [DidOf EXCEPT ![c] = DidOf[c] \cup {t}] /\ DidOf[c] = Did(c)
    BY <2>3, <2>4 DEF DidOf
  <2> QED
    BY <2>2, <2>5, <2>6, <2>7 DEF Saga!Do, SagaOf, DidOf
<1>4. CASE \E c \in Component : t \in StepsOf[c] /\ status'[t] = "ok"
  BY <1>3, <1>4 DEF Saga!SagaNext
<1>5. CASE ~\E c \in Component : t \in StepsOf[c] /\ status'[t] = "ok"
  BY <1>0, <1>1, <1>2, <1>5, SagaStutters
<1> QED
  BY <1>4, <1>5

LEMMA UnwindIsDealWith ==
  ASSUME PlaceInv, WorkInv, WorkInv', NEW c \in Component, Unwind(c)
  PROVE  Saga!SagaNext
<1> DEFINE s == UnwindNext(c)
<1>1. /\ stage[c] = "unwinding" /\ GivenUp(c) /\ GivenUp(c)' /\ UNCHANGED <<status, stage>>
      /\ \A d \in Component \ {c} : unwound'[d] = unwound[d]
  BY DEF Unwind, GivenUp, WorkInv, Accounts
<1>2. /\ s \in ToSet(executed[c]) /\ ToSet(executed'[c]) = ToSet(executed[c]) \ {s}
      /\ \A r \in ToSet(executed[c]) : <<s, r>> \notin Precedes
  BY <1>1, UnwoundLast DEF WorkInv
<1> HIDE DEF s
<1>3. Did(c) = ToSet(executed[c]) /\ Did(c)' = ToSet(executed'[c])
  <2>1. Did(c) = ToSet(executed[c])
    BY <1>1, DidIs
  <2>2. /\ ToSet(executed'[c]) \cap Dealt(c)' = {}
        /\ ToSet(executed'[c]) \cup Dealt(c)' = OkOf(c)'
    BY <1>1 DEF WorkInv, Accounts
  <2>3. Did(c)' = OkOf(c)' \ Dealt(c)'
    BY DEF Did, OkOf, Dealt
  <2> QED
    BY <2>1, <2>2, <2>3
<1>4. s \in StepsOf[c]
  BY <1>2, <1>3 DEF Did
<1>5. Saga!After(c, s) \cap Did(c) = {}
  BY <1>2, <1>3 DEF Saga!After
<1>6. \A d \in Component \ {c} : Did(d)' = Did(d)
  BY <1>1 DEF Did
<1>7. SagaOf[c] = "undoing" /\ SagaOf' = SagaOf
  BY <1>1 DEF SagaOf, SagaStage
<1>8. DidOf' = [DidOf EXCEPT ![c] = DidOf[c] \ {s}] /\ DidOf[c] = Did(c)
  BY <1>2, <1>3, <1>6 DEF DidOf
<1>9. Saga!DealWith(c, s)
  BY <1>2, <1>3, <1>5, <1>7, <1>8 DEF Saga!DealWith, SagaOf, DidOf
<1> QED
  BY <1>4, <1>9 DEF Saga!SagaNext

\* Components that go on from one stage to the next.
LEMMA SagaMoves ==
  ASSUME PlaceInv, WorkInv, NEW c \in Component, UNCHANGED <<status, unwound>>,
         stage' \in [Component -> Stage], \A d \in Component \ {c} : stage'[d] = stage[d],
         \/ stage'[c] = stage[c]
         \/ stage[c] = "deploying" /\ stage'[c] = "ok" /\ at[c] > Len(Deploy[c])
         \/ stage[c] = "deploying" /\ stage'[c] = "unwinding"
         \/ stage[c] = "unwinding" /\ stage'[c] = "compensating" /\ executed[c] = <<>>
         \/ stage[c] = "compensating" /\ stage'[c] = "failed"
  PROVE  Saga!SagaNext \/ UNCHANGED Saga!sagaVars
<1>1. DidOf' = DidOf
  BY DEF DidOf, Did
<1>2. SagaOf' = [SagaOf EXCEPT ![c] = SagaStage(c)'] /\ SagaOf[c] = SagaStage(c)
  <2>1. \A d \in Component \ {c} : SagaStage(d)' = SagaStage(d)
    BY DEF SagaStage
  <2> QED
    BY <2>1 DEF SagaOf
<1>3. CASE SagaStage(c)' = SagaStage(c)
  <2>1. SagaOf' = SagaOf
    BY <1>2, <1>3 DEF SagaOf
  <2> QED
    BY <1>1, <2>1 DEF SagaOf, DidOf, Saga!sagaVars
<1>4. CASE stage[c] = "deploying" /\ stage'[c] = "ok" /\ at[c] > Len(Deploy[c])
  <2>1. ~GivenUp(c)
    BY <1>4 DEF GivenUp
  <2>2. ASSUME NEW s \in StepsOf[c]
        PROVE  status[s] = "ok"
    <3>1. PICK r \in ToSet(Deploy[c]) : s \in Inner(r)
      BY Roots DEF DeployOf
    <3>2. PICK i \in DOMAIN Deploy[c] : r = Deploy[c][i]
      BY DEF ToSet
    <3>3. Deploy[c] \in Seq(Phase) /\ at[c] \in Nat
      BY PlanType DEF PlaceInv, NodeTypes
    <3>4. r \in Node /\ i < at[c]
      BY <1>4, <3>2, <3>3, BodyTypes
    <3>5. status[r] = "ok"
      BY <2>1, <3>2, <3>4 DEF WorkInv, DeploysInTurn
    <3> QED
      BY <3>1, <3>4, <3>5, AllOk DEF WorkInv
  <2>3. DidOf[c] = StepsOf[c]
    BY <2>1, <2>2, DidIs DEF OkOf, DidOf
  <2>4. SagaOf[c] = "going" /\ SagaOf' = [SagaOf EXCEPT ![c] = "done"]
    BY <1>2, <1>4 DEF SagaStage
  <2>5. Saga!Complete(c)
    BY <1>1, <2>3, <2>4 DEF Saga!Complete, Saga!Move, SagaOf, DidOf
  <2> QED
    BY <2>5 DEF Saga!SagaNext
<1>5. CASE stage[c] = "deploying" /\ stage'[c] = "unwinding"
  <2>1. SagaOf[c] = "going" /\ SagaOf' = [SagaOf EXCEPT ![c] = "undoing"]
    BY <1>2, <1>5 DEF SagaStage
  <2>2. Saga!GiveUp(c)
    BY <1>1, <2>1 DEF Saga!GiveUp, Saga!Move, SagaOf, DidOf
  <2> QED
    BY <2>2 DEF Saga!SagaNext
<1>6. CASE stage[c] = "unwinding" /\ stage'[c] = "compensating" /\ executed[c] = <<>>
  <2>1. DidOf[c] = {}
    BY <1>6, DidIs DEF GivenUp, DidOf, ToSet
  <2>2. SagaOf[c] = "undoing" /\ SagaOf' = [SagaOf EXCEPT ![c] = "undone"]
    BY <1>2, <1>6 DEF SagaStage
  <2>3. Saga!Close(c)
    BY <1>1, <2>1, <2>2 DEF Saga!Close, Saga!Move, SagaOf, DidOf
  <2> QED
    BY <2>3 DEF Saga!SagaNext
<1>7. CASE stage'[c] = stage[c] \/ (stage[c] = "compensating" /\ stage'[c] = "failed")
  <2>1. SagaStage(c)' = SagaStage(c)
    BY <1>7 DEF SagaStage
  <2> QED
    BY <1>3, <2>1
<1> QED
  BY <1>4, <1>5, <1>6, <1>7

LEMMA NextWaveIsStart ==
  ASSUME WaveInv, NextWave
  PROVE  Saga!SagaNext
<1>1. /\ UNCHANGED <<status, unwound>>
      /\ stage' = [c \in Component |-> IF c \in waves[wave'] THEN "deploying" ELSE stage[c]]
  BY DEF NextWave
<1> DEFINE C == {c \in Component : c \in waves[wave']}
<1>2. \A c \in C : SagaOf[c] = "none"
  <2>1. \A c \in C : stage[c] = "waiting"
    BY NextWaveFresh
  <2> QED
    BY <2>1 DEF SagaOf, SagaStage
<1>3. SagaOf' = [c \in Component |-> IF c \in C THEN "going" ELSE SagaOf[c]]
  <2>1. ASSUME NEW c \in Component
        PROVE  SagaStage(c)' = IF c \in C THEN "going" ELSE SagaStage(c)
    <3>1. CASE c \in C
      <4>1. stage'[c] = "deploying"
        BY <1>1, <3>1
      <4> QED
        BY <3>1, <4>1 DEF SagaStage
    <3>2. CASE c \notin C
      <4>1. stage'[c] = stage[c]
        BY <1>1, <3>2
      <4>2. SagaStage(c)' = SagaStage(c)
        BY <4>1 DEF SagaStage
      <4> QED
        BY <3>2, <4>2
    <3> QED
      BY <3>1, <3>2
  <2> HIDE DEF C
  <2> QED
    BY <2>1 DEF SagaOf
<1>4. DidOf' = DidOf
  BY <1>1 DEF DidOf, Did
<1>5. C \in SUBSET Component
  OBVIOUS
<1>6. Saga!SagaStart
  <2> HIDE DEF C
  <2> QED
    BY <1>2, <1>3, <1>4, <1>5 DEF Saga!SagaStart, SagaOf, DidOf
<1> QED
  BY <1>6 DEF Saga!SagaNext

\* Every step of the driver is a step of the saga, or none.
LEMMA SagaStep ==
  ASSUME WaveInv, PlaceInv, WorkInv, WorkInv', [Next]_vars
  PROVE  [Saga!SagaNext]_(Saga!sagaVars)
<1>0. stage \in [Component -> Stage]
  BY DEF PlaceInv, NodeTypes
<1>1. ASSUME (\E n \in Node : StartsNode(n)) \/ (\E ph \in Phase : SettlePhase(ph)) \/ Rests
      PROVE  UNCHANGED Saga!sagaVars
  <2>1. UNCHANGED <<stage, unwound>>
    BY <1>1 DEF StartsNode, Starts, SettlePhase, Rests, work
  <2>2. \A c \in Component : OkOf(c)' = OkOf(c)
    BY <1>1, StepsOk DEF Rests, work
  <2>3. \A c \in Component : SagaStage(c)' = SagaStage(c) /\ Did(c)' = Did(c)
    BY <2>1, <2>2 DEF SagaStage, Did, OkOf
  <2> QED
    BY <2>3, SagaStutters
<1>2. ASSUME NEW t \in Step, FinishStep(t)
      PROVE  Saga!SagaNext \/ UNCHANGED Saga!sagaVars
  BY <1>2, FinishIsDo
<1>3. ASSUME NEW c \in Component, Unwind(c)
      PROVE  Saga!SagaNext
  BY <1>3, UnwindIsDealWith
<1>4. ASSUME NEW c \in Component, AfterDeployPhase(c) \/ UnwindDone(c) \/ RollbackDone(c)
                                    \/ AfterRollbackPhase(c) \/ DeployDone(c)
      PROVE  Saga!SagaNext \/ UNCHANGED Saga!sagaVars
  <2>1. /\ UNCHANGED <<status, unwound>> /\ stage' \in [Component -> Stage]
        /\ \A d \in Component \ {c} : stage'[d] = stage[d]
    BY <1>0, <1>4 DEF AfterDeployPhase, UnwindDone, RollbackDone, AfterRollbackPhase, DeployDone, Stage
  <2>2. \/ stage'[c] = stage[c]
        \/ stage[c] = "deploying" /\ stage'[c] = "ok" /\ at[c] > Len(Deploy[c])
        \/ stage[c] = "deploying" /\ stage'[c] = "unwinding"
        \/ stage[c] = "unwinding" /\ stage'[c] = "compensating" /\ executed[c] = <<>>
        \/ stage[c] = "compensating" /\ stage'[c] = "failed"
    BY <1>0, <1>4 DEF AfterDeployPhase, UnwindDone, RollbackDone, AfterRollbackPhase, DeployDone, Plan
  <2> QED
    BY <2>1, <2>2, SagaMoves
<1>5. CASE NextWave
  BY <1>5, NextWaveIsStart
<1> QED
  BY <1>1, <1>2, <1>3, <1>4, <1>5, WorkCases DEF StageStep

\* For any graph and any compositions the driver implements the saga.
THEOREM SagaImplemented == Spec => ImplementsSaga
<1>1. Init => Saga!SagaInit
  <2> SUFFICES ASSUME Init PROVE Saga!SagaInit
    OBVIOUS
  <2>1. \A c \in Component : SagaStage(c) = "none"
    BY DEF Init, SagaStage
  <2>2. \A c \in Component : Did(c) = {}
    <3>1. \A c \in Component : \A s \in StepsOf[c] : s \in Node
      BY Roots, BodyTypes
    <3> QED
      BY <3>1 DEF Init, Did
  <2> QED
    BY <2>1, <2>2 DEF Saga!SagaInit
<1>2. WaveInv /\ PlaceInv /\ WorkInv /\ WorkInv' /\ [Next]_vars => [Saga!SagaNext]_(Saga!sagaVars)
  BY SagaStep
<1>3. Spec => Saga!SagaSpec
  BY <1>1, <1>2, WaveInvariant, PlaceInvariant, WorkInvariant, PTL DEF Spec, Saga!SagaSpec
<1> QED
  BY <1>3 DEF ImplementsSaga

-----------------------------------------------------------------------------
(* Types. *)

OutputTypes == outputs \subseteq Reference /\ resolved \in [Step -> SUBSET Reference]

LEMMA OutputTypesStep ==
  ASSUME OutputTypes, [Next]_vars
  PROVE  OutputTypes'
<1>1. CASE Select
  BY <1>1, GraphType DEF Select, OutputTypes
<1>2. ASSUME NEW c \in Component, ComponentStep(c)
      PROVE  OutputTypes'
  BY <1>2 DEF ComponentStep, AfterDeployPhase, AfterRollbackPhase, DeployDone, Unwind, UnwindDone,
              RollbackDone, RecordRelease, deploy, OutputTypes
<1>3. ASSUME NEW ph \in Phase, StartPhase(ph) \/ SettlePhase(ph)
      PROVE  OutputTypes'
  BY <1>3 DEF StartPhase, SettlePhase, OutputTypes
<1>4. ASSUME NEW s \in Step, StartStep(s) \/ FinishStep(s)
      PROVE  OutputTypes'
  <2>1. \/ UNCHANGED resolved
        \/ resolved' = [resolved EXCEPT ![s] = {r \in Refers[s] \cap outputs : LookedUp(r)}]
    BY <1>4 DEF StartStep, FinishStep
  <2>2. UNCHANGED outputs
    BY <1>4 DEF StartStep, FinishStep
  <2> QED
    BY <2>1, <2>2 DEF OutputTypes
<1>5. CASE Layer \/ NextWave \/ RunFails \/ RunSucceeds \/ RecordingDone \/ UNCHANGED vars
  BY <1>5 DEF Layer, NextWave, RunFails, RunSucceeds, RecordingDone, vars, deploy, OutputTypes
<1> QED
  BY <1>1, <1>2, <1>3, <1>4, <1>5 DEF Next, Work, Exited

\* Every variable keeps its type; what a component has executed are steps of its own
\* deploy.
THEOREM TypeCorrect == Spec => []TypeOK
<1>1. Init => OutputTypes
  BY DEF Init, OutputTypes
<1>2. WaveInv /\ PlaceInv /\ WorkInv /\ OutputTypes => TypeOK
  <2> SUFFICES ASSUME WaveInv, PlaceInv, WorkInv, OutputTypes PROVE TypeOK
    OBVIOUS
  <2>1. /\ Ended \/ run \in {"idle", "layering", "running", "recording"}
        /\ target \subseteq Component /\ remaining \subseteq target
        /\ waves \in Seq(SUBSET Component) /\ wave \in 0..Len(waves)
        /\ declined \in Declines
        /\ recorded \subseteq Component /\ warned \subseteq Component
    BY DEF WaveInv, RunTypes, Ended
  <2>2. /\ stage \in [Component -> Stage] /\ at \in [Component -> Nat \ {0}]
        /\ status \in [Node -> NodeStatus]
    BY DEF PlaceInv, NodeTypes
  <2>3. exec \in [Node -> Seq(Step)] /\ unwound \in [Component -> Seq(UnwindRecord)]
    BY DEF WorkInv, ExecHeld, Accounts
  <2>4. ASSUME NEW c \in Component
        PROVE  executed[c] \in Seq(StepsOf[c])
    <3>1. executed[c] \in Seq(Step)
      BY DEF WorkInv, Accounts
    <3>2. ToSet(executed[c]) \subseteq StepsOf[c]
      <4>1. CASE GivenUp(c)
        BY <4>1 DEF WorkInv, Accounts, OkOf
      <4>2. CASE ~GivenUp(c)
        <5>1. ASSUME NEW s \in ToSet(executed[c])
              PROVE  s \in StepsOf[c]
          <6>1. PICK i \in DOMAIN Deploy[c] : s \in OkBelow(Deploy[c][i])
            BY <4>2 DEF WorkInv, Accounts
          <6> QED
            BY <6>1 DEF OkBelow, StepsOf, ToSet
        <5> QED
          BY <5>1
      <4> QED
        BY <4>1, <4>2
    <3> QED
      BY <3>1, <3>2 DEF ToSet
  <2> QED
    BY <2>1, <2>2, <2>3, <2>4 DEF TypeOK, OutputTypes
<1> QED
  BY <1>1, <1>2, OutputTypesStep, WaveInvariant, PlaceInvariant, WorkInvariant, PTL DEF Spec
=============================================================================
