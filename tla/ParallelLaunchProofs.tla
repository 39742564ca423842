------------------------- MODULE ParallelLaunchProofs -------------------------
(***************************************************************************)
(* Proofs about ParallelLaunch, for any number of subgraphs and calls.     *)
(***************************************************************************)
EXTENDS ParallelLaunch, TLAPS

-------------------------------------------------------------------------------
(* The inductive invariant.  Outside of the spin the workers are at rest;  *)
(* in it each has yet to notice the generation, is working on it, or has   *)
(* reported it.                                                            *)

Spinning == pc \in {"spin0", "spin1"}
Resting ==
  pc \in {"idle", "job0", "job1", "publish", "collect", "reduce", "bump"}

AtRest(r) == wpc[r] = "poll" /\ seen[r] = generation /\ done[r] = generation
Behind(r) == wpc[r] = "poll" /\ seen[r] + 1 = generation /\ done[r] = seen[r]
Busy(r) ==
  /\ wpc[r] \in {"stop", "take", "launch", "status", "done"}
  /\ seen[r] = generation
  /\ done[r] + 1 = generation

WorkerInv ==
  /\ stop <=> pc \in {"bump", "join", "gone"}
  /\ pc = "spin1" => done[0] = generation
  /\ \A r \in Ranks :
       /\ Resting => AtRest(r)
       /\ Spinning => AtRest(r) \/ Behind(r) \/ Busy(r)
       /\ pc = "join" => \/ wpc[r] = "poll" /\ seen[r] + 1 = generation
                         \/ wpc[r] = "stop" /\ seen[r] = generation
                         \/ wpc[r] = "exited"
       /\ pc = "gone" => wpc[r] = "exited"

(* What the slots, the devices and the reports hold for this pair.         *)

Graph(r) == [rank |-> r, graph |-> index]

JobInv ==
  /\ pc \in {"job1", "publish"} => jobs[0] = Graph(0)
  /\ pc = "publish" => jobs[1] = Graph(1)
  /\ Spinning => \A r \in Ranks :
       /\ jobs[r] = Graph(r)
       /\ wpc[r] = "launch" => job[r] = Graph(r)

Running == pc \in {"job0", "job1", "publish", "spin0", "spin1", "collect",
                   "reduce"}

Launched(r) ==
  \/ pc \in {"collect", "reduce"}
  \/ Spinning /\ (wpc[r] \in {"status", "done"} \/ AtRest(r))

Report(r) == IF wpc[r] = "status" THEN result[r] ELSE status[r]

DeviceInv ==
  /\ answer = "running" <=> Running
  /\ Running =>
       /\ reduced = index
       /\ \A r \in Ranks :
            /\ launches[r][index] = IF Launched(r) THEN 1 ELSE 0
            /\ \A s \in 0..Subgraphs - 1 : s > index => launches[r][s] = 0
       /\ \A r \in Ranks : \A s \in 0..Subgraphs - 1 :
            <<r, s>> \in failed <=>
              s = index /\ Launched(r) /\ Report(r) = "failure"
  /\ pc = "reduce" => failed = {} /\ index + 1 < Subgraphs

PInv == TypeOK /\ WorkerInv /\ JobInv /\ DeviceInv

-------------------------------------------------------------------------------
\* Each step leaves every variable within its type.
LEMMA TypeStep ==
  PInv /\ [Next]_vars => TypeOK'
<1> SUFFICES ASSUME PInv, [Next]_vars PROVE TypeOK'
  OBVIOUS
<1> TypeOK
  BY DEF PInv
<1> USE SubgraphsAssumption, MaxCallsAssumption
    DEF TypeOK, Ranks, Jobs, NoJob, Slots, Statuses, CallerPcs, WorkerPcs,
        caller, shared, worker, devices, Nothing, Moves, JobPc
<1>1. CASE Compute
  BY <1>1 DEF Compute
<1>2. ASSUME NEW r \in Ranks, WriteJob(r) PROVE TypeOK'
  BY <1>2 DEF WriteJob
<1>3. CASE Publish
  BY <1>3 DEF Publish
<1>4. CASE Spin0
  BY <1>4 DEF Spin0
<1>5. CASE Spin1
  BY <1>5 DEF Spin1
<1>6. CASE Collect
  BY <1>6 DEF Collect
<1>7. CASE Reduce
  <2>1. index + 1 < Subgraphs
    BY <1>7 DEF Reduce, PInv, DeviceInv
  <2>2. reduced = index
    BY <1>7 DEF Reduce, PInv, DeviceInv, Running
  <2>3. QED BY <1>7, <2>1, <2>2 DEF Reduce
<1>8. CASE SetStop
  BY <1>8 DEF SetStop
<1>9. CASE Bump
  BY <1>9 DEF Bump
<1>10. CASE Join
  BY <1>10 DEF Join
<1>11. ASSUME NEW r \in Ranks, Notice(r) PROVE TypeOK'
  BY <1>11 DEF Notice
<1>12. ASSUME NEW r \in Ranks, TestStop(r) PROVE TypeOK'
  BY <1>12 DEF TestStop
<1>13. ASSUME NEW r \in Ranks, Take(r) PROVE TypeOK'
  BY <1>13 DEF Take
<1>14. ASSUME NEW r \in Ranks, Launch(r) PROVE TypeOK'
  <2>1. job[r] = Graph(r)
    BY <1>14 DEF Launch, PInv, WorkerInv, JobInv, Resting, Spinning, AtRest,
                 Behind, Busy
  <2>2. job[r].rank \in Ranks /\ job[r].graph \in 0..Subgraphs - 1
    BY <2>1 DEF Graph
  <2>3. launches' \in [Ranks -> [0..Subgraphs - 1 -> Nat]]
    <3> DEFINE q == job[r].rank
               g == job[r].graph
               row == [launches[q] EXCEPT ![g] = @ + 1]
    <3>1. launches' = [launches EXCEPT ![q] = row]
      BY <1>14 DEF Launch
    <3>2. row \in [0..Subgraphs - 1 -> Nat]
      <4>1. launches[q] \in [0..Subgraphs - 1 -> Nat] /\ g \in 0..Subgraphs - 1
        BY <2>2
      <4> HIDE DEF q, g
      <4>2. QED BY <4>1
    <3>3. QED BY <2>2, <3>1, <3>2
  <2>4. failed' \subseteq Ranks \X (0..Subgraphs - 1)
    BY <1>14, <2>2 DEF Launch
  <2>5. QED BY <1>14, <2>3, <2>4 DEF Launch
<1>15. ASSUME NEW r \in Ranks, StoreStatus(r) PROVE TypeOK'
  BY <1>15 DEF StoreStatus
<1>16. ASSUME NEW r \in Ranks, StoreDone(r) PROVE TypeOK'
  BY <1>16 DEF StoreDone
<1>17. CASE UNCHANGED vars
  BY <1>17 DEF vars
<1>18. QED
  BY <1>1, <1>2, <1>3, <1>4, <1>5, <1>6, <1>7, <1>8, <1>9, <1>10, <1>11,
     <1>12, <1>13, <1>14, <1>15, <1>16, <1>17
  DEF Next, Caller, Pair, Destructor, Worker

\* The caller and the two workers keep taking turns.
LEMMA WorkerStep ==
  TypeOK /\ WorkerInv /\ [Next]_vars => WorkerInv'
<1> SUFFICES ASSUME TypeOK, WorkerInv, [Next]_vars PROVE WorkerInv'
  OBVIOUS
<1> USE DEF TypeOK, WorkerInv, Ranks, CallerPcs, WorkerPcs, Spinning, Resting,
            AtRest, Behind, Busy, caller, shared, worker, devices, Moves, JobPc
<1>1. CASE Compute
  BY <1>1 DEF Compute
<1>2. ASSUME NEW r \in Ranks, WriteJob(r) PROVE WorkerInv'
  BY <1>2 DEF WriteJob
<1>3. CASE Publish
  BY <1>3 DEF Publish
<1>4. CASE Spin0
  BY <1>4 DEF Spin0
<1>5. CASE Spin1
  BY <1>5 DEF Spin1
<1>6. CASE Collect
  BY <1>6 DEF Collect
<1>7. CASE Reduce
  BY <1>7 DEF Reduce
<1>8. CASE SetStop
  BY <1>8 DEF SetStop
<1>9. CASE Bump
  BY <1>9 DEF Bump
<1>10. CASE Join
  BY <1>10 DEF Join
<1>11. ASSUME NEW r \in Ranks, Notice(r) PROVE WorkerInv'
  BY <1>11 DEF Notice
<1>12. ASSUME NEW r \in Ranks, TestStop(r) PROVE WorkerInv'
  BY <1>12 DEF TestStop
<1>13. ASSUME NEW r \in Ranks, Take(r) PROVE WorkerInv'
  BY <1>13 DEF Take
<1>14. ASSUME NEW r \in Ranks, Launch(r) PROVE WorkerInv'
  BY <1>14 DEF Launch
<1>15. ASSUME NEW r \in Ranks, StoreStatus(r) PROVE WorkerInv'
  BY <1>15 DEF StoreStatus
<1>16. ASSUME NEW r \in Ranks, StoreDone(r) PROVE WorkerInv'
  BY <1>16 DEF StoreDone
<1>17. CASE UNCHANGED vars
  BY <1>17 DEF vars
<1>18. QED
  BY <1>1, <1>2, <1>3, <1>4, <1>5, <1>6, <1>7, <1>8, <1>9, <1>10, <1>11,
     <1>12, <1>13, <1>14, <1>15, <1>16, <1>17
  DEF Next, Caller, Pair, Destructor, Worker

\* The slots keep holding this pair's graphs while a worker may read them.
LEMMA JobStep ==
  TypeOK /\ WorkerInv /\ JobInv /\ [Next]_vars => JobInv'
<1> SUFFICES ASSUME TypeOK, WorkerInv, JobInv, [Next]_vars PROVE JobInv'
  OBVIOUS
<1> USE DEF TypeOK, WorkerInv, JobInv, Ranks, CallerPcs, WorkerPcs, Spinning,
            Resting, AtRest, Behind, Busy, Graph, caller, shared, worker,
            devices, Moves, JobPc
<1>1. CASE Compute
  BY <1>1 DEF Compute
<1>2. ASSUME NEW r \in Ranks, WriteJob(r) PROVE JobInv'
  BY <1>2 DEF WriteJob
<1>3. CASE Publish
  BY <1>3 DEF Publish
<1>4. CASE Spin0
  BY <1>4 DEF Spin0
<1>5. CASE Spin1
  BY <1>5 DEF Spin1
<1>6. CASE Collect
  BY <1>6 DEF Collect
<1>7. CASE Reduce
  BY <1>7 DEF Reduce
<1>8. CASE SetStop
  BY <1>8 DEF SetStop
<1>9. CASE Bump
  BY <1>9 DEF Bump
<1>10. CASE Join
  BY <1>10 DEF Join
<1>11. ASSUME NEW r \in Ranks, Notice(r) PROVE JobInv'
  BY <1>11 DEF Notice
<1>12. ASSUME NEW r \in Ranks, TestStop(r) PROVE JobInv'
  BY <1>12 DEF TestStop
<1>13. ASSUME NEW r \in Ranks, Take(r) PROVE JobInv'
  BY <1>13 DEF Take
<1>14. ASSUME NEW r \in Ranks, Launch(r) PROVE JobInv'
  BY <1>14 DEF Launch
<1>15. ASSUME NEW r \in Ranks, StoreStatus(r) PROVE JobInv'
  BY <1>15 DEF StoreStatus
<1>16. ASSUME NEW r \in Ranks, StoreDone(r) PROVE JobInv'
  BY <1>16 DEF StoreDone
<1>17. CASE UNCHANGED vars
  BY <1>17 DEF vars
<1>18. QED
  BY <1>1, <1>2, <1>3, <1>4, <1>5, <1>6, <1>7, <1>8, <1>9, <1>10, <1>11,
     <1>12, <1>13, <1>14, <1>15, <1>16, <1>17
  DEF Next, Caller, Pair, Destructor, Worker

\* What the devices were given and what the workers report stay in step.
LEMMA DeviceStep ==
  PInv /\ [Next]_vars => DeviceInv'
<1> SUFFICES ASSUME PInv, [Next]_vars PROVE DeviceInv'
  OBVIOUS
<1> USE SubgraphsAssumption
    DEF PInv, TypeOK, WorkerInv, JobInv, DeviceInv, Ranks, CallerPcs,
        WorkerPcs, Spinning, Resting, AtRest, Behind, Busy, Graph, Running,
        Launched, Report, PairFailed, Statuses, caller, shared, worker,
        devices, Moves, JobPc
<1>1. CASE Compute
  BY <1>1 DEF Compute, Nothing
<1>2. ASSUME NEW r \in Ranks, WriteJob(r) PROVE DeviceInv'
  BY <1>2 DEF WriteJob
<1>3. CASE Publish
  BY <1>3 DEF Publish
<1>4. CASE Spin0
  BY <1>4 DEF Spin0
<1>5. CASE Spin1
  BY <1>5 DEF Spin1
<1>6. CASE Collect
  BY <1>6 DEF Collect
<1>7. CASE Reduce
  BY <1>7 DEF Reduce
<1>8. CASE SetStop
  BY <1>8 DEF SetStop
<1>9. CASE Bump
  BY <1>9 DEF Bump
<1>10. CASE Join
  BY <1>10 DEF Join
<1>11. ASSUME NEW r \in Ranks, Notice(r) PROVE DeviceInv'
  BY <1>11 DEF Notice
<1>12. ASSUME NEW r \in Ranks, TestStop(r) PROVE DeviceInv'
  BY <1>12 DEF TestStop
<1>13. ASSUME NEW r \in Ranks, Take(r) PROVE DeviceInv'
  BY <1>13 DEF Take
<1>14. ASSUME NEW r \in Ranks, Launch(r) PROVE DeviceInv'
  BY <1>14 DEF Launch
<1>15. ASSUME NEW r \in Ranks, StoreStatus(r) PROVE DeviceInv'
  BY <1>15 DEF StoreStatus
<1>16. ASSUME NEW r \in Ranks, StoreDone(r) PROVE DeviceInv'
  BY <1>16 DEF StoreDone
<1>17. CASE UNCHANGED vars
  BY <1>17 DEF vars
<1>18. QED
  BY <1>1, <1>2, <1>3, <1>4, <1>5, <1>6, <1>7, <1>8, <1>9, <1>10, <1>11,
     <1>12, <1>13, <1>14, <1>15, <1>16, <1>17
  DEF Next, Caller, Pair, Destructor, Worker

\* PInv is an invariant.
LEMMA Invariant ==
  Spec => []PInv
<1>1. Init => PInv
  <2> SUFFICES ASSUME Init PROVE PInv
    OBVIOUS
  <2>1. TypeOK
    <3>1. 0 \in 0..Subgraphs - 1 /\ 0 \in 0..MaxCalls
      BY SubgraphsAssumption, MaxCallsAssumption
    <3>2. Nothing \in [Ranks -> [0..Subgraphs - 1 -> Nat]]
      BY DEF Nothing
    <3>3. [r \in Ranks |-> NoJob] \in [Ranks -> Slots]
      BY DEF Slots
    <3>4. QED
      BY <3>1, <3>2, <3>3 DEF Init, TypeOK, Statuses, CallerPcs, WorkerPcs
  <2>2. WorkerInv
    BY DEF Init, WorkerInv, Ranks, Spinning, Resting, AtRest
  <2>3. JobInv
    BY DEF Init, JobInv, Spinning
  <2>4. DeviceInv
    BY DEF Init, DeviceInv, Running
  <2>5. QED BY <2>1, <2>2, <2>3, <2>4 DEF PInv
<1>2. PInv /\ [Next]_vars => PInv'
  BY TypeStep, WorkerStep, JobStep, DeviceStep DEF PInv
<1>3. QED BY <1>1, <1>2, PTL DEF Spec

\* Type correctness of the parallel launch, for any number of subgraphs and of
\* calls.
THEOREM LaunchTypeCorrect ==
  Spec => []TypeOK
<1>1. PInv => TypeOK
  BY DEF PInv
<1>2. QED BY <1>1, Invariant, PTL

\* The slots of launch_pair are never written while their worker is about to
\* read them.
THEOREM SlotsNotRaced ==
  Spec => []NoRace
<1>1. PInv => NoRace
  BY DEF PInv, WorkerInv, NoRace, JobPc, Ranks, Resting, AtRest
<1>2. QED BY <1>1, Invariant, PTL

\* Every step is one of Lockstep's, or a stutter.
LEMMA LockstepStep ==
  PInv /\ [Next]_vars => [Devices!Next]_(Devices!vars)
<1> SUFFICES ASSUME PInv, [Next]_vars PROVE [Devices!Next]_(Devices!vars)
  OBVIOUS
<1> USE DEF PInv, TypeOK, WorkerInv, JobInv, DeviceInv, Ranks, Spinning,
            Resting, AtRest, Behind, Busy, Graph, Running, Launched, Report,
            CallerPcs, WorkerPcs, caller, shared, worker, devices, Moves, JobPc,
            Devices!vars
<1>1. CASE Compute
  BY <1>1 DEF Compute, Devices!Next, Devices!Begin, Devices!Nothing, Nothing
<1>2. ASSUME NEW r \in Ranks, WriteJob(r) PROVE [Devices!Next]_(Devices!vars)
  BY <1>2 DEF WriteJob
<1>3. CASE Publish
  BY <1>3 DEF Publish
<1>4. CASE Spin0
  BY <1>4 DEF Spin0
<1>5. CASE Spin1
  BY <1>5 DEF Spin1
<1>6. CASE Collect
  <2>1. answer = "running" /\ reduced = index /\ Devices!BothLaunched
    BY <1>6 DEF Collect, Devices!BothLaunched
  <2>2. PairFailed <=> failed # {}
    <3>1. \A r \in Ranks : <<r, index>> \in failed <=> status[r] = "failure"
      BY <1>6 DEF Collect
    <3>2. \A f \in failed : \E r \in Ranks : f = <<r, index>>
      BY <1>6 DEF Collect
    <3>3. QED BY <3>1, <3>2 DEF PairFailed
  <2>3. QED BY <1>6, <2>1, <2>2 DEF Collect, Devices!Next, Devices!Answer
<1>7. CASE Reduce
  BY <1>7 DEF Reduce, Devices!Next, Devices!Reduce, Devices!BothLaunched
<1>8. CASE SetStop
  BY <1>8 DEF SetStop
<1>9. CASE Bump
  BY <1>9 DEF Bump
<1>10. CASE Join
  BY <1>10 DEF Join
<1>11. ASSUME NEW r \in Ranks, Notice(r) PROVE [Devices!Next]_(Devices!vars)
  BY <1>11 DEF Notice
<1>12. ASSUME NEW r \in Ranks, TestStop(r) PROVE [Devices!Next]_(Devices!vars)
  BY <1>12 DEF TestStop
<1>13. ASSUME NEW r \in Ranks, Take(r) PROVE [Devices!Next]_(Devices!vars)
  BY <1>13 DEF Take
<1>14. ASSUME NEW r \in Ranks, Launch(r) PROVE [Devices!Next]_(Devices!vars)
  <2>1. wpc[r] = "launch"
    BY <1>14 DEF Launch
  <2>2. Spinning
    BY <2>1
  <2>3. job[r] = Graph(r)
    BY <2>1, <2>2
  <2>4. Spinning /\ ~Launched(r) /\ job[r].rank = r /\ job[r].graph = index
    BY <2>1, <2>2, <2>3
  <2>5. answer = "running" /\ launches[r][reduced] = 0 /\ reduced = index
    BY <2>4
  <2>6. launches' = [launches EXCEPT ![r][reduced] = 1]
    <3> DEFINE q == job[r].rank
               g == job[r].graph
    <3>1. launches' = [launches EXCEPT ![q][g] = launches[q][g] + 1]
      BY <1>14 DEF Launch
    <3>2. q = r /\ g = reduced
      BY <2>4, <2>5
    <3> HIDE DEF q, g
    <3>3. launches[q][g] + 1 = 1
      BY <2>5, <3>2
    <3>4. QED BY <3>1, <3>2, <3>3
  <2>7. failed' \in {failed, failed \cup {<<r, reduced>>}}
    BY <1>14, <2>4, <2>5 DEF Launch
  <2>8. Devices!Launch(r)
    BY <1>14, <2>5, <2>6, <2>7 DEF Launch, Devices!Launch
  <2>9. QED BY <2>8 DEF Devices!Next
<1>15. ASSUME NEW r \in Ranks, StoreStatus(r)
       PROVE  [Devices!Next]_(Devices!vars)
  BY <1>15 DEF StoreStatus
<1>16. ASSUME NEW r \in Ranks, StoreDone(r) PROVE [Devices!Next]_(Devices!vars)
  BY <1>16 DEF StoreDone
<1>17. CASE UNCHANGED vars
  BY <1>17 DEF vars
<1>18. QED
  BY <1>1, <1>2, <1>3, <1>4, <1>5, <1>6, <1>7, <1>8, <1>9, <1>10, <1>11,
     <1>12, <1>13, <1>14, <1>15, <1>16, <1>17
  DEF Next, Caller, Pair, Destructor, Worker

\* For the devices, launching in parallel is launching in lockstep.
THEOREM ParallelLaunchIsLockstep ==
  Spec => LockstepSpec
<1>1. Init => Devices!Init
  BY DEF Init, Devices!Init, Nothing, Devices!Nothing
<1>2. PInv /\ [Next]_vars => [Devices!Next]_(Devices!vars)
  BY LockstepStep
<1>3. QED BY <1>1, <1>2, Invariant, PTL DEF Spec, LockstepSpec, Devices!Spec

-------------------------------------------------------------------------------
(* Nobody waits for ever.  CallReturns and DestructorReturns need fairness *)
(* and are left to TLC; what the code contributes to them is proved: who   *)
(* is waited for can move, and what is left to do goes down.               *)

\* A worker goes on unless it polls a generation it has seen, or is gone.
CanStep(r) ==
  /\ wpc[r] # "exited"
  /\ wpc[r] = "poll" => generation # seen[r]

\* The workers launch_pair spins for, or the destructor joins.
Awaited(r) ==
  \/ Spinning /\ done[r] # generation
  \/ pc = "join" /\ wpc[r] # "exited"

AwaitedCanStep == \A r \in Ranks : Awaited(r) => CanStep(r)

\* The steps a worker makes for one generation; a poll that sees nothing new
\* is none.
WorkerLeft == [r \in Ranks |->
  IF CanStep(r)
  THEN IF wpc[r] = "poll" THEN 6 ELSE IF wpc[r] = "stop" THEN 5
       ELSE IF wpc[r] = "take" THEN 4 ELSE IF wpc[r] = "launch" THEN 3
       ELSE IF wpc[r] = "status" THEN 2 ELSE 1
  ELSE 0]

\* Where the generation is yet to be published, the workers' twelve steps count
\* as the caller's.
PairLeft ==
  IF pc = "job0" THEN 18 ELSE IF pc = "job1" THEN 17 ELSE IF pc = "publish" THEN 16
  ELSE IF Spinning THEN 3 ELSE IF pc = "collect" THEN 2 ELSE 1

CallerLeft ==
  IF Running THEN 18 * (Subgraphs - 1 - index) + PairLeft
  ELSE IF pc = "bump" THEN 14 ELSE IF pc = "join" THEN 1 ELSE 0

WorkLeft == CallerLeft + WorkerLeft[0] + WorkerLeft[1]

LeavesLess == WorkLeft \in Nat /\ WorkLeft' \in Nat /\ WorkLeft' < WorkLeft

\* A turn of launch_pair's spin, which changes nothing but where it reads.
SpinTurn == Spinning /\ Spinning' /\ UNCHANGED <<index, calls, shared, worker>>

\* No lost wake-up: a worker that launch_pair spins for or the destructor joins
\* has not missed the generation, so it can go on and answer.
THEOREM NoWakeUpLost ==
  Spec => []AwaitedCanStep
<1>1. ASSUME TypeOK, WorkerInv, NEW r \in Ranks, Awaited(r)
      PROVE  CanStep(r)
  <2>1. generation \in Nat /\ seen[r] \in Nat
    BY <1>1 DEF TypeOK
  <2>2. CASE Spinning
    BY <1>1, <2>1, <2>2 DEF Awaited, CanStep, WorkerInv, Spinning, AtRest,
                            Behind, Busy
  <2>3. CASE pc = "join"
    BY <1>1, <2>1, <2>3 DEF Awaited, CanStep, WorkerInv, Spinning
  <2>4. QED BY <1>1, <2>2, <2>3 DEF Awaited
<1>2. PInv => AwaitedCanStep
  BY <1>1 DEF PInv, AwaitedCanStep
<1>3. QED BY <1>2, Invariant, PTL

\* The measure is a natural number.
LEMMA WorkerLeftRange ==
  \A r \in Ranks : WorkerLeft[r] \in 0..6 /\ WorkerLeft'[r] \in 0..6
BY DEF WorkerLeft

LEMMA CallerLeftNat ==
  /\ TypeOK => CallerLeft \in Nat
  /\ TypeOK' => CallerLeft' \in Nat
<1>1. \A i \in 0..Subgraphs - 1, k \in 1..18 : 18 * (Subgraphs - 1 - i) + k \in Nat
  BY SubgraphsAssumption
<1>2. 0 \in Nat /\ 1 \in Nat /\ 14 \in Nat
  OBVIOUS
<1>3. PairLeft \in 1..18 /\ PairLeft' \in 1..18
  BY DEF PairLeft
<1>4. TypeOK => CallerLeft \in Nat
  BY <1>1, <1>2, <1>3, Zenon DEF TypeOK, CallerLeft
<1>5. TypeOK' => CallerLeft' \in Nat
  BY <1>1, <1>2, <1>3, Zenon DEF TypeOK, CallerLeft
<1>6. QED BY <1>4, <1>5

LEMMA WorkLeftNat ==
  TypeOK /\ TypeOK' => WorkLeft \in Nat /\ WorkLeft' \in Nat
<1> SUFFICES ASSUME TypeOK, TypeOK' PROVE WorkLeft \in Nat /\ WorkLeft' \in Nat
  OBVIOUS
<1>1. /\ \A r \in Ranks : WorkerLeft[r] \in 0..6 /\ WorkerLeft'[r] \in 0..6
      /\ CallerLeft \in Nat /\ CallerLeft' \in Nat
  BY WorkerLeftRange, CallerLeftNat
<1>2. QED BY <1>1 DEF WorkLeft, Ranks

\* The caller's steps, but for the requests and the spin's turns.
LEMMA CallerStepsDown ==
  ASSUME PInv, TypeOK', Pair \/ Bump \/ Join
  PROVE  SpinTurn \/ WorkLeft' < WorkLeft
<1>0. /\ TypeOK /\ index \in 0..Subgraphs - 1 /\ index' \in 0..Subgraphs - 1
      /\ pc = "reduce" => index + 1 < Subgraphs
  BY DEF PInv, TypeOK, DeviceInv
<1>r. /\ \A r \in Ranks : WorkerLeft[r] \in 0..6 /\ WorkerLeft'[r] \in 0..6
      /\ CallerLeft \in Nat /\ CallerLeft' \in Nat
  BY <1>0, WorkerLeftRange, CallerLeftNat
<1>w. ASSUME UNCHANGED <<generation, wpc, seen>>, CallerLeft' < CallerLeft
      PROVE  WorkLeft' < WorkLeft
  <2>1. \A r \in Ranks : WorkerLeft'[r] = WorkerLeft[r]
    BY <1>w DEF WorkerLeft, CanStep
  <2>2. QED BY <1>r, <1>w, <2>1 DEF WorkLeft, Ranks
<1>p. ASSUME CallerLeft' + 12 < CallerLeft, WorkerLeft[0] = 0, WorkerLeft[1] = 0
      PROVE  WorkLeft' < WorkLeft
  <2>1. WorkerLeft'[0] \in 0..6 /\ WorkerLeft'[1] \in 0..6
    BY <1>r DEF Ranks
  <2>2. \A a, b \in Nat, c, d \in 0..6 :
          a + 12 < b => \A e, f : e = 0 /\ f = 0 => a + c + d < b + e + f
    OBVIOUS
  <2>3. QED BY <1>r, <1>p, <2>1, <2>2, Zenon DEF WorkLeft
<1>a. pc \in {"publish", "bump"} => WorkerLeft[0] = 0 /\ WorkerLeft[1] = 0
  BY DEF PInv, WorkerInv, Ranks, Resting, AtRest, WorkerLeft, CanStep
<1> USE SubgraphsAssumption
    DEF Spinning, Running, JobPc, CallerLeft, PairLeft, shared, worker
<1>1. ASSUME NEW r \in Ranks, WriteJob(r) PROVE WorkLeft' < WorkLeft
  BY <1>0, <1>1, <1>w DEF WriteJob
<1>2. CASE Publish
  BY <1>0, <1>2, <1>p, <1>a DEF Publish
<1>3. CASE Spin0
  BY <1>3 DEF Spin0, SpinTurn, caller
<1>4. CASE Spin1
  BY <1>0, <1>4, <1>w DEF Spin1, SpinTurn
<1>5. CASE Collect
  BY <1>0, <1>5, <1>w DEF Collect
<1>6. CASE Reduce
  BY <1>0, <1>6, <1>w DEF Reduce
<1>7. CASE Bump
  BY <1>7, <1>p, <1>a DEF Bump
<1>8. CASE Join
  BY <1>8, <1>w DEF Join
<1>9. QED
  BY <1>1, <1>2, <1>3, <1>4, <1>5, <1>6, <1>7, <1>8 DEF Pair

\* A worker's steps: it uses up one of its own, and of nobody else's.
LEMMA WorkerStepsDown ==
  ASSUME PInv, TypeOK', NEW r \in Ranks, Worker(r)
  PROVE  WorkLeft' < WorkLeft
<1>1. /\ TypeOK /\ pc' = pc /\ index' = index /\ generation' = generation
      /\ wpc' = [wpc EXCEPT ![r] = wpc'[r]]
      /\ seen' = [seen EXCEPT ![r] = seen'[r]]
  BY DEF PInv, TypeOK, Worker, Notice, TestStop, Take, Launch, StoreStatus,
         StoreDone, Moves, caller, shared, worker
<1>2. CallerLeft' = CallerLeft
  BY <1>1 DEF CallerLeft, PairLeft, Running, Spinning
<1>3. \A q \in Ranks : q # r => WorkerLeft'[q] = WorkerLeft[q]
  BY <1>1 DEF WorkerLeft, CanStep, TypeOK
<1>4. WorkerLeft'[r] < WorkerLeft[r]
  BY <1>1 DEF PInv, TypeOK, WorkerInv, Spinning, Resting, AtRest, Behind, Busy,
              CallerPcs, WorkerPcs, WorkerLeft, CanStep, Worker, Notice,
              TestStop, Take, Launch, StoreStatus, StoreDone, Moves, shared,
              caller, worker
<1>5. /\ \A q \in Ranks : WorkerLeft[q] \in 0..6
      /\ \A q \in Ranks : WorkerLeft'[q] \in 0..6
  BY DEF WorkerLeft
<1>6. CallerLeft \in Nat
  BY <1>1, CallerLeftNat
<1>7. QED BY <1>2, <1>3, <1>4, <1>5, <1>6 DEF WorkLeft, Ranks

\* No livelock: between the requests, every step that is not a turn of the spin
\* leaves less to do in this call or this destructor.
THEOREM WorkGoesDown ==
  Spec => [][Compute \/ SetStop \/ SpinTurn \/ LeavesLess]_vars
<1>1. PInv /\ PInv' /\ [Next]_vars
        => [Compute \/ SetStop \/ SpinTurn \/ LeavesLess]_vars
  <2> SUFFICES ASSUME PInv, PInv', Next, ~Compute, ~SetStop, ~SpinTurn
               PROVE  LeavesLess
    OBVIOUS
  <2>1. WorkLeft \in Nat /\ WorkLeft' \in Nat
    BY WorkLeftNat DEF PInv
  <2>2. WorkLeft' < WorkLeft
    BY CallerStepsDown, WorkerStepsDown DEF PInv, Next, Caller, Destructor
  <2>3. QED BY <2>1, <2>2 DEF LeavesLess
<1>2. QED BY <1>1, Invariant, PTL DEF Spec

===============================================================================
