--------------------------- MODULE QuickGateProofs ---------------------------
(***************************************************************************)
(* Proofs about QuickGate, for any number of gates, directories, ports,    *)
(* polls and faults.                                                       *)
(*                                                                         *)
(* The safety invariants are not inductive as they stand.  That two gates  *)
(* never measure with both servers on the GPUs rests on what each of them  *)
(* saw when it looked: a gate whose own process was the only one listed    *)
(* has a server past its startup, so that it cannot come to the GPUs       *)
(* later, and the servers it did not see are either gone for good          *)
(* (external ones are never restarted) or have a gate that will look.      *)
(***************************************************************************)
EXTENDS QuickGate, TLAPS

BeforeLaunch == {"lock", "port", "gpus", "launch"}
ManagedOnly == {"port", "gpus", "launch", "poll", "owned"}

\* An external gate skips the steps about a process of its own, and its
\* server is never started again.
External(g) == ~Managed(g) => /\ pc[g] \notin ManagedOnly
                              /\ srv[g] \in {"ready", "gone"}

\* A managed gate's server: none before the launch, on the GPUs or gone once
\* requests are sent, gone once the log is scanned.
Owned(g) == Managed(g) =>
  /\ pc[g] \in BeforeLaunch => srv[g] = "none"
  /\ pc[g] \in CaseSteps => srv[g] \in {"loading", "ready", "gone"}
  /\ pc[g] \in {"scan", "done"} => ~Alive(g)
  /\ ~strayed[g]

Verdict(g) == Managed(g) /\ exit[g] = 0 => pc[g] = "done" /\ ~logged[g]

\* What a gate at work excludes for every other gate.
Alone(g, h) == g # h /\ Managed(g) /\ pc[g] \in CaseSteps =>
  /\ ~Managed(h) => srv[h] = "gone"
  /\ srv[h] = "ready" => setup[h].port # setup[g].port
  /\ pc[h] \in CaseSteps => ~(g \in OnGpus /\ h \in OnGpus)

GInv == /\ \A g \in Gates : External(g) /\ Owned(g) /\ Verdict(g)
        /\ \A g, h \in Gates : Alone(g, h)

-----------------------------------------------------------------------------
\* No case is run after the last one: what the bound of cases rests on.
CasesLeft(g) == pc[g] \in {"lock"} \cup TrySteps => cases[g] < Cases
TInv == TypeOK /\ \A g \in Gates : CasesLeft(g)

\* The variables have their types in every reachable state.
LEMMA TypeStep == TInv /\ [Next]_vars => TInv'
<1> SUFFICES ASSUME TInv, [Next]_vars PROVE TInv'
  OBVIOUS
<1> USE GateAssumption DEF TInv, TypeOK, CasesLeft, Ended, Signals, TrySteps,
        CaseSteps, NoExit, Cases, Goto, Raise, Finally, server, report
<1>1. ASSUME NEW g \in Gates, Lock(g) PROVE TInv'
  BY <1>1 DEF Lock
<1>2. ASSUME NEW g \in Gates, CheckPort(g) \/ CheckGpus(g) \/ CheckOwned(g)
      PROVE TInv'
  BY <1>2 DEF CheckPort, CheckGpus, CheckOwned
<1>3. ASSUME NEW g \in Gates, Launch(g) PROVE TInv'
  BY <1>3 DEF Launch
<1>4. ASSUME NEW g \in Gates, PollProcess(g) \/ PollHealth(g) PROVE TInv'
  BY <1>4 DEF PollProcess, PollHealth, Late
<1>5. ASSUME NEW g \in Gates, Ask(g) \/ Reply(g) PROVE TInv'
  BY <1>5 DEF Ask, Reply, Calls
<1>6. ASSUME NEW g \in Gates, Record(g) PROVE TInv'
  <2> USE <1>6 DEF Record
  <2>1. good' \in [Gates -> BOOLEAN] /\ passed' \in [Gates -> BOOLEAN]
    <3>1. CASE Raise(g) /\ UNCHANGED <<report, strayed>>
      BY <3>1
    <3>2. ASSUME NEW ok \in BOOLEAN,
                 good' = [good EXCEPT ![g] = @ /\ ok /\ ~logged[g]]
          PROVE good' \in [Gates -> BOOLEAN]
      BY <3>2, Zenon
    <3>3. ASSUME good' \in [Gates -> BOOLEAN],
                 passed' = [passed EXCEPT ![g] = good'[g]] \/ UNCHANGED passed
          PROVE passed' \in [Gates -> BOOLEAN]
      BY <3>3
    <3> QED
      BY <3>1, <3>2, <3>3
  <2>2. strayed' \in [Gates -> BOOLEAN]
    BY DEF Calls
  <2>3. cases' \in [Gates -> 0..Cases]
    BY DEF LastCase
  <2>4. pc' \in [Gates -> {"lock", "scan"} \cup TrySteps \cup Signals
                           \cup Ended]
    OBVIOUS
  <2>5. \A h \in Gates : CasesLeft(h)'
    BY DEF LastCase
  <2> QED
    BY <2>1, <2>2, <2>3, <2>4, <2>5
<1>7. ASSUME NEW g \in Gates, AwaitExit(g) PROVE TInv'
  BY <1>7 DEF AwaitExit, Fault
<1>8. ASSUME NEW g \in Gates, Finish(g) PROVE TInv'
  <2>1. passed' \in [Gates -> BOOLEAN]
    BY <1>8, Zenon DEF Finish
  <2>2. exit' \in [Gates -> NoExit..2]
    BY <1>8 DEF Finish
  <2> QED
    BY <1>8, <2>1, <2>2 DEF Finish
<1>9. ASSUME NEW g \in Gates, Server(g) PROVE TInv'
  BY <1>9 DEF Server, Bind, LoadModel, BecomeReady, Obey, Fall, Fault
<1>10. ASSUME NEW g \in Gates, PrintMarker(g) \/ Flush(g) PROVE TInv'
  BY <1>10 DEF PrintMarker, Flush
<1>11. ASSUME NEW g \in Gates, Interrupt(g) \/ Kill(g) PROVE TInv'
  BY <1>11 DEF Interrupt, Kill, Fault
<1>12. CASE UNCHANGED vars
  BY <1>12 DEF vars
<1> QED
  BY <1>1, <1>2, <1>3, <1>4, <1>5, <1>6, <1>7, <1>8, <1>9, <1>10, <1>11,
     <1>12 DEF Next, Gate, Environment

LEMMA TypeInit == Init => TInv
  BY GateAssumption DEF Init, TInv, TypeOK, CasesLeft, NoExit, Cases, TrySteps,
     CaseSteps

\* Every variable of QuickGate stays within its type, with any number of
\* gates; in particular no gate runs more than its three cases.
THEOREM GateTypeCorrect == Spec => []TypeOK
<1>1. TInv => TypeOK
  BY DEF TInv
<1> QED
  BY <1>1, TypeInit, TypeStep, PTL DEF Spec

-----------------------------------------------------------------------------
LEMMA GateInit == Init => GInv
  BY DEF Init, GInv, External, Owned, Verdict, Alone, Alive, Managed,
     BeforeLaunch, ManagedOnly, CaseSteps, NoExit

LEMMA GateStep == TypeOK /\ GInv /\ [Next]_vars => GInv'
<1> SUFFICES ASSUME TypeOK, GInv, [Next]_vars PROVE GInv'
  OBVIOUS
<1> USE DEF TypeOK, GInv, External, Owned, Verdict, Alone, Alive, Managed, OnGpus,
        BeforeLaunch, ManagedOnly, Ended, Signals, TrySteps, CaseSteps, NoExit,
        Goto, Raise, Finally, server, report
<1>1. ASSUME NEW g \in Gates, Lock(g) PROVE GInv'
  BY <1>1 DEF Lock
<1>2. ASSUME NEW g \in Gates, CheckPort(g) \/ CheckGpus(g) PROVE GInv'
  BY <1>2 DEF CheckPort, CheckGpus
<1>3. ASSUME NEW g \in Gates, Launch(g) PROVE GInv'
  BY <1>3 DEF Launch
<1>4. ASSUME NEW g \in Gates, PollProcess(g) \/ PollHealth(g) PROVE GInv'
  BY <1>4 DEF PollProcess, PollHealth
<1>5. ASSUME NEW g \in Gates, CheckOwned(g) PROVE GInv'
  BY <1>5 DEF CheckOwned, OnlyOwned
<1>6. ASSUME NEW g \in Gates, Ask(g) \/ Reply(g) PROVE GInv'
  <2>1. strayed'[g] => strayed[g] \/ \E h \in Answerers(g) : h # g
    BY <1>6, Zenon DEF Ask, Reply, Calls
  <2> QED
    BY <1>6, <2>1 DEF Ask, Reply, Calls, Answerers, OnPort
<1>7. ASSUME NEW g \in Gates, Record(g) PROVE GInv'
  BY <1>7 DEF Record, Calls, Answerers, OnPort
<1>8. ASSUME NEW g \in Gates, AwaitExit(g) PROVE GInv'
  BY <1>8 DEF AwaitExit
<1>9. ASSUME NEW g \in Gates, Finish(g) PROVE GInv'
  <2>1. passed'[g] = (passed[g] /\ ~logged[g])
    BY <1>9, Zenon DEF Finish
  <2>2. exit'[g] = 0 => ~logged[g]
    <3>1. passed'[g] => ~logged[g]
      BY <2>1, Zenon
    <3>2. exit'[g] = IF passed'[g] THEN 0 ELSE 1
      BY <1>9, Zenon DEF Finish
    <3>3. CASE passed'[g]
      BY <3>1, <3>3, Zenon
    <3>4. CASE ~passed'[g]
      <4>1. exit'[g] = 1
        BY <3>2, <3>4, Zenon
      <4> QED
        BY <4>1
    <3> QED
      BY <3>3, <3>4, Zenon
  <2>3. \A h \in Gates : Verdict(h)'
    BY <1>9, <2>2 DEF Finish
  <2>4. \A h \in Gates : External(h)' /\ Owned(h)'
    BY <1>9 DEF Finish
  <2>5. \A h, i \in Gates : Alone(h, i)'
    BY <1>9 DEF Finish
  <2> QED
    BY <2>3, <2>4, <2>5
<1>10. ASSUME NEW g \in Gates, Bind(g) \/ LoadModel(g) \/ BecomeReady(g)
       PROVE GInv'
  BY <1>10 DEF Bind, LoadModel, BecomeReady
<1>11. ASSUME NEW g \in Gates, Obey(g) \/ Fall(g) PROVE GInv'
  BY <1>11 DEF Obey, Fall
<1>12. ASSUME NEW g \in Gates, PrintMarker(g) \/ Flush(g) PROVE GInv'
  BY <1>12 DEF PrintMarker, Flush
<1>13. ASSUME NEW g \in Gates, Interrupt(g) \/ Kill(g) PROVE GInv'
  BY <1>13 DEF Interrupt, Kill, Holds
<1>14. CASE UNCHANGED vars
  BY <1>14 DEF vars
<1> QED
  BY <1>1, <1>2, <1>3, <1>4, <1>5, <1>6, <1>7, <1>8, <1>9, <1>10, <1>11,
     <1>12, <1>13, <1>14 DEF Next, Gate, Server, Environment

LEMMA GateInvariant == Spec => [](TypeOK /\ GInv)
  BY GateTypeCorrect, GateInit, GateStep, PTL DEF Spec

\* Two gates of which one is managed never send requests while the servers of
\* both are on the GPUs, for any number of gates: the checks of start_server
\* race, and assert_only_owned_gpu_process makes up for it.
THEOREM WorkIsAlone == Spec => []AloneAtWork
<1>1. GInv => AloneAtWork
  BY DEF GInv, Alone, AloneAtWork, External, OnGpus
<1> QED
  BY <1>1, GateInvariant, PTL

\* A managed gate sends no request to another gate's server, whatever the
\* directories and ports of the gates.
THEOREM OwnServerAnswers == Spec => []OwnServer
<1>1. GInv => OwnServer
  BY DEF GInv, Owned, OwnServer
<1> QED
  BY <1>1, GateInvariant, PTL

\* A gate that ended by itself left no server of its own behind.
THEOREM NoServerLeft == Spec => []ServerGone
<1>1. GInv => ServerGone
  BY DEF GInv, Owned, ServerGone
<1> QED
  BY <1>1, GateInvariant, PTL

\* The log of a managed server whose gate passed has no fatal marker, and gets
\* none later, because it is scanned once nothing can write to it.
THEOREM NoMarkerAfterPass == Spec => []PassIsClean
<1>1. GInv => PassIsClean
  BY DEF GInv, Verdict, PassIsClean
<1> QED
  BY <1>1, GateInvariant, PTL
-----------------------------------------------------------------------------
(* Ends needs fairness and is left to TLC; that no gate goes round in      *)
(* circles is proved, with a measure of what each has left to do.          *)

StepsLeft ==
  [done |-> 0, failed |-> 0, killed |-> 0, scan |-> 1, sigkill |-> 2,
   sigterm |-> 3, sigint |-> 4, record |-> 5, reply |-> 6, ask |-> 7,
   owned |-> 8, health |-> 9, poll |-> 10, launch |-> 11, gpus |-> 12,
   port |-> 13, lock |-> 14]

\* The way to the end from here, the cases to be run and the polls to be made.
GateLeft == [g \in Gates |-> StepsLeft[pc[g]] + 3 * (Cases - cases[g])
                               + 2 * (MaxPolls - polls[g])]

Acts(g) == Gate(g) \/ Interrupt(g) \/ Kill(g)
ComesNearer ==
  \A g \in Gates : IF Acts(g) THEN GateLeft'[g] < GateLeft[g]
                   ELSE GateLeft'[g] = GateLeft[g]

\* A gate that acts lowers its own measure.
LEMMA ActLeavesLess ==
  ASSUME TypeOK, NEW g \in Gates, Acts(g)
  PROVE  GateLeft'[g] < GateLeft[g]
<1>1. /\ cases[g] \in Int /\ polls[g] \in Int /\ MaxPolls \in Int
      /\ polls[g] <= MaxPolls
  BY GateAssumption DEF TypeOK, Cases
<1>2. SUFFICES StepsLeft[pc'[g]] + 3 * (Cases - cases'[g])
                   + 2 * (MaxPolls - polls'[g])
                 < StepsLeft[pc[g]] + 3 * (Cases - cases[g])
                   + 2 * (MaxPolls - polls[g])
  BY DEF GateLeft
<1> USE <1>1 DEF TypeOK, StepsLeft, Cases, Ended, Signals, TrySteps, CaseSteps,
        Goto, Raise, Finally, report
<1>3. CASE Lock(g)
  BY <1>3 DEF Lock
<1>4. CASE CheckPort(g) \/ CheckGpus(g) \/ CheckOwned(g)
  BY <1>4 DEF CheckPort, CheckGpus, CheckOwned
<1>5. CASE Launch(g)
  BY <1>5 DEF Launch
<1>6. CASE PollProcess(g)
  BY <1>6 DEF PollProcess
<1>7. CASE PollHealth(g)
  BY <1>7 DEF PollHealth, Late
<1>8. CASE Ask(g) \/ Reply(g)
  BY <1>8 DEF Ask, Reply
<1>9. CASE Record(g)
  BY <1>9 DEF Record
<1>10. CASE AwaitExit(g)
  BY <1>10 DEF AwaitExit
<1>11. CASE Finish(g)
  BY <1>11 DEF Finish
<1>12. CASE Interrupt(g)
  BY <1>12 DEF Interrupt
<1>13. CASE Kill(g)
  BY <1>13 DEF Kill, Holds
<1> QED
  BY <1>3, <1>4, <1>5, <1>6, <1>7, <1>8, <1>9, <1>10, <1>11, <1>12, <1>13
     DEF Acts, Gate

\* Nobody but the gate moves it.
LEMMA OthersLeaveIt ==
  ASSUME TypeOK, [Next]_vars, NEW g \in Gates, ~Acts(g)
  PROVE  GateLeft'[g] = GateLeft[g]
<1>1. SUFFICES pc'[g] = pc[g] /\ cases'[g] = cases[g] /\ polls'[g] = polls[g]
  BY DEF GateLeft
<1> USE DEF TypeOK, Goto, Raise, Finally, report
<1>2. ASSUME NEW h \in Gates, Acts(h)
      PROVE  pc'[g] = pc[g] /\ cases'[g] = cases[g] /\ polls'[g] = polls[g]
  <2>1. h # g
    BY <1>2
  <2> QED
    BY <1>2, <2>1 DEF Acts, Gate, Lock, CheckPort, CheckGpus, CheckOwned,
       Launch, PollProcess, PollHealth, Ask, Reply, Record, AwaitExit, Finish,
       Interrupt, Kill
<1>3. ASSUME NEW h \in Gates, Server(h) \/ PrintMarker(h) \/ Flush(h)
      PROVE  UNCHANGED <<pc, cases, polls>>
  BY <1>3 DEF Server, Bind, LoadModel, BecomeReady, Obey, Fall, PrintMarker,
     Flush
<1>4. CASE UNCHANGED vars
  BY <1>4 DEF vars
<1> QED
  BY <1>2, <1>3, <1>4 DEF Next, Environment, Acts

\* No livelock: whatever servers, other gates and signals do, a gate has at
\* most 23 + 2 * MaxPolls steps of its own, and nobody sets it back; with the
\* fairness of its process, it ends.
THEOREM GatesComeToAnEnd == Spec => [][ComesNearer]_vars
<1>1. TypeOK /\ [Next]_vars => [ComesNearer]_vars
  BY ActLeavesLess, OthersLeaveIt DEF ComesNearer
<1> QED
  BY <1>1, GateTypeCorrect, PTL DEF Spec
=============================================================================
