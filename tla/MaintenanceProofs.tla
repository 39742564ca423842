-------------------------- MODULE MaintenanceProofs --------------------------
(***************************************************************************)
(* Theorems about Maintenance, for every choice of the bounds and of the   *)
(* kinds of fault.  What a property excepts is part of it, as a condition  *)
(* on the faults that have happened: the invariants below are conditional  *)
(* in the same way, and a condition once false stays false (FaultsGrow).   *)
(***************************************************************************)
EXTENDS Maintenance, TLAPS

-----------------------------------------------------------------------------
(* The inductive invariants                                                *)

\* Around an arming and a release of the Tokyo watchdog: what each step of
\* gate_ingress may rely on, so that file = "maint" is never left unguarded.
GateInv ==
  /\ GateNeverStranded
  /\ pc \in {"snapshot", "prepare", "arm", "install", "reopened"}
       => file # "maint"
  /\ pc \in {"arm", "install"} => backup
  /\ pc = "install" => watchdog = "sleep"

\* Where production may be when, and who may still open the ingress.
ProductionInv ==
  /\ pc \in {"snapshot", "prepare", "arm", "install", "recheck", "verify",
             "drain", "armProduction", "stop",
             "disarm", "gateway", "reopened"} => prod = "up"
  /\ ~originalInspect => /\ prod = "up"
                         /\ pc \in {"snapshot", "cleanup", "production",
                                    "gateway", "release", "done", "dead"}
  /\ pc = "snapshot" => ~gatewayGated
  /\ gatewayGated => originalInspect
  /\ prod = "stopping" => /\ pc \in {"stopWait", "dead"}
                          /\ productionWatchdog = "sleep"
                          /\ watchdog \in {"off", "sleep"}
  /\ watchdog \in {"loop", "checked", "copy"} => pc \notin BeforeStop
  /\ watchdog = "copy" => prod = "up"
  /\ productionWatchdog \in {"awake", "removed"} => pc \notin BeforeStop
  /\ pc = "stop" => productionWatchdog = "sleep"
  /\ prod = "down" => productionWatchdog # "off" \/ "dockerStart" \in faults

\* The gate is shut from the installation to the stop, and while production
\* is out of service; the drain leaves nothing behind it.
TrafficInv ==
  /\ pc \in {"verify", "drain", "armProduction", "stop"} => Gated(file)
  /\ pc \in {"drain", "armProduction", "stop"} => Gated(loaded)
  /\ prod # "up" => Gated(file) /\ Gated(loaded) /\ transit = 0 /\ queued = 0
  /\ pc \in {"snapshot", "prepare", "arm", "install", "recheck", "verify"}
       => stable = 0
  /\ pc = "drain" /\ transit > 0 => stable <= age
  /\ pc \in {"armProduction", "stop"} => transit = 0 /\ queued = 0

\* Both hold until production is unplugged.
PluggedInv == Unplugged \/ (ProductionInv /\ TrafficInv)

WindowInv == TypeOK /\ PluggedInv

-----------------------------------------------------------------------------
(* Frames: which steps touch which host                                    *)

\* The orchestrator's own variables change only while it runs or dies.
OrchestratorSteps == Snapshot \/ Prepare \/ ArmWatchdog \/ Install \/ Recheck
  \/ VerifyGate \/ PollIdle \/ PollBusy \/ DrainFails \/ ArmProductionWatchdog
  \/ StopProduction \/ StopReturns \/ VerifyStopped \/ CheckVariant \/
  LaunchCandidate \/ AwaitCandidate \/ RunGate \/ RemoveCandidate \/ Settle \/
  CleanupCandidates \/ RestoreProduction \/ ConfirmProduction \/
  DisarmProduction \/ RestoreGateway \/ ConfirmGateway \/ Release \/ Die

\* What Orchestrator keeps in memory changes only by its own steps or death.
LEMMA OrchestratorFrame ==
  [Next]_vars => \/ OrchestratorSteps
                 \/ UNCHANGED <<control, flags, ownedCandidates, variant,
                                draining>>
BY DEF OrchestratorSteps, Next, Orchestrator, TokyoWatchdog, WzuWatchdog,
       Container, Serve, Environment, WatchdogWakes, WatchdogTestsHash,
       WatchdogProbes, WatchdogReopens, ProductionWatchdogWakes,
       ProductionWatchdogRemoves, ProductionWatchdogStarts, ContainerStops,
       ContainerReady, Arrive, Answer, Admit, OperatorEdits, Deployment,
       DeployStops, DeployStarts, DeployEnds, DeployRollsBack, control, flags,
       candidates, draining, caddy, wzuDog, container, traffic, vars, Poll,
       Goto, Raise, RestoreError, Fault

\* The Caddyfile, its backup and the Tokyo watchdog.
TokyoSteps == Prepare \/ ArmWatchdog \/ Install \/ Recheck \/ RestoreGateway
  \/ ConfirmGateway \/ WatchdogWakes \/ WatchdogTestsHash \/ WatchdogProbes \/
  WatchdogReopens \/ OperatorEdits

\* The files on Tokyo and its watchdog change only by the steps listed.
LEMMA TokyoFrame == [Next]_vars => TokyoSteps \/ UNCHANGED <<caddy, watchdog>>
BY DEF TokyoSteps, Next, Orchestrator, TokyoWatchdog, WzuWatchdog, Container,
       Serve, Environment, Snapshot, VerifyGate, PollIdle, PollBusy,
       DrainFails, ArmProductionWatchdog, StopProduction, StopReturns,
       VerifyStopped, CheckVariant, LaunchCandidate, AwaitCandidate, RunGate,
       RemoveCandidate, Settle, CleanupCandidates, RestoreProduction,
       ConfirmProduction, DisarmProduction, Release, ProductionWatchdogWakes,
       ProductionWatchdogRemoves, ProductionWatchdogStarts, ContainerStops,
       ContainerReady, Arrive, Answer, Die, Admit, Deployment, DeployStops,
       DeployStarts, DeployEnds, DeployRollsBack, control, flags, candidates,
       draining, caddy, wzuDog, container, traffic, vars, Poll, Goto, Raise,
       RestoreError, Fault

\* The containers and the WZU watchdog.
WzuSteps == ArmProductionWatchdog \/ StopProduction \/ LaunchCandidate \/
  RemoveCandidate \/ CleanupCandidates \/ RestoreProduction \/
  DisarmProduction \/ ProductionWatchdogWakes \/ ProductionWatchdogRemoves \/
  ProductionWatchdogStarts \/ ContainerStops \/ ContainerReady \/ Deployment

\* The containers and the WZU watchdog change only by the steps listed.
LEMMA WzuFrame ==
  [Next]_vars => WzuSteps \/ UNCHANGED <<cand, container, wzuDog>>
BY DEF WzuSteps, Next, Orchestrator, TokyoWatchdog, WzuWatchdog, Container,
       Serve, Environment, Snapshot, Prepare, ArmWatchdog, Install, Recheck,
       VerifyGate, PollIdle, PollBusy, DrainFails, StopReturns, VerifyStopped,
       CheckVariant, AwaitCandidate, RunGate, Settle, ConfirmProduction,
       RestoreGateway, ConfirmGateway, Release, WatchdogWakes,
       WatchdogTestsHash, WatchdogProbes, WatchdogReopens, Arrive, Answer,
       Die, Admit, OperatorEdits, control, flags, candidates, draining, caddy,
       wzuDog, container, traffic, vars, Poll, Goto, Raise, RestoreError,
       Fault

\* Requests move when clients, the server or a stop move them; polls count.
TrafficSteps == PollIdle \/ PollBusy \/ ContainerStops \/ Arrive \/ Answer \/
  Admit

\* The requests inside the service change only by the steps listed.
LEMMA TrafficFrame == [Next]_vars => TrafficSteps \/ UNCHANGED traffic
BY DEF TrafficSteps, Next, Orchestrator, TokyoWatchdog, WzuWatchdog,
       Container, Serve, Environment, Snapshot, Prepare, ArmWatchdog, Install,
       Recheck, VerifyGate, DrainFails, ArmProductionWatchdog, StopProduction,
       StopReturns, VerifyStopped, CheckVariant, LaunchCandidate,
       AwaitCandidate, RunGate, RemoveCandidate, Settle, CleanupCandidates,
       RestoreProduction, ConfirmProduction, DisarmProduction, RestoreGateway,
       ConfirmGateway, Release, WatchdogWakes, WatchdogTestsHash,
       WatchdogProbes, WatchdogReopens, ProductionWatchdogWakes,
       ProductionWatchdogRemoves, ProductionWatchdogStarts, ContainerReady,
       Die, OperatorEdits, Deployment, DeployStops, DeployStarts, DeployEnds,
       DeployRollsBack, control, flags, candidates, draining, caddy, wzuDog,
       container, traffic, vars, Poll, Goto, Raise, RestoreError, Fault

\* The fault a step may have.
SomeFault == Fault("ssh") \/ Fault("stopLost") \/ Fault("silent")
  \/ Fault("reload") \/ Fault("dockerStart") \/ Fault("edit")
  \/ Fault("editRace") \/ Fault("deploy") \/ Fault("early")

\* A step has at most one kind of fault, and what has happened has happened.
LEMMA FaultsFrame == [Next]_vars => UNCHANGED faults \/ SomeFault
<1>1. StopReturns => UNCHANGED faults \/ SomeFault
  BY DEF StopReturns, SomeFault
<1>2. OperatorEdits => SomeFault
  BY DEF OperatorEdits, SomeFault
<1>3. OrchestratorSteps => UNCHANGED faults \/ SomeFault
  BY <1>1 DEF OrchestratorSteps, SomeFault, Snapshot, Prepare, ArmWatchdog,
     Install, Recheck, VerifyGate, PollIdle, PollBusy, Poll, DrainFails,
     ArmProductionWatchdog, StopProduction, VerifyStopped, CheckVariant,
     LaunchCandidate, AwaitCandidate, RunGate, RemoveCandidate, Settle,
     CleanupCandidates, RestoreProduction, ConfirmProduction,
     DisarmProduction, RestoreGateway, ConfirmGateway, Release, Die
<1>4. TokyoWatchdog \/ WzuWatchdog => UNCHANGED faults \/ SomeFault
  BY DEF TokyoWatchdog, WzuWatchdog, SomeFault, TimerExpires, WatchdogWakes,
     WatchdogTestsHash, WatchdogProbes, WatchdogReopens,
     ProductionWatchdogWakes, ProductionWatchdogRemoves,
     ProductionWatchdogStarts
<1>5. Container \/ Serve \/ Deployment \/ Admit
        => UNCHANGED faults \/ SomeFault
  BY DEF Container, Serve, SomeFault, ContainerStops, ContainerReady, Arrive,
     Answer, Admit, Deployment, DeployStops, DeployStarts, DeployEnds,
     DeployRollsBack
<1>6. QED
  BY <1>2, <1>3, <1>4, <1>5 DEF Next, Orchestrator, OrchestratorSteps,
     Environment, vars

\* No step forgets a fault.
LEMMA FaultsGrow == [Next]_vars => faults \subseteq faults'
BY FaultsFrame DEF SomeFault, Fault

-----------------------------------------------------------------------------
(* Every variable stays in its set                                         *)

\* Every step keeps the orchestrator's variables in their sets.
LEMMA OrchestratorType == OrchestratorOK /\ [Next]_vars => OrchestratorOK'
<1> SUFFICES ASSUME OrchestratorOK, [Next]_vars PROVE OrchestratorOK'
  OBVIOUS
<1> USE DrainAssumption DEF control, flags, candidates, draining, Goto, Raise,
    RestoreError, Pcs, BeforeStop, InCandidates, InRestore, Ended, Variants
<1>1. CASE Snapshot
  BY <1>1 DEF Snapshot, OrchestratorOK
<1>2. CASE Prepare
  BY <1>2 DEF Prepare, OrchestratorOK
<1>3. CASE ArmWatchdog
  BY <1>3 DEF ArmWatchdog, OrchestratorOK
<1>4. CASE Install
  BY <1>4 DEF Install, OrchestratorOK
<1>5. CASE Recheck
  BY <1>5 DEF Recheck, OrchestratorOK
<1>6. CASE VerifyGate
  BY <1>6 DEF VerifyGate, OrchestratorOK
<1>7. CASE PollIdle
  BY <1>7 DEF PollIdle, Poll, BeforeDeadline, Drained, OrchestratorOK
<1>8. CASE PollBusy
  BY <1>8 DEF PollBusy, Poll, BeforeDeadline, OrchestratorOK
<1>9. CASE DrainFails
  BY <1>9 DEF DrainFails, OrchestratorOK
<1>10. CASE ArmProductionWatchdog
  BY <1>10 DEF ArmProductionWatchdog, OrchestratorOK
<1>11. CASE StopProduction
  BY <1>11 DEF StopProduction, OrchestratorOK
<1>12. CASE StopReturns
  BY <1>12 DEF StopReturns, OrchestratorOK
<1>13. CASE VerifyStopped
  BY <1>13 DEF VerifyStopped, OrchestratorOK
<1>14. CASE CheckVariant
  BY <1>14 DEF CheckVariant, OrchestratorOK
<1>15. CASE LaunchCandidate
  BY <1>15 DEF LaunchCandidate, OrchestratorOK
<1>16. CASE AwaitCandidate
  BY <1>16 DEF AwaitCandidate, OrchestratorOK
<1>17. CASE RunGate
  BY <1>17 DEF RunGate, OrchestratorOK
<1>18. CASE RemoveCandidate
  BY <1>18 DEF RemoveCandidate, OrchestratorOK
<1>19. CASE Settle
  <2>1. pc' \in Pcs BY <1>19 DEF Settle
  <2>2. variant' \in Variants BY <1>19 DEF Settle, OrchestratorOK
  <2>3. QED BY <1>19, <2>1, <2>2 DEF Settle, OrchestratorOK
<1>20. CASE CleanupCandidates
  <2>1. pc' \in Pcs BY <1>20 DEF CleanupCandidates
  <2>2. ownedCandidates' \subseteq Variants
    BY <1>20 DEF CleanupCandidates, OrchestratorOK
  <2>3. /\ restoreErrors' \subseteq {"candidate", "production", "gateway"}
        /\ primaryError' \in BOOLEAN
    BY <1>20 DEF CleanupCandidates, OrchestratorOK
  <2>4. QED BY <1>20, <2>1, <2>2, <2>3 DEF CleanupCandidates, OrchestratorOK
<1>21. CASE RestoreProduction
  BY <1>21 DEF RestoreProduction, OrchestratorOK
<1>22. CASE ConfirmProduction
  BY <1>22 DEF ConfirmProduction, OrchestratorOK
<1>23. CASE DisarmProduction
  BY <1>23 DEF DisarmProduction, OrchestratorOK
<1>24. CASE RestoreGateway
  BY <1>24 DEF RestoreGateway, OrchestratorOK
<1>25. CASE ConfirmGateway
  BY <1>25 DEF ConfirmGateway, OrchestratorOK
<1>26. CASE Release
  BY <1>26 DEF Release, OrchestratorOK
<1>27. CASE Die
  BY <1>27 DEF Die, OrchestratorOK
<1>28. CASE UNCHANGED <<control, flags, ownedCandidates, variant, draining>>
  BY <1>28 DEF OrchestratorOK
<1>29. QED BY <1>1, <1>2, <1>3, <1>4, <1>5, <1>6, <1>7, <1>8, <1>9, <1>10,
    <1>11, <1>12, <1>13, <1>14, <1>15, <1>16, <1>17, <1>18, <1>19, <1>20,
    <1>21, <1>22, <1>23, <1>24, <1>25, <1>26, <1>27, <1>28, OrchestratorFrame
    DEF OrchestratorSteps

\* Every step keeps the Caddyfile, its backup and its watchdog in their sets.
LEMMA TokyoType == TokyoOK /\ [Next]_vars => TokyoOK'
<1> SUFFICES ASSUME TokyoOK, [Next]_vars PROVE TokyoOK'
  OBVIOUS
<1> USE DEF caddy, Files, TokyoOK
<1>1. CASE Prepare
  BY <1>1 DEF Prepare, TokyoOK
<1>2. CASE ArmWatchdog
  BY <1>2 DEF ArmWatchdog, TokyoOK
<1>3. CASE Install
  BY <1>3 DEF Install, TokyoOK
<1>4. CASE Recheck
  BY <1>4 DEF Recheck, TokyoOK
<1>5. CASE RestoreGateway
  BY <1>5 DEF RestoreGateway, TokyoOK
<1>6. CASE ConfirmGateway
  BY <1>6 DEF ConfirmGateway, TokyoOK
<1>7. CASE WatchdogWakes
  BY <1>7 DEF WatchdogWakes, TokyoOK
<1>8. CASE WatchdogTestsHash
  BY <1>8 DEF WatchdogTestsHash, TokyoOK
<1>9. CASE WatchdogProbes
  BY <1>9 DEF WatchdogProbes, TokyoOK
<1>10. CASE WatchdogReopens
  BY <1>10 DEF WatchdogReopens, TokyoOK
<1>11. CASE OperatorEdits
  BY <1>11 DEF OperatorEdits, Edited, Gated, TokyoOK
<1>12. CASE UNCHANGED <<caddy, watchdog>>
  BY <1>12 DEF TokyoOK
<1>13. QED BY <1>1, <1>2, <1>3, <1>4, <1>5, <1>6, <1>7, <1>8, <1>9, <1>10,
    <1>11, <1>12, TokyoFrame DEF TokyoSteps

\* Every step keeps the containers and the WZU watchdog in their sets.
LEMMA WzuType == WzuOK /\ [Next]_vars => WzuOK'
<1> SUFFICES ASSUME WzuOK, [Next]_vars PROVE WzuOK'
  OBVIOUS
<1> USE DEF container, candidates, wzuDog, Variants
<1>1. CASE ArmProductionWatchdog
  BY <1>1 DEF ArmProductionWatchdog, WzuOK
<1>2. CASE StopProduction
  BY <1>2 DEF StopProduction, Stopped, WzuOK
<1>3. CASE LaunchCandidate
  BY <1>3 DEF LaunchCandidate, WzuOK
<1>4. CASE RemoveCandidate
  BY <1>4 DEF RemoveCandidate, WzuOK
<1>5. CASE CleanupCandidates
  BY <1>5 DEF CleanupCandidates, WithoutCandidates, WzuOK
<1>6. CASE RestoreProduction
  BY <1>6 DEF RestoreProduction, WzuOK
<1>7. CASE DisarmProduction
  BY <1>7 DEF DisarmProduction, WzuOK
<1>8. CASE ProductionWatchdogWakes \/ ProductionWatchdogRemoves
  BY <1>8 DEF ProductionWatchdogWakes, ProductionWatchdogRemoves,
     TimerExpires, WithoutCandidates, WzuOK
<1>9. CASE ProductionWatchdogStarts
  BY <1>9 DEF ProductionWatchdogStarts, WzuOK
<1>10. CASE ContainerStops
  BY <1>10 DEF ContainerStops, WzuOK
<1>11. CASE ContainerReady
  BY <1>11 DEF ContainerReady, WzuOK
<1>12. CASE Deployment
  BY <1>12 DEF Deployment, DeployStops, DeployStarts, DeployEnds,
     DeployRollsBack, Stopped, WzuOK
<1>13. CASE UNCHANGED <<cand, container, wzuDog>>
  BY <1>13 DEF WzuOK
<1>14. QED BY <1>1, <1>2, <1>3, <1>4, <1>5, <1>6, <1>7, <1>8, <1>9, <1>10,
    <1>11, <1>12, <1>13, WzuFrame DEF WzuSteps

\* Every step keeps the requests and the drain's clock in their sets.
LEMMA TrafficType == TrafficOK /\ [Next]_vars => TrafficOK'
<1> SUFFICES ASSUME TrafficOK, [Next]_vars PROVE TrafficOK'
  OBVIOUS
<1> USE DrainAssumption, BoundsAssumption DEF traffic
<1>1. CASE PollIdle
  BY <1>1 DEF PollIdle, Poll, BeforeDeadline, TrafficOK
<1>2. CASE PollBusy
  BY <1>2 DEF PollBusy, Poll, BeforeDeadline, TrafficOK
<1>3. CASE ContainerStops
  BY <1>3 DEF ContainerStops, TrafficOK
<1>4. CASE Arrive
  BY <1>4 DEF Arrive, TrafficOK
<1>5. CASE Answer
  BY <1>5 DEF Answer, TrafficOK
<1>6. CASE Admit
  BY <1>6 DEF Admit, TrafficOK
<1>7. CASE UNCHANGED traffic
  BY <1>7 DEF TrafficOK
<1>8. QED BY <1>1, <1>2, <1>3, <1>4, <1>5, <1>6, <1>7, TrafficFrame DEF
    TrafficSteps

\* The part of TypeOK about the faults.
FaultsOK == /\ faults \subseteq Faults /\ Cardinality(faults) <= MaxFaults
            /\ prodId # "orig" => "deploy" \in faults

\* Every step keeps the faults within the bound; only a deployment changes the
\* container of production's name.
LEMMA FaultsType == FaultsOK /\ [Next]_vars => FaultsOK'
<1> SUFFICES ASSUME FaultsOK, [Next]_vars PROVE FaultsOK'
  OBVIOUS
<1>1. faults' \subseteq Faults /\ Cardinality(faults') <= MaxFaults
  <2>1. CASE UNCHANGED faults
    BY <2>1 DEF FaultsOK
  <2>2. CASE SomeFault
    BY <2>2 DEF FaultsOK, SomeFault, Fault
  <2>3. QED BY <2>1, <2>2, FaultsFrame
<1>2. CASE Deployment
  <2>1. CASE DeployStops
    BY <1>1, <2>1 DEF DeployStops, Fault, FaultsOK
  <2>2. CASE DeployStarts \/ DeployEnds \/ DeployRollsBack
    BY <1>1, <2>2 DEF DeployStarts, DeployEnds, DeployRollsBack, FaultsOK
  <2>3. QED BY <1>2, <2>1, <2>2 DEF Deployment
<1>3. CASE ~Deployment
  <2>1. prodId' = prodId
    BY <1>3, WzuFrame DEF WzuSteps, ArmProductionWatchdog, StopProduction,
       LaunchCandidate, RemoveCandidate, CleanupCandidates,
       RestoreProduction, DisarmProduction, ProductionWatchdogWakes,
       ProductionWatchdogRemoves, ProductionWatchdogStarts, ContainerStops,
       ContainerReady, container
  <2>2. QED BY <1>1, <2>1, FaultsGrow DEF FaultsOK
<1>4. QED BY <1>2, <1>3

\* Every reachable value is one the code can hold: the flags and the phases of
\* Orchestrator, what the hosts' files and containers can be, and the counters
\* of drain_slots within its deadline.
THEOREM TypeCorrect == Spec => []TypeOK
<1>1. Init => TypeOK
  <2> SUFFICES ASSUME Init PROVE TypeOK
    OBVIOUS
  <2> USE DrainAssumption, BoundsAssumption DEF Init, Variants
  <2>1. OrchestratorOK
    <3>1. pc \in Pcs BY DEF Pcs, BeforeStop
    <3>2. polls \in 0..MaxPolls /\ stable \in Nat /\ stable <= polls OBVIOUS
    <3>3. variant \in Variants /\ ownedCandidates \subseteq Variants
      OBVIOUS
    <3>4. QED BY <3>1, <3>2, <3>3, Zenon DEF OrchestratorOK
  <2>2. TokyoOK BY DEF TokyoOK, Files
  <2>3. WzuOK BY DEF WzuOK
  <2>4. TrafficOK BY DEF TrafficOK
  <2>5. FaultsOK BY DEF FaultsOK
  <2>6. QED BY <2>1, <2>2, <2>3, <2>4, <2>5 DEF TypeOK, FaultsOK
<1>2. TypeOK /\ [Next]_vars => TypeOK'
  BY OrchestratorType, TokyoType, WzuType, TrafficType, FaultsType
     DEF TypeOK, FaultsOK
<1>3. QED BY <1>1, <1>2, PTL DEF Spec

\* Without a deployment production's name keeps its container.
LEMMA NoDeployment ==
  ASSUME TypeOK, [Next]_vars, "deploy" \notin faults'
  PROVE  ~Deployment /\ prodId = "orig"
<1>1. "deploy" \notin faults
  BY FaultsGrow
<1>2. prodId = "orig"
  BY <1>1 DEF TypeOK
<1>3. ~DeployStops
  BY DEF DeployStops, Fault
<1>4. QED BY <1>2, <1>3 DEF Deployment, DeployStarts, DeployEnds,
     DeployRollsBack

-----------------------------------------------------------------------------
(* The gate always has its watchdog                                        *)

\* Every step of gate_ingress, of the watchdog and of the operator keeps a
\* Caddyfile in maintenance guarded.
LEMMA GateStep ==
  TokyoOK /\ GateInv /\ [Next]_vars => GateInv'
<1> SUFFICES ASSUME TokyoOK, GateInv, [Next]_vars PROVE GateInv'
  OBVIOUS
<1> USE DEF GateInv, GateNeverStranded, TokyoOK, Files,
    Ended, InCandidates, InRestore, control, flags, candidates, draining,
    caddy, wzuDog, container, traffic, Goto, Raise, RestoreError
<1>1. CASE Snapshot
  BY <1>1 DEF Snapshot
<1>2. CASE Prepare
  BY <1>2 DEF Prepare
<1>3. CASE ArmWatchdog
  BY <1>3 DEF ArmWatchdog
<1>4. CASE Install
  BY <1>4 DEF Install
<1>5. CASE Recheck
  BY <1>5 DEF Recheck
<1>6. CASE VerifyGate
  BY <1>6 DEF VerifyGate
<1>7. CASE PollIdle
  BY <1>7 DEF PollIdle, Poll, BeforeDeadline, Drained
<1>8. CASE PollBusy
  BY <1>8 DEF PollBusy, Poll
<1>9. CASE DrainFails
  BY <1>9 DEF DrainFails
<1>10. CASE ArmProductionWatchdog
  BY <1>10 DEF ArmProductionWatchdog
<1>11. CASE StopProduction
  BY <1>11 DEF StopProduction, Stopped
<1>12. CASE StopReturns
  BY <1>12 DEF StopReturns
<1>13. CASE VerifyStopped
  BY <1>13 DEF VerifyStopped, DockerRunning, GpuBusy
<1>14. CASE CheckVariant
  BY <1>14 DEF CheckVariant
<1>15. CASE LaunchCandidate
  BY <1>15 DEF LaunchCandidate
<1>16. CASE AwaitCandidate
  BY <1>16 DEF AwaitCandidate, Healthy
<1>17. CASE RunGate
  BY <1>17 DEF RunGate
<1>18. CASE RemoveCandidate
  BY <1>18 DEF RemoveCandidate
<1>19. CASE Settle
  BY <1>19 DEF Settle
<1>20. CASE CleanupCandidates
  BY <1>20 DEF CleanupCandidates, WithoutCandidates
<1>21. CASE RestoreProduction
  BY <1>21 DEF RestoreProduction, DockerRunning
<1>22. CASE ConfirmProduction
  BY <1>22 DEF ConfirmProduction, ProductionConfirmed, ProductionRefused,
         Healthy
<1>23. CASE DisarmProduction
  BY <1>23 DEF DisarmProduction
<1>24. CASE RestoreGateway
  BY <1>24 DEF RestoreGateway
<1>25. CASE ConfirmGateway
  BY <1>25 DEF ConfirmGateway, Healthy
<1>26. CASE Release
  BY <1>26 DEF Release
<1>27. CASE WatchdogWakes
  BY <1>27 DEF WatchdogWakes, TimerExpires
<1>28. CASE WatchdogTestsHash
  BY <1>28 DEF WatchdogTestsHash
<1>29. CASE WatchdogProbes
  BY <1>29 DEF WatchdogProbes, Healthy
<1>30. CASE WatchdogReopens
  BY <1>30 DEF WatchdogReopens
<1>31. CASE ProductionWatchdogWakes \/ ProductionWatchdogRemoves
  BY <1>31 DEF ProductionWatchdogWakes, ProductionWatchdogRemoves,
     TimerExpires, WithoutCandidates
<1>32. CASE ProductionWatchdogStarts
  BY <1>32 DEF ProductionWatchdogStarts, DockerRunning
<1>33. CASE ContainerStops
  BY <1>33 DEF ContainerStops
<1>34. CASE ContainerReady
  BY <1>34 DEF ContainerReady
<1>35. CASE Arrive
  BY <1>35 DEF Arrive
<1>36. CASE Answer
  BY <1>36 DEF Answer
<1>37. CASE Die
  BY <1>37 DEF Die
<1>38. CASE Admit
  BY <1>38 DEF Admit
<1>39. CASE OperatorEdits
  BY <1>39 DEF OperatorEdits, Edited, Gated
<1>40. CASE Deployment
  BY <1>40 DEF Deployment, DeployStops, DeployStarts, DeployEnds,
     DeployRollsBack, Stopped
<1>41. CASE UNCHANGED vars
  BY <1>41 DEF vars
<1>42. QED BY <1>1, <1>2, <1>3, <1>4, <1>5, <1>6, <1>7, <1>8, <1>9, <1>10,
    <1>11, <1>12, <1>13, <1>14, <1>15, <1>16, <1>17, <1>18, <1>19, <1>20,
    <1>21, <1>22, <1>23, <1>24, <1>25, <1>26, <1>27, <1>28, <1>29, <1>30,
    <1>31, <1>32, <1>33, <1>34, <1>35, <1>36, <1>37, <1>38, <1>39, <1>40,
    <1>41 DEF Next, Orchestrator, TokyoWatchdog, WzuWatchdog, Container,
    Serve, Environment

\* Whatever fails, and even if a rollback timer runs out under a live
\* orchestrator: a Caddyfile in maintenance has its watchdog and its backup.
THEOREM GateGuarded == Spec => []GateNeverStranded
<1>1. Init => GateInv
  BY DEF Init, GateInv, GateNeverStranded
<1>2. TypeOK /\ GateInv /\ [Next]_vars => GateInv'
  BY GateStep DEF TypeOK
<1>3. GateInv => GateNeverStranded
  BY DEF GateInv
<1>4. QED BY <1>1, <1>2, <1>3, TypeCorrect, PTL DEF Spec

-----------------------------------------------------------------------------
(* Production, the drain and the gate                                      *)

\* Every step keeps production where the orchestrator, or the watchdog that
\* survives it, can find and start it.
LEMMA ProductionStep ==
  ASSUME TypeOK, ProductionInv, [Next]_vars, ~Unplugged'
  PROVE  ProductionInv'
<1>a. /\ ~Fault("stopLost") /\ ~Deployment /\ prodId = "orig"
      /\ faults \subseteq faults'
  BY NoDeployment, FaultsGrow DEF Unplugged, Without, Fault
<1> USE <1>a DEF ProductionInv, TypeOK, WzuOK, TokyoOK, Ended, BeforeStop,
    InCandidates, InRestore, DockerRunning, Healthy, TimerExpires, control,
    flags, candidates, draining, caddy, wzuDog, container, traffic, Goto,
    Raise, RestoreError
<1>1. CASE Snapshot
  BY <1>1 DEF Snapshot
<1>2. CASE Prepare
  BY <1>2 DEF Prepare
<1>3. CASE ArmWatchdog
  BY <1>3 DEF ArmWatchdog
<1>4. CASE Install
  BY <1>4 DEF Install
<1>5. CASE Recheck
  BY <1>5 DEF Recheck
<1>6. CASE VerifyGate
  BY <1>6 DEF VerifyGate
<1>7. CASE PollIdle
  BY <1>7 DEF PollIdle, Poll, BeforeDeadline, Drained
<1>8. CASE PollBusy
  BY <1>8 DEF PollBusy, Poll
<1>9. CASE DrainFails
  BY <1>9 DEF DrainFails
<1>10. CASE ArmProductionWatchdog
  BY <1>10 DEF ArmProductionWatchdog
<1>11. CASE StopProduction
  BY <1>11 DEF StopProduction, Stopped
<1>12. CASE StopReturns
  BY <1>12 DEF StopReturns
<1>13. CASE VerifyStopped
  BY <1>13 DEF VerifyStopped, DockerRunning, GpuBusy
<1>14. CASE CheckVariant
  BY <1>14 DEF CheckVariant
<1>15. CASE LaunchCandidate
  BY <1>15 DEF LaunchCandidate
<1>16. CASE AwaitCandidate
  BY <1>16 DEF AwaitCandidate, Healthy
<1>17. CASE RunGate
  BY <1>17 DEF RunGate
<1>18. CASE RemoveCandidate
  BY <1>18 DEF RemoveCandidate
<1>19. CASE Settle
  BY <1>19 DEF Settle
<1>20. CASE CleanupCandidates
  BY <1>20 DEF CleanupCandidates, WithoutCandidates
<1>21. CASE RestoreProduction
  BY <1>21 DEF RestoreProduction, DockerRunning
<1>22. CASE ConfirmProduction
  BY <1>22 DEF ConfirmProduction, ProductionConfirmed, ProductionRefused,
         Healthy
<1>23. CASE DisarmProduction
  BY <1>23 DEF DisarmProduction
<1>24. CASE RestoreGateway
  BY <1>24 DEF RestoreGateway
<1>25. CASE ConfirmGateway
  BY <1>25 DEF ConfirmGateway, Healthy
<1>26. CASE Release
  BY <1>26 DEF Release
<1>27. CASE WatchdogWakes
  BY <1>27 DEF WatchdogWakes, TimerExpires
<1>28. CASE WatchdogTestsHash
  BY <1>28 DEF WatchdogTestsHash
<1>29. CASE WatchdogProbes
  BY <1>29 DEF WatchdogProbes, Healthy
<1>30. CASE WatchdogReopens
  BY <1>30 DEF WatchdogReopens
<1>31. CASE ProductionWatchdogWakes \/ ProductionWatchdogRemoves
  BY <1>31 DEF ProductionWatchdogWakes, ProductionWatchdogRemoves,
     TimerExpires, WithoutCandidates
<1>32. CASE ProductionWatchdogStarts
  BY <1>32 DEF ProductionWatchdogStarts, Fault
<1>33. CASE ContainerStops
  BY <1>33 DEF ContainerStops
<1>34. CASE ContainerReady
  BY <1>34 DEF ContainerReady
<1>35. CASE Arrive
  BY <1>35 DEF Arrive
<1>36. CASE Answer
  BY <1>36 DEF Answer
<1>37. CASE Die
  BY <1>37 DEF Die
<1>38. CASE Admit
  BY <1>38 DEF Admit
<1>39. CASE OperatorEdits
  BY <1>39 DEF OperatorEdits, Edited, Gated
<1>40. CASE Deployment
  BY <1>40
<1>41. CASE UNCHANGED vars
  BY <1>41 DEF vars
<1>42. QED BY <1>1, <1>2, <1>3, <1>4, <1>5, <1>6, <1>7, <1>8, <1>9, <1>10,
    <1>11, <1>12, <1>13, <1>14, <1>15, <1>16, <1>17, <1>18, <1>19, <1>20,
    <1>21, <1>22, <1>23, <1>24, <1>25, <1>26, <1>27, <1>28, <1>29, <1>30,
    <1>31, <1>32, <1>33, <1>34, <1>35, <1>36, <1>37, <1>38, <1>39, <1>40,
    <1>41 DEF Next, Orchestrator, TokyoWatchdog, WzuWatchdog, Container,
    Serve, Environment

\* Every step keeps the gate shut around the stop, and the drain honest.
LEMMA TrafficStep ==
  ASSUME TypeOK, ProductionInv, TrafficInv, [Next]_vars, ~Unplugged'
  PROVE  TrafficInv'
<1>a. ~Fault("stopLost") /\ ~Deployment /\ prodId = "orig"
  BY NoDeployment DEF Unplugged, Without, Fault
<1> USE <1>a, DrainAssumption DEF TrafficInv, ProductionInv, TypeOK, TokyoOK,
    WzuOK, TrafficOK, OrchestratorOK, Files, Gated, Ended, BeforeStop, control,
    flags, candidates, draining, caddy, wzuDog, container, traffic, Goto,
    Raise, RestoreError
<1>1. CASE Snapshot
  BY <1>1 DEF Snapshot
<1>2. CASE Prepare
  BY <1>2 DEF Prepare
<1>3. CASE ArmWatchdog
  BY <1>3 DEF ArmWatchdog
<1>4. CASE Install
  BY <1>4 DEF Install
<1>5. CASE Recheck
  BY <1>5 DEF Recheck
<1>6. CASE VerifyGate
  BY <1>6 DEF VerifyGate
<1>7. CASE PollIdle
  BY <1>7 DEF PollIdle, Poll, BeforeDeadline, Drained
<1>8. CASE PollBusy
  BY <1>8 DEF PollBusy, Poll
<1>9. CASE DrainFails
  BY <1>9 DEF DrainFails
<1>10. CASE ArmProductionWatchdog
  BY <1>10 DEF ArmProductionWatchdog
<1>11. CASE StopProduction
  BY <1>11 DEF StopProduction, Stopped
<1>12. CASE StopReturns
  BY <1>12 DEF StopReturns
<1>13. CASE VerifyStopped
  BY <1>13 DEF VerifyStopped, DockerRunning, GpuBusy
<1>14. CASE CheckVariant
  BY <1>14 DEF CheckVariant
<1>15. CASE LaunchCandidate
  BY <1>15 DEF LaunchCandidate
<1>16. CASE AwaitCandidate
  BY <1>16 DEF AwaitCandidate, Healthy
<1>17. CASE RunGate
  BY <1>17 DEF RunGate
<1>18. CASE RemoveCandidate
  BY <1>18 DEF RemoveCandidate
<1>19. CASE Settle
  BY <1>19 DEF Settle
<1>20. CASE CleanupCandidates
  BY <1>20 DEF CleanupCandidates, WithoutCandidates
<1>21. CASE RestoreProduction
  BY <1>21 DEF RestoreProduction, DockerRunning
<1>22. CASE ConfirmProduction
  BY <1>22 DEF ConfirmProduction, ProductionConfirmed, ProductionRefused,
         Healthy
<1>23. CASE DisarmProduction
  BY <1>23 DEF DisarmProduction
<1>24. CASE RestoreGateway
  BY <1>24 DEF RestoreGateway
<1>25. CASE ConfirmGateway
  BY <1>25 DEF ConfirmGateway, Healthy
<1>26. CASE Release
  BY <1>26 DEF Release
<1>27. CASE WatchdogWakes
  BY <1>27 DEF WatchdogWakes, TimerExpires
<1>28. CASE WatchdogTestsHash
  BY <1>28 DEF WatchdogTestsHash
<1>29. CASE WatchdogProbes
  BY <1>29 DEF WatchdogProbes, Healthy
<1>30. CASE WatchdogReopens
  BY <1>30 DEF WatchdogReopens
<1>31. CASE ProductionWatchdogWakes \/ ProductionWatchdogRemoves
  BY <1>31 DEF ProductionWatchdogWakes, ProductionWatchdogRemoves,
     TimerExpires, WithoutCandidates
<1>32. CASE ProductionWatchdogStarts
  BY <1>32 DEF ProductionWatchdogStarts, DockerRunning
<1>33. CASE ContainerStops
  BY <1>33 DEF ContainerStops
<1>34. CASE ContainerReady
  BY <1>34 DEF ContainerReady
<1>35. CASE Arrive
  BY <1>35 DEF Arrive
<1>36. CASE Answer
  BY <1>36 DEF Answer
<1>37. CASE Die
  BY <1>37 DEF Die
<1>38. CASE Admit
  BY <1>38 DEF Admit
<1>39. CASE OperatorEdits
  BY <1>39 DEF OperatorEdits, Edited, Gated
<1>40. CASE Deployment
  BY <1>40
<1>41. CASE UNCHANGED vars
  BY <1>41 DEF vars
<1>42. QED BY <1>1, <1>2, <1>3, <1>4, <1>5, <1>6, <1>7, <1>8, <1>9, <1>10,
    <1>11, <1>12, <1>13, <1>14, <1>15, <1>16, <1>17, <1>18, <1>19, <1>20,
    <1>21, <1>22, <1>23, <1>24, <1>25, <1>26, <1>27, <1>28, <1>29, <1>30,
    <1>31, <1>32, <1>33, <1>34, <1>35, <1>36, <1>37, <1>38, <1>39, <1>40,
    <1>41 DEF Next, Orchestrator, TokyoWatchdog, WzuWatchdog, Container,
    Serve, Environment

\* The invariants hold in every reachable state.
LEMMA WindowInvariant == Spec => []WindowInv
<1>1. Init => PluggedInv
  BY DEF Init, PluggedInv, ProductionInv, TrafficInv, Gated
<1>2. TypeOK /\ PluggedInv /\ [Next]_vars => PluggedInv'
  <2> SUFFICES ASSUME TypeOK, PluggedInv, [Next]_vars, ~Unplugged'
               PROVE  PluggedInv'
    BY DEF PluggedInv
  <2>1. ProductionInv /\ TrafficInv
    BY FaultsGrow DEF PluggedInv, Unplugged, Without
  <2>2. QED BY <2>1, ProductionStep, TrafficStep DEF PluggedInv
<1>3. WindowInv <=> TypeOK /\ PluggedInv
  BY DEF WindowInv
<1>4. QED BY <1>1, <1>2, <1>3, TypeCorrect, PTL DEF Spec

\* While the ingress forwards requests production serves them: until a docker
\* stop is lost or a deployment runs, no sequence of failures, deaths, edits
\* and timers that preempt a live orchestrator opens it on a stopped server.
THEOREM IngressSafe == Spec => []IngressNeedsProduction
<1>1. WindowInv => IngressNeedsProduction
  BY DEF WindowInv, PluggedInv, TrafficInv, IngressNeedsProduction,
     RestoredBeforeOpen
<1>2. QED BY <1>1, WindowInvariant, PTL

\* Production that is down has a watchdog that will start it, under the same
\* conditions, at whatever step the orchestrator died or was preempted.
THEOREM ProductionGuarded == Spec => []ProductionNeverStranded
<1>1. WindowInv => ProductionNeverStranded
  BY DEF WindowInv, PluggedInv, ProductionInv, ProductionNeverStranded,
     Unplugged, Without
<1>2. QED BY <1>1, WindowInvariant, PTL

-----------------------------------------------------------------------------
(* Production and the candidates                                           *)

\* What NoCoexistence asks of the others on the host.
Undisturbed == Without({"silent", "deploy", "early"})

\* A candidate runs only while production is down, and the orchestrator that
\* started it, or the watchdog of a dead one, will remove it before a start.
SharingInv ==
  /\ productionWatchdog \in {"awake", "removed"} => pc \in Ended
  /\ productionWatchdog = "removed" => ~CandidateRuns
  /\ pc = "launch" => variant \in ownedCandidates
  /\ "candidate" \notin restoreErrors =>
       /\ pc \in InCandidates \cup {"cleanup"} =>
            \A i \in Variants : cand[i] = "running" => i \in ownedCandidates
       /\ pc \in InCandidates => prod = "down"
       /\ CandidateRuns => /\ pc \in InCandidates \cup {"cleanup", "dead"}
                           /\ prod = "down"

\* No step starts one beside the other.
LEMMA SharingStep ==
  ASSUME TypeOK, SharingInv, [Next]_vars, Undisturbed'
  PROVE  SharingInv'
<1>a. ~Fault("silent") /\ ~Fault("early") /\ ~Deployment /\ prodId = "orig"
  BY NoDeployment DEF Undisturbed, Without, Fault
<1> USE <1>a DEF TypeOK, OrchestratorOK, WzuOK, SharingInv, InCandidates,
    Ended, CandidateRuns, DockerRunning, Variants, control, flags, candidates,
    wzuDog, container, Goto, Raise, RestoreError
<1>1. CASE Snapshot
  BY <1>1 DEF Snapshot
<1>2. CASE Prepare
  BY <1>2 DEF Prepare
<1>3. CASE ArmWatchdog
  BY <1>3 DEF ArmWatchdog
<1>4. CASE Install
  BY <1>4 DEF Install
<1>5. CASE Recheck
  BY <1>5 DEF Recheck
<1>6. CASE VerifyGate
  BY <1>6 DEF VerifyGate
<1>7. CASE PollIdle
  BY <1>7 DEF PollIdle, Poll
<1>8. CASE PollBusy
  BY <1>8 DEF PollBusy, Poll
<1>9. CASE DrainFails
  BY <1>9 DEF DrainFails
<1>10. CASE ArmProductionWatchdog
  BY <1>10 DEF ArmProductionWatchdog
<1>11. CASE StopProduction
  BY <1>11 DEF StopProduction, Stopped
<1>12. CASE StopReturns
  BY <1>12 DEF StopReturns
<1>13. CASE VerifyStopped
  BY <1>13 DEF VerifyStopped, GpuBusy
<1>14. CASE CheckVariant
  BY <1>14 DEF CheckVariant
<1>15. CASE LaunchCandidate
  BY <1>15 DEF LaunchCandidate
<1>16. CASE AwaitCandidate
  BY <1>16 DEF AwaitCandidate
<1>17. CASE RunGate
  BY <1>17 DEF RunGate
<1>18. CASE RemoveCandidate
  BY <1>18 DEF RemoveCandidate
<1>19. CASE Settle
  BY <1>19 DEF Settle, GpuBusy
<1>20. CASE CleanupCandidates
  BY <1>20 DEF CleanupCandidates, WithoutCandidates
<1>21. CASE RestoreProduction
  BY <1>21 DEF RestoreProduction
<1>22. CASE ConfirmProduction
  BY <1>22 DEF ConfirmProduction
<1>23. CASE DisarmProduction
  BY <1>23 DEF DisarmProduction
<1>24. CASE RestoreGateway
  BY <1>24 DEF RestoreGateway
<1>25. CASE ConfirmGateway
  BY <1>25 DEF ConfirmGateway
<1>26. CASE Release
  BY <1>26 DEF Release
<1>27. CASE Die
  BY <1>27 DEF Die
<1>28. CASE ProductionWatchdogWakes \/ ProductionWatchdogRemoves
  BY <1>28 DEF ProductionWatchdogWakes, ProductionWatchdogRemoves,
     TimerExpires, WithoutCandidates
<1>29. CASE ProductionWatchdogStarts
  BY <1>29 DEF ProductionWatchdogStarts
<1>30. CASE ContainerStops
  BY <1>30 DEF ContainerStops
<1>31. CASE ContainerReady
  BY <1>31 DEF ContainerReady
<1>32. CASE Deployment
  BY <1>32
<1>33. CASE UNCHANGED <<control, ownedCandidates, variant,
                   cand, container, wzuDog>>
  BY <1>33
<1>34. QED BY <1>1, <1>2, <1>3, <1>4, <1>5, <1>6, <1>7, <1>8, <1>9, <1>10,
    <1>11, <1>12, <1>13, <1>14, <1>15, <1>16, <1>17, <1>18, <1>19, <1>20,
    <1>21, <1>22, <1>23, <1>24, <1>25, <1>26, <1>27, <1>28, <1>29, <1>30,
    <1>31, <1>32, <1>33, OrchestratorFrame, WzuFrame
    DEF OrchestratorSteps, WzuSteps

\* One model at a time: without a failure nobody notices, a deployment and an
\* early timer, production and a candidate share the GPUs only if the run
\* reports the candidate, even if a docker stop is lost.
THEOREM OneModelAtATime == Spec => []NoCoexistence
<1>1. Init => SharingInv
  BY DEF Init, SharingInv, CandidateRuns, InCandidates, Variants
<1>2. TypeOK /\ (Undisturbed => SharingInv) /\ [Next]_vars
        => (Undisturbed => SharingInv)'
  BY SharingStep, FaultsGrow DEF Undisturbed, Without
<1>3. (Undisturbed => SharingInv) => NoCoexistence
  BY DEF Undisturbed, SharingInv, NoCoexistence, DockerRunning
<1>4. QED BY <1>1, <1>2, <1>3, TypeCorrect, PTL DEF Spec

-----------------------------------------------------------------------------
(* A report without errors                                                 *)

NoError == ~primaryError /\ restoreErrors = {}
Opening == {"snapshot", "prepare", "arm", "install", "recheck"}

\* What a run that has met no error has done so far.
CleanInv ==
  NoError =>
    /\ \/ pc \notin {"stopWait", "dead"} => prod # "stopping"
       \/ "deploy" \in faults
    /\ pc \in {"disarm", "gateway", "reopened", "release"}
         => prod = "up" \/ "deploy" \in faults
    /\ pc # "snapshot" => pc = "dead" \/ originalInspect
    /\ pc \notin Opening \cup {"release"} \cup Ended => gatewayGated
    /\ pc \in {"stop", "stopWait", "idle"} \cup InCandidates \cup InRestore
         => productionPid
    /\ pc \in {"gateway", "reopened", "release"} => productionWatchdog = "off"
    /\ pc \in {"reopened", "release"} => file \in {"orig", "editOpen"}
    /\ pc = "release" => ~Gated(loaded) /\ watchdog = "off"
    /\ pc \in BeforeStop => variant = 1
    /\ pc \in InCandidates /\ variant = 2 => cand[1] = "none"
    /\ pc = "settle" => cand[variant] = "none"
    /\ pc \in InRestore => \A i \in Variants : cand[i] = "none"

\* Every step keeps it, or reports an error.
LEMMA CleanStep ==
  ASSUME TypeOK, CleanInv, [Next]_vars, "silent" \notin faults'
  PROVE  CleanInv'
<1>a. ~Fault("silent") /\ faults \subseteq faults'
  BY FaultsGrow DEF Fault
<1> USE <1>a DEF TypeOK, OrchestratorOK, TokyoOK, WzuOK, CleanInv, Healthy,
    DockerRunning, NoError, Opening, BeforeStop, InCandidates, InRestore,
    Ended, Variants, control, flags, candidates, caddy, wzuDog, container,
    Goto, Raise, RestoreError
<1>1. CASE Snapshot
  BY <1>1 DEF Snapshot
<1>2. CASE Prepare
  BY <1>2 DEF Prepare
<1>3. CASE ArmWatchdog
  BY <1>3 DEF ArmWatchdog
<1>4. CASE Install
  BY <1>4 DEF Install, Gated
<1>5. CASE Recheck
  BY <1>5 DEF Recheck
<1>6. CASE VerifyGate
  BY <1>6 DEF VerifyGate
<1>7. CASE PollIdle
  BY <1>7 DEF PollIdle, Poll
<1>8. CASE PollBusy
  BY <1>8 DEF PollBusy, Poll
<1>9. CASE DrainFails
  BY <1>9 DEF DrainFails
<1>10. CASE ArmProductionWatchdog
  BY <1>10 DEF ArmProductionWatchdog
<1>11. CASE StopProduction
  BY <1>11 DEF StopProduction, Stopped
<1>12. CASE StopReturns
  BY <1>12 DEF StopReturns
<1>13. CASE VerifyStopped
  BY <1>13 DEF VerifyStopped
<1>14. CASE CheckVariant
  BY <1>14 DEF CheckVariant
<1>15. CASE LaunchCandidate
  BY <1>15 DEF LaunchCandidate
<1>16. CASE AwaitCandidate
  BY <1>16 DEF AwaitCandidate
<1>17. CASE RunGate
  BY <1>17 DEF RunGate
<1>18. CASE RemoveCandidate
  BY <1>18 DEF RemoveCandidate
<1>19. CASE Settle
  BY <1>19 DEF Settle
<1>20. CASE CleanupCandidates
  BY <1>20 DEF CleanupCandidates, WithoutCandidates
<1>21. CASE RestoreProduction
  BY <1>21 DEF RestoreProduction
<1>22. CASE ConfirmProduction
  BY <1>22 DEF ConfirmProduction, ProductionConfirmed
<1>23. CASE DisarmProduction
  BY <1>23 DEF DisarmProduction
<1>24. CASE RestoreGateway
  BY <1>24 DEF RestoreGateway
<1>25. CASE ConfirmGateway
  BY <1>25 DEF ConfirmGateway, Gated
<1>26. CASE Release
  BY <1>26 DEF Release
<1>27. CASE Die
  BY <1>27 DEF Die
<1>28. CASE ProductionWatchdogWakes \/ ProductionWatchdogRemoves
  BY <1>28 DEF ProductionWatchdogWakes, ProductionWatchdogRemoves,
     TimerExpires, WithoutCandidates
<1>29. CASE ProductionWatchdogStarts
  BY <1>29 DEF ProductionWatchdogStarts
<1>30. CASE ContainerStops
  BY <1>30 DEF ContainerStops
<1>31. CASE ContainerReady
  BY <1>31 DEF ContainerReady
<1>32. CASE Deployment
  <2>1. "deploy" \in faults'
    BY <1>32 DEF Deployment, DeployStops, DeployStarts, DeployEnds,
       DeployRollsBack, Fault
  <2>2. UNCHANGED <<control, flags, ownedCandidates, variant, cand, caddy,
                    watchdog, productionWatchdog, productionPid>>
    BY <1>32 DEF Deployment, DeployStops, DeployStarts, DeployEnds,
       DeployRollsBack
  <2>3. QED BY <2>1, <2>2 DEF Gated
<1>33. CASE WatchdogWakes
  BY <1>33 DEF WatchdogWakes, TimerExpires
<1>34. CASE WatchdogTestsHash
  BY <1>34 DEF WatchdogTestsHash
<1>35. CASE WatchdogProbes
  BY <1>35 DEF WatchdogProbes
<1>36. CASE WatchdogReopens
  BY <1>36 DEF WatchdogReopens, Gated
<1>37. CASE OperatorEdits
  BY <1>37 DEF OperatorEdits, Edited, Gated
<1>38. CASE UNCHANGED <<control, flags, ownedCandidates, variant, cand, caddy,
                   watchdog, container, wzuDog>>
  BY <1>38 DEF Gated
<1>39. QED BY <1>1, <1>2, <1>3, <1>4, <1>5, <1>6, <1>7, <1>8, <1>9, <1>10,
    <1>11, <1>12, <1>13, <1>14, <1>15, <1>16, <1>17, <1>18, <1>19, <1>20,
    <1>21, <1>22, <1>23, <1>24, <1>25, <1>26, <1>27, <1>28, <1>29, <1>30,
    <1>31, <1>32, <1>33, <1>34, <1>35, <1>36, <1>37, <1>38, OrchestratorFrame,
    TokyoFrame, WzuFrame DEF OrchestratorSteps, TokyoSteps, WzuSteps

\* A result.json without errors is true: production serves (or a deployment has
\* taken it away), the ingress is open, no candidate and no armed watchdog is
\* left, under any order of the operator's edits and the scripts, as long as
\* removals that fail are noticed: even if a timer preempts the orchestrator.
THEOREM CleanReportIsTrue == Spec => CleanReport
<1> DEFINE Noticed == "silent" \notin faults
           Truthful == /\ prod = "up" \/ "deploy" \in faults
                       /\ ~Gated(loaded)
                       /\ \A i \in Variants : cand[i] = "none"
                       /\ watchdog = "off" /\ productionWatchdog = "off"
<1>1. Init => CleanInv
  BY DEF Init, CleanInv, Opening, BeforeStop, Ended, InCandidates, InRestore
<1>2. TypeOK /\ (Noticed => CleanInv) /\ [Next]_vars
        => (Noticed => CleanInv)'
  BY CleanStep, FaultsGrow
<1>3. ASSUME TypeOK, CleanInv, [Next]_vars, ReportsSuccess PROVE Truthful
  <2>1. Release
    BY <1>3, OrchestratorFrame
       DEF ReportsSuccess, OrchestratorSteps, Snapshot, Prepare, ArmWatchdog,
           Install, Recheck, VerifyGate, PollIdle, PollBusy, DrainFails,
           ArmProductionWatchdog, StopProduction, StopReturns, VerifyStopped,
           CheckVariant, LaunchCandidate, AwaitCandidate, RunGate,
           RemoveCandidate, Settle, CleanupCandidates, RestoreProduction,
           ConfirmProduction, DisarmProduction, RestoreGateway,
           ConfirmGateway, Die, control, Goto, Raise, RestoreError
  <2>2. QED BY <1>3, <2>1 DEF Release, ReportsSuccess, CleanInv, NoError,
               InRestore
<1>4. Without({"silent"}) => Noticed
  BY DEF Without
<1>5. TypeOK /\ (Noticed => CleanInv) /\ [Next]_vars =>
        [ReportsSuccess /\ Without({"silent"}) => Truthful]_vars
  BY <1>3, <1>4
<1>6. QED BY <1>1, <1>2, <1>5, TypeCorrect, PTL DEF Spec, CleanReport

-----------------------------------------------------------------------------
(* The operator's edits                                                    *)

\* A watchdog that has tested the hash copies over the file it tested.
UntouchedInv ==
  Without({"editRace"}) /\ watchdog \in {"checked", "copy"} => ~Touched

\* No script overwrites an operator's edit, whichever other faults happen and
\* timers expire, until an edit falls between a watchdog's hash test and its
\* copy.
THEOREM EditsKept == Spec => EditKept
<1> USE DEF UntouchedInv, Touched, TypeOK, TokyoOK, Files
<1>1. Init => UntouchedInv
  BY DEF Init
<1>2. ASSUME TypeOK, UntouchedInv, [Next]_vars
      PROVE  /\ UntouchedInv'
             /\ Touched /\ Without({"editRace"}) => file' = file
  <2>a. Without({"editRace"})' => Without({"editRace"}) /\ ~Fault("editRace")
    BY <1>2, FaultsGrow DEF Without, Fault
  <2> USE <1>2, <2>a DEF caddy
  <2>1. CASE Prepare
    BY <2>1 DEF Prepare
  <2>2. CASE ArmWatchdog
    BY <2>2 DEF ArmWatchdog
  <2>3. CASE Install
    BY <2>3 DEF Install
  <2>4. CASE Recheck
    BY <2>4 DEF Recheck
  <2>5. CASE RestoreGateway
    BY <2>5 DEF RestoreGateway
  <2>6. CASE ConfirmGateway
    BY <2>6 DEF ConfirmGateway
  <2>7. CASE WatchdogWakes
    BY <2>7 DEF WatchdogWakes
  <2>8. CASE WatchdogTestsHash
    BY <2>8 DEF WatchdogTestsHash
  <2>9. CASE WatchdogProbes
    BY <2>9 DEF WatchdogProbes
  <2>10. CASE WatchdogReopens
    BY <2>10 DEF WatchdogReopens
  <2>11. CASE OperatorEdits
    BY <2>11 DEF OperatorEdits
  <2>12. CASE UNCHANGED <<caddy, watchdog>>
    BY <2>12
  <2>13. QED BY <2>1, <2>2, <2>3, <2>4, <2>5, <2>6, <2>7, <2>8, <2>9, <2>10,
    <2>11, <2>12, TokyoFrame DEF TokyoSteps
<1>3. TypeOK /\ UntouchedInv /\ [Next]_vars => UntouchedInv'
  BY <1>2
<1>4. TypeOK /\ UntouchedInv /\ [Next]_vars =>
        [Touched /\ Without({"editRace"}) => file' = file]_vars
  BY <1>2
<1>5. QED BY <1>1, <1>3, <1>4, TypeCorrect, PTL DEF Spec, EditKept

-----------------------------------------------------------------------------
(* Maintenance implements ServiceWindow                                    *)

\* A step that leaves the ingress, production and the requests alone is a
\* stutter for the clients.
LEMMA WindowStutter ==
  ASSUME UNCHANGED <<loaded, prod, transit, queued>>
  PROVE  UNCHANGED Window!vars
BY DEF Window!vars, Gated

\* The steps a client of the public API can notice.
VisibleSteps == Install \/ StopProduction \/ RestoreProduction
  \/ RestoreGateway \/ WatchdogReopens \/ ProductionWatchdogStarts
  \/ ContainerStops \/ ContainerReady \/ Arrive \/ Answer \/ Admit
  \/ OperatorEdits \/ Deployment

\* All other steps are invisible to a client.
LEMMA VisibleFrame ==
  [Next]_vars => VisibleSteps \/ UNCHANGED <<loaded, prod, transit, queued>>
BY TokyoFrame, WzuFrame, TrafficFrame
   DEF VisibleSteps, TokyoSteps, WzuSteps, TrafficSteps, caddy, container,
       traffic, Prepare, ArmWatchdog, Recheck, ConfirmGateway, WatchdogWakes,
       WatchdogTestsHash, WatchdogProbes, ArmProductionWatchdog,
       LaunchCandidate, RemoveCandidate, CleanupCandidates, DisarmProduction,
       ProductionWatchdogWakes, ProductionWatchdogRemoves, PollIdle,
       PollBusy, Poll

\* Every step is one of ServiceWindow's, or a stutter.
LEMMA WindowStep ==
  ASSUME WindowInv, [Next]_vars, ~Unplugged'
  PROVE  [Window!Next]_(Window!vars)
<1>p. ProductionInv /\ TrafficInv
  BY FaultsGrow DEF WindowInv, PluggedInv, Unplugged, Without
<1>d. ~Fault("stopLost") /\ ~Deployment /\ prodId = "orig"
  BY NoDeployment DEF WindowInv, Unplugged, Without, Fault
<1> USE <1>p, <1>d DEF WindowInv, TypeOK, ProductionInv, TrafficInv, TokyoOK,
    WzuOK, TrafficOK, Files, Gated, caddy, container, traffic
<1> DEFINE Closes == /\ ~Gated(loaded) /\ Gated(loaded)'
                     /\ UNCHANGED <<prod, transit, queued>>
           Opens == /\ Gated(loaded) /\ ~Gated(loaded)' /\ prod = "up"
                    /\ UNCHANGED <<prod, transit, queued>>
           KeepsGate == /\ Gated(loaded)' <=> Gated(loaded)
                        /\ UNCHANGED <<transit, queued>>
<1>a. Closes => Window!Close
  BY DEF Window!Close
<1>b. Opens => Window!Reopen
  BY DEF Window!Reopen
<1>c. KeepsGate /\ (prod' = "up" <=> prod = "up") => UNCHANGED Window!vars
  BY DEF Window!vars
<1>1. CASE Install
  <2>1. UNCHANGED <<prod, transit, queued>>
    BY <1>1 DEF Install
  <2>2. loaded' = "maint" \/ loaded' = loaded
    BY <1>1 DEF Install
  <2>3. CASE loaded' = "maint" /\ ~Gated(loaded)
    BY <2>1, <2>3, <1>a DEF Window!Next
  <2>4. CASE loaded' = loaded \/ Gated(loaded)
    BY <2>1, <2>2, <2>4, <1>c
  <2>5. QED BY <2>2, <2>3, <2>4
<1>2. CASE StopProduction
  BY <1>2, <1>c DEF StopProduction, Stopped, Window!Next, Window!Stop
<1>3. CASE RestoreProduction
  BY <1>3, <1>c DEF RestoreProduction, DockerRunning
<1>4. CASE RestoreGateway
  BY <1>4, <1>b, <1>c DEF RestoreGateway, Window!Next
<1>5. CASE WatchdogReopens
  <2>1. UNCHANGED <<prod, transit, queued>>
    BY <1>5 DEF WatchdogReopens
  <2>2. prod = "up" \/ UNCHANGED loaded
    BY <1>5 DEF WatchdogReopens
  <2>3. CASE UNCHANGED loaded
    BY <2>1, <2>3, <1>c
  <2>4. CASE prod = "up" /\ Gated(loaded) /\ ~Gated(loaded)'
    BY <2>1, <2>4, <1>b DEF Window!Next
  <2>5. CASE ~Gated(loaded) /\ Gated(loaded)'
    BY <2>1, <2>5, <1>a DEF Window!Next
  <2>6. CASE Gated(loaded)' <=> Gated(loaded)
    BY <2>1, <2>6, <1>c
  <2>7. QED BY <2>2, <2>3, <2>4, <2>5, <2>6
<1>6. CASE ProductionWatchdogStarts
  BY <1>6, <1>c DEF ProductionWatchdogStarts, DockerRunning
<1>7. CASE ContainerStops
  BY <1>7, <1>c DEF ContainerStops
<1>8. CASE ContainerReady
  BY <1>8 DEF ContainerReady, Window!Next, Window!Resume
<1>9. CASE Arrive
  BY <1>9 DEF Arrive, Window!vars
<1>10. CASE Answer
  BY <1>10 DEF Answer, Window!Next, Window!Answer
<1>11. CASE Admit
  BY <1>11 DEF Admit, Window!Next, Window!Admit
<1>12. CASE OperatorEdits
  BY <1>12, <1>a, <1>b, <1>c DEF OperatorEdits, Edited, Window!Next
<1>13. CASE UNCHANGED <<loaded, prod, transit, queued>>
  BY <1>13, WindowStutter
<1>14. QED
  BY <1>1, <1>2, <1>3, <1>4, <1>5, <1>6, <1>7, <1>8, <1>9, <1>10, <1>11,
     <1>12, <1>13, <1>d, VisibleFrame DEF VisibleSteps

\* A maintenance window keeps its promise to the clients of the public API:
\* seen through the ingress, the server and the requests inside, every
\* behaviour of the orchestrator, the watchdogs and the failures is one of
\* ServiceWindow, until a docker stop is lost or a deployment runs.
THEOREM MaintenanceImplementsWindow == Spec => WindowSpec
<1>1. Init => Window!Init
  BY DEF Init, Window!Init, Gated
<1>2. WindowInv /\ [Next]_vars
        => [Window!Next \/ Unplugged']_(Window!vars)
  BY WindowStep
<1>3. QED BY <1>1, <1>2, WindowInvariant, PTL DEF Spec, WindowSpec

-----------------------------------------------------------------------------
(* Terminates needs fairness and is left to TLC; that the run comes nearer *)
(* to its end with every step is proved, with a measure of what is left.   *)

StepsLeft ==
  [done |-> 0, dead |-> 0, release |-> 1, reopened |-> 2, gateway |-> 3,
   disarm |-> 4, healthy |-> 5, production |-> 6, cleanup |-> 7,
   settle |-> 8, remove |-> 9, gate |-> 10, await |-> 11, launch |-> 12,
   check |-> 13, idle |-> 14, stopWait |-> 15, stop |-> 16,
   armProduction |-> 17, drain |-> 18, verify |-> 19, recheck |-> 19,
   install |-> 20, arm |-> 21, prepare |-> 22, snapshot |-> 23]

\* The way to the end from here, the polls left and the variants to be run.
RunLeft == StepsLeft[pc] + (MaxPolls - polls) + 6 * (2 - variant)

ComesNearer == IF Orchestrator \/ Die THEN RunLeft' < RunLeft
               ELSE RunLeft' = RunLeft

\* Every remote command, answer, failure or death leaves less to do.
LEMMA OrchestratorLeavesLess ==
  ASSUME TypeOK, Orchestrator \/ Die
  PROVE  RunLeft' < RunLeft
<1>1. /\ polls \in Int /\ MaxPolls \in Int /\ variant \in Int
      /\ pc \in Pcs
  BY DrainAssumption DEF TypeOK, OrchestratorOK, Variants
<1>2. SUFFICES StepsLeft[pc'] + (MaxPolls - polls') + 6 * (2 - variant')
                 < StepsLeft[pc] + (MaxPolls - polls) + 6 * (2 - variant)
  BY DEF RunLeft
<1> USE <1>1 DEF StepsLeft, Goto, Raise, RestoreError, candidates, draining
<1>3. CASE Snapshot \/ Prepare \/ ArmWatchdog \/ Install \/ Recheck
           \/ VerifyGate
  BY <1>3 DEF Snapshot, Prepare, ArmWatchdog, Install, Recheck, VerifyGate
<1>4. CASE PollIdle \/ PollBusy \/ DrainFails
  BY <1>4 DEF PollIdle, PollBusy, Poll, DrainFails
<1>5. CASE ArmProductionWatchdog \/ StopProduction \/ StopReturns
           \/ VerifyStopped
  BY <1>5 DEF ArmProductionWatchdog, StopProduction, StopReturns,
     VerifyStopped
<1>6. CASE CheckVariant \/ LaunchCandidate \/ AwaitCandidate \/ RunGate
           \/ RemoveCandidate
  BY <1>6 DEF CheckVariant, LaunchCandidate, AwaitCandidate, RunGate,
     RemoveCandidate
<1>7. CASE Settle
  BY <1>7 DEF Settle
<1>8. CASE CleanupCandidates \/ RestoreProduction \/ ConfirmProduction
           \/ DisarmProduction
  BY <1>8 DEF CleanupCandidates, RestoreProduction, ConfirmProduction,
     DisarmProduction
<1>9. CASE RestoreGateway
  <2>1. pc = "gateway" /\ pc' \in {"reopened", "release"}
    BY <1>9 DEF RestoreGateway
  <2>2. polls' = polls /\ variant' = variant
    BY <1>9 DEF RestoreGateway
  <2> QED
    BY <2>1, <2>2
<1>10. CASE ConfirmGateway \/ Release
  <2>1. \/ pc = "reopened" /\ pc' = "release"
        \/ pc = "release" /\ pc' = "done"
    <3>1. CASE ConfirmGateway
      BY <3>1 DEF ConfirmGateway
    <3>2. CASE Release
      BY <3>2 DEF Release
    <3> QED
      BY <1>10, <3>1, <3>2
  <2>2. polls' = polls /\ variant' = variant
    BY <1>10 DEF ConfirmGateway, Release
  <2> QED
    BY <2>1, <2>2
<1>11. CASE Die
  BY <1>11 DEF Die, Pcs, BeforeStop, InCandidates, InRestore, Ended
<1> QED
  BY <1>3, <1>4, <1>5, <1>6, <1>7, <1>8, <1>9, <1>10, <1>11 DEF Orchestrator

\* No livelock: a run has at most 29 + MaxPolls steps, however it fails, and
\* neither the watchdogs nor the operators set it back.
THEOREM RunComesToAnEnd == Spec => [][ComesNearer]_vars
<1>1. [Next]_vars /\ ~(Orchestrator \/ Die) => RunLeft' = RunLeft
  <2>1. OrchestratorSteps => Orchestrator \/ Die
    BY DEF OrchestratorSteps, Orchestrator
  <2>2. QED BY <2>1, OrchestratorFrame DEF RunLeft, control, draining
<1>2. TypeOK /\ [Next]_vars => [ComesNearer]_vars
  BY <1>1, OrchestratorLeavesLess DEF ComesNearer
<1>3. QED BY <1>2, TypeCorrect, PTL DEF Spec

\* What the orchestrator waits for without a deadline of its own in the model:
\* requests on their way arrive (or a deployment stops the server, and the next
\* poll fails), and production becomes healthy or is refused.
WaitsEnd ==
  /\ pc = "drain" /\ transit > 0 => prod = "up" \/ "deploy" \in faults
  /\ pc = "healthy" => \/ ProductionConfirmed \/ ProductionRefused
                       \/ prod = "starting" /\ ~CandidateRuns

StillUp == pc \in BeforeStop \ {"stopWait", "idle"}
             => prod = "up" \/ "deploy" \in faults

\* Nobody but a deployment stops production before the orchestrator does.
LEMMA StillUpStep == TypeOK /\ StillUp /\ [Next]_vars => StillUp'
<1> SUFFICES ASSUME TypeOK, StillUp, [Next]_vars, "deploy" \notin faults'
             PROVE  StillUp'
  BY DEF StillUp
<1>a. "deploy" \notin faults /\ ~Deployment
  BY NoDeployment, FaultsGrow
<1> USE <1>a DEF StillUp, BeforeStop, InRestore, InCandidates, Ended, Goto,
        Raise, RestoreError, control, container, DockerRunning
<1>1. CASE OrchestratorSteps
  <2>1. CASE StopProduction \/ RestoreProduction
    BY <2>1 DEF StopProduction, RestoreProduction
  <2>2. CASE ~(StopProduction \/ RestoreProduction)
    <3>1. prod' = prod
      BY <1>1, <2>2 DEF OrchestratorSteps, Snapshot, Prepare, ArmWatchdog,
         Install, Recheck, VerifyGate, PollIdle, PollBusy, Poll, DrainFails,
         ArmProductionWatchdog, StopReturns, VerifyStopped, CheckVariant,
         LaunchCandidate, AwaitCandidate, RunGate, RemoveCandidate, Settle,
         CleanupCandidates, ConfirmProduction, DisarmProduction,
         RestoreGateway, ConfirmGateway, Release, Die
    <3>2. CASE Snapshot \/ Prepare \/ ArmWatchdog \/ Install \/ Recheck
               \/ VerifyGate \/ PollIdle \/ PollBusy \/ DrainFails
               \/ ArmProductionWatchdog
      BY <3>1, <3>2 DEF Snapshot, Prepare, ArmWatchdog, Install, Recheck,
         VerifyGate, PollIdle, PollBusy, Poll, DrainFails,
         ArmProductionWatchdog
    <3>3. CASE StopReturns \/ VerifyStopped \/ CheckVariant
               \/ LaunchCandidate \/ AwaitCandidate \/ RunGate
               \/ RemoveCandidate \/ Settle
      BY <3>3 DEF StopReturns, VerifyStopped, CheckVariant, LaunchCandidate,
         AwaitCandidate, RunGate, RemoveCandidate, Settle
    <3>4. CASE CleanupCandidates \/ ConfirmProduction \/ DisarmProduction
               \/ ConfirmGateway \/ Release \/ Die
      BY <3>4 DEF CleanupCandidates, ConfirmProduction, DisarmProduction,
         ConfirmGateway, Release, Die
    <3>5. CASE RestoreGateway
      <4>1. pc' \in {"reopened", "release"}
        BY <3>5 DEF RestoreGateway
      <4>2. QED BY <4>1
    <3>6. QED BY <1>1, <2>2, <3>2, <3>3, <3>4, <3>5 DEF OrchestratorSteps
  <2>3. QED BY <2>1, <2>2
<1>2. CASE UNCHANGED control
  <2>1. prod' = prod \/ prod = "stopping" \/ prod' = "up"
          \/ ProductionWatchdogStarts \/ OrchestratorSteps
    BY WzuFrame DEF WzuSteps, OrchestratorSteps, ContainerStops,
       ContainerReady, ProductionWatchdogWakes, ProductionWatchdogRemoves
  <2>2. QED BY <1>1, <1>2, <2>1 DEF ProductionWatchdogStarts
<1>3. QED BY <1>1, <1>2, OrchestratorFrame

\* No wait without an end: the orchestrator waits in the drain for requests
\* that a serving production takes, and for a healthy production only while it
\* loads into free GPUs; whatever failed, whoever else acts.
THEOREM WaitsComeToAnEnd == Spec => []WaitsEnd
<1>1. TypeOK /\ StillUp => WaitsEnd
  BY DEF TypeOK, WzuOK, StillUp, WaitsEnd, BeforeStop, ProductionConfirmed,
     ProductionRefused, Healthy
<1>2. Init => StillUp
  BY DEF Init, StillUp
<1>3. QED BY <1>1, <1>2, StillUpStep, TypeCorrect, PTL DEF Spec

-----------------------------------------------------------------------------
(* Recovers needs fairness and is left to TLC; that after the end of a run *)
(* there is always somebody who brings production and the ingress back,    *)
(* and nobody who takes them away again, is proved.                        *)

\* What the way back relies on: the stop was not lost, the timers are late,
\* nobody deploys, and the watchdog's own commands do what they should.
Dependable == Without({"stopLost", "early", "deploy", "dockerStart", "silent"})

\* The WZU watchdog runs until production does; a server that loads beside a
\* candidate has it to remove the candidate.
ReturnInv ==
  /\ productionWatchdog \in {"awake", "removed"} => pc \in Ended
  /\ productionWatchdog = "removed" => ~CandidateRuns
  /\ pc \in InCandidates => prod = "down"
  /\ prod = "starting" => pc \in {"healthy", "release"} \cup Ended
  /\ prod = "starting" /\ CandidateRuns
       => productionWatchdog \in {"sleep", "awake"}

ServerReturns ==
  pc \in Ended /\ Dependable => \/ prod = "up"
                                \/ productionWatchdog # "off"
                                \/ prod = "starting" /\ ~CandidateRuns

\* Nobody but the WZU watchdog gives up the WZU watchdog before its time.
LEMMA ReturnStep ==
  ASSUME TypeOK, ProductionInv, ReturnInv, [Next]_vars, Dependable'
  PROVE  ReturnInv'
<1>a. /\ ~Fault("silent") /\ ~Fault("early") /\ ~Fault("stopLost")
      /\ ~Fault("dockerStart") /\ ~Deployment /\ prodId = "orig"
      /\ "dockerStart" \notin faults
  BY NoDeployment, FaultsGrow DEF Dependable, Without, Fault
<1> USE <1>a
<1> USE DEF TypeOK, WzuOK, ProductionInv, ReturnInv,
    InCandidates, Ended, CandidateRuns, DockerRunning, Healthy, Variants,
    control, candidates, wzuDog, container, Goto, Raise, RestoreError
<1>1. CASE Snapshot
  BY <1>1 DEF Snapshot
<1>2. CASE Prepare
  BY <1>2 DEF Prepare
<1>3. CASE ArmWatchdog
  BY <1>3 DEF ArmWatchdog
<1>4. CASE Install
  BY <1>4 DEF Install
<1>5. CASE Recheck
  BY <1>5 DEF Recheck
<1>6. CASE VerifyGate
  BY <1>6 DEF VerifyGate
<1>7. CASE PollIdle
  BY <1>7 DEF PollIdle, Poll
<1>8. CASE PollBusy
  BY <1>8 DEF PollBusy, Poll
<1>9. CASE DrainFails
  BY <1>9 DEF DrainFails
<1>10. CASE ArmProductionWatchdog
  BY <1>10 DEF ArmProductionWatchdog
<1>11. CASE StopProduction
  BY <1>11 DEF StopProduction, Stopped
<1>12. CASE StopReturns
  BY <1>12 DEF StopReturns
<1>13. CASE VerifyStopped
  BY <1>13 DEF VerifyStopped, GpuBusy
<1>14. CASE CheckVariant
  BY <1>14 DEF CheckVariant
<1>15. CASE LaunchCandidate
  BY <1>15 DEF LaunchCandidate
<1>16. CASE AwaitCandidate
  BY <1>16 DEF AwaitCandidate
<1>17. CASE RunGate
  BY <1>17 DEF RunGate
<1>18. CASE RemoveCandidate
  BY <1>18 DEF RemoveCandidate
<1>19. CASE Settle
  BY <1>19 DEF Settle
<1>20. CASE CleanupCandidates
  BY <1>20 DEF CleanupCandidates, WithoutCandidates
<1>21. CASE RestoreProduction
  BY <1>21 DEF RestoreProduction
<1>22. CASE ConfirmProduction
  BY <1>22 DEF ConfirmProduction, ProductionConfirmed
<1>23. CASE DisarmProduction
  BY <1>23 DEF DisarmProduction
<1>24. CASE RestoreGateway
  BY <1>24 DEF RestoreGateway
<1>25. CASE ConfirmGateway
  BY <1>25 DEF ConfirmGateway
<1>26. CASE Release
  BY <1>26 DEF Release
<1>27. CASE Die
  BY <1>27 DEF Die
<1>28. CASE ProductionWatchdogWakes \/ ProductionWatchdogRemoves
  BY <1>28 DEF ProductionWatchdogWakes, ProductionWatchdogRemoves,
     TimerExpires, WithoutCandidates
<1>29. CASE ProductionWatchdogStarts
  BY <1>29 DEF ProductionWatchdogStarts
<1>30. CASE ContainerStops
  BY <1>30 DEF ContainerStops
<1>31. CASE ContainerReady
  BY <1>31 DEF ContainerReady
<1>32. CASE Deployment
  BY <1>32
<1>33. CASE UNCHANGED <<control, cand, container, wzuDog>>
  BY <1>33
<1>34. QED
  BY <1>1, <1>2, <1>3, <1>4, <1>5, <1>6, <1>7, <1>8, <1>9, <1>10, <1>11,
     <1>12, <1>13, <1>14, <1>15, <1>16, <1>17, <1>18, <1>19, <1>20, <1>21,
     <1>22, <1>23, <1>24, <1>25, <1>26, <1>27, <1>28, <1>29, <1>30, <1>31,
     <1>32, <1>33, OrchestratorFrame, WzuFrame
     DEF OrchestratorSteps, WzuSteps

\* However a run ended, if production does not serve it loads into free GPUs,
\* or the WZU watchdog has yet to make it do so; whichever command of the
\* orchestrator failed, but for a docker stop that is lost.
THEOREM ServerComesBack == Spec => []ServerReturns
<1>1. Init => ReturnInv
  BY DEF Init, ReturnInv, CandidateRuns, InCandidates
<1>2. WindowInv /\ (Dependable => ReturnInv) /\ [Next]_vars
        => (Dependable => ReturnInv)'
  <2> SUFFICES ASSUME WindowInv, Dependable => ReturnInv, [Next]_vars,
                      Dependable'
               PROVE  ReturnInv'
    OBVIOUS
  <2>1. Dependable
    BY FaultsGrow DEF Dependable, Without
  <2>2. ProductionInv
    BY <2>1 DEF WindowInv, PluggedInv, Unplugged, Dependable, Without
  <2>3. QED BY <2>1, <2>2, ReturnStep DEF WindowInv
<1>3. WindowInv /\ (Dependable => ReturnInv) => ServerReturns
  <2> SUFFICES ASSUME WindowInv, ReturnInv, Dependable PROVE ServerReturns
    BY DEF ServerReturns
  <2>1. ProductionInv /\ "dockerStart" \notin faults
    BY DEF WindowInv, PluggedInv, Unplugged, Dependable, Without
  <2>2. QED BY <2>1 DEF WindowInv, TypeOK, WzuOK, ProductionInv, ReturnInv,
               ServerReturns
<1>4. QED BY <1>1, <1>2, <1>3, WindowInvariant, PTL DEF Spec

\* What keeps Caddy at one of the orchestrator's two files.
Quiet == Without({"edit", "editRace", "reload"})

\* Caddy runs what is on disk, which is one of the orchestrator's two files.
LoadedInv == loaded = file /\ file \in {"orig", "maint"}

IngressReturns ==
  Quiet /\ Gated(loaded) => file = "maint" /\ watchdog # "off" /\ backup

\* Only an edit or a failed reload sets them apart.
LEMMA LoadedStep ==
  ASSUME LoadedInv, [Next]_vars, Quiet'
  PROVE  LoadedInv'
<1>a. ~Fault("edit") /\ ~Fault("editRace") /\ ~Fault("reload")
  BY DEF Quiet, Without, Fault
<1> USE <1>a DEF LoadedInv, caddy
<1>1. CASE Prepare \/ ArmWatchdog \/ Recheck \/ ConfirmGateway
  BY <1>1 DEF Prepare, ArmWatchdog, Recheck, ConfirmGateway
<1>2. CASE Install
  BY <1>2 DEF Install
<1>3. CASE RestoreGateway
  BY <1>3 DEF RestoreGateway
<1>4. CASE WatchdogWakes \/ WatchdogTestsHash \/ WatchdogProbes
  BY <1>4 DEF WatchdogWakes, WatchdogTestsHash, WatchdogProbes
<1>5. CASE WatchdogReopens
  BY <1>5 DEF WatchdogReopens
<1>6. CASE OperatorEdits
  BY <1>6 DEF OperatorEdits
<1>7. CASE UNCHANGED <<caddy, watchdog>>
  BY <1>7
<1>8. QED BY <1>1, <1>2, <1>3, <1>4, <1>5, <1>6, <1>7, TokyoFrame
    DEF TokyoSteps

\* They stay together while nobody edits and no reload fails.
LEMMA LoadedInvariant == Spec => [](Quiet => LoadedInv)
<1>1. Init => LoadedInv
  BY DEF Init, LoadedInv
<1>2. (Quiet => LoadedInv) /\ [Next]_vars => (Quiet => LoadedInv)'
  BY LoadedStep, FaultsGrow DEF Quiet, Without
<1>3. QED BY <1>1, <1>2, PTL DEF Spec

\* As long as no operator edits the Caddyfile and no reload fails, an ingress
\* that answers 503 has the watchdog and the backup that reopen it.
THEOREM IngressComesBack == Spec => []IngressReturns
<1>1. (Quiet => LoadedInv) /\ GateNeverStranded => IngressReturns
  BY DEF LoadedInv, GateNeverStranded, IngressReturns, Gated
<1>2. QED BY <1>1, LoadedInvariant, GateGuarded, PTL

Recovered == prod = "up" /\ ~Gated(loaded)
Lasts == pc \in Ended /\ Recovered /\ Quiet' /\ "deploy" \notin faults'
           => Recovered'

\* While nobody edits or deploys and no reload fails, what has recovered after
\* the run stays so: no watchdog that is still running takes it away.
THEOREM RecoveryLasts == Spec => [][Lasts]_vars
<1>1. ASSUME TypeOK, Quiet => LoadedInv, [Next]_vars, pc \in Ended, Recovered,
             Quiet', "deploy" \notin faults'
      PROVE  Recovered'
  <2>1. LoadedInv /\ ~Deployment
    BY <1>1, FaultsGrow, NoDeployment DEF Quiet, Without
  <2>2. ~Fault("edit") /\ ~Fault("editRace") /\ ~Fault("reload")
    BY <1>1 DEF Quiet, Without, Fault
  <2> USE <1>1, <2>1, <2>2 DEF Recovered, LoadedInv, Ended, Gated
  <2>3. ~OrchestratorSteps
    BY DEF OrchestratorSteps, Snapshot, Prepare, ArmWatchdog, Install,
       Recheck, VerifyGate, PollIdle, PollBusy, Poll, DrainFails,
       ArmProductionWatchdog, StopProduction, StopReturns, VerifyStopped,
       CheckVariant, LaunchCandidate, AwaitCandidate, RunGate,
       RemoveCandidate, Settle, CleanupCandidates, RestoreProduction,
       ConfirmProduction, DisarmProduction, RestoreGateway, ConfirmGateway,
       Release, Die
  <2>4. prod' = "up"
    BY <2>3, WzuFrame DEF WzuSteps, OrchestratorSteps, ContainerStops,
       ContainerReady, ProductionWatchdogWakes, ProductionWatchdogRemoves,
       ProductionWatchdogStarts, DockerRunning, container
  <2>5. ~Gated(loaded)'
    BY <2>3, TokyoFrame DEF TokyoSteps, OrchestratorSteps, WatchdogWakes,
       WatchdogTestsHash, WatchdogProbes, WatchdogReopens, OperatorEdits,
       caddy
  <2>6. QED BY <2>4, <2>5
<1>2. TypeOK /\ (Quiet => LoadedInv) /\ [Next]_vars => [Lasts]_vars
  BY <1>1 DEF Lasts
<1>3. QED BY <1>2, LoadedInvariant, TypeCorrect, PTL DEF Spec
=============================================================================
