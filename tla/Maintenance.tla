----------------------------- MODULE Maintenance -----------------------------
(***************************************************************************)
(* benchmarks/v100-extreme/maintenance_ab.py: one maintenance window.      *)
(*                                                                         *)
(* The orchestrator (variable pc) runs on a third machine and drives two   *)
(* hosts over ssh.  Tokyo holds the public ingress (Caddy); WZU holds the  *)
(* production container, the two GPUs and the candidate containers.  Two   *)
(* detached watchdog scripts, one per host, undo the window when the       *)
(* rollback timer expires.  Requests, container stops and starts, an       *)
(* operator's edits, a deployment and the failures of commands interleave  *)
(* with all of these.                                                      *)
(*                                                                         *)
(* One step is one remote command or script, or a group of reads.          *)
(***************************************************************************)
EXTENDS Integers, FiniteSets

CONSTANTS
  StablePolls,  \* drain.stable_polls: consecutive idle polls before the stop
  ArrivalPolls, \* polls an admitted request may take to reach the slot
  MaxPolls,     \* drain.timeout_seconds, counted in polls
  MaxInflight,  \* bound: requests inside the service at once
  MaxFaults,    \* bound: kinds of fault in one behaviour
  Faults        \* kinds of fault that may happen, each any number of times

FaultKinds ==
  {"ssh",          \* a remote command raises, with or without its effect,
                   \* except the production stop the daemon has accepted:
   "stopLost",     \* ssh gives up on docker stop --time 120 (after 60 s), or
                   \* loses the session, and the container goes on stopping
   "silent",       \* a command whose exit status is ignored fails
   "reload",       \* systemctl reload caddy fails after the file was written
   "dockerStart",  \* docker start in the production watchdog fails
   "edit",         \* an operator edits the Caddyfile
   "editRace",     \* ... between the watchdog's hash test and its copy
   "deploy",       \* an operator runs run-qwen38-27b-production.sh
   "foreign",      \* a container already has a candidate's name
   "early"}        \* a rollback timer expires under a live orchestrator

Variants == 1..2

\* Steps of gate_ingress in which no timer can have run out: the timers are
\* armed with rollback_seconds = 3600 and drain.timeout_seconds is 1800.
BeforeStop == {"snapshot", "prepare", "arm", "install", "recheck", "verify",
               "drain", "armProduction", "stop", "stopWait", "idle"}
InCandidates == {"check", "launch", "await", "gate", "remove", "settle"}
InRestore == {"cleanup", "production", "healthy", "disarm", "gateway",
              "reopened", "release"}
Ended == {"done", "dead"}
Pcs == BeforeStop \cup InCandidates \cup InRestore \cup Ended

\* load_config demands at least two stable polls; the drain is meaningful
\* only if it looks longer than an admitted request can stay on its way.
ASSUME DrainAssumption ==
  /\ StablePolls \in Nat /\ ArrivalPolls \in Nat /\ MaxPolls \in Nat
  /\ StablePolls >= 2 /\ StablePolls > ArrivalPolls /\ MaxPolls >= StablePolls
ASSUME BoundsAssumption == MaxInflight \in Nat /\ MaxFaults \in Nat
ASSUME FaultsAssumption == Faults \subseteq FaultKinds

VARIABLES
  pc,                 \* next step of the orchestrator
  primaryError,       \* primary_error is not None
  restoreErrors,      \* the phases named in restore_errors
  originalInspect,    \* original_inspect is not None
  gatewayGated,       \* gateway_gated
  productionStopped,  \* production_stopped
  ownedCandidates,    \* owned_candidates
  variant,            \* index of the variant being run
  stable, polls,      \* drain_slots' counters
  productionPid,      \* production_watchdog_pid is known
  file, loaded,       \* Tokyo: Caddyfile on disk, configuration Caddy runs
  backup,             \* Tokyo: the byte-exact copy of the Caddyfile exists
  watchdog,           \* Tokyo: the rollback script
  prod,               \* WZU: the production container
  prodId,             \* WZU: which container has production's name: the one of
                      \* the snapshot, none, a deployment's new one until it
                      \* answers, or another one
  cand,               \* WZU: the candidate containers
  productionWatchdog, \* WZU: the production rollback script
  transit,            \* requests the ingress let in, not yet at the slot
  queued,             \* requests at the slot: it reports is_processing
  age,                \* polls since the last admission, up to ArrivalPolls
  faults              \* the kinds of fault that have happened

control == <<pc, primaryError, restoreErrors>>
flags == <<originalInspect, gatewayGated, productionStopped>>
candidates == <<ownedCandidates, variant, cand>>
draining == <<stable, polls>>
caddy == <<file, loaded, backup>>
wzuDog == <<productionWatchdog, productionPid>>
container == <<prod, prodId>>
traffic == <<transit, queued, age>>
vars == <<control, flags, candidates, draining, caddy, watchdog, wzuDog,
          container, traffic, faults>>

Files == {"orig", "maint", "editOpen", "editGated"}
\* Contents that answer the public site with 503: caddy_maintenance's block.
Gated(f) == f \in {"maint", "editGated"}
\* What an operator's edit elsewhere in the file makes of it.
Edited(f) == IF Gated(f) THEN "editGated" ELSE "editOpen"

DockerRunning == prod \in {"up", "starting", "stopping"}
\* A stopping server still answers /health and keeps its Docker status.
Healthy == prod \in {"up", "stopping"}
CandidateRuns == \E i \in Variants : cand[i] = "running"
\* nvidia-smi lists a process once the server has made its CUDA context.
GpuBusy == prod \in {"up", "stopping"} \/ CandidateRuns

Fault(kind) == /\ kind \in Faults
               /\ Cardinality(faults \cup {kind}) <= MaxFaults
               /\ faults' = faults \cup {kind}
Without(kinds) == faults \cap kinds = {}

\* Leaving a step of the try block of run(): the next step, or the error path.
Goto(step) == pc' = step /\ UNCHANGED <<primaryError, restoreErrors>>
Raise == pc' = "cleanup" /\ primaryError' = TRUE /\ UNCHANGED restoreErrors
\* Leaving a restore step with an error that run() collects.
RestoreError(phase, step) ==
  /\ pc' = step
  /\ restoreErrors' = restoreErrors \cup {phase}
  /\ UNCHANGED primaryError

-----------------------------------------------------------------------------
(* The window opens: snapshot and gate_ingress                             *)

Snapshot ==
  /\ pc = "snapshot"
  /\ \/ Goto("prepare") /\ originalInspect' = TRUE
     \/ Raise /\ originalInspect' \in BOOLEAN  \* a check before or after :573
  /\ UNCHANGED <<gatewayGated, productionStopped, candidates, draining, caddy,
                 watchdog, wzuDog, container, traffic, faults>>

\* Upload the maintenance file, take the byte-exact backup, validate.
Prepare ==
  /\ pc = "prepare"
  /\ \/ file = "orig" /\ backup' = TRUE /\ Goto("arm") /\ UNCHANGED faults
     \/ file # "orig" /\ Raise /\ UNCHANGED <<backup, faults>>
     \/ Fault("ssh") /\ backup' \in {backup, file = "orig"} /\ Raise
  /\ UNCHANGED <<flags, candidates, draining, file, loaded, watchdog, wzuDog,
                 container, traffic>>

\* Mutant: the script is started without waiting for its acknowledgement.
ArmUnacknowledged ==
  /\ pc = "arm" /\ Goto("install")
  /\ \/ watchdog' = "sleep" /\ UNCHANGED faults
     \/ Fault("ssh") /\ UNCHANGED watchdog
  /\ UNCHANGED <<flags, candidates, draining, caddy, wzuDog, container,
                 traffic>>
ArmWatchdog ==
  /\ pc = "arm"
  /\ \/ watchdog' = "sleep" /\ Goto("install") /\ UNCHANGED faults
     \/ Fault("ssh") /\ watchdog' \in {"off", "sleep"} /\ Raise
  /\ UNCHANGED <<flags, candidates, draining, caddy, wzuDog, container,
                 traffic>>

\* install -m 0644 and systemctl reload, under set -e.
Install ==
  /\ pc = "install"
  /\ \/ /\ file = "orig" /\ file' = "maint" /\ loaded' = "maint"
        /\ gatewayGated' = TRUE /\ Goto("verify") /\ UNCHANGED faults
     \/ /\ file # "orig" /\ Goto("recheck")
        /\ UNCHANGED <<file, loaded, gatewayGated, faults>>
     \/ /\ file = "orig" /\ Fault("reload") /\ file' = "maint"
        /\ Goto("recheck") /\ UNCHANGED <<loaded, gatewayGated>>
     \/ /\ file = "orig" /\ Fault("ssh") /\ Goto("recheck")
        /\ \/ file' = "maint" /\ loaded' = "maint"
           \/ UNCHANGED <<file, loaded>>
        /\ UNCHANGED gatewayGated
  /\ UNCHANGED <<originalInspect, productionStopped, candidates, draining,
                 backup, watchdog, wzuDog, container, traffic>>

\* The except branch of gate_ingress: believe the hash, or give up.
Recheck ==
  /\ pc = "recheck"
  /\ Raise
  /\ \/ /\ file = "maint" /\ gatewayGated' = TRUE
        /\ UNCHANGED <<backup, watchdog, faults>>
     \/ /\ file # "maint" /\ gatewayGated' = FALSE
        /\ \/ backup' = FALSE /\ watchdog' = "off" /\ UNCHANGED faults
           \/ Fault("silent") /\ backup' = FALSE /\ UNCHANGED watchdog
           \/ Fault("silent") /\ watchdog' = "off" /\ UNCHANGED backup
     \/ Fault("ssh") /\ UNCHANGED <<gatewayGated, backup, watchdog>>
  /\ UNCHANGED <<originalInspect, productionStopped, candidates, draining,
                 file, loaded, wzuDog, container, traffic>>

\* wait_public_status(503).
VerifyGate ==
  /\ pc = "verify"
  /\ \/ Gated(loaded) /\ Goto("drain") /\ UNCHANGED faults
     \/ /\ Raise
        /\ IF Gated(loaded) THEN Fault("ssh") ELSE UNCHANGED faults
  /\ UNCHANGED <<flags, candidates, draining, caddy, watchdog, wzuDog,
                 container, traffic>>

-----------------------------------------------------------------------------
(* drain_and_stop_production                                               *)

\* drain_slots' threshold and deadline, each with an off-by-one mutant.
DrainedEarly(n) == n + 1 >= StablePolls
Drained(n) == n >= StablePolls
DeadlineInclusive == polls <= MaxPolls
BeforeDeadline == polls < MaxPolls

\* One poll of /slots.  A request still on its way (its body is being sent, it
\* is in the tunnel) is not visible; ArrivalPolls bounds how long that lasts.
Poll ==
  /\ pc = "drain" /\ BeforeDeadline /\ Healthy
  /\ transit > 0 => age < ArrivalPolls
  /\ age' = IF age < ArrivalPolls THEN age + 1 ELSE age
  /\ polls' = polls + 1
  /\ UNCHANGED <<flags, candidates, caddy, watchdog, wzuDog, container,
                 transit, queued, faults>>

PollIdle ==
  /\ queued = 0 /\ Poll
  /\ stable' = stable + 1
  /\ Goto(IF Drained(stable + 1) THEN "armProduction" ELSE "drain")

PollBusy ==
  /\ queued > 0 /\ Poll
  /\ stable' = 0
  /\ Goto("drain")

\* The deadline of drain_slots, or a poll that fails.
DrainFails ==
  /\ pc = "drain"
  /\ Raise
  /\ \/ (BeforeDeadline => ~Healthy) /\ UNCHANGED faults
     \/ Fault("ssh")
  /\ UNCHANGED <<flags, candidates, draining, caddy, watchdog, wzuDog,
                 container, traffic>>

\* Mutant: docker stop goes ahead although the arming failed.
ArmProductionUnacknowledged ==
  /\ pc = "armProduction" /\ Goto("stop")
  /\ \/ /\ productionWatchdog' = "sleep" /\ productionPid' = TRUE
        /\ UNCHANGED faults
     \/ Fault("ssh") /\ UNCHANGED wzuDog
  /\ UNCHANGED <<flags, candidates, draining, caddy, watchdog, container,
                 traffic>>
ArmProductionWatchdog ==
  /\ pc = "armProduction"
  /\ \/ /\ productionWatchdog' = "sleep" /\ productionPid' = TRUE
        /\ Goto("stop") /\ UNCHANGED faults
     \/ /\ Fault("ssh") /\ productionWatchdog' \in {"off", "sleep"} /\ Raise
        /\ UNCHANGED productionPid
  /\ UNCHANGED <<flags, candidates, draining, caddy, watchdog, container,
                 traffic>>

\* docker stop of a server that answers, or of one that still loads.
Stopped(state) == IF state \in {"up", "stopping"} THEN "stopping" ELSE "down"

\* docker stop is issued; it returns once the container is down.
StopProduction ==
  /\ pc = "stop"
  /\ \/ /\ prodId # "none" /\ prod' = Stopped(prod)
        /\ \/ Goto("stopWait") /\ UNCHANGED faults
           \/ Fault("stopLost") /\ Raise
     \/ prodId = "none" /\ Raise /\ UNCHANGED <<prod, faults>>
     \/ Fault("ssh") /\ Raise /\ UNCHANGED prod
  /\ UNCHANGED <<flags, candidates, draining, caddy, watchdog, wzuDog, prodId,
                 traffic>>

StopReturns ==
  /\ pc = "stopWait"
  /\ \/ /\ prod # "stopping" /\ productionStopped' = TRUE
        /\ Goto("idle") /\ UNCHANGED faults
     \/ /\ Fault(IF prod = "stopping" THEN "stopLost" ELSE "ssh") /\ Raise
        /\ UNCHANGED productionStopped
  /\ UNCHANGED <<originalInspect, gatewayGated, candidates, draining, caddy,
                 watchdog, wzuDog, container, traffic>>

\* Running must be false and no CUDA process may be left.
VerifyStopped ==
  /\ pc = "idle"
  /\ \/ /\ ~DockerRunning /\ ~GpuBusy /\ prodId # "none"
        /\ Goto("check") /\ UNCHANGED faults
     \/ /\ DockerRunning \/ GpuBusy \/ prodId = "none"
        /\ Raise /\ UNCHANGED faults
     \/ Fault("ssh") /\ Raise
  /\ UNCHANGED <<flags, candidates, draining, caddy, watchdog, wzuDog,
                 container, traffic>>

-----------------------------------------------------------------------------
(* run_variant, once per variant                                           *)

\* owned_candidates grows before the name, the port and the GPUs are tested;
\* preflight_variant comes before both.
CheckVariant ==
  /\ pc = "check"
  /\ \/ Raise /\ UNCHANGED ownedCandidates
     \/ /\ ownedCandidates' = ownedCandidates \cup {variant}
        /\ \/ Raise
           \/ cand[variant] = "none" /\ ~GpuBusy /\ Goto("launch")
  /\ UNCHANGED <<flags, variant, cand, draining, caddy, watchdog, wzuDog,
                 container, traffic, faults>>

LaunchCandidate ==
  /\ pc = "launch"
  /\ \/ /\ cand' = [cand EXCEPT ![variant] = "running"]
        /\ Goto("await") /\ UNCHANGED faults
     \/ /\ Fault("ssh") /\ Raise
        /\ cand' \in {cand, [cand EXCEPT ![variant] = "running"]}
  /\ UNCHANGED <<flags, ownedCandidates, variant, draining, caddy, watchdog,
                 wzuDog, container, traffic>>

\* Docker health, HTTP health and exclusive ownership of the GPUs.
AwaitCandidate ==
  /\ pc = "await"
  /\ \/ Raise
     \/ cand[variant] = "running" /\ ~Healthy /\ Goto("gate")
  /\ UNCHANGED <<flags, candidates, draining, caddy, watchdog, wzuDog,
                 container, traffic, faults>>

\* quick_gate.py: exit 0 or 1 is a result, anything else is raised.
RunGate ==
  /\ pc = "gate"
  /\ Raise \/ Goto("remove")
  /\ UNCHANGED <<flags, candidates, draining, caddy, watchdog, wzuDog,
                 container, traffic, faults>>

\* docker stop and docker rm, both check=False (an ssh timeout raises all the
\* same), then owned_candidates.remove.
RemoveCandidate ==
  /\ pc = "remove"
  /\ \/ /\ \/ cand' = [cand EXCEPT ![variant] = "none"] /\ UNCHANGED faults
           \/ Fault("silent") /\ UNCHANGED cand
        /\ ownedCandidates' = ownedCandidates \ {variant} /\ Goto("settle")
     \/ /\ Fault("ssh") /\ Raise /\ UNCHANGED ownedCandidates
        /\ cand' \in {cand, [cand EXCEPT ![variant] = "none"]}
  /\ UNCHANGED <<flags, variant, draining, caddy, watchdog, wzuDog, container,
                 traffic>>

\* The GPUs must be idle again; the loop goes on or the try block ends.
Settle ==
  /\ pc = "settle"
  /\ \/ GpuBusy /\ Raise /\ UNCHANGED <<variant, faults>>
     \/ /\ ~GpuBusy /\ variant = 1 /\ variant' = 2 /\ Goto("check")
        /\ UNCHANGED faults
     \/ ~GpuBusy /\ variant = 2 /\ Goto("cleanup")
        /\ UNCHANGED <<variant, faults>>
     \/ Fault("ssh") /\ Raise /\ UNCHANGED variant
  /\ UNCHANGED <<flags, ownedCandidates, cand, draining, caddy, watchdog,
                 wzuDog, container, traffic>>

-----------------------------------------------------------------------------
(* The restore half of run()                                               *)

\* Mutant: docker rm without -f refuses a container that runs.
WithoutStopped(names) ==
  [i \in Variants |-> IF i \in names /\ cand[i] # "running" THEN "none"
                      ELSE cand[i]]
WithoutCandidates(names) ==
  [i \in Variants |-> IF i \in names THEN "none" ELSE cand[i]]

\* docker rm -f ... || true: only an ssh timeout is noticed.
CleanupCandidates ==
  /\ pc = "cleanup"
  /\ \/ /\ cand' = WithoutCandidates(ownedCandidates) /\ ownedCandidates' = {}
        /\ Goto("production") /\ UNCHANGED faults
     \/ /\ Fault("silent") /\ ownedCandidates' = {} /\ Goto("production")
        /\ \E gone \in SUBSET ownedCandidates : cand' = WithoutCandidates(gone)
     \/ /\ Fault("ssh") /\ RestoreError("candidate", "production")
        /\ cand' \in {cand, WithoutCandidates(ownedCandidates)}
        /\ UNCHANGED ownedCandidates
  /\ UNCHANGED <<flags, variant, draining, caddy, watchdog, wzuDog, container,
                 traffic>>

\* First half of restore_production: same container?  Start it if needed.
RestoreProduction ==
  /\ pc = "production"
  /\ \/ ~originalInspect /\ Goto("gateway") /\ UNCHANGED <<prod, faults>>
     \/ /\ originalInspect /\ prodId = "orig" /\ Goto("healthy")
        /\ prod' = IF DockerRunning THEN prod ELSE "starting"
        /\ UNCHANGED faults
     \/ /\ originalInspect /\ prodId # "orig"
        /\ RestoreError("production", "release") /\ UNCHANGED <<prod, faults>>
     \/ /\ originalInspect /\ Fault("ssh")
        /\ RestoreError("production", "release")
        /\ prod' \in {prod, IF prodId = "orig" /\ ~DockerRunning
                            THEN "starting" ELSE prod}
  /\ UNCHANGED <<flags, candidates, draining, caddy, watchdog, wzuDog, prodId,
                 traffic>>

\* Second half: Docker and HTTP health, exclusive GPUs, same fingerprint.
ProductionConfirmed == Healthy /\ ~CandidateRuns /\ prodId = "orig"
\* Mutant: the wait for health has no end.
NeverRefused == FALSE
ProductionRefused == \/ Healthy /\ (CandidateRuns \/ prodId # "orig")
                     \/ prod = "starting" /\ CandidateRuns
                     \/ prod = "down" \/ prodId = "none"

ConfirmProduction ==
  /\ pc = "healthy"
  /\ \/ /\ ProductionConfirmed /\ productionStopped' = FALSE
        /\ Goto("disarm") /\ UNCHANGED faults
     \/ /\ ProductionRefused /\ RestoreError("production", "release")
        /\ UNCHANGED <<productionStopped, faults>>
     \/ /\ Fault("ssh") /\ RestoreError("production", "release")
        /\ UNCHANGED productionStopped
  /\ UNCHANGED <<originalInspect, gatewayGated, candidates, draining, caddy,
                 watchdog, wzuDog, container, traffic>>

\* Mutant: the WZU watchdog is left to run out.
LeaveArmed ==
  /\ pc = "disarm" /\ Goto("gateway")
  /\ UNCHANGED <<flags, candidates, draining, caddy, watchdog, wzuDog,
                 container, traffic, faults>>
\* Kill the WZU watchdog, if its pid was ever learnt, and remove its files, if
\* any were uploaded after the drain; an ssh timeout of either raises.
DisarmProduction ==
  /\ pc = "disarm"
  /\ \/ /\ productionWatchdog' = IF productionPid THEN "off"
                                 ELSE productionWatchdog
        /\ \/ Goto("gateway") /\ UNCHANGED faults
           \/ /\ Drained(stable) /\ Fault("ssh")
              /\ RestoreError("production", "release")
     \/ Fault("silent") /\ Goto("gateway") /\ UNCHANGED productionWatchdog
     \/ /\ productionPid /\ Fault("ssh") /\ UNCHANGED productionWatchdog
        /\ RestoreError("production", "release")
  /\ UNCHANGED <<flags, candidates, draining, caddy, watchdog, productionPid,
                 container, traffic>>

\* restore_gateway's script: hash test, copy, validate, reload.
RestoreGateway ==
  /\ pc = "gateway"
  /\ \/ ~gatewayGated /\ Goto("release") /\ UNCHANGED <<file, loaded, faults>>
     \/ /\ gatewayGated /\ ~(file = "maint" /\ backup)
        /\ RestoreError("gateway", "release")
        /\ UNCHANGED <<file, loaded, faults>>
     \/ /\ gatewayGated /\ file = "maint" /\ backup
        /\ \/ /\ file' = "orig" /\ loaded' = "orig"
              /\ Goto("reopened") /\ UNCHANGED faults
           \/ /\ Fault("reload") /\ file' = "orig" /\ UNCHANGED loaded
              /\ RestoreError("gateway", "release")
           \/ /\ Fault("ssh") /\ RestoreError("gateway", "release")
              /\ \/ file' = "orig" /\ loaded' = "orig"
                 \/ UNCHANGED <<file, loaded>>
  /\ UNCHANGED <<flags, candidates, draining, backup, watchdog, wzuDog,
                 container, traffic>>

\* Public 401 and tunnel 200; then the Tokyo watchdog and the files go.
ConfirmGateway ==
  /\ pc = "reopened"
  /\ \/ /\ ~Gated(loaded) /\ Healthy
        /\ \/ /\ Goto("release") /\ gatewayGated' = FALSE
              /\ \/ watchdog' = "off" /\ backup' = FALSE /\ UNCHANGED faults
                 \/ /\ Fault("silent")
                    /\ watchdog' \in {watchdog, "off"}
                    /\ backup' \in {backup, FALSE}
           \/ /\ Fault("ssh") /\ RestoreError("gateway", "release")
              /\ \/ watchdog' \in {watchdog, "off"} /\ UNCHANGED backup
                 \/ watchdog' = "off" /\ backup' = FALSE
              /\ UNCHANGED gatewayGated
     \/ /\ Gated(loaded) \/ ~Healthy
        /\ RestoreError("gateway", "release")
        /\ UNCHANGED <<gatewayGated, watchdog, backup, faults>>
  /\ UNCHANGED <<originalInspect, productionStopped, candidates, draining,
                 file, loaded, wzuDog, container, traffic>>

\* The locks are released and result.json is written.
Release ==
  /\ pc = "release"
  /\ Goto("done")
  /\ UNCHANGED <<flags, candidates, draining, caddy, watchdog, wzuDog,
                 container, traffic, faults>>

\* Ctrl-C, a lost laptop: no except clause of run() sees it.
Die ==
  /\ pc \notin Ended
  /\ Goto("dead")
  /\ UNCHANGED <<flags, candidates, draining, caddy, watchdog, wzuDog,
                 container, traffic, faults>>

-----------------------------------------------------------------------------
(* The two watchdog scripts                                                *)

\* rollback_seconds (3600) is longer than drain and docker stop together (1800
\* and 120 s), not longer than the gates (7200 s each).
TimerExpires ==
  /\ prod = "stopping" => prodId = "none"
  /\ \/ pc \in Ended /\ UNCHANGED faults
     \/ pc \in InCandidates \cup InRestore /\ Fault("early")

WatchdogWakes ==
  /\ watchdog = "sleep" /\ TimerExpires
  /\ watchdog' = "loop"
  /\ UNCHANGED <<control, flags, candidates, draining, caddy, wzuDog,
                 container, traffic>>

\* Mutant: the watchdog restores whatever the Caddyfile has become.
WatchdogTrustsFile ==
  /\ watchdog = "loop" /\ watchdog' = "checked"
  /\ UNCHANGED <<control, flags, candidates, draining, caddy, wzuDog,
                 container, traffic, faults>>
\* [ "$current" = maintenance_sha ] || exit 0
WatchdogTestsHash ==
  /\ watchdog = "loop"
  /\ watchdog' = IF file = "maint" THEN "checked" ELSE "off"
  /\ UNCHANGED <<control, flags, candidates, draining, caddy, wzuDog,
                 container, traffic, faults>>

\* curl through the tunnel, up to five seconds.
WatchdogProbes ==
  /\ watchdog = "checked"
  /\ watchdog' = IF Healthy THEN "copy" ELSE "loop"
  /\ UNCHANGED <<control, flags, candidates, draining, caddy, wzuDog,
                 container, traffic, faults>>

\* cp -p backup caddyfile; validate && reload; exit.
WatchdogReopens ==
  /\ watchdog = "copy"
  /\ watchdog' = "off"
  /\ file' = IF backup THEN "orig" ELSE file
  /\ \/ loaded' = file' /\ UNCHANGED faults
     \/ Fault("reload") /\ UNCHANGED loaded
  /\ UNCHANGED <<control, flags, candidates, draining, backup, wzuDog,
                 container, traffic>>

ProductionWatchdogWakes ==
  /\ productionWatchdog = "sleep" /\ TimerExpires
  /\ productionWatchdog' = "awake"
  /\ UNCHANGED <<control, flags, candidates, draining, caddy, watchdog,
                 productionPid, container, traffic>>

\* docker rm -f of both candidate names || true.
ProductionWatchdogRemoves ==
  /\ productionWatchdog = "awake"
  /\ productionWatchdog' = "removed"
  /\ \/ cand' = WithoutCandidates(Variants) /\ UNCHANGED faults
     \/ /\ Fault("silent")
        /\ \E gone \in SUBSET Variants : cand' = WithoutCandidates(gone)
  /\ UNCHANGED <<control, flags, ownedCandidates, variant, draining, caddy,
                 watchdog, productionPid, container, traffic>>

\* [ "$running" = true ] || docker start; the health loop changes nothing.
ProductionWatchdogStarts ==
  /\ productionWatchdog = "removed"
  /\ productionWatchdog' = "off"
  /\ \/ /\ prod' = IF DockerRunning \/ prodId = "none" THEN prod
                   ELSE "starting"
        /\ UNCHANGED faults
     \/ ~DockerRunning /\ Fault("dockerStart") /\ UNCHANGED prod
  /\ UNCHANGED <<control, flags, candidates, draining, caddy, watchdog,
                 productionPid, prodId, traffic>>

-----------------------------------------------------------------------------
(* Docker, the clients and the operator                                    *)

\* The stopped server drops whatever it was answering.
ContainerStops ==
  /\ prod = "stopping"
  /\ prod' = "down"
  /\ transit' = 0 /\ queued' = 0 /\ age' = 0
  /\ UNCHANGED <<control, flags, candidates, draining, caddy, watchdog, wzuDog,
                 prodId, faults>>

\* The model only loads into GPUs that nobody else fills.
ContainerReady ==
  /\ prod = "starting" /\ ~CandidateRuns
  /\ prod' = "up"
  /\ UNCHANGED <<control, flags, candidates, draining, caddy, watchdog, wzuDog,
                 prodId, traffic, faults>>

Admit ==
  /\ ~Gated(loaded) /\ prod = "up" /\ transit + queued < MaxInflight
  /\ transit' = transit + 1 /\ age' = 0
  /\ UNCHANGED <<control, flags, candidates, draining, caddy, watchdog, wzuDog,
                 container, queued, faults>>

Arrive ==
  /\ prod = "up" /\ transit > 0
  /\ transit' = transit - 1 /\ queued' = queued + 1
  /\ UNCHANGED <<control, flags, candidates, draining, caddy, watchdog, wzuDog,
                 container, age, faults>>

Answer ==
  /\ prod = "up" /\ queued > 0
  /\ queued' = queued - 1
  /\ UNCHANGED <<control, flags, candidates, draining, caddy, watchdog, wzuDog,
                 container, transit, age, faults>>

\* An edit elsewhere in the Caddyfile, with or without a reload.
OperatorEdits ==
  /\ pc # "snapshot" /\ file \in {"orig", "maint"}
  /\ Fault(IF watchdog \in {"checked", "copy"} THEN "editRace" ELSE "edit")
  /\ file' = Edited(file)
  /\ loaded' \in {loaded, Edited(file)}
  /\ UNCHANGED <<control, flags, candidates, draining, backup, watchdog,
                 wzuDog, container, traffic>>

-----------------------------------------------------------------------------
(* run-qwen38-27b-production.sh, which takes none of the maintenance locks: *)
(* module Deploy has its steps.  At most one deployment is begun.           *)

\* An idle slot, or no container to ask; the old one is renamed and stopped.
DeployStops ==
  /\ pc # "snapshot" /\ "deploy" \notin faults /\ Fault("deploy")
  /\ prod = "down" \/ (Healthy /\ queued = 0)
  /\ prodId' = "none"
  /\ prod' = Stopped(prod)
  /\ UNCHANGED <<control, flags, candidates, draining, caddy, watchdog, wzuDog,
                 traffic>>

\* docker run: the new container loads into the same GPUs.
DeployStarts ==
  /\ prodId = "none" /\ prod = "down"
  /\ prodId' = "new" /\ prod' = "starting"
  /\ UNCHANGED <<control, flags, candidates, draining, caddy, watchdog, wzuDog,
                 traffic, faults>>

DeployEnds ==
  /\ prodId = "new" /\ Healthy
  /\ prodId' = "other"
  /\ UNCHANGED <<control, flags, candidates, draining, caddy, watchdog, wzuDog,
                 prod, traffic, faults>>

\* docker run failed or the new server never answered: docker rm -f, the old
\* container gets its name back and is started.
DeployRollsBack ==
  /\ prodId \in {"none", "new"} /\ prod \in {"down", "starting"}
  /\ prodId' = "orig" /\ prod' = "starting"
  /\ UNCHANGED <<control, flags, candidates, draining, caddy, watchdog, wzuDog,
                 traffic, faults>>

-----------------------------------------------------------------------------
Init ==
  /\ pc = "snapshot" /\ primaryError = FALSE /\ restoreErrors = {}
  /\ originalInspect = FALSE /\ gatewayGated = FALSE
  /\ productionStopped = FALSE
  /\ ownedCandidates = {} /\ variant = 1
  /\ cand \in [Variants -> {"none"} \cup (Faults \cap {"foreign"})]
  /\ stable = 0 /\ polls = 0
  /\ file = "orig" /\ loaded = "orig" /\ backup = FALSE
  /\ watchdog = "off" /\ productionWatchdog = "off" /\ productionPid = FALSE
  /\ prod = "up" /\ prodId = "orig"
  /\ transit = 0 /\ queued = 0 /\ age = 0
  /\ faults = IF \E i \in Variants : cand[i] = "foreign" THEN {"foreign"}
              ELSE {}
  /\ Cardinality(faults) <= MaxFaults

Orchestrator ==
  \/ Snapshot \/ Prepare \/ ArmWatchdog \/ Install \/ Recheck \/ VerifyGate
  \/ PollIdle \/ PollBusy \/ DrainFails
  \/ ArmProductionWatchdog \/ StopProduction \/ StopReturns \/ VerifyStopped
  \/ CheckVariant \/ LaunchCandidate \/ AwaitCandidate \/ RunGate
  \/ RemoveCandidate \/ Settle
  \/ CleanupCandidates \/ RestoreProduction \/ ConfirmProduction
  \/ DisarmProduction \/ RestoreGateway \/ ConfirmGateway \/ Release

TokyoWatchdog == \/ WatchdogWakes \/ WatchdogTestsHash
                 \/ WatchdogProbes \/ WatchdogReopens
WzuWatchdog == \/ ProductionWatchdogWakes \/ ProductionWatchdogRemoves
               \/ ProductionWatchdogStarts
Container == ContainerStops \/ ContainerReady
Serve == Arrive \/ Answer
Deployment == DeployStops \/ DeployStarts \/ DeployEnds \/ DeployRollsBack
Environment == Die \/ Admit \/ OperatorEdits

Next == Orchestrator \/ TokyoWatchdog \/ WzuWatchdog \/ Container \/ Serve
        \/ Deployment \/ Environment

Spec == Init /\ [][Next]_vars

\* The orchestrator runs while it is alive, the detached scripts run on their
\* own hosts, Docker finishes what it was asked for and the server answers.
\* Nothing obliges an operator's deployment to go on.
Fairness == /\ WF_vars(Orchestrator) /\ WF_vars(TokyoWatchdog)
            /\ WF_vars(WzuWatchdog) /\ WF_vars(Container) /\ WF_vars(Serve)

FairSpec == Spec /\ Fairness

-----------------------------------------------------------------------------
(* Properties                                                              *)

OrchestratorOK ==
  /\ pc \in Pcs /\ primaryError \in BOOLEAN
  /\ restoreErrors \subseteq {"candidate", "production", "gateway"}
  /\ originalInspect \in BOOLEAN /\ gatewayGated \in BOOLEAN
  /\ productionStopped \in BOOLEAN
  /\ ownedCandidates \subseteq Variants /\ variant \in Variants
  /\ stable \in Nat /\ polls \in 0..MaxPolls /\ stable <= polls

TokyoOK ==
  /\ file \in Files /\ loaded \in Files /\ backup \in BOOLEAN
  /\ watchdog \in {"off", "sleep", "loop", "checked", "copy"}

WzuOK ==
  /\ cand \in [Variants -> {"none", "foreign", "running"}]
  /\ productionWatchdog \in {"off", "sleep", "awake", "removed"}
  /\ productionPid \in BOOLEAN
  /\ prod \in {"up", "stopping", "down", "starting"}
  /\ prodId \in {"orig", "none", "new", "other"}

TrafficOK ==
  /\ transit \in Nat /\ queued \in Nat /\ transit + queued <= MaxInflight
  /\ age \in 0..ArrivalPolls

TypeOK ==
  /\ OrchestratorOK /\ TokyoOK /\ WzuOK /\ TrafficOK
  /\ faults \subseteq Faults /\ Cardinality(faults) <= MaxFaults
  /\ prodId # "orig" => "deploy" \in faults

\* The two faults that take production out of service behind the back of the
\* orchestrator: a stop it believes has failed, and somebody else's.
Unplugged == ~Without({"stopLost", "deploy"})

\* Until production is unplugged, what the clients see is a ServiceWindow: in
\* particular the drain is strict (production never leaves service while a
\* request that the ingress let in is unanswered, even one that has not reached
\* the slot yet) and the ingress reopens only on a production that serves.
Window == INSTANCE ServiceWindow
            WITH open <- ~Gated(loaded), serving <- prod = "up",
                 pending <- transit + queued
WindowSpec ==
  Window!Init /\ [][Window!Next \/ Unplugged']_(Window!vars)

\* "production is restored and healthy before ingress is restored"
\* (maintenance_ab.py:19): whoever opens the ingress, the orchestrator or the
\* Tokyo watchdog, and whenever, production is serving behind an open ingress.
RestoredBeforeOpen == ~Gated(loaded) => prod = "up"
\* It is, unless a stop was lost or a deployment ran.
IngressNeedsProduction == Unplugged \/ RestoredBeforeOpen

\* One model fills both GPUs.  Without a failure nobody notices, a deployment or
\* an early timer (nothing excludes those two from the GPUs a candidate uses), a
\* candidate and production run together only if ssh failed on the removal of a
\* candidate, and then the run reports it.
NoCoexistence ==
  CandidateRuns /\ DockerRunning /\ Without({"silent", "deploy", "early"})
    => "candidate" \in restoreErrors

\* A production container that is down has a watchdog left that will start it,
\* whatever the orchestrator did, failed to do or was killed in; the exceptions
\* are a lost stop, a deployment and a docker start that fails in the watchdog.
ProductionNeverStranded ==
  prod = "down" /\ Without({"stopLost", "deploy", "dockerStart"})
    => productionWatchdog # "off"

\* A Caddyfile left in maintenance always has a watchdog and the byte-exact
\* backup it needs, whichever script failed half way.
GateNeverStranded == file = "maint" => watchdog # "off" /\ backup

Touched == file \in {"editOpen", "editGated"}

\* "A manual Caddy edit during maintenance causes restoration to fail closed
\* rather than overwrite an operator's change" (MAINTENANCE_AB.md:146-147).
\* Violated by an edit between the watchdog's hash test and its cp, with the
\* probe of production in between.
EditPreserved == [][Touched => file' = file]_vars

\* An edit made at any other time is never overwritten, by either script of the
\* orchestrator or by the watchdog's.  (Those two scripts test the hash and copy
\* in one action here.)
EditKept ==
  [][Touched /\ Without({"editRace"}) => file' = file]_vars

\* A run that reports neither a primary error nor a restore error left the
\* system as it found it: production serving (unless a deployment then takes it
\* away), ingress open, no candidate, and no watchdog that could act on a later
\* maintenance window.  Failures nobody notices are excepted.
ReportsSuccess == /\ pc # "done" /\ pc' = "done"
                  /\ ~primaryError /\ restoreErrors = {}
CleanReport ==
  [][ReportsSuccess /\ Without({"silent"})
      => /\ prod = "up" \/ "deploy" \in faults
         /\ ~Gated(loaded)
         /\ \A i \in Variants : cand[i] = "none"
         /\ watchdog = "off" /\ productionWatchdog = "off"]_vars

\* Every wait of the orchestrator has a deadline: it ends or is killed.
Terminates == <>(pc \in Ended)

\* However the window ends, however often ssh fails on the way (a docker stop
\* that is lost after Docker took it excepted: that is "stopLost") and even if a
\* candidate's name was taken: production serves again and the ingress reopens.
Survivable == faults \subseteq {"ssh", "foreign"}
Recovers == <>[](Survivable => prod = "up" /\ ~Gated(loaded))
=============================================================================
