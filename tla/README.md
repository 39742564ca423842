# TLA+ models of dual-v100-llama.cpp

The repository tunes llama.cpp for two V100 cards and runs it as a public
service. Most of its own logic is therefore not in kernels but in programs that
move a service between states while other programs, hosts and clients go on:
a maintenance orchestrator with two detached watchdogs, a daemon that saves
the server's KV cache, deployment scripts, a benchmark client, and threads that
the production patch adds to ggml. This directory models those programs in
TLA+, checks them with TLC, and proves the most important results with TLAPS.

Contents: [inventory](#the-system) | [modules](#modules-and-code) |
[runs](#runs) | [bounds](#bounds) | [fairness](#fairness) |
[assumptions](#modelling-assumptions) | [proofs](#what-is-proved) |
[findings](#disagreements-found) | [left out](#not-modelled) | [plan](#plan)

## The system

### Maintenance orchestrator - `benchmarks/v100-extreme/maintenance_ab.py`

*State.* In the orchestrator: the control point of `run()`, `gateway_gated`,
`production_stopped`, `owned_candidates`, the drain's counters, the collected
errors. On Tokyo: the Caddyfile, the configuration Caddy runs, a byte-exact
backup, a rollback script. On WZU: the production container, candidate
containers, a second rollback script. *Operations.* snapshot, gate the ingress,
drain, stop production, run each variant (check, launch, wait, quick gate,
remove), clean up, restore production, restore the gateway. *Interactions.* ssh
commands from a third machine; the watchdogs run detached on their hosts and
write the same Caddyfile and start the same container; Docker stops and starts
containers in its own time; clients send requests through Caddy; operators edit
the Caddyfile and redeploy. *Hard.* A command that raises may have taken
effect; the orchestrator may die at any step; timers of two hosts race with it;
a request that Caddy let in is not at the server yet. *Correct when* production
leaves service only behind a closed and drained ingress, the ingress reopens
only on a production that serves, no candidate shares the GPUs with production,
nothing is left down without somebody to bring it back, an operator's edit
survives, and a clean report is true.

### Maintenance locks - same file, `RemoteLock`

*State.* A `flock` on each host, held by an ssh session. *Hard.* The session
can die without its owner noticing. *Correct when* two orchestrators never work
at once.

### KV checkpoint manager - `scripts/kv-cache-manager.py`, its systemd unit

*State.* `latest.bin`, `previous.bin`, `next.bin`, the metadata file; in memory
`last_saved_tokens`, `dirty`, `idle_since`, `last_save_time`,
`server_was_down`. *Operations.* start, restore, poll, save, rotate. *Interactions.* HTTP
calls to llama-server's `/slots`, `action=save`, `action=restore`; the server
writes the file the daemon created; systemd restarts the daemon. *Hard.* A call
times out while the server goes on with it; either side dies between two steps
of a save; requests fit between two polls. *Correct when* a checkpoint name never
holds a partial file, the newest checkpoint is never lost, what the slot holds
is saved in the end, and a restart restores the newest one.

### Parallel launch - `patches/production-current-2026-08-29.patch:1299-1458`

*State.* Two job slots, a generation counter, per worker a done counter and a
status, a stop flag, two threads. *Operations.* `launch_pair`,
`launch_worker_loop`, the subgraph loop of `graph_compute`, the destructor.
*Hard.* Unlocked sharing: the slots are plain memory ordered only by the
atomics. *Correct when* each device gets every subgraph once and in order, slots
are not raced on, answers belong to the pair that asked, and nobody waits for
ever.

### Quick gate - `benchmarks/v100-extreme/quick_gate.py`

*State.* A lock per output directory; a server process and its log, its own
(managed mode) or given to it (external mode); the cases done so far, the verdict, the exit
status. *Operations.* lock, look at port and GPUs, launch, wait, look at the GPUs
again, three cases (counters, request, response, counters, log), verdict,
stop the server, scan its whole log, write the summary. *Interactions.* other gates
on the same host through lock, port and GPUs; the server through HTTP, signals
and its log. *Hard.* The looks are not atomic with the launch, `/health` names
no process, log lines arrive late, the gate is interrupted or killed at any
step, the server dies or ignores signals. *Correct when* requests reach the
server that was checked, two servers never work at once, an ended gate leaves no server, a
pass has a clean log, and every gate ends.

### Deployment and long benchmark - `scripts/run-qwen38-27b-production.sh`, `benchmarks/run-mtp-vs-dflash-long.sh`

*State.* Docker's containers with their names and restart policies; `BUSY`,
`OLD_ID`, `PROD_STOPPED`; the kv manager's service; its checkpoint files, a
backup directory, `ab-next.bin`. *Operations.* the deployment: look, stop the kv
manager, rename and stop the old container, run the new one, wait for health,
roll back (ERR trap). The benchmark: wait, stop the kv manager, back up, save
the slot, rotate, send requests, stop production, run a test server, send
requests, give everything back (EXIT trap). *Interactions.* both take
production down and are started by operators one after the other; clients and
the kv manager go on. *Hard.* A command can fail at any line, with and without
a trap that handles it; a killed script leaves the next one an unusual state;
`curl` does not say which server answers. *Correct when* a request that was
there before the last look is served, the former production container is never
lost, the newest conversation stays on disk, the benchmark gives back what it
took, and a deployment that reports success serves.

### Host-staged allreduce - production patch, `ggml-cuda/allreduce.cu`

*State.* Per rank a ring of two staging slots in host memory with a token per
block, a stream, a kernel with up to eight blocks. *Operations.* acquire a slot,
start a kernel; per block: write a stripe, signal, spin for the other rank's token, add the
other rank's stripe. *Interactions.* both devices read and write the same memory
without the host between two reductions; consecutive reductions have different
numbers of blocks. *Hard.* slot reuse without a wait, blocks of one kernel at
any distance from each other, two ways of dealing out vectors. *Correct when* no
slot is overwritten while it is read, a token stands for data that is there,
a block adds this reduction's data only, and every reduction ends.

### MTP speculative decoding, prompt cache - production patch, `common/speculative.cpp`, `tools/server`

*State.* In the draft head: pending and previous boundary rows, the
verification's rows, deferred rows, `healthy`; its own memory; in the slot:
tokens, draft, checkpoint, `spec_usable`; in the prompt cache: tokens with both
memories and the head's state. *Operations.* begin, draft, process, accept,
finalize, reset, invalidate, get_state, set_state; the slot's prompt batches,
decode steps, verification, rollback, release, context shift; prompt_save,
prompt_load. *Hard.* A long legal sequence of calls
(accept all, defer, cancel, reuse, replay, save, load, shift) must keep two
memories and the boundary in step; the answers do not depend on drafts, so no test of
the output sees a head that has gone astray. *Correct when* every draft is
drawn from the target's own tokens and rows, what is kept for later
requests fits together, and speculation is not lost without a reason.

### Others

| component | state and operations | hard, and correct when |
|---|---|---|
| SSE parsing, `quick_gate.py` | buffer, timestamps, counters | events split over reads and a stream that ends early do not count as finished |
| build scripts, `prepare-source.sh`, `build-sm70.sh`, `check-patches.sh` | a checkout, applied patches | running again after an interruption builds the same source |
| Q8_0 repack, `repack_q8_0_soa16.py` | a copied GGUF, tensors permuted in place | the permutation is a bijection and is applied once |
| single-card scripts, `deploy-single-v100-docker.sh`, `remote-single-v100-case.sh` | one container | a failed start leaves nothing to go back to, by design |
| kernels and tuning tables | none | floating point and hardware |
| native benchmark client, launchers, clock and GPU queries | none beyond one call | - |

`PROJECT.json` lists the same components with their sources and, under
`hazards`, what each can get wrong at which line and which property covers it.

## Modules and code

| module | what it is |
|---|---|
| `ServiceWindow` | abstract: what the clients of the API may see during a window |
| `Maintenance` | `maintenance_ab.py`, both watchdog scripts, Docker, clients, operators |
| `MCMaintenance` | the kind of fault of each run that looks for one |
| `MaintenanceProofs` | theorems about `Maintenance` |
| `Checkpoints` | abstract: what the kv manager's directory promises a reader |
| `KvCacheManager` | the daemon, its directory, llama-server's slot and task queue |
| `MCKvCacheManager` | token counts for the runs, shown and saved |
| `KvCacheManagerProofs` | theorems about `KvCacheManager` |
| `Lockstep` | abstract: what `graph_compute` promises about the two devices |
| `ParallelLaunch` | worker threads, `launch_pair`, subgraph loop, destructor |
| `ParallelLaunchProofs` | theorems about `ParallelLaunch` |
| `QuickGate` | any number of gates, their servers, ports, locks and logs |
| `MCQuickGate` | the combinations of modes, directories and ports of two gates |
| `QuickGateProofs` | theorems about `QuickGate` |
| `Deploy` | both scripts line by line, Docker, clients, the kv manager |
| `DeployProofs` | theorems about `Deploy` |
| `Rendezvous` | abstract: what two devices that reduce together promise each other |
| `HostAllreduce` | both ranks' streams and blocks, the ring of slots and tokens |
| `MCHostAllreduce` | sizes of the reductions |
| `HostAllreduceProofs` | theorems about `HostAllreduce` |
| `MtpSpeculative` | the draft head, its memory, the slot, one prompt cache entry |
| `MCMtpSpeculative` | symmetry of the tokens |
| `MtpSpeculativeProofs` | theorems about `MtpSpeculative` |

**Maintenance.** `pc` is the next remote command of `run()`; each step is one ssh
command or script, with the exception handling around it, so a failure goes where the code's
`except` and `finally` send it: before the restore half to `cleanup`
(`Raise`), inside it to the next restore step with the phase recorded
(`RestoreError`). `file`/`loaded` are the Caddyfile and what Caddy runs, since a
failed reload separates them. `prod` is `up`, `stopping` (docker stop was
sent: Docker says running and `/health` still answers), `down` or `starting`.
`transit`/`queued` split a request's life at the point from which `/slots`
shows it. `watchdog` follows the Tokyo script (sleep, hash test, probe,
copy); `productionWatchdog` follows the WZU script (sleep, `docker rm -f`, `docker
start`). `prodId` is the container that has production's name, and
`Deployment` is `run-qwen38-27b-production.sh`, which knows nothing of the window:
it stops the old container, starts a new one and may roll back (`Deploy` has its
single commands). Faults are named kinds; `faults` collects those that have
happened, at most `MaxFaults` kinds, each as often as it likes: `ssh` (a command
raises, with or without its effect), `stopLost` (a docker stop that Docker has
taken: ssh gives up or loses the session), `silent` (a `check=False` command
fails), `reload`, `dockerStart`, `edit`, `editRace`, `deploy`, `foreign`, `early`
(a timer runs out under a live orchestrator). The properties say by name which
kinds they except. `Die` is no fault: the orchestrator may die at any step.

**KvCacheManager.** Contents are numbered by the request that left them, so
"newer" is "greater"; files hold a number, nothing (`Missing`) or part of a
content (`Partial`). `Tokens` gives each content the `n_prompt_tokens` that `/slots`
shows of it and `Saved` the `n_saved` and `n_restored` of its file: two answers of
llama-server that need not agree, and the only things the daemon can see of it. `jobs` is the server's queue: a call whose
client gave up stays in it. `writing` follows a save that is being executed,
also when its file has been unlinked meanwhile. The poll is the unit of time.
`Refill` is `restore_latest` up to its HTTP call, made when the server answers
for the first time (`WaitReady`) and after each outage (`Resync`); `CycleFails` is the
loop's `except Exception`, which unlinks `next.bin` wherever the save was.
The mapping to `Checkpoints` is what a reader of the directory sees: the newest
checkpoint is `latest.bin`, or `previous.bin` when there is no latest; the older
one is `previous.bin` behind a latest, and none while the two renames are under way.

**ParallelLaunch.** One step is one access to a shared variable; purely local
statements are merged with the access next to them. `launches`, `failed`,
`reduced` and `answer` record what the devices and the caller got; they are
`Lockstep`'s variables, so the refinement mapping is the identity.

**QuickGate.** `pc` is the gate's next check, call or signal. `srv` follows its
server: `starting`, `bound` (it has the port), `loading` (it is on the GPUs as
well), `ready`, `gone`. `Answerers` is whoever holds the gate's port and is
ready, `OnGpus` what `nvidia-smi` lists. A response passes its checks or does
not; their content matters to nothing else. `marker` and `logged` separate a
fatal line that was printed from one that is in the file. `strayed` is a
history variable: some request was answered by another gate's server.

**Deploy.** One step is one command of a script; `pc` is the next one. Container
`n` is the one that run `n` creates. Where `set -e` acts before a trap is
installed (`Breaks`), in the ERR trap (`LaunchFails`, `HealthFails`) and in the
EXIT trap (`BenchBreaks`), the model goes where the shell goes; `Silent` is a
command behind `|| true`, `Kill` what no trap sees. `mishap` (history) says a
run was cut off where nothing restores: `Kill`, `Silent`, a failure between the
rename of the old container and the trap, and an interrupt between `docker stop` and
`PROD_STOPPED=1`. `request` is `early` until a script has looked for the last
time, `late` after. `KvSaves` and `KvRestores` are `KvCacheManager`'s save and
restore as one step each.

**HostAllreduce.** One step begins or ends one phase of one block, so that what
the block does in between can meet anything; `staged` holds per vector the reduction it is
from, `Torn` while it is being written. The mapping to `Rendezvous` counts the
kernels a rank has entered and left.

**MtpSpeculative.** A hidden row is the sequence of tokens it was computed
from, so that "the right row" can be stated. Each operation of the head is a set of outcomes
(state, memory, ok/refused/failed); the slot's actions choose one.
`excused` (history) says why speculation may be off: a failed decode, a shift,
a rewind that load_dft did not make, a prompt reused in part, a cache entry without state.

`map` in `PROJECT.json` gives each definition's lines.

## Runs

| run | specification, properties | what it shows |
|---|---|---|
| `MaintenanceWindow` | `FairSpec`: `TypeOK`, `GateNeverStranded`, `IngressNeedsProduction`, `ProductionNeverStranded`, `NoCoexistence`, `WindowSpec`, `EditKept`, `CleanReport`, `Terminates`, `Recovers` | a whole window under any two kinds of fault and a death anywhere: what each property excepts is a condition on the faults that have happened; `WindowSpec` is the refinement of `ServiceWindow` |
| `KvCheckpoints` | `FairSpec`: `TypeOK`, `CheckpointsComplete`, `NewestKept`, `StoreSpec`, `Checkpointed` | safety of the files and eventual saving with three faults; deadlock is checked; `StoreSpec` is the refinement of `Checkpoints` |
| `ParallelLaunch` | `FairSpec`: `NoRace`, `LockstepSpec`, `CallReturns`, `DestructorReturns` | every interleaving of caller and workers, with failing launches; `LockstepSpec` is the refinement of `Lockstep` |
| `QuickGate` | `FairSpec`: `TypeOK`, `OwnServer`, `AloneAtWork`, `ServerGone`, `PassIsClean`, `Ends` | two gates in every combination of mode, port and directory, with one interrupt, kill, crash or deaf server |
| `Deploy` | `FairSpec`: `TypeOK`, `ReportsNew`, `GivesBack`, `EarlyServed`, `OriginalKept`, `ConversationKept`, `ProductionBack` | two runs of either script with two kills or failing commands anywhere: no early request is cut off, nothing old is lost, what was taken is given back |
| `HostAllreduce` | `FairSpec`: `RingSafe`, `StripeReady`, `MeetingSpec`, `AllReduced` | five reductions of one, two and three blocks through two slots: tokens mean what they say, slots are not reused early, no block spins for ever; `MeetingSpec` is the refinement of `Rendezvous` |
| `MtpSpeculative` | `Spec`: `TypeOK`, `DraftsInSync`, `KeptInSync`, `StaysOn` | every order of requests, drafts, partial and whole acceptances, deferrals, rollbacks, replays, cancellations, shifts, cache swaps and failed decodes |

Five more runs each look for one counterexample and find it:
`MaintenanceStopTimeout`, `MaintenanceEditRace`, `KvCrashInRotation`,
`KvShortCalls` and `AllreduceStripes`; see [below](#disagreements-found).

Each property of a passing run has a mutant of one mapped definition that
breaks it (`PROJECT.json`, `mutants`): the mutated operators stand next to the
definitions they replace, marked "Mutant" or "A plausible slip".

`CHECK_DEADLOCK FALSE` is given where the modelled program stops: a maintenance window that
is over, a backend that is destroyed, gates that have ended, the last script and the last
reduction. The KV daemon never stops, nor does the slot of `MtpSpeculative`.

## Bounds

- *Maintenance.* Two variants, the number the code requires. `StablePolls` 3 with
  `ArrivalPolls` 2 and two requests inside: one request can arrive while another
  is on its way, the counter is reset in mid-count, and one poll fewer would
  stop production on a request in transit. `MaxPolls` 5 lets the drain succeed
  after a reset and also run out. Two kinds of fault, each any number of times:
  every pair of kinds meets, so that each property is seen with every kind
  beside each one that it excepts. Two variants and one window make
  every other quantity finite. The runs that look for one counterexample have
  one kind of fault and 2, 1, 3, 1: the drain's arithmetic is not what they are about.
- *KV.* Three requests: an old content, a newer one with fewer tokens, and one
  more while a save is under way. Three faults: the longest known chain is a
  save that the daemon gives up, a death, and a restart of the server.
  `Quiet` 2 and `SaveInterval` 3 polls keep every order of the two clocks;
  `MinTokenDelta` 3 lies between the differences of the shown and the saved counts
  (0 to 5), so that both answers of `should_persist` occur; the newest content shows the
  count that the oldest one's file holds.
  `KvShortCalls` has no fault.
- *Parallel launch.* Three subgraphs: a first, a middle and a last one, with and
  without a reduction after it. Three calls: a call after a success and after a
  failure, and the destructor after any of them. Generations are bounded by
  the calls and stay far below 2^64.
- *Quick gate.* Two gates: every property relates one gate to one other. Two
  ports and two directories: shared or not. `MCQuickGate!TwoConfigs` lists the
  combinations up to renaming. One poll, since a poll can both be the last one and
  succeed or fail; one fault, so that it can hit either gate at any step. Three
  cases are a constant of the code.
- *Deploy.* Two runs: the second finds what the first left, and may be either
  script. Two faults: one breaks a run, one hits its trap, or one in each run. Two requests:
  one before and one after the last look, or a newer conversation than the one
  on disk. About 225,000 states.
- *Host allreduce.* Five reductions, so that each slot is used three times with
  different numbers of blocks (one, three, two, one, three) on either side of a
  reuse. Three blocks is the configured number. Four vectors,
  dealt two to a block when they are written and four to a block when they are
  read, is the smallest case where the two differ.
- *Speculation.* `MaxLen` 5 holds a prompt and two drafts of one token that are
  accepted as a whole, one deferred and fused with the next. `NMax` 2 makes an acceptance of
  part of a draft possible; `MinPos` 2 puts positions on both sides of the
  deferral's limit; `CacheLimit` 1 gives entries that are kept and that are
  not. Two tokens: agreeing or not. The tokens are interchangeable and the
  properties are invariants, so the symmetry is sound.

The theorems hold for every value of these constants.

## Fairness

- `Maintenance!Fairness`: the orchestrator, while alive, goes on to its next
  command (a sequential program whose every wait has a deadline in the code);
  each detached script does the same on its host; Docker finishes a stop (it
  kills after the grace period) and a start; the server answers what it has.
  Weak fairness each: none needs to win a race repeatedly. Clients, operators,
  faults and `Die` have none.
- `KvCacheManager!Fairness`: the daemon's `while True`, kept alive by
  `Restart=always`, and the server, kept alive by Docker. Requests and faults
  have none; both are bounded, which is what "once requests stop" means.
- `ParallelLaunch!FairSpec`: the operating system runs each runnable thread.
  `Compute` and `SetStop` have none: nobody has to call or to destroy.
- `QuickGate!FairSpec`: a gate that is not killed goes on, because every wait and
  every read of a socket has a timeout; the kernel ends a process that got a
  SIGKILL. Servers have no other fairness: they may load for ever or ignore
  SIGINT and SIGTERM. That one response ends rests on `max_tokens`, since the
  timeout is per read.
- `HostAllreduce!FairSpec`: a stream starts its next kernel, all blocks of a
  kernel are resident (at most eight on eighty multiprocessors) and run on.
- `Deploy!FairSpec`: a script goes on to its next command, a server that can
  become ready does, one that cannot exits, requests end. Operators, clients, the kv manager and
  faults have none.
- `MtpSpeculative` has none: its properties are invariants.

## Modelling assumptions

- *Arrival.* A request admitted by Caddy is visible to `/slots` within `ArrivalPolls`
  polls, fewer than `drain.stable_polls`. The code cannot know this; the drain means
  nothing without it. It is an ASSUME of `Maintenance`.
- *Timers.* The checked-in configurations do not make a rollback timer outlast the
  gates (`rollback_seconds` 3600, and 7200 for each of two gates): a timer that runs out under a live
  orchestrator is the fault `early`. It never does before the stop (the
  drain has 1800 s), nor within the 120 s of a docker stop.
- *Deployment.* At most one per window. It may stay between any two of its steps
  for ever: `Fairness` does not include it.
- *Docker.* A model loads only into GPUs nobody else fills; a start beside a
  candidate stays in `starting`.
- *Caddy and tunnel.* Two configurations matter, 503 or forward; an operator's edit
  keeps or replaces either file. The orchestrator's two scripts that test the
  Caddyfile's hash and replace it in the next command are one action each; the
  watchdog's, which probes production in between, has three.
- *llama-server.* One task at a time; saves and restores wait until the slot is
  free; `/slots` is not answered during a save. Its source is not in the
  repository. It takes longer to load a model than the daemon's two file
  operations before a save (guard of `ServerStarts`).
- *Files.* A rename is atomic and survives the daemon; power failures are not
  modelled.
- *Memory.* Interleaving suffices for `ParallelLaunch`: `NoRace` shows the plain
  memory is never accessed from two sides, and the atomics that order it are
  release/acquire pairs. One thread uses the backend.
- *Reduction.* The allreduce between two subgraphs is one step; its body is not
  part of the patch's loop, and its failure would end the call like a failed launch.
- *Scripts.* One script runs at a time. The port and the GPUs let one server be
  ready. The benchmark's test server listens on 127.0.0.1 and gets no client's
  requests. Saving an empty slot succeeds.
- *Allreduce.* Phase 3 is context of the patch, not changed by it. A block adds
  in place: that it could send a vector another block of its own rank has already
  reduced is not modelled. Kernels are launched by the workers of `ParallelLaunch`.
- *Speculation.* One sequence, a draft context of its own with one head, text
  only, deferral enabled, no checkpoints of the draft context (as deployed). The server cuts
  the draft's own rows after drafting and does not split a verification.
  Whether load_dft has rewound the draft memory before set_state is left
  open. Which tokens the target samples is arbitrary. `finalize` failing before a
  shift throws and ends the server, so that no state follows.
- *Gates.* A server that is ready stays on its port and on the GPUs until it is gone.
  Loading a model takes minutes, so a gate whose server dies between two calls,
  fractions of a second apart, notices before another server on the port is
  ready (guard of `BecomeReady`). An external server is up before its gate starts and
  is not restarted; no two share a port. A log is written only by its server,
  or, when the server is a container, by `docker logs --follow`, which may lag.

## What is proved

TLAPS proves, with no bound on the constants beyond the named ASSUMEs:

| theorem | statement |
|---|---|
| `TypeCorrect` | `Spec => []TypeOK` |
| `GateGuarded` | `Spec => []GateNeverStranded` |
| `IngressSafe` | `Spec => []IngressNeedsProduction` |
| `ProductionGuarded` | `Spec => []ProductionNeverStranded` |
| `MaintenanceImplementsWindow` | `Spec => WindowSpec` |
| `KvTypeCorrect`, `CheckpointsAlwaysComplete` | `Spec => []TypeOK`, `Spec => []CheckpointsComplete` |
| `NewestNeverLost` | `Spec => NewestKept` |
| `RotationImplementsCheckpoints` | `Spec => StoreSpec` |
| `NothingForgotten` | `Spec => []NoDriftMeansSaved` |
| `LaunchTypeCorrect`, `SlotsNotRaced` | `Spec => []TypeOK`, `Spec => []NoRace` |
| `ParallelLaunchIsLockstep` | `Spec => LockstepSpec` |
| `NoWakeUpLost` | `Spec => []AwaitedCanStep` |
| `WorkGoesDown` (of `ParallelLaunchProofs`) | between requests every step but a turn of the spin lessens a natural number |
| `GateTypeCorrect`, `OwnServerAnswers` | `Spec => []TypeOK`, `Spec => []OwnServer` |
| `WorkIsAlone` | `Spec => []AloneAtWork` |
| `NoServerLeft`, `NoMarkerAfterPass` | `Spec => []ServerGone`, `Spec => []PassIsClean` |
| `GatesComeToAnEnd` | a gate has at most `23 + 2 * MaxPolls` steps of its own (`Spec => [][ComesNearer]_vars`) |
| `OneModelAtATime` | `Spec => []NoCoexistence` |
| `CleanReportIsTrue` | `Spec => CleanReport` |
| `EditsKept` | `Spec => EditKept` |
| `RunComesToAnEnd` | a run has at most `29 + MaxPolls` steps (`Spec => [][ComesNearer]_vars`) |
| `WaitsComeToAnEnd` | `Spec => []WaitsEnd` |
| `ServerComesBack` | `Spec => []ServerReturns` |
| `IngressComesBack`, `RecoveryLasts` | `Spec => []IngressReturns`, `Spec => [][Lasts]_vars` |
| `DeployTypeCorrect`, `ReportIsOfTheNew`, `BenchmarkGivesBack` | `Spec => []TypeOK`, `Spec => []ReportsNew`, `Spec => []GivesBack` |
| `OriginalAlwaysKept`, `EarlyAlwaysServed`, `ConversationAlwaysKept` | `Spec => OriginalKept`, `Spec => EarlyServed`, `Spec => ConversationKept` |
| `AlwaysAWayBack`, `ScriptsGoForward` | `Spec => []WayBack`, `Spec => [][GoesForward]_vars` |
| `Typing`, `RingReuse`, `StripeSync` | `Spec => []TypeOK`, `Spec => []RingSafe`, `Spec => []StripeReady` |
| `Rendezvousing` | `Spec => MeetingSpec` |
| `NoTokenLost`, `NoDeadlock` | `Spec => []TokenComes`, `Spec => []SomebodyMoves` |
| `WorkGoesDown` (of `HostAllreduceProofs`) | every step lessens a natural number (`Spec => [][LeavesLess]_vars`) |
| `MatchedStripesSum`, `OneBlockSums` | `ReadsContribution` holds if both phases deal alike, and with one block |
| `TypeCorrect` (of `MtpSpeculativeProofs`) | `Spec => []TypeOK` |
| `DraftsFollowTheTarget`, `KeptStateIsWhole`, `SpeculationStaysOn` | `Spec => []DraftsInSync`, `Spec => []KeptInSync`, `Spec => []StaysOn` |

No theorem has a hypothesis on the faults: where a property does not survive a
kind of fault it says so itself, as a condition on `faults`, and its theorem
holds for every set `Faults`. The exceptions of the maintenance window are

| property | does not survive |
|---|---|
| `GateNeverStranded`, `TypeOK`, `Terminates`, `WaitsEnd` (but its drain: `deploy`) | nothing |
| `IngressNeedsProduction`, `WindowSpec` | `stopLost`, `deploy` |
| `ProductionNeverStranded` | `stopLost`, `deploy`, `dockerStart` |
| `NoCoexistence` | `silent`, `deploy`, `early` |
| `CleanReport` | `silent`; that production serves: `deploy` |
| `EditKept` | `editRace` |
| `ServerReturns` | `stopLost`, `early`, `deploy`, `dockerStart`, `silent` |
| `IngressReturns`, `Lasts` | `edit`, `editRace`, `reload`; `Lasts` also `deploy` |

*Maintenance.* `GateInv` adds to the gate's guard what each step of
`gate_ingress` relies on: the Caddyfile is not yet in maintenance up to the
installation, and the backup and the watchdog exist before it.
`ProductionInv` says where `prod` may leave `up` and who may
still open the ingress: a Tokyo watchdog that has passed its probe stands before a serving
production, because by then the stop is behind and nobody will issue another; that
the timer may preempt the orchestrator does not matter. `TrafficInv`
carries the drain: while a request is in transit, `stable <= age`, so
`StablePolls > ArrivalPolls` consecutive idle polls leave nothing. None is
inductive alone; together they are, as long as production is not `Unplugged`, and
the refinement follows step by
step. Frame lemmas say which steps touch which host, so that each proof only
treats the steps that matter; since `faults` only grows, an invariant that needs a
kind not to have happened is proved as `Without(...) => ...`. `SharingInv` (who
may be on the GPUs at each
point of the run) gives `NoCoexistence`; `CleanInv` (what a run without errors has
restored by then) gives `CleanReport`; `UntouchedInv` (no edit since the
watchdog's hash test) gives `EditKept`. Each exception of a property
that is checked is needed: TLC violates the property without it.
`RunLeft` is a measure that each step of the orchestrator lessens and that no other
step changes; `StillUp` (nobody but a deployment stops production before the orchestrator does) and
`ReturnInv` say that its two loops wait for something that comes. `ReturnInv` and
`LoadedInv` give what is left when the run has ended, also by a death: a server
that is up, loads into free GPUs or has a watchdog; an ingress that
is open or has its watchdog and its backup.

*KV.* `KvInv` joins the queue's shape (`JobsInv`: the daemon's own call is
the last one, only a save writes, a save saves something), the file under the name
`next.bin` (`NextInv`: once the server has answered, it is whole and at least as
recent as every checkpoint, and nothing is left that could still write to it)
and the order of contents (`RecencyInv`). These suffice for the refinement:
the first rename is a `Drop` and the second an `Install`, whatever comes between. `SavedInv` says that the count the daemon compares with is always
the saved count of a content at most as recent as the newest checkpoint. `NothingForgotten`
follows without an assumption on the counts: a slot that looks saved is the newest
checkpoint, is empty, or shows exactly the count of an older file (`LooksOlder`), which is
the limit of the code named [below](#disagreements-found).

*Parallel launch.* `PInv`: outside of the spin both workers are at rest
(`AtRest`); in it each is behind, busy with, or done with the current
generation (`WorkerInv`); the slots hold this pair's graphs while a worker may
read them (`JobInv`); the devices' record agrees with both (`DeviceInv`).
`WorkerInv` also gives that no wake-up is lost: a worker that the caller waits for
has not yet seen the current generation, has its work in hand or is about to
see `stop`. `WorkLeft` counts the steps to the end of the call or
of the destructor.

*Quick gate.* `GInv` is about each gate (`External`, `Owned`, `Verdict`) and each
pair (`Alone`). The pair's part is what makes `AloneAtWork` inductive: a gate that saw only
its own process excludes every external server for good, because those are never
started again; a managed one may still come to the GPUs, but then its own gate will look
and see the first. The theorems hold for any number of gates, ports and
directories, two of which TLC checks. `TypeOK` needs one more fact: no
gate is before a case when all three are done (`CasesLeft`). `GatesComeToAnEnd`
is a measure per gate: neither servers nor signals nor other gates set it back.

*Deploy.* `DInv` has three parts. `NamesInv`: run numbers and names are used once,
and while a deployment works the name of production belongs to the old container, nobody or the new
one. `ServingInv`: unless a mishap happened, who serves is what the
script's position says, and what a trap will do suffices to restore
(`Orderly`, `Restorable`, `Returned`). `FilesInv`: between two commands of
the benchmark's rotation the conversation is under one of the names or in the
backup. `OriginalKept` and `EarlyServed` need the first part,
`ConversationKept` the last. `SoundInv` adds which containers can become ready: all
that have a name, but for the one a run is trying out. `AlwaysAWayBack` follows: without a
mishap, when nobody serves and no command is to come that starts a server, the
container of production's name is loading, able to load, and restarted by
Docker. `CommandsLeft` orders the commands of both scripts; only the look at a
busy slot repeats itself.

*Host allreduce.* `IInv` adds to the type what tokens say: a block's place in
a slot holds the last reduction that had such a block and has passed it
(`Tokens`, `Absent`); where the token is there, so are the block's vectors
(`Present`); a block that reads has met its counterpart (`Met`);
the ranks are at most one reduction apart (`Close`), because a kernel always has
block 0 and block 0 waits; and nobody has written a slot's next round before
(`Kept`). `RingReuse` is then the argument of the patch's comment, for any ring
of at least two slots. `Signalled` says that the tokens of a rank's current and previous
reduction are in their places, which no later reduction uses yet. So a spinning block's token is there or has yet to be
set (`TokenComes`), and the rank that is behind can always move
(`SomebodyMoves`): the kernels of the two devices do not wait on each other,
although no host thread orders them. `MatchedStripesSum` and `OneBlockSums` give the two conditions under which
the finding below does not exist.

*Speculation.* `SInv`: per phase of the slot, either the head is off and the
slot excused, or `Following` holds: the draft memory with the deferred rows
behind it is `Pairs(tokens)`, the boundary is the last token's and the row
before it is known. `VerifiedInv` says the same of the tokens before the
draft, to which `Rollback` returns, and that the verification rows are the ones that
`Rewind` will need; `CachedInv` of the cache entry. One lemma per operation of the head says
what it does to `Following` for any sequences; it needs facts about prefixes of
sequences only, no induction. TLC explores contexts of five tokens;
the theorems have no such bound.

Only model-checked: the liveness properties, which need ENABLED. Of each one the
part that is safety is proved, for all values of the constants; what TLC alone
shows is the last step, that the fairness of `FairSpec` turns it into progress:

| liveness property | proved part |
|---|---|
| `Terminates` | `RunComesToAnEnd`, `WaitsComeToAnEnd` |
| `Recovers` | `ServerComesBack`, `IngressComesBack`, `RecoveryLasts` |
| `Checkpointed` | `NothingForgotten`: what is not on disk, the daemon sees as drifted |
| `CallReturns`, `DestructorReturns` | `NoWakeUpLost`, `WorkGoesDown` |
| `Ends` | `GatesComeToAnEnd` |
| `AllReduced` | `NoTokenLost`, `NoDeadlock`, `WorkGoesDown` |
| `ProductionBack` | `AlwaysAWayBack`, `ScriptsGoForward` |

`HostAllreduce!TypeOK` and `ParallelLaunch!TypeOK` are proved and not run.
The invariants and action properties that only the proofs state
(`WaitsEnd`, `ServerReturns`, `TokenComes`, `WayBack`, ...) stand in the proof
modules, next to the theorems.

## Disagreements found

| run | what happens |
|---|---|
| `MaintenanceStopTimeout` | `Remote.command` gives up after 60 s on `docker stop --time 120`, or the session is lost; the restore half takes the dying server for a healthy one, disarms, reopens the ingress, and the container goes down behind it |
| `MaintenanceEditRace` | the Tokyo watchdog tests the hash of the Caddyfile, probes production for up to five seconds and copies the backup over whatever the file has become: an operator's edit in between is overwritten |
| `KvCrashInRotation` | a daemon killed between the two renames leaves only `previous.bin`; the next start restores nothing |
| `KvShortCalls` | a request that fits between two polls and leaves as many tokens as the last checkpoint holds is never saved |
| `AllreduceStripes` | with three blocks the vectors a block adds include some that another block of the other rank writes, for whose token it has not waited: a late block's vectors are those of an earlier reduction |

`findings` in `PROJECT.json` quotes the text each one contradicts.
`KvCrashInRotation` can also be reached without a crash, by `CycleFails` at
the second rename.

Other texts of the repository that the code does not keep; the models reach
these states, no run is about them:

- "One 27B model cannot coexist with production" (`MAINTENANCE_AB.md:140`): a
  WZU watchdog whose `rollback_seconds` run out under a live orchestrator starts
  production beside the candidate or the next one (`early`), and a
  deployment during the window loads a new container beside it (`deploy`), since the
  script takes none of the maintenance locks. `NoCoexistence` excepts both.
- "Never interrupt an in-flight inference during a controlled deployment"
  (`run-qwen38-27b-production.sh:11`): a request that starts between the last look
  and the stop is cut off (`request = "late"` in `Deploy`); `EarlyServed` is
  about the others.
- "Exit status is ... 2 for a fail-closed preflight error" (`QUICK_GATE.md:72-74`):
  an occupied port or GPU is found inside the `try` of `main`, whose handler
  makes it a failed test, exit status 1. `QuickGate` does what the code does.

Further limits of the code that the models reach, which contradict no text that
we know of:

- A request that comes and goes between two polls of the kv manager with another
  count of tokens is saved at once, without a quiet period.
- A deployment that fails between the rename and the installation of its trap leaves
  production under the backup's name, possibly stopped. No deployment restarts
  the kv manager it stopped. The health
  loop can be answered by a server an earlier run left. A benchmark cut off among
  its requests leaves its own content to the kv manager, and the next run rotates
  the conversation away.
- A request that reuses only part of the slot's tokens turns speculation off, and at
  release `finalize` then refuses, so that the prompt is cleared instead of kept.
  A rollback whose draft memory was not rewound before set_state does
  the same.

## Not modelled

Kernels and tuning tables (floating point, hardware), launchers and queries
without state, the native benchmark client. `RemoteLock` is left out of
`Maintenance`: one orchestrator runs there, which is what the locks are for. There, the
quick gate is one step with any result; `QuickGate` models it by itself. The contents of containers'
environments, formats, logs and reports are left out, except which
errors a report records. The non-parallel branch of `graph_compute` is what `Lockstep`
describes, save that it does not launch the second device after the first one failed.

Of the quick gate, argument and configuration parsing, the plan it prints, the
contents of requests and responses and the stream parser are left out.

Of the deployment, `deploy-single-v100-docker.sh` (which restores nothing) and
the metadata file next to a checkpoint are left out. Of the allreduce, the
copy-engine path, which is context of the patch and not its change. Of
speculation: batches with media, chained heads, draft contexts that share
the target's memory, several sequences, and the vocabulary cut of `mtp-subvocab.patch`.
`SseStream`, `RunLocks`, `BuildPipeline` and `Repack` are planned.

Known gaps that no property covers yet are hazards with a `note`; the main one:
after a `reload` fault in `restore_gateway` the Caddyfile is the original, Caddy still
answers 503 and no script retries, which is why `Recovers` is checked with ssh
faults only. Some hazards lie just outside the property next to them, and are
listed so: removals that fail unseen (`silent`) and early timers for
`NoCoexistence`, a server that outlives SIGKILL (`failed` gates) for
`ServerGone`, the server of a killed gate for `AloneAtWork`, a server left by an
earlier mishap for `ReportsNew`.

Two details are abstracted: where the server checkpoints the
draft context as well (`use_ckpt_dft`) it calls `finalize` before each draft,
which `Draft` does not; and in `Deploy` a failure of the two lines after
`trap - ERR` is not told from success, since both end the script without a
rollback.

## Plan

Written, each with proofs about it or onto it: `ServiceWindow`, `Maintenance`, `KvCacheManager`,
`Lockstep`, `ParallelLaunch`, `QuickGate`, `Deploy`, `Rendezvous`,
`HostAllreduce`, `MtpSpeculative`; `Checkpoints` with the proofs about
`KvCacheManager`. Next, most important first:

1. `RunLocks` - `RemoteLock`, two orchestrators, lock sessions that die;
   property: at most one works. Theorem: mutual exclusion while sessions live,
   and what remains when they do not.
2. `MtpSpeculative` with media batches, whose positions are not consecutive,
   and with draft checkpoints.
3. `SseStream` - the quick gate's parser as a fold against a reference over whole
   streams.
4. `Repack`, `BuildPipeline` - the permutation as a function with its inverse;
   interruption and re-run.

Every module but `HostAllreduce` could be checked at larger bounds with more
time; the suite stays small on purpose, and the theorems cover the rest.
