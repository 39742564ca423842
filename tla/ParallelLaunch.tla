---------------------------- MODULE ParallelLaunch ----------------------------
(***************************************************************************)
(* The parallel launch of the production patch's meta backend              *)
(* (GGML_META_PARALLEL_LAUNCH): two worker threads hand the two devices    *)
(* their graphs.  ggml_backend_meta_graph_compute walks over the           *)
(* subgraphs; for each, launch_pair fills one slot per worker, publishes a *)
(* new generation and spins until both workers have stored it.             *)
(*                                                                         *)
(* A step is one access to a shared variable.  The job slots are the only  *)
(* ones that are not atomic; NoRace says they are never accessed from two  *)
(* sides at once, and every other access that orders them is a             *)
(* release/acquire pair, so that interleaving the steps is enough.         *)
(***************************************************************************)
EXTENDS Naturals

CONSTANTS Subgraphs,   \* number of subgraphs in a graph
          MaxCalls     \* bound on the calls of graph_compute

ASSUME SubgraphsAssumption == Subgraphs \in Nat \ {0}
ASSUME MaxCallsAssumption == MaxCalls \in Nat

Ranks == {0, 1}
Jobs == [rank : Ranks, graph : 0..Subgraphs - 1]
NoJob == [rank |-> 2, graph |-> 0]   \* the null pointers of a new slot
Slots == Jobs \cup {NoJob}
Statuses == {"success", "failure"}
CallerPcs == {"idle", "job0", "job1", "publish", "spin0", "spin1", "collect",
              "reduce", "bump", "join", "gone"}
WorkerPcs == {"poll", "stop", "take", "launch", "status", "done", "exited"}

VARIABLES
  pc,         \* where the caller is: graph_compute and the destructor
  index,      \* the subgraph it is at
  calls,      \* calls made so far
  jobs,       \* launch_jobs
  generation, \* launch_generation
  done,       \* launch_done
  status,     \* launch_status
  stop,       \* launch_stop
  wpc,        \* where each worker is in launch_worker_loop
  seen,       \* its local variable of that name
  job,        \* its copy of its slot
  result,     \* what its last launch answered
  launches, failed, reduced,   \* what the devices were given, as in Lockstep
  answer      \* what graph_compute answered

caller == <<pc, index, calls>>
shared == <<jobs, generation, done, status, stop>>
worker == <<wpc, seen, job, result>>
devices == <<launches, failed>>
vars == <<caller, shared, worker, devices, reduced, answer>>

Nothing == [r \in Ranks |-> [s \in 0..Subgraphs - 1 |-> 0]]

-------------------------------------------------------------------------------
(* The caller: graph_compute and launch_pair.                              *)

Compute ==
  /\ pc = "idle"
  /\ calls < MaxCalls
  /\ pc' = "job0"
  /\ index' = 0
  /\ calls' = calls + 1
  /\ launches' = Nothing
  /\ failed' = {}
  /\ reduced' = 0
  /\ answer' = "running"
  /\ UNCHANGED <<shared, worker>>

JobPc(r) == IF r = 0 THEN "job0" ELSE "job1"

WriteJob(r) ==
  /\ pc = JobPc(r)
  /\ pc' = IF r = 0 THEN "job1" ELSE "publish"
  /\ jobs' = [jobs EXCEPT ![r] = [rank |-> r, graph |-> index]]
  /\ UNCHANGED <<index, calls, generation, done, status, stop, worker, devices,
                 reduced, answer>>

Publish ==
  /\ pc = "publish"
  /\ pc' = "spin0"
  /\ generation' = generation + 1
  /\ UNCHANGED <<index, calls, jobs, done, status, stop, worker, devices,
                 reduced, answer>>

\* The loop's condition: launch_done[0] is read first, launch_done[1] only when
\* that matches.
Spin0 ==
  /\ pc = "spin0"
  /\ done[0] = generation
  /\ pc' = "spin1"
  /\ UNCHANGED <<index, calls, shared, worker, devices, reduced, answer>>

\* A plausible slip: && for ||, so that one worker is enough.
SpinsForOne ==
  /\ pc = "spin1"
  /\ pc' = "collect"
  /\ UNCHANGED <<index, calls, shared, worker, devices, reduced, answer>>

Spin1 ==
  /\ pc = "spin1"
  /\ pc' = IF done[1] = generation THEN "collect" ELSE "spin0"
  /\ UNCHANGED <<index, calls, shared, worker, devices, reduced, answer>>

PairFailed == \E r \in Ranks : status[r] = "failure"

Collect ==
  /\ pc = "collect"
  /\ \/ /\ PairFailed
        /\ pc' = "idle"
        /\ answer' = "failure"
     \/ /\ ~PairFailed
        /\ index + 1 < Subgraphs
        /\ pc' = "reduce"
        /\ UNCHANGED answer
     \/ /\ ~PairFailed
        /\ index + 1 = Subgraphs
        /\ pc' = "idle"
        /\ answer' = "success"
  /\ UNCHANGED <<index, calls, shared, worker, devices, reduced>>

Reduce ==
  /\ pc = "reduce"
  /\ pc' = "job0"
  /\ index' = index + 1
  /\ reduced' = reduced + 1
  /\ UNCHANGED <<calls, shared, worker, devices, answer>>

(* The caller: the destructor.                                             *)

\* A plausible slip: the workers are woken up without the flag.
ForgetsStop ==
  /\ pc = "idle"
  /\ pc' = "bump"
  /\ UNCHANGED <<index, calls, shared, worker, devices, reduced, answer>>

SetStop ==
  /\ pc = "idle"
  /\ pc' = "bump"
  /\ stop' = TRUE
  /\ UNCHANGED <<index, calls, jobs, generation, done, status, worker, devices,
                 reduced, answer>>

\* A plausible slip: joining without waking the workers.
JoinsOnly ==
  /\ pc = "bump"
  /\ pc' = "join"
  /\ UNCHANGED <<index, calls, shared, worker, devices, reduced, answer>>

Bump ==
  /\ pc = "bump"
  /\ pc' = "join"
  /\ generation' = generation + 1
  /\ UNCHANGED <<index, calls, jobs, done, status, stop, worker, devices,
                 reduced, answer>>

Join ==
  /\ pc = "join"
  /\ \A r \in Ranks : wpc[r] = "exited"
  /\ pc' = "gone"
  /\ UNCHANGED <<index, calls, shared, worker, devices, reduced, answer>>

-------------------------------------------------------------------------------
(* A worker: launch_worker_loop.                                           *)

Moves(r, from, to) ==
  /\ wpc[r] = from
  /\ wpc' = [wpc EXCEPT ![r] = to]

Notice(r) ==
  /\ Moves(r, "poll", "stop")
  /\ generation # seen[r]
  /\ seen' = [seen EXCEPT ![r] = generation]
  /\ UNCHANGED <<caller, shared, job, result, devices, reduced, answer>>

TestStop(r) ==
  /\ Moves(r, "stop", IF stop THEN "exited" ELSE "take")
  /\ UNCHANGED <<caller, shared, seen, job, result, devices, reduced, answer>>

Take(r) ==
  /\ Moves(r, "take", "launch")
  /\ job' = [job EXCEPT ![r] = jobs[r]]
  /\ UNCHANGED <<caller, shared, seen, result, devices, reduced, answer>>

\* The backend's graph_compute_async either takes the graph or fails.
Launch(r) ==
  /\ Moves(r, "launch", "status")
  /\ launches' = [launches EXCEPT ![job[r].rank][job[r].graph] = @ + 1]
  /\ \/ /\ result' = [result EXCEPT ![r] = "success"]
        /\ UNCHANGED failed
     \/ /\ result' = [result EXCEPT ![r] = "failure"]
        /\ failed' = failed \cup {<<job[r].rank, job[r].graph>>}
  /\ UNCHANGED <<caller, shared, seen, job, reduced, answer>>

\* A plausible slip: a worker whose launch failed does not report it.
ReportsSuccessOnly(r) ==
  /\ Moves(r, "status", IF result[r] = "success" THEN "done" ELSE "poll")
  /\ status' = [status EXCEPT ![r] = result[r]]
  /\ UNCHANGED <<caller, jobs, generation, done, stop, seen, job, result,
                 devices, reduced, answer>>

StoreStatus(r) ==
  /\ Moves(r, "status", "done")
  /\ status' = [status EXCEPT ![r] = result[r]]
  /\ UNCHANGED <<caller, jobs, generation, done, stop, seen, job, result,
                 devices, reduced, answer>>

StoreDone(r) ==
  /\ Moves(r, "done", "poll")
  /\ done' = [done EXCEPT ![r] = seen[r]]
  /\ UNCHANGED <<caller, jobs, generation, status, stop, seen, job, result,
                 devices, reduced, answer>>

-------------------------------------------------------------------------------
Init ==
  /\ pc = "idle"
  /\ index = 0
  /\ calls = 0
  /\ jobs = [r \in Ranks |-> NoJob]
  /\ generation = 0
  /\ done = [r \in Ranks |-> 0]
  /\ status = [r \in Ranks |-> "success"]
  /\ stop = FALSE
  /\ wpc = [r \in Ranks |-> "poll"]
  /\ seen = [r \in Ranks |-> 0]
  /\ job = jobs
  /\ result = [r \in Ranks |-> "success"]
  /\ launches = Nothing
  /\ failed = {}
  /\ reduced = 0
  /\ answer = "success"

Pair ==
  \/ \E r \in Ranks : WriteJob(r)
  \/ Publish \/ Spin0 \/ Spin1 \/ Collect \/ Reduce
Destructor == SetStop \/ Bump \/ Join
Caller == Compute \/ Pair \/ Destructor
Worker(r) ==
  \/ Notice(r) \/ TestStop(r) \/ Take(r) \/ Launch(r) \/ StoreStatus(r)
  \/ StoreDone(r)
Next == Caller \/ \E r \in Ranks : Worker(r)

Spec == Init /\ [][Next]_vars

\* The operating system runs every thread that can run.  Nobody has to call
\* graph_compute or to destroy the backend; once begun, both go on.
FairSpec ==
  /\ Spec
  /\ WF_vars(Pair)
  /\ WF_vars(Bump \/ Join)
  /\ \A r \in Ranks : WF_vars(Worker(r))

-------------------------------------------------------------------------------
TypeOK ==
  /\ pc \in CallerPcs
  /\ index \in 0..Subgraphs - 1
  /\ calls \in 0..MaxCalls
  /\ jobs \in [Ranks -> Slots]
  /\ generation \in Nat
  /\ done \in [Ranks -> Nat]
  /\ status \in [Ranks -> Statuses]
  /\ stop \in BOOLEAN
  /\ wpc \in [Ranks -> WorkerPcs]
  /\ seen \in [Ranks -> Nat]
  /\ job \in [Ranks -> Slots]
  /\ result \in [Ranks -> Statuses]
  /\ launches \in [Ranks -> [0..Subgraphs - 1 -> Nat]]
  /\ failed \subseteq Ranks \X (0..Subgraphs - 1)
  /\ reduced \in 0..Subgraphs - 1
  /\ answer \in {"running", "success", "failure"}

\* The caller never writes a job slot that its worker is about to read, which
\* would be a data race on launch_jobs: the spin of launch_pair and the order
\* of the stores in launch_worker_loop keep them apart.
NoRace ==
  \A r \in Ranks : ~(wpc[r] = "take" /\ pc = JobPc(r))

\* For the devices, launching in parallel is launching in lockstep: every
\* subgraph once, in order, reduced only when both have it, and an answer of
\* launch_pair that belongs to this pair and to no earlier one.
Devices == INSTANCE Lockstep
LockstepSpec == Devices!Spec

\* Every call of graph_compute returns: no launch is missed by a worker, and no
\* answer of a worker by launch_pair.
CallReturns == answer = "running" ~> answer # "running"

\* The destructor ends: both workers wake up, see launch_stop and return.
DestructorReturns == stop ~> pc = "gone"
===============================================================================
