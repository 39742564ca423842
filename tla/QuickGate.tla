------------------------------ MODULE QuickGate ------------------------------
(***************************************************************************)
(* benchmarks/v100-extreme/quick_gate.py: a gate starts a candidate        *)
(* llama-server (managed mode) or is given the URL and the log of one      *)
(* (external mode, as maintenance_ab.py runs it), sends it three requests  *)
(* and says with its exit status whether the candidate passed.             *)
(*                                                                         *)
(* Several gates run on one host, with the same or with different output   *)
(* directories and ports.  A server prints fatal markers at any time while *)
(* it works; they reach its log file later.  Gates are interrupted or      *)
(* killed, servers die, ignore signals, or answer for one another.         *)
(*                                                                         *)
(* One step is one check, one HTTP call, one answer or one signal.         *)
(***************************************************************************)
EXTENDS Integers

CONSTANTS
  Gates,      \* the processes that run quick_gate.py
  Roots,      \* output directories; each has a lock file
  Ports,      \* ports of candidate servers
  Configs,    \* the ways the gates may be set up
  MaxPolls,   \* startup_timeout_seconds, counted in polls of /health
  MaxFaults   \* bound: kills, interrupts, crashes and deaf servers

Setups == [root : Roots, port : Ports, managed : BOOLEAN]

ASSUME GateAssumption ==
  Configs \subseteq [Gates -> Setups] /\ MaxPolls \in Nat \ {0} /\ MaxFaults \in Nat

Cases == 3   \* legacy completion, tool call, continuation

VARIABLES
  setup,    \* each gate's output directory, port and mode
  pc,       \* what each gate does next
  polls,    \* wait_for_server's time
  cases,    \* len(summary["cases"])
  good,     \* every case so far passed its checks
  passed,   \* summary["passed"]
  exit,     \* exit status, 0 to 2; an interrupt's is counted as 1
  strayed,  \* another gate's server answered one of its requests
  srv,      \* the server of each gate
  marker,   \* the server printed a fatal marker
  logged,   \* ... and it is in the log file
  faults    \* faults so far

report == <<cases, good, passed>>
server == <<srv, marker, logged>>
vars == <<setup, pc, polls, report, exit, strayed, server, faults>>

NoExit == -1
CaseSteps == {"ask", "reply", "record"}
TrySteps == {"port", "gpus", "launch", "poll", "health", "owned"}
              \cup CaseSteps
Signals == {"sigint", "sigterm", "sigkill"}
\* "failed": an exception left the finally block; "killed": it never ran.
Ended == {"done", "failed", "killed"}

Managed(g) == setup[g].managed
Alive(g) == srv[g] \in {"starting", "bound", "loading", "ready"}
OnPort(p) == {g \in Gates : /\ srv[g] \in {"bound", "loading", "ready"}
                            /\ setup[g].port = p}
\* The server that answers a gate's calls, if any: whoever holds the port.
Answerers(g) == {h \in OnPort(setup[g].port) : srv[h] = "ready"}
\* What nvidia-smi lists.
OnGpus == {g \in Gates : srv[g] \in {"loading", "ready"}}

Fault == faults < MaxFaults /\ faults' = faults + 1

Goto(g, step) == pc' = [pc EXCEPT ![g] = step]
\* The finally block: it stops the server, if there is one that it started.
Finally(g) == Goto(g, IF Managed(g) THEN "sigint" ELSE "scan")
\* An exception inside the try block: passed stays FALSE.
Raise(g) == Finally(g)

-----------------------------------------------------------------------------
(* Preflight                                                               *)

Holds(g) == pc[g] \notin {"lock"} \cup Ended

\* flock on the output directory; its GateError is outside the try block, that
\* of a wrong external configuration or a missing log is inside.
Lock(g) ==
  /\ pc[g] = "lock"
  /\ \/ /\ \E h \in Gates : Holds(h) /\ setup[h].root = setup[g].root
        /\ Goto(g, "done") /\ exit' = [exit EXCEPT ![g] = 2]
     \/ /\ ~\E h \in Gates : Holds(h) /\ setup[h].root = setup[g].root
        /\ \/ Goto(g, IF Managed(g) THEN "port" ELSE "health")
           \/ ~Managed(g) /\ Raise(g)
        /\ UNCHANGED exit
  /\ UNCHANGED <<setup, polls, report, strayed, server, faults>>

\* A missing file, a wrong host; assert_safe_port: a bind that is undone at once.
CheckPort(g) ==
  /\ pc[g] = "port"
  /\ (OnPort(setup[g].port) = {} /\ Goto(g, "gpus")) \/ Raise(g)
  /\ UNCHANGED <<setup, polls, report, exit, strayed, server, faults>>

\* No CUDA client at all, or nvidia-smi could not tell.
CheckGpus(g) ==
  /\ pc[g] = "gpus"
  /\ (OnGpus = {} /\ Goto(g, "launch")) \/ Raise(g)
  /\ UNCHANGED <<setup, polls, report, exit, strayed, server, faults>>

Launch(g) ==
  /\ pc[g] = "launch"
  /\ \/ Goto(g, "poll") /\ srv' = [srv EXCEPT ![g] = "starting"]
     \/ Raise(g) /\ UNCHANGED srv
  /\ UNCHANGED <<setup, polls, report, exit, strayed, marker, logged, faults>>

\* wait_for_server: process.poll(), then /health, until the deadline.
PollProcess(g) ==
  /\ pc[g] = "poll"
  /\ IF Alive(g) THEN Goto(g, "health") ELSE Raise(g)
  /\ UNCHANGED <<setup, polls, report, exit, strayed, server, faults>>

\* Mutant: the loop has no deadline.
NeverLate(g) == FALSE
Late(g) == polls[g] >= MaxPolls

\* "ok", or loading, or no answer within the call's two seconds.
PollHealth(g) ==
  /\ pc[g] = "health"
  /\ \/ /\ Answerers(g) # {}
        /\ Goto(g, IF Managed(g) THEN "owned" ELSE "ask")
        /\ UNCHANGED polls
     \/ /\ ~Late(g)
        /\ Goto(g, IF Managed(g) THEN "poll" ELSE "health")
        /\ polls' = [polls EXCEPT
             ![g] = IF @ < MaxPolls THEN @ + 1 ELSE @]
     \/ Raise(g) /\ UNCHANGED polls  \* the deadline, or another exception
  /\ UNCHANGED <<setup, report, exit, strayed, server, faults>>

\* Mutants: other processes are let through; the check is missing.
OwnProcessListed(g) == g \in OnGpus
NoneChecked(g) == TRUE
OnlyOwned(g) == OnGpus = {g}

\* assert_only_owned_gpu_process, once the server is healthy.
CheckOwned(g) ==
  /\ pc[g] = "owned"
  /\ (OnlyOwned(g) /\ Goto(g, "ask")) \/ Raise(g)
  /\ UNCHANGED <<setup, polls, report, exit, strayed, server, faults>>

-----------------------------------------------------------------------------
(* run_case, three times                                                   *)

\* A call to the URL: some server answers, or the call raises.
Calls(g) ==
  \E h \in Answerers(g) : strayed' = [strayed EXCEPT ![g] = @ \/ h # g]

\* The counters before, and the request.
Ask(g) ==
  /\ pc[g] = "ask"
  /\ (Calls(g) /\ Goto(g, "reply")) \/ (Raise(g) /\ UNCHANGED strayed)
  /\ UNCHANGED <<setup, polls, report, exit, server, faults>>

\* The response; or an HTTP error, a malformed stream, the request's timeout.
Reply(g) ==
  /\ pc[g] = "reply"
  /\ (Calls(g) /\ Goto(g, "record")) \/ (Raise(g) /\ UNCHANGED strayed)
  /\ UNCHANGED <<setup, polls, report, exit, server, faults>>

\* Mutant: one case too many.
OneMoreCase(g) == cases[g] = Cases
LastCase(g) == cases[g] + 1 = Cases

\* The counters after, the log's new lines and the checks of the response, each
\* of which may fail; after the last case the verdict.  The third request is
\* refused when the second response has no tool call.
Record(g) ==
  /\ pc[g] = "record"
  /\ \/ Raise(g) /\ UNCHANGED <<report, strayed>>
     \/ /\ Calls(g)
        /\ cases' = [cases EXCEPT ![g] = @ + 1]
        /\ \E ok \in BOOLEAN :
             /\ good' = [good EXCEPT ![g] = @ /\ ok /\ ~logged[g]]
             /\ IF LastCase(g)
                  THEN /\ passed' = [passed EXCEPT ![g] = good'[g]]
                       /\ Finally(g)
                  ELSE /\ UNCHANGED passed
                       /\ \/ Goto(g, "ask")
                          \/ cases'[g] = 2 /\ ~ok /\ Raise(g)
  /\ UNCHANGED <<setup, polls, exit, server, faults>>

-----------------------------------------------------------------------------
(* The finally block                                                       *)

\* terminate_owned_server: process.poll(), a signal, process.wait with a timeout.
\* The last timeout leaves the finally block: no scan, no summary.
\* Mutant: the first wait is missing.
StopsWaiting(g) ==
  /\ pc[g] = "sigint" /\ Goto(g, "scan")
  /\ UNCHANGED <<setup, polls, report, exit, strayed, server, faults>>
AwaitExit(g) ==
  /\ pc[g] \in Signals
  /\ \/ ~Alive(g) /\ Goto(g, "scan") /\ UNCHANGED <<exit, faults>>
     \/ /\ Alive(g) /\ pc[g] = "sigint" /\ Goto(g, "sigterm")
        /\ UNCHANGED <<exit, faults>>
     \/ /\ Alive(g) /\ pc[g] = "sigterm" /\ Goto(g, "sigkill")
        /\ UNCHANGED <<exit, faults>>
     \/ /\ Alive(g) /\ pc[g] = "sigkill" /\ Fault /\ Goto(g, "failed")
        /\ exit' = [exit EXCEPT ![g] = 1]
  /\ UNCHANGED <<setup, polls, report, strayed, server>>

\* The whole log, read once the server is gone, then the summary.
Finish(g) ==
  /\ pc[g] = "scan" /\ Goto(g, "done")
  /\ passed' = [passed EXCEPT ![g] = @ /\ ~logged[g]]
  /\ exit' = [exit EXCEPT ![g] = IF passed'[g] THEN 0 ELSE 1]
  /\ UNCHANGED <<setup, polls, cases, good, strayed, server, faults>>

\* Ctrl-C inside the try block runs the finally block, like an exception; a
\* second one, or a SIGKILL, does not.  The server is in a session of its own.
Interrupt(g) ==
  /\ pc[g] \in TrySteps /\ Fault /\ Raise(g)
  /\ UNCHANGED <<setup, polls, report, exit, strayed, server>>
Kill(g) ==
  /\ Holds(g) /\ Fault /\ Goto(g, "killed")
  /\ UNCHANGED <<setup, polls, report, exit, strayed, server>>

-----------------------------------------------------------------------------
(* llama-server                                                            *)

\* It takes the port, or finds it taken and exits.
Bind(g) ==
  /\ srv[g] = "starting"
  /\ srv' = [srv EXCEPT ![g] = IF OnPort(setup[g].port) = {} THEN "bound"
                               ELSE "gone"]
  /\ UNCHANGED <<setup, pc, polls, report, exit, strayed, marker, logged, faults>>

LoadModel(g) ==
  /\ srv[g] = "bound"
  /\ srv' = [srv EXCEPT ![g] = "loading"]
  /\ UNCHANGED <<setup, pc, polls, report, exit, strayed, marker, logged, faults>>

\* Loading takes minutes: a gate that lost its server between two calls has
\* noticed by the time another server on its port is ready.
BecomeReady(g) ==
  /\ srv[g] = "loading"
  /\ \A h \in Gates \ {g} :
       pc[h] \in CaseSteps => setup[h].port # setup[g].port
  /\ srv' = [srv EXCEPT ![g] = "ready"]
  /\ UNCHANGED <<setup, pc, polls, report, exit, strayed, marker, logged, faults>>

\* While it loads, works or shuts down.
PrintMarker(g) ==
  /\ srv[g] \in {"loading", "ready"}
  /\ marker' = [marker EXCEPT ![g] = TRUE]
  /\ UNCHANGED <<setup, pc, polls, report, exit, strayed, srv, logged, faults>>

\* A server writes its own log while it lives; an external one has its log
\* copied by docker logs --follow, which goes on after it.
Flush(g) ==
  /\ marker[g] /\ ~logged[g] /\ (Alive(g) \/ ~Managed(g))
  /\ logged' = [logged EXCEPT ![g] = TRUE]
  /\ UNCHANGED <<setup, pc, polls, report, exit, strayed, srv, marker, faults>>

\* A server that is asked to exit flushes what it has; one that is killed or
\* crashes does not.
Obey(g) ==
  /\ Alive(g) /\ pc[g] \in {"sigint", "sigterm"}
  /\ srv' = [srv EXCEPT ![g] = "gone"]
  /\ logged' = [logged EXCEPT ![g] = @ \/ marker[g]]
  /\ UNCHANGED <<setup, pc, polls, report, exit, strayed, marker, faults>>

Fall(g) ==
  /\ Alive(g)
  /\ (pc[g] = "sigkill" /\ UNCHANGED faults) \/ Fault
  /\ srv' = [srv EXCEPT ![g] = "gone"]
  /\ UNCHANGED <<setup, pc, polls, report, exit, strayed, marker, logged>>

-----------------------------------------------------------------------------
\* The container of an external gate is healthy before the gate is started.
Init ==
  /\ setup \in {c \in Configs : \A g, h \in Gates :
                   g # h /\ ~c[g].managed /\ ~c[h].managed
                     => c[g].port # c[h].port}
  /\ pc = [g \in Gates |-> "lock"]
  /\ polls = [g \in Gates |-> 0]
  /\ cases = [g \in Gates |-> 0]
  /\ good = [g \in Gates |-> TRUE]
  /\ passed = [g \in Gates |-> FALSE]
  /\ exit = [g \in Gates |-> NoExit]
  /\ strayed = [g \in Gates |-> FALSE]
  /\ srv = [g \in Gates |-> IF setup[g].managed THEN "none" ELSE "ready"]
  /\ marker = [g \in Gates |-> FALSE]
  /\ logged = [g \in Gates |-> FALSE]
  /\ faults = 0

Gate(g) == \/ Lock(g) \/ CheckPort(g) \/ CheckGpus(g) \/ Launch(g)
           \/ PollProcess(g) \/ PollHealth(g) \/ CheckOwned(g)
           \/ Ask(g) \/ Reply(g) \/ Record(g) \/ AwaitExit(g) \/ Finish(g)
Server(g) == Bind(g) \/ LoadModel(g) \/ BecomeReady(g) \/ Obey(g) \/ Fall(g)
Environment(g) == PrintMarker(g) \/ Flush(g) \/ Interrupt(g) \/ Kill(g)

Next == \E g \in Gates : Gate(g) \/ Server(g) \/ Environment(g)

Spec == Init /\ [][Next]_vars

\* A gate that is not killed goes on: every wait and every read of a socket has
\* a timeout, and max_tokens bounds what a server streams.  The kernel ends a
\* process that got a SIGKILL.
FairSpec == Spec /\ \A g \in Gates : /\ WF_vars(Gate(g))
                                     /\ WF_vars(pc[g] = "sigkill" /\ Fall(g))

-----------------------------------------------------------------------------
TypeOK ==
  /\ setup \in Configs
  /\ pc \in [Gates -> {"lock", "scan"} \cup TrySteps
                        \cup Signals \cup Ended]
  /\ polls \in [Gates -> 0..MaxPolls]
  /\ cases \in [Gates -> 0..Cases]
  /\ good \in [Gates -> BOOLEAN] /\ passed \in [Gates -> BOOLEAN]
  /\ exit \in [Gates -> NoExit..2]
  /\ strayed \in [Gates -> BOOLEAN]
  /\ srv \in [Gates -> {"none", "starting", "bound", "loading", "ready",
                        "gone"}]
  /\ marker \in [Gates -> BOOLEAN] /\ logged \in [Gates -> BOOLEAN]
  /\ faults \in 0..MaxFaults

\* A gate that checks its candidate's process sends no work to any other
\* server, whoever held the port before, during or after the startup.
OwnServer == \A g \in Gates : Managed(g) => ~strayed[g]

\* Two servers never do measured work on the GPUs at once, although the GPUs
\* are only looked at twice, and neither time under a common lock.
AloneAtWork ==
  \A g, h \in Gates :
    g # h /\ Managed(g) /\ pc[g] \in CaseSteps /\ pc[h] \in CaseSteps
      => ~(g \in OnGpus /\ h \in OnGpus)

\* A gate that ended by itself left no server of its own behind.
ServerGone == \A g \in Gates : Managed(g) /\ pc[g] = "done" => ~Alive(g)

\* Exit status 0 means that nothing fatal is in the log of the server that it
\* started, nor ever will be.
PassIsClean == \A g \in Gates : Managed(g) /\ exit[g] = 0 => ~logged[g]

\* Every gate ends, even if its server dies, never gets ready or ignores
\* signals.  FairSpec takes for granted that a reply ends: the timeout of the
\* streaming request is one of each read, not of the whole.
Ends == <>(\A g \in Gates : pc[g] \in Ended)
=============================================================================
