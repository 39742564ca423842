-------------------------------- MODULE Deploy --------------------------------
(***************************************************************************)
(* The two scripts that take production down on the WZU host:              *)
(* scripts/run-qwen38-27b-production.sh replaces the production container, *)
(* benchmarks/run-mtp-vs-dflash-long.sh borrows its GPUs and its           *)
(* checkpoint files.  Operators run one script after the other; a script   *)
(* can be killed, a command of it can fail, and the next run finds what    *)
(* the last one left.  Clients and the kv manager (KvCacheManager, whose   *)
(* rotation is one step here) go on meanwhile.                             *)
(*                                                                         *)
(* One step is one command of a script.  Container n is the one that run n *)
(* creates, 0 the one in production before; contents of slot and files are *)
(* numbered by the client's request that left them.                        *)
(***************************************************************************)
EXTENDS Integers

CONSTANTS
  MaxRuns,       \* bound: runs of either script
  MaxFaults,     \* bound: kills and commands that fail
  MaxRequests    \* bound: clients' requests

ASSUME DeployAssumption ==
  MaxRuns \in Nat /\ MaxFaults \in Nat /\ MaxRequests \in Nat \ {0}

VARIABLES
  run, kind,     \* number of the run; "deploy" or "bench"
  pc,            \* the script's next command, "over" if none runs
  busySeen,      \* BUSY is 1
  old,           \* OLD_ID
  prodStopped,   \* PROD_STOPPED
  name, status, restart,  \* of each container: its name, whether its server
                 \* loads or is ready, restart=unless-stopped
  sound,         \* whether its server can become ready
  slot,          \* content of the slot of the server that is ready
  request,       \* what that server works on: a client's request that came
                 \* before or after the script looked, or none
  requests,      \* clients' requests completed
  kv,            \* the kv manager
  latest, previous, abNext, kept,  \* its checkpoints, ab-next.bin, and the
                 \* copies in deploy-backups
  mishap,        \* a run was cut off where nothing puts things back
  faults

memory == <<run, kind, busySeen, old, prodStopped>>
docker == <<name, status, restart, sound>>
service == <<slot, request, kv>>
files == <<latest, previous, abNext, kept>>
vars == <<memory, pc, docker, service, requests, files, mishap, faults>>

Ids == 0..MaxRuns
NoOld == -1
Prod == 0       \* the names: qwen38-27b,
Test == -1      \* qwen38-dflash2-test,
NoName == -2    \* none, for a container that does not exist;
Backups == 1..MaxRuns   \* qwen38-27b-pre-kv- and the stamp of run n

Missing == 0    \* no file, an empty slot
Partial == -1   \* a file that is not whole
Bench == -2     \* what the benchmark's requests leave
Empty == -3     \* a checkpoint of an empty slot

Named(n) == {c \in Ids : name[c] = n}
Running(c) == status[c] \in {"loading", "ready"}
\* At most one is: port 8000, the GPUs.
Ready == {c \in Ids : status[c] = "ready"}
Idle == Ready # {} /\ request = "none"        \* what /slots answers

Fault == faults < MaxFaults /\ faults' = faults + 1

-------------------------------------------------------------------------------
(* docker stop, rm -f, run, start; systemctl                               *)

\* A server that goes takes its slot and its request with it; the kv manager
\* sees an outage.
Ended(cs) ==
  IF cs \cap Ready = {} THEN UNCHANGED service
  ELSE /\ slot' = Missing /\ request' = "none"
       /\ kv' = IF kv = "on" THEN "booting" ELSE kv

Halted(cs) == [c \in Ids |-> IF c \in cs THEN "stopped" ELSE status[c]]

Stop(cs) ==
  /\ status' = Halted(cs) /\ Ended(cs)
  /\ UNCHANGED <<name, restart, sound>>

Remove(cs) ==
  /\ status' = Halted(cs) /\ Ended(cs)
  /\ name' = [c \in Ids |-> IF c \in cs THEN NoName ELSE name[c]]
  /\ UNCHANGED <<restart, sound>>

Start(cs) ==
  /\ status' = [c \in Ids |->
       IF c \in cs /\ ~Running(c) THEN "loading" ELSE status[c]]
  /\ UNCHANGED <<name, restart, sound, service>>

\* docker run: the container of this run, which may have been created but not
\* started when it fails.
Create(n, policy, state) ==
  /\ name' = [name EXCEPT ![run] = n]
  /\ status' = [status EXCEPT ![run] = state]
  /\ restart' = [restart EXCEPT ![run] = policy]
  /\ \E works \in BOOLEAN : sound' = [sound EXCEPT ![run] = works]

-------------------------------------------------------------------------------
(* run-qwen38-27b-production.sh                                            *)

\* The next command after one that the script lets fail (|| true), too.
After ==
  CASE pc = "stopKv" -> "find"
    [] pc = "remove" -> IF old = NoOld THEN "over" ELSE "nameBack"
    [] pc = "nameBack" -> "policyBack"
    [] pc = "policyBack" -> "startBack"
    [] pc = "removeTest" -> IF prodStopped THEN "startProd" ELSE "startKv"
    [] pc = "startProd" -> "awaitProd"
    [] OTHER -> "over"

At(p, q) == pc = p /\ pc' = q
Quiet == UNCHANGED <<memory, requests, mishap>>    \* of most commands
Only == Quiet /\ UNCHANGED <<files, faults>>

\* The loop before anything is touched: no container of the name runs, or its
\* slot is idle, or is busy or does not answer, up to 3600 times.
LookFindsNone ==
  /\ pc = "look" /\ \A c \in Named(Prod) : ~Running(c)
  /\ pc' = IF busySeen THEN "over" ELSE "stopKv"
  /\ Only /\ UNCHANGED <<docker, service>>

\* Mutant: a probe that fails counts as idle.
LooksOnce ==
  /\ At("look", "stopKv") /\ \E c \in Named(Prod) : Running(c)
  /\ Only /\ UNCHANGED <<docker, service>>
LookIdle ==
  /\ At("look", "stopKv") /\ \E c \in Named(Prod) : Running(c)
  /\ Idle
  /\ Only /\ UNCHANGED <<docker, service>>

LookBusy ==
  /\ At("look", "look") /\ \E c \in Named(Prod) : Running(c)
  /\ ~Idle /\ busySeen' = TRUE
  /\ UNCHANGED <<run, kind, old, prodStopped, docker, service, requests, files,
                 mishap, faults>>

LookGivesUp ==
  /\ At("look", "over") /\ busySeen
  /\ Only /\ UNCHANGED <<docker, service>>

StopKv ==
  /\ At("stopKv", "find") /\ kv' = "stopped"
  /\ Only /\ UNCHANGED <<docker, slot, request>>

FindOld ==
  /\ pc = "find"
  /\ \/ Named(Prod) = {} /\ old' = NoOld /\ pc' = "launch"
     \/ old' \in Named(Prod) /\ pc' = "rename"
  /\ UNCHANGED <<run, kind, busySeen, prodStopped, docker, service, requests,
                 files, mishap, faults>>

\* Mutant: the backup's name has no stamp.
FixedBackup ==
  /\ At("rename", "update")
  /\ name' = [name EXCEPT ![old] = 1]
  /\ Only /\ UNCHANGED <<status, restart, sound, service>>
RenameOld ==
  /\ At("rename", "update")
  /\ name' = [name EXCEPT ![old] = run]
  /\ Only /\ UNCHANGED <<status, restart, sound, service>>

UpdateOld ==
  /\ At("update", "stop")
  /\ restart' = [restart EXCEPT ![old] = FALSE]
  /\ Only /\ UNCHANGED <<name, status, sound, service>>

\* Mutant: docker stop is not waited for.
OnlySignals ==
  /\ At("stop", "launch")
  /\ Only /\ UNCHANGED <<docker, service>>
StopOld ==
  /\ At("stop", "launch")
  /\ Stop({old}) /\ Only

\* Mutant: the trap is there from the first command.
BreaksIntoRollback ==
  /\ pc \in {"find", "rename", "update", "stop"} /\ Fault
  /\ pc' = "remove"
  /\ UNCHANGED <<memory, docker, service, requests, files, mishap>>
\* set -e before the trap: nothing is put back.
Breaks ==
  /\ pc \in {"find", "rename", "update", "stop"} /\ Fault
  /\ pc' = "over"
  /\ mishap' = (mishap \/ pc \in {"update", "stop"})
  /\ UNCHANGED <<memory, docker, service, requests, files>>

Launch ==
  /\ At("launch", "health") /\ Named(Prod) = {}
  /\ Create(Prod, TRUE, "loading")
  /\ Only /\ UNCHANGED service

LaunchFails ==
  /\ At("launch", "remove") /\ Fault
  /\ UNCHANGED docker \/ Create(Prod, TRUE, "stopped")
  /\ Quiet /\ UNCHANGED <<service, files>>

\* curl does not ask which server it is that answers.
HealthAnswers ==
  /\ At("health", "record") /\ Ready # {}
  /\ Only /\ UNCHANGED <<docker, service>>

\* 360 times no answer: false, and the trap.
HealthFails ==
  /\ At("health", "remove") /\ Ready = {}
  /\ Only /\ UNCHANGED <<docker, service>>

\* The trap is gone: if the file cannot be written the script ends here too,
\* without a rollback.  (Its exit status is not in the model.)
RecordBackup ==
  /\ At("record", "over")
  /\ Only /\ UNCHANGED <<docker, service>>

RemoveNew ==
  /\ At("remove", After)
  /\ Remove(Named(Prod)) /\ Only

\* Mutant: the old container is not renamed.
StaysBackup ==
  /\ At("nameBack", After)
  /\ Only /\ UNCHANGED <<docker, service>>
NameBack ==
  /\ At("nameBack", After)
  /\ name' = IF Named(Prod) # {} THEN name
             ELSE [c \in Ids |-> IF name[c] = run THEN Prod ELSE name[c]]
  /\ Only /\ UNCHANGED <<status, restart, sound, service>>

PolicyBack ==
  /\ At("policyBack", After)
  /\ restart' = [c \in Ids |-> name[c] = Prod \/ restart[c]]
  /\ Only /\ UNCHANGED <<name, status, sound, service>>

StartBack ==
  /\ At("startBack", After)
  /\ Start(Named(Prod)) /\ Only

-------------------------------------------------------------------------------
(* run-mtp-vs-dflash-long.sh                                               *)

WaitIdle ==
  /\ At("waitIdle", "stopKvFirst") /\ Idle
  /\ Only /\ UNCHANGED <<docker, service>>

StopKvFirst ==
  /\ At("stopKvFirst", "lookAgain") /\ kv' = "stopped"
  /\ Only /\ UNCHANGED <<docker, slot, request>>

LookAgain ==
  /\ pc = "lookAgain"
  /\ \/ Idle /\ pc' = "backup"
     \/ Ready = {} /\ pc' = "removeTest"    \* set -e
  /\ Only /\ UNCHANGED <<docker, service>>

\* Mutant: the checkpoint is not put aside.
BacksUpNothing ==
  /\ At("backup", "save") /\ latest # Missing
  /\ Only /\ UNCHANGED <<docker, service>>
\* ln or cp of latest.bin
Backup ==
  /\ pc = "backup"
  /\ \/ /\ latest # Missing /\ kept' = kept \cup {latest} /\ pc' = "save"
     \/ /\ latest = Missing /\ UNCHANGED kept /\ pc' = "removeTest"
  /\ Quiet
  /\ UNCHANGED <<latest, previous, abNext, docker, service, faults>>

\* rm ab-next.bin, and the server saves its slot there.
Save ==
  /\ At("save", "keepPrevious") /\ Idle
  /\ abNext' = IF slot = Missing THEN Empty ELSE slot
  /\ Quiet /\ UNCHANGED <<latest, previous, kept, docker, service, faults>>

SaveFails ==
  /\ At("save", "removeTest")
  /\ Fault \/ (Ready = {} /\ UNCHANGED faults)
  /\ abNext' = Partial
  /\ Quiet /\ UNCHANGED <<latest, previous, kept, docker, service>>

KeepPrevious ==
  /\ At("keepPrevious", "install")
  /\ previous' = latest /\ latest' = Missing
  /\ Quiet /\ UNCHANGED <<abNext, kept, docker, service, faults>>

Install ==
  /\ At("install", "requestsA")
  /\ latest' = abNext /\ abNext' = Missing
  /\ Quiet /\ UNCHANGED <<previous, kept, docker, service, faults>>

\* The benchmark's requests wait for a client's and fail without a server.
Requests(p, q) ==
  /\ pc = p
  /\ \/ Idle /\ slot' = Bench /\ pc' = q
     \/ Ready = {} /\ UNCHANGED slot /\ pc' = "removeTest"
  /\ Only /\ UNCHANGED <<docker, request, kv>>
RequestsA == Requests("requestsA", "stopProd")

StopProd ==
  /\ pc = "stopProd"
  /\ pc' = IF Named(Prod) = {} THEN "removeTest" ELSE "mark"
  /\ Stop(Named(Prod)) /\ Only

\* PROD_STOPPED=1
Mark ==
  /\ At("mark", "launchTest") /\ prodStopped' = TRUE
  /\ UNCHANGED <<run, kind, busySeen, old, docker, service, requests, files,
                 mishap, faults>>

LaunchTest ==
  /\ pc = "launchTest"
  /\ \/ /\ Named(Test) = {} /\ pc' = "awaitTest"
        /\ Create(Test, FALSE, "loading")
     \/ Named(Test) # {} /\ pc' = "removeTest" /\ UNCHANGED docker
  /\ Only /\ UNCHANGED service

\* An answer, from whichever server; or the container is gone, or 240 times
\* no answer.
AwaitTest ==
  /\ pc = "awaitTest"
  /\ \/ Ready # {} /\ pc' = "requestsB"
     \/ Ready = {} /\ pc' = "removeTest"
  /\ Only /\ UNCHANGED <<docker, service>>

\* Then rm -f and the summary; the EXIT trap does the same again.
RequestsB == Requests("requestsB", "removeTest")

\* Any command fails, or SIGINT, SIGTERM or SIGHUP comes: the EXIT trap.
BenchBreaks ==
  /\ pc \in {"waitIdle", "stopKvFirst", "lookAgain", "backup", "keepPrevious",
             "install", "requestsA", "stopProd", "mark", "launchTest",
             "awaitTest", "requestsB"}
  /\ Fault /\ pc' = "removeTest"
  /\ mishap' = (mishap \/ pc = "mark")    \* stopped, and PROD_STOPPED=0
  /\ UNCHANGED <<memory, docker, service, requests, files>>

RemoveTest ==
  /\ At("removeTest", After)
  /\ Remove(Named(Test)) /\ Only

\* Mutant: production is not started again.
LeavesDown ==
  /\ At("startProd", After)
  /\ Only /\ UNCHANGED <<docker, service>>
StartProd ==
  /\ At("startProd", After)
  /\ Start(Named(Prod)) /\ Only

\* Healthy, or 180 times not.
AwaitProd ==
  /\ At("awaitProd", "startKv")
  /\ Only /\ UNCHANGED <<docker, service>>

StartKv ==
  /\ At("startKv", After)
  /\ kv' = IF kv = "stopped" THEN "booting" ELSE kv
  /\ Only /\ UNCHANGED <<docker, slot, request>>

-------------------------------------------------------------------------------
(* Operators, clients and what goes wrong unseen                           *)

StartScript ==
  /\ pc = "over" /\ run < MaxRuns
  /\ run' = run + 1
  /\ \/ kind' = "deploy" /\ pc' = "look"
     \/ kind' = "bench" /\ pc' = "waitIdle"
  /\ busySeen' = FALSE /\ old' = NoOld /\ prodStopped' = FALSE
  /\ request' = IF request = "late" THEN "early" ELSE request
  /\ UNCHANGED <<docker, slot, kv, requests, files, mishap, faults>>

\* A command whose result is not looked at did nothing.
Silent ==
  /\ pc \in {"stopKv", "remove", "nameBack", "policyBack", "startBack",
             "removeTest", "startProd", "startKv"}
  /\ Fault /\ pc' = After /\ mishap' = TRUE
  /\ UNCHANGED <<memory, docker, service, requests, files>>

\* SIGKILL, and any signal for the deployment, whose trap is for ERR only.
Kill ==
  /\ pc # "over" /\ Fault /\ pc' = "over" /\ mishap' = TRUE
  /\ UNCHANGED <<memory, docker, service, requests, files>>

BecomeReady(c) ==
  /\ status[c] = "loading" /\ sound[c] /\ Ready = {}
  /\ status' = [status EXCEPT ![c] = "ready"]
  /\ UNCHANGED <<name, restart, sound, service, memory, pc, requests, files,
                 mishap, faults>>

\* A server that cannot have the port or the GPUs, or is broken, exits; Docker
\* tries again unless it must not.
Exit(c) ==
  /\ status[c] = "loading" /\ ~restart[c] /\ (~sound[c] \/ Ready # {})
  /\ status' = [status EXCEPT ![c] = "stopped"]
  /\ UNCHANGED <<name, restart, sound, service, memory, pc, requests, files,
                 mishap, faults>>

\* A client's request; the test server listens on 127.0.0.1 only.
RequestStarts ==
  /\ Idle /\ Ready \cap Named(Test) = {} /\ requests < MaxRequests
  /\ request' = IF pc \in {"look", "waitIdle", "stopKvFirst", "lookAgain",
                           "over"}
                THEN "early" ELSE "late"
  /\ UNCHANGED <<memory, pc, docker, slot, kv, requests, files, mishap, faults>>

RequestEnds ==
  /\ request # "none" /\ request' = "none"
  /\ requests' = requests + 1 /\ slot' = requests' + 1
  /\ UNCHANGED <<memory, pc, docker, kv, files, mishap, faults>>

\* The kv manager restores an empty slot when it or the server has started,
KvRestores ==
  /\ kv = "booting" /\ Idle /\ kv' = "on"
  /\ slot' = IF slot = Missing /\ latest # Empty THEN latest ELSE slot
  /\ UNCHANGED <<memory, pc, docker, request, requests, files, mishap, faults>>

\* and saves what is new in it.
KvSaves ==
  /\ kv = "on" /\ Idle /\ slot \notin {Missing, latest}
  /\ previous' = (IF latest = Missing THEN previous ELSE latest)
  /\ latest' = slot
  /\ UNCHANGED <<memory, pc, docker, service, requests, abNext, kept, mishap,
                 faults>>

-------------------------------------------------------------------------------
\* Production with a checkpoint of its conversation, and the kv manager at
\* work, or stopped by an earlier deployment.
Init ==
  /\ run = 0 /\ kind = "deploy" /\ pc = "over" /\ busySeen = FALSE
  /\ old = NoOld /\ prodStopped = FALSE
  /\ name = [c \in Ids |-> IF c = 0 THEN Prod ELSE NoName]
  /\ status = [c \in Ids |-> IF c = 0 THEN "ready" ELSE "stopped"]
  /\ restart = [c \in Ids |-> c = 0]
  /\ sound = [c \in Ids |-> c = 0]
  /\ \/ slot = 1 /\ kv = "on"
     \/ slot = Missing /\ kv = "stopped"
  /\ request = "none" /\ requests = 0
  /\ latest = 1 /\ previous = Missing /\ abNext = Missing /\ kept = {}
  /\ mishap = FALSE /\ faults = 0

Deployment ==
  \/ LookFindsNone \/ LookIdle \/ LookBusy \/ LookGivesUp \/ StopKv \/ FindOld
  \/ RenameOld \/ UpdateOld \/ StopOld \/ Launch \/ HealthAnswers \/ HealthFails
  \/ RecordBackup \/ RemoveNew \/ NameBack \/ PolicyBack \/ StartBack

Benchmark ==
  \/ WaitIdle \/ StopKvFirst \/ LookAgain \/ Backup \/ Save \/ SaveFails
  \/ KeepPrevious \/ Install \/ RequestsA \/ StopProd \/ Mark \/ LaunchTest
  \/ AwaitTest \/ RequestsB \/ RemoveTest \/ StartProd \/ AwaitProd \/ StartKv

Failure == Breaks \/ LaunchFails \/ BenchBreaks \/ Silent \/ Kill

Host == \/ \E c \in Ids : BecomeReady(c) \/ Exit(c)
        \/ RequestStarts \/ RequestEnds \/ KvRestores \/ KvSaves

Next == StartScript \/ Deployment \/ Benchmark \/ Failure \/ Host

Spec == Init /\ [][Next]_vars

\* A script goes on to its next command, a server that can become ready does,
\* and ends the request it works on.
FairSpec ==
  /\ Spec
  /\ WF_vars(Deployment) /\ WF_vars(Benchmark) /\ WF_vars(RequestEnds)
  /\ \A c \in Ids : WF_vars(BecomeReady(c)) /\ WF_vars(Exit(c))

-------------------------------------------------------------------------------
Contents == Empty..MaxRequests + 1

TypeOK ==
  /\ run \in Ids /\ kind \in {"deploy", "bench"} /\ busySeen \in BOOLEAN
  /\ old \in Ids \cup {NoOld} /\ prodStopped \in BOOLEAN
  /\ name \in [Ids -> Backups \cup {Prod, Test, NoName}]
  /\ status \in [Ids -> {"stopped", "loading", "ready"}]
  /\ restart \in [Ids -> BOOLEAN] /\ sound \in [Ids -> BOOLEAN]
  /\ \A c, d \in Ids : name[c] = name[d] => c = d \/ name[c] = NoName
  /\ \A c, d \in Ready : c = d
  /\ slot \in Contents /\ request \in {"none", "early", "late"}
  /\ requests \in 0..MaxRequests /\ kv \in {"stopped", "booting", "on"}
  /\ latest \in Contents /\ previous \in Contents /\ abNext \in Contents
  /\ kept \subseteq Contents /\ mishap \in BOOLEAN /\ faults \in 0..MaxFaults

\* "Never interrupt an in-flight inference during a controlled deployment"
\* (run-qwen38-27b-production.sh:11), as far as a look can see: no run of
\* either script, however it ends, cuts off a request that came before its
\* last look at the slot.
EarlyServed ==
  [][request = "early" /\ request' = "none" => requests' = requests + 1]_vars

\* A rollback removes the container of its own run and no other, and the
\* benchmark test servers only: what was production is kept under some name
\* (a switch must keep the original container,
\* docs/benchmark-dual-v100-2026-10-01.zh-CN.md:71).
OriginalKept ==
  [][\A c \in Ids : name[c] # NoName /\ name'[c] = NoName
                     => c = run \/ name[c] = Test]_vars

\* Some copy on disk is of the conversation n or of a newer one.
Held(n) == \E x \in {latest, previous} \cup kept : x >= n

\* Neither a run of the benchmark, wherever it is cut off, nor one after a
\* deployment that left the slot empty loses the newest conversation on disk:
\* it is under one of the kv manager's names or in deploy-backups.  (A run cut
\* off among its requests leaves theirs to the kv manager, and the next run
\* then rotates the conversation away as if it were old.)
ConversationKept ==
  [][latest # Bench =>
       \A n \in 1..MaxRequests + 1 : Held(n) => Held(n)']_vars

\* Unless a run was cut off at a point where nothing restores, a deployment
\* that reports "model ready" reports its own server.
ReportsNew == pc = "record" /\ ~mishap => status[run] = "ready"

\* The benchmark gives back what it took, whichever command fails: production
\* runs, the test server is gone, the kv manager is started.  What cannot be
\* given back is an interrupt between docker stop and PROD_STOPPED=1.
GivesBack ==
  pc = "over" /\ run > 0 /\ kind = "bench" /\ ~mishap =>
    /\ \A c \in Named(Prod) : Running(c)
    /\ Named(Prod) # {} /\ Named(Test) = {} /\ kv # "stopped"

\* The old container is restored when the health check of the new one fails
\* (docs/production-2026-08-29.zh-CN.md:75), and production when the benchmark
\* ends: with no server up, a production server becomes ready again.
ProductionBack == Ready = {} ~> mishap \/ Ready \ Named(Test) # {}
===============================================================================
