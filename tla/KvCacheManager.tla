--------------------------- MODULE KvCacheManager ---------------------------
(***************************************************************************)
(* scripts/kv-cache-manager.py: the daemon that saves the KV cache of      *)
(* llama-server's slot to disk after a quiet period and restores it when   *)
(* the server has restarted.                                               *)
(*                                                                         *)
(* Contents of the slot and of the files are numbered by the request that  *)
(* produced them.  The daemon dies and is restarted by systemd, the server *)
(* restarts, requests come between any two steps of the daemon, and an     *)
(* HTTP call can time out while the server goes on with it.  One step is   *)
(* one HTTP call, one answer or one change of the directory.  A poll is    *)
(* the unit of time.                                                       *)
(***************************************************************************)
EXTENDS Integers, Sequences

CONSTANTS
  MaxRequests,   \* bound: requests the server completes
  MaxFaults,     \* bound: deaths, restarts, timeouts, failed saves or restores
  Tokens,        \* the n_prompt_tokens /slots shows of each request's content
  Saved,         \* its n_saved, and n_restored: what its file holds
  Quiet,         \* QUIET_SECONDS, in polls
  SaveInterval,  \* MIN_SAVE_INTERVAL, in polls
  MinTokenDelta  \* MIN_TOKEN_DELTA

ASSUME KvAssumption ==
  /\ MaxRequests \in Nat /\ MaxFaults \in Nat /\ Quiet \in Nat
  /\ SaveInterval \in Nat /\ MinTokenDelta \in Nat
  /\ Tokens \in [1..MaxRequests -> Nat \ {0}]
  /\ Saved \in [1..MaxRequests -> Nat \ {0}]

VARIABLES
  pc,            \* what the daemon does next
  lastSaved,     \* last_saved_tokens
  dirty, idle,   \* dirty; polls since idle_since
  since,         \* polls since last_save_time, up to SaveInterval
  serverWasDown, \* server_was_down
  reply,         \* the answer to the save or restore the daemon waits for
  latest, previous, next, meta,  \* LATEST, PREVIOUS, NEXT, META
  up, slot, busy,   \* the server, its slot's content, is_processing
  jobs,          \* saves and restores the server has accepted, in order
  writing,       \* where the save being executed writes
  requests,      \* requests completed
  faults

daemon == <<pc, lastSaved, dirty, idle, since, serverWasDown>>
rotated == <<latest, previous, meta>>
server == <<up, slot, busy, requests>>
vars == <<daemon, reply, rotated, next, server, jobs, writing, faults>>

Missing == 0    \* no such file, an empty slot
Partial == -1   \* a file that holds nothing or part of a content
Unset == -1     \* idle_since is None
NoReply == -1
Error == 0      \* an HTTP error, a reset connection

TokensOf(content) == IF content > 0 THEN Tokens[content] ELSE 0
\* Mutant: "no checkpoint" counted as -1 tokens.
SavedOrMinusOne(content) == IF content > 0 THEN Saved[content] ELSE -1
SavedOf(content) == IF content > 0 THEN Saved[content] ELSE 0
Live == busy \/ TokensOf(slot) > 0
\* llama-server answers /slots between two tasks, never during a save.
Answers == up /\ writing = "no"
Awaiting == pc \in {"saving", "restoring"} /\ reply = NoReply
UpTo(n, bound) == IF n < bound THEN n ELSE bound

Fault == faults < MaxFaults /\ faults' = faults + 1

\* The server keeps writing to a file that lost its name.
Unlink == /\ next' = Missing
          /\ writing' = IF writing = "no" THEN "no" ELSE "unlinked"

-----------------------------------------------------------------------------
(* The daemon                                                              *)

Boot ==
  /\ pc = "boot" /\ pc' = "wait"
  /\ Unlink
  /\ UNCHANGED <<lastSaved, dirty, idle, since, serverWasDown, reply, rotated,
                 server, jobs, faults>>

\* restore_latest, up to its call: an empty slot is filled from LATEST, if it
\* is there; what is live stays.
Refill ==
  \/ /\ Live /\ lastSaved' = SavedOf(meta) /\ pc' = "poll" /\ UNCHANGED jobs
  \/ /\ ~Live /\ latest = Missing
     /\ lastSaved' = 0 /\ pc' = "poll" /\ UNCHANGED jobs
  \/ /\ ~Live /\ latest # Missing
     /\ pc' = "restoring" /\ jobs' = Append(jobs, "restore")
     /\ UNCHANGED lastSaved

Fresh == dirty' = FALSE /\ idle' = Unset /\ since' = 0

\* wait_ready ends with the first answer after a start of the daemon.
WaitReady ==
  /\ pc = "wait" /\ Answers
  /\ Refill /\ Fresh /\ serverWasDown' = FALSE
  /\ UNCHANGED <<reply, rotated, next, server, writing, faults>>

\* The first answer after an outage.
Resync ==
  /\ pc = "poll" /\ serverWasDown /\ Answers
  /\ Refill /\ Fresh /\ serverWasDown' = FALSE
  /\ UNCHANGED <<reply, rotated, next, server, writing, faults>>

\* Every failure of a restore, the 600 s timeout included, counts as none.
RestoreReturns ==
  /\ pc = "restoring" /\ pc' = "poll"
  /\ \/ reply # NoReply /\ lastSaved' = SavedOf(reply) /\ UNCHANGED faults
     \/ reply = NoReply /\ Fault /\ lastSaved' = 0
  /\ reply' = NoReply
  /\ UNCHANGED <<dirty, idle, since, serverWasDown, rotated, next, server,
                 jobs, writing>>

Tick == /\ since' = UpTo(since + 1, SaveInterval)
        /\ UNCHANGED <<lastSaved, serverWasDown, reply, rotated, next, server,
                       jobs, writing, faults>>

PollBusy ==
  /\ pc = "poll" /\ ~serverWasDown /\ Answers /\ busy
  /\ dirty' = TRUE /\ idle' = Unset
  /\ Tick /\ UNCHANGED pc

ShouldPersist ==
  LET delta == TokensOf(slot) - lastSaved IN
  \/ lastSaved = 0
  \/ delta >= MinTokenDelta \/ -delta >= MinTokenDelta
  \/ since >= SaveInterval

\* Mutant: only a request seen by a poll makes the slot dirty.
NeverDrifts == FALSE
Drifted == slot # Missing /\ TokensOf(slot) # lastSaved

PollIdle ==
  /\ pc = "poll" /\ ~serverWasDown /\ Answers /\ ~busy
  /\ idle' = UpTo(idle + 1, Quiet)
  /\ dirty' = (dirty \/ Drifted)
  /\ pc' = IF dirty' /\ slot # Missing /\ ShouldPersist /\ idle' >= Quiet
           THEN "unlink" ELSE "poll"
  /\ Tick

\* No server, one that is busy with a save, or an answer after 5 s.
PollFails ==
  /\ pc = "poll" /\ serverWasDown' = TRUE
  /\ \/ ~Answers /\ UNCHANGED faults
     \/ Fault
  /\ UNCHANGED <<pc, lastSaved, dirty, idle, since, reply, rotated, next,
                 server, jobs, writing>>

\* save_checkpoint: a fresh NEXT, owned by the daemon, for the server to fill.
UnlinkNext ==
  /\ pc = "unlink" /\ pc' = "touch"
  /\ Unlink
  /\ UNCHANGED <<lastSaved, dirty, idle, since, serverWasDown, reply, rotated,
                 server, jobs, faults>>

\* touch(exist_ok=False), then the save request.
RequestSave ==
  /\ pc = "touch"
  /\ \/ /\ next # Missing /\ Unlink /\ pc' = "poll"  \* FileExistsError
        /\ UNCHANGED <<jobs, serverWasDown>>
     \/ /\ next = Missing /\ next' = Partial /\ up /\ pc' = "saving"
        /\ jobs' = Append(jobs, "save") /\ UNCHANGED <<writing, serverWasDown>>
     \/ /\ next = Missing /\ next' = Partial /\ ~up /\ pc' = "poll"
        /\ serverWasDown' = TRUE /\ UNCHANGED <<writing, jobs>>
  /\ UNCHANGED <<lastSaved, dirty, idle, since, reply, rotated, server, faults>>

\* An HTTP error or a timeout counts as an outage of the server.
SaveRaises ==
  /\ pc = "saving" /\ pc' = "poll" /\ serverWasDown' = TRUE
  /\ \/ reply = Error /\ UNCHANGED faults
     \/ reply = NoReply /\ Fault
  /\ reply' = NoReply
  /\ UNCHANGED <<lastSaved, dirty, idle, since, rotated, next, server, jobs,
                 writing>>

\* Mutants: the old checkpoint is removed to make room for the new one; the
\* rotation does not wait for the server's answer; the old one is overwritten.
RemoveLatest ==
  /\ pc = "saving" /\ reply > 0 /\ pc' = "install" /\ latest' = Missing
  /\ UNCHANGED <<lastSaved, dirty, idle, since, serverWasDown, reply, meta,
                 previous, next, server, jobs, writing, faults>>
KeepPreviousEarly ==
  /\ pc = "saving" /\ reply # Error /\ pc' = "install"
  /\ previous' = latest /\ latest' = Missing
  /\ UNCHANGED <<lastSaved, dirty, idle, since, serverWasDown, reply, meta,
                 next, server, jobs, writing, faults>>
ReplaceLatest ==
  /\ pc = "saving" /\ reply > 0 /\ pc' = "install"
  /\ UNCHANGED <<lastSaved, dirty, idle, since, serverWasDown, reply, meta,
                 latest, previous, next, server, jobs, writing, faults>>
\* os.replace(LATEST, PREVIOUS)
KeepPrevious ==
  /\ pc = "saving" /\ reply > 0 /\ pc' = "install"
  /\ \/ latest = Missing /\ UNCHANGED <<latest, previous>>
     \/ latest # Missing /\ previous' = latest /\ latest' = Missing
  /\ UNCHANGED <<lastSaved, dirty, idle, since, serverWasDown, reply, meta,
                 next, server, jobs, writing, faults>>

\* os.replace(NEXT, LATEST)
InstallLatest ==
  /\ pc = "install" /\ pc' = "meta"
  /\ latest' = next /\ next' = Missing
  /\ UNCHANGED <<lastSaved, dirty, idle, since, serverWasDown, reply, previous,
                 meta, server, jobs, writing, faults>>

AtomicJson(content) == meta' = content

\* The metadata of the checkpoint, and back to the loop.
WriteMeta ==
  /\ pc = "meta" /\ pc' = "poll"
  /\ AtomicJson(reply) /\ lastSaved' = SavedOf(reply) /\ reply' = NoReply
  /\ Fresh
  /\ UNCHANGED <<serverWasDown, latest, previous, next, server, jobs, writing,
                 faults>>

\* Any other exception, such as a full disk: NEXT goes, whatever became of the
\* rotation, and the slot stays dirty.
CycleFails ==
  /\ pc \in {"unlink", "touch", "saving", "install", "meta"} /\ Fault
  /\ pc = "saving" => reply > 0
  /\ pc' = "poll" /\ reply' = NoReply
  /\ Unlink
  /\ UNCHANGED <<lastSaved, dirty, idle, since, serverWasDown, rotated, server,
                 jobs>>

\* Restart=always
DaemonDies ==
  /\ Fault
  /\ pc' = "boot" /\ reply' = NoReply
  /\ UNCHANGED <<lastSaved, dirty, idle, since, serverWasDown, rotated, next,
                 server, jobs, writing>>

-----------------------------------------------------------------------------
(* llama-server: one task at a time, saves and restores wait for the slot  *)

Starts(job) == jobs # <<>> /\ Head(jobs) = job /\ ~busy /\ writing = "no"
\* The job at the head ends; only the last one can have the daemon waiting.
Ends(answer) ==
  /\ jobs' = Tail(jobs)
  /\ reply' = IF Awaiting /\ Len(jobs) = 1 THEN answer ELSE reply

BeginSave ==
  /\ Starts("save")
  /\ next' = Partial /\ writing' = "next"
  /\ UNCHANGED <<daemon, reply, rotated, server, jobs, faults>>

FinishSave ==
  /\ writing # "no" /\ writing' = "no"
  /\ next' = IF writing = "next" THEN slot ELSE next
  /\ Ends(slot)
  /\ UNCHANGED <<daemon, rotated, server, faults>>

SaveFails ==
  /\ writing # "no" /\ writing' = "no" /\ Fault
  /\ Ends(Error)
  /\ UNCHANGED <<daemon, rotated, next, server>>

Restore ==
  /\ Starts("restore")
  /\ \/ slot' = latest /\ Ends(latest) /\ UNCHANGED faults
     \/ Fault /\ Ends(Error) /\ UNCHANGED slot
  /\ UNCHANGED <<daemon, rotated, next, up, busy, requests, writing>>

RequestStarts ==
  /\ Answers /\ ~busy /\ requests < MaxRequests
  /\ busy' = TRUE
  /\ UNCHANGED <<daemon, reply, rotated, next, up, slot, requests, jobs,
                 writing, faults>>

RequestEnds ==
  /\ busy /\ busy' = FALSE
  /\ requests' = requests + 1 /\ slot' = requests'
  /\ UNCHANGED <<daemon, reply, rotated, next, up, jobs, writing, faults>>

ServerStops ==
  /\ up /\ up' = FALSE /\ Fault
  /\ slot' = Missing /\ busy' = FALSE /\ jobs' = <<>> /\ writing' = "no"
  /\ reply' = IF Awaiting THEN Error ELSE reply
  /\ UNCHANGED <<daemon, rotated, next, requests>>

\* Loading the model takes minutes: not over within the two file operations
\* that separate a poll from the save it decides on.
ServerStarts ==
  /\ ~up /\ up' = TRUE /\ pc \notin {"unlink", "touch"}
  /\ UNCHANGED <<daemon, reply, rotated, next, slot, busy, requests, jobs, writing, faults>>

-----------------------------------------------------------------------------
Init ==
  /\ pc = "boot" /\ lastSaved = 0 /\ dirty = FALSE /\ idle = Unset
  /\ since = 0 /\ serverWasDown = FALSE /\ reply = NoReply
  /\ latest = Missing /\ previous = Missing /\ next = Missing
  /\ meta = Missing
  /\ up = TRUE /\ slot = Missing /\ busy = FALSE /\ jobs = <<>>
  /\ writing = "no" /\ requests = 0 /\ faults = 0

Daemon == \/ Boot \/ WaitReady \/ Resync \/ RestoreReturns
          \/ PollBusy \/ PollIdle \/ PollFails \/ UnlinkNext \/ RequestSave
          \/ SaveRaises \/ KeepPrevious \/ InstallLatest \/ WriteMeta
          \/ CycleFails
Server == \/ BeginSave \/ FinishSave \/ SaveFails \/ Restore \/ RequestEnds
          \/ ServerStarts
Environment == DaemonDies \/ RequestStarts \/ ServerStops

Next == Daemon \/ Server \/ Environment

Spec == Init /\ [][Next]_vars

\* The daemon loops for ever; the server ends what it started and systemd and
\* Docker restart what died.
Fairness == WF_vars(Daemon) /\ WF_vars(Server)

FairSpec == Spec /\ Fairness

-----------------------------------------------------------------------------
(* Properties                                                              *)

Files == Partial..MaxRequests

TypeOK ==
  /\ pc \in {"boot", "wait", "restoring", "poll", "unlink", "touch", "saving",
             "install", "meta"}
  /\ lastSaved \in Nat /\ dirty \in BOOLEAN /\ serverWasDown \in BOOLEAN
  /\ idle \in Unset..Quiet /\ since \in 0..SaveInterval
  /\ reply \in NoReply..MaxRequests
  /\ latest \in Files /\ previous \in Files /\ next \in Files /\ meta \in Files
  /\ up \in BOOLEAN /\ slot \in 0..MaxRequests /\ busy \in BOOLEAN
  /\ jobs \in Seq({"save", "restore"})
  /\ writing \in {"no", "next", "unlinked"}
  /\ requests \in 0..MaxRequests /\ faults \in 0..MaxFaults

\* What a reader of the directory finds under the two checkpoint names is
\* whole, at every instant, even while a save that the daemon gave up or an
\* earlier daemon asked for is still being written.
CheckpointsComplete == latest # Partial /\ previous # Partial

Newest == IF latest # Missing THEN latest ELSE previous

\* The newest checkpoint on disk is only ever replaced by one at least as
\* recent: no death, restart, timeout or failed save loses it.
NewestKept == [][Newest' >= Newest]_vars

\* What a reader of the directory sees of the rotation is what module
\* Checkpoints promises: only whole checkpoints of conversations that have been,
\* each at least as recent as the one it replaces, and that one kept behind it.
Directory == INSTANCE Checkpoints WITH
  made <- requests, newest <- Newest,
  older <- IF latest # Missing THEN previous ELSE Missing
StoreSpec == Directory!Spec

\* Once requests stop, what the slot holds gets saved, unless no poll saw the
\* request that left it (or an outage made the daemon forget it) and it shows
\* exactly as many tokens as the daemon last saved or restored.
Checkpointed ==
  <>[](slot \in {Missing, Newest} \/ (~dirty /\ TokensOf(slot) = lastSaved))

\* "A request can finish between two polls.  Token-count drift is a second dirty
\* signal, so short calls are checkpointed too" (kv-cache-manager.py:150-151):
\* without the exception.
ShortCallsCheckpointed == <>[](slot \in {Missing, Newest})

\* "restores the latest complete checkpoint after a server restart"
\* (kv-cache-manager.py:5-6).
RestoresNewest ==
  [][(WaitReady \/ Resync) /\ ~Live /\ Newest # Missing => pc' = "restoring"]_vars
=============================================================================
