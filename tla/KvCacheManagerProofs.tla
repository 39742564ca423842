------------------------ MODULE KvCacheManagerProofs ------------------------
(***************************************************************************)
(* Theorems about KvCacheManager, for every number of requests and faults, *)
(* every token count and every setting of the daemon.                      *)
(***************************************************************************)
EXTENDS KvCacheManager, SequenceTheorems, TLAPS

\* What the server owes: a save saves something, a restore finds LATEST, and
\* the call the daemon waits for is the last one accepted.
JobsInv ==
  /\ writing # "no" => jobs # <<>> /\ jobs[1] = "save"
  /\ \A i \in 1..Len(jobs) : jobs[i] = "save" => slot > 0
  /\ \A i \in 1..Len(jobs) : jobs[i] = "restore" => latest > 0
  /\ Awaiting => /\ jobs # <<>>
                 /\ jobs[Len(jobs)] =
                      IF pc = "saving" THEN "save" ELSE "restore"
  /\ pc \in {"unlink", "touch"} /\ up => slot > 0

\* The file under the name NEXT is the daemon's own save once it is answered.
NextInv ==
  /\ reply = NoReply \/ pc \in {"restoring", "saving", "install", "meta"}
  /\ pc = "saving" /\ reply = NoReply /\ Len(jobs) = 1 /\ writing # "no"
       => writing = "next"
  /\ pc = "saving" /\ reply > 0
       => /\ jobs = <<>> /\ writing = "no"
          /\ next > 0 /\ next <= requests /\ next >= Newest
          /\ slot > 0 => slot >= next
  /\ pc = "install"
       => /\ jobs = <<>> /\ writing = "no" /\ reply > 0
          /\ next > 0 /\ next <= requests
          /\ latest = Missing /\ next >= previous
          /\ slot > 0 => slot >= next

\* Contents only get more recent.
RecencyInv ==
  /\ CheckpointsComplete
  /\ busy => requests < MaxRequests
  /\ slot <= requests /\ Newest <= requests
  /\ slot > 0 => slot >= Newest

KvInv == TypeOK /\ JobsInv /\ NextInv /\ RecencyInv
-----------------------------------------------------------------------------
(* The queue of the server                                                 *)

JobNames == {"save", "restore"}

\* A job that is accepted goes last and leaves the others in their places.
LEMMA AcceptedLast ==
  ASSUME NEW queue \in Seq(JobNames), NEW job \in JobNames
  PROVE  /\ Append(queue, job) \in Seq(JobNames)
         /\ Append(queue, job) # <<>>
         /\ Len(Append(queue, job)) = Len(queue) + 1
         /\ \A i \in 1..Len(queue) : Append(queue, job)[i] = queue[i]
         /\ Append(queue, job)[Len(queue) + 1] = job
  BY AppendProperties

\* A job that ends leaves the front; the last one stays last.
LEMMA EndedFirst ==
  ASSUME NEW queue \in Seq(JobNames), queue # <<>>
  PROVE  /\ Tail(queue) \in Seq(JobNames)
         /\ Len(Tail(queue)) = Len(queue) - 1
         /\ \A i \in 1..Len(Tail(queue)) : Tail(queue)[i] = queue[i + 1]
         /\ Head(queue) = queue[1]
  BY HeadTailProperties

\* The daemon's call joins the queue.
LEMMA QueueGrows ==
  ASSUME KvInv, NEW job \in JobNames, jobs' = Append(jobs, job)
  PROVE  /\ jobs' \in Seq(JobNames) /\ jobs' # <<>>
         /\ Len(jobs) \in Nat /\ Len(jobs') = Len(jobs) + 1
         /\ \A i \in 1..Len(jobs') :
              jobs'[i] = job \/ (i \in 1..Len(jobs) /\ jobs'[i] = jobs[i])
         /\ jobs'[1] = IF jobs = <<>> THEN job ELSE jobs[1]
         /\ jobs'[Len(jobs')] = job
         /\ Len(jobs') = 1 => jobs = <<>>
<1>1. jobs \in Seq(JobNames) /\ Len(jobs) \in Nat
  BY DEF KvInv, TypeOK, JobNames
<1>2. /\ jobs' \in Seq(JobNames) /\ jobs' # <<>>
      /\ Len(jobs') = Len(jobs) + 1
      /\ \A i \in 1..Len(jobs) : jobs'[i] = jobs[i]
      /\ jobs'[Len(jobs) + 1] = job
  BY <1>1, AcceptedLast
<1>3. jobs # <<>> => Len(jobs) >= 1
  BY <1>1, EmptySeq
<1>a. Len(jobs') = 1 => jobs = <<>>
  BY <1>1, <1>2, <1>3
<1>4. Len(<<>>) = 0
  BY EmptySeq
<1>5. \A i \in 1..Len(jobs') : i \in 1..Len(jobs) \/ i = Len(jobs) + 1
  BY <1>1, <1>2
<1>6. QED BY <1>1, <1>2, <1>3, <1>4, <1>5, <1>a

\* A job leaves the queue.
LEMMA QueueShrinks ==
  ASSUME KvInv, jobs # <<>>, jobs' = Tail(jobs)
  PROVE  /\ jobs' \in Seq(JobNames)
         /\ Len(jobs) \in Nat \ {0} /\ Len(jobs') = Len(jobs) - 1
         /\ \A i \in 1..Len(jobs') : jobs'[i] = jobs[i + 1]
         /\ Head(jobs) = jobs[1]
         /\ Len(jobs) = 1 <=> jobs' = <<>>
         /\ Len(jobs) > 1 => jobs'[Len(jobs')] = jobs[Len(jobs)]
<1>1. jobs \in Seq(JobNames)
  BY DEF KvInv, TypeOK, JobNames
<1>2. /\ jobs' \in Seq(JobNames) /\ Len(jobs') = Len(jobs) - 1
      /\ \A i \in 1..Len(jobs') : jobs'[i] = jobs[i + 1]
      /\ Head(jobs) = jobs[1]
  BY <1>1, EndedFirst
<1>3. Len(jobs) \in Nat \ {0}
  BY <1>1, EmptySeq
<1>4. Len(jobs) = 1 <=> jobs' = <<>>
  BY <1>2, <1>3, EmptySeq
<1>5. QED BY <1>2, <1>3, <1>4

\* Every step leaves the server's queue in order.
LEMMA JobsStep == KvInv /\ [Next]_vars => JobsInv'
<1> SUFFICES ASSUME KvInv, [Next]_vars PROVE JobsInv'
  OBVIOUS
<1> USE DEF NextInv, KvInv, TypeOK, JobsInv, Awaiting, Answers,
    daemon, rotated, server, NoReply, Error, Missing, JobNames
<1>1. CASE Boot
  BY <1>1 DEF Boot, Unlink
<1>2. CASE WaitReady \/ Resync
  <2>1. CASE jobs' = Append(jobs, "restore")
    <3>1. latest' > 0 /\ UNCHANGED <<slot, up, writing>> /\ pc' = "restoring"
      BY <1>2, <2>1, QueueGrows
         DEF WaitReady, Resync, Refill, Files, Partial, RecencyInv,
             CheckpointsComplete
    <3> HIDE DEF KvInv
    <3>2. /\ jobs' # <<>> /\ jobs'[Len(jobs')] = "restore"
          /\ \A i \in 1..Len(jobs') :
               \/ jobs'[i] = "restore"
               \/ i \in 1..Len(jobs) /\ jobs'[i] = jobs[i]
          /\ jobs # <<>> => jobs'[1] = jobs[1]
      BY <2>1, QueueGrows DEF JobNames
    <3>3. JobsInv
      BY DEF KvInv
    <3>4. QED BY <1>2, <3>1, <3>2, <3>3 DEF WaitReady, Resync, Refill, Fresh
  <2>2. CASE UNCHANGED jobs /\ pc' = "poll"
    BY <1>2, <2>2 DEF WaitReady, Resync, Refill, Fresh
  <2>3. QED BY <1>2, <2>1, <2>2 DEF WaitReady, Resync, Refill, Fresh
<1>3. CASE RestoreReturns
  BY <1>3 DEF RestoreReturns, Fault
<1>4. CASE PollBusy
  BY <1>4 DEF PollBusy, Tick
<1>5. CASE PollIdle
  BY <1>5 DEF PollIdle, Tick
<1>6. CASE PollFails
  BY <1>6 DEF PollFails, Fault
<1>7. CASE UnlinkNext
  BY <1>7 DEF UnlinkNext, Unlink
<1>8. CASE RequestSave
  <2>1. CASE jobs' = Append(jobs, "save") /\ up
    <3>1. slot > 0 /\ UNCHANGED <<slot, latest, writing>>
      BY <1>8, <2>1 DEF RequestSave, Unlink
    <3>a. pc' = "saving"
      BY <1>8, <2>1, QueueGrows DEF RequestSave, Unlink
    <3> HIDE DEF KvInv
    <3>2. /\ jobs' # <<>> /\ jobs'[Len(jobs')] = "save"
          /\ \A i \in 1..Len(jobs') :
               jobs'[i] = "save" \/ (i \in 1..Len(jobs) /\ jobs'[i] = jobs[i])
          /\ jobs # <<>> => jobs'[1] = jobs[1]
      BY <2>1, QueueGrows DEF JobNames
    <3>3. JobsInv
      BY DEF KvInv
    <3>4. QED BY <1>8, <3>1, <3>a, <3>2, <3>3 DEF RequestSave
  <2>2. CASE UNCHANGED jobs
    BY <1>8, <2>2 DEF RequestSave, Unlink
  <2>3. QED BY <1>8, <2>1, <2>2 DEF RequestSave
<1>9. CASE SaveRaises
  BY <1>9 DEF SaveRaises, Fault
<1>10. CASE KeepPrevious
  BY <1>10 DEF KeepPrevious
<1>11. CASE InstallLatest
  BY <1>11 DEF InstallLatest
<1>12. CASE WriteMeta
  BY <1>12 DEF WriteMeta, Fresh, AtomicJson
<1>13. CASE BeginSave
  BY <1>13 DEF BeginSave, Starts
<1>14. CASE FinishSave
  <2>1. jobs # <<>> /\ jobs' = Tail(jobs)
    BY <1>14 DEF FinishSave, Ends, Starts
  <2> HIDE DEF KvInv
  <2>2. /\ \A i \in 1..Len(jobs') :
             i + 1 \in 1..Len(jobs) /\ jobs'[i] = jobs[i + 1]
        /\ Len(jobs) = 1 <=> jobs' = <<>>
        /\ Len(jobs) > 1 => jobs'[Len(jobs')] = jobs[Len(jobs)]
        /\ Len(jobs) \in Nat \ {0}
    BY <2>1, QueueShrinks
  <2>3. JobsInv /\ RecencyInv /\ slot # NoReply /\ latest # NoReply
    BY DEF KvInv, RecencyInv, CheckpointsComplete, Partial
  <2>4. /\ writing' = "no" /\ UNCHANGED <<pc, latest, up>>
        /\ slot > 0 => slot' > 0
    BY <1>14, <2>1, <2>2, <2>3 DEF FinishSave, Ends, Starts
  <2>5. Awaiting' => Awaiting /\ Len(jobs) > 1
    BY <1>14, <2>2, <2>3 DEF FinishSave, Ends
  <2>6. QED BY <2>2, <2>3, <2>4, <2>5
<1>15. CASE SaveFails
  <2>1. jobs # <<>> /\ jobs' = Tail(jobs)
    BY <1>15 DEF SaveFails, Fault, Ends, Starts
  <2> HIDE DEF KvInv
  <2>2. /\ \A i \in 1..Len(jobs') :
             i + 1 \in 1..Len(jobs) /\ jobs'[i] = jobs[i + 1]
        /\ Len(jobs) = 1 <=> jobs' = <<>>
        /\ Len(jobs) > 1 => jobs'[Len(jobs')] = jobs[Len(jobs)]
        /\ Len(jobs) \in Nat \ {0}
    BY <2>1, QueueShrinks
  <2>3. JobsInv /\ RecencyInv /\ slot # NoReply /\ latest # NoReply
    BY DEF KvInv, RecencyInv, CheckpointsComplete, Partial
  <2>4. /\ writing' = "no" /\ UNCHANGED <<pc, latest, up>>
        /\ slot > 0 => slot' > 0
    BY <1>15, <2>1, <2>2, <2>3 DEF SaveFails, Fault, Ends, Starts
  <2>5. Awaiting' => Awaiting /\ Len(jobs) > 1
    BY <1>15, <2>2 DEF SaveFails, Fault, Ends
  <2>6. QED BY <2>2, <2>3, <2>4, <2>5
<1>16. CASE Restore
  <2>1. jobs # <<>> /\ jobs' = Tail(jobs)
    BY <1>16 DEF Restore, Fault, Ends, Starts
  <2> HIDE DEF KvInv
  <2>2. /\ \A i \in 1..Len(jobs') :
             i + 1 \in 1..Len(jobs) /\ jobs'[i] = jobs[i + 1]
        /\ Len(jobs) = 1 <=> jobs' = <<>>
        /\ Len(jobs) > 1 => jobs'[Len(jobs')] = jobs[Len(jobs)]
        /\ Len(jobs) \in Nat \ {0}
    BY <2>1, QueueShrinks
  <2>3. JobsInv /\ RecencyInv /\ slot # NoReply /\ latest # NoReply
    BY DEF KvInv, RecencyInv, CheckpointsComplete, Partial
  <2>4. /\ writing' = "no" /\ UNCHANGED <<pc, latest, up>>
        /\ slot > 0 => slot' > 0
    BY <1>16, <2>1, <2>2, <2>3 DEF Restore, Fault, Ends, Starts
  <2>5. Awaiting' => Awaiting /\ Len(jobs) > 1
    BY <1>16, <2>2, <2>3 DEF Restore, Fault, Ends
  <2>6. QED BY <2>2, <2>3, <2>4, <2>5
<1>17. CASE RequestEnds
  BY <1>17 DEF RequestEnds
<1>18. CASE ServerStarts
  BY <1>18 DEF ServerStarts
<1>19. CASE DaemonDies
  BY <1>19 DEF DaemonDies, Fault
<1>20. CASE RequestStarts
  BY <1>20 DEF RequestStarts
<1>21. CASE ServerStops
  BY <1>21 DEF ServerStops, Fault
<1>22. CASE CycleFails
  BY <1>22 DEF CycleFails, Fault, Unlink
<1>23. CASE UNCHANGED vars
  BY <1>23 DEF vars
<1>24. QED
  BY <1>1, <1>2, <1>3, <1>4, <1>5, <1>6, <1>7, <1>8, <1>9, <1>10, <1>11,
     <1>12, <1>13, <1>14, <1>15, <1>16, <1>17, <1>18, <1>19, <1>20, <1>21,
     <1>22, <1>23 DEF Next, Daemon, Server, Environment

\* Every step leaves NEXT to one writer.
LEMMA NextStep == KvInv /\ [Next]_vars => NextInv'
<1> SUFFICES ASSUME KvInv, [Next]_vars PROVE NextInv'
  OBVIOUS
<1> USE DEF KvInv, TypeOK, JobsInv, NextInv, RecencyInv,
    Awaiting, Answers, daemon, rotated, server, NoReply, Error, Missing,
    Newest, JobNames
<1>1. CASE Boot
  BY <1>1 DEF Boot, Unlink
<1>2. CASE WaitReady \/ Resync
  BY <1>2 DEF WaitReady, Resync, Refill, Fresh
<1>3. CASE RestoreReturns
  BY <1>3 DEF RestoreReturns, Fault
<1>4. CASE PollBusy
  BY <1>4 DEF PollBusy, Tick
<1>5. CASE PollIdle
  BY <1>5 DEF PollIdle, Tick
<1>6. CASE PollFails
  BY <1>6 DEF PollFails, Fault
<1>7. CASE UnlinkNext
  BY <1>7 DEF UnlinkNext, Unlink
<1>8. CASE RequestSave
  <2>1. CASE jobs' = Append(jobs, "save") /\ pc' = "saving"
    <3>2. Len(jobs') = 1 => jobs = <<>>
      BY <2>1, QueueGrows
    <3>3. writing # "no" => jobs # <<>>
      OBVIOUS
    <3>4. reply' = NoReply /\ UNCHANGED writing
      BY <1>8, <2>1 DEF RequestSave, Unlink
    <3>5. QED BY <2>1, <3>2, <3>3, <3>4
  <2>2. CASE UNCHANGED jobs /\ pc' = "poll" /\ reply' = NoReply
    BY <1>8, <2>2
  <2>3. QED BY <1>8, <2>1, <2>2 DEF RequestSave
<1>9. CASE SaveRaises
  BY <1>9 DEF SaveRaises, Fault
<1>10. CASE KeepPrevious
  BY <1>10 DEF KeepPrevious
<1>11. CASE InstallLatest
  BY <1>11 DEF InstallLatest
<1>12. CASE WriteMeta
  BY <1>12 DEF WriteMeta, Fresh, AtomicJson
<1>13. CASE BeginSave
  BY <1>13 DEF BeginSave, Starts
<1>14. CASE FinishSave
  BY <1>14 DEF FinishSave, Ends
<1>15. CASE SaveFails
  BY <1>15 DEF SaveFails, Ends, Fault
<1>16. CASE Restore
  BY <1>16 DEF Restore, Starts, Ends, Fault
<1>17. CASE RequestEnds
  <2>1. requests' = requests + 1 /\ slot' = requests + 1
    BY <1>17 DEF RequestEnds
  <2>2. UNCHANGED <<pc, reply, latest, previous, next, jobs, writing>>
    BY <1>17 DEF RequestEnds
  <2>3. /\ requests \in Nat /\ next \in Int
        /\ next <= requests => next <= requests' /\ slot' >= next
    BY <2>1, KvAssumption DEF Files, Partial
  <2>4. UNCHANGED Newest
    BY <2>2
  <2>5. (pc = "saving" /\ reply > 0
           => /\ jobs = <<>> /\ writing = "no"
              /\ next > 0 /\ next <= requests /\ next >= Newest
              /\ slot > 0 => slot >= next)'
    BY <2>2, <2>3
  <2>6. (pc = "install"
           => /\ jobs = <<>> /\ writing = "no" /\ reply > 0
              /\ next > 0 /\ next <= requests
              /\ latest = Missing /\ next >= previous
              /\ slot > 0 => slot >= next)'
    BY <2>2, <2>3
  <2>7. QED BY <2>2, <2>5, <2>6
<1>18. CASE ServerStarts
  BY <1>18 DEF ServerStarts
<1>19. CASE DaemonDies
  BY <1>19 DEF DaemonDies, Fault
<1>20. CASE RequestStarts
  BY <1>20 DEF RequestStarts
<1>21. CASE ServerStops
  BY <1>21 DEF ServerStops, Fault
<1>22. CASE CycleFails
  BY <1>22 DEF CycleFails, Fault, Unlink
<1>23. CASE UNCHANGED vars
  BY <1>23 DEF vars
<1>24. QED
  BY <1>1, <1>2, <1>3, <1>4, <1>5, <1>6, <1>7, <1>8, <1>9, <1>10, <1>11,
     <1>12, <1>13, <1>14, <1>15, <1>16, <1>17, <1>18, <1>19, <1>20, <1>21,
     <1>22, <1>23 DEF Next, Daemon, Server, Environment

\* Every step keeps the newest checkpoint or replaces it by a newer one.
LEMMA RecencyStep == KvInv /\ [Next]_vars => RecencyInv' /\ Newest' >= Newest
<1> SUFFICES ASSUME KvInv, [Next]_vars PROVE RecencyInv' /\ Newest' >= Newest
  OBVIOUS
<1> USE DEF KvInv, TypeOK, JobsInv, NextInv, RecencyInv,
    CheckpointsComplete, Files, Awaiting, Answers, daemon, rotated, server,
    NoReply, Error, Missing, Partial, Newest, JobNames
<1>1. CASE Boot
  BY <1>1 DEF Boot, Unlink
<1>2. CASE WaitReady \/ Resync
  BY <1>2 DEF WaitReady, Resync, Refill, Fresh
<1>3. CASE RestoreReturns
  BY <1>3 DEF RestoreReturns, Fault
<1>4. CASE PollBusy
  BY <1>4 DEF PollBusy, Tick
<1>5. CASE PollIdle
  BY <1>5 DEF PollIdle, Tick
<1>6. CASE PollFails
  BY <1>6 DEF PollFails, Fault
<1>7. CASE UnlinkNext
  BY <1>7 DEF UnlinkNext, Unlink
<1>8. CASE RequestSave
  BY <1>8 DEF RequestSave, Unlink
<1>9. CASE SaveRaises
  BY <1>9 DEF SaveRaises, Fault
<1>10. CASE KeepPrevious
  BY <1>10 DEF KeepPrevious
<1>11. CASE InstallLatest
  BY <1>11 DEF InstallLatest
<1>12. CASE WriteMeta
  BY <1>12 DEF WriteMeta, Fresh, AtomicJson
<1>13. CASE BeginSave
  BY <1>13 DEF BeginSave, Starts
<1>14. CASE FinishSave
  BY <1>14 DEF FinishSave, Ends
<1>15. CASE SaveFails
  BY <1>15 DEF SaveFails, Ends, Fault
<1>16. CASE Restore
  BY <1>16 DEF Restore, Starts, Ends, Fault
<1>17. CASE RequestEnds
  BY <1>17 DEF RequestEnds
<1>18. CASE ServerStarts
  BY <1>18 DEF ServerStarts
<1>19. CASE DaemonDies
  BY <1>19 DEF DaemonDies, Fault
<1>20. CASE RequestStarts
  BY <1>20 DEF RequestStarts
<1>21. CASE ServerStops
  BY <1>21 DEF ServerStops, Fault
<1>22. CASE CycleFails
  BY <1>22 DEF CycleFails, Fault, Unlink
<1>23. CASE UNCHANGED vars
  BY <1>23 DEF vars
<1>24. QED
  BY <1>1, <1>2, <1>3, <1>4, <1>5, <1>6, <1>7, <1>8, <1>9, <1>10, <1>11,
     <1>12, <1>13, <1>14, <1>15, <1>16, <1>17, <1>18, <1>19, <1>20, <1>21,
     <1>22, <1>23 DEF Next, Daemon, Server, Environment

\* A token count is a number, zero for what is missing or incomplete.
LEMMA CountNat ==
  ASSUME NEW content \in Files
  PROVE  SavedOf(content) \in Nat
BY KvAssumption DEF Files, Partial, SavedOf

\* Every step keeps the variables in their sets.
LEMMA TypeStep == KvInv /\ [Next]_vars => TypeOK'
<1> SUFFICES ASSUME KvInv, [Next]_vars PROVE TypeOK'
  OBVIOUS
<1>a. /\ MaxRequests \in Nat /\ MaxFaults \in Nat /\ Quiet \in Nat
      /\ SaveInterval \in Nat
  BY KvAssumption
<1> USE <1>a DEF KvInv, TypeOK, JobsInv, NextInv,
    RecencyInv, Files, Awaiting, Answers, daemon, rotated, server, NoReply,
    Error, Missing, Partial, Unset, JobNames
<1>1. CASE Boot
  BY <1>1 DEF Boot, Unlink
<1>2. CASE WaitReady \/ Resync
  <2>a. /\ Refill /\ Fresh /\ serverWasDown' = FALSE
        /\ UNCHANGED <<reply, rotated, next, server, writing, faults>>
    BY <1>2 DEF WaitReady, Resync
  <2>b. SavedOf(meta) \in Nat
    BY CountNat
  <2>1. lastSaved' \in Nat
    BY <2>a, <2>b DEF Refill
  <2>c. jobs' = jobs \/ jobs' = Append(jobs, "restore")
    BY <2>a DEF Refill
  <2>2. jobs' \in Seq({"save", "restore"})
    BY <2>c, QueueGrows
  <2>3. idle' \in Unset..Quiet /\ since' \in 0..SaveInterval
    BY <2>a DEF Fresh
  <2>4. pc' \in {"poll", "restoring"} /\ dirty' \in BOOLEAN
    BY <2>a DEF Refill, Fresh
  <2>5. QED BY <2>a, <2>1, <2>2, <2>3, <2>4
<1>3. CASE RestoreReturns
  <2>1. reply # NoReply => SavedOf(reply) \in Nat
    BY CountNat
  <2>2. QED BY <1>3, <2>1 DEF RestoreReturns, Fault
<1>4. CASE PollBusy
  BY <1>4 DEF PollBusy, Tick, UpTo
<1>5. CASE PollIdle
  BY <1>5 DEF PollIdle, Tick, UpTo
<1>6. CASE PollFails
  BY <1>6 DEF PollFails, Fault
<1>7. CASE UnlinkNext
  BY <1>7 DEF UnlinkNext, Unlink
<1>8. CASE RequestSave
  <2>1. jobs' \in Seq({"save", "restore"})
    BY <1>8, QueueGrows DEF RequestSave
  <2>2. next' \in Files /\ writing' \in {"no", "next", "unlinked"}
    BY <1>8 DEF RequestSave, Unlink
  <2>3. QED BY <1>8, <2>1, <2>2 DEF RequestSave
<1>9. CASE SaveRaises
  BY <1>9 DEF SaveRaises, Fault
<1>10. CASE KeepPrevious
  BY <1>10 DEF KeepPrevious
<1>11. CASE InstallLatest
  BY <1>11 DEF InstallLatest
<1>12. CASE WriteMeta
  <2>1. lastSaved' \in Nat /\ meta' \in Files
    BY <1>12, CountNat DEF WriteMeta, Fresh, AtomicJson
  <2>2. reply' \in NoReply..MaxRequests
    BY <1>12 DEF WriteMeta, Fresh, AtomicJson
  <2>3. idle' \in Unset..Quiet /\ since' \in 0..SaveInterval
    BY <1>12 DEF WriteMeta, Fresh, AtomicJson
  <2>4. pc' \in {"poll", "restoring"} /\ dirty' \in BOOLEAN
    BY <1>12 DEF WriteMeta, Fresh, AtomicJson
  <2>5. QED BY <1>12, <2>1, <2>2, <2>3, <2>4 DEF WriteMeta, Fresh, AtomicJson
<1>13. CASE BeginSave
  BY <1>13 DEF BeginSave, Starts
<1>14. CASE FinishSave
  BY <1>14 DEF FinishSave, Ends
<1>15. CASE SaveFails
  BY <1>15 DEF SaveFails, Ends, Fault
<1>16. CASE Restore
  <2>1. jobs' \in Seq({"save", "restore"})
    BY <1>16, QueueShrinks DEF Restore, Starts, Ends
  <2>2. slot' \in 0..MaxRequests
    <3>1. latest >= 0 /\ latest <= MaxRequests
      BY DEF CheckpointsComplete
    <3>2. QED BY <1>16, <3>1 DEF Restore
  <2>3. reply' \in NoReply..MaxRequests
    BY <1>16 DEF Restore, Ends
  <2>4. faults' \in 0..MaxFaults
    BY <1>16 DEF Restore, Fault
  <2>5. QED BY <1>16, <2>1, <2>2, <2>3, <2>4 DEF Restore
<1>17. CASE RequestEnds
  <2>1. requests' \in 0..MaxRequests /\ slot' \in 0..MaxRequests
    BY <1>17 DEF RequestEnds
  <2>2. QED BY <1>17, <2>1 DEF RequestEnds
<1>18. CASE ServerStarts
  BY <1>18 DEF ServerStarts
<1>19. CASE DaemonDies
  BY <1>19 DEF DaemonDies, Fault
<1>20. CASE RequestStarts
  BY <1>20 DEF RequestStarts
<1>21. CASE ServerStops
  <2>1. jobs' \in Seq({"save", "restore"})
    BY <1>21, EmptySeq DEF ServerStops
  <2>2. reply' \in NoReply..MaxRequests /\ slot' \in 0..MaxRequests
    BY <1>21 DEF ServerStops
  <2>3. faults' \in 0..MaxFaults
    BY <1>21 DEF ServerStops, Fault
  <2>4. QED BY <1>21, <2>1, <2>2, <2>3 DEF ServerStops
<1>22. CASE CycleFails
  BY <1>22 DEF CycleFails, Fault, Unlink
<1>23. CASE UNCHANGED vars
  BY <1>23 DEF vars
<1>24. QED
  BY <1>1, <1>2, <1>3, <1>4, <1>5, <1>6, <1>7, <1>8, <1>9, <1>10, <1>11,
     <1>12, <1>13, <1>14, <1>15, <1>16, <1>17, <1>18, <1>19, <1>20, <1>21,
     <1>22, <1>23 DEF Next, Daemon, Server, Environment

\* The invariant holds in every reachable state, and every step makes the
\* newest checkpoint the same or a newer one.
LEMMA KvInvariant == Spec => []KvInv
<1>1. Init => KvInv
  <2> SUFFICES ASSUME Init PROVE KvInv
    OBVIOUS
  <2> USE KvAssumption DEF Init, NoReply, Missing, Partial, Unset, Files
  <2>1. jobs \in Seq({"save", "restore"}) /\ Len(jobs) = 0
    BY EmptySeq
  <2>2. TypeOK
    <3>1. idle \in Unset..Quiet /\ since \in 0..SaveInterval
      OBVIOUS
    <3>2. /\ reply \in NoReply..MaxRequests /\ slot \in 0..MaxRequests
          /\ requests \in 0..MaxRequests /\ faults \in 0..MaxFaults
      OBVIOUS
    <3>3. /\ latest \in Files /\ previous \in Files
          /\ next \in Files /\ meta \in Files
      OBVIOUS
    <3>4. QED BY <2>1, <3>1, <3>2, <3>3 DEF TypeOK
  <2>3. JobsInv
    BY <2>1 DEF JobsInv, Awaiting
  <2>4. NextInv
    BY DEF NextInv
  <2>5. RecencyInv
    BY DEF RecencyInv, CheckpointsComplete, Newest
  <2>6. QED BY <2>2, <2>3, <2>4, <2>5 DEF KvInv
<1>2. KvInv /\ [Next]_vars => KvInv'
  BY JobsStep, NextStep, RecencyStep, TypeStep DEF KvInv
<1>3. QED BY <1>1, <1>2, PTL DEF Spec

\* The daemon's variables, the files, the slot and the server's queue hold
\* only what kv-cache-manager.py can put there.
THEOREM KvTypeCorrect == Spec => []TypeOK
<1>1. KvInv => TypeOK
  BY DEF KvInv
<1>2. QED BY <1>1, KvInvariant, PTL

\* LATEST and PREVIOUS are whole files at every instant, whoever died, gave up
\* or was restarted while a checkpoint was being written.
THEOREM CheckpointsAlwaysComplete == Spec => []CheckpointsComplete
<1>1. KvInv => CheckpointsComplete
  BY DEF KvInv, RecencyInv
<1>2. QED BY <1>1, KvInvariant, PTL

\* The newest checkpoint on disk is never lost nor replaced by an older one.
THEOREM NewestNeverLost == Spec => NewestKept
<1>1. KvInv /\ [Next]_vars => Newest' >= Newest
  BY RecencyStep
<1>2. QED BY <1>1, KvInvariant, PTL DEF Spec, NewestKept

-----------------------------------------------------------------------------
(* What the daemon knows of the slot is a token count.  Checkpointed needs *)
(* fairness and is left to TLC; what the count can hide is proved.         *)

\* What the daemon last heard of, saved or read from META has been on disk.
SavedInv ==
  /\ meta >= 0 /\ meta <= Newest
  /\ pc = "restoring" => reply <= Newest
  /\ pc \in {"saving", "install"} /\ reply > 0 => next = reply
  /\ pc = "meta" => reply > 0 /\ reply <= Newest
  /\ \E c \in 0..Newest : lastSaved = SavedOf(c)

\* What the daemon would overlook: a content that shows as many tokens as the
\* file of an older one holds.
LooksOlder == \E c \in 1..Newest : c # slot /\ Tokens[slot] = Saved[c]

NoDriftMeansSaved == ~Drifted => slot \in {Missing, Newest} \/ LooksOlder

\* The checkpoints on disk and the answers stay those of the files.
LEMMA SavedFilesStep ==
  KvInv /\ SavedInv /\ [Next]_vars =>
    /\ meta' >= 0 /\ meta' <= Newest'
    /\ pc' = "restoring" => reply' <= Newest'
    /\ pc' \in {"saving", "install"} /\ reply' > 0 => next' = reply'
    /\ pc' = "meta" => reply' > 0 /\ reply' <= Newest'
<1> DEFINE P == /\ meta' >= 0 /\ meta' <= Newest'
                /\ pc' = "restoring" => reply' <= Newest'
                /\ pc' \in {"saving", "install"} /\ reply' > 0 => next' = reply'
                /\ pc' = "meta" => reply' > 0 /\ reply' <= Newest'
<1> SUFFICES ASSUME KvInv, SavedInv, [Next]_vars PROVE P
  OBVIOUS
<1> USE DEF KvInv, TypeOK, JobsInv, NextInv, RecencyInv, SavedInv,
    CheckpointsComplete, Files, Awaiting, Answers, daemon, rotated, server,
    NoReply, Error, Missing, Partial, Newest
<1>1. CASE Boot
  BY <1>1 DEF Boot, Unlink
<1>2. CASE WaitReady \/ Resync
  BY <1>2 DEF WaitReady, Resync, Refill, Fresh
<1>3. CASE RestoreReturns
  BY <1>3 DEF RestoreReturns, Fault
<1>4. CASE PollBusy
  BY <1>4 DEF PollBusy, Tick
<1>5. CASE PollIdle
  BY <1>5 DEF PollIdle, Tick
<1>6. CASE PollFails
  BY <1>6 DEF PollFails, Fault
<1>7. CASE UnlinkNext
  BY <1>7 DEF UnlinkNext, Unlink
<1>8. CASE RequestSave
  BY <1>8 DEF RequestSave, Unlink
<1>9. CASE SaveRaises
  BY <1>9 DEF SaveRaises, Fault
<1>10. CASE KeepPrevious
  BY <1>10 DEF KeepPrevious
<1>11. CASE InstallLatest
  BY <1>11 DEF InstallLatest
<1>12. CASE WriteMeta
  BY <1>12 DEF WriteMeta, Fresh, AtomicJson
<1>13. CASE BeginSave
  BY <1>13 DEF BeginSave, Starts
<1>14. CASE FinishSave
  BY <1>14 DEF FinishSave, Ends
<1>15. CASE SaveFails
  BY <1>15 DEF SaveFails, Ends, Fault
<1>16. CASE Restore
  <2>1. Len(jobs) = 1 => jobs[Len(jobs)] = Head(jobs)
    BY <1>16, HeadTailProperties DEF Restore, Starts
  <2>2. pc = "saving" /\ Awaiting => Len(jobs) # 1
    BY <1>16, <2>1 DEF Restore, Starts
  <2>3. UNCHANGED <<pc, latest, previous, meta, next>>
    BY <1>16 DEF Restore
  <2>4. CASE reply' = reply
    BY <2>3, <2>4
  <2>5. CASE pc = "restoring" /\ reply' \in {latest, Error}
    BY <2>3, <2>5
  <2>6. QED BY <1>16, <2>2, <2>4, <2>5 DEF Restore, Ends
<1>17. CASE RequestEnds
  BY <1>17 DEF RequestEnds
<1>18. CASE ServerStarts
  BY <1>18 DEF ServerStarts
<1>19. CASE DaemonDies
  BY <1>19 DEF DaemonDies, Fault
<1>20. CASE RequestStarts
  BY <1>20 DEF RequestStarts
<1>21. CASE ServerStops
  BY <1>21 DEF ServerStops, Fault
<1>22. CASE CycleFails
  BY <1>22 DEF CycleFails, Fault, Unlink
<1>23. CASE UNCHANGED vars
  BY <1>23 DEF vars
<1>24. QED
  BY <1>1, <1>2, <1>3, <1>4, <1>5, <1>6, <1>7, <1>8, <1>9, <1>10, <1>11,
     <1>12, <1>13, <1>14, <1>15, <1>16, <1>17, <1>18, <1>19, <1>20, <1>21,
     <1>22, <1>23 DEF Next, Daemon, Server, Environment

\* Where the daemon takes a count from.
LEMMA CountStep ==
  ASSUME TypeOK, [Next]_vars
  PROVE  \/ lastSaved' = lastSaved
         \/ lastSaved' = 0
         \/ lastSaved' = SavedOf(meta)
         \/ pc = "restoring" /\ reply # NoReply /\ lastSaved' = SavedOf(reply)
         \/ pc = "meta" /\ lastSaved' = SavedOf(reply)
<1> USE DEF daemon, rotated, server
<1>1. CASE Daemon
  BY <1>1 DEF Daemon, Boot, WaitReady, Resync, Refill, RestoreReturns,
              PollBusy, PollIdle, PollFails, Tick, UnlinkNext, RequestSave,
              SaveRaises, KeepPrevious, InstallLatest, WriteMeta, CycleFails
<1>2. CASE Server
  BY <1>2 DEF Server, BeginSave, FinishSave, SaveFails, Restore, RequestEnds,
              ServerStarts
<1>3. CASE Environment
  BY <1>3 DEF Environment, DaemonDies, RequestStarts, ServerStops
<1>4. CASE UNCHANGED vars
  BY <1>4 DEF vars
<1>5. QED BY <1>1, <1>2, <1>3, <1>4 DEF Next

LEMMA SavedStep == KvInv /\ SavedInv /\ [Next]_vars => SavedInv'
<1> SUFFICES ASSUME KvInv, SavedInv, [Next]_vars PROVE SavedInv'
  OBVIOUS
<1>1. /\ Newest \in Int /\ Newest' \in Int /\ meta \in Int /\ reply \in Int
      /\ Newest' >= Newest /\ reply >= NoReply
  <2>1. KvInv'
    BY JobsStep, NextStep, RecencyStep, TypeStep DEF KvInv
  <2>2. Newest \in Int /\ meta \in Int /\ reply \in Int /\ reply >= NoReply
    BY KvAssumption DEF KvInv, TypeOK, Files, Newest, Partial, NoReply
  <2>3. Newest' \in Int
    BY <2>1, KvAssumption DEF KvInv, TypeOK, Files, Newest, Partial
  <2>4. QED BY <2>2, <2>3, RecencyStep
<1>2. PICK c \in 0..Newest : lastSaved = SavedOf(c)
  BY DEF SavedInv
<1>3. c \in 0..Newest' /\ 0 \in 0..Newest' /\ SavedOf(0) = 0
  BY <1>1, <1>2 DEF SavedOf
<1>4. meta \in 0..Newest'
  BY <1>1 DEF SavedInv
<1>5. pc = "meta" \/ (pc = "restoring" /\ reply # NoReply)
        => reply \in 0..Newest'
  BY <1>1 DEF SavedInv, NoReply
<1>6. \E d \in 0..Newest' : lastSaved' = SavedOf(d)
  BY <1>2, <1>3, <1>4, <1>5, CountStep DEF KvInv
<1>7. /\ meta' >= 0 /\ meta' <= Newest'
      /\ pc' = "restoring" => reply' <= Newest'
      /\ pc' \in {"saving", "install"} /\ reply' > 0 => next' = reply'
      /\ pc' = "meta" => reply' > 0 /\ reply' <= Newest'
  BY SavedFilesStep
<1>8. QED BY <1>6, <1>7 DEF SavedInv, SavedOf

LEMMA SavedInvariant == Spec => []SavedInv
<1>1. Init => SavedInv
  BY DEF Init, SavedInv, Newest, Missing, SavedOf
<1>2. KvInv /\ SavedInv /\ [Next]_vars => SavedInv'
  BY SavedStep
<1>3. QED BY <1>1, <1>2, KvInvariant, PTL DEF Spec

\* Nothing else is forgotten: a slot that looks to the daemon as it was last
\* saved or restored is on disk under the newest name, or shows exactly as many
\* tokens as an older file holds; whoever died, timed out or was restarted.
THEOREM NothingForgotten == Spec => []NoDriftMeansSaved
<1>1. KvInv /\ SavedInv => NoDriftMeansSaved
  <2> SUFFICES ASSUME KvInv, SavedInv, ~Drifted, slot # Missing, ~LooksOlder
               PROVE  slot = Newest
    BY DEF NoDriftMeansSaved
  <2>1. /\ slot \in 1..MaxRequests /\ slot >= Newest /\ Newest \in Int
        /\ Newest <= requests /\ requests \in 0..MaxRequests
    BY KvAssumption
    DEF KvInv, TypeOK, RecencyInv, Missing, Newest, Files, Partial
  <2>2. PICK c \in 0..Newest : lastSaved = SavedOf(c)
    BY DEF SavedInv
  <2>3. TokensOf(slot) = SavedOf(c)
    BY <2>2 DEF Drifted
  <2>4. TokensOf(slot) = Tokens[slot] /\ Tokens[slot] \in Nat \ {0}
    BY <2>1, KvAssumption DEF TokensOf
  <2>5. c # 0
    BY <2>3, <2>4 DEF SavedOf
  <2>6. c \in 1..Newest /\ Saved[c] = Tokens[slot]
    BY <2>1, <2>3, <2>4, <2>5, KvAssumption DEF SavedOf
  <2>7. c = slot
    BY <2>6 DEF LooksOlder
  <2>8. QED BY <2>1, <2>2, <2>7
<1>2. QED BY <1>1, KvInvariant, SavedInvariant, PTL

-----------------------------------------------------------------------------
\* Every step of the daemon, the server or a failure is one of the directory's,
\* or none.
LEMMA DirectoryStep ==
  KvInv /\ [Next]_vars => [Directory!Next]_(Directory!vars)
<1> SUFFICES ASSUME KvInv, [Next]_vars
             PROVE  [Directory!Next]_(Directory!vars)
  OBVIOUS
<1> USE DEF daemon, rotated, server, Directory!vars, Directory!Next
<1>1. CASE RequestEnds
  BY <1>1 DEF RequestEnds, Directory!Make, Newest
<1>2. CASE KeepPrevious
  BY <1>2 DEF KeepPrevious, Directory!Drop, Directory!None, Newest, Missing
<1>3. CASE InstallLatest
  <2>1. /\ latest = Missing /\ next > 0 /\ next <= requests /\ next >= previous
        /\ latest' = next /\ UNCHANGED <<previous, requests>>
    BY <1>3 DEF InstallLatest, KvInv, NextInv
  <2>2. next \in 1..requests
    BY <2>1, KvAssumption DEF KvInv, TypeOK, Files, Partial
  <2>3. Directory!Install(next)
    BY <2>1 DEF Directory!Install, Newest, Missing
  <2>4. QED BY <2>2, <2>3
<1>4. ASSUME UNCHANGED <<requests, latest, previous>>
      PROVE  [Directory!Next]_(Directory!vars)
  BY <1>4 DEF Newest
<1>5. CASE UNCHANGED vars
  BY <1>4, <1>5 DEF vars
<1>6. CASE Daemon /\ ~KeepPrevious /\ ~InstallLatest
  BY <1>4, <1>6
  DEF Daemon, Boot, WaitReady, Resync, RestoreReturns, PollBusy, PollIdle,
      PollFails, Tick, UnlinkNext, RequestSave, SaveRaises, WriteMeta,
      CycleFails
<1>7. CASE Server /\ ~RequestEnds
  BY <1>4, <1>7
  DEF Server, BeginSave, FinishSave, SaveFails, Restore, ServerStarts
<1>8. CASE Environment
  BY <1>4, <1>8 DEF Environment, DaemonDies, RequestStarts, ServerStops
<1>9. QED
  BY <1>1, <1>2, <1>3, <1>5, <1>6, <1>7, <1>8 DEF Next

\* The daemon's rotation, in two renames that anything can come between,
\* implements the directory of Checkpoints.
THEOREM RotationImplementsCheckpoints == Spec => StoreSpec
<1>1. Init => Directory!Init
  BY DEF Init, Directory!Init, Directory!None, Newest, Missing
<1>2. QED
  BY <1>1, DirectoryStep, KvInvariant, PTL DEF Spec, StoreSpec, Directory!Spec
=============================================================================
