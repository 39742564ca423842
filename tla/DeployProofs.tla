----------------------------- MODULE DeployProofs -----------------------------
(***************************************************************************)
(* Theorems about Deploy, for any number of runs, faults and requests.     *)
(***************************************************************************)
EXTENDS Deploy, TLAPS

-------------------------------------------------------------------------------
(* The inductive invariant                                                 *)

BeforeBenchCreates ==
  {"waitIdle", "stopKvFirst", "lookAgain", "backup", "save", "keepPrevious",
   "install", "requestsA", "stopProd", "mark", "launchTest"}
BeforeRename == {"look", "stopKv", "find", "rename"}
BeforeCreate ==
  BeforeBenchCreates \cup BeforeRename \cup {"update", "stop", "launch"}

\* Names and numbers are used once: a run's container does not exist before it
\* creates it, nor its backup's name before the rename.
Numbered ==
  /\ pc # "over" => run >= 1
  /\ \A c \in Ids : /\ name[c] = NoName => status[c] = "stopped"
                    /\ c > run => name[c] = NoName
                    /\ name[c] \in Backups => name[c] <= run
  /\ pc \in BeforeCreate => name[run] = NoName
  /\ pc \in BeforeRename => Named(run) = {}

\* The name of production, while a deployment is at work, is the old
\* container's, nobody's, or the new one's.
Replaced ==
  /\ pc = "rename" => old \in Named(Prod)
  /\ pc \in {"update", "stop", "launch"} => Named(Prod) = {}
  /\ pc \in {"health", "record", "remove"} => Named(Prod) \subseteq {run}

\* A request that came before the look is not on a server the script will end.
Spared ==
  /\ request # "none" =>
       /\ Ready # {} /\ Ready \cap Named(Test) = {}
       /\ requests < MaxRequests
  /\ request = "early" =>
       /\ pc \in {"stopKv", "find", "rename", "health", "record", "remove"}
            => Ready \cap Named(Prod) = {}
       /\ pc \in {"update", "stop"} => old \notin Ready
       /\ pc \notin {"backup", "save", "keepPrevious", "install",
                     "requestsA", "stopProd"}

NamesInv == Numbered /\ Replaced /\ Spared

\* Before a mishap only production runs, under its name or, between two
\* commands, the backup's, and the test server while the benchmark uses it.
Orderly ==
  \A c \in Ids : Running(c) =>
    \/ name[c] = Prod
    \/ pc \in {"update", "stop"} /\ c = old
    \/ pc \in {"awaitTest", "requestsB", "removeTest"} /\ name[c] = Test

Permanent(c) == name[c] = Prod /\ restart[c]
Up(c) == Permanent(c) /\ Running(c)
Unplugged ==
  {"stop", "update", "launch", "health", "remove", "nameBack", "policyBack",
   "startBack", "mark", "launchTest", "awaitTest", "requestsB", "removeTest",
   "startProd"}

\* Before a mishap production runs, or the script that stopped it is at work
\* and has what it needs to bring it back.
Restorable ==
  /\ pc \notin Unplugged => \E c \in Ids : Up(c)
  /\ pc \in {"update", "stop", "launch", "health", "remove", "nameBack"}
       => old \in Ids /\ old # run /\ name[old] = run
  /\ pc = "health" => Up(run)
  /\ pc = "record" => status[run] = "ready"
  /\ pc = "nameBack" => Named(Prod) = {}
  /\ pc = "policyBack" => Named(Prod) # {}
  /\ pc \in {"startBack", "mark", "launchTest", "awaitTest", "requestsB",
             "removeTest", "startProd"} => \E c \in Ids : Permanent(c)
  /\ pc \in {"awaitTest", "requestsB", "launchTest"} => prodStopped
  /\ pc = "removeTest" => prodStopped \/ \E c \in Ids : Up(c)

Deploying ==
  BeforeRename \cup {"update", "stop", "launch", "health", "record", "remove",
                    "nameBack", "policyBack", "startBack"}

Returned ==
  /\ pc \in Deploying => kind = "deploy"
  /\ pc \in {"startProd", "awaitProd", "startKv"} => Named(Test) = {}
  /\ pc = "over" /\ run > 0 /\ kind = "bench"
       => Named(Test) = {} /\ kv # "stopped"

ServingInv == ~mishap => Orderly /\ Restorable /\ Returned

KvStopped ==
  {"lookAgain", "backup", "save", "keepPrevious", "install", "requestsA",
   "stopProd", "mark", "launchTest", "awaitTest", "requestsB"}

\* The slot holds what is newest, and previous.bin may go because latest.bin
\* or deploy-backups holds something as recent.
FilesInv ==
  /\ \A x \in {slot, latest, previous, abNext} \cup kept : x <= requests + 1
  /\ Missing \notin kept
  /\ slot \notin {Partial, Empty} /\ latest # Partial
  /\ pc \in {"keepPrevious", "install"} => abNext # Partial
  /\ pc \in KvStopped => kv = "stopped"
  /\ pc \in {"save", "keepPrevious"} => latest \in kept
  /\ pc = "install" => previous \in kept /\ latest = Missing
  /\ pc \in {"keepPrevious", "install"} /\ slot >= 1 => slot >= abNext
  /\ latest \notin {Missing, Bench} =>
       \E x \in {Missing, latest} \cup kept : x >= previous
  /\ slot >= 1 => /\ slot >= latest
                  /\ \E x \in {slot} \cup kept : x >= previous
-------------------------------------------------------------------------------
(* Types                                                                   *)

\* What TypeOK says of the containers, and the rest of it.
DockerOK ==
  /\ name \in [Ids -> Backups \cup {Prod, Test, NoName}]
  /\ status \in [Ids -> {"stopped", "loading", "ready"}]
  /\ restart \in [Ids -> BOOLEAN] /\ sound \in [Ids -> BOOLEAN]
  /\ \A c, d \in Ids : name[c] = name[d] => c = d \/ name[c] = NoName
  /\ \A c, d \in Ready : c = d

\* docker run keeps names and the ready server apart.
LEMMA CreateOK ==
  ASSUME DockerOK, run \in Ids, NEW n \in {Prod, Test}, Named(n) = {},
         NEW policy \in BOOLEAN, NEW state \in {"stopped", "loading"},
         Create(n, policy, state)
  PROVE  DockerOK'
<1>1. name' = [name EXCEPT ![run] = n]
  BY DEF Create
<1>2. /\ name' \in [Ids -> Backups \cup {Prod, Test, NoName}]
      /\ \A c, d \in Ids : name'[c] = name'[d] => c = d \/ name'[c] = NoName
  BY <1>1 DEF DockerOK, Named
<1>3. /\ status' \in [Ids -> {"stopped", "loading", "ready"}]
      /\ \A c \in Ready' : c \in Ready
  BY DEF Create, DockerOK, Ready
<1>4. restart' \in [Ids -> BOOLEAN]
  BY Zenon DEF Create, DockerOK
<1>5. sound' \in [Ids -> BOOLEAN]
  BY Zenon DEF Create, DockerOK
<1>6. QED BY <1>2, <1>3, <1>4, <1>5 DEF DockerOK

\* So does docker rename to a name nobody has.
LEMMA RenameOK ==
  ASSUME DockerOK, NEW c \in Ids, NEW n \in Backups \cup {Prod}, Named(n) = {},
         name' = [name EXCEPT ![c] = n], UNCHANGED <<status, restart, sound>>
  PROVE  DockerOK'
BY DEF DockerOK, Named, Ready

LEMMA NameBackOK ==
  ASSUME DockerOK, run \in Backups, NameBack
  PROVE  DockerOK'
<1>1. UNCHANGED <<status, restart, sound>>
  BY DEF NameBack
<1>2. CASE Named(Prod) # {}
  BY <1>1, <1>2 DEF DockerOK, NameBack, Ready
<1>3. CASE Named(Prod) = {}
  <2>1. name' = [c \in Ids |-> IF name[c] = run THEN Prod ELSE name[c]]
    BY <1>3 DEF NameBack
  <2>2. Prod # NoName /\ NoName \notin Backups
    BY DEF Prod, NoName, Backups
  <2>3. \A c, d \in Ids : name'[c] = name'[d] => c = d \/ name'[c] = NoName
    BY <2>1, <2>2, <1>3 DEF DockerOK, Named
  <2>4. QED BY <1>1, <2>1, <2>3 DEF DockerOK, Ready
<1>4. QED BY <1>2, <1>3

LEMMA ReadyOK ==
  ASSUME DockerOK, NEW c \in Ids, BecomeReady(c)
  PROVE  DockerOK'
BY DEF DockerOK, BecomeReady, Ready

LEMMA StartOK ==
  ASSUME TypeOK, StartScript
  PROVE  TypeOK'
<1>1. UNCHANGED <<docker, slot, kv, requests, files, mishap, faults>>
  BY DEF StartScript
<1>2. run' \in Ids
  BY DeployAssumption DEF StartScript, TypeOK, Ids
<1>3. /\ kind' \in {"deploy", "bench"} /\ busySeen' \in BOOLEAN
      /\ old' \in Ids \cup {NoOld} /\ prodStopped' \in BOOLEAN
      /\ request' \in {"none", "early", "late"}
  BY DEF StartScript, TypeOK
<1>4. QED BY <1>1, <1>2, <1>3 DEF TypeOK, docker, files, Ready

OtherOK ==
  /\ run \in Ids /\ kind \in {"deploy", "bench"} /\ busySeen \in BOOLEAN
  /\ old \in Ids \cup {NoOld} /\ prodStopped \in BOOLEAN
  /\ slot \in Contents /\ request \in {"none", "early", "late"}
  /\ requests \in 0..MaxRequests /\ kv \in {"stopped", "booting", "on"}
  /\ latest \in Contents /\ previous \in Contents /\ abNext \in Contents
  /\ kept \subseteq Contents /\ mishap \in BOOLEAN /\ faults \in 0..MaxFaults

\* The rename gives a name that is free.
LEMMA NamesApart ==
  ASSUME NamesInv, pc = "rename"
  PROVE  old \in Named(Prod) /\ Named(run) = {}
BY DEF NamesInv, Numbered, Replaced, BeforeRename

LEMMA TypeStep == TypeOK /\ NamesInv /\ [Next]_vars => TypeOK'
<1> SUFFICES ASSUME TypeOK, NamesInv, [Next]_vars PROVE TypeOK'
  OBVIOUS
<1>a. DockerOK /\ (pc # "over" => run \in Backups)
  BY DeployAssumption DEF TypeOK, DockerOK, NamesInv, Numbered, Ids, Backups
<1>b. (DockerOK /\ OtherOK)' => TypeOK'
  BY DEF TypeOK, DockerOK, OtherOK
<1> USE DeployAssumption DEF TypeOK, NamesInv, Numbered, Replaced, Spared,
    Ids, Backups, NoOld, Prod, Test, NoName, Missing, Partial, Bench, Empty,
    Contents, Named, Running, Ready, Idle, Fault, Ended, Halted, Stop, Remove,
    Start, At, Quiet, Only, memory, docker, service, files
<1>1. CASE StartScript
  BY <1>1, StartOK
<1>2. CASE LookFindsNone
  BY <1>2 DEF LookFindsNone
<1>3. CASE LookIdle
  BY <1>3 DEF LookIdle
<1>4. CASE LookBusy
  BY <1>4 DEF LookBusy
<1>5. CASE LookGivesUp
  BY <1>5 DEF LookGivesUp
<1>6. CASE StopKv
  BY <1>6 DEF StopKv
<1>7. CASE FindOld
  BY <1>7 DEF FindOld
<1>8. CASE RenameOld
  <2>1. DockerOK'
    <3>a. pc = "rename"
      BY <1>8 DEF RenameOld
    <3>b. old \in Named(Prod) /\ Named(run) = {} /\ pc # "over"
      BY <3>a, NamesApart DEF BeforeRename
    <3>1. old \in Ids /\ run \in Backups \cup {Prod} /\ Named(run) = {}
      BY <3>b, <1>a
    <3>2. /\ name' = [name EXCEPT ![old] = run]
          /\ UNCHANGED <<status, restart, sound>>
      BY <1>8 DEF RenameOld
    <3>3. QED BY <3>1, <3>2, <1>a, RenameOK
  <2>2. OtherOK'
    BY <1>8 DEF RenameOld, OtherOK
  <2>3. QED BY <2>1, <2>2, <1>b
<1>9. CASE UpdateOld
  BY <1>9 DEF UpdateOld
<1>10. CASE StopOld
  BY <1>10 DEF StopOld
<1>11. CASE Launch
  <2>1. DockerOK'
    BY <1>11, <1>a, CreateOK DEF Launch
  <2>2. OtherOK'
    BY <1>11 DEF Launch, OtherOK
  <2>3. QED BY <2>1, <2>2, <1>b
<1>12. CASE HealthAnswers
  BY <1>12 DEF HealthAnswers
<1>13. CASE HealthFails
  BY <1>13 DEF HealthFails
<1>14. CASE RecordBackup
  BY <1>14 DEF RecordBackup
<1>15. CASE RemoveNew
  BY <1>15 DEF RemoveNew
<1>16. CASE NameBack
  <2>1. DockerOK'
    BY <1>16, <1>a, NameBackOK DEF NameBack
  <2>2. OtherOK'
    BY <1>16 DEF NameBack, OtherOK
  <2>3. QED BY <2>1, <2>2, <1>b
<1>17. CASE PolicyBack
  BY <1>17 DEF PolicyBack
<1>18. CASE StartBack
  BY <1>18 DEF StartBack
<1>19. CASE WaitIdle
  BY <1>19 DEF WaitIdle
<1>20. CASE StopKvFirst
  BY <1>20 DEF StopKvFirst
<1>21. CASE LookAgain
  BY <1>21 DEF LookAgain
<1>22. CASE Backup
  <2>1. kept' \subseteq Contents /\ UNCHANGED <<latest, previous, abNext>>
    BY <1>22 DEF Backup
  <2>2. UNCHANGED <<memory, docker, service, requests, mishap, faults>>
    BY <1>22 DEF Backup
  <2> QED
    BY <2>1, <2>2
<1>23. CASE Save
  BY <1>23 DEF Save
<1>24. CASE SaveFails
  BY <1>24 DEF SaveFails
<1>25. CASE KeepPrevious
  BY <1>25 DEF KeepPrevious
<1>26. CASE Install
  BY <1>26 DEF Install
<1>27. CASE RequestsA
  BY <1>27 DEF RequestsA, Requests
<1>28. CASE StopProd
  BY <1>28 DEF StopProd
<1>29. CASE Mark
  BY <1>29 DEF Mark
<1>30. CASE LaunchTest
  <2>1. DockerOK'
    <3>1. CASE UNCHANGED docker
      BY <3>1, <1>a DEF DockerOK
    <3>2. CASE Named(Test) = {} /\ Create(Test, FALSE, "loading")
      BY <1>30, <3>2, <1>a, CreateOK DEF LaunchTest
    <3>3. QED BY <1>30, <3>1, <3>2 DEF LaunchTest
  <2>2. OtherOK'
    BY <1>30 DEF LaunchTest, OtherOK
  <2>3. QED BY <2>1, <2>2, <1>b
<1>31. CASE AwaitTest
  BY <1>31 DEF AwaitTest
<1>32. CASE RequestsB
  BY <1>32 DEF RequestsB, Requests
<1>33. CASE RemoveTest
  BY <1>33 DEF RemoveTest
<1>34. CASE StartProd
  BY <1>34 DEF StartProd
<1>35. CASE AwaitProd
  BY <1>35 DEF AwaitProd
<1>36. CASE StartKv
  BY <1>36 DEF StartKv
<1>37. CASE Breaks
  BY <1>37 DEF Breaks
<1>38. CASE LaunchFails
  <2>1. DockerOK'
    <3>1. CASE UNCHANGED docker
      BY <3>1, <1>a DEF DockerOK
    <3>2. CASE Create(Prod, TRUE, "stopped")
      BY <1>38, <3>2, <1>a, CreateOK DEF LaunchFails
    <3>3. QED BY <1>38, <3>1, <3>2 DEF LaunchFails
  <2>2. OtherOK'
    BY <1>38 DEF LaunchFails, OtherOK
  <2>3. QED BY <2>1, <2>2, <1>b
<1>39. CASE BenchBreaks
  BY <1>39 DEF BenchBreaks
<1>40. CASE Silent
  BY <1>40 DEF Silent
<1>41. CASE Kill
  BY <1>41 DEF Kill
<1>42. CASE RequestStarts
  BY <1>42 DEF RequestStarts
<1>43. CASE RequestEnds
  BY <1>43 DEF RequestEnds
<1>44. CASE KvRestores
  BY <1>44 DEF KvRestores
<1>45. CASE KvSaves
  BY <1>45 DEF KvSaves
<1>46. CASE \E c \in Ids : BecomeReady(c)
  <2>1. PICK c \in Ids : BecomeReady(c)
    BY <1>46
  <2>2. DockerOK'
    BY <2>1, <1>a, ReadyOK
  <2>3. OtherOK'
    BY <2>1 DEF BecomeReady, OtherOK
  <2>4. QED BY <2>2, <2>3, <1>b
<1>47. CASE \E c \in Ids : Exit(c)
  BY <1>47 DEF Exit
<1>48. CASE UNCHANGED vars
  BY <1>48 DEF vars
<1>49. QED BY <1>1, <1>2, <1>3, <1>4, <1>5, <1>6, <1>7, <1>8, <1>9, <1>10,
    <1>11, <1>12, <1>13, <1>14, <1>15, <1>16, <1>17, <1>18, <1>19, <1>20,
    <1>21, <1>22, <1>23, <1>24, <1>25, <1>26, <1>27, <1>28, <1>29, <1>30,
    <1>31, <1>32, <1>33, <1>34, <1>35, <1>36, <1>37, <1>38, <1>39, <1>40,
    <1>41, <1>42, <1>43, <1>44, <1>45, <1>46, <1>47, <1>48
    DEF Next, Deployment, Benchmark, Failure, Host

-------------------------------------------------------------------------------
(* Names                                                                   *)

\* A container and a backup's name exist from the command that makes them.
LEMMA NumberedStep == TypeOK /\ NamesInv /\ [Next]_vars => Numbered'
<1> SUFFICES ASSUME TypeOK, NamesInv, [Next]_vars PROVE Numbered'
  OBVIOUS
<1> USE DeployAssumption DEF TypeOK, NamesInv, Numbered, BeforeCreate,
    BeforeRename, BeforeBenchCreates, After, Ids, Backups, NoOld, Prod, Test,
    NoName, Named, Running, Ready, Halted, Stop, Remove, Start, Create, At,
    Quiet, Only, memory, docker, Replaced
<1>1. CASE StartScript
  BY <1>1 DEF StartScript
<1>2. CASE LookFindsNone
  BY <1>2 DEF LookFindsNone
<1>3. CASE LookIdle
  BY <1>3 DEF LookIdle
<1>4. CASE LookBusy
  BY <1>4 DEF LookBusy
<1>5. CASE LookGivesUp
  BY <1>5 DEF LookGivesUp
<1>6. CASE StopKv
  BY <1>6 DEF StopKv
<1>7. CASE FindOld
  BY <1>7 DEF FindOld
<1>8. CASE RenameOld
  BY <1>8 DEF RenameOld
<1>9. CASE UpdateOld
  BY <1>9 DEF UpdateOld
<1>10. CASE StopOld
  BY <1>10 DEF StopOld
<1>11. CASE Launch
  BY <1>11 DEF Launch
<1>12. CASE HealthAnswers
  BY <1>12 DEF HealthAnswers
<1>13. CASE HealthFails
  BY <1>13 DEF HealthFails
<1>14. CASE RecordBackup
  BY <1>14 DEF RecordBackup
<1>15. CASE RemoveNew
  BY <1>15 DEF RemoveNew
<1>16. CASE NameBack
  BY <1>16 DEF NameBack
<1>17. CASE PolicyBack
  BY <1>17 DEF PolicyBack
<1>18. CASE StartBack
  BY <1>18 DEF StartBack
<1>19. CASE WaitIdle
  BY <1>19 DEF WaitIdle
<1>20. CASE StopKvFirst
  BY <1>20 DEF StopKvFirst
<1>21. CASE LookAgain
  BY <1>21 DEF LookAgain
<1>22. CASE Backup
  BY <1>22 DEF Backup
<1>23. CASE Save
  BY <1>23 DEF Save
<1>24. CASE SaveFails
  BY <1>24 DEF SaveFails
<1>25. CASE KeepPrevious
  BY <1>25 DEF KeepPrevious
<1>26. CASE Install
  BY <1>26 DEF Install
<1>27. CASE RequestsA
  BY <1>27 DEF RequestsA, Requests
<1>28. CASE StopProd
  BY <1>28 DEF StopProd
<1>29. CASE Mark
  BY <1>29 DEF Mark
<1>30. CASE LaunchTest
  BY <1>30 DEF LaunchTest
<1>31. CASE AwaitTest
  BY <1>31 DEF AwaitTest
<1>32. CASE RequestsB
  BY <1>32 DEF RequestsB, Requests
<1>33. CASE RemoveTest
  BY <1>33 DEF RemoveTest
<1>34. CASE StartProd
  BY <1>34 DEF StartProd
<1>35. CASE AwaitProd
  BY <1>35 DEF AwaitProd
<1>36. CASE StartKv
  BY <1>36 DEF StartKv
<1>37. CASE Breaks
  BY <1>37 DEF Breaks
<1>38. CASE LaunchFails
  BY <1>38 DEF LaunchFails
<1>39. CASE BenchBreaks
  BY <1>39 DEF BenchBreaks
<1>40. CASE Silent
  BY <1>40 DEF Silent
<1>41. CASE Kill
  BY <1>41 DEF Kill
<1>42. CASE RequestStarts
  BY <1>42 DEF RequestStarts
<1>43. CASE RequestEnds
  BY <1>43 DEF RequestEnds
<1>44. CASE KvRestores
  BY <1>44 DEF KvRestores
<1>45. CASE KvSaves
  BY <1>45 DEF KvSaves
<1>46. CASE \E c \in Ids : BecomeReady(c)
  BY <1>46 DEF BecomeReady
<1>47. CASE \E c \in Ids : Exit(c)
  BY <1>47 DEF Exit
<1>48. CASE UNCHANGED vars
  BY <1>48 DEF vars
<1>49. QED BY <1>1, <1>2, <1>3, <1>4, <1>5, <1>6, <1>7, <1>8, <1>9, <1>10,
    <1>11, <1>12, <1>13, <1>14, <1>15, <1>16, <1>17, <1>18, <1>19, <1>20,
    <1>21, <1>22, <1>23, <1>24, <1>25, <1>26, <1>27, <1>28, <1>29, <1>30,
    <1>31, <1>32, <1>33, <1>34, <1>35, <1>36, <1>37, <1>38, <1>39, <1>40,
    <1>41, <1>42, <1>43, <1>44, <1>45, <1>46, <1>47, <1>48
    DEF Next, Deployment, Benchmark, Failure, Host

\* A deployment finds, renames, replaces and removes what it means to.
LEMMA ReplacedStep == TypeOK /\ NamesInv /\ [Next]_vars => Replaced'
<1> SUFFICES ASSUME TypeOK, NamesInv, [Next]_vars PROVE Replaced'
  OBVIOUS
<1> USE DeployAssumption DEF TypeOK, NamesInv, Numbered, Replaced, BeforeCreate,
    BeforeRename, BeforeBenchCreates, After, Ids, Backups, NoOld, Prod, Test,
    NoName, Named, Stop, Remove, Start, Create, At,
    Quiet, Only, memory, docker
<1>1. CASE StartScript
  BY <1>1 DEF StartScript
<1>2. CASE LookFindsNone
  BY <1>2 DEF LookFindsNone
<1>3. CASE LookIdle
  BY <1>3 DEF LookIdle
<1>4. CASE LookBusy
  BY <1>4 DEF LookBusy
<1>5. CASE LookGivesUp
  BY <1>5 DEF LookGivesUp
<1>6. CASE StopKv
  BY <1>6 DEF StopKv
<1>7. CASE FindOld
  BY <1>7 DEF FindOld
<1>8. CASE RenameOld
  BY <1>8 DEF RenameOld
<1>9. CASE UpdateOld
  BY <1>9 DEF UpdateOld
<1>10. CASE StopOld
  BY <1>10 DEF StopOld
<1>11. CASE Launch
  BY <1>11 DEF Launch
<1>12. CASE HealthAnswers
  BY <1>12 DEF HealthAnswers
<1>13. CASE HealthFails
  BY <1>13 DEF HealthFails
<1>14. CASE RecordBackup
  BY <1>14 DEF RecordBackup
<1>15. CASE RemoveNew
  BY <1>15 DEF RemoveNew
<1>16. CASE NameBack
  BY <1>16 DEF NameBack
<1>17. CASE PolicyBack
  BY <1>17 DEF PolicyBack
<1>18. CASE StartBack
  BY <1>18 DEF StartBack
<1>19. CASE WaitIdle
  BY <1>19 DEF WaitIdle
<1>20. CASE StopKvFirst
  BY <1>20 DEF StopKvFirst
<1>21. CASE LookAgain
  BY <1>21 DEF LookAgain
<1>22. CASE Backup
  BY <1>22 DEF Backup
<1>23. CASE Save
  BY <1>23 DEF Save
<1>24. CASE SaveFails
  BY <1>24 DEF SaveFails
<1>25. CASE KeepPrevious
  BY <1>25 DEF KeepPrevious
<1>26. CASE Install
  BY <1>26 DEF Install
<1>27. CASE RequestsA
  BY <1>27 DEF RequestsA, Requests
<1>28. CASE StopProd
  BY <1>28 DEF StopProd
<1>29. CASE Mark
  BY <1>29 DEF Mark
<1>30. CASE LaunchTest
  BY <1>30 DEF LaunchTest
<1>31. CASE AwaitTest
  BY <1>31 DEF AwaitTest
<1>32. CASE RequestsB
  BY <1>32 DEF RequestsB, Requests
<1>33. CASE RemoveTest
  BY <1>33 DEF RemoveTest
<1>34. CASE StartProd
  BY <1>34 DEF StartProd
<1>35. CASE AwaitProd
  BY <1>35 DEF AwaitProd
<1>36. CASE StartKv
  BY <1>36 DEF StartKv
<1>37. CASE Breaks
  BY <1>37 DEF Breaks
<1>38. CASE LaunchFails
  BY <1>38 DEF LaunchFails
<1>39. CASE BenchBreaks
  BY <1>39 DEF BenchBreaks
<1>40. CASE Silent
  BY <1>40 DEF Silent
<1>41. CASE Kill
  BY <1>41 DEF Kill
<1>42. CASE RequestStarts
  BY <1>42 DEF RequestStarts
<1>43. CASE RequestEnds
  BY <1>43 DEF RequestEnds
<1>44. CASE KvRestores
  BY <1>44 DEF KvRestores
<1>45. CASE KvSaves
  BY <1>45 DEF KvSaves
<1>46. CASE \E c \in Ids : BecomeReady(c)
  BY <1>46 DEF BecomeReady
<1>47. CASE \E c \in Ids : Exit(c)
  BY <1>47 DEF Exit
<1>48. CASE UNCHANGED vars
  BY <1>48 DEF vars
<1>49. QED BY <1>1, <1>2, <1>3, <1>4, <1>5, <1>6, <1>7, <1>8, <1>9, <1>10,
    <1>11, <1>12, <1>13, <1>14, <1>15, <1>16, <1>17, <1>18, <1>19, <1>20,
    <1>21, <1>22, <1>23, <1>24, <1>25, <1>26, <1>27, <1>28, <1>29, <1>30,
    <1>31, <1>32, <1>33, <1>34, <1>35, <1>36, <1>37, <1>38, <1>39, <1>40,
    <1>41, <1>42, <1>43, <1>44, <1>45, <1>46, <1>47, <1>48
    DEF Next, Deployment, Benchmark, Failure, Host

\* No step puts an early request on a server that the script will end.
LEMMA SparedStep == TypeOK /\ NamesInv /\ [Next]_vars => Spared'
<1> SUFFICES ASSUME TypeOK, NamesInv, [Next]_vars PROVE Spared'
  OBVIOUS
<1> USE DeployAssumption DEF TypeOK, NamesInv, Numbered, Replaced, Spared,
    BeforeCreate,
    BeforeRename, BeforeBenchCreates, After, Ids, Backups, NoOld, Prod, Test,
    NoName, Named, Running, Ready, Idle, Ended, Halted, Stop, Remove, Start,
    Create, At,
    Quiet, Only, memory, docker, service
<1>1. CASE StartScript
  BY <1>1 DEF StartScript
<1>2. CASE LookFindsNone
  BY <1>2 DEF LookFindsNone
<1>3. CASE LookIdle
  BY <1>3 DEF LookIdle
<1>4. CASE LookBusy
  BY <1>4 DEF LookBusy
<1>5. CASE LookGivesUp
  BY <1>5 DEF LookGivesUp
<1>6. CASE StopKv
  BY <1>6 DEF StopKv
<1>7. CASE FindOld
  BY <1>7 DEF FindOld
<1>8. CASE RenameOld
  BY <1>8 DEF RenameOld
<1>9. CASE UpdateOld
  BY <1>9 DEF UpdateOld
<1>10. CASE StopOld
  BY <1>10 DEF StopOld
<1>11. CASE Launch
  BY <1>11 DEF Launch
<1>12. CASE HealthAnswers
  BY <1>12 DEF HealthAnswers
<1>13. CASE HealthFails
  BY <1>13 DEF HealthFails
<1>14. CASE RecordBackup
  BY <1>14 DEF RecordBackup
<1>15. CASE RemoveNew
  BY <1>15 DEF RemoveNew
<1>16. CASE NameBack
  BY <1>16 DEF NameBack
<1>17. CASE PolicyBack
  BY <1>17 DEF PolicyBack
<1>18. CASE StartBack
  BY <1>18 DEF StartBack
<1>19. CASE WaitIdle
  BY <1>19 DEF WaitIdle
<1>20. CASE StopKvFirst
  BY <1>20 DEF StopKvFirst
<1>21. CASE LookAgain
  BY <1>21 DEF LookAgain
<1>22. CASE Backup
  BY <1>22 DEF Backup
<1>23. CASE Save
  BY <1>23 DEF Save
<1>24. CASE SaveFails
  BY <1>24 DEF SaveFails
<1>25. CASE KeepPrevious
  BY <1>25 DEF KeepPrevious
<1>26. CASE Install
  BY <1>26 DEF Install
<1>27. CASE RequestsA
  BY <1>27 DEF RequestsA, Requests
<1>28. CASE StopProd
  BY <1>28 DEF StopProd
<1>29. CASE Mark
  BY <1>29 DEF Mark
<1>30. CASE LaunchTest
  BY <1>30 DEF LaunchTest
<1>31. CASE AwaitTest
  BY <1>31 DEF AwaitTest
<1>32. CASE RequestsB
  BY <1>32 DEF RequestsB, Requests
<1>33. CASE RemoveTest
  BY <1>33 DEF RemoveTest
<1>34. CASE StartProd
  BY <1>34 DEF StartProd
<1>35. CASE AwaitProd
  BY <1>35 DEF AwaitProd
<1>36. CASE StartKv
  BY <1>36 DEF StartKv
<1>37. CASE Breaks
  BY <1>37 DEF Breaks
<1>38. CASE LaunchFails
  BY <1>38 DEF LaunchFails
<1>39. CASE BenchBreaks
  BY <1>39 DEF BenchBreaks
<1>40. CASE Silent
  BY <1>40 DEF Silent
<1>41. CASE Kill
  BY <1>41 DEF Kill
<1>42. CASE RequestStarts
  BY <1>42 DEF RequestStarts
<1>43. CASE RequestEnds
  BY <1>43 DEF RequestEnds
<1>44. CASE KvRestores
  BY <1>44 DEF KvRestores
<1>45. CASE KvSaves
  BY <1>45 DEF KvSaves
<1>46. CASE \E c \in Ids : BecomeReady(c)
  BY <1>46 DEF BecomeReady
<1>47. CASE \E c \in Ids : Exit(c)
  BY <1>47 DEF Exit
<1>48. CASE UNCHANGED vars
  BY <1>48 DEF vars
<1>49. QED BY <1>1, <1>2, <1>3, <1>4, <1>5, <1>6, <1>7, <1>8, <1>9, <1>10,
    <1>11, <1>12, <1>13, <1>14, <1>15, <1>16, <1>17, <1>18, <1>19, <1>20,
    <1>21, <1>22, <1>23, <1>24, <1>25, <1>26, <1>27, <1>28, <1>29, <1>30,
    <1>31, <1>32, <1>33, <1>34, <1>35, <1>36, <1>37, <1>38, <1>39, <1>40,
    <1>41, <1>42, <1>43, <1>44, <1>45, <1>46, <1>47, <1>48
    DEF Next, Deployment, Benchmark, Failure, Host


-------------------------------------------------------------------------------
(* Production and the test server                                          *)

\* Nothing else runs.
LEMMA OrderlyStep ==
  TypeOK /\ NamesInv /\ ServingInv /\ [Next]_vars => (~mishap
    => Orderly)'
<1> SUFFICES ASSUME TypeOK, NamesInv, ServingInv, [Next]_vars
         PROVE (~mishap => Orderly)'
  OBVIOUS
<1> USE DeployAssumption DEF TypeOK, NamesInv, Numbered, Replaced, BeforeCreate,
    BeforeRename, BeforeBenchCreates, After, Ids, Backups, NoOld, Prod, Test,
    NoName, Named, Running, Ready, Halted, Stop, Remove, Start, Create, At,
    Quiet, Only, memory, docker, ServingInv, Orderly
<1>1. CASE StartScript
  BY <1>1 DEF StartScript
<1>2. CASE LookFindsNone
  BY <1>2 DEF LookFindsNone
<1>3. CASE LookIdle
  BY <1>3 DEF LookIdle
<1>4. CASE LookBusy
  BY <1>4 DEF LookBusy
<1>5. CASE LookGivesUp
  BY <1>5 DEF LookGivesUp
<1>6. CASE StopKv
  BY <1>6 DEF StopKv
<1>7. CASE FindOld
  BY <1>7 DEF FindOld
<1>8. CASE RenameOld
  BY <1>8 DEF RenameOld
<1>9. CASE UpdateOld
  BY <1>9 DEF UpdateOld
<1>10. CASE StopOld
  BY <1>10 DEF StopOld
<1>11. CASE Launch
  BY <1>11 DEF Launch
<1>12. CASE HealthAnswers
  BY <1>12 DEF HealthAnswers
<1>13. CASE HealthFails
  BY <1>13 DEF HealthFails
<1>14. CASE RecordBackup
  BY <1>14 DEF RecordBackup
<1>15. CASE RemoveNew
  BY <1>15 DEF RemoveNew
<1>16. CASE NameBack
  BY <1>16 DEF NameBack
<1>17. CASE PolicyBack
  BY <1>17 DEF PolicyBack
<1>18. CASE StartBack
  BY <1>18 DEF StartBack
<1>19. CASE WaitIdle
  BY <1>19 DEF WaitIdle
<1>20. CASE StopKvFirst
  BY <1>20 DEF StopKvFirst
<1>21. CASE LookAgain
  BY <1>21 DEF LookAgain
<1>22. CASE Backup
  BY <1>22 DEF Backup
<1>23. CASE Save
  BY <1>23 DEF Save
<1>24. CASE SaveFails
  BY <1>24 DEF SaveFails
<1>25. CASE KeepPrevious
  BY <1>25 DEF KeepPrevious
<1>26. CASE Install
  BY <1>26 DEF Install
<1>27. CASE RequestsA
  BY <1>27 DEF RequestsA, Requests
<1>28. CASE StopProd
  BY <1>28 DEF StopProd
<1>29. CASE Mark
  BY <1>29 DEF Mark
<1>30. CASE LaunchTest
  BY <1>30 DEF LaunchTest
<1>31. CASE AwaitTest
  BY <1>31 DEF AwaitTest
<1>32. CASE RequestsB
  BY <1>32 DEF RequestsB, Requests
<1>33. CASE RemoveTest
  BY <1>33 DEF RemoveTest
<1>34. CASE StartProd
  BY <1>34 DEF StartProd
<1>35. CASE AwaitProd
  BY <1>35 DEF AwaitProd
<1>36. CASE StartKv
  BY <1>36 DEF StartKv
<1>37. CASE Breaks
  BY <1>37 DEF Breaks
<1>38. CASE LaunchFails
  BY <1>38 DEF LaunchFails
<1>39. CASE BenchBreaks
  BY <1>39 DEF BenchBreaks
<1>40. CASE Silent
  BY <1>40 DEF Silent
<1>41. CASE Kill
  BY <1>41 DEF Kill
<1>42. CASE RequestStarts
  BY <1>42 DEF RequestStarts
<1>43. CASE RequestEnds
  BY <1>43 DEF RequestEnds
<1>44. CASE KvRestores
  BY <1>44 DEF KvRestores
<1>45. CASE KvSaves
  BY <1>45 DEF KvSaves
<1>46. CASE \E c \in Ids : BecomeReady(c)
  BY <1>46 DEF BecomeReady
<1>47. CASE \E c \in Ids : Exit(c)
  BY <1>47 DEF Exit
<1>48. CASE UNCHANGED vars
  BY <1>48 DEF vars
<1>49. QED BY <1>1, <1>2, <1>3, <1>4, <1>5, <1>6, <1>7, <1>8, <1>9, <1>10,
    <1>11, <1>12, <1>13, <1>14, <1>15, <1>16, <1>17, <1>18, <1>19, <1>20,
    <1>21, <1>22, <1>23, <1>24, <1>25, <1>26, <1>27, <1>28, <1>29, <1>30,
    <1>31, <1>32, <1>33, <1>34, <1>35, <1>36, <1>37, <1>38, <1>39, <1>40,
    <1>41, <1>42, <1>43, <1>44, <1>45, <1>46, <1>47, <1>48
    DEF Next, Deployment, Benchmark, Failure, Host

\* Production runs or will.
LEMMA RestorableStep ==
  TypeOK /\ NamesInv /\ ServingInv /\ [Next]_vars => (~mishap
    => Restorable)'
<1> SUFFICES ASSUME TypeOK, NamesInv, ServingInv, [Next]_vars
         PROVE (~mishap => Restorable)'
  OBVIOUS
<1> USE DeployAssumption DEF TypeOK, NamesInv, Numbered, Replaced, BeforeCreate,
    BeforeRename, BeforeBenchCreates, After, Ids, Backups, NoOld, Prod, Test,
    NoName, Named, Running, Ready, Halted, Stop, Remove, Start, Create, At,
    Quiet, Only, memory, docker, ServingInv, Orderly, Restorable, Up,
    Permanent, Unplugged
<1>1. CASE StartScript
  BY <1>1 DEF StartScript
<1>2. CASE LookFindsNone
  BY <1>2 DEF LookFindsNone
<1>3. CASE LookIdle
  BY <1>3 DEF LookIdle
<1>4. CASE LookBusy
  BY <1>4 DEF LookBusy
<1>5. CASE LookGivesUp
  BY <1>5 DEF LookGivesUp
<1>6. CASE StopKv
  BY <1>6 DEF StopKv
<1>7. CASE FindOld
  BY <1>7 DEF FindOld
<1>8. CASE RenameOld
  BY <1>8 DEF RenameOld
<1>9. CASE UpdateOld
  BY <1>9 DEF UpdateOld
<1>10. CASE StopOld
  BY <1>10 DEF StopOld
<1>11. CASE Launch
  BY <1>11 DEF Launch
<1>12. CASE HealthAnswers
  BY <1>12 DEF HealthAnswers
<1>13. CASE HealthFails
  BY <1>13 DEF HealthFails
<1>14. CASE RecordBackup
  BY <1>14 DEF RecordBackup
<1>15. CASE RemoveNew
  BY <1>15 DEF RemoveNew
<1>16. CASE NameBack
  BY <1>16 DEF NameBack
<1>17. CASE PolicyBack
  BY <1>17 DEF PolicyBack
<1>18. CASE StartBack
  BY <1>18 DEF StartBack
<1>19. CASE WaitIdle
  BY <1>19 DEF WaitIdle
<1>20. CASE StopKvFirst
  BY <1>20 DEF StopKvFirst
<1>21. CASE LookAgain
  BY <1>21 DEF LookAgain
<1>22. CASE Backup
  BY <1>22 DEF Backup
<1>23. CASE Save
  BY <1>23 DEF Save
<1>24. CASE SaveFails
  BY <1>24 DEF SaveFails
<1>25. CASE KeepPrevious
  BY <1>25 DEF KeepPrevious
<1>26. CASE Install
  BY <1>26 DEF Install
<1>27. CASE RequestsA
  BY <1>27 DEF RequestsA, Requests
<1>28. CASE StopProd
  BY <1>28 DEF StopProd
<1>29. CASE Mark
  BY <1>29 DEF Mark
<1>30. CASE LaunchTest
  <2>1. pc = "launchTest" /\ UNCHANGED <<memory, mishap>>
    BY <1>30 DEF LaunchTest
  <2>2. mishap \/ (prodStopped /\ \E c \in Ids : Permanent(c))
    BY <2>1
  <2>3. pc' \in {"awaitTest", "removeTest"}
    BY <1>30 DEF LaunchTest
  <2>4. \A c \in Ids : Permanent(c) => Permanent(c)'
    <3>1. CASE UNCHANGED docker
      BY <3>1
    <3>2. CASE Create(Test, FALSE, "loading")
      <4>1. name[run] = NoName /\ run \in Ids
        BY <2>1
      <4>2. QED BY <3>2, <4>1
    <3>3. QED BY <1>30, <3>1, <3>2 DEF LaunchTest
  <2>5. QED BY <2>1, <2>2, <2>3, <2>4
<1>31. CASE AwaitTest
  BY <1>31 DEF AwaitTest
<1>32. CASE RequestsB
  BY <1>32 DEF RequestsB, Requests
<1>33. CASE RemoveTest
  BY <1>33 DEF RemoveTest
<1>34. CASE StartProd
  BY <1>34 DEF StartProd
<1>35. CASE AwaitProd
  BY <1>35 DEF AwaitProd
<1>36. CASE StartKv
  BY <1>36 DEF StartKv
<1>37. CASE Breaks
  BY <1>37 DEF Breaks
<1>38. CASE LaunchFails
  BY <1>38 DEF LaunchFails
<1>39. CASE BenchBreaks
  BY <1>39 DEF BenchBreaks
<1>40. CASE Silent
  BY <1>40 DEF Silent
<1>41. CASE Kill
  BY <1>41 DEF Kill
<1>42. CASE RequestStarts
  BY <1>42 DEF RequestStarts
<1>43. CASE RequestEnds
  BY <1>43 DEF RequestEnds
<1>44. CASE KvRestores
  BY <1>44 DEF KvRestores
<1>45. CASE KvSaves
  BY <1>45 DEF KvSaves
<1>46. CASE \E c \in Ids : BecomeReady(c)
  BY <1>46 DEF BecomeReady
<1>47. CASE \E c \in Ids : Exit(c)
  BY <1>47 DEF Exit
<1>48. CASE UNCHANGED vars
  BY <1>48 DEF vars
<1>49. QED BY <1>1, <1>2, <1>3, <1>4, <1>5, <1>6, <1>7, <1>8, <1>9, <1>10,
    <1>11, <1>12, <1>13, <1>14, <1>15, <1>16, <1>17, <1>18, <1>19, <1>20,
    <1>21, <1>22, <1>23, <1>24, <1>25, <1>26, <1>27, <1>28, <1>29, <1>30,
    <1>31, <1>32, <1>33, <1>34, <1>35, <1>36, <1>37, <1>38, <1>39, <1>40,
    <1>41, <1>42, <1>43, <1>44, <1>45, <1>46, <1>47, <1>48
    DEF Next, Deployment, Benchmark, Failure, Host

\* The benchmark ends with what it found.
LEMMA ReturnedStep ==
  TypeOK /\ NamesInv /\ ServingInv /\ [Next]_vars => (~mishap
    => Returned)'
<1> SUFFICES ASSUME TypeOK, NamesInv, ServingInv, [Next]_vars
         PROVE (~mishap => Returned)'
  OBVIOUS
<1> USE DeployAssumption DEF TypeOK, NamesInv, Numbered, Replaced, BeforeCreate,
    BeforeRename, BeforeBenchCreates, After, Ids, Backups, NoOld, Prod, Test,
    NoName, Named, Running, Ready, Halted, Stop, Remove, Start, Create, At,
    Quiet, Only, memory, docker, ServingInv, Returned, Restorable, service,
    Ended, Deploying
<1>1. CASE StartScript
  BY <1>1 DEF StartScript
<1>2. CASE LookFindsNone
  BY <1>2 DEF LookFindsNone
<1>3. CASE LookIdle
  BY <1>3 DEF LookIdle
<1>4. CASE LookBusy
  BY <1>4 DEF LookBusy
<1>5. CASE LookGivesUp
  BY <1>5 DEF LookGivesUp
<1>6. CASE StopKv
  BY <1>6 DEF StopKv
<1>7. CASE FindOld
  BY <1>7 DEF FindOld
<1>8. CASE RenameOld
  BY <1>8 DEF RenameOld
<1>9. CASE UpdateOld
  BY <1>9 DEF UpdateOld
<1>10. CASE StopOld
  BY <1>10 DEF StopOld
<1>11. CASE Launch
  BY <1>11 DEF Launch
<1>12. CASE HealthAnswers
  BY <1>12 DEF HealthAnswers
<1>13. CASE HealthFails
  BY <1>13 DEF HealthFails
<1>14. CASE RecordBackup
  BY <1>14 DEF RecordBackup
<1>15. CASE RemoveNew
  BY <1>15 DEF RemoveNew
<1>16. CASE NameBack
  BY <1>16 DEF NameBack
<1>17. CASE PolicyBack
  BY <1>17 DEF PolicyBack
<1>18. CASE StartBack
  BY <1>18 DEF StartBack
<1>19. CASE WaitIdle
  BY <1>19 DEF WaitIdle
<1>20. CASE StopKvFirst
  BY <1>20 DEF StopKvFirst
<1>21. CASE LookAgain
  BY <1>21 DEF LookAgain
<1>22. CASE Backup
  BY <1>22 DEF Backup
<1>23. CASE Save
  BY <1>23 DEF Save
<1>24. CASE SaveFails
  BY <1>24 DEF SaveFails
<1>25. CASE KeepPrevious
  BY <1>25 DEF KeepPrevious
<1>26. CASE Install
  BY <1>26 DEF Install
<1>27. CASE RequestsA
  BY <1>27 DEF RequestsA, Requests
<1>28. CASE StopProd
  BY <1>28 DEF StopProd
<1>29. CASE Mark
  BY <1>29 DEF Mark
<1>30. CASE LaunchTest
  BY <1>30 DEF LaunchTest
<1>31. CASE AwaitTest
  BY <1>31 DEF AwaitTest
<1>32. CASE RequestsB
  BY <1>32 DEF RequestsB, Requests
<1>33. CASE RemoveTest
  BY <1>33 DEF RemoveTest
<1>34. CASE StartProd
  BY <1>34 DEF StartProd
<1>35. CASE AwaitProd
  BY <1>35 DEF AwaitProd
<1>36. CASE StartKv
  BY <1>36 DEF StartKv
<1>37. CASE Breaks
  BY <1>37 DEF Breaks
<1>38. CASE LaunchFails
  BY <1>38 DEF LaunchFails
<1>39. CASE BenchBreaks
  BY <1>39 DEF BenchBreaks
<1>40. CASE Silent
  BY <1>40 DEF Silent
<1>41. CASE Kill
  BY <1>41 DEF Kill
<1>42. CASE RequestStarts
  BY <1>42 DEF RequestStarts
<1>43. CASE RequestEnds
  BY <1>43 DEF RequestEnds
<1>44. CASE KvRestores
  BY <1>44 DEF KvRestores
<1>45. CASE KvSaves
  BY <1>45 DEF KvSaves
<1>46. CASE \E c \in Ids : BecomeReady(c)
  BY <1>46 DEF BecomeReady
<1>47. CASE \E c \in Ids : Exit(c)
  BY <1>47 DEF Exit
<1>48. CASE UNCHANGED vars
  BY <1>48 DEF vars
<1>49. QED BY <1>1, <1>2, <1>3, <1>4, <1>5, <1>6, <1>7, <1>8, <1>9, <1>10,
    <1>11, <1>12, <1>13, <1>14, <1>15, <1>16, <1>17, <1>18, <1>19, <1>20,
    <1>21, <1>22, <1>23, <1>24, <1>25, <1>26, <1>27, <1>28, <1>29, <1>30,
    <1>31, <1>32, <1>33, <1>34, <1>35, <1>36, <1>37, <1>38, <1>39, <1>40,
    <1>41, <1>42, <1>43, <1>44, <1>45, <1>46, <1>47, <1>48
    DEF Next, Deployment, Benchmark, Failure, Host


-------------------------------------------------------------------------------
(* The checkpoint files                                                    *)

\* The kv manager and the benchmark leave files that may replace each other.
LEMMA FilesStep == TypeOK /\ FilesInv /\ [Next]_vars => FilesInv'
<1> SUFFICES ASSUME TypeOK, FilesInv, [Next]_vars PROVE FilesInv'
  OBVIOUS
<1> USE DeployAssumption DEF TypeOK, FilesInv, KvStopped, After, Missing,
    Partial, Bench, Empty, Contents, Idle, Ended, Stop, Remove, Start, At,
    Quiet, Only, memory, service, files
<1>1. CASE StartScript
  BY <1>1 DEF StartScript
<1>2. CASE LookFindsNone
  BY <1>2 DEF LookFindsNone
<1>3. CASE LookIdle
  BY <1>3 DEF LookIdle
<1>4. CASE LookBusy
  BY <1>4 DEF LookBusy
<1>5. CASE LookGivesUp
  BY <1>5 DEF LookGivesUp
<1>6. CASE StopKv
  BY <1>6 DEF StopKv
<1>7. CASE FindOld
  BY <1>7 DEF FindOld
<1>8. CASE RenameOld
  BY <1>8 DEF RenameOld
<1>9. CASE UpdateOld
  BY <1>9 DEF UpdateOld
<1>10. CASE StopOld
  <2>1. UNCHANGED <<files, requests>> /\ pc' \in {"launch"}
    BY <1>10 DEF StopOld
  <2>2. /\ slot' \in {slot, Missing, Bench}
        /\ pc' \in KvStopped => kv' = "stopped"
    BY <1>10 DEF StopOld
  <2>3. QED BY <2>1, <2>2
<1>11. CASE Launch
  BY <1>11 DEF Launch
<1>12. CASE HealthAnswers
  BY <1>12 DEF HealthAnswers
<1>13. CASE HealthFails
  BY <1>13 DEF HealthFails
<1>14. CASE RecordBackup
  BY <1>14 DEF RecordBackup
<1>15. CASE RemoveNew
  BY <1>15 DEF RemoveNew
<1>16. CASE NameBack
  BY <1>16 DEF NameBack
<1>17. CASE PolicyBack
  BY <1>17 DEF PolicyBack
<1>18. CASE StartBack
  BY <1>18 DEF StartBack
<1>19. CASE WaitIdle
  BY <1>19 DEF WaitIdle
<1>20. CASE StopKvFirst
  BY <1>20 DEF StopKvFirst
<1>21. CASE LookAgain
  BY <1>21 DEF LookAgain
<1>22. CASE Backup
  BY <1>22 DEF Backup
<1>23. CASE Save
  BY <1>23 DEF Save
<1>24. CASE SaveFails
  BY <1>24 DEF SaveFails
<1>25. CASE KeepPrevious
  BY <1>25 DEF KeepPrevious
<1>26. CASE Install
  BY <1>26 DEF Install
<1>27. CASE RequestsA
  <2>1. UNCHANGED <<files, requests>> /\ pc' \in {"stopProd", "removeTest"}
    BY <1>27 DEF RequestsA, Requests
  <2>2. /\ slot' \in {slot, Missing, Bench}
        /\ pc' \in KvStopped => kv' = "stopped"
    BY <1>27 DEF RequestsA, Requests
  <2>3. QED BY <2>1, <2>2
<1>28. CASE StopProd
  <2>1. UNCHANGED <<files, requests>> /\ pc' \in {"removeTest", "mark"}
    BY <1>28 DEF StopProd
  <2>2. /\ slot' \in {slot, Missing, Bench}
        /\ pc' \in KvStopped => kv' = "stopped"
    BY <1>28 DEF StopProd
  <2>3. QED BY <2>1, <2>2
<1>29. CASE Mark
  BY <1>29 DEF Mark
<1>30. CASE LaunchTest
  BY <1>30 DEF LaunchTest
<1>31. CASE AwaitTest
  BY <1>31 DEF AwaitTest
<1>32. CASE RequestsB
  <2>1. UNCHANGED <<files, requests>> /\ pc' \in {"removeTest"}
    BY <1>32 DEF RequestsB, Requests
  <2>2. /\ slot' \in {slot, Missing, Bench}
        /\ pc' \in KvStopped => kv' = "stopped"
    BY <1>32 DEF RequestsB, Requests
  <2>3. QED BY <2>1, <2>2
<1>33. CASE RemoveTest
  BY <1>33 DEF RemoveTest
<1>34. CASE StartProd
  BY <1>34 DEF StartProd
<1>35. CASE AwaitProd
  BY <1>35 DEF AwaitProd
<1>36. CASE StartKv
  BY <1>36 DEF StartKv
<1>37. CASE Breaks
  BY <1>37 DEF Breaks
<1>38. CASE LaunchFails
  BY <1>38 DEF LaunchFails
<1>39. CASE BenchBreaks
  BY <1>39 DEF BenchBreaks
<1>40. CASE Silent
  BY <1>40 DEF Silent
<1>41. CASE Kill
  BY <1>41 DEF Kill
<1>42. CASE RequestStarts
  BY <1>42 DEF RequestStarts
<1>43. CASE RequestEnds
  BY <1>43 DEF RequestEnds
<1>44. CASE KvRestores
  BY <1>44 DEF KvRestores
<1>45. CASE KvSaves
  <2>1. /\ pc \notin KvStopped
        /\ UNCHANGED <<pc, slot, kv, requests, abNext, kept>>
        /\ slot # Missing /\ latest' = slot
        /\ previous' = IF latest = Missing THEN previous ELSE latest
    BY <1>45 DEF KvSaves
  <2>2. latest' \notin {Missing, Bench} =>
          \E x \in {slot} \cup kept : x >= previous'
    BY <2>1
  <2>3. QED BY <2>1, <2>2
<1>46. CASE \E c \in Ids : BecomeReady(c)
  BY <1>46 DEF BecomeReady
<1>47. CASE \E c \in Ids : Exit(c)
  BY <1>47 DEF Exit
<1>48. CASE UNCHANGED vars
  BY <1>48 DEF vars
<1>49. QED BY <1>1, <1>2, <1>3, <1>4, <1>5, <1>6, <1>7, <1>8, <1>9, <1>10,
    <1>11, <1>12, <1>13, <1>14, <1>15, <1>16, <1>17, <1>18, <1>19, <1>20,
    <1>21, <1>22, <1>23, <1>24, <1>25, <1>26, <1>27, <1>28, <1>29, <1>30,
    <1>31, <1>32, <1>33, <1>34, <1>35, <1>36, <1>37, <1>38, <1>39, <1>40,
    <1>41, <1>42, <1>43, <1>44, <1>45, <1>46, <1>47, <1>48
    DEF Next, Deployment, Benchmark, Failure, Host


-------------------------------------------------------------------------------
(* The theorems                                                            *)

DInv == TypeOK /\ NamesInv /\ ServingInv /\ FilesInv

\* Production as it is found satisfies everything.
LEMMA InitInv == Init => DInv
<1> SUFFICES ASSUME Init PROVE DInv
  OBVIOUS
<1>a. 0 \in Ids /\ Ids \subseteq Nat
  BY DeployAssumption DEF Ids
<1>b. /\ restart = [c \in Ids |-> c = 0] /\ sound = [c \in Ids |-> c = 0]
      /\ status = [c \in Ids |-> IF c = 0 THEN "ready" ELSE "stopped"]
      /\ name = [c \in Ids |-> IF c = 0 THEN Prod ELSE NoName]
  BY DEF Init
<1>c. restart[0] /\ restart \in [Ids -> BOOLEAN] /\ sound \in [Ids -> BOOLEAN]
  BY <1>a, <1>b, Zenon
<1>d. /\ status \in [Ids -> {"stopped", "loading", "ready"}]
      /\ name \in [Ids -> Backups \cup {Prod, Test, NoName}]
      /\ \A c, d \in Ids : name[c] = name[d] => c = d \/ name[c] = NoName
      /\ \A c, d \in Ready : c = d
  BY <1>a, <1>b DEF Ready
<1>e. DockerOK
  BY <1>c, <1>d DEF DockerOK
<1>f. TypeOK <=> DockerOK /\ OtherOK
  BY DEF TypeOK, DockerOK, OtherOK
<1> USE DeployAssumption DEF Init, Ids, Backups, NoOld, Prod, Test, NoName,
    Missing, Partial, Bench, Empty, Contents, Named, Running, Ready
<1>1. TypeOK
  <2>1. /\ run \in Ids /\ kind \in {"deploy", "bench"}
        /\ old \in Ids \cup {NoOld}
    OBVIOUS
  <2>b. busySeen \in BOOLEAN /\ prodStopped \in BOOLEAN /\ mishap \in BOOLEAN
    BY Zenon
  <2>2. /\ slot \in Contents /\ request \in {"none", "early", "late"}
        /\ requests \in 0..MaxRequests /\ kv \in {"stopped", "booting", "on"}
    OBVIOUS
  <2>3. /\ latest \in Contents /\ previous \in Contents /\ abNext \in Contents
        /\ kept \subseteq Contents /\ faults \in 0..MaxFaults
    OBVIOUS
  <2>4. OtherOK
    BY <2>1, <2>2, <2>3, <2>b DEF OtherOK
  <2>5. QED BY <2>4, <1>e, <1>f
<1>2. NamesInv
  BY DEF NamesInv, Numbered, Replaced, Spared, BeforeCreate, BeforeRename,
         BeforeBenchCreates
<1>3. ServingInv
  <2>1. Up(0)
    BY <1>a, <1>b, <1>c DEF Up, Permanent
  <2>2. QED
    BY <2>1 DEF ServingInv, Orderly, Restorable, Returned, Unplugged,
    Deploying,
         BeforeRename
<1>4. FilesInv
  BY DEF FilesInv, KvStopped
<1>5. QED BY <1>1, <1>2, <1>3, <1>4 DEF DInv

LEMMA DInvariant == Spec => []DInv
<1>1. DInv /\ [Next]_vars => DInv'
  <2> SUFFICES ASSUME DInv, [Next]_vars PROVE DInv'
    OBVIOUS
  <2>1. TypeOK /\ NamesInv /\ ServingInv /\ FilesInv
    BY DEF DInv
  <2>2. TypeOK' /\ Numbered' /\ Replaced' /\ Spared'
    BY <2>1, TypeStep, NumberedStep, ReplacedStep, SparedStep
  <2>3. (~mishap => Orderly)' /\ (~mishap => Restorable)'
        /\ (~mishap => Returned)'
    BY <2>1, OrderlyStep, RestorableStep, ReturnedStep
  <2>4. FilesInv'
    BY <2>1, FilesStep
  <2>5. NamesInv'
    BY <2>2 DEF NamesInv
  <2>6. ServingInv'
    BY <2>3 DEF ServingInv
  <2>7. QED BY <2>2, <2>4, <2>5, <2>6 DEF DInv
<1>2. QED BY <1>1, InitInv, PTL DEF Spec

\* Every variable keeps its type, names are unique and one server is ready.
THEOREM DeployTypeCorrect == Spec => []TypeOK
<1>1. DInv => TypeOK
  BY DEF DInv
<1>2. QED BY <1>1, DInvariant, PTL

\* "model ready" is said of the deployment's own server, whatever earlier runs
\* failed, as long as none was cut off where nothing restores.
THEOREM ReportIsOfTheNew == Spec => []ReportsNew
<1>1. DInv => ReportsNew
  BY DEF DInv, ServingInv, Restorable, ReportsNew
<1>2. QED BY <1>1, DInvariant, PTL

\* The benchmark gives back production, its GPUs and the kv manager.
THEOREM BenchmarkGivesBack == Spec => []GivesBack
<1>1. ASSUME DInv PROVE GivesBack
  <2> SUFFICES ASSUME pc = "over", run > 0, kind = "bench", ~mishap
               PROVE  /\ \A c \in Named(Prod) : Running(c)
                      /\ Named(Prod) # {} /\ Named(Test) = {}
                      /\ kv # "stopped"
    BY DEF GivesBack
  <2>1. PICK c \in Ids : Up(c)
    BY <1>1 DEF DInv, ServingInv, Restorable, Unplugged
  <2>2. Named(Prod) = {c} /\ Running(c)
    BY <1>1, <2>1 DEF DInv, TypeOK, Up, Permanent, Named, Prod, NoName
  <2>3. Named(Test) = {} /\ kv # "stopped"
    BY <1>1 DEF DInv, ServingInv, Returned
  <2>4. QED BY <2>2, <2>3
<1>2. QED BY <1>1, DInvariant, PTL

\* The commands that take a container's name away, or give it one.
LEMMA NameFrame ==
  ASSUME [Next]_vars
  PROVE  RemoveNew \/ RemoveTest \/ RenameOld \/ NameBack
         \/ (\E n \in {Prod, Test}, p \in BOOLEAN,
                s \in {"loading", "stopped"} :
               Create(n, p, s))
         \/ UNCHANGED name
BY DEF Next, Deployment, Benchmark, Failure, Host, vars, docker, StartScript,
  LookFindsNone, LookIdle, LookBusy, LookGivesUp, StopKv, FindOld, UpdateOld,
  StopOld, Launch, HealthAnswers, HealthFails, RecordBackup, PolicyBack,
  StartBack, WaitIdle, StopKvFirst, LookAgain, Backup, Save, SaveFails,
  KeepPrevious, Install, RequestsA, StopProd, Mark, LaunchTest, AwaitTest,
  RequestsB, StartProd, AwaitProd, StartKv, Breaks, LaunchFails, BenchBreaks,
  Silent, Kill, BecomeReady, Exit, RequestStarts, RequestEnds, KvRestores,
  KvSaves, Requests, Stop, Start

\* No run, however it ends, removes a container that an earlier one left in
\* service or kept as a backup.
THEOREM OriginalAlwaysKept == Spec => OriginalKept
<1>1. ASSUME DInv, [Next]_vars, NEW c \in Ids, name[c] # NoName,
             name'[c] = NoName
      PROVE  c = run \/ name[c] = Test
  <2> USE DeployAssumption DEF DInv, TypeOK, Ids, Backups, Prod, Test, NoName,
      Named
  <2>1. CASE RemoveNew
    BY <1>1, <2>1 DEF RemoveNew, Remove, At, NamesInv, Replaced
  <2>2. CASE RemoveTest
    BY <1>1, <2>2 DEF RemoveTest, Remove
  <2>3. CASE RenameOld
    BY <1>1, <2>3 DEF RenameOld
  <2>4. CASE NameBack
    BY <1>1, <2>4 DEF NameBack
  <2>5. CASE \E n \in {Prod, Test}, p \in BOOLEAN,
                   s \in {"loading", "stopped"} :
               Create(n, p, s)
    BY <1>1, <2>5 DEF Create
  <2>6. QED BY <1>1, <2>1, <2>2, <2>3, <2>4, <2>5, NameFrame
<1>2. DInv /\ [Next]_vars =>
        [\A c \in Ids : name[c] # NoName /\ name'[c] = NoName
                          => c = run \/ name[c] = Test]_vars
  BY <1>1
<1>3. QED BY <1>2, DInvariant, PTL DEF Spec, OriginalKept

\* The steps at which a request can leave its server.
LEMMA RequestFrame ==
  ASSUME [Next]_vars, request' # request
  PROVE  StopOld \/ RemoveNew \/ StopProd \/ RemoveTest \/ RequestEnds
         \/ request' # "none"
BY DEF Next, Deployment, Benchmark, Failure, Host, vars, service, StartScript,
  LookFindsNone, LookIdle, LookBusy, LookGivesUp, StopKv, FindOld, RenameOld,
  UpdateOld, Launch, HealthAnswers, HealthFails, RecordBackup, NameBack,
  PolicyBack, StartBack, WaitIdle, StopKvFirst, LookAgain, Backup, Save,
  SaveFails, KeepPrevious, Install, RequestsA, Mark, LaunchTest, AwaitTest,
  RequestsB, StartProd, AwaitProd, StartKv, Breaks, LaunchFails, BenchBreaks,
  Silent, Kill, BecomeReady, Exit, RequestStarts, KvRestores, KvSaves, Requests,
  Start

\* A request that came before the last look of a script is answered, for any
\* number of runs, kills and failing commands.
THEOREM EarlyAlwaysServed == Spec => EarlyServed
<1>1. ASSUME DInv, [Next]_vars, request = "early", request' = "none"
      PROVE  requests' = requests + 1
  <2> USE DEF DInv, NamesInv, Spared, service
  <2>1. CASE StopOld
    BY <1>1, <2>1 DEF StopOld, Stop, Ended, At
  <2>2. CASE RemoveNew
    BY <1>1, <2>2 DEF RemoveNew, Remove, Ended, At
  <2>3. CASE StopProd
    BY <1>1, <2>3 DEF StopProd
  <2>4. CASE RemoveTest
    BY <1>1, <2>4 DEF RemoveTest, Remove, Ended, Ready
  <2>5. CASE RequestEnds
    BY <2>5 DEF RequestEnds
  <2>6. QED BY <1>1, <2>1, <2>2, <2>3, <2>4, <2>5, RequestFrame
<1>2. DInv /\ [Next]_vars =>
        [request = "early" /\ request' = "none"
           => requests' = requests + 1]_vars
  BY <1>1
<1>3. QED BY <1>2, DInvariant, PTL DEF Spec, EarlyServed

\* The steps that write the kv manager's files or keep a copy.
LEMMA FilesFrame ==
  ASSUME [Next]_vars
  PROVE  Backup \/ KeepPrevious \/ Install \/ KvSaves
         \/ UNCHANGED <<latest, previous, kept>>
BY DEF Next, Deployment, Benchmark, Failure, Host, vars, files, StartScript,
  LookFindsNone, LookIdle, LookBusy, LookGivesUp, StopKv, FindOld, RenameOld,
  UpdateOld, StopOld, Launch, HealthAnswers, HealthFails, RecordBackup,
  RemoveNew, NameBack, PolicyBack, StartBack, WaitIdle, StopKvFirst, LookAgain,
  Save, SaveFails, RequestsA, StopProd, Mark, LaunchTest, AwaitTest, RequestsB,
  RemoveTest, StartProd, AwaitProd, StartKv, Breaks, LaunchFails, BenchBreaks,
  Silent, Kill, BecomeReady, Exit, RequestStarts, RequestEnds, KvRestores,
  Requests, Only

\* Each of them leaves a copy as recent as the best there was.
LEMMA HeldStep ==
  ASSUME TypeOK, FilesInv, [Next]_vars, latest # Bench,
         NEW n \in 1..MaxRequests + 1, Held(n)
  PROVE  Held(n)'
<1> USE DeployAssumption DEF TypeOK, FilesInv, Held, Contents, Missing, Partial,
    Bench, Empty, At, KvStopped
<1>1. CASE Backup
  BY <1>1 DEF Backup
<1>2. CASE KeepPrevious
  BY <1>2 DEF KeepPrevious
<1>3. CASE Install
  BY <1>3 DEF Install
<1>4. CASE KvSaves
  BY <1>4 DEF KvSaves
<1>5. CASE UNCHANGED <<latest, previous, kept>>
  BY <1>5
<1>6. QED BY <1>1, <1>2, <1>3, <1>4, <1>5, FilesFrame

\* The newest conversation on disk stays there, whatever run is cut off where.
THEOREM ConversationAlwaysKept == Spec => ConversationKept
<1>1. DInv /\ [Next]_vars =>
        [latest # Bench =>
           \A n \in 1..MaxRequests + 1 : Held(n) => Held(n)']_vars
  BY HeldStep DEF DInv
<1>2. QED BY <1>1, DInvariant, PTL DEF Spec, ConversationKept

-------------------------------------------------------------------------------
(* ProductionBack needs fairness and is left to TLC; that production is on its *)
(* way back whenever no script is about to bring it back, and that a script    *)
(* only goes forward, is proved.                                               *)

\* What is ready has been able to become so.  Only a container that a run has
\* created and not seen ready may be broken, and its trap removes that by name.
SoundInv ==
  /\ \A c \in Ready : sound[c]
  /\ ~mishap => \A c \in Ids : name[c] # NoName /\ ~sound[c] =>
       /\ c = run
       /\ \/ pc \in {"health", "remove"} /\ name[c] = Prod
          \/ pc \in {"awaitTest", "requestsB", "removeTest"} /\ name[c] = Test

OnItsWay(c) == status[c] = "loading" /\ sound[c] /\ restart[c]

\* No server is up, and no command of a script is to come that starts one.
WayBack ==
  ~mishap /\ Ready = {} /\ pc \notin Unplugged
    => \E c \in Named(Prod) : OnItsWay(c)

\* Servers that are ready have been able to.
LEMMA ReadySoundStep ==
  TypeOK /\ NamesInv /\ SoundInv /\ [Next]_vars => \A c \in Ready' : sound'[c]
<1> SUFFICES ASSUME TypeOK, NamesInv, SoundInv, [Next]_vars
             PROVE  \A c \in Ready' : sound'[c]
  OBVIOUS
<1> USE DEF TypeOK, SoundInv, Ready, Halted, Stop, Remove, Start, Create,
    Quiet, Only, docker, At
<1>1. CASE StartScript
  BY <1>1 DEF StartScript
<1>2. CASE LookFindsNone
  BY <1>2 DEF LookFindsNone
<1>3. CASE LookIdle
  BY <1>3 DEF LookIdle
<1>4. CASE LookBusy
  BY <1>4 DEF LookBusy
<1>5. CASE LookGivesUp
  BY <1>5 DEF LookGivesUp
<1>6. CASE StopKv
  BY <1>6 DEF StopKv
<1>7. CASE FindOld
  BY <1>7 DEF FindOld
<1>8. CASE RenameOld
  BY <1>8 DEF RenameOld
<1>9. CASE UpdateOld
  BY <1>9 DEF UpdateOld
<1>10. CASE StopOld
  BY <1>10 DEF StopOld
<1>11. CASE Launch
  BY <1>11 DEF Launch
<1>12. CASE HealthAnswers
  BY <1>12 DEF HealthAnswers
<1>13. CASE HealthFails
  BY <1>13 DEF HealthFails
<1>14. CASE RecordBackup
  BY <1>14 DEF RecordBackup
<1>15. CASE RemoveNew
  BY <1>15 DEF RemoveNew
<1>16. CASE NameBack
  BY <1>16 DEF NameBack
<1>17. CASE PolicyBack
  BY <1>17 DEF PolicyBack
<1>18. CASE StartBack
  BY <1>18 DEF StartBack
<1>19. CASE WaitIdle
  BY <1>19 DEF WaitIdle
<1>20. CASE StopKvFirst
  BY <1>20 DEF StopKvFirst
<1>21. CASE LookAgain
  BY <1>21 DEF LookAgain
<1>22. CASE Backup
  BY <1>22 DEF Backup
<1>23. CASE Save
  BY <1>23 DEF Save
<1>24. CASE SaveFails
  BY <1>24 DEF SaveFails
<1>25. CASE KeepPrevious
  BY <1>25 DEF KeepPrevious
<1>26. CASE Install
  BY <1>26 DEF Install
<1>27. CASE RequestsA
  BY <1>27 DEF RequestsA, Requests
<1>28. CASE StopProd
  BY <1>28 DEF StopProd
<1>29. CASE Mark
  BY <1>29 DEF Mark
<1>30. CASE LaunchTest
  BY <1>30 DEF LaunchTest
<1>31. CASE AwaitTest
  BY <1>31 DEF AwaitTest
<1>32. CASE RequestsB
  BY <1>32 DEF RequestsB, Requests
<1>33. CASE RemoveTest
  BY <1>33 DEF RemoveTest
<1>34. CASE StartProd
  BY <1>34 DEF StartProd
<1>35. CASE AwaitProd
  BY <1>35 DEF AwaitProd
<1>36. CASE StartKv
  BY <1>36 DEF StartKv
<1>37. CASE Breaks
  BY <1>37 DEF Breaks
<1>38. CASE LaunchFails
  BY <1>38 DEF LaunchFails
<1>39. CASE BenchBreaks
  BY <1>39 DEF BenchBreaks
<1>40. CASE Silent
  BY <1>40 DEF Silent
<1>41. CASE Kill
  BY <1>41 DEF Kill
<1>42. CASE RequestStarts
  BY <1>42 DEF RequestStarts
<1>43. CASE RequestEnds
  BY <1>43 DEF RequestEnds
<1>44. CASE KvRestores
  BY <1>44 DEF KvRestores
<1>45. CASE KvSaves
  BY <1>45 DEF KvSaves
<1>46. CASE \E c \in Ids : BecomeReady(c)
  BY <1>46 DEF BecomeReady
<1>47. CASE \E c \in Ids : Exit(c)
  BY <1>47 DEF Exit
<1>48. CASE UNCHANGED vars
  BY <1>48 DEF vars
<1>49. QED
  BY <1>1, <1>2, <1>3, <1>4, <1>5, <1>6, <1>7, <1>8, <1>9, <1>10, <1>11,
     <1>12, <1>13, <1>14, <1>15, <1>16, <1>17, <1>18, <1>19, <1>20, <1>21,
     <1>22, <1>23, <1>24, <1>25, <1>26, <1>27, <1>28, <1>29, <1>30, <1>31,
     <1>32, <1>33, <1>34, <1>35, <1>36, <1>37, <1>38, <1>39, <1>40, <1>41,
     <1>42, <1>43, <1>44, <1>45, <1>46, <1>47, <1>48
     DEF Next, Deployment, Benchmark, Failure, Host

\* Until a mishap, what cannot become ready is removed by the run that made it.
LEMMA UnsoundStep ==
  TypeOK /\ NamesInv /\ ServingInv /\ SoundInv /\ [Next]_vars
    => (~mishap => \A c \in Ids : name[c] # NoName /\ ~sound[c] =>
       /\ c = run
       /\ \/ pc \in {"health", "remove"} /\ name[c] = Prod
          \/ pc \in {"awaitTest", "requestsB", "removeTest"}
               /\ name[c] = Test)'
<1> SUFFICES ASSUME TypeOK, NamesInv, ServingInv, SoundInv, [Next]_vars,
                    ~mishap', NEW c \in Ids, name'[c] # NoName, ~sound'[c]
             PROVE  /\ c = run'
                    /\ \/ pc' \in {"health", "remove"} /\ name'[c] = Prod
                       \/ /\ pc' \in {"awaitTest", "requestsB", "removeTest"}
                          /\ name'[c] = Test
  OBVIOUS
<1> USE DeployAssumption DEF TypeOK, NamesInv, Numbered, Replaced, BeforeCreate,
    BeforeRename, BeforeBenchCreates, After, Ids, Backups, NoOld, Prod, Test,
    NoName, Named, Ready, Stop, Remove, Start, Create, At, Quiet, Only, memory,
    docker, ServingInv, Restorable, SoundInv
<1>1. CASE StartScript
  BY <1>1 DEF StartScript
<1>2. CASE LookFindsNone
  BY <1>2 DEF LookFindsNone
<1>3. CASE LookIdle
  BY <1>3 DEF LookIdle
<1>4. CASE LookBusy
  BY <1>4 DEF LookBusy
<1>5. CASE LookGivesUp
  BY <1>5 DEF LookGivesUp
<1>6. CASE StopKv
  BY <1>6 DEF StopKv
<1>7. CASE FindOld
  BY <1>7 DEF FindOld
<1>8. CASE RenameOld
  BY <1>8 DEF RenameOld
<1>9. CASE UpdateOld
  BY <1>9 DEF UpdateOld
<1>10. CASE StopOld
  BY <1>10 DEF StopOld
<1>11. CASE Launch
  BY <1>11 DEF Launch
<1>12. CASE HealthAnswers
  <2>1. pc = "health" /\ UNCHANGED <<docker, mishap, run>>
    BY <1>12 DEF HealthAnswers
  <2>2. PICK d \in Ready : TRUE
    BY <1>12 DEF HealthAnswers
  <2>3. name[d] = Prod /\ name[run] = Prod /\ run \in Ids
    BY <2>1, <2>2 DEF Orderly, Up, Permanent, Running
  <2>4. d = run
    BY <2>2, <2>3
  <2>5. sound[run]
    BY <2>2, <2>4
  <2> QED
    BY <2>1, <2>5
<1>13. CASE HealthFails
  BY <1>13 DEF HealthFails
<1>14. CASE RecordBackup
  BY <1>14 DEF RecordBackup
<1>15. CASE RemoveNew
  BY <1>15 DEF RemoveNew
<1>16. CASE NameBack
  BY <1>16 DEF NameBack
<1>17. CASE PolicyBack
  BY <1>17 DEF PolicyBack
<1>18. CASE StartBack
  BY <1>18 DEF StartBack
<1>19. CASE WaitIdle
  BY <1>19 DEF WaitIdle
<1>20. CASE StopKvFirst
  BY <1>20 DEF StopKvFirst
<1>21. CASE LookAgain
  BY <1>21 DEF LookAgain
<1>22. CASE Backup
  BY <1>22 DEF Backup
<1>23. CASE Save
  BY <1>23 DEF Save
<1>24. CASE SaveFails
  BY <1>24 DEF SaveFails
<1>25. CASE KeepPrevious
  BY <1>25 DEF KeepPrevious
<1>26. CASE Install
  BY <1>26 DEF Install
<1>27. CASE RequestsA
  BY <1>27 DEF RequestsA, Requests
<1>28. CASE StopProd
  BY <1>28 DEF StopProd
<1>29. CASE Mark
  BY <1>29 DEF Mark
<1>30. CASE LaunchTest
  BY <1>30 DEF LaunchTest
<1>31. CASE AwaitTest
  BY <1>31 DEF AwaitTest
<1>32. CASE RequestsB
  BY <1>32 DEF RequestsB, Requests
<1>33. CASE RemoveTest
  BY <1>33 DEF RemoveTest
<1>34. CASE StartProd
  BY <1>34 DEF StartProd
<1>35. CASE AwaitProd
  BY <1>35 DEF AwaitProd
<1>36. CASE StartKv
  BY <1>36 DEF StartKv
<1>37. CASE Breaks
  BY <1>37 DEF Breaks
<1>38. CASE LaunchFails
  BY <1>38 DEF LaunchFails
<1>39. CASE BenchBreaks
  BY <1>39 DEF BenchBreaks
<1>40. CASE Silent
  BY <1>40 DEF Silent
<1>41. CASE Kill
  BY <1>41 DEF Kill
<1>42. CASE RequestStarts
  BY <1>42 DEF RequestStarts
<1>43. CASE RequestEnds
  BY <1>43 DEF RequestEnds
<1>44. CASE KvRestores
  BY <1>44 DEF KvRestores
<1>45. CASE KvSaves
  BY <1>45 DEF KvSaves
<1>46. CASE \E d \in Ids : BecomeReady(d)
  BY <1>46 DEF BecomeReady
<1>47. CASE \E d \in Ids : Exit(d)
  BY <1>47 DEF Exit
<1>48. CASE UNCHANGED vars
  BY <1>48 DEF vars
<1>49. QED
  BY <1>1, <1>2, <1>3, <1>4, <1>5, <1>6, <1>7, <1>8, <1>9, <1>10, <1>11,
     <1>12, <1>13, <1>14, <1>15, <1>16, <1>17, <1>18, <1>19, <1>20, <1>21,
     <1>22, <1>23, <1>24, <1>25, <1>26, <1>27, <1>28, <1>29, <1>30, <1>31,
     <1>32, <1>33, <1>34, <1>35, <1>36, <1>37, <1>38, <1>39, <1>40, <1>41,
     <1>42, <1>43, <1>44, <1>45, <1>46, <1>47, <1>48
     DEF Next, Deployment, Benchmark, Failure, Host

LEMMA SoundInvariant == Spec => [](DInv /\ SoundInv)
<1>1. Init => SoundInv
  BY DEF Init, SoundInv, Ready, Prod, NoName
<1>2. DInv /\ SoundInv /\ [Next]_vars => SoundInv'
  BY ReadySoundStep, UnsoundStep DEF DInv, SoundInv
<1>3. QED BY <1>1, <1>2, DInvariant, PTL DEF Spec

\* Production is never forgotten: until a run is cut off where nothing puts
\* things back, when no server answers and no script is about to start one, the
\* container of production's name is loading, can become ready, and Docker
\* restarts it if it must.
THEOREM AlwaysAWayBack == Spec => []WayBack
<1>1. ASSUME DInv, SoundInv, ~mishap, Ready = {}, pc \notin Unplugged
      PROVE  \E c \in Named(Prod) : OnItsWay(c)
  <2>1. PICK c \in Ids : Up(c)
    BY <1>1 DEF DInv, ServingInv, Restorable
  <2>2. c \in Named(Prod) /\ restart[c] /\ status[c] = "loading"
    BY <1>1, <2>1 DEF Up, Permanent, Named, Running, Ready
  <2>3. sound[c]
    BY <1>1, <2>1, <2>2 DEF SoundInv, Unplugged, Named, Prod, Test, NoName
  <2>4. QED BY <2>2, <2>3 DEF OnItsWay
<1>2. DInv /\ SoundInv => WayBack
  BY <1>1 DEF WayBack
<1>3. QED BY <1>2, SoundInvariant, PTL

\* The commands that are left, at most, to either script.
CommandsLeft ==
  [look |-> 19, stopKv |-> 18, find |-> 17, rename |-> 16, update |-> 15,
   stop |-> 14, launch |-> 13, health |-> 12, remove |-> 11, nameBack |-> 10,
   policyBack |-> 9, startBack |-> 8, record |-> 7,
   waitIdle |-> 19, stopKvFirst |-> 18, lookAgain |-> 17, backup |-> 16,
   save |-> 15, keepPrevious |-> 14, install |-> 13, requestsA |-> 12,
   stopProd |-> 11, mark |-> 10, launchTest |-> 9, awaitTest |-> 8,
   requestsB |-> 7, removeTest |-> 6, startProd |-> 5, awaitProd |-> 4,
   startKv |-> 3, over |-> 0]

GoesForward ==
  pc # "over" => UNCHANGED pc \/ CommandsLeft[pc'] < CommandsLeft[pc]

PcOK == pc \in DOMAIN CommandsLeft

LEMMA ForwardStep ==
  ASSUME PcOK, [Next]_vars
  PROVE  PcOK' /\ GoesForward
<1> USE DEF At, After, CommandsLeft, PcOK, GoesForward
<1>1. CASE Deployment
  <2>1. CASE LookFindsNone \/ LookIdle \/ LookBusy \/ LookGivesUp
    BY <2>1 DEF LookFindsNone, LookIdle, LookBusy, LookGivesUp
  <2>2. CASE StopKv \/ FindOld \/ RenameOld \/ UpdateOld \/ StopOld
    BY <2>2 DEF StopKv, FindOld, RenameOld, UpdateOld, StopOld
  <2>3. CASE Launch
    <3>1. pc = "launch" /\ pc' = "health"
      BY <2>3 DEF Launch
    <3> QED
      BY <3>1
  <2>4. CASE HealthAnswers \/ HealthFails \/ RecordBackup
    BY <2>4 DEF HealthAnswers, HealthFails, RecordBackup
  <2>5. CASE RemoveNew \/ NameBack
    BY <2>5 DEF RemoveNew, NameBack
  <2>6. CASE PolicyBack \/ StartBack
    BY <2>6 DEF PolicyBack, StartBack
  <2>7. QED BY <1>1, <2>1, <2>2, <2>3, <2>4, <2>5, <2>6 DEF Deployment
<1>2. CASE Benchmark
  <2>1. CASE WaitIdle \/ StopKvFirst \/ LookAgain
    BY <2>1 DEF WaitIdle, StopKvFirst, LookAgain
  <2>2. CASE Backup \/ Save \/ SaveFails \/ KeepPrevious \/ Install
    BY <2>2 DEF Backup, Save, SaveFails, KeepPrevious, Install
  <2>3. CASE RequestsA \/ RequestsB
    BY <2>3 DEF RequestsA, Requests, RequestsB
  <2>4. CASE StopProd \/ Mark \/ AwaitTest
    BY <2>4 DEF StopProd, Mark, AwaitTest
  <2>5. CASE LaunchTest
    <3>1. pc = "launchTest" /\ pc' \in {"awaitTest", "removeTest"}
      BY <2>5 DEF LaunchTest
    <3> QED
      BY <3>1
  <2>6. CASE RemoveTest \/ StartProd \/ AwaitProd \/ StartKv
    BY <2>6 DEF RemoveTest, StartProd, AwaitProd, StartKv
  <2>7. QED BY <1>2, <2>1, <2>2, <2>3, <2>4, <2>5, <2>6 DEF Benchmark
<1>3. CASE Breaks \/ LaunchFails \/ BenchBreaks \/ Silent
  <2>1. CASE Breaks
    BY <2>1 DEF Breaks
  <2>2. CASE LaunchFails
    <3>1. pc = "launch" /\ pc' = "remove"
      BY <2>2 DEF LaunchFails
    <3> QED
      BY <3>1
  <2>3. CASE BenchBreaks
    BY <2>3 DEF BenchBreaks
  <2>4. CASE Silent
    BY <2>4 DEF Silent
  <2>5. QED BY <1>3, <2>1, <2>2, <2>3, <2>4
<1>4. CASE Kill
  BY <1>4 DEF Kill
<1>5. CASE Host \/ UNCHANGED vars
  <2>1. UNCHANGED pc
    BY <1>5 DEF Host, BecomeReady, Exit, RequestStarts, RequestEnds,
       KvRestores, KvSaves, vars
  <2>2. QED BY <2>1
<1>6. CASE StartScript
  BY <1>6 DEF StartScript
<1>7. QED BY <1>1, <1>2, <1>3, <1>4, <1>5, <1>6 DEF Next, Failure

\* A script never goes back to a command: neither failures nor traps make it
\* repeat one, and only the look at a busy slot stays where it is.
THEOREM ScriptsGoForward == Spec => [][GoesForward]_vars
<1>1. Init => PcOK
  BY DEF Init, PcOK, CommandsLeft
<1>2. PcOK /\ [Next]_vars => PcOK' /\ [GoesForward]_vars
  BY ForwardStep
<1>3. QED BY <1>1, <1>2, PTL DEF Spec
===============================================================================
