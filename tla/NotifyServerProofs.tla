-------------------------- MODULE NotifyServerProofs --------------------------
(***************************************************************************)
(* Proofs about NotifyServer for any number of daemons and requests: IInv  *)
(* is inductive, and it implies the safety properties of the daemon's      *)
(* life.                                                                   *)
(***************************************************************************)
EXTENDS NotifyServer, TLAPS

\* The places of the main thread, in one step for the provers.
LEMMA Places ==
  /\ Serving \subseteq Owning /\ Owning \subseteq PcValues
  /\ Serving \subseteq Cleared /\ Cleared \subseteq Owning
  /\ {"off", "create", "shm", "giveup", "unlinkpid"} \cap Owning = {}
  /\ {"map", "clear"} \cap Cleared = {}
BY DEF Serving, Waiting, Cleared, Owning, PcValues

\* No daemon runs and no segment exists.
LEMMA InitIInv == Init => IInv
<1> SUFFICES ASSUME Init PROVE IInv
  OBVIOUS
<1>1. TypeOK
  BY DEF Init, TypeOK, PcValues
<1>2. OwnersAreUp /\ OwnersDiffer /\ OwnersAreNamed /\ NoOrphanSegment
  BY Places DEF Init, OwnersAreUp, OwnersDiffer, OwnersAreNamed, NoOrphanSegment
<1>3. OneRuns /\ PidFileNames /\ GrantedIsServed
  BY DEF Init, OneRuns, PidFileNames, GrantedIsServed, Running
<1> QED
  BY <1>1, <1>2, <1>3 DEF IInv

-----------------------------------------------------------------------------
(* Types. *)

\* A daemon that is gone leaves well-typed memory.
LEMMA ExitType ==
  ASSUME TypeOK, NEW d \in Daemons, Exit(d)
  PROVE  /\ pc' \in [Daemons -> PcValues]
         /\ own' \in [Daemons -> Segments \cup {NoSegment}]
         /\ exit_main' \in [Daemons -> BOOLEAN]
         /\ inotify' \in [Daemons -> BOOLEAN]
         /\ records' \in [Daemons -> BOOLEAN]
         /\ granted' \subseteq Cgi \X Segments
         /\ table' \subseteq Cgi \X Segments
<1>1. pc' \in [Daemons -> PcValues]
  BY DEF TypeOK, Exit, PcValues
<1> QED
  BY <1>1 DEF TypeOK, Exit

LEMMA MainType ==
  ASSUME TypeOK, NEW d \in Daemons, Main(d)
  PROVE  TypeOK'
<1>1. CASE CreatePidFails(d) \/ SetupFails(d) \/ GiveUp(d) \/ UnlinkPid(d)
  BY <1>1, ExitType
     DEF TypeOK, CreatePidFails, SetupFails, GiveUp, UnlinkPid, Forget, history
<1>2. CASE CreatePid(d) \/ MapShmFails(d) \/ UnlinkShm(d) \/ Clear(d)
  BY <1>2
     DEF TypeOK, CreatePid, MapShmFails, UnlinkShm, Clear, Goto, PcValues, Owning,
         Serving, Waiting, files, main, requests, history
<1>3. CASE OpenShm(d)
  BY <1>3
     DEF TypeOK, OpenShm, IsFree, Goto, PcValues, Owning, main, history
<1>4. CASE ShmExists(d) \/ MapShm(d) \/ WatchFails(d) \/ EnterPoll(d) \/ ScanFiles(d)
           \/ Unmap(d)
  BY <1>4
     DEF TypeOK, ShmExists, MapShm, WatchFails, EnterPoll, ScanFiles, Unmap, Goto,
         PcValues, Owning, Serving, Waiting, files, main, requests, history
<1>5. CASE Listen(d) \/ HandleRecords(d)
  BY <1>5
     DEF TypeOK, Listen, HandleRecords, Goto, PcValues, Owning, Serving, Waiting,
         files, requests, history
<1>6. CASE TestExit(d)
  BY <1>6
     DEF TypeOK, TestExit, Goto, PcValues, Owning, Serving, Waiting, files, main,
         requests, history
<1> QED
  BY <1>1, <1>2, <1>3, <1>4, <1>5, <1>6 DEF Main

LEMMA OthersType ==
  ASSUME TypeOK, NEW d \in Daemons, Others(d)
  PROVE  TypeOK'
<1>1. CASE CheckPid(d)
  BY <1>1 DEF TypeOK, CheckPid, Goto, PcValues, files, main, requests
<1>2. CASE PollFails(d) \/ PrintSubscriptions(d) \/ SignalHandler(d) \/ FileEvent(d)
  BY <1>2
     DEF TypeOK, PollFails, PrintSubscriptions, SignalHandler, FileEvent, Interrupt,
         Goto, PcValues, Owning, Serving, Waiting, files, main, requests, history
<1>3. CASE Dies(d)
  BY <1>3, ExitType DEF TypeOK, Dies, Forget
<1> QED
  BY <1>1, <1>2, <1>3 DEF Others

\* Type correctness is inductive by itself.
LEMMA NextType == TypeOK /\ [Next]_vars => TypeOK'
<1> SUFFICES ASSUME TypeOK, [Next]_vars PROVE TypeOK'
  OBVIOUS
<1>1. ASSUME NEW d \in Daemons, Main(d) \/ Others(d) PROVE TypeOK'
  BY <1>1, MainType, OthersType
<1>2. CASE OpenFails
  BY <1>2 DEF TypeOK, OpenFails, main, requests
<1>3. ASSUME NEW c \in Cgi, Subscribe(c) PROVE TypeOK'
  BY <1>3 DEF TypeOK, Subscribe, files, main, history
<1>4. CASE UNCHANGED vars
  BY <1>4 DEF TypeOK, vars, files, main, requests, history
<1> QED
  BY <1>1, <1>2, <1>3, <1>4 DEF Next

-----------------------------------------------------------------------------
(* Steps. *)

\* A step that leaves the names and the subscriptions alone, and takes no main
\* thread across a border that IInv knows of, keeps IInv.
LEMMA QuietStep ==
  ASSUME IInv, TypeOK', UNCHANGED <<own, files, requests, history>>,
         \A d \in Daemons :
           /\ pc'[d] \in Owning <=> pc[d] \in Owning
           /\ pc'[d] = "off" <=> pc[d] = "off"
           /\ pc'[d] \notin {"off", "create"} => pc[d] \notin {"off", "create"}
           /\ pc[d] \in Cleared => pc'[d] \in Cleared
  PROVE  IInv'
<1>1. OwnersAreUp' /\ OwnersDiffer' /\ OwnersAreNamed' /\ NoOrphanSegment'
  BY DEF IInv, OwnersAreUp, OwnersDiffer, OwnersAreNamed, NoOrphanSegment, files,
         history
<1>2. OneRuns' /\ PidFileNames'
  BY DEF IInv, OneRuns, PidFileNames, Running, files, history
<1>3. GrantedIsServed'
  BY DEF IInv, GrantedIsServed, requests
<1> QED
  BY <1>1, <1>2, <1>3 DEF IInv

\* Most of the main thread's steps are quiet.
LEMMA MainQuietStep ==
  ASSUME IInv, TypeOK', NEW d \in Daemons,
         \/ ShmExists(d) \/ MapShm(d) \/ Listen(d) \/ WatchFails(d) \/ TestExit(d)
         \/ EnterPoll(d) \/ HandleRecords(d) \/ ScanFiles(d) \/ Unmap(d)
  PROVE  IInv'
<1> USE DEF Goto, Owning, Cleared, Serving, Waiting
<1>1. UNCHANGED <<own, files, requests, history>>
  BY DEF ShmExists, MapShm, Listen, WatchFails, TestExit, EnterPoll, HandleRecords,
         ScanFiles, Unmap
<1>2. PICK from \in PcValues, to \in PcValues :
        /\ pc[d] = from /\ pc' = [pc EXCEPT ![d] = to]
        /\ \/ from = "shm" /\ to = "giveup"
           \/ from = "map" /\ to = "clear"
           \/ from \in Cleared /\ to \in Cleared
  BY DEF ShmExists, MapShm, Listen, WatchFails, TestExit, EnterPoll, HandleRecords,
         ScanFiles, Unmap, PcValues
<1>3. pc \in [Daemons -> PcValues]
  BY DEF IInv, TypeOK
<1>4. \A e \in Daemons :
        /\ pc'[e] \in Owning <=> pc[e] \in Owning
        /\ pc'[e] = "off" <=> pc[e] = "off"
        /\ pc'[e] \notin {"off", "create"} => pc[e] \notin {"off", "create"}
        /\ pc[e] \in Cleared => pc'[e] \in Cleared
  BY <1>2, <1>3
<1> QED
  BY <1>1, <1>4, QuietStep

\* So are signals, records, and an error of poll.
LEMMA OthersQuietStep ==
  ASSUME IInv, TypeOK', NEW d \in Daemons,
         PollFails(d) \/ FileEvent(d) \/ SignalHandler(d) \/ PrintSubscriptions(d)
  PROVE  IInv'
<1> USE DEF Goto, Owning, Cleared, Serving, Waiting
<1>1. UNCHANGED <<own, files, requests, history>>
  BY DEF PollFails, FileEvent, SignalHandler, PrintSubscriptions
<1>2. pc' = pc \/ (pc[d] = "poll" /\ pc' = [pc EXCEPT ![d] = "test"])
  BY DEF PollFails, FileEvent, SignalHandler, PrintSubscriptions, Interrupt
<1>3. pc \in [Daemons -> PcValues]
  BY DEF IInv, TypeOK
<1>4. \A e \in Daemons :
        /\ pc'[e] \in Owning <=> pc[e] \in Owning
        /\ pc'[e] = "off" <=> pc[e] = "off"
        /\ pc'[e] \notin {"off", "create"} => pc[e] \notin {"off", "create"}
        /\ pc[e] \in Cleared => pc'[e] \in Cleared
  BY <1>2, <1>3
<1> QED
  BY <1>1, <1>4, QuietStep

\* A start that finds no running process in the pid file is the only one, or
\* another is between its check and its file.
LEMMA CheckPidStep ==
  ASSUME IInv, TypeOK', NEW d \in Daemons, CheckPid(d)
  PROVE  IInv'
<1>1. /\ pc \in [Daemons -> PcValues] /\ pc[d] = "off" /\ pc' = [pc EXCEPT ![d] = "create"]
      /\ UNCHANGED <<own, files, requests, lost, died>>
      /\ pidfile = NoPid
      /\ overlapped' = (overlapped \/ \E e \in Daemons : pc[e] = "create")
  BY DEF IInv, TypeOK, CheckPid, Goto
<1>2. OwnersAreUp' /\ OwnersDiffer' /\ OwnersAreNamed' /\ NoOrphanSegment'
  BY <1>1, Places
     DEF IInv, OwnersAreUp, OwnersDiffer, OwnersAreNamed, NoOrphanSegment, files
<1>3. ~overlapped' => \A e \in Daemons : pc[e] = "off"
  BY <1>1, DaemonsAssumption DEF IInv, PidFileNames
<1>4. OneRuns' /\ PidFileNames'
  BY <1>1, <1>3 DEF OneRuns, PidFileNames, Running, files
<1>5. GrantedIsServed'
  BY <1>1, Places DEF IInv, GrantedIsServed, requests
<1> QED
  BY <1>2, <1>4, <1>5 DEF IInv

LEMMA CreatePidStep ==
  ASSUME IInv, TypeOK', NEW d \in Daemons, CreatePid(d)
  PROVE  IInv'
<1>1. /\ pc \in [Daemons -> PcValues] /\ pc[d] = "create" /\ pc' = [pc EXCEPT ![d] = "shm"]
      /\ pidfile' = d
      /\ UNCHANGED <<own, shm, requests, history>>
  BY DEF IInv, TypeOK, CreatePid, Goto
<1>2. OwnersAreUp' /\ OwnersDiffer' /\ OwnersAreNamed' /\ NoOrphanSegment'
  BY <1>1, Places
     DEF IInv, OwnersAreUp, OwnersDiffer, OwnersAreNamed, NoOrphanSegment, history
<1>3. OneRuns' /\ PidFileNames'
  BY <1>1 DEF IInv, OneRuns, PidFileNames, Running, history
<1>4. GrantedIsServed'
  BY <1>1, Places DEF IInv, GrantedIsServed, requests
<1> QED
  BY <1>2, <1>3, <1>4 DEF IInv

\* A daemon ends, in order, for a failure, or killed. If it still has its
\* segment, it is killed; if it removes the pid file, the file was its own or
\* daemons have overlapped.
LEMMA ExitStep ==
  ASSUME IInv, TypeOK', NEW d \in Daemons, Exit(d), UNCHANGED <<shm, overlapped, lost>>,
         pidfile' \in {pidfile, NoPid},
         died' = (died \/ own[d] # NoSegment)
  PROVE  IInv'
<1>1. /\ pc \in [Daemons -> PcValues] /\ pc[d] # "off" /\ pc' = [pc EXCEPT ![d] = "off"]
      /\ own \in [Daemons -> Segments \cup {NoSegment}]
      /\ own' = [own EXCEPT ![d] = NoSegment]
      /\ granted' = {t \in granted : t[2] # own[d]}
      /\ granted \subseteq Cgi \X Segments
      /\ table' = table
  BY DEF IInv, TypeOK, Exit, Running
<1>2. OwnersAreUp' /\ OwnersDiffer' /\ OwnersAreNamed'
  BY <1>1, Places DEF IInv, OwnersAreUp, OwnersDiffer, OwnersAreNamed
<1>3. NoOrphanSegment'
  BY <1>1 DEF IInv, NoOrphanSegment
<1>4. OneRuns' /\ PidFileNames'
  BY <1>1 DEF IInv, OneRuns, PidFileNames, Running
<1>5. GrantedIsServed'
  BY <1>1, Places DEF IInv, GrantedIsServed
<1> QED
  BY <1>2, <1>3, <1>4, <1>5 DEF IInv

\* O_EXCL: nobody has a segment that is still named when a new one is made.
LEMMA OpenShmStep ==
  ASSUME IInv, TypeOK', NEW d \in Daemons, OpenShm(d)
  PROVE  IInv'
<1> DEFINE s == NewSegment
<1>1. /\ pc \in [Daemons -> PcValues] /\ pc[d] = "shm" /\ pc' = [pc EXCEPT ![d] = "map"]
      /\ own \in [Daemons -> Segments \cup {NoSegment}]
      /\ shm = NoSegment /\ shm' = s /\ own' = [own EXCEPT ![d] = s]
      /\ table' = {t \in table : t[2] # s}
      /\ UNCHANGED <<pidfile, granted, history>>
  BY DEF IInv, TypeOK, OpenShm, Goto
<1>2. s \in Segments /\ s # NoSegment /\ \A e \in Daemons : own[e] # s
  BY SegmentsAssumption DEF OpenShm, IsFree
<1> HIDE DEF s
<1>3. OwnersAreUp' /\ NoOrphanSegment'
  BY <1>1, <1>2, Places DEF IInv, OwnersAreUp, NoOrphanSegment, Owning
<1>4. OwnersDiffer' /\ OwnersAreNamed'
  BY <1>1, <1>2 DEF IInv, OwnersDiffer, OwnersAreNamed, NoOrphanSegment, history
<1>5. OneRuns' /\ PidFileNames'
  BY <1>1 DEF IInv, OneRuns, PidFileNames, Running, history
<1>6. GrantedIsServed'
  BY <1>1, <1>2, Places DEF IInv, GrantedIsServed
<1> QED
  BY <1>3, <1>4, <1>5, <1>6 DEF IInv

\* The daemon gives up its segment: in this step, and in UnlinkShm, it removes
\* the name, which is that of its own segment unless a name was lost before.
LEMMA UnlinkStep ==
  ASSUME IInv, TypeOK', NEW d \in Daemons,
         \/ MapShmFails(d)
         \/ UnlinkShm(d)
  PROVE  IInv'
<1>1. /\ pc \in [Daemons -> PcValues]
      /\ \/ pc[d] = "map" /\ pc' = [pc EXCEPT ![d] = "giveup"]
            /\ UNCHANGED <<granted>>
         \/ pc[d] = "unlinkshm" /\ pc' = [pc EXCEPT ![d] = "unlinkpid"]
            /\ granted' = {t \in granted : t[2] # own[d]}
      /\ own \in [Daemons -> Segments \cup {NoSegment}]
      /\ own' = [own EXCEPT ![d] = NoSegment]
      /\ shm' = NoSegment
      /\ UNCHANGED <<pidfile, table, history>>
  BY DEF IInv, TypeOK, MapShmFails, UnlinkShm, Goto, requests
<1>2. pc[d] \in Owning /\ own[d] # NoSegment
  BY <1>1 DEF IInv, OwnersAreUp, Owning
<1>3. OwnersAreUp' /\ OwnersDiffer' /\ NoOrphanSegment'
  BY <1>1, Places DEF IInv, OwnersAreUp, OwnersDiffer, NoOrphanSegment
<1>4. OwnersAreNamed'
  BY <1>1, <1>2 DEF IInv, OwnersAreNamed, OwnersDiffer, history
<1>5. OneRuns' /\ PidFileNames'
  BY <1>1 DEF IInv, OneRuns, PidFileNames, Running, history
<1>6. GrantedIsServed'
  <2>1. ASSUME NEW t \in granted' PROVE t \in table /\ \E e \in Daemons : own'[e] = t[2] /\ pc'[e] \in Cleared
    <3>1. PICK e \in Daemons : t \in table /\ own[e] = t[2] /\ pc[e] \in Cleared
      BY <1>1 DEF IInv, GrantedIsServed
    <3>2. e # d
      BY <1>1, <3>1, Places
    <3> QED
      BY <1>1, <3>1, <3>2
  <2> QED
    BY <1>1, <2>1 DEF GrantedIsServed
<1> QED
  BY <1>3, <1>4, <1>5, <1>6 DEF IInv

\* Nothing has been granted in a segment that is still to be cleared.
LEMMA ClearStep ==
  ASSUME IInv, TypeOK', NEW d \in Daemons, Clear(d)
  PROVE  IInv'
<1>1. /\ pc \in [Daemons -> PcValues] /\ pc[d] = "clear" /\ pc' = [pc EXCEPT ![d] = "watch"]
      /\ table' = {t \in table : t[2] # own[d]}
      /\ UNCHANGED <<own, files, granted, history>>
  BY DEF IInv, TypeOK, Clear, Goto
<1>2. pc[d] \in Owning /\ own[d] # NoSegment /\ "watch" \in Owning
  BY <1>1 DEF IInv, OwnersAreUp, Owning, Serving
<1>3. OwnersAreUp' /\ OwnersDiffer' /\ OwnersAreNamed' /\ NoOrphanSegment'
  BY <1>1, <1>2
     DEF IInv, OwnersAreUp, OwnersDiffer, OwnersAreNamed, NoOrphanSegment, files, history
<1>4. OneRuns' /\ PidFileNames'
  BY <1>1 DEF IInv, OneRuns, PidFileNames, Running, files, history
<1>5. GrantedIsServed'
  <2>1. ASSUME NEW t \in granted PROVE t \in table' /\ \E e \in Daemons : own[e] = t[2] /\ pc'[e] \in Cleared
    <3>1. PICK e \in Daemons : t \in table /\ own[e] = t[2] /\ pc[e] \in Cleared
      BY DEF IInv, GrantedIsServed
    <3>2. e # d
      BY <1>1, <3>1, Places
    <3>3. own[e] # own[d]
      BY <1>2, <3>2 DEF IInv, OwnersDiffer
    <3> QED
      BY <1>1, <3>1, <3>2, <3>3
  <2> QED
    BY <1>1, <2>1 DEF GrantedIsServed
<1> QED
  BY <1>3, <1>4, <1>5 DEF IInv

\* The name that is removed is a daemon's, and lost, or nobody's.
LEMMA OpenFailsStep ==
  ASSUME IInv, TypeOK', OpenFails
  PROVE  IInv'
<1>1. OwnersAreUp' /\ OwnersDiffer' /\ NoOrphanSegment'
  BY DEF IInv, OpenFails, OwnersAreUp, OwnersDiffer, NoOrphanSegment
<1>2. OwnersAreNamed'
  BY DEF IInv, OpenFails, OwnersAreNamed
<1>3. OneRuns' /\ PidFileNames' /\ GrantedIsServed'
  BY DEF IInv, OpenFails, OneRuns, PidFileNames, GrantedIsServed, Running, requests
<1> QED
  BY <1>1, <1>2, <1>3 DEF IInv

\* What is granted is in the table of a daemon that listens.
LEMMA SubscribeStep ==
  ASSUME IInv, TypeOK', NEW c \in Cgi, Subscribe(c)
  PROVE  IInv'
<1>1. OwnersAreUp' /\ OwnersDiffer' /\ OwnersAreNamed' /\ NoOrphanSegment'
  BY DEF IInv, Subscribe, OwnersAreUp, OwnersDiffer, OwnersAreNamed, NoOrphanSegment,
         files, history
<1>2. OneRuns' /\ PidFileNames'
  BY DEF IInv, Subscribe, OneRuns, PidFileNames, Running, files, history
<1>3. GrantedIsServed'
  <2>1. CASE \E d \in Daemons : Listens(d) /\ own[d] = shm
    BY <2>1, Places DEF IInv, Subscribe, GrantedIsServed, Listens
  <2>2. CASE ~ \E d \in Daemons : Listens(d) /\ own[d] = shm
    BY <2>2 DEF IInv, Subscribe, GrantedIsServed
  <2> QED
    BY <2>1, <2>2
<1> QED
  BY <1>1, <1>2, <1>3 DEF IInv

-----------------------------------------------------------------------------
(* Theorems. *)

\* A daemon that has no segment ends without leaving one.
LEMMA EndStep ==
  ASSUME IInv, TypeOK', NEW d \in Daemons,
         CreatePidFails(d) \/ SetupFails(d) \/ GiveUp(d) \/ UnlinkPid(d) \/ Dies(d)
  PROVE  IInv'
<1>1. CASE CreatePidFails(d) \/ SetupFails(d) \/ GiveUp(d) \/ UnlinkPid(d)
  <2>1. pc[d] \in {"create", "shm", "giveup", "unlinkpid"}
    BY <1>1 DEF CreatePidFails, SetupFails, GiveUp, UnlinkPid
  <2>2. own[d] = NoSegment
    BY <2>1, Places DEF IInv, OwnersAreUp
  <2>3. /\ Exit(d) /\ UNCHANGED <<shm, history>>
        /\ pidfile' \in {pidfile, NoPid}
    BY <1>1 DEF CreatePidFails, SetupFails, GiveUp, UnlinkPid, Forget
  <2>4. UNCHANGED <<shm, overlapped, lost>> /\ died' = (died \/ own[d] # NoSegment)
    BY <2>2, <2>3 DEF history, IInv, TypeOK
  <2> QED
    BY <2>3, <2>4, ExitStep
<1>2. CASE Dies(d)
  BY <1>2, ExitStep DEF Dies, Forget
<1> QED
  BY <1>1, <1>2

LEMMA NextIInv == IInv /\ [Next]_vars => IInv'
<1> SUFFICES ASSUME IInv, [Next]_vars PROVE IInv'
  OBVIOUS
<1>1. TypeOK'
  BY NextType DEF IInv
<1>2. ASSUME NEW d \in Daemons, Main(d) PROVE IInv'
  BY <1>1, <1>2, MainQuietStep, CreatePidStep, EndStep, OpenShmStep, UnlinkStep,
     ClearStep DEF Main
<1>3. ASSUME NEW d \in Daemons, Others(d) PROVE IInv'
  BY <1>1, <1>3, OthersQuietStep, CheckPidStep, EndStep DEF Others
<1>4. ASSUME NEW c \in Cgi, Subscribe(c) PROVE IInv'
  BY <1>1, <1>4, SubscribeStep
<1>5. CASE OpenFails
  BY <1>1, <1>5, OpenFailsStep
<1>6. CASE UNCHANGED vars
  BY <1>1, <1>6, QuietStep DEF vars
<1> QED
  BY <1>2, <1>3, <1>4, <1>5, <1>6 DEF Next

\* IInv holds in every state of every behaviour.
THEOREM Invariance == Spec => []IInv
<1> QED
  BY InitIInv, NextIInv, PTL DEF Spec

\* Every variable keeps to its type.
THEOREM TypeCorrect == Spec => []TypeOK
<1>1. IInv => TypeOK
  BY DEF IInv
<1> QED
  BY <1>1, Invariance, PTL

\* Two daemons have segments only after an overlapped start and a lost name:
\* without the first only one runs, without the second both segments would be
\* the one that is named.
THEOREM OneDaemonHolds == Spec => []OneDaemon
<1>1. IInv => OneDaemon
  <2> SUFFICES ASSUME IInv, NEW d \in Daemons, NEW e \in Daemons,
                      own[d] # NoSegment, own[e] # NoSegment, d # e
               PROVE  overlapped /\ lost
    BY DEF OneDaemon
  <2>1. lost
    BY DEF IInv, OwnersAreNamed, OwnersDiffer
  <2>2. Running(d) /\ Running(e)
    BY Places DEF IInv, OwnersAreUp, Running
  <2>3. overlapped
    BY <2>2 DEF IInv, OneRuns
  <2> QED
    BY <2>1, <2>3
<1> QED
  BY <1>1, Invariance, PTL

\* Requests find the segment that is served.
THEOREM Reachable == Spec => []ServedSegmentIsReachable
<1>1. IInv => ServedSegmentIsReachable
  BY Places DEF IInv, OwnersAreUp, OwnersAreNamed, ServedSegmentIsReachable, Listens
<1> QED
  BY <1>1, Invariance, PTL

\* A segment that nobody serves was left by a daemon that was killed.
THEOREM NoOrphan == Spec => []NoOrphanSegment
<1>1. IInv => NoOrphanSegment
  BY DEF IInv
<1> QED
  BY <1>1, Invariance, PTL

\* A start is refused the segment only after a crash or an overlapped start:
\* otherwise it runs alone and the name, if there is one, has no owner.
THEOREM RefusedOnly == Spec => []RefusedOnlyAfterACrash
<1>1. IInv => RefusedOnlyAfterACrash
  <2> SUFFICES ASSUME IInv, NEW d \in Daemons, pc[d] = "shm", shm # NoSegment,
                      ~overlapped
               PROVE  died
    BY DEF RefusedOnlyAfterACrash
  <2>1. \A e \in Daemons : own[e] = NoSegment
    <3> SUFFICES ASSUME NEW e \in Daemons, own[e] # NoSegment PROVE FALSE
      OBVIOUS
    <3>1. Running(e) /\ Running(d) /\ e # d
      BY Places DEF IInv, OwnersAreUp, Running
    <3> QED
      BY <3>1 DEF IInv, OneRuns
  <2> QED
    BY <2>1 DEF IInv, NoOrphanSegment
<1> QED
  BY <1>1, Invariance, PTL

\* What a listening daemon was given stays in its table.
THEOREM GrantedStays == Spec => []GrantedSurvives
<1>1. IInv => GrantedSurvives
  BY DEF IInv, GrantedIsServed, GrantedSurvives
<1> QED
  BY <1>1, Invariance, PTL

=============================================================================
