-------------------------- MODULE ShmSemaphoreProofs --------------------------
(***************************************************************************)
(* Proofs about ShmSemaphore for any set of CGI processes and any bounds:  *)
(* IInv is inductive, and it implies the two exclusion properties.         *)
(***************************************************************************)
EXTENDS ShmSemaphore, TLAPS

\* The sync thread is no process of its own; every thread belongs to one.
LEMMA ProcOfType ==
  ASSUME NEW t \in Threads
  PROVE  ProcOf(t) \in Procs /\ (t # Sync => ProcOf(t) = t)
BY DEF ProcOf, Threads, Procs, Daemon

\* The threads of the daemon.
LEMMA SyncNotProc == Sync \in Threads /\ Sync \notin Procs /\ Main \in Procs
BY ThreadsAssumption DEF Threads, Procs, Daemon

\* No segment and no semaphore exists yet.
LEMMA InitIInv == Init => IInv
<1> SUFFICES ASSUME Init PROVE IInv
  OBVIOUS
<1>1. TypeOK
  BY BoundsAssumption DEF Init, TypeOK, PcValues
<1>2. HoldersHaveHandle /\ IntrudersFailedToWait /\ OneHolderPerSemaphore
  BY DEF Init, HoldersHaveHandle, IntrudersFailedToWait, OneHolderPerSemaphore
<1>3. ValueCountsHolders /\ HandlesAreOpen
  BY SyncNotProc, ProcOfType
     DEF Init, ValueCountsHolders, HandlesAreOpen, Sems, Threads
<1> QED
  BY <1>1, <1>2, <1>3 DEF IInv

\* Nothing that IInv relates moves, except the main thread's pc.
LEMMA DaemonCreateShmStep ==
  ASSUME IInv, DaemonCreateShm
  PROVE  IInv'
<1>1. TypeOK'
  BY ThreadsAssumption, BoundsAssumption
     DEF IInv, TypeOK, PcValues, DaemonCreateShm, Threads, Procs, Daemon,
         ProcOf
<1>2. HoldersHaveHandle' /\ IntrudersFailedToWait'
  BY ThreadsAssumption
     DEF IInv, TypeOK, HoldersHaveHandle, IntrudersFailedToWait,
         DaemonCreateShm, Threads, Procs, Daemon, ProcOf
<1>3. ValueCountsHolders' /\ OneHolderPerSemaphore'
  BY ThreadsAssumption
     DEF IInv, TypeOK, ValueCountsHolders, OneHolderPerSemaphore,
         DaemonCreateShm, Threads, Procs, Daemon, ProcOf
<1>4. HandlesAreOpen'
  BY ThreadsAssumption
     DEF IInv, TypeOK, HandlesAreOpen, DaemonCreateShm, Threads, Procs,
         Daemon, ProcOf
<1> QED
  BY <1>1, <1>2, <1>3, <1>4 DEF IInv

\* Only the pc of a process that was off moves.
LEMMA CgiOpenShmStep ==
  ASSUME IInv, NEW c \in Cgi, CgiOpenShm(c)
  PROVE  IInv'
<1>1. TypeOK'
  BY ThreadsAssumption, BoundsAssumption
     DEF IInv, TypeOK, PcValues, CgiOpenShm, Threads, Procs, Daemon, ProcOf
<1>2. HoldersHaveHandle' /\ IntrudersFailedToWait'
  BY ThreadsAssumption
     DEF IInv, TypeOK, HoldersHaveHandle, IntrudersFailedToWait, CgiOpenShm,
         Threads, Procs, Daemon, ProcOf
<1>3. ValueCountsHolders' /\ OneHolderPerSemaphore'
  BY ThreadsAssumption
     DEF IInv, TypeOK, ValueCountsHolders, OneHolderPerSemaphore, CgiOpenShm,
         Threads, Procs, Daemon, ProcOf
<1>4. HandlesAreOpen'
  BY ThreadsAssumption
     DEF IInv, TypeOK, HandlesAreOpen, CgiOpenShm, Threads, Procs, Daemon,
         ProcOf
<1> QED
  BY <1>1, <1>2, <1>3, <1>4 DEF IInv

\* The process goes off before it ever had a handle.
LEMMA OpenFailsStep ==
  ASSUME IInv, NEW p \in Procs, OpenFails(p)
  PROVE  IInv'
<1>1. TypeOK'
  BY ThreadsAssumption, BoundsAssumption
     DEF IInv, TypeOK, PcValues, OpenFails, Threads, Procs, Daemon, ProcOf
<1>2. HoldersHaveHandle' /\ IntrudersFailedToWait'
  BY ThreadsAssumption
     DEF IInv, TypeOK, HoldersHaveHandle, IntrudersFailedToWait, OpenFails,
         Threads, Procs, Daemon, ProcOf
<1>3. ValueCountsHolders' /\ OneHolderPerSemaphore'
  BY ThreadsAssumption
     DEF IInv, TypeOK, ValueCountsHolders, OneHolderPerSemaphore, OpenFails,
         Threads, Procs, Daemon, ProcOf
<1>4. HandlesAreOpen'
  BY ThreadsAssumption
     DEF IInv, TypeOK, HandlesAreOpen, OpenFails, Threads, Procs, Daemon,
         ProcOf
<1> QED
  BY <1>1, <1>2, <1>3, <1>4 DEF IInv

\* The sync thread starts outside, under the main thread's handle.
LEMMA SpawnSyncStep ==
  ASSUME IInv, SpawnSync
  PROVE  IInv'
<1>1. TypeOK'
  BY ThreadsAssumption, BoundsAssumption
     DEF IInv, TypeOK, PcValues, SpawnSync, Threads, Procs, Daemon, ProcOf
<1>2. HoldersHaveHandle' /\ IntrudersFailedToWait'
  BY ThreadsAssumption
     DEF IInv, TypeOK, HoldersHaveHandle, IntrudersFailedToWait, SpawnSync,
         Threads, Procs, Daemon, ProcOf
<1>3. ValueCountsHolders' /\ OneHolderPerSemaphore'
  BY ThreadsAssumption
     DEF IInv, TypeOK, ValueCountsHolders, OneHolderPerSemaphore, SpawnSync,
         Threads, Procs, Daemon, ProcOf
<1>4. HandlesAreOpen'
  BY ThreadsAssumption
     DEF IInv, TypeOK, HandlesAreOpen, SpawnSync, Threads, Procs, Daemon,
         ProcOf
<1> QED
  BY <1>1, <1>2, <1>3, <1>4 DEF IInv

\* The process is outside: it holds nothing when it closes its handle.
LEMMA CgiDestroyStep ==
  ASSUME IInv, NEW c \in Cgi, CgiDestroy(c)
  PROVE  IInv'
<1>1. TypeOK'
  BY ThreadsAssumption, BoundsAssumption
     DEF IInv, TypeOK, PcValues, CgiDestroy, Threads, Procs, Daemon, ProcOf
<1>2. HoldersHaveHandle' /\ IntrudersFailedToWait'
  BY ThreadsAssumption
     DEF IInv, TypeOK, HoldersHaveHandle, IntrudersFailedToWait, CgiDestroy,
         Threads, Procs, Daemon, ProcOf
<1>3. ValueCountsHolders' /\ OneHolderPerSemaphore'
  BY ThreadsAssumption
     DEF IInv, TypeOK, ValueCountsHolders, OneHolderPerSemaphore, CgiDestroy,
         Threads, Procs, Daemon, ProcOf
<1>4. HandlesAreOpen'
  BY ThreadsAssumption
     DEF IInv, TypeOK, HandlesAreOpen, CgiDestroy, Threads, Procs, Daemon,
         ProcOf
<1> QED
  BY <1>1, <1>2, <1>3, <1>4 DEF IInv

\* A killed process may take the semaphore with it: its value stays 0.
LEMMA CgiExitsStep ==
  ASSUME IInv, NEW c \in Cgi, CgiExits(c)
  PROVE  IInv'
<1>1. TypeOK'
  BY ThreadsAssumption, BoundsAssumption
     DEF IInv, TypeOK, PcValues, CgiExits, Threads, Procs, Daemon, ProcOf
<1>2. HoldersHaveHandle' /\ IntrudersFailedToWait'
  BY ThreadsAssumption
     DEF IInv, TypeOK, HoldersHaveHandle, IntrudersFailedToWait, CgiExits,
         Threads, Procs, Daemon, ProcOf
<1>3. UNCHANGED <<value, timedout>> /\ \A u \in Threads : via'[u] \in {0, via[u]}
  BY ThreadsAssumption
     DEF IInv, TypeOK, CgiExits, Threads, Procs, Daemon, ProcOf
<1>4. ValueCountsHolders'
  BY <1>3 DEF IInv, ValueCountsHolders, Sems
<1>5. OneHolderPerSemaphore'
  BY ThreadsAssumption
     DEF IInv, TypeOK, OneHolderPerSemaphore, CgiExits, Threads, Procs,
         Daemon, ProcOf
<1>6. HandlesAreOpen'
  BY ThreadsAssumption
     DEF IInv, TypeOK, HandlesAreOpen, CgiExits, Threads, Procs, Daemon,
         ProcOf
<1> QED
  BY <1>1, <1>2, <1>3, <1>4, <1>5, <1>6 DEF IInv

\* The handle of both threads goes away: the sync thread may still be inside.
LEMMA DaemonSemCloseStep ==
  ASSUME IInv, DaemonSemClose
  PROVE  IInv'
<1>1. TypeOK'
  BY ThreadsAssumption, BoundsAssumption
     DEF IInv, TypeOK, PcValues, DaemonSemClose, Threads, Procs, Daemon,
         ProcOf
<1>2. HoldersHaveHandle' /\ IntrudersFailedToWait'
  BY ThreadsAssumption
     DEF IInv, TypeOK, HoldersHaveHandle, IntrudersFailedToWait,
         DaemonSemClose, Threads, Procs, Daemon, ProcOf
<1>3. ValueCountsHolders' /\ OneHolderPerSemaphore'
  BY ThreadsAssumption
     DEF IInv, TypeOK, ValueCountsHolders, OneHolderPerSemaphore,
         DaemonSemClose, Threads, Procs, Daemon, ProcOf
<1>4. HandlesAreOpen'
  BY ThreadsAssumption
     DEF IInv, TypeOK, HandlesAreOpen, DaemonSemClose, Threads, Procs, Daemon,
         ProcOf
<1> QED
  BY <1>1, <1>2, <1>3, <1>4 DEF IInv

\* Both threads go off.
LEMMA DaemonDestroyStep ==
  ASSUME IInv, DaemonDestroy
  PROVE  IInv'
<1>1. TypeOK'
  BY ThreadsAssumption, BoundsAssumption
     DEF IInv, TypeOK, PcValues, DaemonDestroy, DaemonOff, Threads, Procs,
         Daemon, ProcOf
<1>2. HoldersHaveHandle' /\ IntrudersFailedToWait'
  BY ThreadsAssumption
     DEF IInv, TypeOK, HoldersHaveHandle, IntrudersFailedToWait,
         DaemonDestroy, DaemonOff, Threads, Procs, Daemon, ProcOf
<1>3. UNCHANGED <<value, timedout>> /\ \A u \in Threads : via'[u] \in {0, via[u]}
  BY ThreadsAssumption
     DEF IInv, TypeOK, DaemonDestroy, DaemonOff, Threads, Procs, Daemon,
         ProcOf
<1>4. ValueCountsHolders'
  BY <1>3 DEF IInv, ValueCountsHolders, Sems
<1>5. OneHolderPerSemaphore'
  BY ThreadsAssumption
     DEF IInv, TypeOK, OneHolderPerSemaphore, DaemonDestroy, DaemonOff,
         Threads, Procs, Daemon, ProcOf
<1>6. HandlesAreOpen'
  BY ThreadsAssumption
     DEF IInv, TypeOK, HandlesAreOpen, DaemonDestroy, DaemonOff, Threads,
         Procs, Daemon, ProcOf
<1> QED
  BY <1>1, <1>2, <1>3, <1>4, <1>5, <1>6 DEF IInv

\* Both threads go off, wherever they are.
LEMMA DaemonCrashStep ==
  ASSUME IInv, DaemonCrash
  PROVE  IInv'
<1>1. TypeOK'
  BY ThreadsAssumption, BoundsAssumption
     DEF IInv, TypeOK, PcValues, DaemonCrash, DaemonOff, Threads, Procs,
         Daemon, ProcOf
<1>2. HoldersHaveHandle' /\ IntrudersFailedToWait'
  BY ThreadsAssumption
     DEF IInv, TypeOK, HoldersHaveHandle, IntrudersFailedToWait, DaemonCrash,
         DaemonOff, Threads, Procs, Daemon, ProcOf
<1>3. UNCHANGED <<value, timedout>> /\ \A u \in Threads : via'[u] \in {0, via[u]}
  BY ThreadsAssumption
     DEF IInv, TypeOK, DaemonCrash, DaemonOff, Threads, Procs, Daemon, ProcOf
<1>4. ValueCountsHolders'
  BY <1>3 DEF IInv, ValueCountsHolders, Sems
<1>5. OneHolderPerSemaphore'
  BY ThreadsAssumption
     DEF IInv, TypeOK, OneHolderPerSemaphore, DaemonCrash, DaemonOff, Threads,
         Procs, Daemon, ProcOf
<1>6. HandlesAreOpen'
  BY ThreadsAssumption
     DEF IInv, TypeOK, HandlesAreOpen, DaemonCrash, DaemonOff, Threads, Procs,
         Daemon, ProcOf
<1> QED
  BY <1>1, <1>2, <1>3, <1>4, <1>5, <1>6 DEF IInv

\* Taking the object: its value was positive, and 1 unless a wait on it timed
\* out; in that case it had no holder.
LEMMA SemMemoryWaitStep ==
  ASSUME IInv, NEW t \in Threads, SemMemoryWait(t)
  PROVE  IInv'
<1> DEFINE s == handle[ProcOf(t)]
<1>1. /\ pc[t] \in {"boot", "out"}
      /\ s # 0 /\ value[s] > 0
      /\ value' = [value EXCEPT ![s] = @ - 1]
      /\ via' = [via EXCEPT ![t] = s]
      /\ pc' = [pc EXCEPT ![t] = "in"]
      /\ UNCHANGED <<shmName, nshm, semName, nsem, handle, map, timedout>>
  BY DEF SemMemoryWait
<1>2. ProcOf(t) \in Procs /\ s \in Sems /\ s \in 0..MaxSems /\ s <= nsem /\ value[s] \in Nat
  BY <1>1, ProcOfType, BoundsAssumption DEF IInv, TypeOK, HandlesAreOpen, Sems
<1> HIDE DEF s
<1>3. TypeOK'
  <2>1. value[s] - 1 \in Nat
    BY <1>1, <1>2
  <2>2. value' \in [Sems -> Nat] /\ via' \in [Threads -> 0..MaxSems]
    BY <1>1, <1>2, <2>1 DEF IInv, TypeOK
  <2> QED
    BY <1>1, <2>2 DEF IInv, TypeOK, PcValues
<1>4. HoldersHaveHandle'
  BY <1>1, <1>2 DEF s, IInv, TypeOK, HoldersHaveHandle
<1>5. IntrudersFailedToWait'
  BY <1>1, <1>2 DEF IInv, TypeOK, IntrudersFailedToWait
<1>6. s \notin timedout => value[s] = 1 /\ \A u \in Threads : via[u] # s
  BY <1>1, <1>2 DEF IInv, ValueCountsHolders
<1>7. ValueCountsHolders'
  BY <1>1, <1>2, <1>6 DEF IInv, TypeOK, ValueCountsHolders
<1>8. OneHolderPerSemaphore'
  BY <1>1, <1>2, <1>6 DEF IInv, TypeOK, OneHolderPerSemaphore
<1>9. HandlesAreOpen'
  BY <1>1, ThreadsAssumption
     DEF s, IInv, TypeOK, HandlesAreOpen, ProcOf, Threads, Procs, Daemon
<1> QED
  BY <1>3, <1>4, <1>5, <1>7, <1>8, <1>9 DEF IInv

\* The object is counted as timed out from here on.
LEMMA SemMemoryWaitFailsStep ==
  ASSUME IInv, NEW t \in Threads, SemMemoryWaitFails(t)
  PROVE  IInv'
<1> DEFINE s == handle[ProcOf(t)]
<1>1. /\ pc[t] \in {"boot", "out"}
      /\ pc' = [pc EXCEPT ![t] = "in"]
      /\ UNCHANGED <<shmName, nshm, semName, nsem, value, handle, map, via>>
      /\ timedout \subseteq timedout'
      /\ timedout' \subseteq timedout \cup ({s} \ {0})
      /\ s = 0 \/ s \in timedout'
  BY DEF SemMemoryWaitFails
<1>2. ProcOf(t) \in Procs /\ s \in 0..MaxSems
  BY ProcOfType DEF IInv, TypeOK
<1>3. TypeOK'
  BY <1>1, <1>2, BoundsAssumption DEF IInv, TypeOK, PcValues, Sems
<1>4. via[t] = 0
  BY <1>1 DEF IInv, HoldersHaveHandle
<1>5. HoldersHaveHandle' /\ IntrudersFailedToWait'
  BY <1>1, <1>4 DEF IInv, TypeOK, HoldersHaveHandle, IntrudersFailedToWait
<1>6. ValueCountsHolders' /\ OneHolderPerSemaphore'
  BY <1>1 DEF IInv, TypeOK, ValueCountsHolders, OneHolderPerSemaphore
<1>7. HandlesAreOpen'
  <2>1. \A p \in Procs : pc'[p] \in {"boot", "out", "in"} => pc[p] \in {"boot", "out", "in"}
    BY <1>1 DEF IInv, TypeOK
  <2>2. pc'[Sync] # "off" => pc'[Main] \in {"out", "in", "closing"}
    BY <1>1, ThreadsAssumption
       DEF IInv, TypeOK, HandlesAreOpen, Threads, Procs, Daemon
  <2> QED
    BY <1>1, <2>1, <2>2 DEF IInv, HandlesAreOpen
<1> QED
  BY <1>3, <1>5, <1>6, <1>7 DEF IInv

\* A thread that took the object gives it back. An intruder posts to an
\* object on which a wait timed out, or has no handle left.
LEMMA SemMemoryPostStep ==
  ASSUME IInv, NEW t \in Threads, SemMemoryPost(t)
  PROVE  IInv'
<1> DEFINE s == handle[ProcOf(t)]
<1>1. /\ pc[t] = "in"
      /\ via' = [via EXCEPT ![t] = 0]
      /\ pc' = [pc EXCEPT ![t] = "out"]
      /\ UNCHANGED <<shmName, nshm, semName, nsem, handle, map, timedout>>
      /\ \/ s # 0 /\ value' = [value EXCEPT ![s] = @ + 1]
         \/ s = 0 /\ UNCHANGED value
  BY DEF SemMemoryPost
<1>2. ProcOf(t) \in Procs /\ s \in 0..MaxSems
  BY ProcOfType DEF IInv, TypeOK
<1>3. TypeOK'
  <2>1. value' \in [Sems -> Nat]
    <3>1. s # 0 => s \in Sems /\ value[s] + 1 \in Nat
      BY <1>2, BoundsAssumption DEF IInv, TypeOK, Sems
    <3> HIDE DEF s
    <3> QED
      BY <1>1, <3>1 DEF IInv, TypeOK
  <2>2. via' \in [Threads -> 0..MaxSems]
    BY <1>1, BoundsAssumption DEF IInv, TypeOK
  <2> QED
    BY <1>1, <2>1, <2>2 DEF IInv, TypeOK, PcValues
<1>4. HoldersHaveHandle' /\ IntrudersFailedToWait'
  BY <1>1 DEF IInv, TypeOK, HoldersHaveHandle, IntrudersFailedToWait
<1>5. OneHolderPerSemaphore'
  BY <1>1 DEF IInv, TypeOK, OneHolderPerSemaphore
<1>6. ASSUME s # 0, s \notin timedout
      PROVE  via[t] = s /\ value[s] = 0 /\ \A u \in Threads : via'[u] # s
  <2>1. via[t] = s
    BY <1>1, <1>6 DEF s, IInv, HoldersHaveHandle, IntrudersFailedToWait
  <2>2. value[s] = 0
    BY <1>2, <1>6, <2>1 DEF IInv, ValueCountsHolders, Sems
  <2>3. \A u \in Threads : via[u] = s => u = t
    BY <1>6, <2>1 DEF IInv, OneHolderPerSemaphore
  <2> QED
    BY <1>1, <1>6, <2>1, <2>2, <2>3 DEF IInv, TypeOK
<1>7. ValueCountsHolders'
  <2> SUFFICES ASSUME NEW r \in Sems, r \notin timedout
               PROVE  value'[r] <= 1 /\ ((\E u \in Threads : via'[u] = r) => value'[r] = 0)
    BY <1>1 DEF ValueCountsHolders
  <2> HIDE DEF s
  <2>0. /\ value \in [Sems -> Nat] /\ r # 0 /\ value[r] <= 1
        /\ (\E u \in Threads : via[u] = r) => value[r] = 0
    BY BoundsAssumption DEF IInv, TypeOK, ValueCountsHolders, Sems
  <2>1. CASE r = s
    BY <1>1, <1>6, <2>0, <2>1
  <2>2. CASE r # s
    <3>1. value'[r] = value[r]
      BY <1>1, <2>0, <2>2
    <3>2. \A u \in Threads : via'[u] \in {0, via[u]}
      BY <1>1 DEF IInv, TypeOK
    <3> QED
      BY <2>0, <3>1, <3>2
  <2> QED
    BY <2>1, <2>2
<1>8. HandlesAreOpen'
  BY <1>1, ThreadsAssumption
     DEF IInv, TypeOK, HandlesAreOpen, Threads, Procs, Daemon
<1> QED
  BY <1>3, <1>4, <1>5, <1>7, <1>8 DEF IInv
\* A process that opens the semaphore has no thread inside. It finds the
\* named object, or makes one that nobody holds and whose value is 1.
LEMMA SemMemoryOpenStep ==
  ASSUME IInv, NEW p \in Procs, SemMemoryOpen(p)
  PROVE  IInv'
<1>1. /\ pc[p] = "mapped"
      /\ pc' = [pc EXCEPT ![p] = "boot"]
      /\ UNCHANGED <<shmName, nshm, map, via, timedout>>
  BY DEF SemMemoryOpen
<1>2. \A t \in Threads : ProcOf(t) = p => via[t] = 0 /\ pc[t] # "in"
  BY <1>1, ThreadsAssumption
     DEF IInv, TypeOK, HoldersHaveHandle, HandlesAreOpen, ProcOf, Threads, Procs, Daemon
<1>3. CASE semName # 0
  <2>1. handle' = [handle EXCEPT ![p] = semName] /\ UNCHANGED <<semName, nsem, value>>
    BY <1>3 DEF SemMemoryOpen
  <2>2. TypeOK'
    BY <1>1, <2>1 DEF IInv, TypeOK, PcValues
  <2>3. HoldersHaveHandle' /\ IntrudersFailedToWait'
    BY <1>1, <1>2, <2>1
       DEF IInv, TypeOK, HoldersHaveHandle, IntrudersFailedToWait, ProcOf, Threads, Procs, Daemon
  <2>4. ValueCountsHolders' /\ OneHolderPerSemaphore'
    BY <1>1, <2>1 DEF IInv, ValueCountsHolders, OneHolderPerSemaphore
  <2>5. HandlesAreOpen'
    BY <1>1, <1>3, <2>1, ThreadsAssumption
       DEF IInv, TypeOK, HandlesAreOpen, Threads, Procs, Daemon
  <2> QED
    BY <2>2, <2>3, <2>4, <2>5 DEF IInv
<1>4. CASE semName = 0
  <2> DEFINE new == nsem + 1
  <2>1. /\ nsem < MaxSems
        /\ nsem' = new /\ semName' = new
        /\ value' = [value EXCEPT ![new] = 1]
        /\ handle' = [handle EXCEPT ![p] = new]
    BY <1>4 DEF SemMemoryOpen
  <2>2. new \in Sems /\ new \in 0..MaxSems /\ new # 0 /\ nsem \in Nat /\ nsem < new
    BY <2>1, BoundsAssumption DEF IInv, TypeOK, Sems
  <2> HIDE DEF new
  <2>3. TypeOK'
    <3>1. value' \in [Sems -> Nat] /\ handle' \in [Procs -> 0..MaxSems]
      BY <2>1, <2>2 DEF IInv, TypeOK
    <3> QED
      BY <1>1, <2>1, <2>2, <3>1 DEF IInv, TypeOK, PcValues
  <2>4. HoldersHaveHandle' /\ IntrudersFailedToWait'
    BY <1>1, <1>2, <2>1, <2>2
       DEF IInv, TypeOK, HoldersHaveHandle, IntrudersFailedToWait, ProcOf, Threads, Procs, Daemon
  <2>5. \A t \in Threads : via[t] # new
    BY <2>2 DEF IInv, TypeOK, HoldersHaveHandle
  <2>6. ValueCountsHolders' /\ OneHolderPerSemaphore'
    BY <1>1, <2>1, <2>2, <2>5
       DEF IInv, TypeOK, ValueCountsHolders, OneHolderPerSemaphore
  <2>7. HandlesAreOpen'
    <3>1. \A q \in Procs : pc'[q] \in {"boot", "out", "in"} => handle'[q] # 0
      BY <1>1, <2>1, <2>2 DEF IInv, TypeOK, HandlesAreOpen
    <3>2. pc'[Sync] # "off" => pc'[Main] \in {"out", "in", "closing"}
      BY <1>1, ThreadsAssumption
         DEF IInv, TypeOK, HandlesAreOpen, Threads, Procs, Daemon
    <3>3. (\A q \in Procs : handle'[q] <= nsem') /\ semName' <= nsem'
      BY <2>1, <2>2 DEF IInv, TypeOK, HandlesAreOpen
    <3> QED
      BY <3>1, <3>2, <3>3 DEF HandlesAreOpen
  <2> QED
    BY <2>3, <2>4, <2>6, <2>7 DEF IInv
<1> QED
  BY <1>3, <1>4

\* Every step keeps the invariant.
LEMMA NextIInv == IInv /\ [Next]_vars => IInv'
<1> SUFFICES ASSUME IInv, [Next]_vars PROVE IInv'
  OBVIOUS
<1>1. CASE DaemonCreateShm
  BY <1>1, DaemonCreateShmStep
<1>2. CASE SpawnSync
  BY <1>2, SpawnSyncStep
<1>3. CASE DaemonSemClose
  BY <1>3, DaemonSemCloseStep
<1>4. CASE DaemonDestroy
  BY <1>4, DaemonDestroyStep
<1>5. CASE DaemonCrash
  BY <1>5, DaemonCrashStep
<1>6. CASE \E c \in Cgi : CgiOpenShm(c) \/ CgiDestroy(c) \/ CgiExits(c)
  BY <1>6, CgiOpenShmStep, CgiDestroyStep, CgiExitsStep
<1>7. CASE \E p \in Procs : OpenFails(p) \/ SemMemoryOpen(p)
  BY <1>7, OpenFailsStep, SemMemoryOpenStep
<1>8. CASE \E t \in Threads : SemMemoryWait(t) \/ SemMemoryWaitFails(t) \/ SemMemoryPost(t)
  BY <1>8, SemMemoryWaitStep, SemMemoryWaitFailsStep, SemMemoryPostStep
<1>9. CASE UNCHANGED vars
  BY <1>9 DEF vars, IInv, TypeOK, HoldersHaveHandle, IntrudersFailedToWait,
              ValueCountsHolders, HandlesAreOpen, OneHolderPerSemaphore
<1> QED
  BY <1>1, <1>2, <1>3, <1>4, <1>5, <1>6, <1>7, <1>8, <1>9 DEF Next

-----------------------------------------------------------------------------
(* Every reachable state satisfies the inductive invariant, for any number *)
(* of CGI processes, openings, crashes, timeouts and restarts.             *)
THEOREM Invariance == Spec => []IInv
<1> QED
  BY InitIInv, NextIInv, PTL DEF Spec

(* The variables of the semaphore and of the processes keep their types;   *)
(* above all, a semaphore's value never goes below zero.                   *)
THEOREM TypeCorrect == Spec => []TypeOK
<1>1. IInv => TypeOK
  BY DEF IInv
<1> QED
  BY <1>1, Invariance, PTL

(* sem_memory_wait and sem_memory_post exclude the threads that took the   *)
(* same semaphore object, as long as no wait on that object has timed out. *)
THEOREM SemaphoreExcludes == Spec => []OneHolderPerSemaphore
<1>1. IInv => OneHolderPerSemaphore
  BY DEF IInv
<1> QED
  BY <1>1, Invariance, PTL

(* Until the name of the first semaphore is removed and another object is  *)
(* made, every critical section on the table excludes every other one.     *)
THEOREM FirstPeriodExcludes == Spec => []ExclusionInFirstPeriod
<1>1. IInv => ExclusionInFirstPeriod
  <2> SUFFICES ASSUME IInv, nsem <= 1, timedout = {}, pc[Main] # "closing",
                      NEW t \in Threads, NEW u \in Threads,
                      pc[t] = "in", pc[u] = "in"
               PROVE  t = u
    BY DEF ExclusionInFirstPeriod
  <2>1. \A x \in Threads : pc[x] = "in" => handle[ProcOf(x)] # 0
    BY ThreadsAssumption
       DEF IInv, TypeOK, HandlesAreOpen, ProcOf, Threads, Procs, Daemon
  <2>2. \A x \in Threads : pc[x] = "in" => via[x] # 0
    BY <2>1 DEF IInv, IntrudersFailedToWait
  <2>3. via[t] = 1 /\ via[u] = 1
    BY <2>2 DEF IInv, TypeOK, HoldersHaveHandle
  <2> QED
    BY <2>3 DEF IInv, OneHolderPerSemaphore
<1> QED
  BY <1>1, Invariance, PTL
=============================================================================
