----------------------------- MODULE ShmSemaphore -----------------------------
(***************************************************************************)
(* The shared memory segment "/onvif_subscription" and the named semaphore *)
(* "/sub_mem_lock" that is meant to protect it (utils.c), as the processes *)
(* of the system use them: the daemon onvif_notify_server, with its main   *)
(* thread and its detached sync thread, and one short-lived CGI process    *)
(* per events request.                                                     *)
(*                                                                         *)
(* The module models the life of the two names and of the objects behind   *)
(* them, not the contents of the segment: what the critical sections do to *)
(* the subscription table is module EventService.                          *)
(*                                                                         *)
(* A semaphore object outlives its name: sem_unlink only removes the name, *)
(* a process that opened the object keeps using it, and the next sem_open  *)
(* with O_CREAT makes another object, whose value is 1 again.              *)
(***************************************************************************)
EXTENDS Naturals, FiniteSets

CONSTANTS
  Cgi,          \* CGI processes that may be alive at the same time
  Main, Sync,   \* the two threads of the daemon
  MaxSems,      \* bound: semaphore objects ever created
  MaxShms       \* bound: shared memory objects ever created

ASSUME ThreadsAssumption ==
  /\ Main # Sync
  /\ Main \notin Cgi
  /\ Sync \notin Cgi

ASSUME BoundsAssumption == MaxSems \in Nat /\ MaxShms \in Nat

VARIABLES
  shmName,  \* shared memory object that SHMOBJ_PATH names, 0 when none
  nshm,     \* shared memory objects created so far
  semName,  \* semaphore object that MEM_LOCK_FILE names, 0 when none
  nsem,     \* semaphore objects created so far
  value,    \* value of each semaphore object
  handle,   \* sem_memory_lock of each process, 0 for SEM_FAILED
  map,      \* shared memory object each process has mapped, 0 when none
  pc,       \* where each thread is
  via,      \* history: semaphore object the thread took to be inside, 0 if none
  timedout  \* history: semaphore objects on which a wait has timed out

vars == <<shmName, nshm, semName, nsem, value, handle, map, pc, via, timedout>>

-----------------------------------------------------------------------------
Daemon  == Main              \* the daemon's process is named by its main thread
Procs   == Cgi \cup {Daemon}
Threads == Procs \cup {Sync}
Sems    == 1..MaxSems
Shms    == 1..MaxShms

\* sem_memory_lock and subs_evts are globals: the sync thread shares its
\* process' handle and mapping with the main thread.
ProcOf(t) == IF t = Sync THEN Daemon ELSE t

\* off      not running
\* mapped   shm_open and mmap done, sem_open still to come
\* boot     open, before the first critical section: the daemon clears the
\*          segment in it, a request looks for its subscription
\* out      running, outside a critical section, at least one done
\* in       between sem_memory_wait and sem_memory_post
\* closing  in destroy_shared_memory, after sem_memory_close
PcValues == {"off", "mapped", "boot", "out", "in", "closing"}

DaemonRuns == pc[Main] \in {"boot", "out", "in"}

-----------------------------------------------------------------------------
(* Everything is off and neither name exists: the device has just booted.  *)
Init ==
  /\ shmName = 0 /\ nshm = 0
  /\ semName = 0 /\ nsem = 0
  /\ value = [s \in Sems |-> 0]
  /\ handle = [p \in Procs |-> 0]
  /\ map = [p \in Procs |-> 0]
  /\ pc = [t \in Threads |-> "off"]
  /\ via = [t \in Threads |-> 0]
  /\ timedout = {}

\* create_shared_memory(1), up to mmap: O_EXCL makes the call fail when a
\* daemon left its segment behind, so the action needs a free name.
DaemonCreateShm ==
  /\ pc[Main] = "off" /\ pc[Sync] = "off"
  /\ shmName = 0
  /\ nshm < MaxShms
  /\ nshm' = nshm + 1
  /\ shmName' = nshm + 1
  /\ map' = [map EXCEPT ![Daemon] = nshm + 1]
  /\ pc' = [pc EXCEPT ![Main] = "mapped"]
  /\ UNCHANGED <<semName, nsem, value, handle, via, timedout>>

\* create_shared_memory(0), up to mmap.
CgiOpenShm(c) ==
  /\ pc[c] = "off"
  /\ shmName # 0
  /\ map' = [map EXCEPT ![c] = shmName]
  /\ pc' = [pc EXCEPT ![c] = "mapped"]
  /\ UNCHANGED <<shmName, nshm, semName, nsem, value, handle, via, timedout>>

\* ftruncate, mmap or sem_open failed: whatever "create" was, the name of the
\* segment is removed. The caller then gives up (the daemon exits).
OpenFails(p) ==
  /\ pc[p] = "mapped"
  /\ shmName' = 0
  /\ map' = [map EXCEPT ![p] = 0]
  /\ pc' = [pc EXCEPT ![p] = "off"]
  /\ UNCHANGED <<nshm, semName, nsem, value, handle, via, timedout>>

\* Mutant: the semaphore starts at 2.
Mutant_SemMemoryOpen(p) ==
  /\ pc[p] = "mapped"
  /\ \/ /\ semName # 0
        /\ handle' = [handle EXCEPT ![p] = semName]
        /\ UNCHANGED <<semName, nsem, value>>
     \/ /\ semName = 0 /\ nsem < MaxSems
        /\ nsem' = nsem + 1
        /\ semName' = nsem + 1
        /\ value' = [value EXCEPT ![nsem + 1] = 2]
        /\ handle' = [handle EXCEPT ![p] = nsem + 1]
  /\ pc' = [pc EXCEPT ![p] = "boot"]
  /\ UNCHANGED <<shmName, nshm, map, via, timedout>>

\* sem_memory_open: sem_open(MEM_LOCK_FILE, O_CREAT, ..., 1).
SemMemoryOpen(p) ==
  /\ pc[p] = "mapped"
  /\ \/ /\ semName # 0
        /\ handle' = [handle EXCEPT ![p] = semName]
        /\ UNCHANGED <<semName, nsem, value>>
     \/ /\ semName = 0 /\ nsem < MaxSems
        /\ nsem' = nsem + 1
        /\ semName' = nsem + 1
        /\ value' = [value EXCEPT ![nsem + 1] = 1]
        /\ handle' = [handle EXCEPT ![p] = nsem + 1]
  /\ pc' = [pc EXCEPT ![p] = "boot"]
  /\ UNCHANGED <<shmName, nshm, map, via, timedout>>

\* Mutant: the semaphore is taken without waiting for it.
Mutant_SemMemoryWait(t) ==
  LET s == handle[ProcOf(t)] IN
  /\ pc[t] \in {"boot", "out"}
  /\ s # 0
  /\ value' = [value EXCEPT ![s] = @ - 1]
  /\ via' = [via EXCEPT ![t] = s]
  /\ pc' = [pc EXCEPT ![t] = "in"]
  /\ UNCHANGED <<shmName, nshm, semName, nsem, handle, map, timedout>>

\* sem_memory_wait returns 0: the semaphore was taken.
SemMemoryWait(t) ==
  LET s == handle[ProcOf(t)] IN
  /\ pc[t] \in {"boot", "out"}
  /\ s # 0
  /\ value[s] > 0
  /\ value' = [value EXCEPT ![s] = @ - 1]
  /\ via' = [via EXCEPT ![t] = s]
  /\ pc' = [pc EXCEPT ![t] = "in"]
  /\ UNCHANGED <<shmName, nshm, semName, nsem, handle, map, timedout>>

\* Mutant: sem_wait instead of sem_timedwait.
Mutant_SemMemoryWaitFails(t) ==
  /\ pc[t] \in {"boot", "out"}
  /\ handle[ProcOf(t)] = 0
  /\ pc' = [pc EXCEPT ![t] = "in"]
  /\ UNCHANGED <<shmName, nshm, semName, nsem, value, handle, map, via, timedout>>

\* sem_memory_wait returns -1, after five seconds or because the process has
\* closed its handle. No caller looks at the result: the thread goes on.
SemMemoryWaitFails(t) ==
  LET s == handle[ProcOf(t)] IN
  /\ pc[t] \in {"boot", "out"}
  /\ \/ s = 0 /\ UNCHANGED timedout
     \/ s # 0 /\ value[s] = 0 /\ timedout' = timedout \cup {s}
  /\ pc' = [pc EXCEPT ![t] = "in"]
  /\ UNCHANGED <<shmName, nshm, semName, nsem, value, handle, map, via>>

\* Mutant: an error path posts, and its caller posts again.
Mutant_SemMemoryPost(t) ==
  LET s == handle[ProcOf(t)] IN
  /\ pc[t] = "in"
  /\ \/ s # 0 /\ value' = [value EXCEPT ![s] = @ + 2]
     \/ s = 0 /\ UNCHANGED value
  /\ via' = [via EXCEPT ![t] = 0]
  /\ pc' = [pc EXCEPT ![t] = "out"]
  /\ UNCHANGED <<shmName, nshm, semName, nsem, handle, map, timedout>>

\* sem_memory_post: posts whether or not the wait succeeded.
SemMemoryPost(t) ==
  LET s == handle[ProcOf(t)] IN
  /\ pc[t] = "in"
  /\ \/ s # 0 /\ value' = [value EXCEPT ![s] = @ + 1]
     \/ s = 0 /\ UNCHANGED value
  /\ via' = [via EXCEPT ![t] = 0]
  /\ pc' = [pc EXCEPT ![t] = "out"]
  /\ UNCHANGED <<shmName, nshm, semName, nsem, handle, map, timedout>>

\* pthread_create of sync_events_thread, once the segment is cleared.
SpawnSync ==
  /\ pc[Main] = "out" /\ pc[Sync] = "off"
  /\ pc' = [pc EXCEPT ![Sync] = "out"]
  /\ UNCHANGED <<shmName, nshm, semName, nsem, value, handle, map, via, timedout>>

\* destroy_shared_memory(.., 0) at the end of a request. sem_memory_close
\* removes the name of the semaphore, whichever object it names by now.
CgiDestroy(c) ==
  /\ pc[c] = "out"
  /\ handle' = [handle EXCEPT ![c] = 0]
  /\ semName' = 0
  /\ map' = [map EXCEPT ![c] = 0]
  /\ pc' = [pc EXCEPT ![c] = "off"]
  /\ UNCHANGED <<shmName, nshm, nsem, value, via, timedout>>

\* A CGI process ends without destroy_shared_memory: the fault paths of
\* CreatePullPointSubscription and Subscribe when the table is full, or a
\* process killed by the web server wherever it is.
CgiExits(c) ==
  /\ pc[c] # "off"
  /\ handle' = [handle EXCEPT ![c] = 0]
  /\ map' = [map EXCEPT ![c] = 0]
  /\ via' = [via EXCEPT ![c] = 0]
  /\ pc' = [pc EXCEPT ![c] = "off"]
  /\ UNCHANGED <<shmName, nshm, semName, nsem, value, timedout>>

\* destroy_shared_memory(subs_evts, 1) at the end of main, first half.
DaemonSemClose ==
  /\ pc[Main] = "out"
  /\ handle' = [handle EXCEPT ![Daemon] = 0]
  /\ semName' = 0
  /\ pc' = [pc EXCEPT ![Main] = "closing"]
  /\ UNCHANGED <<shmName, nshm, nsem, value, map, via, timedout>>

\* The state of a daemon process that is gone, with both its threads.
DaemonOff ==
  /\ handle' = [handle EXCEPT ![Daemon] = 0]
  /\ map' = [map EXCEPT ![Daemon] = 0]
  /\ via' = [via EXCEPT ![Main] = 0, ![Sync] = 0]
  /\ pc' = [pc EXCEPT ![Main] = "off", ![Sync] = "off"]

\* Second half: munmap, shm_unlink, return from main. The sync thread is
\* never joined: it dies with the process wherever it is.
DaemonDestroy ==
  /\ pc[Main] = "closing"
  /\ DaemonOff
  /\ shmName' = 0
  /\ UNCHANGED <<nshm, semName, nsem, value, timedout>>

\* The daemon is killed: both names stay behind.
DaemonCrash ==
  /\ pc[Main] # "off"
  /\ DaemonOff
  /\ UNCHANGED <<shmName, nshm, semName, nsem, value, timedout>>

-----------------------------------------------------------------------------
Enter(t) == SemMemoryWait(t) \/ SemMemoryWaitFails(t)

Next ==
  \/ DaemonCreateShm
  \/ SpawnSync
  \/ DaemonSemClose
  \/ DaemonDestroy
  \/ DaemonCrash
  \/ \E c \in Cgi : CgiOpenShm(c) \/ CgiDestroy(c) \/ CgiExits(c)
  \/ \E p \in Procs : OpenFails(p) \/ SemMemoryOpen(p)
  \/ \E t \in Threads : SemMemoryWait(t) \/ SemMemoryWaitFails(t) \/ SemMemoryPost(t)

Spec == Init /\ [][Next]_vars

\* The daemon's threads keep being scheduled; nothing is assumed of the CGI
\* processes, which the web server may kill or suspend at any point.
Fairness ==
  /\ WF_vars(Enter(Main)) /\ WF_vars(SemMemoryPost(Main))
  /\ WF_vars(Enter(Sync)) /\ WF_vars(SemMemoryPost(Sync))

FairSpec == Spec /\ Fairness

-----------------------------------------------------------------------------
\* Names and handles stand for objects that exist, and no value of a semaphore
\* is negative.
TypeOK ==
  /\ shmName \in 0..MaxShms /\ nshm \in 0..MaxShms
  /\ semName \in 0..MaxSems /\ nsem \in 0..MaxSems
  /\ value \in [Sems -> Nat]
  /\ handle \in [Procs -> 0..MaxSems]
  /\ map \in [Procs -> 0..MaxShms]
  /\ pc \in [Threads -> PcValues]
  /\ via \in [Threads -> 0..MaxSems]
  /\ timedout \subseteq Sems

\* A thread holds the object it took: its process still has it open, or has
\* closed it (only the daemon does that with a thread inside).
HoldersHaveHandle ==
  \A t \in Threads :
    via[t] # 0 => /\ pc[t] = "in"
                  /\ via[t] <= nsem
                  /\ handle[ProcOf(t)] \in {0, via[t]}

\* A thread inside without the semaphore got there by a failed wait.
IntrudersFailedToWait ==
  \A t \in Threads :
    (pc[t] = "in" /\ via[t] = 0) =>
      handle[ProcOf(t)] = 0 \/ handle[ProcOf(t)] \in timedout

\* The value of an object on which no wait timed out counts its free places.
ValueCountsHolders ==
  \A s \in Sems \ timedout :
    /\ value[s] <= 1
    /\ (\E t \in Threads : via[t] = s) => value[s] = 0

\* The handles of the processes that run, and the life of the sync thread.
HandlesAreOpen ==
  /\ \A p \in Procs : pc[p] \in {"boot", "out", "in"} => handle[p] # 0
  /\ pc[Sync] # "off" => pc[Main] \in {"out", "in", "closing"}
  /\ \A p \in Procs : handle[p] <= nsem
  /\ semName <= nsem

(* The semaphore itself is sound. As long as no wait on a semaphore object *)
(* has timed out, at most one thread is in a critical section it entered   *)
(* by taking that object, whatever is opened, unlinked, killed or closed   *)
(* around it (sem_memory_wait and sem_memory_post come in pairs).          *)
OneHolderPerSemaphore ==
  \A t, u \in Threads :
    (via[t] # 0 /\ via[t] = via[u] /\ via[t] \notin timedout) => t = u

(* When the lock protects the table: while only one semaphore object has   *)
(* ever existed, no wait has timed out and the daemon is not shutting      *)
(* down, no two threads are inside a critical section at the same time.    *)
\* Every other case is a finding: see SemaphoreIsAlreadyOk.
ExclusionInFirstPeriod ==
  (nsem <= 1 /\ timedout = {} /\ pc[Main] # "closing")
    => \A t, u \in Threads : (pc[t] = "in" /\ pc[u] = "in") => t = u

\* The inductive invariant behind the two properties above: a thread inside has
\* its object open or got in because its wait failed, the value of an object says
\* how many threads hold it, and running processes have what sem_memory_open gave.
IInv ==
  /\ TypeOK
  /\ HoldersHaveHandle
  /\ IntrudersFailedToWait
  /\ ValueCountsHolders
  /\ HandlesAreOpen
  /\ OneHolderPerSemaphore

(* A daemon thread that wants the lock gets into its critical section or   *)
(* goes away with its process, even when a killed CGI process took the     *)
(* semaphore with it: the timed wait of sem_memory_wait.                   *)
DaemonNeverStuck ==
  /\ (pc[Sync] = "out") ~> (pc[Sync] # "out")
  /\ (pc[Main] = "boot") ~> (pc[Main] # "boot")

-----------------------------------------------------------------------------
(* onvif_notify_server.c:388, 408 and 426, "Semaphore is already ok": the  *)
(* daemon is alone in the table when it synchronizes, cleans or copies the *)
(* subscriptions. Stated for the runs in which no wait times out and the   *)
(* daemon is not exiting.                                                  *)
SemaphoreIsAlreadyOk ==
  (timedout = {} /\ pc[Main] # "closing" /\ pc[Sync] = "in")
    => \A c \in Cgi : ~(pc[c] = "in" /\ map[c] = map[Daemon])

=============================================================================
