----------------------------- MODULE NotifyServer -----------------------------
(***************************************************************************)
(* The life of onvif_notify_server: start, the wait for events, the end.   *)
(* Two names are to keep the daemons to one: the pid file, and the shared  *)
(* segment, which is created with O_EXCL. Several daemons may be started,  *)
(* killed and started again; event requests open the segment by its name.  *)
(*                                                                         *)
(* What is in the segment is module EventService; here it is only the set  *)
(* of subscriptions that requests have written to it. The semaphore is     *)
(* module ShmSemaphore, and the sync thread is in both of them.            *)
(***************************************************************************)
EXTENDS Integers

CONSTANTS
  Daemons,   \* processes of onvif_notify_server
  Cgi,       \* event requests
  Segments,  \* segments that may exist at a time
  NoPid,     \* no pid file, or one that names no running process
  NoSegment  \* no segment

ASSUME DaemonsAssumption == NoPid \notin Daemons
ASSUME SegmentsAssumption == NoSegment \notin Segments

VARIABLES
  pidfile,    \* the running process named in the pid file
  pc,         \* where the main thread is
  exit_main,
  inotify,    \* fd # -1
  records,    \* inotify has records to be read
  shm,        \* the segment that SHMOBJ_PATH names
  own,        \* the segment a daemon has created
  table,      \* the subscriptions, as pairs of a request and a segment
  granted,    \* history: those written while a daemon listened on its segment
  overlapped, \* history: two daemons were in check_pid .. create_pid at a time
  lost,       \* history: a request has removed the name of a daemon's segment
  died        \* history: a daemon that had a segment was killed, or crashed

files == <<pidfile, shm>>
main == <<exit_main, inotify, records>>
requests == <<table, granted>>
history == <<overlapped, lost, died>>
vars == <<pc, own, files, main, requests, history>>

\* Serving: the segment has been cleared. Owning: the daemon has created it.
Waiting == {"test", "arm", "poll", "scan"}
Serving == {"watch"} \cup Waiting
Owning == {"map", "clear", "close", "unlinkshm"} \cup Serving
PcValues == {"off", "create", "shm", "giveup", "unlinkpid"} \cup Owning

Running(d) == pc[d] # "off"
Listens(d) == pc[d] \in Serving
Goto(d, from, label) == pc[d] = from /\ pc' = [pc EXCEPT ![d] = label]

\* The process is gone, and what it had in memory.
Exit(d) ==
  /\ Running(d)
  /\ pc' = [pc EXCEPT ![d] = "off"]
  /\ own' = [own EXCEPT ![d] = NoSegment]
  /\ granted' = {t \in granted : t[2] # own[d]}
  /\ exit_main' = [exit_main EXCEPT ![d] = FALSE]
  /\ inotify' = [inotify EXCEPT ![d] = TRUE]
  /\ records' = [records EXCEPT ![d] = FALSE]
  /\ UNCHANGED table

Init ==
  /\ pidfile = NoPid /\ shm = NoSegment
  /\ pc = [d \in Daemons |-> "off"]
  /\ own = [d \in Daemons |-> NoSegment]
  /\ exit_main = [d \in Daemons |-> FALSE]
  /\ inotify = [d \in Daemons |-> TRUE]
  /\ records = [d \in Daemons |-> FALSE]
  /\ table = {} /\ granted = {}
  /\ overlapped = FALSE /\ lost = FALSE /\ died = FALSE

-----------------------------------------------------------------------------
(* Start. *)

\* The process finds no running process in the pid file. Otherwise it exits.
CheckPid(d) ==
  /\ Goto(d, "off", "create")
  /\ pidfile = NoPid
  /\ overlapped' = (overlapped \/ \E e \in Daemons : pc[e] = "create")
  /\ UNCHANGED <<own, files, main, requests, lost, died>>

CreatePid(d) ==
  /\ Goto(d, "create", "shm")
  /\ pidfile' = d
  /\ UNCHANGED <<own, shm, main, requests, history>>

\* A file that names a process that is gone is as good as none.
Forget(d) == pidfile' = IF pidfile = d THEN NoPid ELSE pidfile

\* The pid file cannot be written, and may be left empty.
CreatePidFails(d) ==
  /\ pc[d] = "create" /\ Exit(d)
  /\ pidfile' = NoPid \/ UNCHANGED pidfile
  /\ UNCHANGED <<shm, history>>

\* The configuration cannot be read or a directory is missing: it exits, and
\* leaves the pid file behind.
SetupFails(d) ==
  /\ pc[d] = "shm" /\ Exit(d)
  /\ Forget(d)
  /\ UNCHANGED <<shm, history>>

\* A segment that nobody has mapped or names. Which one makes no difference.
IsFree(s) ==
  /\ s \in Segments /\ s # shm
  /\ \A e \in Daemons : own[e] # s
NewSegment == CHOOSE s \in Segments : IsFree(s)

\* Mutant: without O_EXCL, a segment that is there is taken over.
Mutant_OpenShm(d) ==
  /\ Goto(d, "shm", "map")
  /\ IsFree(NewSegment)
  /\ shm' = IF shm = NoSegment THEN NewSegment ELSE shm
  /\ own' = [own EXCEPT ![d] = shm']
  /\ table' = {t \in table : t[2] # NewSegment}
  /\ UNCHANGED <<pidfile, main, granted, history>>

\* shm_open with O_CREAT | O_EXCL: a new, empty segment.
OpenShm(d) ==
  /\ Goto(d, "shm", "map")
  /\ shm = NoSegment
  /\ IsFree(NewSegment)
  /\ shm' = NewSegment
  /\ own' = [own EXCEPT ![d] = NewSegment]
  /\ table' = {t \in table : t[2] # NewSegment}
  /\ UNCHANGED <<pidfile, main, granted, history>>

\* Mutant: the name is removed on every failure of create_shared_memory.
Mutant_ShmExists(d) ==
  /\ Goto(d, "shm", "giveup")
  /\ shm # NoSegment
  /\ shm' = NoSegment
  /\ UNCHANGED <<own, pidfile, main, requests, history>>

\* The name is taken.
ShmExists(d) ==
  /\ Goto(d, "shm", "giveup")
  /\ shm # NoSegment
  /\ UNCHANGED <<own, files, main, requests, history>>

MapShm(d) ==
  /\ Goto(d, "map", "clear")
  /\ UNCHANGED <<own, files, main, requests, history>>

\* ftruncate, mmap or sem_open fails: the name is removed.
MapShmFails(d) ==
  /\ Goto(d, "map", "giveup")
  /\ shm' = NoSegment
  /\ own' = [own EXCEPT ![d] = NoSegment]
  /\ UNCHANGED <<pidfile, main, requests, history>>

\* Whoever the pid file names, it is removed.
GiveUp(d) ==
  /\ pc[d] = "giveup" /\ Exit(d)
  /\ pidfile' = NoPid
  /\ UNCHANGED <<shm, history>>

\* memset of the segment.
Clear(d) ==
  /\ Goto(d, "clear", "watch")
  /\ table' = {t \in table : t[2] # own[d]}
  /\ UNCHANGED <<own, files, main, granted, history>>

\* Mutant: the segment is cleared when the files are watched.
Mutant_Listen(d) ==
  /\ Goto(d, "watch", "test")
  /\ inotify' \in {inotify, [inotify EXCEPT ![d] = FALSE]}
  /\ table' = {t \in table : t[2] # own[d]}
  /\ UNCHANGED <<own, files, exit_main, records, granted, history>>

\* inotify_init1, inotify_add_watch and pthread_create. Without inotify the
\* files are polled.
Listen(d) ==
  /\ Goto(d, "watch", "test")
  /\ inotify' \in {inotify, [inotify EXCEPT ![d] = FALSE]}
  /\ UNCHANGED <<own, files, exit_main, records, requests, history>>

\* Mutant: the segment is not destroyed.
Mutant_WatchFails(d) ==
  /\ Goto(d, "watch", "unlinkpid")
  /\ own' = [own EXCEPT ![d] = NoSegment]
  /\ UNCHANGED <<files, main, requests, history>>

\* Neither works: the daemon ends in order.
WatchFails(d) ==
  /\ Goto(d, "watch", "close")
  /\ UNCHANGED <<own, files, main, requests, history>>

-----------------------------------------------------------------------------
(* The wait for events. *)

TestExit(d) ==
  /\ Goto(d, "test", IF exit_main[d] THEN "close" ELSE IF inotify[d] THEN "arm" ELSE "scan")
  /\ UNCHANGED <<own, files, main, requests, history>>

\* The call of poll, without a timeout.
EnterPoll(d) ==
  /\ Goto(d, "arm", "poll")
  /\ UNCHANGED <<own, files, main, requests, history>>

\* An error that is not EINTR is logged and followed by sleep(1).
PollFails(d) ==
  /\ Goto(d, "poll", "test")
  /\ UNCHANGED <<own, files, main, requests, history>>

\* Mutant: exit_main is not looked at after records.
Mutant_HandleRecords(d) ==
  /\ Goto(d, "poll", "arm")
  /\ records[d]
  /\ records' = [records EXCEPT ![d] = FALSE]
  /\ UNCHANGED <<own, files, exit_main, inotify, requests, history>>

\* poll returns, and handle_inotify_events reads until there is nothing left.
HandleRecords(d) ==
  /\ Goto(d, "poll", "test")
  /\ records[d]
  /\ records' = [records EXCEPT ![d] = FALSE]
  /\ UNCHANGED <<own, files, exit_main, inotify, requests, history>>

\* Mutant: exit_main is only looked at before the first round.
Mutant_ScanFiles(d) ==
  /\ Goto(d, "scan", "scan")
  /\ UNCHANGED <<own, files, main, requests, history>>

\* One round of access() over the files, and usleep.
ScanFiles(d) ==
  /\ Goto(d, "scan", "test")
  /\ UNCHANGED <<own, files, main, requests, history>>

\* A file is created or deleted in INOTIFY_DIR.
FileEvent(d) ==
  /\ pc[d] \in Waiting /\ inotify[d] /\ ~records[d]
  /\ records' = [records EXCEPT ![d] = TRUE]
  /\ UNCHANGED <<pc, own, files, exit_main, inotify, requests, history>>

-----------------------------------------------------------------------------
(* The end. *)

\* Mutant: the pid file is removed first.
Mutant_Unmap(d) ==
  /\ Goto(d, "close", "unlinkshm")
  /\ pidfile' = NoPid
  /\ UNCHANGED <<own, shm, main, requests, history>>

\* destroy_shared_memory: sem_memory_close and munmap.
Unmap(d) ==
  /\ Goto(d, "close", "unlinkshm")
  /\ UNCHANGED <<own, files, main, requests, history>>

\* shm_unlink, whoever created what the name stands for.
UnlinkShm(d) ==
  /\ Goto(d, "unlinkshm", "unlinkpid")
  /\ shm' = NoSegment
  /\ own' = [own EXCEPT ![d] = NoSegment]
  /\ granted' = {t \in granted : t[2] # own[d]}
  /\ UNCHANGED <<pidfile, main, table, history>>

UnlinkPid(d) ==
  /\ pc[d] = "unlinkpid" /\ Exit(d)
  /\ pidfile' = NoPid
  /\ UNCHANGED <<shm, history>>

\* SIGKILL or a crash: both names stay. The sync thread crashes when it is in
\* its loop while the main thread unmaps the segment, and so does the handler
\* of SIGUSR1 when the segment is not mapped.
Dies(d) ==
  /\ Exit(d)
  /\ Forget(d)
  /\ died' = (died \/ own[d] # NoSegment)
  /\ UNCHANGED <<shm, overlapped, lost>>

-----------------------------------------------------------------------------
(* Signals. *)

\* poll, and nothing else in the main thread, is cut short by a signal.
Interrupt(d) == pc' = IF pc[d] = "poll" THEN [pc EXCEPT ![d] = "test"] ELSE pc

\* SIGTERM or SIGINT.
SignalHandler(d) ==
  /\ Running(d)
  /\ Interrupt(d)
  /\ exit_main' = [exit_main EXCEPT ![d] = TRUE]
  /\ UNCHANGED <<own, files, inotify, records, requests, history>>

\* SIGUSR1 prints the segment.
PrintSubscriptions(d) ==
  /\ pc[d] = "poll" /\ Interrupt(d)
  /\ UNCHANGED <<own, files, main, requests, history>>

-----------------------------------------------------------------------------
(* Event requests. *)

\* ftruncate, mmap or sem_open fails: the name is removed, although the request
\* has not created the segment.
OpenFails ==
  /\ shm # NoSegment
  /\ shm' = NoSegment
  /\ lost' = (lost \/ \E d \in Daemons : own[d] # NoSegment /\ own[d] = shm)
  /\ UNCHANGED <<pc, own, pidfile, main, requests, overlapped, died>>

\* Mutant: the segment is used although it could not be opened.
Mutant_Subscribe(c) ==
  /\ table' = table \cup {<<c, shm>>}
  /\ granted' = IF \E d \in Daemons : Listens(d) /\ own[d] = shm
                THEN granted \cup {<<c, shm>>} ELSE granted
  /\ UNCHANGED <<pc, own, files, main, history>>

\* The request finds the segment and takes a slot of it.
Subscribe(c) ==
  /\ shm # NoSegment
  /\ table' = table \cup {<<c, shm>>}
  /\ granted' = IF \E d \in Daemons : Listens(d) /\ own[d] = shm
                THEN granted \cup {<<c, shm>>} ELSE granted
  /\ UNCHANGED <<pc, own, files, main, history>>

-----------------------------------------------------------------------------
Main(d) ==
  \/ CreatePid(d) \/ CreatePidFails(d) \/ SetupFails(d)
  \/ OpenShm(d) \/ ShmExists(d) \/ MapShm(d) \/ MapShmFails(d) \/ GiveUp(d)
  \/ Clear(d) \/ Listen(d) \/ WatchFails(d)
  \/ TestExit(d) \/ EnterPoll(d) \/ HandleRecords(d) \/ ScanFiles(d)
  \/ Unmap(d) \/ UnlinkShm(d) \/ UnlinkPid(d)

Others(d) ==
  \/ CheckPid(d) \/ PollFails(d) \/ FileEvent(d) \/ Dies(d)
  \/ SignalHandler(d) \/ PrintSubscriptions(d)

Next ==
  \/ \E d \in Daemons : Main(d) \/ Others(d)
  \/ OpenFails
  \/ \E c \in Cgi : Subscribe(c)

Spec == Init /\ [][Next]_vars

\* The main thread of a daemon takes the steps it can take. Files, signals and
\* requests come when they come.
FairSpec == Spec /\ \A d \in Daemons : WF_vars(Main(d))

-----------------------------------------------------------------------------
\* The pid file, the daemons, the segment and who is in it have their types.
TypeOK ==
  /\ pidfile \in Daemons \cup {NoPid}
  /\ pc \in [Daemons -> PcValues]
  /\ exit_main \in [Daemons -> BOOLEAN]
  /\ inotify \in [Daemons -> BOOLEAN]
  /\ records \in [Daemons -> BOOLEAN]
  /\ shm \in Segments \cup {NoSegment}
  /\ own \in [Daemons -> Segments \cup {NoSegment}]
  /\ table \subseteq Cgi \X Segments
  /\ granted \subseteq Cgi \X Segments
  /\ overlapped \in BOOLEAN /\ lost \in BOOLEAN /\ died \in BOOLEAN

(* Two daemons have a segment each only when both guards have failed: they *)
(* or others were started in the same instant, and a request that could    *)
(* not map a segment has removed its name.                                 *)
OneDaemon ==
  \A d, e \in Daemons :
    (own[d] # NoSegment /\ own[e] # NoSegment /\ d # e) => (overlapped /\ lost)

(* The segment that requests find is the one the daemon serves, through    *)
(* starts that fail, crashes and ends, unless a request removes the name.  *)
ServedSegmentIsReachable ==
  \A d \in Daemons : (Listens(d) /\ ~lost) => shm = own[d]

(* When no daemon has a segment and none was killed, no segment is left:   *)
(* every way out of main removes what was created.                         *)
NoOrphanSegment ==
  (shm # NoSegment /\ \A d \in Daemons : own[d] = NoSegment) => died

(* A daemon finds the name of the segment taken only after one was killed  *)
(* or when two were started together: the pid file is removed last.        *)
RefusedOnlyAfterACrash ==
  \A d \in Daemons : (pc[d] = "shm" /\ shm # NoSegment) => (died \/ overlapped)

(* What requests write before the segment is cleared is lost; what they    *)
(* write to the segment of a daemon that listens stays there.              *)
GrantedSurvives == granted \subseteq table

-----------------------------------------------------------------------------
(* What every step keeps.                                                  *)

OwnersAreUp == \A d \in Daemons : own[d] # NoSegment <=> pc[d] \in Owning

\* No two daemons have created the same segment.
OwnersDiffer ==
  \A d, e \in Daemons : (own[d] # NoSegment /\ own[d] = own[e]) => d = e

OwnersAreNamed ==
  ~lost => \A d \in Daemons : own[d] # NoSegment => shm = own[d]

\* The pid file does its work while no two daemons are started together.
OneRuns == ~overlapped => \A d, e \in Daemons : (Running(d) /\ Running(e)) => d = e

PidFileNames ==
  ~overlapped => \A d \in Daemons : pc[d] \notin {"off", "create"} => pidfile = d

\* What was granted is in a table that its daemon will not clear any more.
Cleared == Serving \cup {"close", "unlinkshm"}
GrantedIsServed ==
  \A t \in granted :
    t \in table /\ \E d \in Daemons : own[d] = t[2] /\ pc[d] \in Cleared

IInv ==
  /\ TypeOK
  /\ OwnersAreUp /\ OwnersDiffer /\ OwnersAreNamed /\ NoOrphanSegment
  /\ OneRuns /\ PidFileNames
  /\ GrantedIsServed

-----------------------------------------------------------------------------
(* One SIGTERM stops a daemon that polls the files.                        *)
StopsWhenPolling ==
  \A d \in Daemons : (exit_main[d] /\ ~inotify[d]) ~> ~Running(d)

(* With inotify it may come between the test of exit_main and poll, and be *)
(* seen only when a file is created or deleted: it is enough that files    *)
(* keep changing.                                                          *)
StopsWhenFilesChange ==
  \A d \in Daemons : WF_vars(FileEvent(d)) => (exit_main[d] ~> ~Running(d))

=============================================================================
