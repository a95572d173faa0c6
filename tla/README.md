# A verification of onvif_simple_server

TLA+ models of the parts of onvif_simple_server in which order, time, failure
or state matter, the TLC runs that check them on small instances, and proofs,
checked by TLAPS, of what holds for every size. Line numbers refer to the
sources in `src/`.

## The system

The program runs on IP cameras. It is a set of short processes and two daemons.

| Part | State | Operations | Meets the others through |
| --- | --- | --- | --- |
| `onvif_simple_server`, one CGI process per request | the parsed request, the configuration | authentication, dispatch to one method, one answer | the web server, the shared segment, shell commands |
| events service (`events_service.c`) | none of its own | CreatePullPointSubscription, PullMessages, Subscribe, Renew, Unsubscribe, SetSynchronizationPoint | the shared segment |
| shared segment and semaphore (`utils.c`) | the names `/onvif_subscription` and `/sub_mem_lock`, the objects behind them | create, open, close, destroy, wait, post | all processes |
| `onvif_notify_server`, main thread | `exit_main`, inotify descriptor | start, apply a change of an input file, stop | input files, the segment, HTTP to push clients |
| `onvif_notify_server`, sync thread | position in the table | serve `push_need_sync`, clean expired subscriptions | the segment, HTTP |
| `wsd_simple_server` | socket, message number, `exit_main` | Hello, ProbeMatches, Bye | UDP multicast, signals |
| configuration (`conf.c`) | `service_ctx` | read a text or JSON file | every request and both daemons |
| PTZ, imaging, relays (`ptz_service.c`, `imaging_service.c`, `deviceio_service.c`) | none: state is behind the configured commands | run commands, read their output | shell, files |
| device, media, media2 services | none | report the configuration | |

What is hard: requests are concurrent processes that share a table with two
threads of a daemon; the lock between them is a named semaphore that comes and
goes; a request may be killed anywhere, also while it holds the lock; clocks
end subscriptions while requests use them; PullMessages polls for a minute
between finding its slot and using it; the main thread works from a queue of
old changes while the sync thread looks at the files themselves.

What makes each part correct:

* segment and semaphore: one process at a time in the table, no thread stuck
  for ever, the segment found by requests while the daemon runs;
* events service and daemon: no message lost, no client left with an old
  value, ids that name one subscription, requests that work on their own slot,
  slots that come back when their time is over;
* notify daemon's life: one daemon, a segment that requests can reach while it
  is served and that is gone afterwards, an end when it is told to stop;
* dispatcher: no method but the public ones without the right credentials, one
  answer to every request;
* services: what one answer tells a client can be used in the next request, in
  both versions of Media, and methods that describe the same thing agree;
* discovery: Hello first, nothing after Bye, no end in order without trying it,
  message numbers that grow, a signal that stops the daemon;
* configuration: arrays never read beyond their counts, the same result from
  both formats (an aim that no run checks);
* imaging, PTZ, relays: a request that is refused has changed nothing, one that
  is answered "ok" has run every command it stands for, unless it is a relay's
  and blank; PTZ: names of presets
  differ, and a client is told what became of its preset.

## The modules

| Module | Models |
| --- | --- |
| `ShmSemaphore` | `utils.c` 60-221 with its callers: names and objects of the segment and the semaphore, the daemon's two threads, requests, crashes |
| `EventService` | the subscription table, the handlers of `events_service.c`, the daemon's two loops and its sync thread |
| `Subscriptions` | the abstract specification of a subscription that `EventService` implements |
| `Topics` | topic expressions (`utils.c`) and what a subscription keeps of them |
| `NotifyServer` | the life of `onvif_notify_server`: pid file, segment, inotify, signals, end |
| `WsDiscovery` | `wsd_simple_server.c`: pid file, Hello, Probe, signals, Bye |
| `Service` | what the handlers share: the configuration, requests, tokens, answers |
| `Device`, `Media`, `Media2`, `DeviceIO`, `Imaging`, `Ptz` | the methods of one service each, as operators |
| `Conf` | the readers of the text file and of the JSON file (`conf.c`) |
| `Dispatcher` | credentials, and which method answers (`onvif_simple_server.c`) |
| `OnvifServer` | CGI processes that dispatch, run commands, share presets, restart the device |
| `PresetStore` | the abstract specification of presets that `OnvifServer` implements |
| `ShmSemaphoreProofs`, `EventServiceProofs`, `NotifyServerProofs`, `WsDiscoveryProofs` | theorems about one module each |
| `OnvifServerProofs`, `PresetProofs`, `AnswerProofs`, `ClaimProofs` | theorems about `OnvifServer` and the services: credentials and refusals, presets, what an answer promises, what answers list; each builds on the one before |
| `MCShmSemaphore`, `MCEventService`, `MCOnvifServer` | instances for TLC; the others need no more than their `.cfg` |

`ShmSemaphore`, `EventService` and `NotifyServer` are three views of the same
processes: the first keeps the lock and forgets the table, the second keeps the
table and takes the lock and the segment as given, the third keeps the names
and the lives of the processes and of the table only who is in it.
`MCEventService` takes its topic expressions from `Topics`. `OnvifServer` is
built on `Dispatcher`, that on `Conf`, `Ptz` and instances of the other
services, all of them on `Service`. `WsDiscovery` shares nothing with them.

### ShmSemaphore

One action per call of the C library that can be seen by another process.
`shmName` and `semName` say which object a name stands for; objects are
numbered in the order of their creation and live on when the name is removed.
`handle[p]` is `sem_memory_lock` in process p. `pc` says where a thread is.
`SemMemoryWaitFails` is the time-out of `sem_timedwait`; as in the code, the
thread then goes on as if it had the lock, and `SemMemoryPost` posts.
`via` and `timedout` are history: the object by which a thread entered and the
objects on which a wait has timed out. `CgiExits` stands for a killed request
and for the two fault paths of `events_service.c` (151-155, 544-548) that end
without `destroy_shared_memory`.

### EventService

One action per critical section; `slots`, `on`, `notify` and `initial` are the
contents of the segment, the two bit masks turned into sets of slots. A request
with several critical sections is a small machine in `cgi[c]`:

* CreatePullPointSubscription: `CreatePullPoint`, `ForcePullInitialized`;
* Subscribe: `Subscribe`, `ForcePushSync`;
* PullMessages: `StartPull`, `EndPoll`, `SetTermination`, `Deliver`;
* `Renew`, `Unsubscribe`, `SetSynchronizationPoint`: one each.

The daemon: `ApplyChange` is the critical section that
`handle_inotify_events` and the polling loop share, `PollFile` is the polling
loop's look at a file before it takes the lock, `SyncSlot` and `CleanExpired`
are the body of `sync_events_thread`. `Inotify` says which of the two main
loops runs. The environment: `Toggle` (an input file comes or goes), `Tick`,
`CgiDies`.

A topic expression is the set of events whose topic it contains; `Topics` has
the matching, and the runs with two events use the sets that it computes from
texts with several terms, sub-trees, a term that is too short (nothing matches)
and a text that is too long (everything does). A sub-tree is a prefix of the
text, not of the path: `tns1:RuleEngine/PeopleDetect//.` has
`tns1:RuleEngine/PeopleDetection` in it, which the two topics of
`MCEventService` make use of. Clocks that
the code reads before it waits for the lock are kept as such where a later
step depends on them (`EndPoll`, the `read` of `ApplyChange`); for the ends of
new subscriptions an older clock is a shorter term.

`owner` and `told` are history variables. `owner[s]` numbers the subscriptions
ever created, `told[s][e]` is what the client of the subscription in slot s was
last told of event e: nothing yet, a value, or `gap` when a change was passed
over because the subscription had expired.

Without inotify a change that is taken back between two polls is no change: pull
clients hear nothing and need not. A push client whose synchronization was
served in between was told the value of the file, ahead of the polling loop, and
is not told that the file went back: there `ClientsUpToDate` fails, and it is
checked and proved with inotify only.

`Subscriptions` says what is promised to the subscriber: a subscription is one
thing from its creation to its end, with the messages that wait for it and what
its client knows; no slots, bits, ids, ends, locks or clocks.
`ImplementsSubscriptions` maps the table to it by `owner`: subscription n is
what the slot s with `owner[s] = n` holds (`SubIn`), what waits for it are its
bits or, for a push client, its topics while `push_need_sync` is set. Taking a
slot is `Create`, the second critical section of a creating request `Complete`,
SetSynchronizationPoint `Resend`, `ApplyChange` `Change` for all subscriptions
at once, `Deliver` `Pull`, `SyncSlot` `Push`, Unsubscribe and the cleaning
`Cease`; everything else is invisible. A creating request that wakes up after
its slot was given to somebody else is a `Resend` to that one, or invisible:
its client gets a message twice, not a wrong one. What the mapping does not
hide is that a subscription may begin with bits of the one before
(`EventService_pull_filter`); `Create` allows them.

That critical sections do not overlap is an assumption of this module. The
code makes it too; `ShmSemaphore` shows when it holds and that it may fail.

### WsDiscovery

`pc` is the place of the main thread, cut wherever a signal changes what
follows; `sock`, `number` (`msg_number`), `out` (`s_tmp`) and `exit_main` are
the variables of the code, `addr` joins `have_v4` and `xaddr6`, `last`,
`announced` and `bye` remember what was sent, which families heard Hello, and
what became of the Bye over each of them.

* `CheckPid`, `CreatePid`, `StartFails`, `OpenSocket`, `JoinGroups`: the start;
* `NumberHello4` to `SendHello6`: numbering and sending are apart, because the
  handler may number and send its Byes between them;
* `EnterLoop`, `TestExit`, `Arm`, `EnterSelect`, `SelectReady`,
  `IgnoreDatagram`, `HandleProbe`, `SendProbeMatches`: the loop;
* `CloseSocket`, `UnlinkPid`: the end. `Dies` is SIGKILL.

`send_bye` sends nothing when there is no memory (214), only logs that `sendto`
failed (220), and before line 567 sends to an address that is still zero.
`SendByes` chooses which of the Byes go out; each takes its number all the same,
and the handler goes on as if they had. So an end in order is not always heard:
what holds is that each announced family has heard a Bye or one was tried.

`SignalHandler` is one step with everything `signal_handler` and `send_bye` do:
SIGTERM and SIGINT are not nested here, and that the handler calls functions
that are not async-signal-safe (`malloc`, `fopen`) is not modelled. A message
that the main thread sends on a descriptor the handler has closed is not sent.
`FD_SET(-1, ..)`, which the handler can cause (676), is undefined: the process
ends, as it does in a checked build, or goes on.

Seen while modelling, and covered by no property:

* two daemons started together pass `check_pid` together; with `SerialStarts`
  FALSE, `OneDaemon` says nothing;
* the Bye over IPv4 is sent also when there is no IPv4 address (231), with an
  empty address;
* a host with IPv6 only whose group cannot be joined goes on with no family at
  all (590-592): no Hello, no answer, until it is stopped;
* one SIGTERM may not be enough: one that comes before line 667 is forgotten,
  one between 669 and 677 may leave `select` waiting for a second signal.

### NotifyServer

`pc` is the place of `main`, `exit_main`, `inotify` (`fd # -1`) and `records`
are its state, `shm` and `own` the segment by name and by mapping, `table` who
has subscribed in which segment. `granted`, `overlapped`, `lost` and `died` are
history.

* `CheckPid`, `CreatePid`, `CreatePidFails`, `SetupFails`, `OpenShm`,
  `ShmExists`, `MapShm`, `MapShmFails`, `GiveUp`, `Clear`, `Listen`,
  `WatchFails`: the start and its failures, with what each leaves behind;
* `TestExit`, `EnterPoll`, `PollFails`, `HandleRecords`, `ScanFiles`: the loop;
* `Unmap`, `UnlinkShm`, `UnlinkPid`: the end. `Dies` is SIGKILL, SIGUSR1 before
  there is a table, and a crash of the sync thread;
* `SignalHandler`, `PrintSubscriptions`, `FileEvent`: what comes from outside;
* `Subscribe`, `OpenFails`: requests, which open the segment and write to it in
  one step. Requests that go on with an old mapping are `ShmSemaphore`'s.

### The services, Conf and Dispatcher

These modules have no variables: a method is an operator of the configuration
`c` and the request `r`, and where it looks at the device of the world `w`
(presets, position, movement, a new UUID). It gives an answer, or a plan: the
commands in the order in which they are run, and the answer when none fails.
A request is a set of elements with their values, a token is a pair of a kind
and the name of a profile, a coordinate is inside or outside its limits. An
answer has a kind (`ok`, a fault with its code, none, undefined) and claims:
which tokens and services it lists, with the codec, count or state that a
client configures itself from.

Where the code reads what it never wrote or does not own, the answer is
`Undefined`, which no property accepts as one, except where a property names
the case (`Unwritten` in `OnvifServer`). A request for which the code writes
nothing at all gets `NoAnswer`, which is treated alike (`IsOff`, `Unlisted`).

`Conf` reads the options of a text file in the order of its lines, with the
counters, limits and early returns of the code, and the members of a JSON file
as `cJSON` finds them. They keep a command whether its value is blank or not;
whether a blank one is run is a matter of the method: the hooks and the commands
of relays count as nothing to run, those of PTZ are run. `Dispatcher` has the chain of tests over the header in
the order of the code, the last error counting, and the methods by name.

### OnvifServer

`device` is a device with its file, its clients and what they ask; `conf` what
every process reads in the file; `store` the presets, which live behind the
commands; `proc[p]` a CGI process; `last` the last answer, put away before the
next request.

* `Receive`: authentication, dispatch, everything before the first command;
* `CommandSucceeds`, `CommandFails`: `run_command` for the next command of the
  plan, with its effect on the presets; the first that fails ends the request;
* `AnswerSetPreset`: the second listing of SetPreset and its answer;
* `SetSystemFactoryDefault`: the command that runs after the answer;
* `CreateHelper`, `CallSync`, `SyncReturns`, `Expire`, `Reboot`, `RebootFails`:
  `reboot_thread` with its helper, its deadline, and `sync` called in its place
  when no thread can be created.

Several processes run side by side. The code says of SetPreset "Unhandled race
condition", so the promises about presets are made for devices whose clients
wait for one another (`Serial`), that list their presets at once (`Prompt`: a
pipe may give fewer at the first read, `ptz_service.c` 68) and that have
`get_presets`: together `Orderly`. `PresetStore` says what is promised to them:
adding, renaming, removing or refusing is one step, and its outcome is what the
client is told. `ImplementsPresetStore` maps the command of SetPreset to `Add`,
`Refuse` or `Update`, that of RemovePreset to `Remove`, `AnswerSetPreset` to
`Tell`, and everything else to `Forget` or to no step. Of other devices nothing
is visible through the mapping.

`MCOnvifServer` has the devices: the file of the documentation with everything
enabled, one with nothing, one with PTZ that lacks commands, the same in JSON,
one in JSON whose `enable` of PTZ and of events are numbers that mean nothing,
two files with elements in the wrong place or number, two with one profile, with
and without sound, and two whose clients change presets, one of them with
clients that do not wait. The files with relays have some without a command and
some whose command is blank. The first of them is also asked for what its methods
need without giving it.

Seen while modelling, and covered by no property:

* the JSON reader looks `events` up again in the file (`conf.c` 1384-1393), so
  the events that `onvif_simple_server.json.example` 91-93 nests in it are never
  read;
* limits differ by one: `conf.c` 601 and 1340 refuse the eighth relay where
  `README.md` 266 counts eight, the JSON reader the eighth event;
* a relay whose command is blank is answered "ok" although nothing was run
  (`deviceio_service.c` 270-277), one that has no command is not;
* the JSON reader takes any number for the `enable` of PTZ (`conf.c` 1250), and
  GetServices has no case for one that is neither 0 nor 1 (`device_service.c`
  123-316): it ends without headers and without a body;
* with one profile, several methods look at `profiles[1]`;
* tokens are cut after nine letters where a suffix may follow, so that methods
  of Media and Media2 deny a profile with a longer name that others list;
* `media2` GetProfiles with a token gives the audio encoding of the first
  profile, and writes `Profile_0` and `Profile_1` whatever the names are; when
  media2 is off, its service does not answer at all;
* `adv_fault_if_unknown` is used by CreateProfile of media only;
* a user without a password makes `onvif_simple_server.c` compare a digest made
  from NULL;
* a movement of the zoom alone in RelativeMove or AbsoluteMove runs a command
  that was never written; SetRelayOutputSettings reads a node never written;
  RelativeMove with a zoom that has no space, and GetNode, GotoPreset and
  RemovePreset without a token, read through NULL.

`Unwritten` names the requests whose answer reads what was never written, and
`IsOff` those for a media2 that is off, `Unlisted` the GetServices above:
`EveryRequestIsAnswered` says that there are no others. `SetsBlankRelay` names
the one "ok" for which nothing was done: `OkMeansDone` says that there is no
other. `ListedIsUsable` names the condition on the names of profiles
(`ShortNames`, and `UsualNames` where media2 is on).

## The runs

| Run | Question | Result |
| --- | --- | --- |
| `ShmSemaphore_daemon` | Does a semaphore admit one holder, do critical sections exclude each other while a single semaphore object has existed, and do the daemon's threads always get past the lock? | yes |
| `ShmSemaphore_already_ok` | Is the daemon alone in the table, as three comments say? | no |
| `EventService_slots` | With two concurrent requests over two slots, pull and push: types, distinct ids, requests that keep their slot; does each subscriber get what `Subscriptions` says? | yes |
| `EventService_mixed` | With two events, topic expressions, limits, push and pull in one slot and a queue of two records: no lost message, clients up to date, new push clients served | yes |
| `EventService_polling` | Without inotify, under fairness: files are noticed, expired subscriptions freed, PullMessages ends, synchronizations served | yes |
| `EventService_pull_filter` | Do pull clients get only events in their expression? | no |
| `WsDiscovery_daemon` | Is there one daemon at a time, do message numbers grow, is Bye the last message and tried over every announced family before an orderly end, do answers go out only over families with an address, does a daemon stop that is sent SIGTERM again and again? | yes |
| `NotifyServer_life` | Is there one daemon at a time, do requests reach the segment it serves, is nothing left after an orderly end, is a start refused only after a crash, do granted subscriptions survive, does a daemon stop? | yes |
| `OnvifServer_cgi` | Is nothing run or told without credentials, is a refused request without effect and an "ok" true (but for a blank relay), is every request answered but for the named cases, do answers fit together, are presets what `PresetStore` says, do requests end? | yes |
| `OnvifServer_blank_user` | Does a blank user disable security? | no |
| `EventService_no_end` | Can every expired subscription be freed? | no |
| `EventService_early_file` | Are clients up to date when a file is there before the daemon? | no |

The five answers "no" are disagreements between the code and its own comments
or README; they are listed as findings in `PROJECT.json`.

### Bounds

`MaxSems` = 3 semaphore objects allow the daemon's object, its successor and
one more, which is what it takes for two requests and the daemon to use three
different ones. `MaxShms` = 1 is one life of the daemon and its restarts up to
the exhausted bound; this is why the run does not check for deadlock: an
instance stops when its objects are used up or when a killed daemon has left
its segment behind, and `shm_open` with `O_EXCL` keeps it from starting again.

`EventService_slots`: two slots, two subscriptions, two requests: a slot is
reused and two subscriptions are alive together; `MaxNow` = 4 seconds leave
room for a pull (timeout 1, a second to notice, a second of delay) that starts
late, for expiry and cleaning. `EventService_mixed` has one slot, so that
every reuse is of the same slot, and two events, the least for a limit of one
to keep something back and for an expression to leave something out.
`MaxId` = 5 is never reached there; `UsedIdsDiffer` says itself how far it goes.
`MaxQueue` bounds the unread inotify records.

`NotifyServer_life`: two daemons, each started, killed and started again without
limit, two segments (one that is served and one made while the first is still
mapped) and one request. 143,554 states.

`OnvifServer_cgi`: the modelled methods of every service are asked for, on
each device that has it, with tokens of every kind that exist and that do not,
and with every single element of the credentials missing or wrong; one process
at a time there, since those answers depend on nothing that processes share.
Two processes where they share the presets, with room for two presets, three
numbers and three names, two of them made up by the server: the least for a
store that is full, a free number that is not the next one, a name that clashes
with another preset's, and a second preset without a name of its own. 67,994
states.

`WsDiscovery_daemon`: two daemons, the least for a pid file to matter; each may
be started, killed and started again without limit. `MaxNumber` = 3: both
Hellos and one Probe, after which Probes are ignored and the Bye takes the
numbers 4 and 5. Each Bye may go out or not. 498,471 states.

### What is assumed of the environment

* `SerialClients`: no two requests for one subscription at a time. Without it
  TLC finds that a client that unsubscribes while its PullMessages still runs
  makes that request deliver, and clear, the messages of whoever gets the slot
  next, and that a Renew during a PullMessages is undone at line 339.
* A request that polls sees within a second that its time is over, and answers
  within `Lag` seconds after that, and `Grace` (ten seconds in the code) is at
  least one more than `Lag`.
* Timeouts of PullMessages are at least `Lag`. With `PT0S` the end set at line
  342 may pass before the answer is written, and the slot be freed under it.
* Commands return: `run_command` has no timeout, and one that hangs keeps its
  request for ever. `set_preset` without a number adds under a free number or,
  when there is no room, does nothing; both with status 0, as the code expects
  when it compares the two listings.
* For the promises about presets, clients that wait for one another.
* Files that can be read give one or two profiles with different names
  (`README.md` 227 allows no more; `FilesAssumption`), requests name one of the
  seven services, under whose names the web server runs the program
  (`RequestsAssumption`), and the names that Media2 writes have nine letters
  (`LettersAssumption`, a fact that the prover does not know of strings). TLC
  evaluates the three for the devices of the runs.
* `SerialStarts`: no two discovery daemons are between `check_pid` and
  `create_pid` together, and no other program runs under the number in an old
  pid file (the daemon would then not start).

### Fairness

`ShmSemaphore`: the daemon's threads keep running (weak fairness of entering
and leaving a critical section); nothing is assumed of requests, which the web
server may kill or stop. `EventService`: weak fairness of the daemon's two
loops, of the steps of a PullMessages that runs and of time; none of clients
and files. `PollFile` has strong fairness per event: the loop of
`onvif_notify_server.c` 870-929 visits the events in turn, so the change of one
file cannot keep it from another. `WsDiscovery`: weak fairness of the main
thread's steps; none of datagrams or crashes. That SIGTERM is sent again and
again is the antecedent of `StopsWhenInsistent`, not an assumption of the
specification. `NotifyServer`: weak fairness of the main thread of each daemon,
none of signals, files, requests or crashes; `StopsWhenFilesChange` has the
antecedent that files keep changing, because a signal between the test of
`exit_main` and `poll` is not seen before. `OnvifServer`: weak fairness of the
steps a process takes by itself (its commands return, its threads run); not of
`SyncReturns`, since the deadline is there because `sync` may not return.

## What is proved

`ShmSemaphoreProofs`, for any number of requests, semaphore objects and
segments: `IInv` is an invariant, hence `TypeOK`, `OneHolderPerSemaphore` and
`ExclusionInFirstPeriod` are. `OneHolderPerSemaphore` is not inductive alone;
the invariant adds that a semaphore on which nobody timed out has value at most
one and zero while somebody holds it (`ValueCountsHolders`), that a holder's
process still has the object open or has closed it (`HoldersHaveHandle`), that
whoever is inside without holding an object has failed to wait
(`IntrudersFailedToWait`), and that running processes have handles
(`HandlesAreOpen`). The proof has one lemma per action.

`EventServiceProofs`, for any number of slots, events, requests and topic
expressions, any queue and any bound on time:

* `TypesHold`: `TypeOK`.
* `IdsDiffer`: `UsedIdsDiffer`. The invariant `IdsFollowAllocs` ties the
  highest id in use to the number of subscriptions ever created, so that the
  id after it is free until the counter wraps at 65535.
* `NewPushesAreDue`: `NewPushIsDue`. `CreatorsKnowTheirKind` and
  `RequestsHaveSlots` say what a request between its two critical sections
  knows of the slot it took.
* `PullsKeepTheirSlots`: `PullKeepsItsSlot`, from the assumption
  `ClientsBehave` (of the points above: `SerialClients`, `Grace` at least one
  more than `Lag`, timeouts of at least `Lag`). `PullInv` is the invariant:
  `PullsAreInTime` says how far the end of the slot is ahead of the clock at
  each place of a PullMessages, with the `Grace` that the request adds while
  it polls as the margin, and `PullsAreApart` that no two requests work on one
  slot.
* `NoMessageIsLost`: `NoLostMessage`, from the same assumption. The bits that
  `Deliver` clears are those of the subscription it answers only because of
  the theorem before.
* `ClientsAreUpToDate`: `ClientsUpToDate`, from the same assumption and from
  `EveryChangeIsRecorded` (inotify works, and no file is there before the
  daemon; `EventService_early_file` shows what happens otherwise).
  `RecordsFollowFiles` says that the last unread record of an event, or `is_on`
  when there is none, is the state of its file; pull clients follow from the
  theorem before, push clients from `PushesAreUpToDate`, which holds although
  the sync thread tells them of the file ahead of the queue.
* `SubscriptionsAreImplemented`: `Spec` implies `ImplementsSubscriptions`, from
  `ClientsBehave` alone. `OwnersMatch` says that a slot in use holds a
  subscription and no other slot holds the same one, so that the mapping, which
  chooses a slot by its number, is determined (`NumbersAreOwned`). A step that
  touches one slot changes one subscription or none (`OneSubChanges`,
  `SubsStay`); what is left for each action is what becomes of that slot. The
  step `Deliver` needs `PullKeepsItsSlot`, the second halves of the creating
  requests `CreatorsKnowTheirKind`, and that a limited answer takes the first
  of what waits is monotony of cardinality (`SentIsFirst`).

`NotifyServerProofs`, for any number of daemons, segments and requests: its five
safety invariants. They are not inductive alone. `IInv` adds that exactly the
daemons between `shm_open` and `shm_unlink` have a segment (`OwnersAreUp`), each
one of its own (`OwnersDiffer`), the one the name stands for unless a request
has removed the name (`OwnersAreNamed`); that without overlapping starts one
daemon runs (`OneRuns`) and the pid file names it (`PidFileNames`); and that
what was granted is in a table that will not be cleared again
(`GrantedIsServed`).

`WsDiscoveryProofs`, for any daemons and any number of signals and messages:
`TypeOK`, `OneDaemon`, `EndsWithBye`, `AnswersCarryAnAddress`, and the action
properties `NumbersGrow` and `NothingAfterBye`. `IInv` adds what a signal may
find at each place: the socket is closed once the Byes were tried
(`ClosedAfterBye`), it is there where the main thread counts on it
(`HasSocket`), the loop ends only after that (`ExitAfterBye`), no announced
family was left out (`ByeToAll`), nothing but a Bye goes out before the first Hello
(`Silent`), what is about to be sent has an address of its family (`Addressed`),
and the number a message was given is above the last one sent (`Numbered`).

`OnvifServerProofs`, for every configuration and every request:

* `CredentialsAreAsked`: `NothingWithoutCredentials`, with the shape of the
  processes as the only strengthening; the proof goes through `auth_error` and
  the public methods.
* `RefusalsChangeNothing`: `RejectedIsNotApplied`. `Promised` says that the
  answer a process holds while its commands run is no refusal; the proof goes
  through every method that runs a command.

Of the configuration both need only that it does not change.

`PresetProofs`, for any devices, clients and requests that satisfy
`DevicesAssumption` and `PresetsAssumption`: `TypeOK`, `PresetNamesUnique` and
`Refinement`, that `Spec` implies `ImplementsPresetStore`. SetPreset looks for
the name in one step and stores it in another, so the invariant carries the
result of the test along: `Checked` before the command (no other preset has the
name, and the number of presets is the one that was counted), `Stored` after it
(exactly the preset it is about has the name, or there was no room). They hold
because only one request changes presets at a time (`OneAtATime`), with one
command (`Single`) that names what was tested (`Named`). For the refinement each
step is mapped as in the section on `OnvifServer`.

`AnswerProofs`, for every configuration, request and world:

* `OkIsDone`: `OkMeansDone`. A command may fail at any step, or not be
  configured, in which case the answer is known only when its turn comes. The
  invariant `Due` says of a process that will answer "ok" that what it has run
  together with what it still has to run is all that the request asks for,
  unless one of the latter cannot succeed or the command is a blank relay's
  (`SetsBlankRelay`). One lemma for each service (`Enough`)
  shows that the plan of a request satisfies this when it is made; the hardest
  is ContinuousMove, whose plan is a prefix of the commands of three axes.
* `RequestsAreAnswered`: `EveryRequestIsAnswered`. One lemma for each service
  goes through all its methods: each answers, or the request is `Unwritten` or
  `Unlisted`, or the service is off. What the answer may be while commands run (`Replies`)
  makes it an invariant.

`ClaimProofs`, with the three assumptions on files, requests and letters:

* `Honesty`: every claim of an answer is true (`IsTrue`: it is about a profile,
  a relay, a service or another part that the configuration has, and the value
  beside it is the one there), and a preset that an orderly client is told of
  is in the store. The proof has a lemma for each service (`Says`) and carries
  along that a process with commands to run makes no claims (`Quiet`) and that
  only a request that was let through makes any (`Heard`).
* `AnswersAgree`: `ClaimsAgree`, because two claims that are true of one
  configuration and about one thing have one value; names of profiles differ in
  either version of Media.
* `ListedWorks`: `ListedIsUsable`. A claim that is true gives a name that the
  device knows (`Known`); for each of the 31 pairs of a kind of token and a
  method that takes it, the follow-up request with that name is welcome, also
  through the cuts after nine letters (`CutsLeave`) and the comparison with a
  profile that may not be there (`NamesAProfile`). That the follow-up is answered
  at all comes from `AnswerProofs`.

All the invariants were checked by TLC first, on the instances of the runs. Each
proof has one lemma per action, or per kind of command or per service where one
action stands for all of them.

Only model-checked: liveness (`DaemonNeverStuck`, the four properties of
`EventService_polling`, `StopsWhenInsistent`, `StopsWhenPolling`,
`StopsWhenFilesChange`, `RequestsEnd`) and ENABLED, which are out of the
prover's reach; and that a file gives what `FilesAssumption` says, because a
reader is a fold over the lines of the file, and what a fold computes for every
file takes induction over data, which the prover does not have. Every safety
property of the passing runs is proved.

## Not modelled

* Parsing of XML (`ezxml`, vendored), base64 and SHA-1, templates: they turn
  text into text. A request is what the handlers find in it, an answer what it
  says.
* Logging and the rotation of the log files (`onvif_simple_server.c` 110), which
  requests that run together do without any lock: nothing reads these files.
* The command line of the three programs, and what they print.
* Values of the configuration that are only copied to answers (names, ports,
  sizes, bit rates), and the text of scopes, addresses, dates and certificates.
* The daemon's HTTP client is a message that is sent; that it may fail and is
  then lost is listed among the hazards.
* The arithmetic of coordinates: they are inside or outside of their limits.

## What is left

The events of the configuration in `Conf`, and relays as events.
