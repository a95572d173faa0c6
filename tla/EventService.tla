----------------------------- MODULE EventService -----------------------------
(***************************************************************************)
(* The ONVIF events service: the subscription table in shared memory, the  *)
(* CGI handlers of events_service.c that clients drive, and the daemon     *)
(* onvif_notify_server.c that watches the input files of the events, with  *)
(* inotify or by polling them.                                             *)
(*                                                                         *)
(* One action is one critical section between sem_memory_wait and          *)
(* sem_memory_post, with the local computation that leads to it. Handlers  *)
(* with several critical sections are several actions, and everything else *)
(* may happen in between. That critical sections do not overlap is what    *)
(* the code expects of the semaphore; module ShmSemaphore says when it     *)
(* gets it.                                                                *)
(*                                                                         *)
(* A topic expression is the set of events whose topic is in it; the empty *)
(* expression contains every topic.                                        *)
(***************************************************************************)
EXTENDS Integers, FiniteSets, Sequences

CONSTANTS
  Cgi,                \* CGI processes that may serve a request at a time
  MAX_SUBSCRIPTIONS,  \* slots of the table
  EventsNum,          \* events_num: the events of the configuration
  MaxId,              \* 65535: ids start again at 1 after it
  MaxLife,            \* MAX_SUBSCRIPTION_SEC
  PullLife, PushLife, \* default lifetimes: 60 s and 600 s
  Grace,              \* the 10 s PullMessages adds while it polls
  \* What clients send
  Expressions,        \* topic expressions
  PullTerms, PushTerms, RenewTerms,  \* (Initial)TerminationTime
  Timeouts, Limits,   \* Timeout and MessageLimit of PullMessages
  Absent, Unparsable, \* a missing element, a time from_iso_date rejects
  SerialClients,      \* TRUE: no two requests for one subscription at a time
  Lag,                \* seconds a thread may wait for the lock or the CPU
  Inotify,            \* does the kernel have inotify? otherwise files are polled
  FilesAtStart,       \* states of the input files when the daemon starts
  \* Bounds of the model
  MaxNow, MaxAllocs, MaxQueue

Slots  == 1..MAX_SUBSCRIPTIONS
Events == 1..EventsNum

ASSUME SizesAssumption ==
  /\ MAX_SUBSCRIPTIONS \in Nat \ {0} /\ EventsNum \in Nat \ {0}
  /\ MaxId \in Nat \ {0}
ASSUME TimesAssumption ==
  /\ {MaxLife, PullLife, PushLife, Grace, Lag} \subseteq Nat
  /\ \A t \in PullTerms \cup PushTerms \cup RenewTerms :
       t \in Int \/ t \in {Absent, Unparsable}
  /\ Timeouts \subseteq Int /\ Limits \subseteq Int
ASSUME RequestsAssumption ==
  /\ Expressions \subseteq SUBSET Events
  /\ SerialClients \in BOOLEAN /\ Inotify \in BOOLEAN
  /\ FilesAtStart \subseteq [Events -> BOOLEAN]
ASSUME BoundsAssumption == MaxNow \in Nat /\ MaxAllocs \in Nat /\ MaxQueue \in Nat

VARIABLES
  slots,    \* subscriptions[]: id, used, expire, push_need_sync, topic_expression
  on,       \* events[].is_on
  notify,   \* events[].pull_notify, as the set of slots whose bit is set
  initial,  \* events[].pull_send_initialized, likewise
  file,     \* does the input file of the event exist?
  inq,      \* changes seen and not yet applied: the records of inotify not
            \* yet read, or the one result of access() while polling
  sync_i,   \* the slot the sync thread looks at next; past the last: cleaning
  now,      \* time(NULL)
  cgi,      \* what each CGI process is doing
  allocs,   \* subscriptions ever created, which also numbers them
  owner,    \* history: number of the subscription in the slot, 0 if none
  told      \* history: what the slot's client was told about each event

table == <<slots, on, notify, initial>>
vars  == <<slots, on, notify, initial, file, inq, sync_i, now, cgi, allocs, owner, told>>

-----------------------------------------------------------------------------
\* memset(.., 0, sizeof(subscription_shm_t))
BlankSlot ==
  [id |-> 0, used |-> "SUB_UNUSED", expire |-> 0, sync |-> FALSE, topic |-> Events]

\* What a client was told about an event since its subscription was created:
\*   unset  creation not complete     never  complete, no message yet
\*   true, false  the last value sent
\*   gap    a change was passed over because the subscription had expired
Told  == {"unset", "never", "gap", "true", "false"}
Value(b) == IF b THEN "true" ELSE "false"
IsValue(t) == t \in {"true", "false"}
Untold == [e \in Events |-> "unset"]
\* The answer to a create or subscribe request: the client knows its id.
Answered(t) == [e \in Events |-> IF t[e] = "unset" THEN "never" ELSE t[e]]

\* Local variables of a request: the slot (sub_index) and id it works on, the
\* number of the subscription it was sent for, now_p_timeout while it polls
\* and its "now" after that, previous_expire_time, timeout_sec and limit.
IdleCgi ==
  [pc |-> "idle", slot |-> 0, id |-> 0, sub |-> 0, until |-> 0, prev |-> 0,
   timeout |-> 0, limit |-> 0]
PcValues == {"idle", "create", "subscribe", "poll", "finish", "deliver"}

Used(s)    == slots[s].used # "SUB_UNUSED"
Expired(s) == now > slots[s].expire

\* First slot whose id is the one in the query string.
Finds(id, s) == slots[s].id = id /\ \A r \in 1..(s - 1) : slots[r].id # id
FirstUnused(s) == ~Used(s) /\ \A r \in 1..(s - 1) : Used(r)

\* Mutant: the lowest id instead of the highest.
Mutant_IsNextId(id) ==
  \E low \in {slots[s].id : s \in Slots} :
    /\ \A s \in Slots : slots[s].id >= low
    /\ id = IF low = MaxId THEN 1 ELSE low + 1

\* A new id is one more than the highest in the table, wrapping at MaxId.
IsNextId(id) ==
  \E top \in {slots[s].id : s \in Slots} :
    /\ \A s \in Slots : slots[s].id <= top
    /\ id = IF top = MaxId THEN 1 ELSE top + 1

\* An interval counts from now; an ISO date is an instant, here as its
\* distance from now; from_iso_date returns 0 for what it cannot parse. The
\* handlers read the clock before they wait for the lock: a late one is a
\* request with a shorter term.
RequestedEnd(term, default) ==
  IF term = Absent THEN now + default
  ELSE IF term = Unparsable THEN 0
  ELSE now + term

InitialEnd(term, default) ==
  LET end == RequestedEnd(term, default)
  IN  IF end > now + MaxLife THEN now + MaxLife ELSE end

\* The environment assumption SerialClients, for a request with this id.
MaySend(id) == SerialClients => \A c \in Cgi : cgi[c].id # id

\* Mutant: the bit next to the slot's.
Mutant_MarkAll(bits, s) ==
  [e \in Events |-> IF e \in slots[s].topic THEN bits[e] \cup {s + 1} ELSE bits[e]]

MarkAll(bits, s) ==
  [e \in Events |-> IF e \in slots[s].topic THEN bits[e] \cup {s} ELSE bits[e]]

\* A change of the event's file that the daemon can still see or has seen.
Pending(e) ==
  \/ \E i \in 1..Len(inq) : inq[i].ev = e
  \/ ~Inotify /\ on[e] # file[e]

-----------------------------------------------------------------------------
\* create_shared_memory(1), memset, inotify_add_watch: nothing is subscribed,
\* every event is off, whether or not its file already exists.
Init ==
  /\ slots = [s \in Slots |-> BlankSlot]
  /\ on = [e \in Events |-> FALSE]
  /\ notify = [e \in Events |-> {}]
  /\ initial = [e \in Events |-> {}]
  /\ file \in FilesAtStart
  /\ inq = <<>>
  /\ sync_i = 1
  /\ now = 1
  /\ cgi = [c \in Cgi |-> IdleCgi]
  /\ allocs = 0
  /\ owner = [s \in Slots |-> 0]
  /\ told = [s \in Slots |-> Untold]

(***************************************************************************)
(* Creating subscriptions.                                                 *)
(***************************************************************************)

\* First critical section of CreatePullPointSubscription and of Subscribe: the
\* first unused slot is taken. push_need_sync keeps the value it had. When no
\* slot is unused the request faults and leaves the table alone.
Allocate(c, kind, pc, topic, expire) ==
  \E s \in Slots, id \in 1..MaxId :
    /\ FirstUnused(s)
    /\ IsNextId(id)
    /\ allocs < MaxAllocs
    /\ slots' = [slots EXCEPT ![s] = [@ EXCEPT !.id = id, !.used = kind,
                                              !.expire = expire, !.topic = topic]]
    /\ allocs' = allocs + 1
    /\ owner' = [owner EXCEPT ![s] = allocs + 1]
    /\ told' = [told EXCEPT ![s] = Untold]
    /\ cgi' = [cgi EXCEPT ![c] = [IdleCgi EXCEPT !.pc = pc, !.slot = s, !.id = id,
                                                 !.sub = allocs + 1]]
    /\ UNCHANGED <<on, notify, initial, file, inq, sync_i, now>>

CreatePullPoint(c) ==
  /\ cgi[c].pc = "idle"
  /\ \E topic \in Expressions, term \in PullTerms :
       Allocate(c, "SUB_PULL", "create", topic, InitialEnd(term, PullLife))

Subscribe(c) ==
  /\ cgi[c].pc = "idle"
  /\ \E topic \in Expressions, term \in PushTerms :
       Allocate(c, "SUB_PUSH", "subscribe", topic, InitialEnd(term, PushLife))

\* The answer of a creating request reaches the client of the subscription,
\* which may have lost its slot meanwhile.
Answer(c) ==
  /\ cgi' = [cgi EXCEPT ![c] = IdleCgi]
  /\ told' = IF owner[cgi[c].slot] = cgi[c].sub
             THEN [told EXCEPT ![cgi[c].slot] = Answered(@)] ELSE told

\* Second critical section of CreatePullPointSubscription: every event in the
\* slot's topic expression is to be sent with property Initialized.
ForcePullInitialized(c) ==
  LET s == cgi[c].slot IN
  /\ cgi[c].pc = "create"
  /\ initial' = MarkAll(initial, s)
  /\ notify' = MarkAll(notify, s)
  /\ Answer(c)
  /\ UNCHANGED <<slots, on, file, inq, sync_i, now, allocs, owner>>

\* Mutant: push_need_sync is not set.
Mutant_ForcePushSync(c) ==
  /\ cgi[c].pc = "subscribe"
  /\ Answer(c)
  /\ UNCHANGED <<slots, on, notify, initial, file, inq, sync_i, now, allocs, owner>>

\* Second critical section of Subscribe. The request then answers, or faults
\* when the header has no MessageID: the subscription stands either way.
ForcePushSync(c) ==
  /\ cgi[c].pc = "subscribe"
  /\ slots' = [slots EXCEPT ![cgi[c].slot].sync = TRUE]
  /\ Answer(c)
  /\ UNCHANGED <<on, notify, initial, file, inq, sync_i, now, allocs, owner>>

(***************************************************************************)
(* PullMessages.                                                           *)
(***************************************************************************)

\* Mutant: no temporary end.
Mutant_StartPull(c) ==
  /\ cgi[c].pc = "idle"
  /\ \E s \in Slots, timeout \in Timeouts, limit \in Limits :
       LET id == slots[s].id IN
       /\ id # 0 /\ Finds(id, s) /\ MaySend(id)
       /\ slots[s].used = "SUB_PULL"
       /\ now + timeout + 1 + Lag <= MaxNow
       /\ cgi' = [cgi EXCEPT ![c] =
                    [pc |-> "poll", slot |-> s, id |-> id, sub |-> owner[s],
                     until |-> now + timeout, prev |-> slots[s].expire,
                     timeout |-> timeout, limit |-> limit]]
  /\ UNCHANGED <<slots, on, notify, initial, file, inq, sync_i, now, allocs, owner, told>>

\* The subscription is found and its end moved beyond the polling time. An
\* unknown id, or one of a push subscription, is a fault without effect.
StartPull(c) ==
  /\ cgi[c].pc = "idle"
  /\ \E s \in Slots, timeout \in Timeouts, limit \in Limits :
       LET id == slots[s].id IN
       /\ id # 0 /\ Finds(id, s) /\ MaySend(id)
       /\ slots[s].used = "SUB_PULL"
       /\ now + timeout + 1 + Lag <= MaxNow
       /\ slots' = [slots EXCEPT ![s].expire = now + timeout + Grace]
       /\ cgi' = [cgi EXCEPT ![c] =
                    [pc |-> "poll", slot |-> s, id |-> id, sub |-> owner[s],
                     until |-> now + timeout, prev |-> slots[s].expire,
                     timeout |-> timeout, limit |-> limit]]
  /\ UNCHANGED <<on, notify, initial, file, inq, sync_i, now, allocs, owner, told>>

\* Mutant: only a message ends the loop.
Mutant_EndPoll(c) ==
  /\ cgi[c].pc = "poll"
  /\ \E e \in Events : cgi[c].slot \in notify[e]
  /\ cgi' = [cgi EXCEPT ![c] = [@ EXCEPT !.pc = "finish", !.until = now]]
  /\ UNCHANGED <<slots, on, notify, initial, file, inq, sync_i, now, allocs, owner, told>>

\* The polling loop ends, with a bit of this slot set or the time over, and
\* the clock is read, before the wait for the lock that follows.
EndPoll(c) ==
  /\ cgi[c].pc = "poll"
  /\ now > cgi[c].until \/ \E e \in Events : cgi[c].slot \in notify[e]
  /\ cgi' = [cgi EXCEPT ![c] = [@ EXCEPT !.pc = "finish", !.until = now]]
  /\ UNCHANGED <<slots, on, notify, initial, file, inq, sync_i, now, allocs, owner, told>>

\* "Set correct termination time": from the end remembered by StartPull, in
\* the slot it found, whoever has it now.
SetTermination(c) ==
  LET end == cgi[c].until + cgi[c].timeout IN
  /\ cgi[c].pc = "finish"
  /\ slots' = [slots EXCEPT ![cgi[c].slot].expire =
                 IF cgi[c].prev > end THEN cgi[c].prev ELSE end]
  /\ cgi' = [cgi EXCEPT ![c] = [@ EXCEPT !.pc = "deliver", !.prev = 0, !.timeout = 0]]
  /\ UNCHANGED <<on, notify, initial, file, inq, sync_i, now, allocs, owner, told>>

\* The events sent: the first "limit" ones, in table order, whose bit is set.
Sent(s, limit) ==
  {e \in Events : /\ s \in notify[e]
                  /\ Cardinality({d \in 1..e : s \in notify[d]}) <= limit}

\* Mutant: all bits of the slot are cleared, whatever the limit.
Mutant_Deliver(c) ==
  LET s == cgi[c].slot
      sent == Sent(s, cgi[c].limit)
  IN
  /\ cgi[c].pc = "deliver"
  /\ notify' = [e \in Events |-> notify[e] \ {s}]
  /\ initial' = [e \in Events |-> initial[e] \ {s}]
  /\ told' = IF owner[s] = cgi[c].sub
             THEN [told EXCEPT ![s] = [e \in Events |->
                     IF e \in sent THEN Value(on[e]) ELSE @[e]]]
             ELSE told
  /\ cgi' = [cgi EXCEPT ![c] = IdleCgi]
  /\ UNCHANGED <<slots, on, file, inq, sync_i, now, allocs, owner>>

\* Mutant: the bits of all slots are cleared.
Mutant_DeliverToAll(c) ==
  LET s == cgi[c].slot
      sent == Sent(s, cgi[c].limit)
  IN
  /\ cgi[c].pc = "deliver"
  /\ notify' = [e \in Events |-> IF e \in sent THEN {} ELSE notify[e]]
  /\ initial' = [e \in Events |-> IF e \in sent THEN {} ELSE initial[e]]
  /\ told' = IF owner[s] = cgi[c].sub
             THEN [told EXCEPT ![s] = [e \in Events |->
                     IF e \in sent THEN Value(on[e]) ELSE @[e]]]
             ELSE told
  /\ cgi' = [cgi EXCEPT ![c] = IdleCgi]
  /\ UNCHANGED <<slots, on, file, inq, sync_i, now, allocs, owner>>

\* Both passes of the last critical section: messages are written with the
\* current value of the event, and the bits of what was written are cleared.
Deliver(c) ==
  LET s == cgi[c].slot
      sent == Sent(s, cgi[c].limit)
  IN
  /\ cgi[c].pc = "deliver"
  /\ notify' = [e \in Events |-> IF e \in sent THEN notify[e] \ {s} ELSE notify[e]]
  /\ initial' = [e \in Events |-> IF e \in sent THEN initial[e] \ {s} ELSE initial[e]]
  /\ told' = IF owner[s] = cgi[c].sub
             THEN [told EXCEPT ![s] = [e \in Events |->
                     IF e \in sent THEN Value(on[e]) ELSE @[e]]]
             ELSE told
  /\ cgi' = [cgi EXCEPT ![c] = IdleCgi]
  /\ UNCHANGED <<slots, on, file, inq, sync_i, now, allocs, owner>>

(***************************************************************************)
(* The requests of the subscription manager, one critical section each.    *)
(***************************************************************************)

\* The new end is not held to MaxLife.
Renew ==
  /\ \E s \in Slots, term \in RenewTerms :
       /\ slots[s].id # 0 /\ Finds(slots[s].id, s) /\ MaySend(slots[s].id)
       /\ Used(s)
       /\ slots' = [slots EXCEPT ![s].expire = RequestedEnd(term, 0)]
  /\ UNCHANGED <<on, notify, initial, file, inq, sync_i, now, cgi, allocs, owner, told>>

\* The slots in gone are blanked; the bit masks of the events are not.
Blank(gone) ==
  /\ slots' = [s \in Slots |-> IF s \in gone THEN BlankSlot ELSE slots[s]]
  /\ owner' = [s \in Slots |-> IF s \in gone THEN 0 ELSE owner[s]]
  /\ told' = [s \in Slots |-> IF s \in gone THEN Untold ELSE told[s]]

Unsubscribe ==
  /\ \E s \in Slots :
       /\ slots[s].id # 0 /\ Finds(slots[s].id, s) /\ MaySend(slots[s].id)
       /\ Used(s)
       /\ Blank({s})
  /\ UNCHANGED <<on, notify, initial, file, inq, sync_i, now, cgi, allocs>>

\* Ids beyond the number of slots are rejected.
SetSynchronizationPoint ==
  /\ \E s \in Slots :
       LET id == slots[s].id IN
       /\ id \in 1..MAX_SUBSCRIPTIONS /\ Finds(id, s) /\ MaySend(id)
       /\ slots' = [slots EXCEPT ![s].sync = TRUE]
       /\ initial' = MarkAll(initial, s)
       /\ notify' = MarkAll(notify, s)
  /\ UNCHANGED <<on, file, inq, sync_i, now, cgi, allocs, owner, told>>

\* The web server kills a request, or its process dies.
CgiDies(c) ==
  /\ cgi[c].pc # "idle"
  /\ cgi' = [cgi EXCEPT ![c] = IdleCgi]
  /\ UNCHANGED <<slots, on, notify, initial, file, inq, sync_i, now, allocs, owner, told>>

(***************************************************************************)
(* The daemon.                                                             *)
(***************************************************************************)

\* Mutant: the removal of a file changes is_on and notifies nobody.
Mutant_ApplyChange ==
  /\ inq # <<>>
  /\ LET e == Head(inq).ev
         v == Head(inq).on
         live   == {s \in Slots : v /\ Used(s) /\ ~Expired(s)}
         marked == {s \in live : slots[s].used = "SUB_PULL" /\ e \in slots[s].topic}
         pushed == {s \in live : slots[s].used = "SUB_PUSH"}
     IN  /\ on' = [on EXCEPT ![e] = v]
         /\ notify' = [notify EXCEPT ![e] = @ \cup marked]
         /\ told' = [s \in Slots |->
              [told[s] EXCEPT ![e] = IF s \in pushed THEN Value(v) ELSE @]]
  /\ inq' = Tail(inq)
  /\ UNCHANGED <<slots, initial, file, sync_i, now, cgi, allocs, owner>>

\* One change is applied, by handle_inotify_events or the polling loop: the
\* event takes the value seen; pull subscriptions whose expression has the
\* topic get their bit, push subscriptions get a Changed message, whatever
\* their expression. Expired ones are passed over, by a clock that was read
\* before the lock was taken.
ApplyChange ==
  /\ inq # <<>>
  /\ \E read \in (now - Lag)..now :
       LET e == Head(inq).ev
           v == Head(inq).on
           live   == {s \in Slots : Used(s) /\ read <= slots[s].expire}
           marked == {s \in live : slots[s].used = "SUB_PULL" /\ e \in slots[s].topic}
           pushed == {s \in live : slots[s].used = "SUB_PUSH"}
           passed == {s \in Slots \ live : Used(s) /\ IsValue(told[s][e])}
       IN  /\ on' = [on EXCEPT ![e] = v]
           /\ notify' = [notify EXCEPT ![e] = @ \cup marked]
           /\ told' = [s \in Slots |->
                [told[s] EXCEPT ![e] = IF s \in pushed THEN Value(v)
                                       ELSE IF s \in passed THEN "gap" ELSE @]]
  /\ inq' = Tail(inq)
  /\ UNCHANGED <<slots, initial, file, sync_i, now, cgi, allocs, owner>>

\* Mutant: only a file that was created is seen.
Mutant_PollFile(e) ==
  /\ ~Inotify
  /\ inq = <<>>
  /\ file[e] /\ ~on[e]
  /\ inq' = <<[ev |-> e, on |-> file[e]]>>
  /\ UNCHANGED <<slots, on, notify, initial, file, sync_i, now, cgi, allocs, owner, told>>

\* The polling loop: access() differs from is_on. The lock comes later.
PollFile(e) ==
  /\ ~Inotify
  /\ inq = <<>>
  /\ on[e] # file[e]
  /\ inq' = <<[ev |-> e, on |-> file[e]]>>
  /\ UNCHANGED <<slots, on, notify, initial, file, sync_i, now, cgi, allocs, owner, told>>

\* sync_events: a live push subscription is sent the state of the file, as
\* Initialized, of every event in its expression; what its client then knows.
SyncEvents(s) ==
  [e \in Events |->
     IF e \notin slots[s].topic \/ slots[s].used # "SUB_PUSH" THEN told[s][e]
     ELSE IF Expired(s) THEN "gap" ELSE Value(file[e])]

\* Mutant: push_need_sync is not reset.
Mutant_SyncSlot ==
  LET s == sync_i IN
  /\ s \in Slots
  /\ sync_i' = s + 1
  /\ told' = IF slots[s].sync THEN [told EXCEPT ![s] = SyncEvents(s)] ELSE told
  /\ UNCHANGED <<slots, on, notify, initial, file, inq, now, cgi, allocs, owner>>

\* sync_events_thread, one slot: push_need_sync is served.
SyncSlot ==
  LET s == sync_i IN
  /\ s \in Slots
  /\ sync_i' = s + 1
  /\ IF slots[s].sync
     THEN /\ slots' = [slots EXCEPT ![s].sync = FALSE]
          /\ told' = [told EXCEPT ![s] = SyncEvents(s)]
     ELSE UNCHANGED <<slots, told>>
  /\ UNCHANGED <<on, notify, initial, file, inq, now, cgi, allocs, owner>>

\* Mutant: only pull subscriptions are cleaned.
Mutant_CleanExpired ==
  /\ sync_i \notin Slots
  /\ sync_i' = 1
  /\ Blank({s \in Slots : slots[s].used = "SUB_PULL" /\ slots[s].expire # 0 /\ Expired(s)})
  /\ UNCHANGED <<on, notify, initial, file, inq, now, cgi, allocs>>

\* clean_expired_subscriptions, after the last slot: an end of 0 never expires.
CleanExpired ==
  /\ sync_i \notin Slots
  /\ sync_i' = 1
  /\ Blank({s \in Slots : slots[s].expire # 0 /\ Expired(s)})
  /\ UNCHANGED <<on, notify, initial, file, inq, now, cgi, allocs>>

(***************************************************************************)
(* The environment.                                                        *)
(***************************************************************************)

\* A detector creates or removes the input file; inotify queues a record.
Toggle(e) ==
  /\ file' = [file EXCEPT ![e] = ~@]
  /\ IF Inotify
     THEN Len(inq) < MaxQueue /\ inq' = Append(inq, [ev |-> e, on |-> ~file[e]])
     ELSE UNCHANGED inq
  /\ UNCHANGED <<slots, on, notify, initial, sync_i, now, cgi, allocs, owner, told>>

\* Time passes. A request polls every 100 ms, so it sees within a second that
\* its time is over, and answers at most Lag seconds after it stops polling.
Deadline(c) ==
  IF cgi[c].pc = "poll" THEN cgi[c].until + 1 ELSE cgi[c].until + Lag

Tick ==
  /\ now < MaxNow
  /\ \A c \in Cgi : cgi[c].pc \in {"poll", "finish", "deliver"} => now < Deadline(c)
  /\ now' = now + 1
  /\ UNCHANGED <<slots, on, notify, initial, file, inq, sync_i, cgi, allocs, owner, told>>

Request(c) ==
  \/ CreatePullPoint(c) \/ ForcePullInitialized(c)
  \/ Subscribe(c) \/ ForcePushSync(c)
  \/ StartPull(c) \/ EndPoll(c) \/ SetTermination(c) \/ Deliver(c)

Next ==
  \/ \E c \in Cgi : Request(c) \/ CgiDies(c)
  \/ Renew \/ Unsubscribe \/ SetSynchronizationPoint
  \/ ApplyChange \/ SyncSlot \/ CleanExpired
  \/ \E e \in Events : PollFile(e) \/ Toggle(e)
  \/ Tick

Spec == Init /\ [][Next]_vars

\* The daemon's two threads and running requests are scheduled, time passes;
\* no client has to send anything and no file has to change. The polling loop
\* looks at the events in turn: changes of one do not keep it from another.
Fairness ==
  /\ \A e \in Events : SF_vars(PollFile(e))
  /\ WF_vars(ApplyChange) /\ WF_vars(SyncSlot) /\ WF_vars(CleanExpired)
  /\ \A c \in Cgi : WF_vars(EndPoll(c)) /\ WF_vars(SetTermination(c)) /\ WF_vars(Deliver(c))
  /\ WF_vars(Tick)

FairSpec == Spec /\ Fairness

-----------------------------------------------------------------------------
SlotType ==
  [id : 0..MaxId, used : {"SUB_UNUSED", "SUB_PULL", "SUB_PUSH"}, expire : Int,
   sync : BOOLEAN, topic : SUBSET Events]
CgiType ==
  [pc : PcValues, slot : 0..MAX_SUBSCRIPTIONS, id : 0..MaxId, sub : 0..MaxAllocs,
   until : Int, prev : Int, timeout : Int, limit : Int]

\* The table, its masks, the queue of changes and the requests under way have
\* their types: masks name slots, requests slots of the table and ids that exist.
TypeOK ==
  /\ slots \in [Slots -> SlotType]
  /\ on \in [Events -> BOOLEAN]
  /\ notify \in [Events -> SUBSET Slots] /\ initial \in [Events -> SUBSET Slots]
  /\ file \in [Events -> BOOLEAN]
  /\ inq \in Seq([ev : Events, on : BOOLEAN])
  /\ sync_i \in 1..(MAX_SUBSCRIPTIONS + 1)
  /\ now \in Nat
  /\ cgi \in [Cgi -> CgiType]
  /\ allocs \in 0..MaxAllocs
  /\ owner \in [Slots -> 0..MaxAllocs]
  /\ told \in [Slots -> [Events -> Told]]

(* A query string sub=id names one subscription: ids of used slots differ, *)
(* as long as fewer subscriptions were created than there are ids. The     *)
(* handlers take the first slot with the id without a further check.       *)
UsedIdsDiffer ==
  allocs <= MaxId =>
    \A r, s \in Slots :
      (Used(r) /\ Used(s) /\ slots[r].id = slots[s].id) => r = s

(* utils.h:59, "1 if the value is not known to the client (new             *)
(* subscription) and must be sent": a pull client that has been answered   *)
(* and was sent nothing yet about an event in its expression has an        *)
(* Initialized message waiting; one that was sent a value either has a     *)
(* message waiting or was sent the event's current value. Across Create,   *)
(* PullMessages with a limit, synchronization points, slot reuse, changes  *)
(* and expiry, no message is lost.                                         *)
NoLostMessage ==
  \A s \in Slots : slots[s].used = "SUB_PULL" =>
    \A e \in slots[s].topic :
      /\ told[s][e] = "never" => s \in notify[e] \cap initial[e]
      /\ IsValue(told[s][e]) => s \in notify[e] \/ told[s][e] = Value(on[e])

(* End to end: once the daemon has read every change of an event's file,   *)
(* what a client last heard of the event is the state of the file, unless  *)
(* a pull message still waits for it. It relates the files, the inotify    *)
(* queue, is_on, the bit masks and what was sent over both interfaces,     *)
(* where sync_events reads the file itself, ahead of the queue.            *)
ClientsUpToDate ==
  \A s \in Slots, e \in Events :
    (Used(s) /\ e \in slots[s].topic /\ IsValue(told[s][e]) /\ ~Pending(e)
       /\ ~(slots[s].used = "SUB_PULL" /\ s \in notify[e]))
    => told[s][e] = Value(file[e])

(* A push client that has been answered and heard nothing yet about an     *)
(* event in its expression is still due its Initialized messages.          *)
NewPushIsDue ==
  \A s \in Slots : slots[s].used = "SUB_PUSH" =>
    \A e \in slots[s].topic : told[s][e] = "never" => slots[s].sync

(* events_service.c:309, "to avoid termination during this function": the  *)
(* slot a PullMessages request works on stays its subscription's until the *)
(* request has answered, however the clock and the cleaning interleave.    *)
PullKeepsItsSlot ==
  \A c \in Cgi : cgi[c].pc \in {"poll", "finish", "deliver"} =>
    /\ owner[cgi[c].slot] = cgi[c].sub
    /\ slots[cgi[c].slot].used = "SUB_PULL"

(* A subscription whose end has passed gives its slot back, unless it is   *)
(* renewed or pulled first: the sync thread keeps cleaning, whatever the   *)
(* clients send. The end 0 is left out: see ExpiredAreCollectable.         *)
ExpiredAreFreed ==
  \A s \in Slots :
    (Used(s) /\ slots[s].expire # 0 /\ Expired(s))
      ~> ~(Used(s) /\ slots[s].expire # 0 /\ Expired(s))

(* Every PullMessages request ends, by a message or by its timeout.        *)
PullsEnd == \A c \in Cgi : (cgi[c].pc = "poll") ~> (cgi[c].pc = "idle")

(* While it polls, the daemon notices every file, also one that was there  *)
(* before it started: is_on gets the state of the file unless the file     *)
(* goes back first, in spite of the other events.                          *)
FilesAreNoticed == \A e \in Events : (on[e] # file[e]) ~> (on[e] = file[e])

(* A synchronization asked for by Subscribe or SetSynchronizationPoint is  *)
(* served by the sync thread.                                              *)
SyncIsServed == \A s \in Slots : slots[s].sync ~> ~slots[s].sync

-----------------------------------------------------------------------------
(* Subscriptions by their numbers, without slots.                          *)

NoSub == [kind |-> "none", topic |-> {}, waiting |-> {}, heard |-> Untold]
Waiting(s) ==
  IF slots[s].used = "SUB_PULL" THEN {e \in Events : s \in notify[e]}
  ELSE IF slots[s].sync THEN slots[s].topic ELSE {}
SubIn(s) ==
  [kind |-> IF slots[s].used = "SUB_PULL" THEN "pull" ELSE "push",
   topic |-> slots[s].topic, waiting |-> Waiting(s), heard |-> told[s]]
SubNumbered(n) ==
  IF \E s \in Slots : owner[s] = n THEN SubIn(CHOOSE s \in Slots : owner[s] = n) ELSE NoSub
Subs == [n \in 1..MaxAllocs |-> SubNumbered(n)]

SU == INSTANCE Subscriptions WITH Numbers <- 1..MaxAllocs, value <- on, sub <- Subs, taken <- 1..allocs

(* The table with its slots that are used again, its masks whose bits      *)
(* outlive a subscription, and requests that go on working on the slot     *)
(* they once found, is what Subscriptions says: each subscription has      *)
(* messages of its own, which only its own requests take away.             *)
ImplementsSubscriptions == SU!Spec

-----------------------------------------------------------------------------
(* The strengthenings that make the properties inductive, proved in        *)
(* EventServiceProofs.                                                     *)

Active(c)   == cgi[c].pc \in {"poll", "finish", "deliver"}
Creating(c) == cgi[c].pc \in {"create", "subscribe"}

\* One request at a time for a subscription, and a schedule that keeps within
\* the margins of PullMessages: the code has Grace = 10 and Timeout > 0.
ClientsBehave ==
  SerialClients /\ Grace >= 1 + Lag /\ \A timeout \in Timeouts : timeout >= Lag

\* A request that is under way works on a slot of the table.
RequestsHaveSlots ==
  \A c \in Cgi : cgi[c].pc # "idle" => cgi[c].slot \in Slots /\ cgi[c].id # 0

\* Until ids wrap, the highest id grows by at most one with a subscription.
IdsFollowAllocs == allocs <= MaxId => \A s \in Slots : slots[s].id <= allocs

\* A creating request whose subscription still has its slot created it there.
CreatorsKnowTheirKind ==
  \A c \in Cgi : Creating(c) =>
    /\ cgi[c].sub \in 1..allocs
    /\ owner[cgi[c].slot] = cgi[c].sub =>
         slots[cgi[c].slot].used = IF cgi[c].pc = "create" THEN "SUB_PULL" ELSE "SUB_PUSH"

\* A slot in use holds a subscription, and no other slot holds the same one.
OwnersMatch ==
  /\ \A s \in Slots : (owner[s] = 0 <=> ~Used(s)) /\ owner[s] <= allocs
  /\ \A r, s \in Slots : (owner[r] = owner[s] /\ owner[r] # 0) => r = s

\* The end of the slot a PullMessages request works on lies beyond the instant
\* at which the request takes its next critical section.
PullsAreInTime ==
  \A c \in Cgi : Active(c) =>
    /\ slots[cgi[c].slot].id = cgi[c].id
    /\ now <= Deadline(c)
    /\ cgi[c].pc # "deliver" => cgi[c].timeout >= Lag
    /\ slots[cgi[c].slot].expire >=
         cgi[c].until + (IF cgi[c].pc = "poll" THEN Grace ELSE Lag)

\* No two PullMessages requests work on the same slot.
PullsAreApart ==
  \A c, d \in Cgi : (Active(c) /\ Active(d) /\ c # d) => cgi[c].slot # cgi[d].slot

PullInv == PullKeepsItsSlot /\ PullsAreInTime /\ PullsAreApart

\* inotify reports every change, and no file is there before the daemon.
EveryChangeIsRecorded == Inotify /\ \A files \in FilesAtStart, e \in Events : ~files[e]

\* The last record of an event that is not read yet says what became of its
\* file; when there is none, is_on does.
RecordsFollowFiles ==
  /\ \A i \in 1..Len(inq) :
       (\A j \in (i + 1)..Len(inq) : inq[j].ev # inq[i].ev) => inq[i].on = file[inq[i].ev]
  /\ \A e \in Events : (\A i \in 1..Len(inq) : inq[i].ev # e) => on[e] = file[e]

\* ClientsUpToDate for push clients, whom sync_events tells ahead of the queue.
PushesAreUpToDate ==
  \A s \in Slots : slots[s].used = "SUB_PUSH" =>
    \A e \in slots[s].topic : (IsValue(told[s][e]) /\ ~Pending(e)) => told[s][e] = Value(file[e])

-----------------------------------------------------------------------------
(* What comments and the README say and the code does not do.              *)

(* events_service.c:95, "TopicExpression filter is supported": a pull      *)
(* client gets no message about an event outside its expression.           *)
PullRespectsFilter ==
  \A s \in Slots : slots[s].used = "SUB_PULL" =>
    \A e \in Events : s \in notify[e] => e \in slots[s].topic

(* events_service.c:37, "Prevents slot exhaustion": a subscription whose   *)
(* end has passed is one that the cleaning frees.                          *)
ExpiredAreCollectable ==
  \A s \in Slots : (Used(s) /\ Expired(s)) => slots[s].expire # 0

=============================================================================
