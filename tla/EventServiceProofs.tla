-------------------------- MODULE EventServiceProofs --------------------------
(***************************************************************************)
(* Proofs about EventService for any number of slots, requests and events: *)
(* its type invariant, that ids differ, and that a request keeps its slot, *)
(* no message is lost and Subscriptions is implemented when clients        *)
(* behave. Each invariant has one lemma per group of actions; the last     *)
(* section puts them together.                                             *)
(***************************************************************************)
EXTENDS EventService, SequenceTheorems, FiniteSetTheorems, TLAPS

-----------------------------------------------------------------------------
(* Facts about the operators. *)

\* The end of a subscription is a number, whatever term was asked for.
LEMMA EndsAreNumbers ==
  ASSUME TypeOK, NEW term \in PullTerms \cup PushTerms \cup RenewTerms,
         NEW default \in Nat
  PROVE  RequestedEnd(term, default) \in Int /\ InitialEnd(term, default) \in Int
BY TimesAssumption DEF TypeOK, RequestedEnd, InitialEnd

\* Marking a slot adds its bit to the events of its expression only.
LEMMA MarkAllAdds ==
  ASSUME NEW bits \in [Events -> SUBSET Slots], NEW s \in Slots
  PROVE  /\ MarkAll(bits, s) \in [Events -> SUBSET Slots]
         /\ \A e \in Events :
              /\ bits[e] \subseteq MarkAll(bits, s)[e]
              /\ e \in slots[s].topic => s \in MarkAll(bits, s)[e]
BY DEF MarkAll

-----------------------------------------------------------------------------
(* Types. *)

\* A CGI process that serves no request.
LEMMA IdleCgiIsTyped == IdleCgi \in CgiType
BY SizesAssumption, BoundsAssumption DEF IdleCgi, CgiType, PcValues

\* A slot after memset.
LEMMA BlankSlotIsTyped == BlankSlot \in SlotType
BY SizesAssumption DEF BlankSlot, SlotType

\* The start of the daemon.
LEMMA InitTypes == Init => TypeOK /\ RequestsHaveSlots
<1> SUFFICES ASSUME Init PROVE TypeOK /\ RequestsHaveSlots
  OBVIOUS
<1>1. inq \in Seq([ev : Events, on : BOOLEAN])
  BY EmptySeq DEF Init
<1>2. TypeOK
  BY <1>1, SizesAssumption, RequestsAssumption, BoundsAssumption
     DEF Init, TypeOK, SlotType, CgiType, BlankSlot, IdleCgi, PcValues, Untold,
         Told, Slots, Events
<1> QED
  BY <1>2 DEF Init, RequestsHaveSlots, IdleCgi

\* Taking a slot.
LEMMA AllocateTypes ==
  ASSUME TypeOK, RequestsHaveSlots, NEW c \in Cgi,
         NEW kind \in {"SUB_PULL", "SUB_PUSH"}, NEW pc \in PcValues,
         NEW topic \in Expressions, NEW expire \in Int,
         Allocate(c, kind, pc, topic, expire)
  PROVE  TypeOK' /\ RequestsHaveSlots'
<1> PICK s \in Slots, id \in 1..MaxId :
         /\ allocs < MaxAllocs
         /\ slots' = [slots EXCEPT ![s] = [@ EXCEPT !.id = id, !.used = kind,
                                             !.expire = expire, !.topic = topic]]
         /\ cgi' = [cgi EXCEPT ![c] = [IdleCgi EXCEPT !.pc = pc, !.slot = s, !.id = id,
                                                      !.sub = allocs + 1]]
         /\ owner' = [owner EXCEPT ![s] = allocs + 1]
         /\ told' = [told EXCEPT ![s] = Untold]
         /\ allocs' = allocs + 1
         /\ UNCHANGED <<on, notify, initial, file, inq, sync_i, now>>
  BY DEF Allocate
<1>1. slots' \in [Slots -> SlotType]
  <2>1. slots[s] \in SlotType
    BY DEF TypeOK
  <2>2. topic \in SUBSET Events /\ id \in 0..MaxId
    BY RequestsAssumption, SizesAssumption
  <2>3. [slots[s] EXCEPT !.id = id, !.used = kind, !.expire = expire, !.topic = topic]
          \in SlotType
    BY <2>1, <2>2 DEF SlotType
  <2> QED
    BY <2>3 DEF TypeOK
<1>2. cgi' \in [Cgi -> CgiType]
  <2>1. [IdleCgi EXCEPT !.pc = pc, !.slot = s, !.id = id, !.sub = allocs + 1] \in CgiType
    <3>1. allocs + 1 \in 0..MaxAllocs
      BY BoundsAssumption DEF TypeOK
    <3>2. s \in 0..MAX_SUBSCRIPTIONS /\ id \in 0..MaxId
      BY SizesAssumption DEF Slots
    <3> QED
      BY <3>1, <3>2, IdleCgiIsTyped DEF CgiType
  <2> QED
    BY <2>1 DEF TypeOK
<1>3. allocs' \in 0..MaxAllocs /\ owner' \in [Slots -> 0..MaxAllocs]
  BY BoundsAssumption DEF TypeOK
<1>4. told' \in [Slots -> [Events -> Told]]
  <2>1. Untold \in [Events -> Told]
    BY DEF Untold, Told
  <2> QED
    BY <2>1 DEF TypeOK
<1>5. TypeOK'
  BY <1>1, <1>2, <1>3, <1>4 DEF TypeOK
<1>6. RequestsHaveSlots'
  BY SizesAssumption DEF RequestsHaveSlots, TypeOK, IdleCgi
<1> QED
  BY <1>5, <1>6

\* The updates of one field of a slot.
LEMMA SlotUpdates ==
  ASSUME TypeOK, NEW s \in Slots
  PROVE  /\ \A end \in Int : [slots EXCEPT ![s].expire = end] \in [Slots -> SlotType]
         /\ \A b \in BOOLEAN : [slots EXCEPT ![s].sync = b] \in [Slots -> SlotType]
<1>1. slots[s] \in SlotType
  BY DEF TypeOK
<1>2. \A end \in Int : [slots[s] EXCEPT !.expire = end] \in SlotType
  BY <1>1 DEF SlotType
<1>3. \A b \in BOOLEAN : [slots[s] EXCEPT !.sync = b] \in SlotType
  BY <1>1 DEF SlotType
<1> QED
  BY <1>2, <1>3 DEF TypeOK

\* Blanking slots.
LEMMA BlankTypes ==
  ASSUME TypeOK, NEW gone \in SUBSET Slots, Blank(gone)
  PROVE  /\ slots' \in [Slots -> SlotType]
         /\ owner' \in [Slots -> 0..MaxAllocs]
         /\ told' \in [Slots -> [Events -> Told]]
<1>1. slots' \in [Slots -> SlotType]
  BY BlankSlotIsTyped DEF TypeOK, Blank
<1>2. owner' \in [Slots -> 0..MaxAllocs]
  BY BoundsAssumption DEF TypeOK, Blank
<1>3. Untold \in [Events -> Told]
  BY DEF Untold, Told
<1>4. told' \in [Slots -> [Events -> Told]]
  BY <1>3 DEF TypeOK, Blank
<1> QED
  BY <1>1, <1>2, <1>4

\* A request that ends.
LEMMA IdleTypes ==
  ASSUME TypeOK, RequestsHaveSlots, NEW c \in Cgi,
         cgi' = [cgi EXCEPT ![c] = IdleCgi]
  PROVE  cgi' \in [Cgi -> CgiType] /\ RequestsHaveSlots'
<1>1. cgi' \in [Cgi -> CgiType]
  BY IdleCgiIsTyped DEF TypeOK
<1>2. RequestsHaveSlots'
  BY DEF TypeOK, RequestsHaveSlots, IdleCgi
<1> QED
  BY <1>1, <1>2

\* The answer to a create or subscribe request.
LEMMA AnswerTypes ==
  ASSUME TypeOK, RequestsHaveSlots, NEW c \in Cgi, Answer(c)
  PROVE  /\ cgi' \in [Cgi -> CgiType] /\ RequestsHaveSlots'
         /\ told' \in [Slots -> [Events -> Told]]
<1>1. \A t \in [Events -> Told] : Answered(t) \in [Events -> Told]
  BY DEF Answered, Told
<1>2. told' \in [Slots -> [Events -> Told]]
  BY <1>1 DEF Answer, TypeOK
<1> QED
  BY <1>2, IdleTypes DEF Answer

\* The first critical sections of the creating requests.
LEMMA CreateTypes ==
  ASSUME TypeOK, RequestsHaveSlots, NEW c \in Cgi,
         CreatePullPoint(c) \/ Subscribe(c)
  PROVE  TypeOK' /\ RequestsHaveSlots'
<1>1. CASE CreatePullPoint(c)
  <2> PICK topic \in Expressions, term \in PullTerms :
             Allocate(c, "SUB_PULL", "create", topic, InitialEnd(term, PullLife))
    BY <1>1 DEF CreatePullPoint
  <2>1. InitialEnd(term, PullLife) \in Int
    BY EndsAreNumbers, TimesAssumption
  <2> QED
    BY <2>1, AllocateTypes DEF PcValues
<1>2. CASE Subscribe(c)
  <2> PICK topic \in Expressions, term \in PushTerms :
             Allocate(c, "SUB_PUSH", "subscribe", topic, InitialEnd(term, PushLife))
    BY <1>2 DEF Subscribe
  <2>1. InitialEnd(term, PushLife) \in Int
    BY EndsAreNumbers, TimesAssumption
  <2> QED
    BY <2>1, AllocateTypes DEF PcValues
<1> QED
  BY <1>1, <1>2

\* The second critical sections of the creating requests.
LEMMA ForceTypes ==
  ASSUME TypeOK, RequestsHaveSlots, NEW c \in Cgi,
         ForcePullInitialized(c) \/ ForcePushSync(c)
  PROVE  TypeOK' /\ RequestsHaveSlots'
<1>1. cgi[c].slot \in Slots
  BY DEF RequestsHaveSlots, ForcePullInitialized, ForcePushSync
<1>2. Answer(c)
  BY DEF ForcePullInitialized, ForcePushSync
<1>3. CASE ForcePullInitialized(c)
  <2>1. initial' \in [Events -> SUBSET Slots] /\ notify' \in [Events -> SUBSET Slots]
    BY <1>1, <1>3, MarkAllAdds DEF TypeOK, ForcePullInitialized
  <2> QED
    BY <1>2, <1>3, <2>1, AnswerTypes DEF TypeOK, ForcePullInitialized
<1>4. CASE ForcePushSync(c)
  <2>1. slots' \in [Slots -> SlotType]
    BY <1>1, <1>4, SlotUpdates DEF ForcePushSync
  <2> QED
    BY <1>2, <1>4, <2>1, AnswerTypes DEF TypeOK, ForcePushSync
<1> QED
  BY <1>3, <1>4

\* The critical sections of PullMessages.
LEMMA StartPullTypes ==
  ASSUME TypeOK, RequestsHaveSlots, NEW c \in Cgi, StartPull(c)
  PROVE  TypeOK' /\ RequestsHaveSlots'
<1> PICK s \in Slots, timeout \in Timeouts, limit \in Limits :
         /\ slots[s].id # 0
         /\ slots' = [slots EXCEPT ![s].expire = now + timeout + Grace]
         /\ cgi' = [cgi EXCEPT ![c] =
                      [pc |-> "poll", slot |-> s, id |-> slots[s].id, sub |-> owner[s],
                       until |-> now + timeout, prev |-> slots[s].expire,
                       timeout |-> timeout, limit |-> limit]]
  BY DEF StartPull
<1>1. now + timeout + Grace \in Int /\ now + timeout \in Int /\ timeout \in Int /\ limit \in Int
  BY TimesAssumption DEF TypeOK
<1>2. slots[s] \in SlotType
  BY DEF TypeOK
<1>3. slots' \in [Slots -> SlotType]
  BY <1>1, SlotUpdates
<1>4. cgi' \in [Cgi -> CgiType]
  <2>1. [pc |-> "poll", slot |-> s, id |-> slots[s].id, sub |-> owner[s],
         until |-> now + timeout, prev |-> slots[s].expire,
         timeout |-> timeout, limit |-> limit] \in CgiType
    <3>1. owner[s] \in 0..MaxAllocs /\ s \in 0..MAX_SUBSCRIPTIONS
      BY SizesAssumption DEF TypeOK, Slots
    <3> QED
      BY <1>1, <1>2, <3>1 DEF CgiType, SlotType, PcValues
  <2> QED
    BY <2>1 DEF TypeOK
<1>5. TypeOK'
  BY <1>3, <1>4 DEF TypeOK, StartPull
<1>6. RequestsHaveSlots'
  BY DEF RequestsHaveSlots, TypeOK
<1> QED
  BY <1>5, <1>6

\* The end of the polling loop and the two sections that follow it.
LEMMA PullTypes ==
  ASSUME TypeOK, RequestsHaveSlots, NEW c \in Cgi,
         EndPoll(c) \/ SetTermination(c) \/ Deliver(c)
  PROVE  TypeOK' /\ RequestsHaveSlots'
<1>0. cgi[c] \in CgiType /\ now \in Int
  BY DEF TypeOK
<1>1. CASE EndPoll(c)
  <2>1. [cgi[c] EXCEPT !.pc = "finish", !.until = now] \in CgiType
    BY <1>0 DEF CgiType, PcValues
  <2>2. TypeOK'
    BY <1>1, <2>1 DEF TypeOK, EndPoll
  <2>3. RequestsHaveSlots'
    BY <1>1 DEF TypeOK, RequestsHaveSlots, EndPoll
  <2> QED
    BY <2>2, <2>3
<1>2. CASE SetTermination(c)
  <2>1. [cgi[c] EXCEPT !.pc = "deliver", !.prev = 0, !.timeout = 0] \in CgiType
    <3>1. \A r \in CgiType : [r EXCEPT !.pc = "deliver"] \in CgiType
      BY DEF CgiType, PcValues
    <3>2. \A r \in CgiType : [r EXCEPT !.prev = 0] \in CgiType
      BY DEF CgiType
    <3>3. \A r \in CgiType : [r EXCEPT !.timeout = 0] \in CgiType
      BY DEF CgiType
    <3>4. [cgi[c] EXCEPT !.pc = "deliver", !.prev = 0, !.timeout = 0] =
          [[[cgi[c] EXCEPT !.pc = "deliver"] EXCEPT !.prev = 0] EXCEPT !.timeout = 0]
      OBVIOUS
    <3> QED
      BY <1>0, <3>1, <3>2, <3>3, <3>4
  <2>2. cgi[c].slot \in Slots
    BY <1>2 DEF RequestsHaveSlots, SetTermination
  <2>3. slots' \in [Slots -> SlotType]
    <3>1. cgi[c].prev \in Int /\ cgi[c].until + cgi[c].timeout \in Int
      BY <1>0 DEF CgiType
    <3> QED
      BY <1>2, <2>2, <3>1, SlotUpdates DEF SetTermination
  <2>4. TypeOK'
    BY <1>2, <2>1, <2>3 DEF TypeOK, SetTermination
  <2>5. RequestsHaveSlots'
    BY <1>2 DEF TypeOK, RequestsHaveSlots, SetTermination
  <2> QED
    BY <2>4, <2>5
<1>3. CASE Deliver(c)
  <2>1. cgi' \in [Cgi -> CgiType] /\ RequestsHaveSlots'
    BY <1>3, IdleTypes DEF Deliver
  <2>2. notify' \in [Events -> SUBSET Slots] /\ initial' \in [Events -> SUBSET Slots]
    BY <1>3 DEF TypeOK, Deliver
  <2>3. told' \in [Slots -> [Events -> Told]]
    BY <1>3 DEF TypeOK, Deliver, Told, Value
  <2> QED
    BY <1>3, <2>1, <2>2, <2>3 DEF TypeOK, Deliver
<1> QED
  BY <1>1, <1>2, <1>3

\* The requests of the subscription manager.
LEMMA ManagerTypes ==
  ASSUME TypeOK, RequestsHaveSlots,
         Renew \/ Unsubscribe \/ SetSynchronizationPoint
  PROVE  TypeOK' /\ RequestsHaveSlots'
<1>1. CASE Renew
  <2>1. PICK s \in Slots, term \in RenewTerms :
          slots' = [slots EXCEPT ![s].expire = RequestedEnd(term, 0)]
    BY <1>1 DEF Renew
  <2>2. RequestedEnd(term, 0) \in Int
    BY EndsAreNumbers
  <2>3. slots' \in [Slots -> SlotType]
    BY <2>1, <2>2, SlotUpdates
  <2> QED
    BY <1>1, <2>3 DEF TypeOK, RequestsHaveSlots, Renew
<1>2. CASE Unsubscribe
  <2>1. PICK s \in Slots : Blank({s})
    BY <1>2 DEF Unsubscribe
  <2>2. /\ slots' \in [Slots -> SlotType] /\ owner' \in [Slots -> 0..MaxAllocs]
        /\ told' \in [Slots -> [Events -> Told]]
    BY <2>1, BlankTypes
  <2> QED
    BY <1>2, <2>2 DEF TypeOK, RequestsHaveSlots, Unsubscribe
<1>3. CASE SetSynchronizationPoint
  <2>1. PICK s \in Slots :
          /\ slots' = [slots EXCEPT ![s].sync = TRUE]
          /\ initial' = MarkAll(initial, s)
          /\ notify' = MarkAll(notify, s)
    BY <1>3 DEF SetSynchronizationPoint
  <2>2. slots' \in [Slots -> SlotType]
    BY <2>1, SlotUpdates
  <2>3. initial' \in [Events -> SUBSET Slots] /\ notify' \in [Events -> SUBSET Slots]
    BY <2>1, MarkAllAdds DEF TypeOK
  <2> QED
    BY <1>3, <2>2, <2>3 DEF TypeOK, RequestsHaveSlots, SetSynchronizationPoint
<1> QED
  BY <1>1, <1>2, <1>3

\* The threads of the daemon.
LEMMA DaemonTypes ==
  ASSUME TypeOK, RequestsHaveSlots,
         ApplyChange \/ SyncSlot \/ CleanExpired \/ \E e \in Events : PollFile(e)
  PROVE  TypeOK' /\ RequestsHaveSlots'
<1>1. CASE ApplyChange
  <2>1. Head(inq) \in [ev : Events, on : BOOLEAN] /\ Tail(inq) \in Seq([ev : Events, on : BOOLEAN])
    BY <1>1, HeadTailProperties DEF TypeOK, ApplyChange
  <2>2. on' \in [Events -> BOOLEAN]
    BY <1>1, <2>1 DEF TypeOK, ApplyChange
  <2>3. notify' \in [Events -> SUBSET Slots]
    BY <1>1, <2>1 DEF TypeOK, ApplyChange
  <2>4. told' \in [Slots -> [Events -> Told]]
    BY <1>1, <2>1 DEF TypeOK, ApplyChange, Told, Value
  <2> QED
    BY <1>1, <2>1, <2>2, <2>3, <2>4 DEF TypeOK, RequestsHaveSlots, ApplyChange
<1>2. CASE SyncSlot
  <2>1. sync_i' \in 1..(MAX_SUBSCRIPTIONS + 1)
    BY <1>2, SizesAssumption DEF SyncSlot, Slots
  <2>2. slots' \in [Slots -> SlotType]
    BY <1>2, SlotUpdates DEF TypeOK, SyncSlot
  <2>3. SyncEvents(sync_i) \in [Events -> Told]
    BY <1>2 DEF TypeOK, SyncSlot, SyncEvents, Told, Value
  <2>4. told' \in [Slots -> [Events -> Told]]
    BY <1>2, <2>3 DEF TypeOK, SyncSlot
  <2> QED
    BY <1>2, <2>1, <2>2, <2>4 DEF TypeOK, RequestsHaveSlots, SyncSlot
<1>3. CASE CleanExpired
  <2>1. /\ slots' \in [Slots -> SlotType] /\ owner' \in [Slots -> 0..MaxAllocs]
        /\ told' \in [Slots -> [Events -> Told]]
    BY <1>3, BlankTypes DEF CleanExpired
  <2>2. sync_i' \in 1..(MAX_SUBSCRIPTIONS + 1)
    BY <1>3, SizesAssumption DEF CleanExpired
  <2> QED
    BY <1>3, <2>1, <2>2 DEF TypeOK, RequestsHaveSlots, CleanExpired
<1>4. CASE \E e \in Events : PollFile(e)
  <2>1. PICK e \in Events : PollFile(e)
    BY <1>4
  <2>2. inq' \in Seq([ev : Events, on : BOOLEAN])
    BY <2>1 DEF TypeOK, PollFile
  <2> QED
    BY <2>1, <2>2 DEF TypeOK, RequestsHaveSlots, PollFile
<1> QED
  BY <1>1, <1>2, <1>3, <1>4

\* A killed request, a file that changes, time, and stuttering.
LEMMA EnvironmentTypes ==
  ASSUME TypeOK, RequestsHaveSlots,
         \/ \E c \in Cgi : CgiDies(c)
         \/ \E e \in Events : Toggle(e)
         \/ Tick
         \/ UNCHANGED vars
  PROVE  TypeOK' /\ RequestsHaveSlots'
<1>1. ASSUME NEW c \in Cgi, CgiDies(c) PROVE TypeOK' /\ RequestsHaveSlots'
  BY <1>1, IdleTypes DEF TypeOK, CgiDies
<1>2. ASSUME NEW e \in Events, Toggle(e) PROVE TypeOK' /\ RequestsHaveSlots'
  <2>1. inq' \in Seq([ev : Events, on : BOOLEAN])
    <3>1. [ev |-> e, on |-> ~file[e]] \in [ev : Events, on : BOOLEAN]
      BY DEF TypeOK
    <3>2. Append(inq, [ev |-> e, on |-> ~file[e]]) \in Seq([ev : Events, on : BOOLEAN])
      BY <3>1, AppendProperties DEF TypeOK
    <3> QED
      BY <1>2, <3>2 DEF TypeOK, Toggle
  <2>2. file' \in [Events -> BOOLEAN]
    BY <1>2 DEF TypeOK, Toggle
  <2> QED
    BY <1>2, <2>1, <2>2 DEF TypeOK, RequestsHaveSlots, Toggle
<1>3. CASE Tick
  BY <1>3 DEF TypeOK, RequestsHaveSlots, Tick
<1>4. CASE UNCHANGED vars
  BY <1>4 DEF TypeOK, RequestsHaveSlots, vars, table
<1> QED
  BY <1>1, <1>2, <1>3, <1>4

\* Every step keeps the types.
LEMMA NextTypes ==
  ASSUME TypeOK, RequestsHaveSlots, [Next]_vars
  PROVE  TypeOK' /\ RequestsHaveSlots'
BY CreateTypes, ForceTypes, StartPullTypes, PullTypes, ManagerTypes, DaemonTypes,
   EnvironmentTypes DEF Next, Request

-----------------------------------------------------------------------------
(* What a step does to the subscriptions themselves. *)

\* The slot is the same subscription before and after the step.
Stays(s) ==
  /\ slots'[s].id = slots[s].id /\ slots'[s].used = slots[s].used
  /\ slots'[s].topic = slots[s].topic /\ owner'[s] = owner[s]

\* A field of one slot is set that does not say which subscription it is.
LEMMA FieldStays ==
  ASSUME TypeOK, NEW s, NEW end, NEW b, owner' = owner,
         \/ slots' = [slots EXCEPT ![s].expire = end]
         \/ slots' = [slots EXCEPT ![s].sync = b]
         \/ slots' = slots
  PROVE  \A r \in Slots : Stays(r)
<1> SUFFICES ASSUME NEW r \in Slots PROVE Stays(r)
  OBVIOUS
<1>1. slots[r] \in SlotType
  BY DEF TypeOK
<1>2. \/ slots'[r] = [slots[r] EXCEPT !.expire = end]
      \/ slots'[r] = [slots[r] EXCEPT !.sync = b]
      \/ slots'[r] = slots[r]
  BY DEF TypeOK
<1>3. slots'[r].id = slots[r].id /\ slots'[r].used = slots[r].used
      /\ slots'[r].topic = slots[r].topic
  BY <1>1, <1>2 DEF SlotType
<1> QED
  BY <1>3 DEF Stays

\* A creating request of the new state was one of the old state.
CreatorsStay == \A c \in Cgi : cgi'[c] = cgi[c] \/ ~Creating(c)'

\* The subscriptions and the creating requests are what they were.
TableStays == UNCHANGED allocs /\ (\A s \in Slots : Stays(s)) /\ CreatorsStay

\* Only creating requests take slots, only Unsubscribe and the cleaning free
\* them; every other step leaves each slot the subscription it has.
LEMMA StepKinds ==
  ASSUME TypeOK, RequestsHaveSlots, [Next]_vars
  PROVE  \/ \E c \in Cgi : CreatePullPoint(c) \/ Subscribe(c)
         \/ Unsubscribe \/ CleanExpired
         \/ TableStays
<1>1. ASSUME NEW c \in Cgi, ForcePullInitialized(c) \/ ForcePushSync(c) \/ Deliver(c) \/ CgiDies(c)
      PROVE  TableStays
  <2>1. cgi' = [cgi EXCEPT ![c] = IdleCgi]
    BY <1>1 DEF ForcePullInitialized, ForcePushSync, Deliver, CgiDies, Answer
  <2>2. CreatorsStay
    BY <2>1 DEF CreatorsStay, Creating, IdleCgi, TypeOK
  <2>3. \A s \in Slots : Stays(s)
    BY <1>1, FieldStays DEF ForcePullInitialized, ForcePushSync, Deliver, CgiDies
  <2> QED
    BY <1>1, <2>2, <2>3 DEF TableStays, ForcePullInitialized, ForcePushSync, Deliver, CgiDies
<1>2. ASSUME NEW c \in Cgi, StartPull(c) \/ EndPoll(c) \/ SetTermination(c)
      PROVE  TableStays
  <2>1. cgi[c] \in CgiType
    BY DEF TypeOK
  <2>2. cgi'[c].pc \in {"poll", "finish", "deliver"} /\ \A d \in Cgi \ {c} : cgi'[d] = cgi[d]
    <3>1. CASE StartPull(c)
      BY <3>1 DEF StartPull, TypeOK
    <3>2. CASE EndPoll(c)
      BY <2>1, <3>2 DEF EndPoll, TypeOK, CgiType
    <3>3. CASE SetTermination(c)
      BY <2>1, <3>3 DEF SetTermination, TypeOK, CgiType
    <3> QED
      BY <1>2, <3>1, <3>2, <3>3
  <2>3. CreatorsStay
    BY <2>2 DEF CreatorsStay, Creating
  <2>4. \A s \in Slots : Stays(s)
    BY <1>2, FieldStays DEF StartPull, EndPoll, SetTermination
  <2> QED
    BY <1>2, <2>3, <2>4 DEF TableStays, StartPull, EndPoll, SetTermination
<1>3. CASE Renew \/ SetSynchronizationPoint
  BY <1>3, FieldStays DEF Renew, SetSynchronizationPoint, TableStays, CreatorsStay
<1>4. CASE SyncSlot
  BY <1>4, FieldStays DEF SyncSlot, TableStays, CreatorsStay
<1>5. CASE ApplyChange \/ Tick \/ (\E e \in Events : PollFile(e) \/ Toggle(e)) \/ UNCHANGED vars
  BY <1>5, FieldStays
     DEF ApplyChange, PollFile, Toggle, Tick, vars, table, TableStays, CreatorsStay
<1> QED
  BY <1>1, <1>2, <1>3, <1>4, <1>5 DEF Next, Request

-----------------------------------------------------------------------------
(* Ids. *)

\* The new id is larger than all others, unless ids have wrapped.
LEMMA AllocateIds ==
  ASSUME TypeOK, UsedIdsDiffer, IdsFollowAllocs, NEW c, NEW kind, NEW pc, NEW topic,
         NEW expire, Allocate(c, kind, pc, topic, expire)
  PROVE  UsedIdsDiffer' /\ IdsFollowAllocs'
<1> PICK s \in Slots, id \in 1..MaxId :
         /\ IsNextId(id)
         /\ slots' = [slots EXCEPT ![s] = [@ EXCEPT !.id = id, !.used = kind,
                                             !.expire = expire, !.topic = topic]]
         /\ allocs' = allocs + 1
  BY DEF Allocate
<1> SUFFICES ASSUME allocs' <= MaxId
             PROVE  /\ \A q, r \in Slots :
                         (slots'[q].used # "SUB_UNUSED" /\ slots'[r].used # "SUB_UNUSED"
                            /\ slots'[q].id = slots'[r].id) => q = r
                    /\ \A r \in Slots : slots'[r].id <= allocs'
  BY DEF UsedIdsDiffer, IdsFollowAllocs, Used
<1>1. allocs \in Nat /\ MaxId \in Nat /\ allocs + 1 <= MaxId
  BY SizesAssumption, BoundsAssumption DEF TypeOK
<1>2. \A r \in Slots : slots[r] \in SlotType /\ slots[r].id \in Nat /\ slots[r].id <= allocs
  BY <1>1 DEF TypeOK, SlotType, IdsFollowAllocs
<1>3. id <= allocs + 1 /\ \A r \in Slots : slots[r].id < id
  BY <1>1, <1>2 DEF IsNextId
<1>4. slots'[s].id = id /\ \A r \in Slots \ {s} : slots'[r] = slots[r]
  BY <1>2 DEF TypeOK, SlotType
<1>5. \A q, r \in Slots : (Used(q) /\ Used(r) /\ slots[q].id = slots[r].id) => q = r
  BY <1>1 DEF UsedIdsDiffer
<1> QED
  BY <1>1, <1>2, <1>3, <1>4, <1>5 DEF Used

\* Blank slots have no id to collide with; the rest keeps its ids.
LEMMA NextIds ==
  ASSUME TypeOK, RequestsHaveSlots, UsedIdsDiffer, IdsFollowAllocs, [Next]_vars
  PROVE  UsedIdsDiffer' /\ IdsFollowAllocs'
<1>1. ASSUME NEW c \in Cgi, CreatePullPoint(c) \/ Subscribe(c)
      PROVE  UsedIdsDiffer' /\ IdsFollowAllocs'
  BY <1>1, AllocateIds DEF CreatePullPoint, Subscribe
<1>2. CASE Unsubscribe \/ CleanExpired
  <2>1. PICK gone \in SUBSET Slots : Blank(gone) /\ UNCHANGED allocs
    BY <1>2 DEF Unsubscribe, CleanExpired
  <2>2. \A s \in Slots : IF s \in gone THEN slots'[s] = BlankSlot ELSE slots'[s] = slots[s]
    BY <2>1 DEF Blank
  <2>3. IdsFollowAllocs'
    BY <2>1, <2>2, BoundsAssumption DEF IdsFollowAllocs, BlankSlot, TypeOK
  <2>4. UsedIdsDiffer'
    BY <2>1, <2>2 DEF UsedIdsDiffer, Used, BlankSlot
  <2> QED
    BY <2>3, <2>4
<1>3. CASE TableStays
  BY <1>3 DEF TableStays, UsedIdsDiffer, IdsFollowAllocs, Used, Stays
<1> QED
  BY <1>1, <1>2, <1>3, StepKinds

-----------------------------------------------------------------------------
(* Creating requests, and what push clients are due. *)

\* A slot that was freed and taken again belongs to a later subscription, so
\* no creating request takes it for its own.
LEMMA NextCreators ==
  ASSUME TypeOK, RequestsHaveSlots, CreatorsKnowTheirKind, [Next]_vars
  PROVE  CreatorsKnowTheirKind'
<1>1. ASSUME NEW c \in Cgi, CreatePullPoint(c) \/ Subscribe(c)
      PROVE  CreatorsKnowTheirKind'
  <2>0. PICK kind, pc, topic, expire :
          /\ kind = IF pc = "create" THEN "SUB_PULL" ELSE "SUB_PUSH"
          /\ Allocate(c, kind, pc, topic, expire)
    BY <1>1 DEF CreatePullPoint, Subscribe
  <2>1. PICK s \in Slots, id \in 1..MaxId :
          /\ slots' = [slots EXCEPT ![s] = [@ EXCEPT !.id = id, !.used = kind,
                                              !.expire = expire, !.topic = topic]]
          /\ cgi' = [cgi EXCEPT ![c] = [IdleCgi EXCEPT !.pc = pc, !.slot = s, !.id = id,
                                                       !.sub = allocs + 1]]
          /\ owner' = [owner EXCEPT ![s] = allocs + 1]
          /\ allocs' = allocs + 1
    BY <2>0 DEF Allocate
  <2>2. /\ slots'[s].used = kind /\ owner'[s] = allocs + 1
        /\ \A r \in Slots \ {s} : slots'[r] = slots[r] /\ owner'[r] = owner[r]
    <3>1. slots[s] \in SlotType
      BY DEF TypeOK
    <3> QED
      BY <2>1, <3>1 DEF TypeOK, SlotType
  <2>3. cgi'[c].sub = allocs + 1 /\ cgi'[c].slot = s /\ cgi'[c].pc = pc
    BY <2>1 DEF TypeOK, IdleCgi
  <2>4. allocs \in Nat
    BY BoundsAssumption DEF TypeOK
  <2> SUFFICES ASSUME NEW d \in Cgi, Creating(d)'
               PROVE  /\ cgi'[d].sub \in 1..allocs'
                      /\ owner'[cgi'[d].slot] = cgi'[d].sub =>
                           slots'[cgi'[d].slot].used =
                             IF cgi'[d].pc = "create" THEN "SUB_PULL" ELSE "SUB_PUSH"
    BY DEF CreatorsKnowTheirKind
  <2>5. CASE d = c
    BY <2>0, <2>1, <2>2, <2>3, <2>4, <2>5
  <2>6. CASE d # c
    <3>1. cgi'[d] = cgi[d] /\ Creating(d) /\ cgi[d].slot \in Slots
      BY <2>1, <2>6 DEF TypeOK, Creating, RequestsHaveSlots
    <3>2. cgi[d].sub \in 1..allocs
      BY <3>1 DEF CreatorsKnowTheirKind
    <3>3. CASE cgi[d].slot = s
      <4>1. owner'[cgi[d].slot] # cgi[d].sub
        BY <2>2, <2>4, <3>2, <3>3
      <4>2. cgi[d].sub \in 1..allocs'
        BY <2>1, <2>4, <3>2
      <4> QED
        BY <3>1, <4>1, <4>2
    <3>4. CASE cgi[d].slot # s
      <4>1. owner'[cgi[d].slot] = cgi[d].sub =>
              slots[cgi[d].slot].used = IF cgi[d].pc = "create" THEN "SUB_PULL" ELSE "SUB_PUSH"
        BY <2>2, <3>1, <3>4 DEF CreatorsKnowTheirKind
      <4>2. slots'[cgi[d].slot] = slots[cgi[d].slot]
        BY <2>2, <3>1, <3>4
      <4>3. cgi[d].sub \in 1..allocs'
        BY <2>1, <2>4, <3>2
      <4> QED
        BY <3>1, <4>1, <4>2, <4>3
    <3> QED
      BY <3>3, <3>4
  <2> QED
    BY <2>5, <2>6
<1>2. CASE Unsubscribe \/ CleanExpired
  <2>1. PICK gone \in SUBSET Slots : Blank(gone) /\ UNCHANGED <<allocs, cgi>>
    BY <1>2 DEF Unsubscribe, CleanExpired
  <2> SUFFICES ASSUME NEW d \in Cgi, Creating(d)
               PROVE  /\ cgi[d].sub \in 1..allocs
                      /\ owner'[cgi[d].slot] = cgi[d].sub =>
                           slots'[cgi[d].slot].used =
                             IF cgi[d].pc = "create" THEN "SUB_PULL" ELSE "SUB_PUSH"
    BY <2>1 DEF CreatorsKnowTheirKind, Creating
  <2>2. cgi[d].slot \in Slots /\ cgi[d].sub \in 1..allocs
    BY DEF Creating, RequestsHaveSlots, CreatorsKnowTheirKind
  <2>3. CASE cgi[d].slot \in gone
    <3>1. owner'[cgi[d].slot] = 0 /\ 0 \notin 1..allocs
      BY <2>1, <2>2, <2>3, BoundsAssumption DEF Blank, TypeOK
    <3> QED
      BY <2>2, <3>1
  <2>4. CASE cgi[d].slot \notin gone
    <3>1. owner'[cgi[d].slot] = owner[cgi[d].slot] /\ slots'[cgi[d].slot] = slots[cgi[d].slot]
      BY <2>1, <2>2, <2>4 DEF Blank
    <3> QED
      BY <2>2, <3>1 DEF CreatorsKnowTheirKind
  <2> QED
    BY <2>3, <2>4
<1>3. CASE TableStays
  <2> SUFFICES ASSUME NEW d \in Cgi, Creating(d)'
               PROVE  /\ cgi'[d].sub \in 1..allocs'
                      /\ owner'[cgi'[d].slot] = cgi'[d].sub =>
                           slots'[cgi'[d].slot].used =
                             IF cgi'[d].pc = "create" THEN "SUB_PULL" ELSE "SUB_PUSH"
    BY DEF CreatorsKnowTheirKind
  <2>1. cgi'[d] = cgi[d] /\ Creating(d) /\ cgi[d].slot \in Slots
    BY <1>3 DEF TableStays, CreatorsStay, Creating, RequestsHaveSlots
  <2> QED
    BY <1>3, <2>1 DEF TableStays, Stays, CreatorsKnowTheirKind
<1> QED
  BY <1>1, <1>2, <1>3, StepKinds

\* Only ForcePushSync lets a push client wait for its first messages, and it
\* sets push_need_sync; only SyncSlot resets it, and it sends them.
LEMMA NextPushDue ==
  ASSUME TypeOK, RequestsHaveSlots, CreatorsKnowTheirKind, NewPushIsDue, [Next]_vars
  PROVE  NewPushIsDue'
<1> SUFFICES ASSUME NEW t \in Slots, slots'[t].used = "SUB_PUSH",
                    NEW e \in slots'[t].topic, told'[t][e] = "never"
             PROVE  slots'[t].sync
  BY DEF NewPushIsDue
<1> USE DEF TypeOK
<1>1. slots[t] \in SlotType /\ e \in Events
  <2>1. slots'[t] \in SlotType
    BY NextTypes
  <2> QED
    BY <2>1 DEF SlotType
<1>2. ASSUME slots'[t] = slots[t], told'[t][e] = told[t][e] PROVE slots'[t].sync
  BY <1>2 DEF NewPushIsDue
<1>3. ASSUME NEW c \in Cgi, CreatePullPoint(c) \/ Subscribe(c) PROVE slots'[t].sync
  <2>1. PICK s \in Slots :
          /\ \E new : slots' = [slots EXCEPT ![s] = new]
          /\ told' = [told EXCEPT ![s] = Untold]
    BY <1>3 DEF CreatePullPoint, Subscribe, Allocate
  <2>2. t # s
    BY <1>1, <2>1 DEF Untold
  <2> QED
    BY <1>2, <2>1, <2>2
<1>4. ASSUME NEW c \in Cgi, ForcePullInitialized(c) PROVE slots'[t].sync
  <2>1. told'[t] = told[t]
    BY <1>4 DEF ForcePullInitialized, Answer, Creating, CreatorsKnowTheirKind
  <2> QED
    BY <1>2, <1>4, <2>1 DEF ForcePullInitialized
<1>5. ASSUME NEW c \in Cgi, ForcePushSync(c) PROVE slots'[t].sync
  <2>1. CASE t = cgi[c].slot
    BY <1>1, <1>5, <2>1 DEF ForcePushSync, SlotType
  <2>2. CASE t # cgi[c].slot
    BY <1>2, <1>5, <2>2 DEF ForcePushSync, Answer
  <2> QED
    BY <2>1, <2>2
<1>6. ASSUME NEW c \in Cgi, StartPull(c) \/ SetTermination(c) PROVE slots'[t].sync
  <2>1. PICK s, end : slots' = [slots EXCEPT ![s].expire = end] /\ told' = told
    BY <1>6 DEF StartPull, SetTermination
  <2>2. slots'[t] = slots[t] \/ slots'[t] = [slots[t] EXCEPT !.expire = end]
    BY <2>1
  <2>3. slots'[t].used = slots[t].used /\ slots'[t].topic = slots[t].topic
          /\ slots'[t].sync = slots[t].sync
    BY <1>1, <2>2 DEF SlotType
  <2> QED
    BY <2>1, <2>3 DEF NewPushIsDue
<1>7. CASE Renew
  <2>1. PICK s, end : slots' = [slots EXCEPT ![s].expire = end] /\ told' = told
    BY <1>7 DEF Renew
  <2>2. slots'[t] = slots[t] \/ slots'[t] = [slots[t] EXCEPT !.expire = end]
    BY <2>1
  <2>3. slots'[t].used = slots[t].used /\ slots'[t].topic = slots[t].topic
          /\ slots'[t].sync = slots[t].sync
    BY <1>1, <2>2 DEF SlotType
  <2> QED
    BY <2>1, <2>3 DEF NewPushIsDue
<1>8. ASSUME NEW c \in Cgi, Deliver(c) PROVE slots'[t].sync
  <2>1. told'[t][e] = told[t][e]
    BY <1>1, <1>8 DEF Deliver, Value
  <2> QED
    BY <1>2, <1>8, <2>1 DEF Deliver
<1>9. CASE SetSynchronizationPoint
  <2>1. PICK s \in Slots : slots' = [slots EXCEPT ![s].sync = TRUE] /\ told' = told
    BY <1>9 DEF SetSynchronizationPoint
  <2>2. CASE t = s
    BY <1>1, <2>1, <2>2 DEF SlotType
  <2>3. CASE t # s
    BY <1>2, <2>1, <2>3
  <2> QED
    BY <2>2, <2>3
<1>10. CASE Unsubscribe \/ CleanExpired
  <2>1. PICK gone \in SUBSET Slots : Blank(gone)
    BY <1>10 DEF Unsubscribe, CleanExpired
  <2>2. t \notin gone
    BY <2>1 DEF Blank, BlankSlot
  <2> QED
    BY <1>2, <2>1, <2>2 DEF Blank
<1>11. CASE ApplyChange
  <2>1. told'[t][e] = told[t][e]
    BY <1>1, <1>11 DEF ApplyChange, Value
  <2> QED
    BY <1>2, <1>11, <2>1 DEF ApplyChange
<1>12. CASE SyncSlot
  <2>1. CASE t = sync_i /\ slots[t].sync
    <3>1. slots'[t] = [slots[t] EXCEPT !.sync = FALSE] /\ told'[t] = SyncEvents(t)
      BY <1>12, <2>1 DEF SyncSlot
    <3>2. slots[t].used = "SUB_PUSH" /\ e \in slots[t].topic
      BY <1>1, <3>1 DEF SlotType
    <3> QED
      BY <1>1, <3>1, <3>2 DEF SyncEvents, Value
  <2>2. CASE ~(t = sync_i /\ slots[t].sync)
    BY <1>2, <1>12, <2>2 DEF SyncSlot
  <2> QED
    BY <2>1, <2>2
<1>13. CASE \/ \E c \in Cgi : EndPoll(c) \/ CgiDies(c)
            \/ Tick
            \/ \E f \in Events : PollFile(f) \/ Toggle(f)
            \/ UNCHANGED vars
  BY <1>2, <1>13 DEF EndPoll, CgiDies, Tick, PollFile, Toggle, vars, table
<1> QED
  BY <1>3, <1>4, <1>5, <1>6, <1>7, <1>8, <1>9, <1>10, <1>11, <1>12, <1>13 DEF Next, Request

-----------------------------------------------------------------------------
(* PullMessages requests keep their slots. *)

\* Requests that stay as they are, in slots whose id, kind, owner and end stay.
LEMMA PullStays ==
  ASSUME TypeOK, RequestsHaveSlots, PullInv, now' = now,
         \A c \in Cgi : Active(c)' =>
           /\ cgi'[c] = cgi[c]
           /\ slots'[cgi[c].slot].id = slots[cgi[c].slot].id
           /\ slots'[cgi[c].slot].used = slots[cgi[c].slot].used
           /\ slots'[cgi[c].slot].expire = slots[cgi[c].slot].expire
           /\ owner'[cgi[c].slot] = owner[cgi[c].slot]
  PROVE  PullInv'
<1>1. \A c \in Cgi : Active(c)' => Active(c) /\ cgi[c].slot \in Slots
  BY DEF Active, RequestsHaveSlots
<1>2. PullKeepsItsSlot'
  BY <1>1 DEF PullInv, PullKeepsItsSlot, Active
<1>3. PullsAreInTime'
  BY <1>1 DEF PullInv, PullsAreInTime, Active, Deadline
<1>4. PullsAreApart'
  BY <1>1 DEF PullInv, PullsAreApart, Active
<1> QED
  BY <1>2, <1>3, <1>4 DEF PullInv

\* In particular when only a synchronization flag is set or reset.
LEMMA SyncKeeps ==
  ASSUME TypeOK, RequestsHaveSlots, PullInv, now' = now, owner' = owner, NEW s, NEW b,
         \/ slots' = [slots EXCEPT ![s].sync = b]
         \/ slots' = slots,
         \A c \in Cgi : Active(c)' => cgi'[c] = cgi[c]
  PROVE  PullInv'
<1>1. \A r \in Slots : slots'[r] = slots[r] \/ slots'[r] = [slots[r] EXCEPT !.sync = b]
  BY DEF TypeOK
<1>2. \A r \in Slots :
        /\ slots'[r].id = slots[r].id /\ slots'[r].used = slots[r].used
        /\ slots'[r].expire = slots[r].expire
  <2> SUFFICES ASSUME NEW r \in Slots
               PROVE  /\ slots'[r].id = slots[r].id /\ slots'[r].used = slots[r].used
                      /\ slots'[r].expire = slots[r].expire
    OBVIOUS
  <2>1. slots[r] \in SlotType
    BY DEF TypeOK
  <2> QED
    BY <1>1, <2>1 DEF SlotType
<1>3. \A c \in Cgi : Active(c)' => cgi'[c] = cgi[c] /\ cgi[c].slot \in Slots
  BY DEF Active, RequestsHaveSlots
<1> QED
  BY <1>2, <1>3, PullStays

\* With SerialClients nobody else sends a request for the subscription of an
\* active one, so a slot with a sendable id is not the slot of one.
LEMMA ServedSlotIsFree ==
  ASSUME ClientsBehave, PullInv, NEW s \in Slots, MaySend(slots[s].id),
         NEW c \in Cgi, Active(c)
  PROVE  cgi[c].slot # s /\ cgi[c].id # slots[s].id
BY DEF ClientsBehave, MaySend, PullInv, PullsAreInTime

\* The new request is alone in its slot, whose end it moves beyond its timeout.
LEMMA StartPullKeeps ==
  ASSUME ClientsBehave, TypeOK, RequestsHaveSlots, PullInv, NEW c \in Cgi, StartPull(c)
  PROVE  PullInv'
<1> PICK s \in Slots, timeout \in Timeouts, limit \in Limits :
         /\ MaySend(slots[s].id) /\ slots[s].used = "SUB_PULL"
         /\ slots' = [slots EXCEPT ![s].expire = now + timeout + Grace]
         /\ cgi' = [cgi EXCEPT ![c] =
                      [pc |-> "poll", slot |-> s, id |-> slots[s].id, sub |-> owner[s],
                       until |-> now + timeout, prev |-> slots[s].expire,
                       timeout |-> timeout, limit |-> limit]]
  BY DEF StartPull
<1>1. /\ timeout \in Int /\ timeout >= Lag /\ Lag \in Nat /\ Grace \in Nat /\ now \in Nat
  BY TimesAssumption DEF ClientsBehave, TypeOK
<1>2. /\ slots'[s].id = slots[s].id /\ slots'[s].used = "SUB_PULL"
      /\ slots'[s].expire = now + timeout + Grace
      /\ \A r \in Slots \ {s} : slots'[r] = slots[r]
  <2>1. slots[s] \in SlotType
    BY DEF TypeOK
  <2> QED
    BY <2>1 DEF TypeOK, SlotType
<1>3. /\ cgi'[c].pc = "poll" /\ cgi'[c].slot = s /\ cgi'[c].id = slots[s].id
      /\ cgi'[c].sub = owner[s] /\ cgi'[c].until = now + timeout
      /\ cgi'[c].timeout = timeout
      /\ \A d \in Cgi \ {c} : cgi'[d] = cgi[d]
  BY DEF TypeOK
<1>4. \A d \in Cgi \ {c} : Active(d)' =>
        Active(d) /\ cgi[d].slot \in Slots \ {s}
  BY <1>3, ServedSlotIsFree DEF Active, RequestsHaveSlots
<1>5. now' = now /\ owner' = owner
  BY DEF StartPull
<1>6. PullKeepsItsSlot'
  BY <1>2, <1>3, <1>4, <1>5 DEF PullInv, PullKeepsItsSlot, Active
<1>7. PullsAreInTime'
  <2> SUFFICES ASSUME NEW d \in Cgi, Active(d)'
               PROVE  /\ slots'[cgi'[d].slot].id = cgi'[d].id
                      /\ now <= IF cgi'[d].pc = "poll" THEN cgi'[d].until + 1
                                ELSE cgi'[d].until + Lag
                      /\ cgi'[d].pc # "deliver" => cgi'[d].timeout >= Lag
                      /\ slots'[cgi'[d].slot].expire >=
                           cgi'[d].until + (IF cgi'[d].pc = "poll" THEN Grace ELSE Lag)
    BY <1>5 DEF PullsAreInTime, Deadline
  <2>1. CASE d = c
    BY <1>1, <1>2, <1>3, <2>1
  <2>2. CASE d # c
    BY <1>2, <1>3, <1>4, <2>2 DEF PullInv, PullsAreInTime, Deadline
  <2> QED
    BY <2>1, <2>2
<1>8. PullsAreApart'
  BY <1>3, <1>4 DEF PullInv, PullsAreApart, Active
<1> QED
  BY <1>6, <1>7, <1>8 DEF PullInv

\* The request leaves its loop at most a second late, within the margin Grace.
LEMMA EndPollKeeps ==
  ASSUME ClientsBehave, TypeOK, RequestsHaveSlots, PullInv, NEW c \in Cgi, EndPoll(c)
  PROVE  PullInv'
<1>1. cgi[c] \in CgiType /\ now \in Nat /\ Lag \in Nat /\ Grace \in Nat /\ Grace >= 1 + Lag
  BY TimesAssumption DEF ClientsBehave, TypeOK
<1>2. /\ cgi[c].pc = "poll"
      /\ cgi'[c] = [cgi[c] EXCEPT !.pc = "finish", !.until = now]
      /\ \A d \in Cgi \ {c} : cgi'[d] = cgi[d]
      /\ slots' = slots /\ owner' = owner /\ now' = now
  BY DEF EndPoll, TypeOK
<1>3. /\ cgi'[c].pc = "finish" /\ cgi'[c].until = now
      /\ cgi'[c].slot = cgi[c].slot /\ cgi'[c].id = cgi[c].id
      /\ cgi'[c].sub = cgi[c].sub /\ cgi'[c].timeout = cgi[c].timeout
  BY <1>1, <1>2 DEF CgiType
<1>4. /\ \A d \in Cgi : cgi'[d].slot = cgi[d].slot /\ cgi'[d].sub = cgi[d].sub
      /\ \A d \in Cgi : Active(d)' => Active(d)
  BY <1>2, <1>3 DEF Active
<1>5. PullKeepsItsSlot'
  BY <1>2, <1>4 DEF PullInv, PullKeepsItsSlot, Active
<1>6. PullsAreInTime'
  <2>1. /\ slots[cgi[c].slot].id = cgi[c].id /\ cgi[c].timeout >= Lag
        /\ now <= cgi[c].until + 1
        /\ slots[cgi[c].slot].expire >= cgi[c].until + Grace
    BY <1>2 DEF PullInv, PullsAreInTime, Active, Deadline
  <2>2. slots[cgi[c].slot].expire \in Int /\ cgi[c].until \in Int
    <3>1. cgi[c].slot \in Slots
      BY <1>2 DEF RequestsHaveSlots
    <3>2. slots[cgi[c].slot] \in SlotType
      BY <3>1 DEF TypeOK
    <3> QED
      BY <1>1, <3>2 DEF SlotType, CgiType
  <2>3. slots[cgi[c].slot].expire >= now + Lag /\ now <= now + Lag
    BY <1>1, <2>1, <2>2
  <2> SUFFICES ASSUME NEW d \in Cgi, Active(d)'
               PROVE  /\ slots[cgi'[d].slot].id = cgi'[d].id
                      /\ now <= IF cgi'[d].pc = "poll" THEN cgi'[d].until + 1
                                ELSE cgi'[d].until + Lag
                      /\ cgi'[d].pc # "deliver" => cgi'[d].timeout >= Lag
                      /\ slots[cgi'[d].slot].expire >=
                           cgi'[d].until + (IF cgi'[d].pc = "poll" THEN Grace ELSE Lag)
    BY <1>2 DEF PullsAreInTime, Deadline
  <2>4. CASE d = c
    BY <1>3, <2>1, <2>3, <2>4
  <2>5. CASE d # c
    BY <1>2, <2>5 DEF PullInv, PullsAreInTime, Active, Deadline
  <2> QED
    BY <2>4, <2>5
<1>7. PullsAreApart'
  BY <1>4 DEF PullInv, PullsAreApart
<1> QED
  BY <1>5, <1>6, <1>7 DEF PullInv

\* The end set now is Timeout away from the clock read when the loop ended.
LEMMA SetTerminationKeeps ==
  ASSUME ClientsBehave, TypeOK, RequestsHaveSlots, PullInv, NEW c \in Cgi, SetTermination(c)
  PROVE  PullInv'
<1> DEFINE s == cgi[c].slot
           until == cgi[c].until
           end == cgi[c].until + cgi[c].timeout
<1>1. cgi[c] \in CgiType /\ now \in Nat /\ Lag \in Nat /\ slots[s] \in SlotType /\ s \in Slots
  BY TimesAssumption DEF TypeOK, RequestsHaveSlots, SetTermination
<1>2. /\ cgi[c].pc = "finish"
      /\ cgi'[c] = [cgi[c] EXCEPT !.pc = "deliver", !.prev = 0, !.timeout = 0]
      /\ \A d \in Cgi \ {c} : cgi'[d] = cgi[d]
      /\ slots'[s] = [slots[s] EXCEPT !.expire = IF cgi[c].prev > end THEN cgi[c].prev ELSE end]
      /\ \A r \in Slots \ {s} : slots'[r] = slots[r]
      /\ owner' = owner /\ now' = now
  BY <1>1 DEF SetTermination, TypeOK
<1>3. /\ cgi'[c].pc = "deliver" /\ cgi'[c].until = until
      /\ cgi'[c].slot = s /\ cgi'[c].id = cgi[c].id /\ cgi'[c].sub = cgi[c].sub
  BY <1>1, <1>2 DEF CgiType
<1>4. /\ slots'[s].id = slots[s].id /\ slots'[s].used = slots[s].used
      /\ slots'[s].expire = IF cgi[c].prev > end THEN cgi[c].prev ELSE end
  BY <1>1, <1>2 DEF SlotType
<1>5. \A d \in Cgi \ {c} : Active(d)' => Active(d) /\ cgi[d].slot \in Slots \ {s}
  BY <1>2 DEF Active, RequestsHaveSlots, PullInv, PullsAreApart
<1>6. /\ slots[s].id = cgi[c].id /\ cgi[c].timeout >= Lag /\ now <= until + Lag
      /\ owner[s] = cgi[c].sub /\ slots[s].used = "SUB_PULL"
  BY <1>2 DEF PullInv, PullsAreInTime, PullKeepsItsSlot, Active, Deadline
<1>7. slots'[s].expire >= until + Lag
  <2>1. {cgi[c].prev, cgi[c].timeout, until} \subseteq Int
    BY <1>1 DEF CgiType
  <2> QED
    BY <1>1, <1>4, <1>6, <2>1
<1>8. /\ \A d \in Cgi : cgi'[d].slot = cgi[d].slot /\ cgi'[d].sub = cgi[d].sub
      /\ \A d \in Cgi : Active(d)' => Active(d) /\ cgi[d].slot \in Slots
      /\ \A r \in Slots : slots'[r].used = slots[r].used
  BY <1>1, <1>2, <1>3, <1>4 DEF Active, RequestsHaveSlots
<1>9. PullKeepsItsSlot'
  BY <1>2, <1>8 DEF PullInv, PullKeepsItsSlot, Active
<1>10. PullsAreInTime'
  <2> SUFFICES ASSUME NEW d \in Cgi, Active(d)'
               PROVE  /\ slots'[cgi'[d].slot].id = cgi'[d].id
                      /\ now <= IF cgi'[d].pc = "poll" THEN cgi'[d].until + 1
                                ELSE cgi'[d].until + Lag
                      /\ cgi'[d].pc # "deliver" => cgi'[d].timeout >= Lag
                      /\ slots'[cgi'[d].slot].expire >=
                           cgi'[d].until + (IF cgi'[d].pc = "poll" THEN Grace ELSE Lag)
    BY <1>2 DEF PullsAreInTime, Deadline
  <2>1. CASE d = c
    BY <1>3, <1>4, <1>6, <1>7, <2>1
  <2>2. CASE d # c
    BY <1>2, <1>5, <2>2 DEF PullInv, PullsAreInTime, Deadline
  <2> QED
    BY <2>1, <2>2
<1>11. PullsAreApart'
  BY <1>8 DEF PullInv, PullsAreApart
<1> QED
  BY <1>9, <1>10, <1>11 DEF PullInv

\* Every other action leaves the slots of active requests alone: they are used,
\* they are not served to anyone else, and their end has not passed.
LEMMA NextPull ==
  ASSUME ClientsBehave, TypeOK, RequestsHaveSlots, PullInv, [Next]_vars
  PROVE  PullInv'
<1> USE DEF TypeOK
<1>1. ASSUME NEW c \in Cgi, CreatePullPoint(c) \/ Subscribe(c) PROVE PullInv'
  <2>1. PICK s \in Slots, pc \in {"create", "subscribe"} :
          /\ ~Used(s)
          /\ \E new : slots' = [slots EXCEPT ![s] = new]
          /\ owner' = [owner EXCEPT ![s] = allocs + 1]
          /\ \E id : cgi' = [cgi EXCEPT ![c] = [IdleCgi EXCEPT !.pc = pc, !.slot = s, !.id = id,
                                                              !.sub = allocs + 1]]
          /\ now' = now
    <3>1. CASE CreatePullPoint(c)
      BY <3>1 DEF CreatePullPoint, Allocate, FirstUnused
    <3>2. CASE Subscribe(c)
      BY <3>2 DEF Subscribe, Allocate, FirstUnused
    <3> QED
      BY <1>1, <3>1, <3>2
  <2>2. ~Active(c)'
    BY <2>1 DEF Active, IdleCgi
  <2>3. \A d \in Cgi : Active(d)' => cgi'[d] = cgi[d] /\ Active(d)
    BY <2>1, <2>2 DEF Active
  <2>4. \A d \in Cgi : Active(d) => cgi[d].slot # s
    BY <2>1 DEF PullInv, PullKeepsItsSlot, Active, Used
  <2> QED
    BY <2>1, <2>3, <2>4, PullStays
<1>2. ASSUME NEW c \in Cgi, ForcePullInitialized(c) \/ ForcePushSync(c) \/ Deliver(c) \/ CgiDies(c)
      PROVE  PullInv'
  <2>1. cgi' = [cgi EXCEPT ![c] = IdleCgi] /\ owner' = owner /\ now' = now
    BY <1>2 DEF ForcePullInitialized, ForcePushSync, Deliver, CgiDies, Answer
  <2>2. slots' = [slots EXCEPT ![cgi[c].slot].sync = TRUE] \/ slots' = slots
    BY <1>2 DEF ForcePullInitialized, ForcePushSync, Deliver, CgiDies
  <2>3. \A d \in Cgi : Active(d)' => cgi'[d] = cgi[d]
    BY <2>1 DEF Active, IdleCgi
  <2> QED
    BY <2>1, <2>2, <2>3, SyncKeeps
<1>3. ASSUME NEW c \in Cgi, StartPull(c) \/ EndPoll(c) \/ SetTermination(c) PROVE PullInv'
  BY <1>3, StartPullKeeps, EndPollKeeps, SetTerminationKeeps
<1>4. CASE Renew
  <2>1. PICK s \in Slots :
          MaySend(slots[s].id) /\ \E end : slots' = [slots EXCEPT ![s].expire = end]
    BY <1>4 DEF Renew
  <2>2. \A d \in Cgi : Active(d) => cgi[d].slot \in Slots \ {s}
    BY <2>1, ServedSlotIsFree DEF RequestsHaveSlots, Active
  <2> QED
    BY <1>4, <2>1, <2>2, PullStays DEF Renew, Active
<1>5. CASE Unsubscribe
  <2>1. PICK s \in Slots : MaySend(slots[s].id) /\ Blank({s})
    BY <1>5 DEF Unsubscribe
  <2>2. \A d \in Cgi : Active(d) => cgi[d].slot \in Slots \ {s}
    BY <2>1, ServedSlotIsFree DEF RequestsHaveSlots, Active
  <2> QED
    BY <1>5, <2>1, <2>2, PullStays DEF Unsubscribe, Blank, Active
<1>6. CASE SetSynchronizationPoint
  BY <1>6, SyncKeeps DEF SetSynchronizationPoint
<1>7. CASE SyncSlot
  BY <1>7, SyncKeeps DEF SyncSlot
<1>8. CASE CleanExpired
  <2> DEFINE gone == {s \in Slots : slots[s].expire # 0 /\ Expired(s)}
  <2>1. Blank(gone) /\ \A s \in gone : now > slots[s].expire
    BY <1>8 DEF CleanExpired, Expired
  <2> HIDE DEF gone
  <2>2. \A d \in Cgi : Active(d) => cgi[d].slot \in Slots \ gone
    <3> SUFFICES ASSUME NEW d \in Cgi, Active(d) PROVE cgi[d].slot \in Slots \ gone
      OBVIOUS
    <3>1. cgi[d].slot \in Slots
      BY DEF RequestsHaveSlots, Active
    <3>2. now <= slots[cgi[d].slot].expire
      <4>1. slots[cgi[d].slot] \in SlotType /\ cgi[d] \in CgiType
        BY <3>1
      <4>2. slots[cgi[d].slot].expire \in Int /\ cgi[d].until \in Int /\ now \in Int
              /\ Lag \in Nat /\ Grace >= 1 + Lag /\ Grace \in Nat
        BY <4>1, TimesAssumption DEF SlotType, CgiType, ClientsBehave
      <4>3. /\ now <= Deadline(d)
            /\ slots[cgi[d].slot].expire >= cgi[d].until + (IF cgi[d].pc = "poll" THEN Grace ELSE Lag)
        BY DEF PullInv, PullsAreInTime
      <4>4. Deadline(d) = cgi[d].until + (IF cgi[d].pc = "poll" THEN 1 ELSE Lag)
        BY DEF Deadline
      <4> QED
        <5>1. CASE cgi[d].pc = "poll"
          BY <4>2, <4>3, <4>4, <5>1
        <5>2. CASE cgi[d].pc # "poll"
          BY <4>2, <4>3, <4>4, <5>2
        <5> QED
          BY <5>1, <5>2
    <3>3. slots[cgi[d].slot].expire \in Int
      BY <3>1 DEF SlotType
    <3> QED
      BY <2>1, <3>1, <3>2, <3>3
  <2> QED
    BY <1>8, <2>1, <2>2, PullStays DEF CleanExpired, Blank, Active
<1>9. CASE ApplyChange \/ (\E e \in Events : PollFile(e) \/ Toggle(e)) \/ UNCHANGED vars
  BY <1>9, SyncKeeps DEF ApplyChange, PollFile, Toggle, vars, table
<1>10. CASE Tick
  <2>1. /\ now' = now + 1 /\ slots' = slots /\ cgi' = cgi /\ owner' = owner
        /\ \A c \in Cgi : Active(c) => now < Deadline(c)
    BY <1>10 DEF Tick, Active
  <2>2. PullKeepsItsSlot' /\ PullsAreApart'
    BY <2>1 DEF PullInv, PullKeepsItsSlot, PullsAreApart, Active
  <2>3. PullsAreInTime'
    <3> SUFFICES ASSUME NEW c \in Cgi, Active(c) PROVE now + 1 <= Deadline(c)
      BY <2>1 DEF PullInv, PullsAreInTime, Active, Deadline
    <3>1. Deadline(c) \in Int /\ now \in Int
      BY TimesAssumption DEF Deadline, CgiType
    <3> QED
      BY <2>1, <3>1
  <2> QED
    BY <2>2, <2>3 DEF PullInv
<1> QED
  BY <1>1, <1>2, <1>3, <1>4, <1>5, <1>6, <1>7, <1>8, <1>9, <1>10 DEF Next, Request

-----------------------------------------------------------------------------
(* No message is lost. *)

\* Whatever makes a pull client wait for a message sets the bit of its slot,
\* and Deliver, the only action that resets a bit, sends to the slot's client:
\* it still has its slot.
LEMMA NextMessages ==
  ASSUME TypeOK, RequestsHaveSlots, CreatorsKnowTheirKind, PullKeepsItsSlot,
         NoLostMessage, [Next]_vars
  PROVE  NoLostMessage'
<1> SUFFICES ASSUME NEW t \in Slots, slots'[t].used = "SUB_PULL", NEW e \in slots'[t].topic
             PROVE  /\ told'[t][e] = "never" => t \in notify'[e] \cap initial'[e]
                    /\ IsValue(told'[t][e]) => t \in notify'[e] \/ told'[t][e] = Value(on'[e])
  BY DEF NoLostMessage, IsValue
<1> DEFINE Goal ==
      /\ told'[t][e] = "never" => t \in notify'[e] \cap initial'[e]
      /\ IsValue(told'[t][e]) => t \in notify'[e] \/ told'[t][e] = Value(on'[e])
           Same ==
      slots'[t].used = slots[t].used /\ slots'[t].topic = slots[t].topic
        /\ told'[t][e] = told[t][e]
<1> USE DEF TypeOK
<1>1. slots[t] \in SlotType /\ e \in Events
  <2>1. slots'[t] \in SlotType
    BY NextTypes
  <2> QED
    BY <2>1 DEF SlotType
<1>2. ASSUME Same, on'[e] = on[e],
             t \in notify[e] => t \in notify'[e], t \in initial[e] => t \in initial'[e]
      PROVE  Goal
  BY <1>1, <1>2 DEF NoLostMessage
<1>3. ASSUME NEW c \in Cgi, CreatePullPoint(c) \/ Subscribe(c) PROVE Goal
  <2>1. PICK s \in Slots :
          /\ \E new : slots' = [slots EXCEPT ![s] = new]
          /\ told' = [told EXCEPT ![s] = Untold]
          /\ UNCHANGED <<on, notify, initial>>
    BY <1>3 DEF CreatePullPoint, Subscribe, Allocate
  <2>2. CASE t = s
    BY <1>1, <2>1, <2>2 DEF Untold, IsValue
  <2>3. CASE t # s
    BY <1>2, <2>1, <2>3
  <2> QED
    BY <2>2, <2>3
<1>4. ASSUME NEW c \in Cgi, ForcePullInitialized(c) PROVE Goal
  <2>1. /\ cgi[c].slot \in Slots /\ slots' = slots /\ on' = on
        /\ initial' = MarkAll(initial, cgi[c].slot) /\ notify' = MarkAll(notify, cgi[c].slot)
    BY <1>4 DEF ForcePullInitialized, RequestsHaveSlots
  <2>2. /\ notify[e] \subseteq notify'[e] /\ initial[e] \subseteq initial'[e]
        /\ e \in slots[cgi[c].slot].topic => cgi[c].slot \in notify'[e] \cap initial'[e]
    BY <1>1, <2>1, MarkAllAdds
  <2>3. CASE t = cgi[c].slot
    BY <2>1, <2>2, <2>3
  <2>4. CASE t # cgi[c].slot
    <3>1. told'[t] = told[t]
      BY <1>4, <2>4 DEF ForcePullInitialized, Answer
    <3> QED
      BY <1>2, <2>1, <2>2, <3>1
  <2> QED
    BY <2>3, <2>4
<1>5. ASSUME NEW c \in Cgi, ForcePushSync(c) PROVE Goal
  <2>1. slots'[t] = slots[t] \/ slots'[t] = [slots[t] EXCEPT !.sync = TRUE]
    BY <1>5 DEF ForcePushSync
  <2>2. slots'[t].used = slots[t].used /\ slots'[t].topic = slots[t].topic
    BY <1>1, <2>1 DEF SlotType
  <2>3. told'[t] = told[t]
    BY <1>5, <2>2 DEF ForcePushSync, Answer, Creating, CreatorsKnowTheirKind
  <2> QED
    BY <1>2, <1>5, <2>2, <2>3 DEF ForcePushSync
<1>6. ASSUME NEW c \in Cgi, Deliver(c) PROVE Goal
  <2> DEFINE sent == Sent(cgi[c].slot, cgi[c].limit)
  <2>1. /\ owner[cgi[c].slot] = cgi[c].sub
        /\ slots' = slots /\ on' = on
        /\ notify' = [f \in Events |-> IF f \in sent THEN notify[f] \ {cgi[c].slot} ELSE notify[f]]
        /\ initial' = [f \in Events |-> IF f \in sent THEN initial[f] \ {cgi[c].slot}
                                        ELSE initial[f]]
        /\ told' = [told EXCEPT ![cgi[c].slot] = [f \in Events |->
                                  IF f \in sent THEN Value(on[f]) ELSE @[f]]]
    BY <1>6 DEF Deliver, PullKeepsItsSlot
  <2> HIDE DEF sent
  <2>2. CASE t = cgi[c].slot /\ e \in sent
    BY <1>1, <2>1, <2>2 DEF IsValue, Value
  <2>3. CASE ~(t = cgi[c].slot /\ e \in sent)
    <3>1. told'[t][e] = told[t][e]
      BY <1>1, <2>1, <2>3
    <3>2. (t \in notify[e] => t \in notify'[e]) /\ (t \in initial[e] => t \in initial'[e])
      BY <1>1, <2>1, <2>3
    <3> QED
      BY <1>2, <2>1, <3>1, <3>2
  <2> QED
    BY <2>2, <2>3
<1>7. ASSUME NEW c \in Cgi, StartPull(c) \/ SetTermination(c) PROVE Goal
  <2>1. PICK s, end : slots' = [slots EXCEPT ![s].expire = end]
    BY <1>7 DEF StartPull, SetTermination
  <2>2. slots'[t] = slots[t] \/ slots'[t] = [slots[t] EXCEPT !.expire = end]
    BY <2>1
  <2>3. slots'[t].used = slots[t].used /\ slots'[t].topic = slots[t].topic
    BY <1>1, <2>2 DEF SlotType
  <2> QED
    BY <1>2, <1>7, <2>3 DEF StartPull, SetTermination
<1>8. CASE Renew
  <2>1. PICK s, end : slots' = [slots EXCEPT ![s].expire = end]
    BY <1>8 DEF Renew
  <2>2. slots'[t] = slots[t] \/ slots'[t] = [slots[t] EXCEPT !.expire = end]
    BY <2>1
  <2>3. slots'[t].used = slots[t].used /\ slots'[t].topic = slots[t].topic
    BY <1>1, <2>2 DEF SlotType
  <2> QED
    BY <1>2, <1>8, <2>3 DEF Renew
<1>9. CASE SetSynchronizationPoint
  <2>1. PICK s \in Slots :
          /\ slots' = [slots EXCEPT ![s].sync = TRUE]
          /\ initial' = MarkAll(initial, s) /\ notify' = MarkAll(notify, s)
          /\ told' = told /\ on' = on
    BY <1>9 DEF SetSynchronizationPoint
  <2>2. slots'[t] = slots[t] \/ slots'[t] = [slots[t] EXCEPT !.sync = TRUE]
    BY <2>1
  <2>3. slots'[t].used = slots[t].used /\ slots'[t].topic = slots[t].topic
    BY <1>1, <2>2 DEF SlotType
  <2>4. notify[e] \subseteq notify'[e] /\ initial[e] \subseteq initial'[e]
    BY <1>1, <2>1, MarkAllAdds
  <2> QED
    BY <1>2, <2>1, <2>3, <2>4
<1>10. CASE Unsubscribe \/ CleanExpired
  <2>1. PICK gone \in SUBSET Slots : Blank(gone) /\ UNCHANGED <<on, notify, initial>>
    BY <1>10 DEF Unsubscribe, CleanExpired
  <2>2. t \notin gone
    BY <2>1 DEF Blank, BlankSlot
  <2> QED
    BY <1>2, <2>1, <2>2 DEF Blank
<1>11. CASE ApplyChange
  <2>1. Head(inq) \in [ev : Events, on : BOOLEAN]
    BY <1>11, HeadTailProperties DEF ApplyChange
  <2>2. PICK read \in (now - Lag)..now :
          LET f == Head(inq).ev
              v == Head(inq).on
              live   == {s \in Slots : Used(s) /\ read <= slots[s].expire}
              marked == {s \in live : slots[s].used = "SUB_PULL" /\ f \in slots[s].topic}
              pushed == {s \in live : slots[s].used = "SUB_PUSH"}
              passed == {s \in Slots \ live : Used(s) /\ IsValue(told[s][f])}
          IN  /\ on' = [on EXCEPT ![f] = v]
              /\ notify' = [notify EXCEPT ![f] = @ \cup marked]
              /\ told' = [s \in Slots |->
                   [told[s] EXCEPT ![f] = IF s \in pushed THEN Value(v)
                                          ELSE IF s \in passed THEN "gap" ELSE @]]
    BY <1>11 DEF ApplyChange
  <2>3. slots' = slots /\ initial' = initial /\ notify[e] \subseteq notify'[e]
    BY <1>1, <1>11, <2>2 DEF ApplyChange
  <2>4. CASE e # Head(inq).ev
    BY <1>1, <1>2, <2>2, <2>3, <2>4
  <2>5. CASE e = Head(inq).ev /\ t \in notify'[e]
    <3>1. told'[t][e] = told[t][e] \/ told'[t][e] = "gap"
      BY <1>1, <2>2, <2>3, <2>5
    <3> QED
      BY <1>1, <2>3, <2>5, <3>1 DEF NoLostMessage
  <2>6. CASE e = Head(inq).ev /\ t \notin notify'[e]
    <3>1. told'[t][e] = "gap" \/ (told'[t][e] = told[t][e] /\ ~IsValue(told[t][e]))
      BY <1>1, <2>2, <2>3, <2>6 DEF Used
    <3> QED
      BY <1>1, <2>3, <2>6, <3>1 DEF NoLostMessage, IsValue
  <2> QED
    BY <2>4, <2>5, <2>6
<1>12. CASE SyncSlot
  <2>1. slots'[t] = slots[t] \/ slots'[t] = [slots[t] EXCEPT !.sync = FALSE]
    BY <1>12 DEF SyncSlot
  <2>2. slots'[t].used = slots[t].used /\ slots'[t].topic = slots[t].topic
    BY <1>1, <2>1 DEF SlotType
  <2>3. told'[t][e] = told[t][e]
    <3>1. told'[t] = told[t] \/ told'[t] = SyncEvents(t)
      BY <1>12 DEF SyncSlot
    <3>2. SyncEvents(t)[e] = told[t][e]
      BY <1>1, <2>2 DEF SyncEvents
    <3> QED
      BY <3>1, <3>2
  <2> QED
    BY <1>2, <1>12, <2>2, <2>3 DEF SyncSlot
<1>13. CASE \/ \E c \in Cgi : EndPoll(c) \/ CgiDies(c)
            \/ Tick
            \/ \E f \in Events : PollFile(f) \/ Toggle(f)
            \/ UNCHANGED vars
  BY <1>2, <1>13 DEF EndPoll, CgiDies, Tick, PollFile, Toggle, vars, table
<1> QED
  BY <1>3, <1>4, <1>5, <1>6, <1>7, <1>8, <1>9, <1>10, <1>11, <1>12, <1>13 DEF Next, Request

-----------------------------------------------------------------------------
(* Clients are up to date. *)

\* Records are applied in the order in which they came.
LEMMA RestOfRecords ==
  ASSUME NEW Record, NEW queue \in Seq(Record), queue # <<>>
  PROVE  /\ Len(queue) \in Nat /\ Len(queue) >= 1 /\ Len(Tail(queue)) = Len(queue) - 1
         /\ Head(queue) = queue[1] /\ Head(queue) \in Record
         /\ \A i \in 1..Len(Tail(queue)) : Tail(queue)[i] = queue[i + 1]
         /\ \A e : (Head(queue).ev # e /\ \A i \in 1..Len(Tail(queue)) : Tail(queue)[i].ev # e)
                     => \A i \in 1..Len(queue) : queue[i].ev # e
<1>1. /\ Len(queue) \in Nat /\ Len(queue) >= 1 /\ Len(Tail(queue)) = Len(queue) - 1
      /\ Head(queue) \in Record
      /\ \A i \in 1..Len(Tail(queue)) : Tail(queue)[i] = queue[i + 1]
  <2>1. Len(queue) \in Nat \ {0}
    BY EmptySeq
  <2> QED
    BY <2>1, HeadTailProperties
<1>2. Head(queue) = queue[1]
  BY SMT
<1>3. ASSUME NEW e, Head(queue).ev # e, \A i \in 1..Len(Tail(queue)) : Tail(queue)[i].ev # e,
             NEW i \in 1..Len(queue)
      PROVE  queue[i].ev # e
  <2>1. CASE i = 1
    BY <1>2, <1>3, <2>1
  <2>2. CASE i # 1
    <3>1. i - 1 \in 1..Len(Tail(queue)) /\ (i - 1) + 1 = i
      BY <1>1, <2>2
    <3> QED
      BY <1>1, <1>3, <3>1
  <2> QED
    BY <2>1, <2>2
<1> QED
  BY <1>1, <1>2, <1>3

\* A change of a file adds the record that says so; applying a change takes away
\* the oldest record, and is_on gets what it says.
LEMMA NextRecords ==
  ASSUME Inotify, TypeOK, RecordsFollowFiles, [Next]_vars
  PROVE  RecordsFollowFiles'
<1> DEFINE Record == [ev : Events, on : BOOLEAN]
<1>1. inq \in Seq(Record) /\ file \in [Events -> BOOLEAN] /\ on \in [Events -> BOOLEAN]
  BY DEF TypeOK
<1>2. ASSUME NEW e \in Events, Toggle(e) PROVE RecordsFollowFiles'
  <2> DEFINE new == [ev |-> e, on |-> ~file[e]]
  <2>1. inq' = Append(inq, new) /\ file' = [file EXCEPT ![e] = ~@] /\ on' = on
    BY <1>2 DEF Toggle
  <2>2. new \in Record
    BY <1>1
  <2>3. /\ Len(inq) \in Nat /\ Len(inq') = Len(inq) + 1
        /\ \A i \in 1..Len(inq) : inq'[i] = inq[i]
        /\ inq'[Len(inq) + 1] = new
    BY <1>1, <2>1, <2>2, AppendProperties, LenProperties
  <2>4. new.ev = e /\ new.on = ~file[e]
    OBVIOUS
  <2> HIDE DEF new
  <2>5. ASSUME NEW i \in 1..Len(inq'), \A j \in (i + 1)..Len(inq') : inq'[j].ev # inq'[i].ev
        PROVE  inq'[i].on = file'[inq'[i].ev]
    <3>1. CASE i = Len(inq) + 1
      BY <1>1, <2>1, <2>3, <2>4, <3>1
    <3>2. CASE i # Len(inq) + 1
      <4>1. i \in 1..Len(inq) /\ Len(inq) + 1 \in (i + 1)..Len(inq')
        BY <2>3, <2>5, <3>2
      <4>2. inq'[i] = inq[i] /\ inq[i].ev # e /\ inq[i].ev \in Events
        <5>1. inq[i] \in Record
          BY <1>1, <4>1, ElementOfSeq
        <5> QED
          BY <2>3, <2>4, <2>5, <4>1, <5>1
      <4>3. \A j \in (i + 1)..Len(inq) : inq[j].ev # inq[i].ev
        <5> SUFFICES ASSUME NEW j \in (i + 1)..Len(inq) PROVE inq[j].ev # inq[i].ev
          OBVIOUS
        <5>1. j \in (i + 1)..Len(inq') /\ j \in 1..Len(inq)
          BY <2>3, <4>1
        <5> QED
          BY <2>3, <2>5, <4>2, <5>1
      <4> QED
        BY <1>1, <2>1, <4>1, <4>2, <4>3 DEF RecordsFollowFiles
    <3> QED
      BY <3>1, <3>2
  <2>6. ASSUME NEW f \in Events, \A i \in 1..Len(inq') : inq'[i].ev # f
        PROVE  on'[f] = file'[f]
    <3>1. f # e /\ \A i \in 1..Len(inq) : inq[i].ev # f
      BY <2>3, <2>4, <2>6
    <3> QED
      BY <1>1, <2>1, <3>1 DEF RecordsFollowFiles
  <2> QED
    BY <2>5, <2>6 DEF RecordsFollowFiles
<1>3. CASE ApplyChange
  <2>1. /\ inq # <<>> /\ inq' = Tail(inq) /\ file' = file
        /\ on' = [on EXCEPT ![Head(inq).ev] = Head(inq).on]
    BY <1>3 DEF ApplyChange
  <2>2. /\ Len(inq) \in Nat /\ Len(inq) >= 1 /\ Len(inq') = Len(inq) - 1
        /\ Head(inq) = inq[1] /\ Head(inq) \in Record
        /\ \A i \in 1..Len(inq') : inq'[i] = inq[i + 1]
    BY <1>1, <2>1, RestOfRecords
  <2>3. ASSUME NEW i \in 1..Len(inq'), \A j \in (i + 1)..Len(inq') : inq'[j].ev # inq'[i].ev
        PROVE  inq'[i].on = file'[inq'[i].ev]
    <3>1. i + 1 \in 1..Len(inq) /\ inq'[i] = inq[i + 1]
      BY <2>2
    <3>2. \A j \in ((i + 1) + 1)..Len(inq) : inq[j].ev # inq[i + 1].ev
      <4> SUFFICES ASSUME NEW j \in ((i + 1) + 1)..Len(inq) PROVE inq[j].ev # inq[i + 1].ev
        OBVIOUS
      <4>1. j - 1 \in (i + 1)..Len(inq') /\ j - 1 \in 1..Len(inq') /\ (j - 1) + 1 = j
        BY <2>2
      <4>2. inq'[j - 1] = inq[j]
        BY <2>2, <4>1
      <4> QED
        BY <2>3, <3>1, <4>1, <4>2
    <3> QED
      BY <2>1, <3>1, <3>2 DEF RecordsFollowFiles
  <2>4. ASSUME NEW f \in Events, \A i \in 1..Len(inq') : inq'[i].ev # f
        PROVE  on'[f] = file'[f]
    <3>1. \A j \in 2..Len(inq) : inq[j].ev # f
      <4> SUFFICES ASSUME NEW j \in 2..Len(inq) PROVE inq[j].ev # f
        OBVIOUS
      <4>1. j - 1 \in 1..Len(inq') /\ (j - 1) + 1 = j
        BY <2>2
      <4>2. inq'[j - 1] = inq[j]
        BY <2>2, <4>1
      <4> QED
        BY <2>4, <4>1, <4>2
    <3>2. CASE inq[1].ev = f
      <4>1. 1 \in 1..Len(inq) /\ \A j \in (1 + 1)..Len(inq) : inq[j].ev # inq[1].ev
        BY <2>2, <3>1, <3>2
      <4>2. inq[1].on = file[f]
        BY <3>2, <4>1 DEF RecordsFollowFiles
      <4> QED
        BY <1>1, <2>1, <2>2, <3>2, <4>2
    <3>3. CASE inq[1].ev # f
      <4>1. \A i \in 1..Len(inq) : inq[i].ev # f
        BY <2>2, <3>1, <3>3
      <4> QED
        BY <1>1, <2>1, <2>2, <3>3, <4>1 DEF RecordsFollowFiles
    <3> QED
      BY <3>2, <3>3
  <2> QED
    BY <2>3, <2>4 DEF RecordsFollowFiles
<1>4. ASSUME UNCHANGED <<inq, file, on>> PROVE RecordsFollowFiles'
  BY <1>4 DEF RecordsFollowFiles
<1>5. ASSUME NEW c \in Cgi, Request(c) \/ CgiDies(c) PROVE UNCHANGED <<inq, file, on>>
  BY <1>5 DEF Request, CgiDies, CreatePullPoint, Subscribe, Allocate, ForcePullInitialized,
              ForcePushSync, StartPull, EndPoll, SetTermination, Deliver
<1>6. CASE Renew \/ Unsubscribe \/ SetSynchronizationPoint \/ SyncSlot \/ CleanExpired \/ Tick
             \/ UNCHANGED vars
  BY <1>4, <1>6 DEF Renew, Unsubscribe, SetSynchronizationPoint, SyncSlot, CleanExpired, Tick,
                    vars, table
<1>7. \A e \in Events : ~PollFile(e)
  BY DEF PollFile
<1> QED
  BY <1>2, <1>3, <1>4, <1>5, <1>6, <1>7 DEF Next

\* What a push client hears is the state of the file, from sync_events, or the
\* record that was applied: when none is left, that is the state of the file.
LEMMA NextPushesUpToDate ==
  ASSUME Inotify, TypeOK, RequestsHaveSlots, CreatorsKnowTheirKind, PullKeepsItsSlot,
         RecordsFollowFiles, PushesAreUpToDate, [Next]_vars
  PROVE  PushesAreUpToDate'
<1> SUFFICES ASSUME NEW t \in Slots, slots'[t].used = "SUB_PUSH", NEW e \in slots'[t].topic,
                    IsValue(told'[t][e]), \A i \in 1..Len(inq') : inq'[i].ev # e
             PROVE  told'[t][e] = Value(file'[e])
  BY DEF PushesAreUpToDate, IsValue, Value, Pending
<1> DEFINE Goal == told'[t][e] = Value(file'[e])
           Same == slots'[t].used = slots[t].used /\ slots'[t].topic = slots[t].topic
<1> USE DEF TypeOK
<1>1. /\ slots[t] \in SlotType /\ e \in Events
      /\ \A i \in 1..Len(inq') : inq'[i].ev # e
  <2>1. slots'[t] \in SlotType
    BY NextTypes
  <2> QED
    BY <2>1 DEF SlotType
<1>2. ASSUME Same, told'[t][e] = told[t][e], file' = file, inq' = inq
      PROVE  Goal
  BY <1>1, <1>2 DEF PushesAreUpToDate, Pending
<1>3. ASSUME NEW c \in Cgi, CreatePullPoint(c) \/ Subscribe(c) PROVE Goal
  <2>1. PICK s \in Slots :
          /\ \E new : slots' = [slots EXCEPT ![s] = new]
          /\ told' = [told EXCEPT ![s] = Untold]
          /\ UNCHANGED <<file, inq>>
    BY <1>3 DEF CreatePullPoint, Subscribe, Allocate
  <2>2. t # s
    BY <1>1, <2>1 DEF Untold, IsValue
  <2> QED
    BY <1>2, <2>1, <2>2
<1>4. ASSUME NEW c \in Cgi, ForcePullInitialized(c) \/ ForcePushSync(c) PROVE Goal
  <2>1. Same /\ UNCHANGED <<file, inq>>
    <3>1. CASE ForcePullInitialized(c)
      BY <3>1 DEF ForcePullInitialized
    <3>2. CASE ForcePushSync(c)
      <4>1. slots'[t] = slots[t] \/ slots'[t] = [slots[t] EXCEPT !.sync = TRUE]
        BY <3>2 DEF ForcePushSync
      <4> QED
        BY <1>1, <3>2, <4>1 DEF ForcePushSync, SlotType
    <3> QED
      BY <1>4, <3>1, <3>2
  <2>2. told'[t][e] = told[t][e]
    <3>1. Answer(c)
      BY <1>4 DEF ForcePullInitialized, ForcePushSync
    <3>2. told'[t] = told[t] \/ told'[t] = Answered(told[t])
      BY <3>1 DEF Answer
    <3>3. Answered(told[t])[e] \in {told[t][e], "never"}
      BY <1>1 DEF Answered
    <3> QED
      BY <3>2, <3>3 DEF IsValue
  <2> QED
    BY <1>2, <2>1, <2>2
<1>5. ASSUME NEW c \in Cgi, Deliver(c) PROVE Goal
  <2>1. slots' = slots /\ file' = file /\ inq' = inq /\ slots[cgi[c].slot].used = "SUB_PULL"
    BY <1>5 DEF Deliver, PullKeepsItsSlot
  <2>2. told'[t] = told[t]
    BY <1>5, <2>1 DEF Deliver
  <2> QED
    BY <1>2, <2>1, <2>2
<1>6. ASSUME NEW c \in Cgi, StartPull(c) \/ SetTermination(c) PROVE Goal
  <2>1. PICK s, end : slots' = [slots EXCEPT ![s].expire = end]
    BY <1>6 DEF StartPull, SetTermination
  <2>2. slots'[t] = slots[t] \/ slots'[t] = [slots[t] EXCEPT !.expire = end]
    BY <2>1
  <2>3. Same
    BY <1>1, <2>2 DEF SlotType
  <2> QED
    BY <1>2, <1>6, <2>3 DEF StartPull, SetTermination
<1>7. CASE Renew
  <2>1. PICK s, end : slots' = [slots EXCEPT ![s].expire = end]
    BY <1>7 DEF Renew
  <2>2. slots'[t] = slots[t] \/ slots'[t] = [slots[t] EXCEPT !.expire = end]
    BY <2>1
  <2>3. Same
    BY <1>1, <2>2 DEF SlotType
  <2> QED
    BY <1>2, <1>7, <2>3 DEF Renew
<1>8. CASE SetSynchronizationPoint
  <2>1. PICK s : slots' = [slots EXCEPT ![s].sync = TRUE]
    BY <1>8 DEF SetSynchronizationPoint
  <2>2. slots'[t] = slots[t] \/ slots'[t] = [slots[t] EXCEPT !.sync = TRUE]
    BY <2>1
  <2>3. Same
    BY <1>1, <2>2 DEF SlotType
  <2> QED
    BY <1>2, <1>8, <2>3 DEF SetSynchronizationPoint
<1>9. CASE Unsubscribe \/ CleanExpired
  <2>1. PICK gone \in SUBSET Slots : Blank(gone) /\ UNCHANGED <<file, inq>>
    BY <1>9 DEF Unsubscribe, CleanExpired
  <2>2. t \notin gone
    BY <2>1 DEF Blank, BlankSlot
  <2> QED
    BY <1>2, <2>1, <2>2 DEF Blank
<1>10. CASE ApplyChange
  <2>1. RecordsFollowFiles'
    BY NextRecords
  <2>2. on'[e] = file'[e] /\ file' = file /\ slots' = slots
    BY <1>1, <1>10, <2>1 DEF RecordsFollowFiles, ApplyChange
  <2>3. PICK read \in (now - Lag)..now :
          LET f == Head(inq).ev
              v == Head(inq).on
              live   == {s \in Slots : Used(s) /\ read <= slots[s].expire}
              pushed == {s \in live : slots[s].used = "SUB_PUSH"}
              passed == {s \in Slots \ live : Used(s) /\ IsValue(told[s][f])}
          IN  /\ on' = [on EXCEPT ![f] = v]
              /\ told' = [s \in Slots |->
                   [told[s] EXCEPT ![f] = IF s \in pushed THEN Value(v)
                                          ELSE IF s \in passed THEN "gap" ELSE @]]
    BY <1>10 DEF ApplyChange
  <2>4. CASE e = Head(inq).ev
    <3>1. on'[e] = Head(inq).on
      BY <1>1, <2>3, <2>4
    <3>2. \/ told'[t][e] = Value(Head(inq).on) \/ told'[t][e] = "gap"
          \/ told'[t][e] = told[t][e] /\ ~IsValue(told[t][e])
      BY <1>1, <2>2, <2>3, <2>4 DEF Used
    <3> QED
      BY <2>2, <3>1, <3>2 DEF IsValue
  <2>5. CASE e # Head(inq).ev
    <3>1. told'[t][e] = told[t][e]
      BY <1>1, <2>3, <2>5
    <3>2. \A i \in 1..Len(inq) : inq[i].ev # e
      <4>1. inq \in Seq([ev : Events, on : BOOLEAN]) /\ inq # <<>> /\ inq' = Tail(inq)
        BY <1>10 DEF ApplyChange
      <4>2. (Head(inq).ev # e /\ \A i \in 1..Len(Tail(inq)) : Tail(inq)[i].ev # e)
              => \A i \in 1..Len(inq) : inq[i].ev # e
        BY <4>1, RestOfRecords
      <4> QED
        BY <1>1, <2>5, <4>1, <4>2
    <3> QED
      BY <1>1, <2>2, <3>1, <3>2 DEF PushesAreUpToDate, Pending
  <2> QED
    BY <2>4, <2>5
<1>11. CASE SyncSlot
  <2>1. slots'[t] = slots[t] \/ slots'[t] = [slots[t] EXCEPT !.sync = FALSE]
    BY <1>11 DEF SyncSlot
  <2>2. Same /\ file' = file /\ inq' = inq
    BY <1>1, <1>11, <2>1 DEF SlotType, SyncSlot
  <2>3. told'[t] = told[t] \/ told'[t] = SyncEvents(t)
    BY <1>11 DEF SyncSlot
  <2>4. SyncEvents(t)[e] \in {"gap", Value(file[e])}
    BY <1>1, <2>2 DEF SyncEvents
  <2> QED
    BY <1>2, <2>2, <2>3, <2>4 DEF IsValue
<1>12. ASSUME NEW f \in Events, Toggle(f) PROVE Goal
  <2>1. /\ inq' = Append(inq, [ev |-> f, on |-> ~file[f]])
        /\ file' = [file EXCEPT ![f] = ~@] /\ slots' = slots /\ told' = told
    BY <1>12 DEF Toggle
  <2>2. [ev |-> f, on |-> ~file[f]] \in [ev : Events, on : BOOLEAN]
    OBVIOUS
  <2>3. /\ Len(inq) \in Nat /\ Len(inq') = Len(inq) + 1
        /\ \A i \in 1..Len(inq) : inq'[i] = inq[i]
        /\ inq'[Len(inq) + 1] = [ev |-> f, on |-> ~file[f]]
    BY <2>1, <2>2, AppendProperties, LenProperties
  <2>4. f # e /\ \A i \in 1..Len(inq) : inq[i].ev # e
    BY <1>1, <2>3
  <2> QED
    BY <1>1, <2>1, <2>4 DEF PushesAreUpToDate, Pending
<1>13. CASE (\E c \in Cgi : EndPoll(c) \/ CgiDies(c)) \/ Tick \/ UNCHANGED vars
  BY <1>2, <1>13 DEF EndPoll, CgiDies, Tick, vars, table
<1>14. \A f \in Events : ~PollFile(f)
  BY DEF PollFile
<1> QED
  BY <1>3, <1>4, <1>5, <1>6, <1>7, <1>8, <1>9, <1>10, <1>11, <1>12, <1>13, <1>14 DEF Next, Request

-----------------------------------------------------------------------------
(* Subscriptions by their numbers. *)

\* A number is given once; freed slots have none.
LEMMA NextOwners ==
  ASSUME TypeOK, RequestsHaveSlots, OwnersMatch, [Next]_vars
  PROVE  OwnersMatch'
<1>0. allocs \in Nat
  BY BoundsAssumption DEF TypeOK
<1>1. ASSUME NEW c \in Cgi, CreatePullPoint(c) \/ Subscribe(c)
      PROVE  OwnersMatch'
  <2>1. PICK kind, pc, topic, expire :
          kind \in {"SUB_PULL", "SUB_PUSH"} /\ Allocate(c, kind, pc, topic, expire)
    BY <1>1 DEF CreatePullPoint, Subscribe
  <2>2. PICK s \in Slots, id \in 1..MaxId :
          /\ slots' = [slots EXCEPT ![s] = [@ EXCEPT !.id = id, !.used = kind,
                                              !.expire = expire, !.topic = topic]]
          /\ owner' = [owner EXCEPT ![s] = allocs + 1]
          /\ allocs' = allocs + 1
    BY <2>1 DEF Allocate
  <2>3. /\ slots'[s].used = kind /\ owner'[s] = allocs + 1
        /\ \A r \in Slots \ {s} : slots'[r] = slots[r] /\ owner'[r] = owner[r]
    <3>1. slots[s] \in SlotType
      BY DEF TypeOK
    <3> QED
      BY <2>2, <3>1 DEF TypeOK, SlotType
  <2>4. \A r \in Slots : owner[r] \in Nat /\ owner[r] <= allocs
    BY BoundsAssumption DEF TypeOK, OwnersMatch
  <2> QED
    BY <1>0, <2>1, <2>2, <2>3, <2>4 DEF OwnersMatch, Used
<1>2. ASSUME NEW gone \in SUBSET Slots, Blank(gone), allocs' = allocs
      PROVE  OwnersMatch'
  BY <1>0, <1>2 DEF Blank, BlankSlot, OwnersMatch, Used
<1>3. CASE Unsubscribe
  BY <1>2, <1>3 DEF Unsubscribe
<1>4. CASE CleanExpired
  BY <1>2, <1>4 DEF CleanExpired
<1>5. CASE TableStays
  BY <1>5 DEF TableStays, Stays, OwnersMatch, Used
<1> QED
  BY <1>1, <1>3, <1>4, <1>5, StepKinds

\* The subscription with the number of a slot is the one in it.
NumbersMatch ==
  /\ \A s \in Slots : owner[s] # 0 =>
       owner[s] \in 1..MaxAllocs /\ Subs[owner[s]] = SubIn(s)
  /\ \A n \in 1..MaxAllocs : (\A s \in Slots : owner[s] # n) => Subs[n] = NoSub
  /\ Subs = [n \in 1..MaxAllocs |-> Subs[n]]

LEMMA NumbersAreOwned == TypeOK /\ OwnersMatch => NumbersMatch
<1> SUFFICES ASSUME TypeOK, OwnersMatch PROVE NumbersMatch
  OBVIOUS
<1>1. ASSUME NEW s \in Slots, owner[s] # 0
      PROVE  owner[s] \in 1..MaxAllocs /\ Subs[owner[s]] = SubIn(s)
  <2>1. owner[s] \in 1..MaxAllocs
    BY <1>1, BoundsAssumption DEF TypeOK
  <2>2. (CHOOSE r \in Slots : owner[r] = owner[s]) = s
    BY <1>1 DEF OwnersMatch
  <2>3. SubNumbered(owner[s]) = SubIn(s)
    BY <2>2 DEF SubNumbered
  <2> QED
    BY <2>1, <2>3 DEF Subs
<1>2. ASSUME NEW n \in 1..MaxAllocs, \A s \in Slots : owner[s] # n
      PROVE  Subs[n] = NoSub
  BY <1>2 DEF Subs, SubNumbered
<1>3. Subs = [n \in 1..MaxAllocs |-> Subs[n]]
  BY DEF Subs
<1> QED
  BY <1>1, <1>2, <1>3 DEF NumbersMatch

\* In the next state, too.
LEMMA NumbersAreOwnedNext == TypeOK' /\ OwnersMatch' => NumbersMatch'
BY NumbersAreOwned, PTL

\* What a step leaves in a slot is still the same subscription.
LEMMA SubInStays ==
  ASSUME NEW s \in Slots,
         slots'[s].used = slots[s].used, slots'[s].topic = slots[s].topic,
         slots'[s].sync = slots[s].sync, told'[s] = told[s],
         \A e \in Events : s \in notify'[e] <=> s \in notify[e]
  PROVE  SubIn(s)' = SubIn(s)
<1>1. {e \in Events : s \in notify'[e]} = {e \in Events : s \in notify[e]}
  OBVIOUS
<1> QED
  BY <1>1 DEF SubIn, Waiting

\* A step that takes no slot and changes no subscription.
LEMMA SubsStay ==
  ASSUME NumbersMatch, NumbersMatch', owner' = owner,
         \A s \in Slots : owner[s] # 0 => SubIn(s)' = SubIn(s)
  PROVE  Subs' = Subs
<1>1. ASSUME NEW n \in 1..MaxAllocs PROVE Subs'[n] = Subs[n]
  <2>1. CASE \E s \in Slots : owner[s] = n
    <3> PICK s \in Slots : owner[s] = n
      BY <2>1
    <3>1. owner[s] # 0
      OBVIOUS
    <3> QED
      BY <3>1 DEF NumbersMatch
  <2>2. CASE \A s \in Slots : owner[s] # n
    BY <2>2 DEF NumbersMatch, NoSub, Untold
  <2> QED
    BY <2>1, <2>2
<1>2. Subs' = [n \in 1..MaxAllocs |-> Subs'[n]] /\ Subs = [n \in 1..MaxAllocs |-> Subs[n]]
  BY DEF NumbersMatch
<1> QED
  BY <1>1, <1>2

\* A step that changes one subscription, or gives a number to a new one.
LEMMA OneSubChanges ==
  ASSUME NumbersMatch, OwnersMatch', NumbersMatch', NEW t \in Slots,
         owner'[t] # 0, owner[t] \in {0, owner'[t]},
         \A s \in Slots \ {t} : owner'[s] = owner[s] /\ (owner[s] # 0 => SubIn(s)' = SubIn(s))
  PROVE  /\ owner'[t] \in 1..MaxAllocs
         /\ Subs' = [Subs EXCEPT ![owner'[t]] = SubIn(t)']
<1> DEFINE m == owner'[t]
<1>0. m \in 1..MaxAllocs /\ Subs'[m] = SubIn(t)'
  BY DEF NumbersMatch
<1>1. ASSUME NEW n \in 1..MaxAllocs, n # m PROVE Subs'[n] = Subs[n]
  <2>1. CASE \E s \in Slots : owner[s] = n
    <3> PICK s \in Slots : owner[s] = n
      BY <2>1
    <3>1. owner[s] # 0 /\ s # t
      BY <1>1
    <3> QED
      BY <3>1 DEF NumbersMatch
  <2>2. CASE \A s \in Slots : owner[s] # n
    <3>1. \A s \in Slots : owner'[s] # n
      BY <1>1, <2>2
    <3> QED
      BY <2>2, <3>1 DEF NumbersMatch, NoSub, Untold
  <2> QED
    BY <2>1, <2>2
<1>2. Subs' = [n \in 1..MaxAllocs |-> Subs'[n]] /\ Subs = [n \in 1..MaxAllocs |-> Subs[n]]
  BY DEF NumbersMatch
<1> QED
  BY <1>0, <1>1, <1>2

\* The abstract specification's names for what is known are the table's.
LEMMA SameNames ==
  /\ SU!None = NoSub /\ SU!Unset = Untold
  /\ \A heard : SU!Answered(heard) = Answered(heard)
  /\ \A b : SU!Value(b) = Value(b)
  /\ \A t : SU!IsValue(t) = IsValue(t)
  /\ SU!Alive = {n \in 1..MaxAllocs : Subs[n].kind # "none"}
BY DEF SU!None, NoSub, SU!Unset, Untold, SU!Answered, Answered, SU!Value, Value, SU!IsValue,
       IsValue, SU!Alive

\* Subscriptions that have a slot are alive.
LEMMA OwnedAreAlive ==
  ASSUME NumbersMatch, NEW s \in Slots, owner[s] # 0
  PROVE  owner[s] \in SU!Alive
<1>1. owner[s] \in 1..MaxAllocs /\ Subs[owner[s]] = SubIn(s)
  BY DEF NumbersMatch
<1>2. SubIn(s).kind # "none"
  BY DEF SubIn
<1> QED
  BY <1>1, <1>2, SameNames

\* A new subscription.
LEMMA AllocateMaps ==
  ASSUME TypeOK, TypeOK', OwnersMatch, OwnersMatch', NumbersMatch, NumbersMatch',
         NEW c, NEW kind \in {"SUB_PULL", "SUB_PUSH"}, NEW pc, NEW topic \in Expressions,
         NEW expire, Allocate(c, kind, pc, topic, expire)
  PROVE  SU!Next
<1> PICK s \in Slots, id \in 1..MaxId :
         /\ ~Used(s)
         /\ slots' = [slots EXCEPT ![s] = [@ EXCEPT !.id = id, !.used = kind,
                                             !.expire = expire, !.topic = topic]]
         /\ owner' = [owner EXCEPT ![s] = allocs + 1]
         /\ told' = [told EXCEPT ![s] = Untold]
         /\ allocs' = allocs + 1
         /\ UNCHANGED <<on, notify, file>>
  BY DEF Allocate, FirstUnused
<1>1. allocs \in Nat /\ allocs + 1 \in 1..MaxAllocs
  BY BoundsAssumption DEF TypeOK
<1>2. /\ owner[s] = 0 /\ owner'[s] = allocs + 1
      /\ \A r \in Slots \ {s} : slots'[r] = slots[r] /\ owner'[r] = owner[r] /\ told'[r] = told[r]
  BY DEF OwnersMatch, TypeOK
<1>3. slots'[s].used = kind /\ slots'[s].topic = topic /\ told'[s] = Untold
  <2>1. slots[s] \in SlotType
    BY DEF TypeOK
  <2> QED
    BY <2>1 DEF TypeOK, SlotType
<1>4. \A r \in Slots \ {s} : SubIn(r)' = SubIn(r)
  BY <1>2, SubInStays
<1>5. Subs' = [Subs EXCEPT ![allocs + 1] = SubIn(s)']
  BY <1>1, <1>2, <1>4, OneSubChanges
<1> DEFINE W == IF kind = "SUB_PULL" THEN {e \in Events : s \in notify'[e]}
                ELSE IF slots'[s].sync THEN topic ELSE {}
           k == IF kind = "SUB_PULL" THEN "pull" ELSE "push"
<1>6. SubIn(s)' = [kind |-> k, topic |-> topic, waiting |-> W, heard |-> SU!Unset]
  BY <1>3, SameNames DEF SubIn, Waiting
<1>7. topic \in SUBSET Events /\ W \in SUBSET Events /\ k \in {"pull", "push"}
  BY RequestsAssumption
<1>8. /\ allocs + 1 \in (1..MaxAllocs) \ (1..allocs)
      /\ 1..(allocs + 1) = (1..allocs) \union {allocs + 1}
  BY <1>1
<1> HIDE DEF W, k
<1>9. SU!Create
  BY <1>5, <1>6, <1>7, <1>8 DEF SU!Create
<1> QED
  BY <1>9 DEF SU!Next

\* Subscriptions that end.
LEMMA BlankMaps ==
  ASSUME NumbersMatch, OwnersMatch, NumbersMatch', NEW gone \in SUBSET Slots, Blank(gone),
         UNCHANGED <<on, notify, file, allocs>>
  PROVE  SU!Next
<1> DEFINE ended == {n \in SU!Alive : \E s \in gone : owner[s] = n}
<1>1. ASSUME NEW n \in 1..MaxAllocs
      PROVE  Subs'[n] = IF n \in ended THEN SU!None ELSE Subs[n]
  <2>1. CASE \E s \in Slots \ gone : owner[s] = n
    <3> PICK s \in Slots \ gone : owner[s] = n
      BY <2>1
    <3>1. slots'[s] = slots[s] /\ owner'[s] = n /\ told'[s] = told[s]
      BY DEF Blank
    <3>2. Subs'[n] = SubIn(s)' /\ Subs[n] = SubIn(s)
      BY <3>1 DEF NumbersMatch
    <3>3. SubIn(s)' = SubIn(s)
      BY <3>1, SubInStays
    <3>4. n \notin ended
      BY DEF OwnersMatch
    <3> QED
      BY <3>2, <3>3, <3>4
  <2>2. CASE \A s \in Slots \ gone : owner[s] # n
    <3>1. \A s \in Slots : owner'[s] # n
      BY <2>2 DEF Blank
    <3>2. Subs'[n] = SU!None
      BY <3>1, SameNames DEF NumbersMatch, NoSub, Untold
    <3>3. CASE \E s \in gone : owner[s] = n
      <4>1. n \in ended
        BY <3>3, OwnedAreAlive
      <4> QED
        BY <3>2, <4>1
    <3>4. CASE \A s \in gone : owner[s] # n
      <4>1. Subs[n] = SU!None
        BY <2>2, <3>4, SameNames DEF NumbersMatch
      <4> QED
        BY <3>2, <4>1
    <3> QED
      BY <3>3, <3>4
  <2> QED
    BY <2>1, <2>2
<1>2. Subs' = [n \in 1..MaxAllocs |-> Subs'[n]]
  BY DEF NumbersMatch
<1>3. ended \in SUBSET SU!Alive
  OBVIOUS
<1> HIDE DEF ended
<1>4. Subs' = [n \in 1..MaxAllocs |-> IF n \in ended THEN SU!None ELSE Subs[n]]
  BY <1>1, <1>2
<1>5. SU!Cease
  BY <1>3, <1>4 DEF SU!Cease
<1> QED
  BY <1>5 DEF SU!Next

\* A subscription with these parts.
Sub(kind, topic, waiting, heard) ==
  [kind |-> kind, topic |-> topic, waiting |-> waiting, heard |-> heard]

\* A change is told to all subscriptions at once.
LEMMA ApplyChangeMaps ==
  ASSUME TypeOK, OwnersMatch, NumbersMatch, NumbersMatch', ApplyChange
  PROVE  SU!Next
<1> DEFINE e == Head(inq).ev
           v == Head(inq).on
<1>0. e \in Events /\ v \in BOOLEAN
  <2>1. Head(inq) \in [ev : Events, on : BOOLEAN]
    BY HeadTailProperties DEF TypeOK, ApplyChange
  <2> QED
    BY <2>1
<1>1. PICK read \in (now - Lag)..now :
        /\ on' = [on EXCEPT ![e] = v]
        /\ notify' = [notify EXCEPT ![e] = @ \cup
             {s \in {r \in Slots : Used(r) /\ read <= slots[r].expire} :
                slots[s].used = "SUB_PULL" /\ e \in slots[s].topic}]
        /\ told' = [s \in Slots |->
             [told[s] EXCEPT ![e] =
                IF s \in {r \in {q \in Slots : Used(q) /\ read <= slots[q].expire} :
                            slots[r].used = "SUB_PUSH"}
                THEN Value(v)
                ELSE IF s \in {r \in Slots \ {q \in Slots : Used(q) /\ read <= slots[q].expire} :
                                 Used(r) /\ IsValue(told[r][e])}
                     THEN "gap" ELSE @]]
        /\ UNCHANGED <<slots, file, allocs, owner>>
  BY DEF ApplyChange
<1> HIDE DEF e, v
<1> DEFINE Late(s) == ~(read <= slots[s].expire)
           late == {n \in SU!Alive : \E s \in Slots : owner[s] = n /\ Late(s)}
<1>2. ASSUME NEW s \in Slots, owner[s] # 0
      PROVE  SubIn(s)' = SU!After(SubIn(s), e, v, owner[s] \in late)
  <2>1. owner[s] \in late <=> Late(s)
    BY <1>2, OwnedAreAlive DEF OwnersMatch
  <2>2. slots[s].used \in {"SUB_PULL", "SUB_PUSH"} /\ slots'[s] = slots[s]
    BY <1>1, <1>2 DEF OwnersMatch, Used, TypeOK, SlotType
  <2>3. told'[s] = [told[s] EXCEPT ![e] =
                      IF slots[s].used = "SUB_PUSH" /\ ~Late(s) THEN Value(v)
                      ELSE IF Late(s) /\ IsValue(told[s][e]) THEN "gap" ELSE told[s][e]]
    BY <1>1, <2>2 DEF Used
  <2>4. told[s] \in [Events -> Told]
    BY DEF TypeOK
  <2>5. {d \in Events : s \in notify'[d]} =
          IF slots[s].used = "SUB_PULL" /\ ~Late(s) /\ e \in slots[s].topic
          THEN {d \in Events : s \in notify[d]} \union {e}
          ELSE {d \in Events : s \in notify[d]}
    BY <1>0, <1>1, <2>2 DEF TypeOK, Used
  <2> HIDE DEF Late, late
  <2> PICK k : k = IF slots[s].used = "SUB_PULL" THEN "pull" ELSE "push"
    OBVIOUS
  <2>6. SubIn(s) = Sub(k, slots[s].topic, Waiting(s), told[s])
    BY DEF SubIn, Sub
  <2>7. CASE Late(s)
    <3>1. told'[s] = [told[s] EXCEPT ![e] = IF IsValue(told[s][e]) THEN "gap" ELSE told[s][e]]
      BY <2>3, <2>7
    <3>2. SubIn(s)' = Sub(k, slots[s].topic, Waiting(s), told'[s])
      BY <2>2, <2>5, <2>7 DEF SubIn, Waiting, Sub
    <3>3. SU!After(Sub(k, slots[s].topic, Waiting(s), told[s]), e, v, TRUE) =
            Sub(k, slots[s].topic, Waiting(s),
                [told[s] EXCEPT ![e] = IF IsValue(told[s][e]) THEN "gap" ELSE told[s][e]])
      BY SameNames DEF SU!After, Sub
    <3>4. (owner[s] \in late) = TRUE
      BY <2>1, <2>7
    <3> QED
      BY <2>6, <3>1, <3>2, <3>3, <3>4
  <2>8. CASE ~Late(s) /\ slots[s].used = "SUB_PUSH"
    <3>1. told'[s] = [told[s] EXCEPT ![e] = Value(v)]
      BY <2>3, <2>8
    <3>2. SubIn(s)' = Sub(k, slots[s].topic, Waiting(s), told'[s])
      BY <2>2, <2>8 DEF SubIn, Waiting, Sub
    <3>3. k = "push"
      BY <2>8
    <3>4. SU!After(Sub(k, slots[s].topic, Waiting(s), told[s]), e, v, FALSE) =
            Sub(k, slots[s].topic, Waiting(s), [told[s] EXCEPT ![e] = Value(v)])
      BY <3>3, SameNames DEF SU!After, Sub
    <3>5. (owner[s] \in late) = FALSE
      BY <2>1, <2>8
    <3> QED
      BY <2>6, <3>1, <3>2, <3>4, <3>5
  <2>9. CASE ~Late(s) /\ slots[s].used = "SUB_PULL"
    <3>1. told'[s] = told[s]
      BY <2>3, <2>4, <2>9
    <3>2. SubIn(s)' = Sub(k, slots[s].topic,
                          IF e \in slots[s].topic THEN Waiting(s) \union {e} ELSE Waiting(s), told[s])
      BY <2>2, <2>5, <2>9, <3>1 DEF SubIn, Waiting, Sub
    <3>3. k = "pull"
      BY <2>9
    <3>4. SU!After(Sub(k, slots[s].topic, Waiting(s), told[s]), e, v, FALSE) =
            Sub(k, slots[s].topic,
                IF e \in slots[s].topic THEN Waiting(s) \union {e} ELSE Waiting(s), told[s])
      BY <3>3, SameNames DEF SU!After, Sub
    <3>5. (owner[s] \in late) = FALSE
      BY <2>1, <2>9
    <3> QED
      BY <2>6, <3>2, <3>4, <3>5
  <2> QED
    BY <2>2, <2>7, <2>8, <2>9
<1>3. late \in SUBSET SU!Alive
  OBVIOUS
<1>4. ASSUME NEW n \in 1..MaxAllocs
      PROVE  Subs'[n] = SU!After(Subs[n], e, v, n \in late)
  <2>1. CASE \E s \in Slots : owner[s] = n
    <3> PICK s \in Slots : owner[s] = n
      BY <2>1
    <3>1. owner[s] # 0 /\ owner'[s] = n
      BY <1>1
    <3>2. Subs'[n] = SubIn(s)' /\ Subs[n] = SubIn(s)
      BY <3>1 DEF NumbersMatch
    <3> QED
      BY <1>2, <3>1, <3>2
  <2>2. CASE \A s \in Slots : owner[s] # n
    <3>1. Subs'[n] = NoSub /\ Subs[n] = NoSub
      BY <1>1, <2>2 DEF NumbersMatch, NoSub, Untold
    <3>2. (n \in late) = FALSE
      BY <2>2
    <3>3. SU!After(NoSub, e, v, FALSE) = NoSub
      BY DEF SU!After, NoSub
    <3> HIDE DEF late
    <3> QED
      BY <3>1, <3>2, <3>3
  <2> QED
    BY <2>1, <2>2
<1> HIDE DEF late
<1>5. Subs' = [n \in 1..MaxAllocs |-> SU!After(Subs[n], e, v, n \in late)]
  <2>1. Subs' = [n \in 1..MaxAllocs |-> Subs'[n]]
    BY DEF NumbersMatch
  <2> QED
    BY <1>4, <2>1
<1>6. SU!Change
  BY <1>0, <1>1, <1>3, <1>5 DEF SU!Change
<1> QED
  BY <1>6 DEF SU!Next

\* What a PullMessages request sends is the first of what waits.
LEMMA SentIsFirst ==
  ASSUME TypeOK, NEW s, NEW limit \in Int, NEW e \in Sent(s, limit),
         NEW d \in Events, s \in notify[d], d < e
  PROVE  d \in Sent(s, limit)
<1> DEFINE Before(x) == {y \in 1..x : s \in notify[y]}
<1>1. d \in Nat /\ e \in Nat
  BY SizesAssumption DEF Sent, Events
<1>2. IsFiniteSet(Before(e)) /\ Before(d) \subseteq Before(e)
  <2>1. IsFiniteSet(1..e)
    BY <1>1, FS_Interval
  <2> QED
    BY <1>1, <2>1, FS_Subset
<1>3. Cardinality(Before(d)) <= Cardinality(Before(e))
  BY <1>2, FS_Subset
<1>4. Cardinality(Before(d)) \in Nat /\ Cardinality(Before(e)) \in Nat
  BY <1>2, FS_Subset, FS_CardinalityType
<1>5. Cardinality(Before(e)) <= limit
  BY DEF Sent
<1> HIDE DEF Before
<1>6. Cardinality(Before(d)) <= limit
  BY <1>3, <1>4, <1>5
<1> QED
  BY <1>6 DEF Sent, Before

\* A step that only changes what waits for one subscription and what its client
\* knows.
LEMMA OneSubBecomes ==
  ASSUME NumbersMatch, OwnersMatch', NumbersMatch', owner' = owner,
         NEW s \in Slots, owner[s] # 0,
         \A r \in Slots \ {s} : owner[r] # 0 => SubIn(r)' = SubIn(r),
         slots'[s].used = slots[s].used, slots'[s].topic = slots[s].topic
  PROVE  /\ owner[s] \in SU!Alive /\ Subs[owner[s]] = SubIn(s)
         /\ SU!Becomes(owner[s], Waiting(s)', told'[s])
<1>1. owner[s] \in SU!Alive /\ Subs[owner[s]] = SubIn(s)
  BY OwnedAreAlive DEF NumbersMatch
<1>2. Subs' = [Subs EXCEPT ![owner[s]] = SubIn(s)']
  <2>1. owner'[s] # 0 /\ owner[s] \in {0, owner'[s]}
    OBVIOUS
  <2> QED
    BY <2>1, OneSubChanges
<1>3. SubIn(s)' = [kind |-> SubIn(s).kind, topic |-> SubIn(s).topic,
                   waiting |-> Waiting(s)', heard |-> told'[s]]
  BY DEF SubIn
<1> QED
  BY <1>1, <1>2, <1>3 DEF SU!Becomes

\* The answer to PullMessages.
LEMMA DeliverMaps ==
  ASSUME TypeOK, RequestsHaveSlots, OwnersMatch, OwnersMatch', NumbersMatch, NumbersMatch',
         PullKeepsItsSlot, NEW c \in Cgi, Deliver(c)
  PROVE  SU!Next
<1>0. cgi[c].slot \in Slots /\ cgi[c].limit \in Int
  BY DEF Deliver, RequestsHaveSlots, TypeOK, CgiType
<1> PICK s \in Slots, limit \in Int, sent \in SUBSET Events :
      s = cgi[c].slot /\ limit = cgi[c].limit /\ sent = Sent(s, limit)
  BY <1>0 DEF Sent
<1>1. owner[s] = cgi[c].sub /\ slots[s].used = "SUB_PULL" /\ owner[s] # 0
  BY DEF Deliver, PullKeepsItsSlot, OwnersMatch, Used
<1>2. /\ told' = [told EXCEPT ![s] = [e \in Events |->
                    IF e \in sent THEN Value(on[e]) ELSE told[s][e]]]
      /\ notify' = [e \in Events |-> IF e \in sent THEN notify[e] \ {s} ELSE notify[e]]
      /\ UNCHANGED <<slots, on, file, allocs, owner>>
  BY <1>1 DEF Deliver
<1>3. sent \subseteq {e \in Events : s \in notify[e]}
  BY DEF Sent
<1>4. \A e \in sent, d \in {x \in Events : s \in notify[x]} : d < e => d \in sent
  BY SentIsFirst
<1>5. \A r \in Slots \ {s} : SubIn(r)' = SubIn(r)
  <2> SUFFICES ASSUME NEW r \in Slots \ {s} PROVE SubIn(r)' = SubIn(r)
    OBVIOUS
  <2>1. \A e \in Events : r \in notify'[e] <=> r \in notify[e]
    BY <1>2
  <2>2. slots'[r] = slots[r] /\ told'[r] = told[r]
    BY <1>2 DEF TypeOK
  <2> QED
    BY <2>1, <2>2, SubInStays
<1> DEFINE n == owner[s]
<1>6. /\ n \in SU!Alive /\ Subs[n] = SubIn(s)
      /\ SU!Becomes(n, Waiting(s)', told'[s])
  BY <1>1, <1>2, <1>5, OneSubBecomes
<1>7. /\ SubIn(s).kind = "pull" /\ SubIn(s).waiting = {e \in Events : s \in notify[e]}
      /\ SubIn(s).heard = told[s]
  BY <1>1 DEF SubIn, Waiting
<1>8. Waiting(s)' = SubIn(s).waiting \ sent
  <2>1. {e \in Events : s \in notify'[e]} = {e \in Events : s \in notify[e]} \ sent
    BY <1>2
  <2> QED
    BY <1>1, <1>2, <1>7, <2>1 DEF Waiting
<1>9. told'[s] = [e \in Events |-> IF e \in sent THEN SU!Value(on[e]) ELSE SubIn(s).heard[e]]
  BY <1>2, <1>7, SameNames DEF TypeOK
<1>10. SU!Becomes(n, Subs[n].waiting \ sent,
                  [e \in Events |-> IF e \in sent THEN SU!Value(on[e]) ELSE Subs[n].heard[e]])
  BY <1>6, <1>8, <1>9
<1>11. sent \in SUBSET Subs[n].waiting /\ Subs[n].kind = "pull"
       /\ \A e \in sent, d \in Subs[n].waiting : d < e => d \in sent
  BY <1>3, <1>4, <1>6, <1>7
<1> HIDE DEF n
<1>12. SU!Pull
  BY <1>2, <1>6, <1>10, <1>11 DEF SU!Pull
<1> QED
  BY <1>12 DEF SU!Next

\* The sync thread at a slot.
LEMMA SyncSlotMaps ==
  ASSUME TypeOK, OwnersMatch, OwnersMatch', NumbersMatch, NumbersMatch', SyncSlot
  PROVE  SU!Next \/ UNCHANGED SU!vars
<1> PICK s \in Slots : s = sync_i
  BY DEF SyncSlot
<1>1. UNCHANGED <<on, notify, file, allocs, owner>>
  BY DEF SyncSlot
<1>2. CASE ~slots[s].sync
  <2>1. UNCHANGED <<slots, told>>
    BY <1>2 DEF SyncSlot
  <2>2. \A r \in Slots : SubIn(r)' = SubIn(r)
    BY <1>1, <2>1, SubInStays
  <2> QED
    BY <1>1, <2>2, SubsStay DEF SU!vars
<1>3. CASE slots[s].sync
  <2>1. /\ slots' = [slots EXCEPT ![s].sync = FALSE]
        /\ told' = [told EXCEPT ![s] = SyncEvents(s)]
    BY <1>3 DEF SyncSlot
  <2>2. /\ slots'[s].used = slots[s].used /\ slots'[s].topic = slots[s].topic
        /\ slots'[s].sync = FALSE /\ told'[s] = SyncEvents(s)
        /\ \A r \in Slots \ {s} : slots'[r] = slots[r] /\ told'[r] = told[r]
    <3>1. slots[s] \in SlotType
      BY DEF TypeOK
    <3> QED
      BY <2>1, <3>1 DEF TypeOK, SlotType
  <2>3. \A r \in Slots \ {s} : SubIn(r)' = SubIn(r)
    BY <1>1, <2>2, SubInStays
  <2>4. CASE owner[s] = 0
    BY <1>1, <2>3, <2>4, SubsStay DEF SU!vars
  <2>5. CASE owner[s] # 0 /\ slots[s].used = "SUB_PULL"
    <3>1. told'[s] = told[s]
      <4>1. told[s] \in [Events -> Told]
        BY DEF TypeOK
      <4> QED
        BY <2>2, <2>5, <4>1 DEF SyncEvents
    <3>2. SubIn(s)' = SubIn(s)
      BY <1>1, <2>2, <2>5, <3>1 DEF SubIn, Waiting
    <3> QED
      BY <1>1, <2>3, <3>2, SubsStay DEF SU!vars
  <2>6. CASE owner[s] # 0 /\ slots[s].used # "SUB_PULL"
    <3> DEFINE n == owner[s]
    <3>1. slots[s].used = "SUB_PUSH"
      BY <2>6 DEF OwnersMatch, Used, TypeOK, SlotType
    <3>2. /\ n \in SU!Alive /\ Subs[n] = SubIn(s)
          /\ SU!Becomes(n, Waiting(s)', told'[s])
      BY <1>1, <2>2, <2>3, <2>6, OneSubBecomes
    <3>3. /\ SubIn(s).kind = "push" /\ SubIn(s).waiting = SubIn(s).topic
          /\ SubIn(s).topic = slots[s].topic /\ SubIn(s).heard = told[s]
      BY <1>3, <3>1 DEF SubIn, Waiting
    <3>4. Waiting(s)' = {}
      BY <2>2, <3>1 DEF Waiting
    <3>5. PICK late \in BOOLEAN : late <=> Expired(s)
      BY DEF Expired
    <3>6. told'[s] = [e \in Events |->
                        IF e \notin SubIn(s).topic THEN SubIn(s).heard[e]
                        ELSE IF late THEN "gap" ELSE SU!Value(file[e])]
      BY <2>2, <3>1, <3>3, <3>5, SameNames DEF SyncEvents
    <3>7. SU!Becomes(n, {}, [e \in Events |->
                        IF e \notin Subs[n].topic THEN Subs[n].heard[e]
                        ELSE IF late THEN "gap" ELSE SU!Value(file[e])])
      BY <3>2, <3>4, <3>6
    <3>8. Subs[n].kind = "push" /\ Subs[n].waiting = Subs[n].topic
      BY <3>2, <3>3
    <3> HIDE DEF n
    <3>9. SU!Push
      BY <1>1, <3>2, <3>7, <3>8 DEF SU!Push
    <3> QED
      BY <3>9 DEF SU!Next
  <2> QED
    BY <2>4, <2>5, <2>6
<1> QED
  BY <1>2, <1>3

\* Marking a slot adds its topics to what waits there, and nothing elsewhere.
LEMMA MarkedWait ==
  ASSUME TypeOK, NEW s \in Slots, notify' = MarkAll(notify, s)
  PROVE  /\ \A r \in Slots \ {s}, e \in Events : r \in notify'[e] <=> r \in notify[e]
         /\ {e \in Events : s \in notify'[e]} =
              {e \in Events : s \in notify[e]} \union slots[s].topic
<1>1. slots[s].topic \subseteq Events
  BY DEF TypeOK, SlotType
<1> QED
  BY <1>1 DEF MarkAll

\* A step after which all of a subscription's topics wait for it.
LEMMA ResendMaps ==
  ASSUME NumbersMatch, OwnersMatch', NumbersMatch', UNCHANGED <<on, file, allocs, owner>>,
         NEW s \in Slots, owner[s] # 0,
         \A r \in Slots \ {s} : SubIn(r)' = SubIn(r),
         slots'[s].used = slots[s].used, slots'[s].topic = slots[s].topic,
         Waiting(s)' = Waiting(s) \union slots[s].topic,
         told'[s] \in {told[s], Answered(told[s])}
  PROVE  SU!Next
<1> DEFINE n == owner[s]
<1>1. /\ n \in SU!Alive /\ Subs[n] = SubIn(s)
      /\ SU!Becomes(n, Waiting(s)', told'[s])
  BY OneSubBecomes
<1>2. /\ SubIn(s).waiting = Waiting(s) /\ SubIn(s).topic = slots[s].topic
      /\ SubIn(s).heard = told[s]
  BY DEF SubIn
<1> HIDE DEF n
<1>3. CASE told'[s] = told[s]
  <2>1. SU!Becomes(n, Subs[n].waiting \union Subs[n].topic, Subs[n].heard)
    BY <1>1, <1>2, <1>3
  <2>2. SU!Resend
    BY <1>1, <2>1 DEF SU!Resend
  <2> QED
    BY <2>2 DEF SU!Next
<1>4. CASE told'[s] = Answered(told[s])
  <2>1. SU!Becomes(n, Subs[n].waiting \union Subs[n].topic, SU!Answered(Subs[n].heard))
    BY <1>1, <1>2, <1>4, SameNames
  <2>2. SU!Complete
    BY <1>1, <2>1 DEF SU!Complete
  <2> QED
    BY <2>2 DEF SU!Next
<1> QED
  BY <1>3, <1>4

\* The second critical section of CreatePullPointSubscription: when the slot was
\* given to somebody else meanwhile, it is theirs that is sent again.
LEMMA ForcePullInitializedMaps ==
  ASSUME TypeOK, RequestsHaveSlots, CreatorsKnowTheirKind, OwnersMatch, OwnersMatch',
         NumbersMatch, NumbersMatch', NEW c \in Cgi, ForcePullInitialized(c)
  PROVE  SU!Next \/ UNCHANGED SU!vars
<1>0. cgi[c].slot \in Slots /\ cgi[c].sub # 0 /\ cgi[c].pc = "create"
  BY DEF ForcePullInitialized, RequestsHaveSlots, CreatorsKnowTheirKind, Creating
<1> PICK s \in Slots : s = cgi[c].slot
  BY <1>0
<1>1. /\ notify' = MarkAll(notify, s)
      /\ told' = IF owner[s] = cgi[c].sub THEN [told EXCEPT ![s] = Answered(told[s])] ELSE told
      /\ UNCHANGED <<slots, on, file, allocs, owner>>
  BY DEF ForcePullInitialized, Answer
<1>2. \A r \in Slots \ {s} : SubIn(r)' = SubIn(r)
  <2>1. \A r \in Slots \ {s} : told'[r] = told[r]
    BY <1>1 DEF TypeOK
  <2> QED
    BY <1>1, <2>1, MarkedWait, SubInStays
<1>3. CASE owner[s] = 0
  BY <1>1, <1>2, <1>3, SubsStay DEF SU!vars
<1>4. CASE owner[s] # 0 /\ slots[s].used = "SUB_PULL"
  <2>1. Waiting(s)' = Waiting(s) \union slots[s].topic
    BY <1>1, <1>4, MarkedWait DEF Waiting
  <2>2. told'[s] \in {told[s], Answered(told[s])}
    BY <1>1 DEF TypeOK
  <2> QED
    BY <1>1, <1>2, <1>4, <2>1, <2>2, ResendMaps
<1>5. CASE owner[s] # 0 /\ slots[s].used # "SUB_PULL"
  <2>1. owner[s] # cgi[c].sub
    BY <1>0, <1>5 DEF CreatorsKnowTheirKind, Creating
  <2>2. SubIn(s)' = SubIn(s)
    BY <1>1, <1>5, <2>1 DEF SubIn, Waiting
  <2> QED
    BY <1>1, <1>2, <2>2, SubsStay DEF SU!vars
<1> QED
  BY <1>3, <1>4, <1>5

\* That of Subscribe.
LEMMA ForcePushSyncMaps ==
  ASSUME TypeOK, RequestsHaveSlots, CreatorsKnowTheirKind, OwnersMatch, OwnersMatch',
         NumbersMatch, NumbersMatch', NEW c \in Cgi, ForcePushSync(c)
  PROVE  SU!Next \/ UNCHANGED SU!vars
<1>0. cgi[c].slot \in Slots /\ cgi[c].sub # 0 /\ cgi[c].pc = "subscribe"
  BY DEF ForcePushSync, RequestsHaveSlots, CreatorsKnowTheirKind, Creating
<1> PICK s \in Slots : s = cgi[c].slot
  BY <1>0
<1>1. /\ slots' = [slots EXCEPT ![s].sync = TRUE]
      /\ told' = IF owner[s] = cgi[c].sub THEN [told EXCEPT ![s] = Answered(told[s])] ELSE told
      /\ UNCHANGED <<on, notify, file, allocs, owner>>
  BY DEF ForcePushSync, Answer
<1>2. /\ slots'[s].used = slots[s].used /\ slots'[s].topic = slots[s].topic
      /\ slots'[s].sync = TRUE
      /\ \A r \in Slots \ {s} : slots'[r] = slots[r] /\ told'[r] = told[r]
  <2>1. slots[s] \in SlotType
    BY DEF TypeOK
  <2> QED
    BY <1>1, <2>1 DEF TypeOK, SlotType
<1>3. \A r \in Slots \ {s} : SubIn(r)' = SubIn(r)
  BY <1>1, <1>2, SubInStays
<1>4. CASE owner[s] = 0
  BY <1>1, <1>3, <1>4, SubsStay DEF SU!vars
<1>5. CASE owner[s] # 0 /\ slots[s].used # "SUB_PULL"
  <2>1. Waiting(s)' = Waiting(s) \union slots[s].topic
    BY <1>2, <1>5 DEF Waiting
  <2>2. told'[s] \in {told[s], Answered(told[s])}
    BY <1>1 DEF TypeOK
  <2> QED
    BY <1>1, <1>2, <1>3, <1>5, <2>1, <2>2, ResendMaps
<1>6. CASE owner[s] # 0 /\ slots[s].used = "SUB_PULL"
  <2>1. owner[s] # cgi[c].sub
    BY <1>0, <1>6 DEF CreatorsKnowTheirKind, Creating
  <2>2. SubIn(s)' = SubIn(s)
    BY <1>1, <1>2, <1>6, <2>1 DEF SubIn, Waiting
  <2> QED
    BY <1>1, <1>3, <2>2, SubsStay DEF SU!vars
<1> QED
  BY <1>4, <1>5, <1>6

\* SetSynchronizationPoint.
LEMMA SynchronizationMaps ==
  ASSUME TypeOK, OwnersMatch, OwnersMatch', NumbersMatch, NumbersMatch', SetSynchronizationPoint
  PROVE  SU!Next \/ UNCHANGED SU!vars
<1> PICK s \in Slots :
      /\ slots' = [slots EXCEPT ![s].sync = TRUE]
      /\ notify' = MarkAll(notify, s)
  BY DEF SetSynchronizationPoint
<1>1. UNCHANGED <<on, file, allocs, owner, told>>
  BY DEF SetSynchronizationPoint
<1>2. /\ slots'[s].used = slots[s].used /\ slots'[s].topic = slots[s].topic
      /\ slots'[s].sync = TRUE
      /\ \A r \in Slots \ {s} : slots'[r] = slots[r]
  <2>1. slots[s] \in SlotType
    BY DEF TypeOK
  <2> QED
    BY <2>1 DEF TypeOK, SlotType
<1>3. \A r \in Slots \ {s} : SubIn(r)' = SubIn(r)
  BY <1>1, <1>2, MarkedWait, SubInStays
<1>4. CASE owner[s] = 0
  BY <1>1, <1>3, <1>4, SubsStay DEF SU!vars
<1>5. CASE owner[s] # 0
  <2>1. Waiting(s)' = Waiting(s) \union slots[s].topic
    BY <1>2, MarkedWait DEF Waiting
  <2> QED
    BY <1>1, <1>2, <1>3, <1>5, <2>1, ResendMaps
<1> QED
  BY <1>4, <1>5

\* Ends, the clock, requests that begin, poll or die, and what the daemon has
\* seen and not applied are nothing the subscriber is promised.
LEMMA QuietSteps ==
  ASSUME TypeOK, NumbersMatch, NumbersMatch',
         \/ \E c \in Cgi : StartPull(c) \/ EndPoll(c) \/ SetTermination(c) \/ CgiDies(c)
         \/ Renew \/ Tick \/ (\E e \in Events : PollFile(e) \/ Toggle(e)) \/ UNCHANGED vars
  PROVE  Subs' = Subs /\ UNCHANGED <<on, allocs>>
<1>1. UNCHANGED <<on, notify, allocs, owner, told>>
  BY DEF StartPull, EndPoll, SetTermination, CgiDies, Renew, Tick, PollFile, Toggle, vars
<1>2. slots' = slots \/ \E s : \E end : slots' = [slots EXCEPT ![s].expire = end]
  <2>1. ASSUME NEW c \in Cgi, StartPull(c)
        PROVE  \E s : \E end : slots' = [slots EXCEPT ![s].expire = end]
    BY <2>1 DEF StartPull
  <2>2. ASSUME NEW c \in Cgi, SetTermination(c)
        PROVE  \E s : \E end : slots' = [slots EXCEPT ![s].expire = end]
    BY <2>2 DEF SetTermination
  <2>3. CASE Renew
    BY <2>3 DEF Renew
  <2>4. ASSUME NEW c \in Cgi, EndPoll(c) \/ CgiDies(c) PROVE slots' = slots
    BY <2>4 DEF EndPoll, CgiDies
  <2>5. CASE Tick \/ (\E e \in Events : PollFile(e) \/ Toggle(e)) \/ UNCHANGED vars
    BY <2>5 DEF Tick, PollFile, Toggle, vars
  <2> QED
    BY <2>1, <2>2, <2>3, <2>4, <2>5
<1>3. \A r \in Slots :
        slots'[r].used = slots[r].used /\ slots'[r].topic = slots[r].topic
          /\ slots'[r].sync = slots[r].sync
  <2> SUFFICES ASSUME NEW r \in Slots
               PROVE  slots'[r].used = slots[r].used /\ slots'[r].topic = slots[r].topic
                        /\ slots'[r].sync = slots[r].sync
    OBVIOUS
  <2>1. slots[r] \in SlotType
    BY DEF TypeOK
  <2>2. slots'[r] = slots[r] \/ \E end : slots'[r] = [slots[r] EXCEPT !.expire = end]
    BY <1>2 DEF TypeOK
  <2> QED
    BY <2>1, <2>2 DEF SlotType
<1>4. \A r \in Slots : SubIn(r)' = SubIn(r)
  BY <1>1, <1>3, SubInStays
<1> QED
  BY <1>1, <1>4, SubsStay

\* Every step is one of a subscription, of a file, or none.
LEMMA StepMaps ==
  ASSUME TypeOK, TypeOK', RequestsHaveSlots, CreatorsKnowTheirKind, PullKeepsItsSlot,
         OwnersMatch, OwnersMatch', [Next]_vars
  PROVE  [SU!Next]_SU!vars
<1>0. NumbersMatch /\ NumbersMatch'
  BY NumbersAreOwned, NumbersAreOwnedNext
<1>1. ASSUME NEW c \in Cgi, CreatePullPoint(c) \/ Subscribe(c) PROVE SU!Next
  <2>1. PICK kind, pc, expire : \E topic \in Expressions :
          kind \in {"SUB_PULL", "SUB_PUSH"} /\ Allocate(c, kind, pc, topic, expire)
    BY <1>1 DEF CreatePullPoint, Subscribe
  <2> QED
    BY <1>0, <2>1, AllocateMaps
<1>2. CASE Unsubscribe
  <2>1. PICK s \in Slots : Blank({s})
    BY <1>2 DEF Unsubscribe
  <2>2. UNCHANGED <<on, notify, file, allocs>>
    BY <1>2 DEF Unsubscribe
  <2> QED
    BY <1>0, <2>1, <2>2, BlankMaps
<1>3. CASE CleanExpired
  <2>1. /\ Blank({s \in Slots : slots[s].expire # 0 /\ Expired(s)})
        /\ UNCHANGED <<on, notify, file, allocs>>
    BY <1>3 DEF CleanExpired
  <2> QED
    BY <1>0, <2>1, BlankMaps
<1>4. ASSUME NEW e \in Events, Toggle(e) PROVE SU!Next
  <2>1. Subs' = Subs /\ UNCHANGED <<on, allocs>>
    BY <1>0, <1>4, QuietSteps
  <2>2. SU!Flip
    BY <1>4, <2>1 DEF SU!Flip, Toggle
  <2> QED
    BY <2>2 DEF SU!Next
<1>5. ASSUME \/ \E c \in Cgi : StartPull(c) \/ EndPoll(c) \/ SetTermination(c) \/ CgiDies(c)
             \/ Renew \/ Tick \/ (\E e \in Events : PollFile(e)) \/ UNCHANGED vars
      PROVE  UNCHANGED SU!vars
  <2>1. Subs' = Subs /\ UNCHANGED <<on, allocs>>
    BY <1>0, <1>5, QuietSteps
  <2>2. file' = file
    BY <1>5 DEF StartPull, EndPoll, SetTermination, CgiDies, Renew, Tick, PollFile, vars
  <2> QED
    BY <2>1, <2>2 DEF SU!vars
<1>6. ASSUME NEW c \in Cgi, ForcePullInitialized(c) \/ ForcePushSync(c) \/ Deliver(c)
      PROVE  SU!Next \/ UNCHANGED SU!vars
  BY <1>0, <1>6, ForcePullInitializedMaps, ForcePushSyncMaps, DeliverMaps
<1>7. CASE ApplyChange
  BY <1>0, <1>7, ApplyChangeMaps
<1>8. CASE SyncSlot
  BY <1>0, <1>8, SyncSlotMaps
<1>9. CASE SetSynchronizationPoint
  BY <1>0, <1>9, SynchronizationMaps
<1> QED
  BY <1>1, <1>2, <1>3, <1>4, <1>5, <1>6, <1>7, <1>8, <1>9 DEF Next, Request

\* The daemon starts with no subscriptions.
LEMMA InitMaps == Init => OwnersMatch /\ SU!Init
<1> SUFFICES ASSUME Init PROVE OwnersMatch /\ SU!Init
  OBVIOUS
<1>1. OwnersMatch
  BY DEF Init, OwnersMatch, Used, BlankSlot
<1>2. NumbersMatch
  BY <1>1, InitTypes, NumbersAreOwned
<1>3. \A n \in 1..MaxAllocs : Subs[n] = SU!None
  BY <1>2, SameNames DEF Init, NumbersMatch
<1>4. Subs = [n \in 1..MaxAllocs |-> SU!None]
  BY <1>2, <1>3 DEF NumbersMatch
<1>5. 1..allocs = {}
  BY DEF Init
<1>6. file \in [Events -> BOOLEAN] /\ on = [e \in Events |-> FALSE]
  BY RequestsAssumption DEF Init
<1> QED
  BY <1>1, <1>4, <1>5, <1>6 DEF SU!Init

-----------------------------------------------------------------------------
(* The theorems. *)

\* Every reachable state of the table, the daemon and the requests is well
\* typed, and a request under way works on a slot of the table.
THEOREM TypesHold == Spec => [](TypeOK /\ RequestsHaveSlots)
<1>1. TypeOK /\ RequestsHaveSlots /\ [Next]_vars => (TypeOK /\ RequestsHaveSlots)'
  BY NextTypes
<1> QED
  BY InitTypes, <1>1, PTL DEF Spec

\* As long as fewer subscriptions were created than there are ids, the id in a
\* query string names one subscription.
THEOREM IdsDiffer == Spec => []UsedIdsDiffer
<1> DEFINE Inv == TypeOK /\ RequestsHaveSlots /\ UsedIdsDiffer /\ IdsFollowAllocs
<1>1. Init => Inv
  BY InitTypes, BoundsAssumption
     DEF Init, UsedIdsDiffer, IdsFollowAllocs, Used, BlankSlot
<1>2. Inv /\ [Next]_vars => Inv'
  BY NextTypes, NextIds
<1> QED
  BY <1>1, <1>2, PTL DEF Spec

\* A push client that was answered and heard nothing is still due its first
\* messages, whoever takes and frees slots meanwhile.
THEOREM NewPushesAreDue == Spec => []NewPushIsDue
<1> DEFINE Inv == TypeOK /\ RequestsHaveSlots /\ CreatorsKnowTheirKind /\ NewPushIsDue
<1>1. Init => Inv
  BY InitTypes DEF Init, CreatorsKnowTheirKind, NewPushIsDue, Creating, BlankSlot, IdleCgi
<1>2. Inv /\ [Next]_vars => Inv'
  BY NextTypes, NextCreators, NextPushDue
<1> QED
  BY <1>1, <1>2, PTL DEF Spec

\* When clients send one request at a time for a subscription and the Timeout
\* and the 10 s margin exceed the delays of the schedule, a PullMessages request
\* keeps the slot it found until it has answered.
THEOREM PullsKeepTheirSlots ==
  ASSUME ClientsBehave
  PROVE  Spec => []PullKeepsItsSlot
<1> DEFINE Inv == TypeOK /\ RequestsHaveSlots /\ PullInv
<1>1. Init => Inv
  BY InitTypes
     DEF Init, PullInv, PullKeepsItsSlot, PullsAreInTime, PullsAreApart, Active, IdleCgi
<1>2. Inv /\ [Next]_vars => Inv'
  BY NextTypes, NextPull
<1>3. Inv => PullKeepsItsSlot
  BY DEF PullInv
<1> QED
  BY <1>1, <1>2, <1>3, PTL DEF Spec

\* Under the same assumption no message of a pull subscription is lost.
THEOREM NoMessageIsLost ==
  ASSUME ClientsBehave
  PROVE  Spec => []NoLostMessage
<1> DEFINE Inv == TypeOK /\ RequestsHaveSlots /\ CreatorsKnowTheirKind /\ PullKeepsItsSlot
                    /\ NoLostMessage
<1>1. Spec => []PullKeepsItsSlot
  BY PullsKeepTheirSlots
<1>2. Spec => [](TypeOK /\ RequestsHaveSlots)
  BY TypesHold
<1>3. Init => CreatorsKnowTheirKind /\ NoLostMessage
  <2>1. Init => CreatorsKnowTheirKind
    BY DEF Init, CreatorsKnowTheirKind, Creating, IdleCgi
  <2>2. Init => NoLostMessage
    BY DEF Init, NoLostMessage, BlankSlot
  <2> QED
    BY <2>1, <2>2
<1>4. Inv /\ [Next]_vars => CreatorsKnowTheirKind' /\ NoLostMessage'
  BY NextCreators, NextMessages
<1> QED
  BY <1>1, <1>2, <1>3, <1>4, PTL DEF Spec

\* Under the same assumption, and with every change of a file recorded, clients
\* are up to date as soon as the records are read, pull and push alike.
THEOREM ClientsAreUpToDate ==
  ASSUME ClientsBehave, EveryChangeIsRecorded
  PROVE  Spec => []ClientsUpToDate
<1> DEFINE Known == TypeOK /\ RequestsHaveSlots /\ PullKeepsItsSlot
           Inv == CreatorsKnowTheirKind /\ RecordsFollowFiles /\ PushesAreUpToDate
<1>1. Spec => []PullKeepsItsSlot
  BY PullsKeepTheirSlots
<1>2. Spec => [](TypeOK /\ RequestsHaveSlots)
  BY TypesHold
<1>3. Spec => []NoLostMessage
  BY NoMessageIsLost
<1>4. Init => Inv
  <2> SUFFICES ASSUME Init PROVE Inv
    OBVIOUS
  <2>1. CreatorsKnowTheirKind
    BY DEF Init, CreatorsKnowTheirKind, Creating, IdleCgi
  <2>2. RecordsFollowFiles
    <3>1. \A e \in Events : on[e] = file[e]
      <4> SUFFICES ASSUME NEW e \in Events PROVE on[e] = file[e]
        OBVIOUS
      <4>1. on[e] = FALSE
        BY DEF Init
      <4>2. file[e] \in BOOLEAN /\ ~file[e]
        BY RequestsAssumption DEF Init, EveryChangeIsRecorded
      <4>3. file[e] = FALSE
        BY <4>2
      <4> QED
        BY <4>1, <4>3
    <3>2. 1..Len(inq) = {}
      BY DEF Init
    <3> QED
      BY <3>1, <3>2, Zenon DEF RecordsFollowFiles
  <2>3. PushesAreUpToDate
    BY DEF Init, PushesAreUpToDate, BlankSlot
  <2> QED
    BY <2>1, <2>2, <2>3
<1>5. Known /\ Inv /\ [Next]_vars => Inv'
  BY NextCreators, NextRecords, NextPushesUpToDate DEF EveryChangeIsRecorded
<1>6. Known /\ Inv /\ NoLostMessage => ClientsUpToDate
  <2> SUFFICES ASSUME Known, Inv, NoLostMessage, NEW s \in Slots, NEW e \in Events,
                      Used(s), e \in slots[s].topic, IsValue(told[s][e]), ~Pending(e),
                      ~(slots[s].used = "SUB_PULL" /\ s \in notify[e])
               PROVE  told[s][e] = Value(file[e])
    BY DEF ClientsUpToDate, IsValue
  <2>1. CASE slots[s].used = "SUB_PULL"
    <3>1. on[e] = file[e]
      BY DEF RecordsFollowFiles, Pending
    <3> QED
      BY <2>1, <3>1 DEF NoLostMessage
  <2>2. CASE slots[s].used = "SUB_PUSH"
    BY <2>2 DEF PushesAreUpToDate
  <2>3. slots[s].used \in {"SUB_PULL", "SUB_PUSH"}
    BY DEF Used, TypeOK, SlotType
  <2> QED
    BY <2>1, <2>2, <2>3
<1> QED
  BY <1>1, <1>2, <1>3, <1>4, <1>5, <1>6, PTL DEF Spec

\* Under the same assumption the table, with slots that are used again, masks
\* whose bits outlive a subscription and requests that go on working on a slot
\* they once found, gives each subscriber what Subscriptions says: messages of
\* its own, that only its own requests take away.
THEOREM SubscriptionsAreImplemented ==
  ASSUME ClientsBehave
  PROVE  Spec => ImplementsSubscriptions
<1> DEFINE Known == TypeOK /\ RequestsHaveSlots /\ PullKeepsItsSlot
           Inv == CreatorsKnowTheirKind /\ OwnersMatch
<1>1. Spec => []PullKeepsItsSlot
  BY PullsKeepTheirSlots
<1>2. Spec => [](TypeOK /\ RequestsHaveSlots)
  BY TypesHold
<1>3. Init => Inv /\ SU!Init
  BY InitMaps DEF Init, CreatorsKnowTheirKind, Creating, IdleCgi
<1>4. Known /\ Inv /\ [Next]_vars => Inv'
  BY NextCreators, NextOwners
<1>5. Known /\ Known' /\ Inv /\ Inv' /\ [Next]_vars => [SU!Next]_SU!vars
  BY StepMaps
<1> QED
  BY <1>1, <1>2, <1>3, <1>4, <1>5, PTL DEF Spec, ImplementsSubscriptions, SU!Spec

=============================================================================
