--------------------------- MODULE WsDiscoveryProofs ---------------------------
(***************************************************************************)
(* Proofs about WsDiscovery for any number of daemons and of Probes: IInv  *)
(* is inductive. The safety properties follow from it, and the two action  *)
(* properties from it and one step.                                        *)
(***************************************************************************)
EXTENDS WsDiscovery, TLAPS

\* Nobody runs.
LEMMA InitIInv == Init => IInv
<1> SUFFICES ASSUME Init PROVE IInv
  OBVIOUS
<1>1. TypeOK
  BY DEF Init, TypeOK, PcValues, Families, Kinds, NoMessage, Unsaid, Byes
<1>2. \A d \in Daemons : pc[d] = "off" /\ ~Running(d)
  BY DEF Init, Running
<1>3. OneRuns /\ PidFileNames /\ ClosedAfterBye /\ HasSocket /\ ExitAfterBye /\ ByeToAll /\ EndsWithBye
  BY <1>2 DEF OneRuns, PidFileNames, ClosedAfterBye, HasSocket, ExitAfterBye, ByeToAll, EndsWithBye, Loop
<1>4. Silent /\ Addressed /\ AnswersCarryAnAddress /\ Numbered
  BY <1>2 DEF Silent, Addressed, AnswersCarryAnAddress, Numbered, Loop
<1> QED
  BY <1>1, <1>3, <1>4 DEF IInv

-----------------------------------------------------------------------------
(* Types. *)

\* What a step does to a daemon, of the well-typed values it can have.
LEMMA StepType ==
  ASSUME TypeOK, NEW d \in Daemons, CheckPid(d) \/ Main(d) \/ SelectReady(d) \/ SignalHandler(d) \/ Dies(d)
  PROVE  TypeOK'
<1>1. CASE CheckPid(d)
  <2>1. pc' \in [Daemons -> PcValues]
    BY <1>1 DEF TypeOK, CheckPid, Goto, PcValues
  <2>2. /\ NoMessage \in [kind : Kinds, number : Nat, family : Families]
        /\ Unsaid \in [Families -> Byes] /\ "v4" \in Families
    BY DEF NoMessage, Kinds, Families, Unsaid, Byes
  <2> QED
    BY <1>1, <2>1, <2>2 DEF TypeOK, CheckPid
<1>7. CASE CreatePid(d) \/ StartFails(d)
  BY <1>7 DEF TypeOK, CreatePid, StartFails, Goto, PcValues
<1>8. CASE OpenSocket(d)
  BY <1>8 DEF TypeOK, OpenSocket, Goto, PcValues
<1>9. CASE JoinGroups(d)
  <2>1. pc' \in [Daemons -> PcValues]
    BY <1>9 DEF TypeOK, JoinGroups, Goto, PcValues
  <2>2. \A joined \in {addr[d], addr[d] \ {"v6"}} : joined \in SUBSET Families
    BY DEF TypeOK
  <2>3. addr' \in [Daemons -> SUBSET Families]
    BY <1>9, <2>2 DEF TypeOK, JoinGroups
  <2>4. UNCHANGED <<pidfile, sock, number, out, to, exit_main, last, announced, bye>>
    BY <1>9 DEF JoinGroups
  <2> QED
    BY <2>1, <2>3, <2>4 DEF TypeOK
<1>2. CASE NumberHello4(d) \/ NumberHello6(d)
  <2>1. pc' \in [Daemons -> PcValues]
    BY <1>2 DEF TypeOK, NumberHello4, NumberHello6, Goto, PcValues
  <2>2. number' \in [Daemons -> Nat] /\ out' \in [Daemons -> Nat]
    <3>1. number[d] + 1 \in Nat
      BY DEF TypeOK
    <3>2. CASE NumberHello4(d)
      BY <3>2 DEF TypeOK, NumberHello4
    <3>3. CASE NumberHello6(d)
      BY <3>1, <3>3 DEF TypeOK, NumberHello6
    <3> QED
      BY <1>2, <3>2, <3>3
  <2>3. UNCHANGED <<pidfile, sock, addr, to, exit_main, last, announced, bye>>
    BY <1>2 DEF NumberHello4, NumberHello6
  <2> QED
    BY <2>1, <2>2, <2>3 DEF TypeOK
<1>3. CASE SendHello4(d) \/ SendHello6(d) \/ SendProbeMatches(d)
  <2>1. pc' \in [Daemons -> PcValues]
    BY <1>3 DEF TypeOK, SendHello4, SendHello6, SendProbeMatches, Goto, PcValues
  <2>2. \A kind \in Kinds, family \in Families :
          Message(kind, out[d], family) \in [kind : Kinds, number : Nat, family : Families]
    BY DEF TypeOK, Message
  <2>3. last' \in [Daemons -> [kind : Kinds, number : Nat, family : Families]]
    BY <1>3, <2>2 DEF TypeOK, SendHello4, SendHello6, SendHello, SendProbeMatches, Kinds, Families
  <2>4. announced' \in [Daemons -> SUBSET Families]
    BY <1>3 DEF TypeOK, SendHello4, SendHello6, SendHello, SendProbeMatches, Families
  <2> QED
    BY <1>3, <2>1, <2>3, <2>4 DEF TypeOK, SendHello4, SendHello6, SendProbeMatches
<1>4. CASE EnterLoop(d) \/ TestExit(d) \/ Arm(d) \/ EnterSelect(d)
  BY <1>4 DEF TypeOK, EnterLoop, TestExit, Arm, EnterSelect, Goto, PcValues
<1>10. CASE SelectReady(d) \/ IgnoreDatagram(d) \/ CloseSocket(d) \/ UnlinkPid(d) \/ Dies(d)
  BY <1>10 DEF TypeOK, SelectReady, IgnoreDatagram, CloseSocket, UnlinkPid, Dies, Goto, PcValues
<1>5. CASE HandleProbe(d)
  BY <1>5 DEF TypeOK, HandleProbe, Goto, PcValues, Families
<1>6. CASE SignalHandler(d)
  <2>1. pc' \in [Daemons -> PcValues]
    BY <1>6 DEF TypeOK, SignalHandler, Interrupt, PcValues
  <2>2. CASE sock[d] = "open"
    <3>1. PICK said \in SUBSET ByesTo(d) : SendByes(d, said)
      BY <1>6, <2>2 DEF SignalHandler
    <3>2. number' \in [Daemons -> Nat]
      BY <3>1 DEF TypeOK, SendByes
    <3>3. last' \in [Daemons -> [kind : Kinds, number : Nat, family : Families]]
      <4>1. Message("Bye", number[d] + 2, "v6") \in [kind : Kinds, number : Nat, family : Families]
        BY DEF TypeOK, Message, Kinds, Families
      <4>2. Message("Bye", number[d] + 1, "v4") \in [kind : Kinds, number : Nat, family : Families]
        BY DEF TypeOK, Message, Kinds, Families
      <4> QED
        BY <3>1, <4>1, <4>2 DEF TypeOK, SendByes
    <3>4. bye' \in [Daemons -> [Families -> Byes]]
      BY <3>1 DEF TypeOK, SendByes, Byes
    <3> QED
      BY <1>6, <2>1, <2>2, <3>2, <3>3, <3>4 DEF TypeOK, SignalHandler
  <2>3. CASE sock[d] # "open"
    BY <1>6, <2>1, <2>3 DEF TypeOK, SignalHandler
  <2> QED
    BY <2>2, <2>3
<1> QED
  BY <1>1, <1>2, <1>3, <1>4, <1>5, <1>6, <1>7, <1>8, <1>9, <1>10 DEF Main

-----------------------------------------------------------------------------
(* The pid file. *)

\* A step of one daemon moves no other.
LEMMA OthersStay ==
  ASSUME TypeOK, NEW d \in Daemons, CheckPid(d) \/ Main(d) \/ SelectReady(d) \/ SignalHandler(d) \/ Dies(d)
  PROVE  \A e \in Daemons \ {d} :
           /\ pc'[e] = pc[e] /\ sock'[e] = sock[e] /\ addr'[e] = addr[e] /\ number'[e] = number[e]
           /\ out'[e] = out[e] /\ to'[e] = to[e] /\ exit_main'[e] = exit_main[e]
           /\ last'[e] = last[e] /\ announced'[e] = announced[e] /\ bye'[e] = bye[e]
<1> USE DEF TypeOK, Goto
<1>1. CASE CheckPid(d) \/ CreatePid(d) \/ StartFails(d) \/ OpenSocket(d) \/ JoinGroups(d)
  BY <1>1 DEF CheckPid, CreatePid, StartFails, OpenSocket, JoinGroups
<1>2. CASE NumberHello4(d) \/ NumberHello6(d) \/ SendHello4(d) \/ SendHello6(d)
  BY <1>2 DEF NumberHello4, NumberHello6, SendHello4, SendHello6, SendHello
<1>3. CASE EnterLoop(d) \/ TestExit(d) \/ Arm(d) \/ EnterSelect(d) \/ SelectReady(d) \/ IgnoreDatagram(d)
  BY <1>3 DEF EnterLoop, TestExit, Arm, EnterSelect, SelectReady, IgnoreDatagram
<1>4. CASE HandleProbe(d) \/ SendProbeMatches(d) \/ CloseSocket(d) \/ UnlinkPid(d) \/ Dies(d)
  BY <1>4 DEF HandleProbe, SendProbeMatches, CloseSocket, UnlinkPid, Dies
<1>5. CASE SignalHandler(d)
  BY <1>5 DEF SignalHandler, SendByes, Interrupt
<1> QED
  BY <1>1, <1>2, <1>3, <1>4, <1>5 DEF Main

\* Only CheckPid starts a daemon, and only CreatePid takes one past create.
LEMMA Starts ==
  ASSUME TypeOK, NEW d \in Daemons, Main(d) \/ SelectReady(d) \/ SignalHandler(d) \/ Dies(d)
  PROVE  /\ Running(d)
         /\ Running(d)' /\ pc'[d] # "create" => pidfile' = pidfile \/ CreatePid(d)
         /\ pc[d] = "create" => pc'[d] \in {"create", "off"} \/ CreatePid(d)
         /\ pidfile' = pidfile \/ pidfile' = d \/ ~Running(d)'
<1> USE DEF TypeOK, Goto, Running
<1>1. CASE CreatePid(d) \/ StartFails(d) \/ OpenSocket(d) \/ JoinGroups(d)
  BY <1>1 DEF CreatePid, StartFails, OpenSocket, JoinGroups
<1>2. CASE NumberHello4(d) \/ NumberHello6(d) \/ SendHello4(d) \/ SendHello6(d)
  BY <1>2 DEF NumberHello4, NumberHello6, SendHello4, SendHello6
<1>3. CASE EnterLoop(d) \/ TestExit(d) \/ Arm(d) \/ EnterSelect(d) \/ SelectReady(d) \/ IgnoreDatagram(d)
  BY <1>3 DEF EnterLoop, TestExit, Arm, EnterSelect, SelectReady, IgnoreDatagram
<1>4. CASE HandleProbe(d) \/ SendProbeMatches(d) \/ CloseSocket(d) \/ UnlinkPid(d) \/ Dies(d)
  BY <1>4 DEF HandleProbe, SendProbeMatches, CloseSocket, UnlinkPid, Dies
<1>5. CASE SignalHandler(d)
  BY <1>5 DEF SignalHandler, Interrupt
<1> QED
  BY <1>1, <1>2, <1>3, <1>4, <1>5 DEF Main

\* A daemon that starts finds nobody running; the others go on alone.
LEMMA StepPidFile ==
  ASSUME IInv, NEW d \in Daemons, CheckPid(d) \/ Main(d) \/ SelectReady(d) \/ SignalHandler(d) \/ Dies(d)
  PROVE  OneRuns' /\ PidFileNames'
<1> SUFFICES ASSUME SerialStarts PROVE OneRuns' /\ PidFileNames'
  BY DEF OneRuns, PidFileNames
<1>1. TypeOK /\ OneRuns /\ PidFileNames
  BY DEF IInv
<1>2. CASE CheckPid(d)
  <2>1. \A e \in Daemons : ~Running(e)
    <3>1. \A e \in Daemons : pc[e] # "create"
      BY <1>2 DEF CheckPid
    <3>2. \A e \in Daemons : Running(e) => pidfile = e
      BY <1>1, <3>1 DEF PidFileNames, Running
    <3> QED
      BY <1>2, <3>2 DEF CheckPid
  <2>2. \A e \in Daemons \ {d} : ~Running(e)'
    BY <1>1, <1>2, <2>1, OthersStay DEF Running
  <2>3. pc'[d] = "create"
    BY <1>1, <1>2 DEF CheckPid, Goto, TypeOK
  <2> QED
    BY <2>2, <2>3 DEF OneRuns, PidFileNames, Running
<1>3. CASE Main(d) \/ SelectReady(d) \/ SignalHandler(d) \/ Dies(d)
  <2>1. \A e \in Daemons \ {d} : ~Running(e)
    BY <1>1, <1>3, Starts DEF OneRuns
  <2>2. \A e \in Daemons \ {d} : ~Running(e)'
    BY <1>1, <2>1, OthersStay DEF Running
  <2>3. pc'[d] \notin {"off", "create"} => pidfile' = d
    <3>1. CASE CreatePid(d)
      BY <3>1 DEF CreatePid
    <3>2. CASE ~CreatePid(d)
      BY <1>1, <1>3, <3>2, Starts DEF PidFileNames, Running
    <3> QED
      BY <3>1, <3>2
  <2> QED
    BY <2>2, <2>3 DEF OneRuns, PidFileNames, Running
<1> QED
  BY <1>2, <1>3

-----------------------------------------------------------------------------
(* Bye. *)

\* The handler on an open socket tries a Bye for every family that has an
\* address, and for IPv4.
LEMMA HandlerLeaves ==
  ASSUME TypeOK, NEW d \in Daemons, SignalHandler(d), sock[d] = "open"
  PROVE  /\ HasLeft(d)' /\ sock'[d] = "closed" /\ announced' = announced /\ addr' = addr
         /\ \A family \in addr[d] : bye'[d][family] # "unsaid"
         /\ \/ (\E family \in Families : bye'[d][family] = "said") /\ last'[d].kind = "Bye"
            \/ (\A family \in Families : bye'[d][family] # "said") /\ last'[d] = last[d]
<1>1. PICK said \in SUBSET ByesTo(d) : SendByes(d, said)
  BY DEF SignalHandler
<1>2. said \in SUBSET Families /\ addr[d] \subseteq ByesTo(d) /\ "v4" \in ByesTo(d) /\ "v4" \in Families
      /\ said \subseteq ByesTo(d)
  BY DEF TypeOK, ByesTo, Families
<1>3. \A family \in Families :
        bye'[d][family] = IF family \in said THEN "said" ELSE IF family \in ByesTo(d) THEN "lost" ELSE "unsaid"
  BY <1>1 DEF TypeOK, SendByes
<1>4. HasLeft(d)'
  BY <1>2, <1>3 DEF HasLeft
<1>5. \A family \in addr[d] : bye'[d][family] # "unsaid"
  BY <1>2, <1>3 DEF TypeOK
<1>6. CASE said = {}
  BY <1>1, <1>3, <1>4, <1>5, <1>6 DEF SendByes, SignalHandler, TypeOK
<1>7. CASE said # {}
  <2>1. "v6" \in said \/ said = {"v4"}
    BY <1>2, <1>7 DEF Families
  <2>2. last'[d].kind = "Bye"
    BY <1>1, <2>1 DEF SendByes, Message, TypeOK
  <2>3. \E family \in Families : bye'[d][family] = "said"
    BY <1>2, <1>3, <1>7
  <2> QED
    BY <1>4, <1>5, <2>2, <2>3 DEF SignalHandler, TypeOK
<1> QED
  BY <1>6, <1>7

\* The socket and the Bye, for the daemon that takes the step.
LEMMA StepBye ==
  ASSUME IInv, NEW d \in Daemons, CheckPid(d) \/ Main(d) \/ SelectReady(d) \/ SignalHandler(d) \/ Dies(d)
  PROVE  /\ Running(d)' => (sock'[d] = "closed" <=> HasLeft(d)')
         /\ Running(d)' => (sock'[d] = "none" <=> pc'[d] \in {"create", "setup"})
         /\ (pc'[d] \in Loop /\ exit_main'[d]) => HasLeft(d)'
         /\ pc'[d] \in {"close", "unlink"} => HasLeft(d)'
<1>0. TypeOK
  BY DEF IInv
<1> DEFINE before ==
      /\ Running(d) => (sock[d] = "closed" <=> HasLeft(d))
      /\ Running(d) => (sock[d] = "none" <=> pc[d] \in {"create", "setup"})
      /\ (pc[d] \in Loop /\ exit_main[d]) => HasLeft(d)
      /\ pc[d] \in {"close", "unlink"} => HasLeft(d)
<1>b. before
  BY DEF IInv, ClosedAfterBye, HasSocket, ExitAfterBye, EndsWithBye
<1>1. CASE CheckPid(d)
  <2>1. pc'[d] = "create" /\ sock'[d] = "none" /\ bye'[d] = Unsaid
    BY <1>0, <1>1 DEF TypeOK, CheckPid, Goto
  <2> QED
    BY <2>1 DEF HasLeft, Unsaid, Families, Loop
<1>2. CASE StartFails(d) \/ Dies(d) \/ UnlinkPid(d)
  BY <1>0, <1>2 DEF TypeOK, StartFails, Dies, UnlinkPid, Goto, Running, Loop
<1>u. bye' = bye => HasLeft(d)' = HasLeft(d)
  BY DEF HasLeft
<1>3. CASE CreatePid(d) \/ JoinGroups(d) \/ NumberHello4(d) \/ NumberHello6(d)
  BY <1>0, <1>b, <1>u, <1>3
     DEF TypeOK, CreatePid, JoinGroups, NumberHello4, NumberHello6, Goto, Running, Loop
<1>4. CASE OpenSocket(d)
  BY <1>0, <1>b, <1>u, <1>4 DEF TypeOK, OpenSocket, Goto, Running, Loop
<1>5. CASE SendHello4(d) \/ SendHello6(d)
  BY <1>0, <1>b, <1>u, <1>5
     DEF TypeOK, SendHello4, SendHello6, Goto, Running, Loop
<1>6. CASE EnterLoop(d) \/ TestExit(d) \/ Arm(d) \/ EnterSelect(d)
  BY <1>0, <1>b, <1>u, <1>6 DEF TypeOK, EnterLoop, TestExit, Arm, EnterSelect, Goto, Running, Loop
<1>7. CASE SelectReady(d) \/ IgnoreDatagram(d) \/ HandleProbe(d) \/ CloseSocket(d)
  BY <1>0, <1>b, <1>u, <1>7
     DEF TypeOK, SelectReady, IgnoreDatagram, HandleProbe, CloseSocket, Goto, Running, Loop
<1>8. CASE SendProbeMatches(d)
  BY <1>0, <1>b, <1>u, <1>8 DEF TypeOK, SendProbeMatches, Goto, Running, Loop
<1>9. CASE SignalHandler(d)
  <2>1. /\ Running(d) /\ Running(d)'
        /\ pc'[d] = pc[d] \/ (pc[d] = "select" /\ pc'[d] = "test")
    BY <1>0, <1>9 DEF TypeOK, SignalHandler, Interrupt, Running
  <2>2. CASE sock[d] = "open"
    BY <1>0, <1>b, <1>9, <2>1, <2>2, HandlerLeaves DEF Running, Loop
  <2>3. CASE sock[d] # "open"
    <3>1. sock' = sock /\ bye' = bye
      BY <1>9, <2>3 DEF SignalHandler
    <3>2. sock[d] \in {"none", "closed"}
      BY <1>0, <2>3 DEF TypeOK
    <3> QED
      BY <1>b, <1>u, <2>1, <3>1, <3>2 DEF Running, Loop
  <2> QED
    BY <2>2, <2>3
<1> QED
  BY <1>1, <1>2, <1>3, <1>4, <1>5, <1>6, <1>7, <1>8, <1>9 DEF Main

\* What was announced and what became of the Byes, for the daemon that takes
\* the step.
ByeToEach(d) ==
  /\ announced[d] \subseteq addr[d]
  /\ IF HasLeft(d) THEN \A family \in announced[d] : bye[d][family] # "unsaid" ELSE bye[d] = Unsaid
  /\ (\E family \in Families : bye[d][family] = "said") <=> last[d].kind = "Bye"
SilentOne(d) ==
  pc[d] \in {"create", "setup", "join", "hello4", "send4"} =>
    (last[d].kind = "Bye" \/ last[d] = NoMessage) /\ announced[d] = {}

LEMMA ByeOfEach ==
  /\ ByeToAll <=> \A d \in Daemons : Running(d) => ByeToEach(d)
  /\ Silent <=> \A d \in Daemons : SilentOne(d)
  BY DEF ByeToAll, ByeToEach, Silent, SilentOne

\* An open socket says that the handler has not been there.
LEMMA OpenIsUnsaid ==
  ASSUME IInv, NEW d \in Daemons, Running(d), sock[d] # "closed"
  PROVE  bye[d] = Unsaid /\ last[d].kind # "Bye"
<1>1. ByeToEach(d) /\ ~HasLeft(d)
  BY ByeOfEach DEF IInv, ClosedAfterBye
<1> QED
  BY <1>1 DEF ByeToEach, Unsaid

LEMMA StepByes ==
  ASSUME IInv, NEW d \in Daemons, CheckPid(d) \/ Main(d) \/ SelectReady(d) \/ SignalHandler(d) \/ Dies(d)
  PROVE  (Running(d) => ByeToEach(d))' /\ SilentOne(d)'
<1>0. TypeOK
  BY DEF IInv
<1>b. (Running(d) => ByeToEach(d)) /\ SilentOne(d)
  BY ByeOfEach DEF IInv
<1>k. bye' = bye => HasLeft(d)' = HasLeft(d)
  BY DEF HasLeft
<1>1. CASE CheckPid(d)
  <2>1. pc'[d] = "create" /\ bye'[d] = Unsaid /\ last'[d] = NoMessage /\ announced'[d] = {}
    BY <1>0, <1>1 DEF TypeOK, CheckPid, Goto
  <2>2. "v4" \in Families /\ NoMessage.kind # "Bye"
    BY DEF Families, NoMessage
  <2> QED
    BY <2>1, <2>2 DEF ByeToEach, SilentOne, HasLeft, Unsaid
<1>2. CASE StartFails(d) \/ Dies(d) \/ UnlinkPid(d)
  BY <1>0, <1>2 DEF TypeOK, StartFails, Dies, UnlinkPid, Goto, Running, SilentOne
<1>3. CASE OpenSocket(d) \/ JoinGroups(d)
  <2>1. pc[d] \in {"setup", "join"} /\ pc'[d] \in {"join", "hello4"}
        /\ announced' = announced /\ bye' = bye /\ last' = last
    BY <1>0, <1>3 DEF TypeOK, OpenSocket, JoinGroups, Goto
  <2> QED
    BY <1>b, <1>k, <2>1 DEF Running, ByeToEach, SilentOne
<1>4. CASE \/ CreatePid(d) \/ NumberHello4(d) \/ NumberHello6(d) \/ EnterLoop(d) \/ TestExit(d) \/ Arm(d)
           \/ EnterSelect(d) \/ SelectReady(d) \/ IgnoreDatagram(d) \/ HandleProbe(d) \/ CloseSocket(d)
  <2>1. announced' = announced /\ bye' = bye /\ last' = last /\ addr' = addr /\ Running(d)
    BY <1>4 DEF CreatePid, NumberHello4, NumberHello6, EnterLoop, TestExit, Arm, EnterSelect, SelectReady,
       IgnoreDatagram, HandleProbe, CloseSocket, Goto, Running
  <2>2. pc'[d] \in {"create", "setup", "join", "hello4", "send4"} => pc[d] \in {"create", "setup", "join", "hello4"}
    BY <1>0, <1>4 DEF TypeOK, CreatePid, NumberHello4, NumberHello6, EnterLoop, TestExit, Arm, EnterSelect,
       SelectReady, IgnoreDatagram, HandleProbe, CloseSocket, Goto
  <2> QED
    BY <1>b, <1>k, <2>1, <2>2 DEF ByeToEach, SilentOne
<1>5. CASE SendHello4(d) \/ SendHello6(d) \/ SendProbeMatches(d)
  <2>1. /\ Running(d) /\ bye' = bye /\ addr' = addr
        /\ pc'[d] \in {"hello6", "sleep", "test"}
        /\ pc[d] = "send4" => "v4" \in addr[d]
        /\ pc[d] = "send6" => "v6" \in addr[d]
    BY <1>0, <1>5 DEF TypeOK, SendHello4, SendHello6, SendProbeMatches, Goto, Running, IInv, Addressed
  <2>2. SilentOne(d)'
    BY <2>1 DEF SilentOne
  <2>3. \/ last' = last /\ announced' = announced
        \/ /\ sock[d] = "open" /\ last'[d].kind # "Bye"
           /\ announced'[d] \subseteq announced[d] \cup addr[d]
    BY <1>0, <1>5, <2>1 DEF TypeOK, SendHello4, SendHello6, SendHello, SendProbeMatches, Message, Goto
  <2>4. CASE last' = last /\ announced' = announced
    BY <1>b, <1>k, <2>1, <2>2, <2>4 DEF ByeToEach
  <2>5. CASE sock[d] = "open" /\ last'[d].kind # "Bye" /\ announced'[d] \subseteq announced[d] \cup addr[d]
    <3>1. bye'[d] = Unsaid
      BY <2>1, <2>5, OpenIsUnsaid
    <3>2. announced'[d] \subseteq addr'[d]
      BY <1>b, <2>1, <2>5 DEF ByeToEach
    <3> QED
      BY <2>2, <2>5, <3>1, <3>2 DEF ByeToEach, Unsaid, HasLeft, Families
  <2> QED
    BY <2>3, <2>4, <2>5
<1>6. CASE SignalHandler(d)
  <2>1. /\ Running(d)
        /\ pc'[d] = pc[d] \/ (pc[d] = "select" /\ pc'[d] = "test")
    BY <1>0, <1>6 DEF TypeOK, SignalHandler, Interrupt
  <2>2. CASE sock[d] = "open"
    <3>1. ByeToEach(d)'
      <4>1. last[d].kind # "Bye" /\ announced[d] \subseteq addr[d]
        BY <1>b, <2>1, <2>2, OpenIsUnsaid DEF ByeToEach
      <4> QED
        BY <1>0, <1>6, <2>2, <4>1, HandlerLeaves DEF ByeToEach
    <3>2. SilentOne(d)'
      BY <1>0, <1>b, <1>6, <2>1, <2>2, HandlerLeaves DEF SilentOne
    <3> QED
      BY <3>1, <3>2
  <2>3. CASE sock[d] # "open"
    <3>1. announced' = announced /\ bye' = bye /\ last' = last /\ addr' = addr
      BY <1>6, <2>3 DEF SignalHandler
    <3> QED
      BY <1>b, <1>k, <2>1, <3>1 DEF ByeToEach, SilentOne
  <2> QED
    BY <2>2, <2>3
<1> QED
  BY <1>1, <1>2, <1>3, <1>4, <1>5, <1>6 DEF Main

-----------------------------------------------------------------------------
(* Addresses. *)

\* The addresses of what is sent, for the daemon that takes the step.
LEMMA StepAddress ==
  ASSUME IInv, NEW d \in Daemons, CheckPid(d) \/ Main(d) \/ SelectReady(d) \/ SignalHandler(d) \/ Dies(d)
  PROVE  /\ pc'[d] = "send4" => "v4" \in addr'[d]
         /\ pc'[d] = "send6" => "v6" \in addr'[d]
         /\ pc'[d] = "reply" => to'[d] \in addr'[d]
         /\ pc'[d] \in {"hello6", "send6", "sleep"} \cup Loop
              => ("v4" \in addr'[d] => "v4" \in announced'[d])
         /\ Running(d)' =>
              /\ last'[d].kind \in {"Hello", "ProbeMatches"} => last'[d].family \in addr'[d]
              /\ last'[d] = Message("ProbeMatches", last'[d].number, "v4") => "v4" \in announced'[d]
<1>0. TypeOK
  BY DEF IInv
<1> DEFINE before ==
      /\ pc[d] = "send4" => "v4" \in addr[d]
      /\ pc[d] = "send6" => "v6" \in addr[d]
      /\ pc[d] = "reply" => to[d] \in addr[d]
      /\ pc[d] \in {"hello6", "send6", "sleep"} \cup Loop
           => ("v4" \in addr[d] => "v4" \in announced[d])
      /\ Running(d) =>
           /\ last[d].kind \in {"Hello", "ProbeMatches"} => last[d].family \in addr[d]
           /\ last[d] = Message("ProbeMatches", last[d].number, "v4") => "v4" \in announced[d]
<1>b. before
  BY DEF IInv, Addressed, AnswersCarryAnAddress
<1>s. pc[d] \in {"create", "setup", "join", "hello4", "send4"}
        => last[d].kind = "Bye" \/ last[d] = NoMessage
  BY DEF IInv, Silent
<1>1. CASE CheckPid(d)
  BY <1>0, <1>1 DEF TypeOK, CheckPid, Goto, Running, Loop, NoMessage, Message
<1>2. CASE StartFails(d) \/ Dies(d) \/ UnlinkPid(d)
  BY <1>0, <1>2 DEF TypeOK, StartFails, Dies, UnlinkPid, Goto, Running, Loop
<1>3. CASE CreatePid(d) \/ NumberHello4(d) \/ NumberHello6(d)
  BY <1>0, <1>b, <1>3
     DEF TypeOK, CreatePid, NumberHello4, NumberHello6, Goto, Running, Loop
<1>4. CASE OpenSocket(d) \/ JoinGroups(d)
  BY <1>0, <1>s, <1>4 DEF TypeOK, OpenSocket, JoinGroups, Goto, Running, Loop, NoMessage, Message
<1>5. CASE SendHello4(d) \/ SendHello6(d)
  BY <1>0, <1>b, <1>5
     DEF TypeOK, SendHello4, SendHello6, SendHello, Message, Goto, Running, Loop
<1>6. CASE EnterLoop(d) \/ TestExit(d) \/ Arm(d) \/ EnterSelect(d)
  BY <1>0, <1>b, <1>6 DEF TypeOK, EnterLoop, TestExit, Arm, EnterSelect, Goto, Running, Loop
<1>7. CASE SelectReady(d) \/ IgnoreDatagram(d) \/ HandleProbe(d) \/ CloseSocket(d)
  BY <1>0, <1>b, <1>7
     DEF TypeOK, SelectReady, IgnoreDatagram, HandleProbe, CloseSocket, Goto, Running, Loop
<1>8. CASE SendProbeMatches(d)
  BY <1>0, <1>b, <1>8 DEF TypeOK, SendProbeMatches, Message, Goto, Running, Loop
<1>9. CASE SignalHandler(d)
  <2>1. /\ Running(d)
        /\ pc'[d] = pc[d] \/ (pc[d] = "select" /\ pc'[d] = "test")
        /\ addr' = addr /\ announced' = announced /\ to' = to
    BY <1>0, <1>9 DEF TypeOK, SignalHandler, Interrupt
  <2>2. last'[d] = last[d] \/ last'[d].kind = "Bye"
    <3>1. CASE sock[d] = "open"
      BY <1>0, <1>9, <3>1, HandlerLeaves
    <3>2. CASE sock[d] # "open"
      BY <1>9, <3>2 DEF SignalHandler
    <3> QED
      BY <3>1, <3>2
  <2>3. \A n : Message("ProbeMatches", n, "v4").kind # "Bye"
    BY DEF Message
  <2> QED
    BY <1>b, <2>1, <2>2, <2>3 DEF Loop
<1> QED
  BY <1>1, <1>2, <1>3, <1>4, <1>5, <1>6, <1>7, <1>8, <1>9 DEF Main

-----------------------------------------------------------------------------
(* Numbers. *)

\* The numbers of messages, for the daemon that takes the step.
LEMMA StepNumber ==
  ASSUME IInv, NEW d \in Daemons, CheckPid(d) \/ Main(d) \/ SelectReady(d) \/ SignalHandler(d) \/ Dies(d)
  PROVE  (Running(d)' /\ sock'[d] = "open") =>
           /\ last'[d].number <= number'[d]
           /\ pc'[d] \in {"send4", "send6", "reply"}
                => (last'[d].number < out'[d] /\ out'[d] <= number'[d])
<1>0. TypeOK
  BY DEF IInv
<1>t. last[d].number \in Nat /\ number[d] \in Nat /\ out[d] \in Nat
  BY <1>0 DEF TypeOK
<1>b. (Running(d) /\ sock[d] = "open") =>
        /\ last[d].number <= number[d]
        /\ pc[d] \in {"send4", "send6", "reply"} => (last[d].number < out[d] /\ out[d] <= number[d])
  BY DEF IInv, Numbered
<1>s. (Running(d) /\ pc[d] \in {"setup", "hello4"} /\ sock[d] # "closed") => last[d].number = 0
  BY OpenIsUnsaid DEF IInv, Silent, NoMessage
<1>n. pc[d] = "setup" => sock[d] # "closed"
  BY DEF IInv, HasSocket, Running
<1>1. CASE CheckPid(d) \/ StartFails(d) \/ Dies(d) \/ UnlinkPid(d) \/ CloseSocket(d)
  BY <1>0, <1>1 DEF TypeOK, CheckPid, StartFails, Dies, UnlinkPid, CloseSocket, Goto, Running
<1>2. CASE CreatePid(d) \/ JoinGroups(d)
  BY <1>0, <1>b, <1>2 DEF TypeOK, CreatePid, JoinGroups, Goto, Running
<1>3. CASE OpenSocket(d)
  BY <1>0, <1>t, <1>s, <1>n, <1>3 DEF TypeOK, OpenSocket, Goto, Running
<1>4. CASE NumberHello4(d)
  BY <1>0, <1>s, <1>4 DEF TypeOK, NumberHello4, Goto, Running
<1>5. CASE NumberHello6(d)
  BY <1>0, <1>t, <1>b, <1>5 DEF TypeOK, NumberHello6, Goto, Running
<1>6. CASE SendHello4(d) \/ SendHello6(d)
  BY <1>0, <1>t, <1>b, <1>6
     DEF TypeOK, SendHello4, SendHello6, SendHello, Message, Goto, Running
<1>7. CASE EnterLoop(d) \/ TestExit(d) \/ Arm(d) \/ EnterSelect(d) \/ SelectReady(d) \/ IgnoreDatagram(d)
  BY <1>0, <1>b, <1>7
     DEF TypeOK, EnterLoop, TestExit, Arm, EnterSelect, SelectReady, IgnoreDatagram, Goto, Running
<1>8. CASE HandleProbe(d)
  BY <1>0, <1>t, <1>b, <1>8 DEF TypeOK, HandleProbe, Goto, Running
<1>9. CASE SendProbeMatches(d)
  BY <1>0, <1>t, <1>b, <1>9 DEF TypeOK, SendProbeMatches, Message, Goto, Running
<1>10. CASE SignalHandler(d)
  BY <1>0, <1>b, <1>10 DEF TypeOK, SignalHandler, Interrupt, Running
<1> QED
  BY <1>1, <1>2, <1>3, <1>4, <1>5, <1>6, <1>7, <1>8, <1>9, <1>10 DEF Main

-----------------------------------------------------------------------------
(* All of it. *)

\* A step of one daemon keeps the invariant.
LEMMA StepIInv ==
  ASSUME IInv, NEW d \in Daemons, CheckPid(d) \/ Main(d) \/ SelectReady(d) \/ SignalHandler(d) \/ Dies(d)
  PROVE  IInv'
<1>0. TypeOK
  BY DEF IInv
<1>1. TypeOK'
  BY <1>0, StepType
<1>2. OneRuns' /\ PidFileNames'
  BY StepPidFile
<1>3. \A e \in Daemons \ {d} :
        /\ pc'[e] = pc[e] /\ sock'[e] = sock[e] /\ addr'[e] = addr[e] /\ number'[e] = number[e]
        /\ out'[e] = out[e] /\ to'[e] = to[e] /\ exit_main'[e] = exit_main[e]
        /\ last'[e] = last[e] /\ announced'[e] = announced[e] /\ bye'[e] = bye[e]
  BY <1>0, OthersStay
<1>4. /\ ClosedAfterBye' /\ HasSocket' /\ ExitAfterBye'
      /\ \A e \in Daemons : pc'[e] \in {"close", "unlink"} => HasLeft(e)'
  BY <1>3, StepBye
     DEF IInv, ClosedAfterBye, HasSocket, ExitAfterBye, EndsWithBye, Running, HasLeft
<1>7. ByeToAll' /\ Silent'
  <2>1. \A e \in Daemons : (Running(e) => ByeToEach(e))' /\ SilentOne(e)'
    <3>1. (Running(d) => ByeToEach(d))' /\ SilentOne(d)'
      BY StepByes
    <3>2. \A e \in Daemons : (Running(e) => ByeToEach(e)) /\ SilentOne(e)
      BY ByeOfEach DEF IInv
    <3>3. ASSUME NEW e \in Daemons \ {d} PROVE (Running(e) => ByeToEach(e))' /\ SilentOne(e)'
      BY <1>3, <3>2 DEF Running, ByeToEach, SilentOne, HasLeft
    <3> QED
      BY <3>1, <3>3
  <2>2. /\ ByeToAll' <=> \A e \in Daemons : (Running(e) => ByeToEach(e))'
        /\ Silent' <=> \A e \in Daemons : SilentOne(e)'
    BY DEF ByeToAll, ByeToEach, Silent, SilentOne
  <2> QED
    BY <2>1, <2>2
<1>8. EndsWithBye'
  BY <1>4, <1>7 DEF EndsWithBye, ByeToAll, Running
<1>5. Addressed' /\ AnswersCarryAnAddress'
  BY <1>3, StepAddress DEF IInv, Addressed, AnswersCarryAnAddress, Running
<1>6. Numbered'
  BY <1>3, StepNumber DEF IInv, Numbered, Running
<1> QED
  BY <1>1, <1>2, <1>4, <1>5, <1>6, <1>7, <1>8 DEF IInv

\* IInv holds in every reachable state: SIGTERM may come between any two steps
\* of the main thread, daemons may die and be started again, in any number.
THEOREM Invariance == Spec => []IInv
<1>1. IInv /\ [Next]_vars => IInv'
  <2> SUFFICES ASSUME IInv, [Next]_vars PROVE IInv'
    OBVIOUS
  <2>1. CASE UNCHANGED vars
    BY <2>1 DEF vars, IInv, TypeOK, OneRuns, PidFileNames, ClosedAfterBye, HasSocket, ExitAfterBye,
       ByeToAll, HasLeft, EndsWithBye, Silent, Addressed, AnswersCarryAnAddress, Numbered, Running
  <2>2. CASE Next
    BY <2>2, StepIInv DEF Next
  <2> QED
    BY <2>1, <2>2
<1> QED
  BY InitIInv, <1>1, PTL DEF Spec

\* Every variable keeps its type.
THEOREM TypeCorrect == Spec => []TypeOK
<1>1. IInv => TypeOK
  BY DEF IInv
<1> QED
  BY <1>1, Invariance, PTL

\* When no two daemons are started in the same instant at most one gets past
\* the pid file, whatever was left behind by those that crashed.
THEOREM OneDaemonHolds == Spec => []OneDaemon
<1>1. IInv => OneDaemon
  BY DEF IInv, OneDaemon, OneRuns, Running
<1> QED
  BY <1>1, Invariance, PTL

\* A daemon that leaves its main loop has said Bye over every family that it
\* announced, but for the Byes that could not be sent.
THEOREM OrderlyEnd == Spec => []EndsWithBye
<1>1. IInv => EndsWithBye
  BY DEF IInv
<1> QED
  BY <1>1, Invariance, PTL

\* Hello and ProbeMatches go out over a family the device has an address of,
\* and no ProbeMatches over IPv4 before the Hello.
THEOREM Addresses == Spec => []AnswersCarryAnAddress
<1>1. IInv => AnswersCarryAnAddress
  BY DEF IInv
<1> QED
  BY <1>1, Invariance, PTL

-----------------------------------------------------------------------------
(* What a step sends. *)

\* A step of one daemon that sends something does it on an open socket, and
\* under a number above the last; the start of a daemon forgets the last.
LEMMA StepSends ==
  ASSUME IInv, NEW d \in Daemons, CheckPid(d) \/ Main(d) \/ SelectReady(d) \/ SignalHandler(d) \/ Dies(d)
  PROVE  \/ last'[d] = last[d]
         \/ last'[d] = NoMessage /\ ~Running(d)
         \/ Running(d) /\ sock[d] = "open" /\ last'[d].number > last[d].number
<1>t. TypeOK
  BY DEF IInv
<1>n. last[d].number \in Nat /\ number[d] \in Nat /\ out[d] \in Nat
  BY <1>t DEF TypeOK
<1>b. (Running(d) /\ sock[d] = "open") =>
        /\ last[d].number <= number[d]
        /\ pc[d] \in {"send4", "send6", "reply"} => last[d].number < out[d]
  BY DEF IInv, Numbered
<1>1. CASE CheckPid(d)
  BY <1>t, <1>1 DEF TypeOK, CheckPid, Goto, Running
<1>2. CASE SendHello4(d) \/ SendHello6(d) \/ SendProbeMatches(d)
  <2>1. Running(d) /\ pc[d] \in {"send4", "send6", "reply"}
    BY <1>2 DEF SendHello4, SendHello6, SendProbeMatches, Goto, Running
  <2>2. \/ last'[d] = last[d]
        \/ sock[d] = "open" /\ last'[d].number = out[d]
    BY <1>t, <1>2 DEF TypeOK, SendHello4, SendHello6, SendHello, SendProbeMatches, Message
  <2> QED
    BY <1>n, <1>b, <2>1, <2>2
<1>3. CASE SignalHandler(d)
  <2>1. Running(d)
    BY <1>3 DEF SignalHandler
  <2>2. CASE sock[d] = "open"
    <3>1. PICK said \in SUBSET ByesTo(d) : SendByes(d, said)
      BY <1>3, <2>2 DEF SignalHandler
    <3>2. last'[d] = last[d] \/ last'[d].number \in {number[d] + 1, number[d] + 2}
      BY <1>t, <3>1 DEF TypeOK, SendByes, Message
    <3> QED
      BY <1>n, <1>b, <2>1, <2>2, <3>2
  <2>3. CASE sock[d] # "open"
    BY <1>3, <2>3 DEF SignalHandler
  <2> QED
    BY <2>2, <2>3
<1>4. CASE \/ CreatePid(d) \/ StartFails(d) \/ OpenSocket(d) \/ JoinGroups(d) \/ NumberHello4(d)
           \/ NumberHello6(d) \/ EnterLoop(d) \/ TestExit(d) \/ Arm(d) \/ EnterSelect(d)
  BY <1>4 DEF CreatePid, StartFails, OpenSocket, JoinGroups, NumberHello4, NumberHello6,
     EnterLoop, TestExit, Arm, EnterSelect
<1>5. CASE \/ SelectReady(d) \/ IgnoreDatagram(d) \/ HandleProbe(d) \/ CloseSocket(d)
           \/ UnlinkPid(d) \/ Dies(d)
  BY <1>5 DEF SelectReady, IgnoreDatagram, HandleProbe, CloseSocket, UnlinkPid, Dies
<1> QED
  BY <1>1, <1>2, <1>3, <1>4, <1>5 DEF Main

\* In one life of a daemon the numbers of its messages grow, although the
\* handler takes numbers between any two steps of the main thread.
THEOREM NumbersGrowHolds == Spec => NumbersGrow
<1> DEFINE Grows == \A d \in Daemons :
      (last'[d] # last[d] /\ last'[d] # NoMessage) => last'[d].number > last[d].number
<1>1. IInv /\ [Next]_vars => [Grows]_vars
  <2> SUFFICES ASSUME IInv, Next, NEW e \in Daemons, last'[e] # last[e], last'[e] # NoMessage
               PROVE  last'[e].number > last[e].number
    OBVIOUS
  <2>1. PICK d \in Daemons : CheckPid(d) \/ Main(d) \/ SelectReady(d) \/ SignalHandler(d) \/ Dies(d)
    BY DEF Next
  <2>2. e = d
    BY <2>1, OthersStay DEF IInv
  <2> QED
    BY <2>1, <2>2, StepSends
<1>2. NumbersGrow <=> [][Grows]_vars
  BY DEF NumbersGrow
<1> QED
  BY <1>1, <1>2, Invariance, PTL DEF Spec

\* A daemon whose handler has tried its Byes sends nothing more, whatever its main
\* thread was about to send when the signal came.
THEOREM NothingAfterByeHolds == Spec => NothingAfterBye
<1> DEFINE Quiet == \A d \in Daemons : (HasLeft(d) /\ Running(d)) => last'[d] = last[d]
<1>1. IInv /\ [Next]_vars => [Quiet]_vars
  <2> SUFFICES ASSUME IInv, Next, NEW e \in Daemons, HasLeft(e), Running(e)
               PROVE  last'[e] = last[e]
    OBVIOUS
  <2>1. PICK d \in Daemons : CheckPid(d) \/ Main(d) \/ SelectReady(d) \/ SignalHandler(d) \/ Dies(d)
    BY DEF Next
  <2>2. CASE e # d
    BY <2>1, <2>2, OthersStay DEF IInv
  <2>3. CASE e = d
    <3>1. sock[e] = "closed"
      BY DEF IInv, ClosedAfterBye
    <3> QED
      BY <2>1, <2>3, <3>1, StepSends
  <2> QED
    BY <2>2, <2>3
<1>2. NothingAfterBye <=> [][Quiet]_vars
  BY DEF NothingAfterBye
<1> QED
  BY <1>1, <1>2, Invariance, PTL DEF Spec

=============================================================================
