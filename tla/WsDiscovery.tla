------------------------------ MODULE WsDiscovery ------------------------------
(***************************************************************************)
(* wsd_simple_server: the WS-Discovery daemon. It announces the device     *)
(* with Hello, answers Probe with ProbeMatches, and says Bye from its      *)
(* signal handler, which also closes the socket and tells the main loop to *)
(* end. Several daemons may be started; a pid file is to keep them to one. *)
(*                                                                         *)
(* An action is what happens between two points where a signal makes a     *)
(* difference. The handler itself is one action: SIGTERM and SIGINT are    *)
(* not nested.                                                             *)
(***************************************************************************)
EXTENDS Integers

CONSTANTS
  Daemons,       \* processes of wsd_simple_server
  NoPid,         \* no pid file
  SerialStarts,  \* TRUE: no two daemons are in check_pid .. create_pid at a time
  MaxNumber      \* bound of the model: no Probe is received at this number

Families == {"v4", "v6"}

ASSUME DaemonsAssumption ==
  NoPid \notin Daemons /\ SerialStarts \in BOOLEAN /\ MaxNumber \in Nat

VARIABLES
  pidfile,    \* the process named in the pid file; NoPid when there is none or it is empty
  pc,         \* where the main thread is
  sock,       \* sock: none before socket(), open, closed by the handler
  addr,       \* have_v4 and xaddr6, as the set of families that have an address
  number,     \* msg_number
  out,        \* s_tmp: the number in the message being written
  to,         \* family of the Probe being answered
  exit_main,
  last,       \* history: the last message sent in this life
  announced,  \* history: families announced by a Hello in this life
  bye         \* history: what became of the Bye of each family in this life

vars == <<pidfile, pc, sock, addr, number, out, to, exit_main, last, announced, bye>>

PcValues ==
  {"off", "create", "setup", "join", "hello4", "send4", "hello6", "send6", "sleep",
   "test", "arm", "enter", "select", "recv", "reply", "close", "unlink"}
Loop == {"test", "arm", "enter", "select", "recv", "reply"}

Kinds == {"none", "Hello", "ProbeMatches", "Bye"}
NoMessage == [kind |-> "none", number |-> 0, family |-> "v4"]
Message(kind, n, family) == [kind |-> kind, number |-> n, family |-> family]

\* A Bye is not tried, or it goes out, or it is lost: send_bye finds no memory,
\* or the message cannot be sent.
Byes == {"unsaid", "said", "lost"}
Unsaid == [family \in Families |-> "unsaid"]

Running(d) == pc[d] # "off"
Goto(d, from, label) == pc[d] = from /\ pc' = [pc EXCEPT ![d] = label]

Init ==
  /\ pidfile = NoPid
  /\ pc = [d \in Daemons |-> "off"]
  /\ sock = [d \in Daemons |-> "none"]
  /\ addr = [d \in Daemons |-> {}]
  /\ number = [d \in Daemons |-> 0]
  /\ out = [d \in Daemons |-> 0]
  /\ to = [d \in Daemons |-> "v4"]
  /\ exit_main = [d \in Daemons |-> FALSE]
  /\ last = [d \in Daemons |-> NoMessage]
  /\ announced = [d \in Daemons |-> {}]
  /\ bye = [d \in Daemons |-> Unsaid]

-----------------------------------------------------------------------------
(* Start. *)

\* The process is started and finds no pid file, or one that names a process
\* that does not exist. When kill(pid, 0) succeeds it exits instead.
CheckPid(d) ==
  /\ Goto(d, "off", "create")
  /\ SerialStarts => \A e \in Daemons : pc[e] # "create"
  /\ \A p \in Daemons : pidfile = p => ~Running(p)
  /\ sock' = [sock EXCEPT ![d] = "none"]
  /\ addr' = [addr EXCEPT ![d] = {}]
  /\ number' = [number EXCEPT ![d] = 0]
  /\ exit_main' = [exit_main EXCEPT ![d] = FALSE]
  /\ last' = [last EXCEPT ![d] = NoMessage]
  /\ announced' = [announced EXCEPT ![d] = {}]
  /\ bye' = [bye EXCEPT ![d] = Unsaid]
  /\ out' = [out EXCEPT ![d] = 0]
  /\ to' = [to EXCEPT ![d] = "v4"]
  /\ UNCHANGED pidfile

\* Mutant: the pid file is not written when there is one.
Mutant_CreatePid(d) ==
  /\ Goto(d, "create", "setup")
  /\ pidfile' = IF pidfile = NoPid THEN d ELSE pidfile
  /\ UNCHANGED <<sock, addr, number, out, to, exit_main, last, announced, bye>>

CreatePid(d) ==
  /\ Goto(d, "create", "setup")
  /\ pidfile' = d
  /\ UNCHANGED <<sock, addr, number, out, to, exit_main, last, announced, bye>>

\* exit(EXIT_FAILURE) at any point before the first Hello is out, with the pid
\* file, once written, left behind. One that cannot be written may be left empty.
StartFails(d) ==
  /\ pc[d] \in {"create", "setup", "join", "send4"}
  /\ pc' = [pc EXCEPT ![d] = "off"]
  /\ \/ pc[d] = "create" /\ pidfile' = NoPid
     \/ UNCHANGED pidfile
  /\ UNCHANGED <<sock, addr, number, out, to, exit_main, last, announced, bye>>

\* The addresses are found and the socket is opened. The family of an address
\* is given up when the kernel has no socket for it, maybe the last one.
OpenSocket(d) ==
  /\ Goto(d, "setup", "join")
  /\ \E found \in SUBSET Families : addr' = [addr EXCEPT ![d] = found]
  /\ sock' = [sock EXCEPT ![d] = "open"]
  /\ UNCHANGED <<pidfile, number, out, to, exit_main, last, announced, bye>>

\* The socket is bound and joins the groups. IPv6 is given up when its group
\* cannot be joined; a failure for IPv4 is StartFails, and so is every call
\* with IPv4 on a socket that the handler has closed.
JoinGroups(d) ==
  /\ Goto(d, "join", "hello4")
  /\ \E joined \in {addr[d], addr[d] \ {"v6"}} :
       /\ sock[d] = "closed" => joined = {}
       /\ addr' = [addr EXCEPT ![d] = joined]
  /\ UNCHANGED <<pidfile, sock, number, out, to, exit_main, last, announced, bye>>

-----------------------------------------------------------------------------
(* Hello. *)

\* Mutant: the number is written from msg_number before it is set, less one.
Mutant_NumberHello4(d) ==
  /\ Goto(d, "hello4", IF "v4" \in addr[d] THEN "send4" ELSE "hello6")
  /\ number' = [number EXCEPT ![d] = 1]
  /\ out' = [out EXCEPT ![d] = number[d] - 1]
  /\ UNCHANGED <<pidfile, sock, addr, to, exit_main, last, announced, bye>>

NumberHello4(d) ==
  /\ Goto(d, "hello4", IF "v4" \in addr[d] THEN "send4" ELSE "hello6")
  /\ number' = [number EXCEPT ![d] = 1]
  /\ out' = [out EXCEPT ![d] = 1]
  /\ UNCHANGED <<pidfile, sock, addr, to, exit_main, last, announced, bye>>

\* sendto of a Hello, which succeeds only on an open socket.
SendHello(d, family) ==
  /\ sock[d] = "open"
  /\ last' = [last EXCEPT ![d] = Message("Hello", out[d], family)]
  /\ announced' = [announced EXCEPT ![d] = @ \cup {family}]

\* When it cannot be sent the daemon exits: StartFails.
SendHello4(d) ==
  /\ Goto(d, "send4", "hello6")
  /\ SendHello(d, "v4")
  /\ UNCHANGED <<pidfile, sock, addr, number, out, to, exit_main, bye>>

\* Mutant: the number of the first Hello is used again.
Mutant_NumberHello6(d) ==
  /\ Goto(d, "hello6", IF "v6" \in addr[d] THEN "send6" ELSE "sleep")
  /\ UNCHANGED <<pidfile, sock, addr, number, out, to, exit_main, last, announced, bye>>

NumberHello6(d) ==
  /\ Goto(d, "hello6", IF "v6" \in addr[d] THEN "send6" ELSE "sleep")
  /\ IF "v6" \in addr[d]
     THEN number' = [number EXCEPT ![d] = @ + 1] /\ out' = [out EXCEPT ![d] = number[d] + 1]
     ELSE UNCHANGED <<number, out>>
  /\ UNCHANGED <<pidfile, sock, addr, to, exit_main, last, announced, bye>>

\* A failure is only logged.
SendHello6(d) ==
  /\ Goto(d, "send6", "sleep")
  /\ SendHello(d, "v6") \/ UNCHANGED <<last, announced>>
  /\ UNCHANGED <<pidfile, sock, addr, number, out, to, exit_main, bye>>

-----------------------------------------------------------------------------
(* The main loop. *)

\* Mutant: exit_main is not reset.
Mutant_EnterLoop(d) ==
  /\ Goto(d, "sleep", "test")
  /\ UNCHANGED <<pidfile, sock, addr, number, out, to, exit_main, last, announced, bye>>

\* After sleep(1): a signal that came before is forgotten here.
EnterLoop(d) ==
  /\ Goto(d, "sleep", "test")
  /\ exit_main' = [exit_main EXCEPT ![d] = FALSE]
  /\ UNCHANGED <<pidfile, sock, addr, number, out, to, last, announced, bye>>

TestExit(d) ==
  /\ Goto(d, "test", IF exit_main[d] THEN "close" ELSE "arm")
  /\ UNCHANGED <<pidfile, sock, addr, number, out, to, exit_main, last, announced, bye>>

\* FD_SET. With the socket closed it is FD_SET(-1, ..), which is undefined: a
\* checked build aborts, others go on.
Arm(d) ==
  /\ pc[d] = "arm"
  /\ \E next \in {"enter", "off"} :
       /\ next = "off" => sock[d] = "closed"
       /\ pc' = [pc EXCEPT ![d] = next]
  /\ UNCHANGED <<pidfile, sock, addr, number, out, to, exit_main, last, announced, bye>>

\* The call of select. With the socket closed by now it returns at once, when
\* sock + 1 was computed before, or is select(0, ..) and waits for a signal.
EnterSelect(d) ==
  /\ Goto(d, "enter", "select") \/ (sock[d] = "closed" /\ Goto(d, "enter", "test"))
  /\ UNCHANGED <<pidfile, sock, addr, number, out, to, exit_main, last, announced, bye>>

\* A datagram arrives.
SelectReady(d) ==
  /\ Goto(d, "select", "recv")
  /\ sock[d] = "open"
  /\ UNCHANGED <<pidfile, sock, addr, number, out, to, exit_main, last, announced, bye>>

\* recvfrom fails, or the datagram is no Probe, or of a family without address.
IgnoreDatagram(d) ==
  /\ Goto(d, "recv", "test")
  /\ UNCHANGED <<pidfile, sock, addr, number, out, to, exit_main, last, announced, bye>>

\* Mutant: the family of the sender is not looked at.
Mutant_HandleProbe(d) ==
  /\ sock[d] = "open"
  /\ number[d] < MaxNumber
  /\ \E family \in Families, hasId \in BOOLEAN :
       /\ Goto(d, "recv", IF hasId THEN "reply" ELSE "test")
       /\ to' = [to EXCEPT ![d] = family]
  /\ number' = [number EXCEPT ![d] = @ + 1]
  /\ out' = [out EXCEPT ![d] = number[d] + 1]
  /\ UNCHANGED <<pidfile, sock, addr, exit_main, last, announced, bye>>

\* A Probe takes a number, also when it has no MessageID and gets no answer.
HandleProbe(d) ==
  /\ sock[d] = "open"
  /\ number[d] < MaxNumber
  /\ \E family \in addr[d], hasId \in BOOLEAN :
       /\ Goto(d, "recv", IF hasId THEN "reply" ELSE "test")
       /\ to' = [to EXCEPT ![d] = family]
  /\ number' = [number EXCEPT ![d] = @ + 1]
  /\ out' = [out EXCEPT ![d] = number[d] + 1]
  /\ UNCHANGED <<pidfile, sock, addr, exit_main, last, announced, bye>>

SendProbeMatches(d) ==
  /\ Goto(d, "reply", "test")
  /\ \/ /\ sock[d] = "open"
        /\ last' = [last EXCEPT ![d] = Message("ProbeMatches", out[d], to[d])]
     \/ UNCHANGED last
  /\ UNCHANGED <<pidfile, sock, addr, number, out, to, exit_main, announced, bye>>

CloseSocket(d) ==
  /\ Goto(d, "close", "unlink")
  /\ sock' = [sock EXCEPT ![d] = "closed"]
  /\ UNCHANGED <<pidfile, addr, number, out, to, exit_main, last, announced, bye>>

\* The pid file is removed, whoever it names.
UnlinkPid(d) ==
  /\ Goto(d, "unlink", "off")
  /\ pidfile' = NoPid
  /\ UNCHANGED <<sock, addr, number, out, to, exit_main, last, announced, bye>>

-----------------------------------------------------------------------------
(* Signals. *)

\* select, and nothing else in the main thread, is cut short by a signal.
Interrupt(d) == pc' = IF pc[d] = "select" THEN [pc EXCEPT ![d] = "test"] ELSE pc

\* The families that Bye is said over: IPv4, whether or not it has an address,
\* and IPv6 when it has one.
ByesTo(d) == {"v4"} \cup (addr[d] \cap {"v6"})

\* send_bye for each of them, of which those in said go out. Each takes a number
\* and nobody looks at what becomes of it: there may be no memory, sendto may
\* fail, and before JoinGroups the address of the group is not there yet.
SendByes(d, said) ==
  /\ number' = [number EXCEPT ![d] = @ + (IF "v6" \in addr[d] THEN 2 ELSE 1)]
  /\ bye' = [bye EXCEPT ![d] = [family \in Families |->
               IF family \in said THEN "said" ELSE IF family \in ByesTo(d) THEN "lost" ELSE "unsaid"]]
  /\ last' = CASE "v6" \in said -> [last EXCEPT ![d] = Message("Bye", number[d] + 2, "v6")]
               [] said = {"v4"} -> [last EXCEPT ![d] = Message("Bye", number[d] + 1, "v4")]
               [] OTHER -> last

\* Mutant: the socket stays open.
Mutant_SignalHandler(d) ==
  /\ Running(d)
  /\ Interrupt(d)
  /\ IF sock[d] = "open" /\ number[d] <= MaxNumber
     THEN \E said \in SUBSET ByesTo(d) : SendByes(d, said)
     ELSE UNCHANGED <<number, last, bye>>
  /\ exit_main' = [exit_main EXCEPT ![d] = TRUE]
  /\ UNCHANGED <<pidfile, sock, addr, out, to, announced>>

\* Mutant: exit_main is set only when there is a socket to close.
Mutant_SignalHandlerExit(d) ==
  /\ Running(d)
  /\ Interrupt(d)
  /\ IF sock[d] = "open"
     THEN /\ \E said \in SUBSET ByesTo(d) : SendByes(d, said)
          /\ sock' = [sock EXCEPT ![d] = "closed"]
          /\ exit_main' = [exit_main EXCEPT ![d] = TRUE]
     ELSE UNCHANGED <<number, last, bye, sock, exit_main>>
  /\ UNCHANGED <<pidfile, addr, out, to, announced>>

\* SIGTERM or SIGINT: the Byes, and the socket is closed.
SignalHandler(d) ==
  /\ Running(d)
  /\ Interrupt(d)
  /\ IF sock[d] = "open"
     THEN /\ \E said \in SUBSET ByesTo(d) : SendByes(d, said)
          /\ sock' = [sock EXCEPT ![d] = "closed"]
     ELSE UNCHANGED <<number, last, bye, sock>>
  /\ exit_main' = [exit_main EXCEPT ![d] = TRUE]
  /\ UNCHANGED <<pidfile, addr, out, to, announced>>

\* SIGKILL or a crash.
Dies(d) ==
  /\ Running(d)
  /\ pc' = [pc EXCEPT ![d] = "off"]
  /\ UNCHANGED <<pidfile, sock, addr, number, out, to, exit_main, last, announced, bye>>

-----------------------------------------------------------------------------
Main(d) ==
  \/ CreatePid(d) \/ StartFails(d) \/ OpenSocket(d) \/ JoinGroups(d)
  \/ NumberHello4(d) \/ SendHello4(d) \/ NumberHello6(d) \/ SendHello6(d)
  \/ EnterLoop(d) \/ TestExit(d) \/ Arm(d) \/ EnterSelect(d)
  \/ IgnoreDatagram(d) \/ HandleProbe(d) \/ SendProbeMatches(d)
  \/ CloseSocket(d) \/ UnlinkPid(d)

Next == \E d \in Daemons : CheckPid(d) \/ Main(d) \/ SelectReady(d) \/ SignalHandler(d) \/ Dies(d)

Spec == Init /\ [][Next]_vars

\* A daemon that can take a step takes it; nobody has to send it anything.
FairSpec == Spec /\ \A d \in Daemons : WF_vars(Main(d))

-----------------------------------------------------------------------------
\* The pid file, the daemons, their sockets and what they sent have their types.
TypeOK ==
  /\ pidfile \in Daemons \cup {NoPid}
  /\ pc \in [Daemons -> PcValues]
  /\ sock \in [Daemons -> {"none", "open", "closed"}]
  /\ addr \in [Daemons -> SUBSET Families]
  /\ number \in [Daemons -> Nat] /\ out \in [Daemons -> Nat]
  /\ to \in [Daemons -> Families]
  /\ exit_main \in [Daemons -> BOOLEAN]
  /\ last \in [Daemons -> [kind : Kinds, number : Nat, family : Families]]
  /\ announced \in [Daemons -> SUBSET Families]
  /\ bye \in [Daemons -> [Families -> Byes]]

\* The handler has been there while there was a socket: it has tried its Byes.
HasLeft(d) == bye[d]["v4"] # "unsaid"

(* The pid file keeps the daemons to one, through failed starts, crashes   *)
(* that leave the file behind, restarts and orderly ends, provided no two  *)
(* are started in the same instant.                                        *)
OneDaemon ==
  SerialStarts => \A d, e \in Daemons :
    (pc[d] \notin {"off", "create"} /\ pc[e] \notin {"off", "create"}) => d = e

(* AppSequence: in the life of a daemon each message has a larger number   *)
(* than the one before, although the handler numbers its Byes between any  *)
(* two steps of the main thread, and msg_number is set to 1 before Hello.  *)
NumbersGrow ==
  [][\A d \in Daemons :
       (last'[d] # last[d] /\ last'[d] # NoMessage) => last'[d].number > last[d].number]_vars

(* Once the handler has tried to say Bye no Hello and no ProbeMatches goes *)
(* out, whatever the main thread was about to send when the signal came,   *)
(* and also when the Bye was lost.                                         *)
NothingAfterBye ==
  [][\A d \in Daemons : (HasLeft(d) /\ Running(d)) => last'[d] = last[d]]_vars

(* Of a daemon that ends in order every family that it announced has heard *)
(* Bye, the last message that went out, or its Bye was tried and lost:     *)
(* nothing but a message that cannot be sent keeps a Bye back, whenever    *)
(* the signals come.                                                       *)
EndsWithBye ==
  \A d \in Daemons : pc[d] \in {"close", "unlink"} =>
    /\ HasLeft(d)
    /\ \A family \in announced[d] : bye[d][family] # "unsaid"
    /\ (\E family \in Families : bye[d][family] = "said") => last[d].kind = "Bye"

(* Hello and ProbeMatches carry the address of the family they are sent    *)
(* over, which the device has; no ProbeMatches goes out over IPv4 before   *)
(* the Hello.                                                              *)
AnswersCarryAnAddress ==
  \A d \in Daemons : Running(d) =>
    /\ last[d].kind \in {"Hello", "ProbeMatches"} => last[d].family \in addr[d]
    /\ last[d] = Message("ProbeMatches", last[d].number, "v4") => "v4" \in announced[d]

(* Who keeps sending SIGTERM stops the daemon. One signal is not enough:   *)
(* exit_main is reset after the Hellos, and a signal between its test and  *)
(* select closes the socket that select would wait for.                    *)
StopsWhenInsistent ==
  \A d \in Daemons : WF_vars(SignalHandler(d)) => (Running(d) ~> ~Running(d))

-----------------------------------------------------------------------------
(* What every step keeps.                                                  *)

\* At most one daemon runs, and the pid file names it once it is written.
OneRuns == SerialStarts => \A d, e \in Daemons : (Running(d) /\ Running(e)) => d = e
PidFileNames == SerialStarts => \A d \in Daemons : pc[d] \notin {"off", "create"} => pidfile = d

\* A running daemon has closed its socket exactly when it has tried its Byes, and
\* has one from setup on.
ClosedAfterBye == \A d \in Daemons : Running(d) => (sock[d] = "closed" <=> HasLeft(d))
HasSocket == \A d \in Daemons : Running(d) => (sock[d] = "none" <=> pc[d] \in {"create", "setup"})

\* In the loop exit_main is set by a handler that has tried its Byes, now or before.
ExitAfterBye == \A d \in Daemons : (pc[d] \in Loop /\ exit_main[d]) => HasLeft(d)

\* The families that are announced have an address, and none is left out when
\* the handler tries its Byes; the last that went out is the last message.
ByeToAll ==
  \A d \in Daemons : Running(d) =>
    /\ announced[d] \subseteq addr[d]
    /\ IF HasLeft(d) THEN \A family \in announced[d] : bye[d][family] # "unsaid"
       ELSE bye[d] = Unsaid
    /\ (\E family \in Families : bye[d][family] = "said") <=> last[d].kind = "Bye"

\* Before the first Hello there is at most a Bye, and nothing is announced.
Silent ==
  \A d \in Daemons :
    pc[d] \in {"create", "setup", "join", "hello4", "send4"} =>
      /\ last[d].kind = "Bye" \/ last[d] = NoMessage
      /\ announced[d] = {}

\* What is about to be sent has an address, and the Hello of IPv4 is behind the
\* rest of the program.
Addressed ==
  \A d \in Daemons :
    /\ pc[d] = "send4" => "v4" \in addr[d]
    /\ pc[d] = "send6" => "v6" \in addr[d]
    /\ pc[d] = "reply" => to[d] \in addr[d]
    /\ pc[d] \in {"hello6", "send6", "sleep"} \cup Loop => ("v4" \in addr[d] => "v4" \in announced[d])

\* While there is a socket, the last number sent is not above msg_number, and
\* the one to be sent is above the last.
Numbered ==
  \A d \in Daemons : (Running(d) /\ sock[d] = "open") =>
    /\ last[d].number <= number[d]
    /\ pc[d] \in {"send4", "send6", "reply"} => (last[d].number < out[d] /\ out[d] <= number[d])

IInv ==
  /\ TypeOK
  /\ OneRuns /\ PidFileNames
  /\ ClosedAfterBye /\ HasSocket /\ ExitAfterBye /\ ByeToAll /\ EndsWithBye
  /\ Silent /\ Addressed /\ AnswersCarryAnAddress /\ Numbered

=============================================================================
