----------------------------- MODULE Subscriptions -----------------------------
(***************************************************************************)
(* What the events service promises the subscriber of a pull point or of   *)
(* notifications: a subscription is one thing from its creation to its     *)
(* end, whatever slot of the table it is in and whoever had that slot      *)
(* before. The messages that wait for it go to its own client and to       *)
(* nobody else, each is the value of the event at that time, and what is   *)
(* not sent keeps waiting. Creating, changing, pulling and ending are one  *)
(* step each; there are no slots, bits, locks or clocks.                   *)
(***************************************************************************)
EXTENDS Integers

CONSTANTS Numbers,  \* of subscriptions, in the order of their creation
          Events    \* in the order of the configuration

VARIABLES value,    \* of each event, as the daemon knows it
          file,     \* is the event's file there?
          sub,      \* the subscriptions by number
          taken     \* numbers that were given

vars == <<value, file, sub, taken>>

\* What a client was told of an event: nothing before it has its answer, then
\* nothing yet, then a value, or less than that after a change it missed.
Unset == [e \in Events |-> "unset"]
Answered(heard) == [e \in Events |-> IF heard[e] = "unset" THEN "never" ELSE heard[e]]
Value(v) == IF v THEN "true" ELSE "false"
IsValue(t) == t \in {"true", "false"}

\* No subscription, or not any more.
None == [kind |-> "none", topic |-> {}, waiting |-> {}, heard |-> Unset]
Alive == {n \in Numbers : sub[n].kind # "none"}

Init ==
  /\ value = [e \in Events |-> FALSE] /\ file \in [Events -> BOOLEAN]
  /\ sub = [n \in Numbers |-> None] /\ taken = {}

\* A subscription begins under a new number. Until its creation is complete
\* there may be messages from before it.
Create ==
  /\ UNCHANGED <<value, file>>
  /\ \E n \in Numbers \ taken :
       /\ taken' = taken \union {n}
       /\ \E kind \in {"pull", "push"}, topic, waiting \in SUBSET Events :
            sub' = [sub EXCEPT ![n] = [kind |-> kind, topic |-> topic,
                                       waiting |-> waiting, heard |-> Unset]]

\* One subscription changes: what waits to be sent and what its client knows.
Becomes(n, waiting, heard) ==
  sub' = [sub EXCEPT ![n] = [kind |-> sub[n].kind, topic |-> sub[n].topic,
                             waiting |-> waiting, heard |-> heard]]

\* The client has its answer: all events of its topics wait to be sent.
Complete ==
  /\ UNCHANGED <<value, file, taken>>
  /\ \E n \in Alive :
       Becomes(n, sub[n].waiting \union sub[n].topic, Answered(sub[n].heard))

\* They are to be sent again.
Resend ==
  /\ UNCHANGED <<value, file, taken>>
  /\ \E n \in Alive :
       Becomes(n, sub[n].waiting \union sub[n].topic, sub[n].heard)

\* An event gets a value: pull clients of the topic have a message, push clients
\* are told. Those whose time is over miss it.
After(s, e, v, misses) ==
  CASE misses -> [s EXCEPT !.heard[e] = IF IsValue(@) THEN "gap" ELSE @]
    [] ~misses /\ s.kind = "push" -> [s EXCEPT !.heard[e] = Value(v)]
    [] ~misses /\ s.kind = "pull" /\ e \in s.topic -> [s EXCEPT !.waiting = @ \union {e}]
    [] OTHER -> s
Change ==
  /\ UNCHANGED <<file, taken>>
  /\ \E e \in Events, v \in BOOLEAN, late \in SUBSET Alive :
       /\ value' = [value EXCEPT ![e] = v]
       /\ sub' = [n \in Numbers |-> After(sub[n], e, v, n \in late)]

\* A pull client is sent the first of its messages, perhaps none.
Pull ==
  /\ UNCHANGED <<value, file, taken>>
  /\ \E n \in Alive : \E sent \in SUBSET sub[n].waiting :
       /\ sub[n].kind = "pull"
       /\ \A e \in sent, d \in sub[n].waiting : d < e => d \in sent
       /\ Becomes(n, sub[n].waiting \ sent,
                  [e \in Events |-> IF e \in sent THEN Value(value[e]) ELSE sub[n].heard[e]])

\* A push client is sent the state of the files, unless its time is over.
Push ==
  /\ UNCHANGED <<value, file, taken>>
  /\ \E n \in Alive, late \in BOOLEAN :
       /\ sub[n].kind = "push" /\ sub[n].waiting = sub[n].topic
       /\ Becomes(n, {}, [e \in Events |->
                            IF e \notin sub[n].topic THEN sub[n].heard[e]
                            ELSE IF late THEN "gap" ELSE Value(file[e])])

\* Subscriptions end.
Cease ==
  /\ UNCHANGED <<value, file, taken>>
  /\ \E gone \in SUBSET Alive :
       sub' = [n \in Numbers |-> IF n \in gone THEN None ELSE sub[n]]

\* A file comes or goes.
Flip ==
  /\ UNCHANGED <<value, sub, taken>>
  /\ \E e \in Events : file' = [file EXCEPT ![e] = ~@]

Next == Cease \/ Flip \/ Create \/ Complete \/ Resend \/ Change \/ Pull \/ Push

Spec == Init /\ [][Next]_vars
================================================================================
