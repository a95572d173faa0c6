---------------------------- MODULE MCEventService ----------------------------
(* EventService on small instances. *)
EXTENDS EventService, Topics, TLC

CgiSymmetry == Permutations(Cgi)

\* Two events; the name of the second topic begins with that of the first.
MCTopics == << <<"RuleEngine", "PeopleDetect">>, <<"RuleEngine", "PeopleDetect", "ion">> >>

Term(topic, sub) == [topic |-> topic, sub |-> sub, short |-> FALSE]
Short            == [topic |-> <<"?">>, sub |-> FALSE, short |-> TRUE]
Texts ==
  {[fits |-> TRUE,  terms |-> <<>>],
   [fits |-> FALSE, terms |-> <<Term(MCTopics[2], FALSE)>>],
   [fits |-> TRUE,  terms |-> <<Term(MCTopics[1], TRUE)>>],
   [fits |-> TRUE,  terms |-> <<Term(MCTopics[1], FALSE), Term(MCTopics[2], FALSE)>>],
   [fits |-> TRUE,  terms |-> <<Term(MCTopics[2], FALSE)>>],
   [fits |-> TRUE,  terms |-> <<Term(MCTopics[2], TRUE)>>],
   [fits |-> TRUE,  terms |-> <<Term(MCTopics[1], FALSE), Short>>]}

\* What these texts are about: both events, the second alone, or, since one term
\* is too short, none.
SomeTopics == {Covered(text, MCTopics) : text \in Texts}
AllTopics   == {1..EventsNum}

NoFiles  == {[e \in Events |-> FALSE]}
SecondFile == {[e \in Events |-> e = 2]}
AnyFiles == [Events -> BOOLEAN]
=============================================================================
