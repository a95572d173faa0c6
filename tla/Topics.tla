-------------------------------- MODULE Topics ---------------------------------
(***************************************************************************)
(* Topic expressions: utils.c 1657-1786. A topic is a sequence of pieces   *)
(* of its name; pieces are not the levels of the topic, since the code     *)
(* compares characters: <<"MotionAlarm">> is a prefix of                   *)
(* <<"MotionAlarm", "Ended">>. An expression is a sequence of terms, which *)
(* are separated by | in the text: the topic, whether the term ends in     *)
(* //. and whether it has no more than three characters.                   *)
(***************************************************************************)
EXTENDS Sequences, SequencesExt

\* One term that is too short makes the whole expression useless.
parse_topic_expression(te) == IF \E i \in DOMAIN te : te[i].short THEN {} ELSE {te[i] : i \in DOMAIN te}

\* The empty expression is no filter.
is_topic_in_expression(te, topic) ==
  te = <<>> \/ \E term \in parse_topic_expression(te) :
                 IF term.sub THEN IsPrefix(term.topic, topic) ELSE term.topic = topic

\* What a subscription keeps of the text of a request: nothing of a long one.
Kept(text) == IF text.fits THEN text.terms ELSE <<>>

\* The events that a subscription made with this text is about.
Covered(text, topics) == {e \in DOMAIN topics : is_topic_in_expression(Kept(text), topics[e])}
================================================================================
