------------------------------ MODULE PresetStore ------------------------------
(***************************************************************************)
(* What SetPreset and RemovePreset promise of the presets of a device,     *)
(* when its clients wait for one another: the change and its outcome are   *)
(* one step, and the client is told that outcome. Names stay different.    *)
(***************************************************************************)
EXTENDS Naturals, FiniteSets

CONSTANTS Numbers, Names,  \* of presets
          None             \* no outcome

VARIABLES store,    \* presets of the device: <<number, name>>
          outcome,  \* what happened to the request, until it is answered
          told      \* what the last client to be answered was told

vars == <<store, outcome, told>>

Added(number) == <<"added", number>>
Full == <<"full", "">>
Outcomes == {Added(n) : n \in Numbers} \union {Full}

Used == {preset[1] : preset \in store}
Taken == {preset[2] : preset \in store}

Init ==
  /\ store \in SUBSET (Numbers \X Names)
  /\ \A a, b \in store : a[1] = b[1] \/ a[2] = b[2] => a = b
  /\ outcome = None /\ told = None

\* A preset with a new name is stored under a free number.
Add ==
  \E number \in Numbers \ Used, name \in Names \ Taken :
    /\ outcome = None
    /\ store' = store \union {<<number, name>>}
    /\ outcome' = Added(number) /\ told' = None

\* There is no room for one.
Refuse ==
  /\ outcome = None
  /\ outcome' = Full /\ told' = None
  /\ UNCHANGED store

\* A preset gets a name, which may be the one it has.
Update ==
  \E preset \in store, name \in Names :
    /\ name \notin Taken \ {preset[2]}
    /\ outcome = None
    /\ store' = (store \ {preset}) \union {<<preset[1], name>>}
    /\ outcome' = Added(preset[1]) /\ told' = None

\* A preset is removed.
Remove ==
  \E preset \in store :
    /\ outcome = None
    /\ store' = store \ {preset}
    /\ told' = None
    /\ UNCHANGED outcome

\* The client is told the outcome of its request.
Tell ==
  /\ outcome # None
  /\ told' = outcome /\ outcome' = None
  /\ UNCHANGED store

\* Another answer is given, or the device restarts.
Forget ==
  /\ told' = None
  /\ outcome' \in {outcome, None}
  /\ UNCHANGED store

Next == Add \/ Refuse \/ Update \/ Remove \/ Tell \/ Forget

Spec == Init /\ [][Next]_vars
================================================================================
