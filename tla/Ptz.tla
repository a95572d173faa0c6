---------------------------------- MODULE Ptz ----------------------------------
(***************************************************************************)
(* The PTZ service: what each method makes of a request r on a device      *)
(* configured as c. A preset is <<number, name>>, numbers are written as   *)
(* digits, and list is what the device's get_presets command printed. The  *)
(* second half of SetPreset, after the command, is part of OnvifServer.    *)
(*                                                                         *)
(* A coordinate is "neg", "zero" or "pos" as a velocity, and "in" or "out" *)
(* of its limits as a position or a translation.                           *)
(***************************************************************************)
EXTENDS Service

PtzCommands ==
  {"get_position", "is_moving", "move_left", "move_right", "move_up", "move_down", "move_in",
   "move_out", "move_stop", "move_preset", "goto_home_position", "set_preset",
   "set_home_position", "remove_preset", "jump_to_abs", "jump_to_rel", "get_presets"}

PresetToken(preset) == <<"PresetToken", preset[1]>>
Node == Fixed("PTZNodeToken")
NoToken == Fault("NoToken")
PresetExist == Fault("PresetExist")
NoProfile == Fault("NoProfile")
NoPTZProfile == Fault("NoPTZProfile")

\* The tests that most methods begin with. Which profile it is does not matter.
ForProfile(c, r, plan) ==
  CASE ~Has(r, "ProfileToken") -> Only(NoProfile)
    [] Has(r, "ProfileToken") /\ c.ptz = 0 -> Only(NoPTZProfile)
    [] OTHER -> plan

\* Run one command of the configuration.
RunOne(c, name, with) ==
  IF name \in c.commands THEN Plan(<<Command(name, with)>>, Ok({})) ELSE Only(ActionFailed)

-----------------------------------------------------------------------------
(* Configuration and status. *)

ptz_supports_zoom(c) ==
  c.ptz = 1 /\ (c.zoom = "yes" \/ (c.zoom = "unset" /\ c.commands \intersect {"move_in", "move_out"} # {}))

ptz_get_service_capabilities(c, r) ==
  Ok({<<"MoveStatus", "", IF "is_moving" \in c.commands THEN "true" ELSE "false">>,
      <<"StatusPosition", "", IF "get_position" \in c.commands THEN "true" ELSE "false">>})

\* The spaces of a node or of a configuration; zoom spaces only with zoom.
Spaces(c) == IF ptz_supports_zoom(c) THEN {Listed(Fixed("ZoomSpace"))} ELSE {}
ptz_get_configurations(c, r) == Ok({Listed(Fixed("PTZCfgToken")), Listed(Node)} \union Spaces(c))
ptz_get_configuration(c, r) == Ok({Listed(Fixed("PTZCfgToken")), Listed(Node)} \union Spaces(c))
ptz_get_configuration_options(c, r) == Ok(Spaces(c))
ptz_get_nodes(c, r) == Ok({Listed(Node)} \union Spaces(c))

\* A request without a token is dereferenced.
ptz_get_node(c, r) ==
  CASE ~Has(r, "NodeToken") -> Undefined
    [] Has(r, "NodeToken") ->
         IF Arg(r, "NodeToken") = Node THEN Ok({Listed(Node)} \union Spaces(c)) ELSE Fault("NoEntity")

\* The position is read with one command and the movement with another; each
\* may print nothing.
ptz_get_status(c, r, position, moving) ==
  ForProfile(c, r,
    Only(IF /\ "get_position" \in c.commands /\ position
            /\ ("is_moving" \in c.commands => moving)
         THEN Ok({}) ELSE Fault("NoStatus")))

-----------------------------------------------------------------------------
(* Moves. *)

\* The command for a velocity, none for zero.
AxisCommand(r, axis, plus, minus) ==
  CASE ~Has(r, axis) -> <<>>
    [] Has(r, axis) -> CASE Arg(r, axis) = "pos" -> <<plus>>
                         [] Arg(r, axis) = "neg" -> <<minus>>
                         [] OTHER -> <<>>

\* Mutant: the axes that cannot be moved are passed over.
Mutant_ptz_continuous_move(c, r) ==
  LET wanted == AxisCommand(r, "x", "move_right", "move_left")
                  \o AxisCommand(r, "y", "move_up", "move_down")
                  \o AxisCommand(r, "z", "move_in", "move_out")
      there == SelectSeq(wanted, LAMBDA name : name \in c.commands)
  IN ForProfile(c, r, Plan([i \in DOMAIN there |-> Command(there[i], {})], Ok({})))

\* Pan, then tilt, then zoom: a command that is not configured ends the move
\* after those before it.
ptz_continuous_move(c, r) ==
  LET wanted == AxisCommand(r, "x", "move_right", "move_left")
                  \o AxisCommand(r, "y", "move_up", "move_down")
                  \o AxisCommand(r, "z", "move_in", "move_out")
      there == {n \in 0..Len(wanted) : \A i \in 1..n : wanted[i] \in c.commands}
      last == CHOOSE n \in there : \A m \in there : m <= n
  IN ForProfile(c, r,
       Plan([i \in 1..last |-> Command(wanted[i], {})],
            IF last = Len(wanted) THEN Ok({}) ELSE ActionFailed))

Missing(r, axis) == ~Has(r, axis)
Beyond(r, axis) == Has(r, axis) /\ Arg(r, axis) = "out"

\* The translation of pan and tilt in their own space: it needs both, within
\* their limits. The field of view has no zoom.
Translation(r, axes) ==
  IF Missing(r, "x") \/ Missing(r, "y") \/ \E a \in axes : Beyond(r, a)
  THEN Only(Fault("InvalidTranslation")) ELSE Plan(<<Command("jump_to_rel", {})>>, Ok({}))

\* What is not said is never written: the nodes without Translation, the
\* command of a zoom alone or of an unknown space. The space of a zoom is
\* compared without asking whether there is one.
ptz_relative_move(c, r) ==
  LET space == IF Has(r, "space") THEN Arg(r, "space") ELSE "generic"
      zoomAlone == Missing(r, "x") /\ Missing(r, "y") /\ Has(r, "z")
  IN ForProfile(c, r,
       CASE "jump_to_rel" \notin c.commands -> Only(ActionFailed)
         [] "jump_to_rel" \in c.commands ->
              IF \/ ~Has(r, "Translation") \/ ~Has(r, "PanTilt")
                 \/ Has(r, "Zoom") /\ ~Has(r, "zspace")
                 \/ space \notin {"generic", "fov"}
                 \/ space = "fov" /\ zoomAlone
              THEN Only(Undefined)
              ELSE Translation(r, IF space = "fov" THEN {"x", "y"} ELSE {"x", "y", "z"}))

\* A zoom alone passes the tests, and runs a command that was never written.
ptz_absolute_move(c, r) ==
  ForProfile(c, r,
    CASE "jump_to_abs" \notin c.commands -> Only(ActionFailed)
      [] "jump_to_abs" \in c.commands ->
           IF Missing(r, "x") /\ Missing(r, "y") /\ Has(r, "z") THEN Only(Undefined)
           ELSE IF Missing(r, "x") \/ Missing(r, "y") \/ \E a \in {"x", "y", "z"} : Beyond(r, a)
           THEN Only(Fault("InvalidPosition"))
           ELSE Plan(<<Command("jump_to_abs", {})>>, Ok({})))

\* Both unless one is said to be false; neither is answered without a command.
ptz_stop(c, r) ==
  LET stops == {a \in {"PanTilt", "Zoom"} : Has(r, a) => Arg(r, a) # "false"}
  IN ForProfile(c, r,
       CASE "move_stop" \notin c.commands -> Only(ActionFailed)
         [] "move_stop" \in c.commands ->
              IF stops = {} THEN Only(Ok({})) ELSE RunOne(c, "move_stop", {<<"stop", a>> : a \in stops}))

ptz_goto_home_position(c, r) == ForProfile(c, r, RunOne(c, "goto_home_position", {}))
ptz_set_home_position(c, r) == ForProfile(c, r, RunOne(c, "set_home_position", {}))

-----------------------------------------------------------------------------
(* Presets. *)

\* init_presets: the list stays empty when there is no command.
init_presets(c, printed) == IF "get_presets" \in c.commands THEN printed ELSE {}

ptz_get_presets(c, r, list) ==
  ForProfile(c, r, Only(Ok({<<"PresetToken", preset[1], preset[2]>> : preset \in list})))

\* sscanf(token, "PresetToken_%d") = 1
IsPresetToken(t) == t[1] = "PresetToken"
Numbered(list, t) == {preset \in list : PresetToken(preset) = t}

\* A request for a preset without a token is dereferenced.
ForPreset(c, r, plan) ==
  ForProfile(c, r,
    CASE ~Has(r, "PresetToken") -> Only(Undefined)
      [] Has(r, "PresetToken") -> IF IsPresetToken(Arg(r, "PresetToken")) THEN plan ELSE Only(NoToken))

ptz_goto_preset(c, r, list) ==
  ForPreset(c, r,
    IF Numbered(list, Arg(r, "PresetToken")) = {} THEN Only(NoToken)
    ELSE RunOne(c, "move_preset", {Arg(r, "PresetToken")}))

\* Whether there is such a preset is left to the command.
ptz_remove_preset(c, r) ==
  ForPreset(c, r, RunOne(c, "remove_preset", {Arg(r, "PresetToken")}))

\* is_safe_preset_name
Unsafe == "no name;"

\* Mutant: an update is compared with its own name too, and an add with none.
Mutant_Clashes(r, list, name) ==
  Has(r, "PresetToken") /\ \E preset \in list : preset[2] = name

\* Another preset has the name already.
Clashes(r, list, name) ==
  \E preset \in list :
    preset[2] = name /\ (Has(r, "PresetToken") => PresetToken(preset) # Arg(r, "PresetToken"))

\* The name of the new or updated preset: one made of a new UUID for an add
\* without a name, the old one for an update without a name.
NewName(r, list, uuid) ==
  IF Has(r, "PresetName") THEN Arg(r, "PresetName")
  ELSE IF Has(r, "PresetToken")
  THEN (CHOOSE preset \in Numbered(list, Arg(r, "PresetToken")) : TRUE)[2] ELSE uuid

\* The first half of SetPreset: a fault, or the set_preset command with the
\* token of the preset, "-1" for a new one, and its name.
ptz_set_preset(c, r, list, uuid) ==
  LET updates == Has(r, "PresetToken")
      unknown == updates /\ Numbered(list, Arg(r, "PresetToken")) = {}
      which == IF updates THEN Arg(r, "PresetToken") ELSE <<"PresetToken", "-1">>
  IN ForProfile(c, r,
       CASE unknown -> Only(NoToken)
         [] ~unknown ->
              IF Has(r, "PresetName") /\ Arg(r, "PresetName") = Unsafe THEN Only(Fault("InvalidPresetName"))
              ELSE IF Clashes(r, list, NewName(r, list, uuid)) THEN Only(PresetExist)
              ELSE RunOne(c, "set_preset", {which, <<"name", NewName(r, list, uuid)>>}))

\* Mutant: an update is counted too.
Mutant_SetPresetAnswer(r, name, total, list) ==
  LET named == {preset \in list : preset[2] = name}
  IN IF Cardinality(list) = total THEN {Fault("TooManyPresets")}
     ELSE IF named = {} THEN {Ok({<<"PresetToken", "", name>>})}
     ELSE {Ok({<<"PresetToken", preset[1], name>>}) : preset \in named}

\* The second half, with the list read again: adding is refused when there are
\* as many presets (total) as before. The token is that of a preset with the name,
\* empty when there is none.
SetPresetAnswer(r, name, total, list) ==
  LET named == {preset \in list : preset[2] = name}
  IN IF ~Has(r, "PresetToken") /\ Cardinality(list) = total
     THEN {Fault("TooManyPresets")}
     ELSE IF named = {} THEN {Ok({<<"PresetToken", "", name>>})}
     ELSE {Ok({<<"PresetToken", preset[1], name>>}) : preset \in named}
================================================================================
