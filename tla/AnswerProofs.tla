------------------------------ MODULE AnswerProofs -----------------------------
(***************************************************************************)
(* Proofs about the answers of OnvifServer, for any devices, files,        *)
(* clients and requests: that there is one, and that it is not "ok" for    *)
(* what was not done. They need what each method plans and answers.        *)
(***************************************************************************)
EXTENDS PresetProofs

-----------------------------------------------------------------------------
(* What a plan does when its answer is "ok". *)

\* All that the request wants, or a command that is not configured, or the
\* command of a relay that is blank.
Enough(c, r, plan) ==
  plan.answer.kind = "ok" =>
    \/ Wanted(c, r) \subseteq NamesOf(plan.run)
    \/ "(null)" \in NamesOf(plan.run)
    \/ SetsBlankRelay(c, r) /\ plan.run = <<>>

LEMMA NamesOfOne ==
  /\ NamesOf(<<>>) = {}
  /\ \A command : NamesOf(<<command>>) = {command.name}
  BY DEF NamesOf

\* The plan is refused, or what is left of it when nothing was refused.
LEMMA EnoughAfterTests ==
  ASSUME NEW c, NEW r, NEW plan, Enough(c, r, plan)
  PROVE  Enough(c, r, ForProfile(c, r, plan)) /\ Enough(c, r, ForPreset(c, r, plan))
<1>1. /\ NoProfile.kind # "ok" /\ NoPTZProfile.kind # "ok" /\ NoToken.kind # "ok" /\ Undefined.kind # "ok"
  BY DEF NoProfile, NoPTZProfile, NoToken, Undefined, Fault
<1>2. \A answer : answer.kind # "ok" => Enough(c, r, Only(answer))
  BY OnlyAnswers DEF Enough
<1>3. \A q : Enough(c, r, q) => Enough(c, r, ForProfile(c, r, q))
  BY <1>1, <1>2 DEF ForProfile
<1>4. Enough(c, r, CASE ~Has(r, "PresetToken") -> Only(Undefined)
                     [] Has(r, "PresetToken") -> IF IsPresetToken(Arg(r, "PresetToken")) THEN plan ELSE Only(NoToken))
  BY <1>1, <1>2
<1> QED
  BY <1>3, <1>4 DEF ForPreset

\* One command that is all there is to do.
LEMMA EnoughIsOne ==
  ASSUME NEW c, NEW r, NEW name, Wanted(c, r) = {name}
  PROVE  /\ \A with, answer : Enough(c, r, Plan(<<Command(name, with)>>, answer))
         /\ \A with : Enough(c, r, RunOne(c, name, with))
         /\ \A answer : answer.kind # "ok" => Enough(c, r, Only(answer))
<1>1. \A with, answer : Enough(c, r, Plan(<<Command(name, with)>>, answer))
  BY NamesOfOne, Commands DEF Enough
<1>2. ActionFailed.kind # "ok"
  BY DEF ActionFailed, Fault
<1>3. \A answer : answer.kind # "ok" => Enough(c, r, Only(answer))
  BY OnlyAnswers DEF Enough
<1> QED
  BY <1>1, <1>2, <1>3 DEF RunOne

LEMMA EnoughOfOne ==
  ASSUME NEW c, NEW r, NEW name, Wanted(c, r) = {name}, NEW plan,
         plan.answer.kind # "ok" \/ \E with : plan.run = <<Command(name, with)>>
  PROVE  Enough(c, r, plan)
<1>1. CASE \E with : plan.run = <<Command(name, with)>>
  <2>1. PICK with : plan.run = <<Command(name, with)>>
    BY <1>1
  <2>2. NamesOf(plan.run) = {Command(name, with).name}
    BY <2>1, NamesOfOne
  <2>3. Command(name, with).name = name
    BY DEF Command
  <2> QED
    BY <2>2, <2>3 DEF Enough
<1>2. CASE plan.answer.kind # "ok"
  BY <1>2 DEF Enough
<1> QED
  BY <1>1, <1>2

LEMMA EnoughOfPresets ==
  ASSUME NEW c, NEW r, NEW list, NEW uuid, r.service = "ptz_service"
  PROVE  /\ r.method = "SetPreset" => Enough(c, r, ptz_set_preset(c, r, list, uuid))
         /\ r.method = "RemovePreset" => Enough(c, r, ptz_remove_preset(c, r))
         /\ r.method = "GotoPreset" => Enough(c, r, ptz_goto_preset(c, r, list))
<1>1. CASE r.method = "SetPreset"
  <2>1. Wanted(c, r) = {"set_preset"}
    BY <1>1 DEF Wanted, Movements
  <2>2. \/ ptz_set_preset(c, r, list, uuid).answer.kind # "ok"
        \/ ptz_set_preset(c, r, list, uuid) = Plan(<<SetPresetCommand(r, list, uuid)>>, Ok({}))
    BY PlanOfSetPreset
  <2>3. CASE ptz_set_preset(c, r, list, uuid) = Plan(<<SetPresetCommand(r, list, uuid)>>, Ok({}))
    <3>1. \A with, answer : Enough(c, r, Plan(<<Command("set_preset", with)>>, answer))
      BY <2>1, EnoughIsOne
    <3> QED
      BY <1>1, <2>3, <3>1 DEF SetPresetCommand
  <2>4. CASE ptz_set_preset(c, r, list, uuid).answer.kind # "ok"
    BY <1>1, <2>4 DEF Enough
  <2> QED
    BY <1>1, <2>2, <2>3, <2>4
<1>2. CASE r.method = "RemovePreset"
  <2>1. Wanted(c, r) = {"remove_preset"}
    BY <1>2 DEF Wanted, Movements
  <2> QED
    BY <1>2, <2>1, EnoughIsOne, EnoughAfterTests DEF ptz_remove_preset
<1>3. CASE r.method = "GotoPreset"
  <2>1. Wanted(c, r) = {"move_preset"}
    BY <1>3 DEF Wanted, Movements
  <2>2. NoToken.kind # "ok"
    BY DEF NoToken, Fault
  <2> QED
    BY <1>3, <2>1, <2>2, EnoughIsOne, EnoughAfterTests DEF ptz_goto_preset
<1> QED
  BY <1>1, <1>2, <1>3

LEMMA EnoughOfMoves ==
  ASSUME NEW c, NEW r, r.service = "ptz_service"
  PROVE  /\ r.method = "GotoHomePosition" => Enough(c, r, ptz_goto_home_position(c, r))
         /\ r.method = "SetHomePosition" => Enough(c, r, ptz_set_home_position(c, r))
         /\ r.method = "RelativeMove" => Enough(c, r, ptz_relative_move(c, r))
         /\ r.method = "AbsoluteMove" => Enough(c, r, ptz_absolute_move(c, r))
<1>n. /\ ActionFailed.kind # "ok" /\ Undefined.kind # "ok"
      /\ Fault("InvalidTranslation").kind # "ok" /\ Fault("InvalidPosition").kind # "ok"
  BY DEF ActionFailed, Undefined, Fault
<1>1. CASE r.method = "GotoHomePosition"
  <2>1. Wanted(c, r) = {"goto_home_position"}
    BY <1>1 DEF Wanted, Movements
  <2> QED
    BY <1>1, <2>1, EnoughIsOne, EnoughAfterTests DEF ptz_goto_home_position
<1>2. CASE r.method = "SetHomePosition"
  <2>1. Wanted(c, r) = {"set_home_position"}
    BY <1>2 DEF Wanted, Movements
  <2> QED
    BY <1>2, <2>1, EnoughIsOne, EnoughAfterTests DEF ptz_set_home_position
<1>3. CASE r.method = "RelativeMove"
  <2>1. Wanted(c, r) = {"jump_to_rel"}
    BY <1>3 DEF Wanted, Movements
  <2>2. \A axes : Enough(c, r, Translation(r, axes))
    BY <1>n, <2>1, EnoughIsOne DEF Translation
  <2> QED
    BY <1>3, <1>n, <2>1, <2>2, EnoughIsOne, EnoughAfterTests DEF ptz_relative_move
<1>4. CASE r.method = "AbsoluteMove"
  <2>1. Wanted(c, r) = {"jump_to_abs"}
    BY <1>4 DEF Wanted, Movements
  <2> QED
    BY <1>4, <1>n, <2>1, EnoughIsOne, EnoughAfterTests DEF ptz_absolute_move
<1> QED
  BY <1>1, <1>2, <1>3, <1>4

\* The command of an axis is the one that is wanted for it.
LEMMA AxisWants ==
  ASSUME NEW r, NEW axis \in DOMAIN Axes
  PROVE  LET run == AxisCommand(r, axis, Axes[axis].pos, Axes[axis].neg) IN
           axis \in Moving(r) => run = <<Axes[axis][Arg(r, axis)]>>
<1>1. DOMAIN Axes[axis] = {"pos", "neg"}
  BY DEF Axes
<1> QED
  BY <1>1 DEF AxisCommand, Moving

LEMMA EnoughOfContinuousMove ==
  ASSUME NEW c, NEW r, r.service = "ptz_service", r.method = "ContinuousMove"
  PROVE  Enough(c, r, ptz_continuous_move(c, r))
<1> DEFINE x == AxisCommand(r, "x", "move_right", "move_left")
           y == AxisCommand(r, "y", "move_up", "move_down")
           z == AxisCommand(r, "z", "move_in", "move_out")
           wanted == x \o y \o z
           there == {n \in 0..Len(wanted) : \A i \in 1..n : wanted[i] \in c.commands}
           most == CHOOSE n \in there : \A m \in there : m <= n
           run == [i \in 1..most |-> Command(wanted[i], {})]
           plan == Plan(run, IF most = Len(wanted) THEN Ok({}) ELSE ActionFailed)
<1>1. ptz_continuous_move(c, r) = ForProfile(c, r, plan)
  BY DEF ptz_continuous_move
<1>2. x \in Seq(MoveNames) /\ y \in Seq(MoveNames) /\ z \in Seq(MoveNames)
      /\ Len(x) <= 1 /\ Len(y) <= 1 /\ Len(z) <= 1
  BY AxisCommands DEF MoveNames
<1>3. /\ "x" \in Moving(r) => x = <<Axes["x"][Arg(r, "x")]>>
      /\ "y" \in Moving(r) => y = <<Axes["y"][Arg(r, "y")]>>
      /\ "z" \in Moving(r) => z = <<Axes["z"][Arg(r, "z")]>>
  <2>1. /\ DOMAIN Axes = {"x", "y", "z"}
        /\ Axes["x"].pos = "move_right" /\ Axes["x"].neg = "move_left"
        /\ Axes["y"].pos = "move_up" /\ Axes["y"].neg = "move_down"
        /\ Axes["z"].pos = "move_in" /\ Axes["z"].neg = "move_out"
    BY DEF Axes
  <2> QED
    BY <2>1, AxisWants
<1>4. Moving(r) \subseteq {"x", "y", "z"}
  BY DEF Moving, Axes
<1>5. Wanted(c, r) = {Axes[a][Arg(r, a)] : a \in Moving(r)}
  <2>1. "ContinuousMove" \notin DOMAIN Movements
    BY DEF Movements
  <2> QED
    BY <2>1, Zenon DEF Wanted
<1> HIDE DEF x, y, z
<1>6. \A name \in Wanted(c, r) : \E i \in 1..Len(wanted) : wanted[i] = name
  <2>1. "x" \in Moving(r) => wanted[1] = Axes["x"][Arg(r, "x")] /\ 1 \in 1..Len(wanted)
    BY <1>2, <1>3
  <2>2. "y" \in Moving(r) => wanted[Len(x) + 1] = Axes["y"][Arg(r, "y")] /\ Len(x) + 1 \in 1..Len(wanted)
    BY <1>2, <1>3
  <2>3. "z" \in Moving(r) =>
          wanted[Len(x) + Len(y) + 1] = Axes["z"][Arg(r, "z")] /\ Len(x) + Len(y) + 1 \in 1..Len(wanted)
    BY <1>2, <1>3
  <2> HIDE DEF wanted
  <2> QED
    BY <1>4, <1>5, <2>1, <2>2, <2>3
<1> HIDE DEF wanted, most
<1>7. most = Len(wanted) => Wanted(c, r) \subseteq NamesOf(run)
  BY <1>6 DEF NamesOf, Command
<1>8. ActionFailed.kind # "ok"
  BY DEF ActionFailed, Fault
<1>9. Enough(c, r, plan)
  BY <1>7, <1>8 DEF Enough, Plan
<1> QED
  BY <1>1, <1>9, EnoughAfterTests

LEMMA EnoughOfPtz ==
  ASSUME NEW c, NEW r, NEW w, r.service = "ptz_service"
  PROVE  Enough(c, r, ptz_service(c, r, w))
<1> DEFINE plan == ptz_service(c, r, w)
           list == init_presets(c, w.list)
<1>1. CASE r.method \in DOMAIN Movements
  <2>1. r.method \in {"GotoPreset", "GotoHomePosition", "RelativeMove", "AbsoluteMove", "SetPreset",
                      "SetHomePosition", "RemovePreset"}
    BY <1>1 DEF Movements
  <2>2. /\ r.method = "GotoPreset" => plan = ptz_goto_preset(c, r, list)
        /\ r.method = "GotoHomePosition" => plan = ptz_goto_home_position(c, r)
        /\ r.method = "RelativeMove" => plan = ptz_relative_move(c, r)
        /\ r.method = "AbsoluteMove" => plan = ptz_absolute_move(c, r)
        /\ r.method = "SetPreset" => plan = ptz_set_preset(c, r, list, w.uuid)
        /\ r.method = "SetHomePosition" => plan = ptz_set_home_position(c, r)
        /\ r.method = "RemovePreset" => plan = ptz_remove_preset(c, r)
    BY DEF ptz_service
  <2> QED
    BY <2>1, <2>2, EnoughOfPresets, EnoughOfMoves
<1>2. CASE r.method = "ContinuousMove"
  <2>1. plan = ptz_continuous_move(c, r)
    BY <1>2 DEF ptz_service
  <2> QED
    BY <1>2, <2>1, EnoughOfContinuousMove
<1>3. CASE r.method \notin DOMAIN Movements \union {"ContinuousMove"}
  <2>1. Wanted(c, r) = {}
    BY <1>3 DEF Wanted
  <2> QED
    BY <2>1 DEF Enough
<1> QED
  BY <1>1, <1>2, <1>3

LEMMA EnoughOfImaging ==
  ASSUME NEW c, NEW r, r.service = "imaging_service"
  PROVE  Enough(c, r, imaging_service(c, r))
<1>1. /\ ActionNotSupported.kind # "ok" /\ \A code : Fault(code).kind # "ok"
      /\ I!ActionNotSupported.kind # "ok" /\ I!NoSource.kind # "ok" /\ \A code : I!Fault(code).kind # "ok"
  BY DEF ActionNotSupported, Fault, I!ActionNotSupported, I!NoSource, I!Fault
<1>2. /\ \A answer : I!Only(answer).answer = answer
      /\ \A name, with, answer : I!Plan(<<I!Command(name, with)>>, answer).run = <<Command(name, with)>>
  BY DEF I!Only, I!Plan, I!Command, Command
<1>3. CASE r.method = "SetImagingSettings"
  <2>1. Wanted(c, r) = {"imaging_set_command"}
    BY <1>3 DEF Wanted
  <2>2. \/ imaging_service(c, r) = Only(ActionNotSupported)
        \/ imaging_service(c, r) = I!imaging_set_imaging_settings(c, r)
    BY <1>3 DEF imaging_service
  <2>3. LET plan == I!imaging_set_imaging_settings(c, r) IN
          plan.answer.kind # "ok" \/ \E with : plan.run = <<Command("imaging_set_command", with)>>
    BY <1>1, <1>2 DEF I!imaging_set_imaging_settings
  <2>4. \A plan : plan.answer.kind # "ok" \/ (\E with : plan.run = <<Command("imaging_set_command", with)>>)
                      => Enough(c, r, plan)
    BY <2>1, EnoughOfOne
  <2> QED
    BY <1>1, <2>2, <2>3, <2>4, OnlyAnswers
<1>4. CASE r.method = "Move"
  <2>1. Wanted(c, r) = {"imaging_focus_command"}
    BY <1>4 DEF Wanted
  <2>2. \/ imaging_service(c, r) = Only(ActionNotSupported)
        \/ imaging_service(c, r) = I!imaging_move(c, r)
    BY <1>4 DEF imaging_service
  <2>3. LET plan == I!imaging_move(c, r) IN
          plan.answer.kind # "ok" \/ \E with : plan.run = <<Command("imaging_focus_command", with)>>
    BY <1>1, <1>2 DEF I!imaging_move, I!run_focus
  <2>4. \A plan : plan.answer.kind # "ok" \/ (\E with : plan.run = <<Command("imaging_focus_command", with)>>)
                      => Enough(c, r, plan)
    BY <2>1, EnoughOfOne
  <2> QED
    BY <1>1, <2>2, <2>3, <2>4, OnlyAnswers
<1>5. CASE r.method \notin {"SetImagingSettings", "Move"}
  <2>1. Wanted(c, r) = {}
    BY <1>5 DEF Wanted
  <2> QED
    BY <2>1 DEF Enough
<1> QED
  BY <1>3, <1>4, <1>5

\* The command of the relay that the token names, or one that cannot succeed, or
\* none when it is blank.
LEMMA EnoughOfDeviceIO ==
  ASSUME NEW c, NEW r, r.service = "deviceio_service"
  PROVE  Enough(c, r, deviceio_service(c, r))
<1>1. CASE r.method # "SetRelayOutputState"
  <2>1. Wanted(c, r) = {}
    BY <1>1 DEF Wanted
  <2> QED
    BY <2>1 DEF Enough
<1>2. CASE r.method = "SetRelayOutputState"
  <2> DEFINE relay == IF Has(r, "RelayOutputToken") THEN DIO!Relay(c, Arg(r, "RelayOutputToken")) ELSE {}
             state(i) == IF (Arg(r, "LogicalState") = "active") = (c.relays[i].idle = "open") THEN "close" ELSE "open"
             it == CHOOSE i \in relay : TRUE
             plan == DIO!deviceio_set_relay_output_state(c, r)
  <2>1. deviceio_service(c, r) = plan
    BY <1>2 DEF deviceio_service
  <2>2. /\ DIO!NoRelay.kind # "ok" /\ DIO!Undefined.kind # "ok"
        /\ \A answer : DIO!Only(answer).answer = answer
        /\ \A run, answer : DIO!Plan(run, answer).run = run
        /\ \A name, with : DIO!Command(name, with) = Command(name, with)
        /\ DIO!Null # <<"">>
        /\ \A element : DIO!Has(r, element) = Has(r, element) /\ DIO!Arg(r, element) = Arg(r, element)
    BY DEF DIO!NoRelay, DIO!Fault, DIO!Undefined, DIO!Only, DIO!Plan, DIO!Command, Command, DIO!Null,
           DIO!Has, Has, DIO!Arg, Arg
  <2>3. CASE relay = {} \/ ~Has(r, "LogicalState")
    <3>1. plan.answer.kind # "ok"
      BY <2>2, <2>3 DEF DIO!deviceio_set_relay_output_state
    <3> QED
      BY <2>1, <3>1 DEF Enough
  <2>4. CASE relay # {} /\ Has(r, "LogicalState")
    <3>1. it \in relay
      BY <2>4
    <3>2. Arg(r, "RelayOutputToken")[2] = it
      BY <3>1 DEF DIO!Relay, DIO!RelayToken
    <3> DEFINE line(i) == c.relays[i][state(i)]
               run(i) == CASE line(i) = DIO!Null -> <<DIO!Command("(null)", {})>>
                           [] line(i) = <<"">> -> <<>>
                           [] OTHER -> <<DIO!Command(state(i), {<<"relay", i>>})>>
    <3>3. plan.run = run(it)
      <4>1. plan = DIO!Plan(run(it), DIO!Ok({}))
        BY <2>4 DEF DIO!deviceio_set_relay_output_state, DIO!Has, Has, DIO!Arg, Arg
      <4> HIDE DEF plan, run, relay, it
      <4> QED
        BY <2>2, <4>1
    <3>4. RelayState(c, r) = state(it)
      BY <3>2 DEF RelayState
    <3> HIDE DEF relay, state, it
    <3>5. Wanted(c, r) = {state(it)}
      BY <1>2, <3>4 DEF Wanted
    <3>6. line(it) = <<"">> => SetsBlankRelay(c, r)
      BY <1>2, <3>2, <3>4 DEF SetsBlankRelay
    <3> HIDE DEF line, plan
    <3>7. \/ plan.run = <<Command("(null)", {})>>
          \/ plan.run = <<>> /\ SetsBlankRelay(c, r)
          \/ plan.run = <<Command(state(it), {<<"relay", it>>})>>
      BY <2>2, <3>3, <3>6
    <3> HIDE DEF run
    <3>8. PICK s : Wanted(c, r) = {s} /\ s = state(it)
      BY <3>5
    <3>9. \A name, given : NamesOf(<<Command(name, given)>>) = {name}
      BY NamesOfOne DEF Command
    <3>10. Enough(c, r, plan)
      <4>1. CASE plan.run = <<Command("(null)", {})>>
        BY <3>9, <4>1 DEF Enough
      <4>2. CASE plan.run = <<>> /\ SetsBlankRelay(c, r)
        BY <4>2 DEF Enough
      <4>3. CASE plan.run = <<Command(state(it), {<<"relay", it>>})>>
        <5>1. NamesOf(plan.run) = {s}
          BY <3>8, <3>9, <4>3
        <5> QED
          BY <3>8, <5>1 DEF Enough
      <4> QED
        BY <3>7, <4>1, <4>2, <4>3
    <3> QED
      BY <2>1, <3>10
  <2> QED
    BY <2>3, <2>4
<1> QED
  BY <1>1, <1>2

\* Any request.
LEMMA EnoughOfRequest ==
  ASSUME NEW c, NEW r, NEW w
  PROVE  Enough(c, r, Dispatch(c, r, w))
<1> DEFINE plan == Dispatch(c, r, w)
<1>1. /\ NoAnswer.kind # "ok" /\ Undefined.kind # "ok"
      /\ Fault("MaxNVTProfiles").kind # "ok" /\ AuthenticationError.kind # "ok"
  BY DEF NoAnswer, Undefined, AuthenticationError, Fault
<1>2. plan.answer.kind # "ok" \/ plan = Service(c, r, w)
  BY <1>1, OnlyAnswers DEF Dispatch
<1>3. /\ r.service = "ptz_service" => Service(c, r, w) = ptz_service(c, r, w)
      /\ r.service = "imaging_service" => Service(c, r, w) = imaging_service(c, r)
      /\ r.service = "deviceio_service" => Service(c, r, w) = deviceio_service(c, r)
  BY DEF Service
<1>4. r.service \notin {"ptz_service", "imaging_service", "deviceio_service"} => Wanted(c, r) = {}
  BY DEF Wanted
<1> QED
  BY <1>2, <1>3, <1>4, EnoughOfPtz, EnoughOfImaging, EnoughOfDeviceIO DEF Enough

-----------------------------------------------------------------------------
(* What was run and what is left. *)

LEMMA RanGrows ==
  ASSUME NEW ran, NEW item, ran \in Seq(Items(ran))
  PROVE  /\ Append(ran, item) \in Seq(Items(Append(ran, item)))
         /\ NamesOf(Append(ran, item)) = NamesOf(ran) \union {item.name}
<1> DEFINE longer == Append(ran, item)
           S == Items(ran) \union {item}
<1>1. ran \in Seq(S) /\ item \in S
  <2>1. Items(ran) \subseteq S
    OBVIOUS
  <2> QED
    BY <2>1
<1>2. /\ longer \in Seq(S) /\ Len(longer) = Len(ran) + 1
      /\ \A i \in 1..Len(longer) : longer[i] = IF i = Len(ran) + 1 THEN item ELSE ran[i]
  <2> HIDE DEF S
  <2> QED
    BY <1>1, AppendProperties
<1>3. /\ Len(ran) \in Nat /\ DOMAIN ran = 1..Len(ran)
      /\ Len(longer) \in Nat /\ DOMAIN longer = 1..Len(longer)
  BY <1>1, <1>2
<1> HIDE DEF longer, S
<1>4. longer[Len(ran) + 1] = item /\ \A i \in DOMAIN ran : longer[i] = ran[i] /\ i \in DOMAIN longer
  BY <1>2, <1>3
<1>5. DOMAIN longer = DOMAIN ran \union {Len(ran) + 1}
  BY <1>2, <1>3
<1>6. Items(longer) = S
  BY <1>4, <1>5 DEF Items, S
<1>7. NamesOf(longer) = NamesOf(ran) \union {item.name}
  BY <1>4, <1>5 DEF NamesOf
<1> QED
  BY <1>2, <1>6, <1>7 DEF longer

LEMMA NamesOfRest ==
  ASSUME NEW todo, todo \in Seq(Items(todo)), todo # <<>>
  PROVE  NamesOf(todo) = {Head(todo).name} \union NamesOf(Tail(todo))
<1> DEFINE rest == Tail(todo)
<1>1. /\ rest \in Seq(Items(todo)) /\ Len(rest) = Len(todo) - 1 /\ Head(todo) = todo[1]
      /\ \A i \in 1..Len(rest) : rest[i] = todo[i + 1]
  BY HeadTailProperties
<1>2. Len(todo) \in Nat /\ DOMAIN todo = 1..Len(todo) /\ Len(rest) \in Nat /\ DOMAIN rest = 1..Len(rest)
  BY <1>1
<1>3. /\ 1 \in DOMAIN todo
      /\ \A i \in DOMAIN rest : i + 1 \in DOMAIN todo /\ rest[i] = todo[i + 1]
      /\ \A i \in DOMAIN todo : i = 1 \/ (i - 1 \in DOMAIN rest /\ rest[i - 1] = todo[i])
  BY <1>1, <1>2
<1> HIDE DEF rest
<1>4. NamesOf(rest) \union {todo[1].name} = NamesOf(todo)
  BY <1>3 DEF NamesOf
<1> QED
  BY <1>1, <1>4 DEF rest

\* The commands that are left are a sequence.
LEMMA TodoIsSequence ==
  ASSUME NEW p \in Procs, Single, proc[p].pc = "run"
  PROVE  proc[p].todo \in Seq(Items(proc[p].todo))
<1> DEFINE todo == proc[p].todo
<1>1. todo \in Seq(Items(todo)) \/ todo = <<Head(todo)>>
  BY DEF Single, Follows, Items
<1>2. \A item : <<item>> \in Seq(Items(<<item>>))
  BY DEF Items
<1> QED
  BY <1>1, <1>2

-----------------------------------------------------------------------------
(* What was promised was done. *)

Done == IInv /\ Refusals /\ Due /\ OkMeansDone

LEMMA InitDone == Init => Done
<1> SUFFICES ASSUME Init PROVE Due /\ OkMeansDone
  BY InitIInv, InitRefusals DEF Done
<1>1. \A p \in Procs : proc[p].pc = "idle"
  BY Parts DEF Init
<1>2. Wanted(conf, NoRequest) = {}
  BY DEF Wanted, NoRequest
<1> QED
  BY <1>1, <1>2 DEF Init, Due, OkMeansDone, Nothing

\* What Due says of one process, and what OkMeansDone says of an answer.
DueOf(c, x) ==
  /\ x.pc = "run" => x.ran \in Seq(Items(x.ran))
  /\ x.pc = "run" /\ (x.answer.kind = "ok" \/ Adds(x.req)) =>
       \/ "(null)" \in NamesOf(x.todo)
       \/ Wanted(c, x.req) \subseteq NamesOf(x.ran) \union NamesOf(x.todo)
  /\ x.pc = "relist" => Wanted(c, x.req) \subseteq NamesOf(x.ran)

LEMMA DueIsOfEach ==
  /\ Due <=> \A p \in Procs : DueOf(conf, proc[p])
  /\ Due' <=> \A p \in Procs : DueOf(conf', proc'[p])
  BY DEF Due, DueOf, Items

LEMMA NothingWanted ==
  /\ \A c : Wanted(c, NoRequest) = {}
  /\ \A c, r : Resets(r) \/ Restarts(r) => Wanted(c, r) = {}
  /\ \A c : DueOf(c, Idle)
  /\ Nothing.req = NoRequest
<1>1. \A c : Wanted(c, NoRequest) = {}
  BY DEF Wanted, NoRequest
<1>2. \A c, r : Resets(r) \/ Restarts(r) => Wanted(c, r) = {}
  BY DEF Wanted, Resets, Restarts
<1>3. \A c : DueOf(c, Idle)
  BY Parts DEF DueOf
<1> QED
  BY <1>1, <1>2, <1>3 DEF Nothing

\* A process begins with all that is wanted, which is nothing when it ends.
LEMMA DoneByReceive ==
  ASSUME Done, NEW p \in Procs, Receive(p)
  PROVE  Due' /\ OkMeansDone'
<1>1. PICK r, w : TakesUp(p, r, w)
  BY StepTakesUp
<1> DEFINE plan == Dispatch(conf, r, w)
<1>2. Enough(conf, r, plan)
  BY EnoughOfRequest
<1>3. Adds(r) /\ plan.run # <<>> => plan.answer.kind = "ok"
  <2>1. CASE Steady(plan) /\ ~Changes(r)
    BY <2>1 DEF Adds, Changes
  <2>2. CASE plan = ptz_set_preset(conf, r, init_presets(conf, w.list), w.uuid)
    <3> DEFINE list == init_presets(conf, w.list)
    <3>1. \/ ptz_set_preset(conf, r, list, w.uuid).run = <<>>
          \/ ptz_set_preset(conf, r, list, w.uuid) = Plan(<<SetPresetCommand(r, list, w.uuid)>>, Ok({}))
      BY PlanOfSetPreset
    <3>2. \A run : Plan(run, Ok({})).answer.kind = "ok"
      BY DEF Plan, Ok
    <3> HIDE DEF plan, list
    <3> QED
      BY <2>2, <3>1, <3>2 DEF list
  <2> QED
    BY <2>1, <2>2, PlanOfRequest DEF Changes, Adds
<1> HIDE DEF plan
<1>4. proc'[p] = proc[p] \/ (proc'[p] = Begun(r, w, plan) /\ (plan.run # <<>> \/ Restarts(r)))
  BY <1>1 DEF TakesUp, Done, IInv, Shape, plan
<1>5. \A q \in Procs \ {p} : proc'[q] = proc[q]
  BY <1>1 DEF TakesUp, Done, IInv, Shape, plan
<1>6. DueOf(conf, Begun(r, w, plan)) \/ ~(plan.run # <<>> \/ Restarts(r))
  <2>1. Begun(r, w, plan).pc # "relist" /\ Begun(r, w, plan).ran = <<>>
        /\ Begun(r, w, plan).todo = plan.run /\ Begun(r, w, plan).req = r /\ Begun(r, w, plan).answer = plan.answer
    BY Parts
  <2>2. <<>> \in Seq(Items(<<>>))
    OBVIOUS
  <2>3. CASE Restarts(r)
    BY <2>1, <2>2, <2>3, NothingWanted DEF DueOf
  <2>4. CASE plan.run # <<>> /\ ~Restarts(r)
    BY <1>2, <1>3, <2>1, <2>2, <2>4 DEF DueOf, Enough
  <2> QED
    BY <2>3, <2>4
<1>7. conf' = conf /\ \A q \in Procs : DueOf(conf, proc[q])
  BY <1>1, DueIsOfEach DEF TakesUp, Done
<1>8. \A q \in Procs : DueOf(conf', proc'[q])
  BY <1>4, <1>5, <1>6, <1>7
<1>9. Due'
  BY <1>8, DueIsOfEach
<1>10. OkMeansDone'
  <2>1. last' = Nothing \/ (last' = Answered(r, plan.answer, <<>>) /\ (plan.run = <<>> \/ Resets(r)))
    BY <1>1 DEF TakesUp, plan
  <2>2. CASE last' = Nothing
    BY <2>2, NothingWanted DEF OkMeansDone
  <2>3. CASE last' = Answered(r, plan.answer, <<>>) /\ (plan.run = <<>> \/ Resets(r))
    <3>1. plan.answer.kind = "ok" => Wanted(conf, r) = {} \/ SetsBlankRelay(conf, r)
      BY <1>2, <2>3, NamesOfOne, NothingWanted DEF Enough
    <3> QED
      BY <1>7, <2>3, <3>1 DEF OkMeansDone, Answered
  <2> QED
    BY <2>1, <2>2, <2>3
<1> QED
  BY <1>9, <1>10

\* A command that returns 0 is one less to do.
LEMMA DoneBySuccess ==
  ASSUME Done, NEW p \in Procs, CommandSucceeds(p)
  PROVE  Due' /\ OkMeansDone'
<1> DEFINE todo == proc[p].todo
           command == Head(todo)
           ran == Append(proc[p].ran, command)
<1>s. DOMAIN proc = Procs /\ DOMAIN proc[p] = DOMAIN Idle /\ conf' = conf
  BY DEF Done, IInv, Shape, CommandSucceeds
<1>1. proc[p].pc = "run" /\ command.name # "(null)"
  BY DEF CommandSucceeds
<1>2. todo \in Seq(Items(todo)) /\ todo # <<>>
  BY <1>1, TodoIsSequence DEF Done, IInv, TypeOK
<1>3. \A q \in Procs : DueOf(conf, proc[q])
  BY DueIsOfEach DEF Done
<1>4. ran \in Seq(Items(ran)) /\ NamesOf(ran) = NamesOf(proc[p].ran) \union {command.name}
  BY <1>1, <1>3, RanGrows DEF DueOf
<1>5. NamesOf(todo) = {command.name} \union NamesOf(Tail(todo))
  BY <1>2, NamesOfRest
<1>6. CASE Tail(todo) = <<>> /\ ~Adds(proc[p].req)
  <2>1. End(p, proc[p].answer, ran)
    BY <1>6 DEF CommandSucceeds
  <2>2. proc[p].answer.kind = "ok" => Wanted(conf, proc[p].req) \subseteq NamesOf(ran)
    BY <1>1, <1>3, <1>4, <1>5, <1>6, NamesOfOne DEF DueOf
  <2>3. OkMeansDone'
    BY <1>s, <2>1, <2>2 DEF End, Answered, OkMeansDone
  <2>4. \A q \in Procs : DueOf(conf', proc'[q])
    BY <1>s, <1>3, <2>1, NothingWanted DEF End
  <2> QED
    BY <2>3, <2>4, DueIsOfEach
<1>7. CASE ~(Tail(todo) = <<>> /\ ~Adds(proc[p].req))
  <2>1. last' = Nothing
    BY <1>7 DEF CommandSucceeds
  <2>2. OkMeansDone'
    BY <2>1, NothingWanted DEF OkMeansDone
  <2>3. /\ \A q \in Procs \ {p} : proc'[q] = proc[q]
        /\ proc'[p].req = proc[p].req /\ proc'[p].answer = proc[p].answer
        /\ proc'[p].ran = ran /\ proc'[p].todo = Tail(todo)
        /\ proc'[p].pc = IF Adds(proc[p].req) THEN "relist" ELSE "run"
    BY <1>s, <1>7, Parts DEF CommandSucceeds
  <2>4. Adds(proc[p].req) => NamesOf(Tail(todo)) = {}
    <3>1. Adds(proc[p].req) => todo = <<command>>
      BY <1>1 DEF Done, IInv, Single, Follows, Adds, Changes
    <3> QED
      BY <3>1, LastItem, NamesOfOne
  <2>5. DueOf(conf, proc[p])
    BY <1>3
  <2> HIDE DEF todo, command, ran
  <2>6. DueOf(conf, proc'[p])
    BY <1>1, <1>4, <1>5, <2>3, <2>4, <2>5, NamesOfOne DEF DueOf, todo, command
  <2>7. \A q \in Procs : DueOf(conf', proc'[q])
    BY <1>s, <1>3, <2>3, <2>6
  <2> QED
    BY <2>2, <2>7, DueIsOfEach
<1> QED
  BY <1>6, <1>7

\* SetPreset answers when its command has run.
LEMMA DoneByAnswer ==
  ASSUME Done, NEW p \in Procs, AnswerSetPreset(p)
  PROVE  Due' /\ OkMeansDone'
<1>1. PICK answer : End(p, answer, proc[p].ran)
  BY DEF AnswerSetPreset
<1>2. \A q \in Procs : DueOf(conf, proc[q])
  BY DueIsOfEach DEF Done
<1>3. proc[p].pc = "relist" /\ conf' = conf
  BY DEF AnswerSetPreset
<1>4. OkMeansDone'
  BY <1>1, <1>2, <1>3 DEF End, Answered, OkMeansDone, DueOf
<1>5. \A q \in Procs : DueOf(conf', proc'[q])
  BY <1>1, <1>2, <1>3, NothingWanted DEF End, Done, IInv, Shape
<1> QED
  BY <1>4, <1>5, DueIsOfEach

\* The other steps end a process or leave what it does alone.
LEMMA DoneByOthers ==
  ASSUME Done, NEW p \in Procs, Step(p) \/ SyncReturns(p), ~CommandSucceeds(p), ~AnswerSetPreset(p)
  PROVE  Due' /\ OkMeansDone'
<1>1. \A q \in Procs : DueOf(conf, proc[q])
  BY DueIsOfEach DEF Done
<1>2. DOMAIN proc = Procs /\ \A q \in Procs : DOMAIN proc[q] = DOMAIN Idle
  BY DEF Done, IInv, Shape
<1>3. CASE CommandFails(p)
  <2>1. End(p, ActionFailed, proc[p].ran) /\ conf' = conf
    BY <1>3 DEF CommandFails
  <2>2. ActionFailed.kind # "ok"
    BY DEF ActionFailed, Fault
  <2>3. OkMeansDone'
    BY <2>1, <2>2 DEF End, Answered, OkMeansDone
  <2>4. \A q \in Procs : DueOf(conf', proc'[q])
    BY <1>1, <1>2, <2>1, NothingWanted DEF End
  <2> QED
    BY <2>3, <2>4, DueIsOfEach
<1>4. CASE ~CommandFails(p)
  <2>1. last' = Nothing /\ conf' = conf
    BY <1>4 DEF Step, SetSystemFactoryDefault, CreateHelper, CallSync, Expire, Reboot, RebootFails, SyncReturns,
                Restart
  <2>2. OkMeansDone'
    BY <2>1, NothingWanted DEF OkMeansDone
  <2>3. \A q \in Procs :
          \/ proc'[q] = proc[q] \/ proc'[q] = Idle
          \/ proc[q].pc = "restart" /\ proc'[q].pc = "restart"
    BY <1>2, <1>4, Parts DEF Step, SetSystemFactoryDefault, CreateHelper, CallSync, Expire, Reboot, RebootFails,
                             SyncReturns, Restart
  <2>4. \A q \in Procs : DueOf(conf', proc'[q])
    BY <1>1, <2>1, <2>3, NothingWanted DEF DueOf
  <2> QED
    BY <2>2, <2>4, DueIsOfEach
<1> QED
  BY <1>3, <1>4

LEMMA StepDone == Done /\ [Next]_vars => Done'
<1> SUFFICES ASSUME Done, [Next]_vars PROVE Done'
  OBVIOUS
<1>1. IInv' /\ Refusals'
  BY StepIInv, StepRefusals DEF Done
<1>2. CASE UNCHANGED vars
  BY <1>1, <1>2 DEF vars, Done, Due, OkMeansDone
<1>3. CASE PutAway
  <2>1. Due'
    BY <1>3 DEF PutAway, Done, Due
  <2>2. OkMeansDone'
    BY <1>3, NothingWanted DEF PutAway, OkMeansDone
  <2> QED
    BY <1>1, <2>1, <2>2 DEF Done
<1>4. ASSUME NEW p \in Procs, Receive(p) PROVE Done'
  BY <1>1, <1>4, DoneByReceive DEF Done
<1>5. ASSUME NEW p \in Procs, Step(p) \/ SyncReturns(p) PROVE Done'
  BY <1>1, <1>5, DoneBySuccess, DoneByAnswer, DoneByOthers DEF Done
<1> QED
  BY <1>2, <1>3, <1>4, <1>5, Steps

\* A client that is told its request was carried out can rely on all of it: each
\* command that the elements of the request ask for has been run and returned 0,
\* however many commands there are, whatever other clients do between them, and
\* whether they are all configured or not. Only a relay whose command is there
\* but blank is answered "ok" when nothing was run.
THEOREM OkIsDone == Spec => []OkMeansDone
<1>1. Done => OkMeansDone
  BY DEF Done
<1> QED
  BY InitDone, StepDone, <1>1, PTL DEF Spec

-----------------------------------------------------------------------------
(* There is an answer. *)

Answers(answer) == answer.kind \in {"ok", "fault"}

LEMMA Kinds ==
  /\ \A claims : /\ Answers(Ok(claims)) /\ Answers(D!Ok(claims)) /\ Answers(M!Ok(claims))
                 /\ Answers(M2!Ok(claims)) /\ Answers(DIO!Ok(claims)) /\ Answers(I!Ok(claims))
  /\ \A code : /\ Answers(Fault(code)) /\ Answers(D!Fault(code)) /\ Answers(M!Fault(code))
               /\ Answers(M2!Fault(code)) /\ Answers(DIO!Fault(code)) /\ Answers(I!Fault(code))
  BY DEF Answers, Ok, D!Ok, M!Ok, M2!Ok, DIO!Ok, I!Ok, Fault, D!Fault, M!Fault, M2!Fault, DIO!Fault, I!Fault

LEMMA OnlyInParts ==
  \A answer : /\ D!Only(answer) = Only(answer) /\ DIO!Only(answer) = Only(answer)
              /\ I!Only(answer) = Only(answer)
  BY DEF D!Only, DIO!Only, I!Only, D!Plan, DIO!Plan, I!Plan, Only, Plan

\* With two profiles every method of Media has an answer, but for a token that
\* is missing.
LEMMA AnswersOfMedia ==
  ASSUME NEW c, NEW r, r.service = "media_service"
  PROVE  Answers(media_service(c, r)) \/ Unwritten(c, r)
<1>a. Alone(c) => Unwritten(c, r)
  BY DEF Unwritten
<1>g. r.method = "GetGuaranteedNumberOfVideoEncoderInstances" =>
        Has(r, "ConfigurationToken") \/ Unwritten(c, r)
  BY DEF Unwritten, Needed, Has
<1>1. CASE ~Alone(c)
  <2>n. ~M!Alone(c)
    BY <1>1 DEF Alone, M!Alone
  <2>k. /\ \A claims : Answers(M!Ok(claims))
        /\ \A code : Answers(M!Fault(code))
    BY Kinds
  <2>e. \A t, word, yes, no : Answers(yes) /\ Answers(no) => Answers(M!NamesEither(c, t, word, yes, no))
    BY <2>n DEF M!NamesEither
  <2>s. \A token : Answers(M!SetFixed(r, token))
    BY <2>k DEF M!SetFixed
  <2>v. /\ Answers(M!media_get_profiles(c, r)) /\ Answers(M!media_get_profile(c, r))
        /\ Answers(M!media_create_profile(c, r)) /\ Answers(M!media_get_service_capabilities(c, r))
        /\ Answers(M!media_get_video_sources(c, r))
        /\ Answers(M!media_get_video_source_configurations(c, r))
        /\ Answers(M!media_get_video_source_configuration(c, r))
        /\ Answers(M!media_get_compatible_video_source_configurations(c, r))
        /\ Answers(M!media_get_video_source_configuration_options(c, r))
        /\ Answers(M!media_get_video_encoder_configurations(c, r))
        /\ Answers(M!media_get_video_encoder_configuration(c, r))
        /\ Answers(M!media_get_compatible_video_encoder_configurations(c, r))
        /\ Answers(M!media_get_video_encoder_configuration_options(c, r))
        /\ Answers(M!media_get_snapshot_uri(c, r)) /\ Answers(M!media_get_stream_uri(c, r))
        /\ Answers(M!media_set_video_source_configuration(c, r))
        /\ Answers(M!media_set_video_encoder_configuration(c, r))
    BY <2>k, <2>e, <2>s, <2>n DEF M!media_get_profiles, M!media_get_profile, M!media_create_profile,
            M!media_get_service_capabilities, M!media_get_video_sources,
            M!media_get_video_source_configurations, M!media_get_video_source_configuration,
            M!media_get_compatible_video_source_configurations,
            M!media_get_video_source_configuration_options, M!media_get_video_encoder_configurations,
            M!media_get_video_encoder_configuration, M!media_get_compatible_video_encoder_configurations,
            M!media_get_video_encoder_configuration_options, M!media_get_snapshot_uri,
            M!media_get_stream_uri, M!media_set_video_source_configuration,
            M!media_set_video_encoder_configuration, M!ActionFailed
  <2>u. /\ Answers(M!media_get_audio_sources(c, r))
        /\ Answers(M!media_get_audio_source_configurations(c, r))
        /\ Answers(M!media_get_audio_source_configuration(c, r))
        /\ Answers(M!media_get_audio_source_configuration_options(c, r))
        /\ Answers(M!media_get_audio_encoder_configuration(c, r))
        /\ Answers(M!media_get_audio_encoder_configurations(c, r))
        /\ Answers(M!media_get_audio_encoder_configuration_options(c, r))
        /\ Answers(M!media_get_audio_decoder_configuration(c, r))
        /\ Answers(M!media_get_audio_decoder_configurations(c, r))
        /\ Answers(M!media_get_audio_decoder_configuration_options(c, r))
        /\ Answers(M!media_get_audio_outputs(c, r)) /\ Answers(M!media_get_audio_output_configuration(c, r))
        /\ Answers(M!media_get_audio_output_configurations(c, r))
        /\ Answers(M!media_get_audio_output_configuration_options(c, r))
        /\ Answers(M!media_get_compatible_audio_source_configurations(c, r))
        /\ Answers(M!media_get_compatible_audio_encoder_configurations(c, r))
        /\ Answers(M!media_get_compatible_audio_decoder_configurations(c, r))
        /\ Answers(M!media_get_compatible_audio_output_configurations(c, r))
        /\ Answers(M!media_set_audio_source_configuration(c, r))
        /\ Answers(M!media_set_audio_encoder_configuration(c, r))
        /\ Answers(M!media_set_audio_output_configuration(c, r))
    BY <2>k, <2>e, <2>s, <2>n DEF M!media_get_audio_sources, M!media_get_audio_source_configurations,
            M!media_get_audio_source_configuration, M!media_get_audio_source_configuration_options,
            M!media_get_audio_encoder_configuration, M!media_get_audio_encoder_configurations,
            M!media_get_audio_encoder_configuration_options, M!media_get_audio_decoder_configuration,
            M!media_get_audio_decoder_configurations, M!media_get_audio_decoder_configuration_options,
            M!media_get_audio_outputs, M!media_get_audio_output_configuration,
            M!media_get_audio_output_configurations, M!media_get_audio_output_configuration_options,
            M!media_get_compatible_audio_source_configurations,
            M!media_get_compatible_audio_encoder_configurations,
            M!media_get_compatible_audio_decoder_configurations,
            M!media_get_compatible_audio_output_configurations, M!media_set_audio_source_configuration,
            M!media_set_audio_encoder_configuration, M!media_set_audio_output_configuration, M!SilentIsWild,
            M!NoAudio, M!NoDecoder, M!NoOutput, M!ActionFailed
  <2>h. Has(r, "ConfigurationToken") => Answers(M!media_get_guaranteed_number_of_video_encoder_instances(c, r))
    BY <2>k DEF M!media_get_guaranteed_number_of_video_encoder_instances, M!Has, Has
  <2>x. Answers(Unknown(c))
    BY Kinds DEF Unknown, Empty, ActionNotSupported
  <2> QED
    BY <1>g, <2>v, <2>u, <2>h, <2>x DEF media_service
<1> QED
  BY <1>a, <1>1


LEMMA AnswersOfMedia2 ==
  ASSUME NEW c, NEW r, r.service = "media2_service"
  PROVE  Answers(media2_service(c, r)) \/ Unwritten(c, r)
<1>a. Alone(c) => Unwritten(c, r)
  BY DEF Unwritten
<1>g. r.method = "GetVideoSourceModes" => Has(r, "VideoSourceToken") \/ Unwritten(c, r)
  BY DEF Unwritten, Needed, Has
<1>1. CASE ~Alone(c)
  <2>n. ~M2!Alone(c)
    BY <1>1 DEF Alone, M2!Alone
  <2>k. /\ \A claims : Answers(M2!Ok(claims))
        /\ \A code : Answers(M2!Fault(code))
    BY Kinds
  <2>e. \A t, word, yes, no : Answers(yes) /\ Answers(no) => Answers(M2!NamesEither(c, t, word, yes, no))
    BY <2>n DEF M2!NamesEither
  <2>v. /\ Answers(M2!media2_get_service_capabilities(c, r)) /\ Answers(M2!media2_get_profiles(c, r))
        /\ Answers(M2!media2_get_video_source_configurations(c, r))
        /\ Answers(M2!media2_get_video_source_configuration_options(c, r))
        /\ Answers(M2!media2_get_video_encoder_configurations(c, r))
        /\ Answers(M2!media2_get_video_encoder_configuration_options(c, r))
        /\ Answers(M2!media2_get_snapshot_uri(c, r)) /\ Answers(M2!media2_get_stream_uri(c, r))
    BY <2>k, <2>e DEF M2!media2_get_service_capabilities, M2!media2_get_profiles,
        M2!media2_get_video_source_configurations, M2!media2_get_video_source_configuration_options,
        M2!media2_get_video_encoder_configurations, M2!media2_get_video_encoder_configuration_options,
        M2!media2_get_snapshot_uri, M2!media2_get_stream_uri
  <2>u. /\ Answers(M2!media2_get_audio_source_configurations(c, r))
        /\ Answers(M2!media2_get_audio_source_configuration_options(c, r))
        /\ Answers(M2!media2_get_audio_encoder_configurations(c, r))
        /\ Answers(M2!media2_get_audio_encoder_configuration_options(c, r))
        /\ Answers(M2!media2_get_audio_output_configurations(c, r))
        /\ Answers(M2!media2_get_audio_output_configuration_options(c, r))
        /\ Answers(M2!media2_get_audio_decoder_configurations(c, r))
        /\ Answers(M2!media2_get_audio_decoder_configuration_options(c, r))
    BY <2>k, <2>e, <2>n DEF M2!media2_get_audio_source_configurations, M2!media2_get_audio_source_configuration_options,
        M2!media2_get_audio_encoder_configurations, M2!media2_get_audio_encoder_configuration_options,
        M2!media2_get_audio_output_configurations, M2!media2_get_audio_output_configuration_options,
        M2!media2_get_audio_decoder_configurations, M2!media2_get_audio_decoder_configuration_options,
        M2!NoAudio, M2!NoDecoder, M2!NoOutput
  <2>h. Has(r, "VideoSourceToken") => Answers(M2!media2_get_video_source_modes(c, r))
    BY <2>k DEF M2!media2_get_video_source_modes, M2!Has, Has
  <2>x. Answers(Unknown(c))
    BY Kinds DEF Unknown, Empty, ActionNotSupported
  <2> QED
    BY <1>g, <2>v, <2>u, <2>h, <2>x DEF media2_service
<1> QED
  BY <1>a, <1>1

LEMMA AnswersOfDevice ==
  ASSUME NEW c, NEW r, r.service = "device_service"
  PROVE  Answers(device_service(c, r).answer) \/ Unlisted(c, r)
<1>k. /\ \A claims : Answers(D!Ok(claims)) /\ Answers(Ok(claims))
      /\ \A code : Answers(D!Fault(code)) /\ Answers(Fault(code))
  BY Kinds
<1>s. r.method = "GetServices" => Answers(D!device_get_services(c, r)) \/ Unlisted(c, r)
  BY <1>k DEF D!device_get_services, Unlisted
<1>1. /\ Answers(D!device_get_capabilities(c, r))
      /\ Answers(D!device_get_service_capabilities(c, r))
      /\ Answers(D!device_get_device_information(c, r))
      /\ Answers(D!device_get_system_date_and_time(c, r)) /\ Answers(D!device_get_scopes(c, r))
      /\ Answers(D!device_get_users(c, r)) /\ Answers(D!device_get_wsdl_url(c, r))
      /\ Answers(D!device_get_network_default_gateway(c, r))
      /\ Answers(D!device_get_network_protocols(c, r)) /\ Answers(D!device_get_hostname(c, r))
      /\ Answers(D!device_get_dns(c, r)) /\ Answers(D!device_get_ntp(c, r))
      /\ Answers(D!device_get_discovery_mode(c, r)) /\ Answers(D!device_get_endpoint_reference(c, r))
      /\ Answers(D!device_get_network_interfaces(c, r))
  BY <1>k DEF D!device_get_capabilities, D!device_get_service_capabilities,
     D!device_get_device_information, D!device_get_system_date_and_time, D!device_get_scopes,
     D!device_get_users, D!device_get_wsdl_url, D!device_get_network_default_gateway,
     D!device_get_network_protocols, D!device_get_hostname, D!device_get_dns, D!device_get_ntp,
     D!device_get_discovery_mode, D!device_get_endpoint_reference, D!device_get_network_interfaces,
     D!Empty, D!NoSuchService, D!ActionFailed
<1>2. Answers(D!device_set_system_factory_default(c, r).answer)
  <2>1. D!ActionNotSupported.kind = "fault" /\ \A claims : D!Ok(claims).kind = "ok"
    BY DEF D!ActionNotSupported, D!Fault, D!Ok
  <2> QED
    BY <2>1 DEF D!device_set_system_factory_default, D!Only, D!Plan, Answers
<1>3. Answers(Unknown(c))
  BY <1>k DEF Unknown, Empty, ActionNotSupported
<1> QED
  BY <1>k, <1>s, <1>1, <1>2, <1>3, OnlyAnswers DEF device_service

LEMMA AnswersOfImaging ==
  ASSUME NEW c, NEW r
  PROVE  Answers(imaging_service(c, r).answer)
<1>k. /\ \A claims : Answers(I!Ok(claims))
      /\ \A code : Answers(I!Fault(code))
  BY Kinds
<1>e. Answers(I!Empty) /\ Answers(I!ActionNotSupported) /\ Answers(I!NoSource)
      /\ Answers(Unknown(c)) /\ Answers(ActionNotSupported)
  BY <1>k, Kinds DEF I!Empty, I!ActionNotSupported, I!NoSource, Unknown, Empty, ActionNotSupported
<1>p. /\ \A answer : I!Only(answer).answer = answer
      /\ \A run, answer : I!Plan(run, answer).answer = answer
  BY DEF I!Only, I!Plan
<1>1. /\ Answers(I!imaging_get_service_capabilities(c, r)) /\ Answers(I!imaging_get_imaging_settings(c, r))
      /\ Answers(I!imaging_get_options(c, r)) /\ Answers(I!imaging_get_move_options(c, r))
      /\ Answers(I!imaging_get_status(c, r))
  BY <1>k, <1>e DEF I!imaging_get_service_capabilities, I!imaging_get_imaging_settings,
     I!imaging_get_options, I!imaging_get_move_options, I!imaging_get_status, I!ForSource
<1>2. Answers(I!imaging_set_imaging_settings(c, r).answer)
  BY <1>k, <1>e, <1>p DEF I!imaging_set_imaging_settings
<1>3. Answers(I!imaging_move(c, r).answer)
  BY <1>k, <1>e, <1>p DEF I!imaging_move
<1>4. Answers(I!imaging_stop(c, r).answer)
  BY <1>k, <1>e, <1>p DEF I!imaging_stop
<1> QED
  BY <1>e, <1>1, <1>2, <1>3, <1>4, OnlyAnswers DEF imaging_service

\* The state of a relay is refused for an unknown relay, or lost without a state,
\* or answered "ok" after whatever is run.
LEMMA PlanOfRelay ==
  ASSUME NEW c, NEW r
  PROVE  LET plan == DIO!deviceio_set_relay_output_state(c, r) IN
           \/ plan = DIO!Only(DIO!NoRelay) /\ ~(/\ DIO!Has(r, "RelayOutputToken")
                                               /\ DIO!Relay(c, DIO!Arg(r, "RelayOutputToken")) # {})
           \/ plan = DIO!Only(DIO!Undefined) /\ ~DIO!Has(r, "LogicalState")
           \/ \E run : plan = DIO!Plan(run, DIO!Ok({}))
  BY DEF DIO!deviceio_set_relay_output_state

LEMMA AnswersOfDeviceIO ==
  ASSUME NEW c, NEW r
  PROVE  Answers(deviceio_service(c, r).answer) \/ Unwritten(c, r)
<1>k. /\ \A claims : Answers(DIO!Ok(claims))
      /\ \A code : Answers(DIO!Fault(code))
  BY Kinds
<1>1. /\ Answers(DIO!deviceio_get_video_sources(c, r))
      /\ Answers(DIO!deviceio_get_service_capabilities(c, r))
      /\ Answers(DIO!deviceio_get_audio_outputs(c, r)) /\ Answers(DIO!deviceio_get_audio_sources(c, r))
      /\ Answers(DIO!deviceio_get_relay_outputs(c, r))
      /\ Answers(DIO!deviceio_get_relay_output_options(c, r))
  BY <1>k DEF DIO!deviceio_get_video_sources, DIO!deviceio_get_service_capabilities, DIO!deviceio_get_audio_outputs,
     DIO!deviceio_get_audio_sources, DIO!deviceio_get_relay_outputs, DIO!deviceio_get_relay_output_options
<1>2. r.method = "SetRelayOutputSettings" => Unwritten(c, r)
  BY DEF Unwritten
<1>3. r.method = "SetRelayOutputState" => Has(r, "LogicalState") \/ Unwritten(c, r)
  BY DEF Unwritten, Needed, Has
<1>4. Has(r, "LogicalState") => Answers(DIO!deviceio_set_relay_output_state(c, r).answer)
  <2>1. Has(r, "LogicalState") = DIO!Has(r, "LogicalState") /\ Answers(DIO!NoRelay)
    BY <1>k DEF Has, DIO!Has, DIO!NoRelay
  <2>2. /\ \A answer : DIO!Only(answer).answer = answer
        /\ \A run, answer : DIO!Plan(run, answer).answer = answer
    BY DEF DIO!Only, DIO!Plan
  <2> QED
    BY <1>k, <2>1, <2>2, PlanOfRelay
<1>5. Answers(Unknown(c))
  BY Kinds DEF Unknown, Empty, ActionNotSupported
<1> QED
  BY <1>1, <1>2, <1>3, <1>4, <1>5, OnlyAnswers DEF deviceio_service

LEMMA AnswersOfPtz ==
  ASSUME NEW c, NEW r, NEW w
  PROVE  Answers(ptz_service(c, r, w).answer) \/ Unwritten(c, r)
<1> DEFINE list == init_presets(c, w.list)
<1>k. /\ \A claims : Answers(Ok(claims))
      /\ \A code : Answers(Fault(code))
  BY Kinds
<1>e. /\ Answers(ActionFailed) /\ Answers(NoProfile) /\ Answers(NoPTZProfile) /\ Answers(NoToken)
      /\ Answers(PresetExist) /\ Answers(Unknown(c))
  BY <1>k DEF ActionFailed, NoProfile, NoPTZProfile, NoToken, PresetExist, Unknown, Empty, ActionNotSupported
<1>p. /\ \A answer : Only(answer).answer = answer
      /\ \A run, answer : Plan(run, answer).answer = answer
  BY DEF Only, Plan
<1>f. \A plan : Answers(plan.answer) => Answers(ForProfile(c, r, plan).answer)
  BY <1>e, <1>p DEF ForProfile
<1>o. \A name, with : Answers(RunOne(c, name, with).answer)
  BY <1>k, <1>e, <1>p DEF RunOne
<1>t. \A plan : Answers(plan.answer) /\ Has(r, "PresetToken") => Answers(ForPreset(c, r, plan).answer)
  <2> SUFFICES ASSUME NEW plan, Answers(plan.answer), Has(r, "PresetToken")
               PROVE  Answers(ForPreset(c, r, plan).answer)
    OBVIOUS
  <2> DEFINE inner == CASE ~Has(r, "PresetToken") -> Only(Undefined)
                        [] Has(r, "PresetToken") ->
                             IF IsPresetToken(Arg(r, "PresetToken")) THEN plan ELSE Only(NoToken)
  <2>1. Answers(inner.answer)
    BY <1>e, <1>p
  <2> HIDE DEF inner
  <2>2. ForPreset(c, r, plan) = ForProfile(c, r, inner)
    BY DEF ForPreset, inner
  <2> QED
    BY <1>f, <2>1, <2>2
<1>1. /\ Answers(ptz_get_service_capabilities(c, r)) /\ Answers(ptz_get_configurations(c, r))
      /\ Answers(ptz_get_configuration(c, r)) /\ Answers(ptz_get_configuration_options(c, r))
      /\ Answers(ptz_get_nodes(c, r))
      /\ Has(r, "NodeToken") => Answers(ptz_get_node(c, r))
  BY <1>k DEF ptz_get_service_capabilities, ptz_get_configurations, ptz_get_configuration,
              ptz_get_configuration_options, ptz_get_nodes, ptz_get_node
<1>2. /\ Answers(ptz_get_presets(c, r, list).answer)
      /\ \A position, moving : Answers(ptz_get_status(c, r, position, moving).answer)
      /\ Answers(ptz_goto_home_position(c, r).answer) /\ Answers(ptz_set_home_position(c, r).answer)
  BY <1>k, <1>e, <1>p, <1>f, <1>o DEF ptz_get_presets, ptz_get_status, ptz_goto_home_position,
                                      ptz_set_home_position
<1>3. Answers(ptz_stop(c, r).answer)
  BY <1>k, <1>e, <1>p, <1>f, <1>o DEF ptz_stop
<1>4. Has(r, "PresetToken") => /\ Answers(ptz_goto_preset(c, r, list).answer)
                               /\ Answers(ptz_remove_preset(c, r).answer)
  BY <1>e, <1>p, <1>t, <1>o DEF ptz_goto_preset, ptz_remove_preset
<1>5. Answers(ptz_continuous_move(c, r).answer)
  BY <1>k, <1>e, <1>p, <1>f DEF ptz_continuous_move
<1>6. Answers(ptz_set_preset(c, r, list, w.uuid).answer)
  <2> DEFINE updates == Has(r, "PresetToken")
             which == IF updates THEN Arg(r, "PresetToken") ELSE <<"PresetToken", "-1">>
             name == NewName(r, list, w.uuid)
             unknown == updates /\ Numbered(list, Arg(r, "PresetToken")) = {}
             inner == CASE unknown -> Only(NoToken)
                        [] ~unknown ->
                             IF Has(r, "PresetName") /\ Arg(r, "PresetName") = Unsafe
                             THEN Only(Fault("InvalidPresetName"))
                             ELSE IF Clashes(r, list, name) THEN Only(PresetExist)
                             ELSE RunOne(c, "set_preset", {which, <<"name", name>>})
  <2>1. Answers(inner.answer)
    <3> HIDE DEF list, which, name
    <3> QED
      BY <1>k, <1>e, <1>p, <1>o
  <2>2. ptz_set_preset(c, r, list, w.uuid) = ForProfile(c, r, inner)
    BY DEF ptz_set_preset
  <2> HIDE DEF inner, list
  <2> QED
    BY <1>f, <2>1, <2>2
<1>7. r.method = "RelativeMove" => Answers(ptz_relative_move(c, r).answer) \/ Unwritten(c, r)
  <2> SUFFICES ASSUME r.method = "RelativeMove", ~Unwritten(c, r) PROVE Answers(ptz_relative_move(c, r).answer)
    OBVIOUS
  <2>1. \A axes : Answers(Translation(r, axes).answer)
    BY <1>k, <1>p DEF Translation
  <2>2. /\ Has(r, "Translation") /\ Has(r, "PanTilt") /\ ~(Has(r, "Zoom") /\ ~Has(r, "zspace"))
        /\ Has(r, "space") => Arg(r, "space") \in {"generic", "fov"}
        /\ ~(Missing(r, "x") /\ Missing(r, "y") /\ Has(r, "z"))
    BY DEF Unwritten, Needed, Has
  <2> QED
    BY <1>e, <1>p, <1>f, <2>1, <2>2 DEF ptz_relative_move
<1>8. r.method = "AbsoluteMove" => Answers(ptz_absolute_move(c, r).answer) \/ Unwritten(c, r)
  BY <1>k, <1>e, <1>p, <1>f DEF ptz_absolute_move, Unwritten
<1>9. /\ r.method = "GetNode" => Has(r, "NodeToken") \/ Unwritten(c, r)
      /\ r.method \in {"GotoPreset", "RemovePreset"} => Has(r, "PresetToken") \/ Unwritten(c, r)
  BY DEF Unwritten, Needed, Has
<1> HIDE DEF list
<1> QED
  BY <1>e, <1>p, <1>1, <1>2, <1>3, <1>4, <1>5, <1>6, <1>7, <1>8, <1>9 DEF ptz_service, list

\* Any request that the dispatcher lets through or turns away.
LEMMA AnswersOfRequest ==
  ASSUME NEW c, NEW r, NEW w, c.ok = "ok", ~HasNoPassword(c, r), r.service \in Services
  PROVE  Answers(Dispatch(c, r, w).answer) \/ Unwritten(c, r) \/ IsOff(c, r) \/ Unlisted(c, r)
<1>1. Answers(AuthenticationError) /\ Answers(Fault("MaxNVTProfiles"))
  BY Kinds DEF AuthenticationError
<1>2. Answers(events_service(c, r).answer)
  BY Kinds, OnlyAnswers DEF events_service, Unknown, Empty, ActionNotSupported
<1>3. Answers(Service(c, r, w).answer) \/ Unwritten(c, r) \/ IsOff(c, r) \/ Unlisted(c, r)
  BY <1>2, AnswersOfDevice, AnswersOfMedia, AnswersOfMedia2, AnswersOfPtz, AnswersOfDeviceIO,
     AnswersOfImaging, OnlyAnswers DEF Service, Services, IsOff
<1>4. \/ Dispatch(c, r, w) = Service(c, r, w)
      \/ Dispatch(c, r, w) = Only(Fault("MaxNVTProfiles")) \/ Dispatch(c, r, w) = Only(AuthenticationError)
  BY DEF Dispatch
<1> QED
  BY <1>1, <1>3, <1>4, OnlyAnswers

\* What a step answers after commands, or nothing.
LEMMA LateAnswered ==
  ASSUME Refusals, NEW p \in Procs, Step(p) \/ SyncReturns(p)
  PROVE  Answers(last'.answer)
<1>1. Answers(ActionFailed) /\ Answers(Nothing.answer)
  BY Kinds DEF ActionFailed, Nothing, Empty
<1>2. CASE CommandSucceeds(p) \/ CommandFails(p)
  <2>1. \/ last' = Nothing
        \/ last'.answer = ActionFailed
        \/ last'.answer = proc[p].answer /\ proc[p].pc = "run"
    BY <1>2 DEF CommandSucceeds, CommandFails, End, Answered
  <2> QED
    BY <1>1, <2>1 DEF Refusals, Promised, Answers
<1>3. CASE AnswerSetPreset(p)
  <2>1. \A r, name, total, list : \A answer \in SetPresetAnswer(r, name, total, list) : Answers(answer)
    BY Kinds DEF SetPresetAnswer
  <2> QED
    BY <1>3, <2>1 DEF AnswerSetPreset, End, Answered
<1>4. CASE last' = Nothing
  BY <1>1, <1>4
<1>5. \/ CommandSucceeds(p) \/ CommandFails(p) \/ AnswerSetPreset(p) \/ last' = Nothing
  BY DEF Step, SetSystemFactoryDefault, CreateHelper, CallSync, Expire, Reboot, RebootFails, SyncReturns, Restart
<1> QED
  BY <1>2, <1>3, <1>4, <1>5

Replies == IInv /\ Refusals /\ EveryRequestIsAnswered

LEMMA InitReplies == Init => Replies
<1>1. Answers(Nothing.answer)
  BY Kinds DEF Nothing, Empty
<1>2. Init => EveryRequestIsAnswered
  BY <1>1 DEF Init, EveryRequestIsAnswered, Answers
<1> QED
  BY <1>2, InitIInv, InitRefusals DEF Replies

LEMMA StepReplies == Replies /\ [Next]_vars => Replies'
<1> SUFFICES ASSUME Replies, [Next]_vars PROVE Replies'
  OBVIOUS
<1>i. IInv' /\ Refusals'
  BY StepIInv, StepRefusals DEF Replies
<1>n. Answers(Nothing.answer)
  BY Kinds DEF Nothing, Empty
<1>a. Answers(last'.answer) => EveryRequestIsAnswered'
  BY DEF Answers, EveryRequestIsAnswered
<1>1. CASE UNCHANGED vars
  BY <1>i, <1>1 DEF vars, Replies, EveryRequestIsAnswered
<1>2. CASE PutAway
  BY <1>i, <1>n, <1>a, <1>2 DEF PutAway, Replies
<1>3. ASSUME NEW p \in Procs, Receive(p) PROVE Replies'
  <2>0. PICK r \in Now.asked : \E w \in Worlds(r) : TakesUp(p, r, w)
    BY <1>3, StepTakesUp
  <2>1. PICK w \in Worlds(r) : TakesUp(p, r, w)
    BY <2>0
  <2>2. r.service \in Services
    BY RequestsAssumption DEF Now, Replies, IInv, TypeOK
  <2> DEFINE plan == Dispatch(conf, r, w)
  <2>3. conf.ok = "ok" /\ ~HasNoPassword(conf, r) =>
          Answers(plan.answer) \/ Unwritten(conf, r) \/ IsOff(conf, r) \/ Unlisted(conf, r)
    BY <2>2, AnswersOfRequest
  <2>4. last' = Nothing \/ (last'.answer = plan.answer /\ last'.req = r)
    BY <2>1 DEF TakesUp, Answered
  <2>5. conf' = conf
    BY <2>1 DEF TakesUp
  <2> HIDE DEF plan
  <2>6. CASE last' = Nothing
    BY <1>i, <1>n, <1>a, <2>6 DEF Replies
  <2>7. CASE last'.answer = plan.answer /\ last'.req = r
    <3>1. EveryRequestIsAnswered'
      BY <2>3, <2>5, <2>7 DEF EveryRequestIsAnswered, Answers
    <3> QED
      BY <1>i, <3>1 DEF Replies
  <2> QED
    BY <2>4, <2>6, <2>7
<1>4. ASSUME NEW p \in Procs, Step(p) \/ SyncReturns(p) PROVE Replies'
  BY <1>i, <1>a, <1>4, LateAnswered DEF Replies
<1> QED
  BY <1>1, <1>2, <1>3, <1>4, Steps

\* On every device whose file can be read each request for a service that is on
\* is answered, or refused with a fault; the requests whose answer reads what was
\* never written are those that Unwritten names, and the one for which there is
\* no template is the one that Unlisted names; there are no others.
THEOREM RequestsAreAnswered == Spec => []EveryRequestIsAnswered
<1>1. Replies => EveryRequestIsAnswered
  BY DEF Replies
<1> QED
  BY InitReplies, StepReplies, <1>1, PTL DEF Spec

================================================================================
