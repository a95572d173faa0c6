--------------------------- MODULE OnvifServerProofs ---------------------------
(***************************************************************************)
(* Proofs about OnvifServer for any devices, files, clients and requests.  *)
(* They need of the configuration only that it does not change, and of the *)
(* methods what they do with commands.                                     *)
(***************************************************************************)
EXTENDS OnvifServer, TLAPS

(* What a method plans. *)

\* A plan that is only an answer.
LEMMA OnlyAnswers == \A answer : Only(answer).run = <<>> /\ Only(answer).answer = answer
  BY DEF Only, Plan

\* Without the credentials of a device that has a user there is no command,
\* and no answer but for the public methods.
LEMMA Refused ==
  ASSUME NEW c, NEW r, NEW w, c.user # Null, auth_error(c, r) # 0
  PROVE  /\ Dispatch(c, r, w).run = <<>>
         /\ Dispatch(c, r, w).answer.kind = "ok" => IsPublic(r)
         /\ Restarts(r) => Dispatch(c, r, w).answer # Empty
<1> DEFINE Ends == c.ok = "failed" \/ c.ok = "undefined" \/ (c.ok = "ok" /\ HasNoPassword(c, r))
<1>a. /\ NoAnswer.kind # "ok" /\ Undefined.kind # "ok"
      /\ AuthenticationError.kind # "ok" /\ Fault("MaxNVTProfiles").kind # "ok" /\ Empty.kind = "ok"
  BY DEF NoAnswer, Undefined, AuthenticationError, Fault, Empty, Ok
<1>1. CASE Ends
  <2>1. Dispatch(c, r, w) = Only(NoAnswer) \/ Dispatch(c, r, w) = Only(Undefined)
    BY <1>1 DEF Dispatch
  <2> QED
    BY <1>a, <2>1, OnlyAnswers
<1>2. CASE ~Ends /\ IsPublic(r)
  <2>1. r.service = "device_service" /\ r.method \in PublicMethods
    BY <1>2 DEF IsPublic
  <2>2. Dispatch(c, r, w) = Service(c, r, w)
    BY <1>2 DEF Dispatch
  <2>5. Service(c, r, w) = device_service(c, r)
    BY <2>1 DEF Service
  <2>3. device_service(c, r).run = <<>>
    BY <2>1, OnlyAnswers DEF PublicMethods, device_service
  <2>4. ~Restarts(r)
    BY <2>1 DEF Restarts, PublicMethods
  <2> QED
    BY <1>2, <2>2, <2>3, <2>4, <2>5
<1>3. CASE ~Ends /\ ~IsPublic(r)
  <2>1. \/ Dispatch(c, r, w) = Only(Fault("MaxNVTProfiles"))
        \/ Dispatch(c, r, w) = Only(AuthenticationError)
    BY <1>3 DEF Dispatch
  <2> QED
    BY <1>a, <2>1, OnlyAnswers
<1> QED
  BY <1>1, <1>2, <1>3

\* Whoever passes the check of the credentials has them.
LEMMA Passed ==
  ASSUME NEW r, conf.user # Null, auth_error(conf, r) = 0
  PROVE  Authentic(r)
<1>1. {"Security", "UsernameToken"} \subseteq r.header
  BY DEF auth_error
<1>2. "Created" \in r.header /\ "Nonce" \in r.header /\ r.short
  BY <1>1 DEF auth_error
<1>3. "Password" \in r.header /\ "Username" \in r.header
  BY <1>1, <1>2 DEF auth_error, TokenElements
<1>4. <<r.user>> = conf.user /\ <<r.secret>> = conf.password
  BY <1>1, <1>2, <1>3 DEF auth_error, TokenElements
<1> QED
  BY <1>1, <1>2, <1>3, <1>4 DEF Authentic, TokenElements

-----------------------------------------------------------------------------
(* What a step does to the processes. *)

\* The parts of an idle process, and of one that begins.
LEMMA Parts ==
  /\ DOMAIN Idle = {"pc", "req", "todo", "ran", "answer", "total", "sync"}
  /\ Idle.pc = "idle" /\ Idle.req = NoRequest /\ Idle.todo = <<>> /\ Idle.ran = <<>> /\ Idle.sync = "none"
  /\ \A r, w, plan :
       /\ DOMAIN Begun(r, w, plan) = DOMAIN Idle
       /\ Begun(r, w, plan).req = r /\ Begun(r, w, plan).answer = plan.answer
       /\ Begun(r, w, plan).todo = plan.run /\ Begun(r, w, plan).ran = <<>>
       /\ Begun(r, w, plan).total = IF Adds(r) THEN Cardinality(w.list) ELSE 0
       /\ Begun(r, w, plan).pc = IF Restarts(r) THEN "restart" ELSE IF Resets(r) THEN "reset" ELSE "run"
       /\ Begun(r, w, plan).sync = "none"
  BY DEF Idle, Begun

\* A process goes on with its request, or ends, maybe all of them do; what is
\* answered is about that request.
GoesOn(p) ==
  /\ conf' = conf /\ device' = device
  /\ proc[p].pc # "idle"
  /\ \A q \in Procs \ {p} : proc'[q] = proc[q] \/ proc'[q] = Idle
  /\ \/ proc'[p] = Idle
     \/ /\ proc'[p].req = proc[p].req /\ proc'[p].answer = proc[p].answer /\ proc'[p].total = proc[p].total
        /\ proc'[p].pc # "idle" /\ (proc'[p].pc = "run" => proc[p].pc = "run")
  /\ last' = Nothing \/ last'.req = proc[p].req

LEMMA StepGoesOn ==
  ASSUME Shape, NEW p \in Procs, Step(p) \/ SyncReturns(p)
  PROVE  Shape' /\ GoesOn(p)
<1> USE Parts DEF Shape, GoesOn
<1>1. CASE CommandSucceeds(p)
  BY <1>1 DEF CommandSucceeds, End, Answered
<1>2. CASE CommandFails(p) \/ AnswerSetPreset(p) \/ SetSystemFactoryDefault(p)
  BY <1>2 DEF CommandFails, AnswerSetPreset, SetSystemFactoryDefault, End, Answered
<1>3. CASE CreateHelper(p) \/ CallSync(p) \/ Expire(p) \/ SyncReturns(p)
  BY <1>3 DEF CreateHelper, CallSync, Expire, SyncReturns, Restart
<1>4. CASE Reboot(p) \/ RebootFails(p)
  BY <1>4 DEF Reboot, RebootFails
<1> QED
  BY <1>1, <1>2, <1>3, <1>4 DEF Step

\* A request is answered at once, or taken up by its process.
TakesUp(p, r, w) ==
  LET plan == Dispatch(conf, r, w) IN
    /\ conf' = conf /\ device' = device /\ store' = store
    /\ ~Waits(r) /\ proc[p].pc = "idle"
    /\ proc' = IF plan.run # <<>> \/ (Restarts(r) /\ plan.answer = Empty)
               THEN [proc EXCEPT ![p] = Begun(r, w, plan)] ELSE proc
    /\ last' = IF plan.run = <<>> \/ Resets(r) THEN Answered(r, plan.answer, <<>>) ELSE Nothing

LEMMA StepTakesUp ==
  ASSUME NEW p \in Procs, Receive(p)
  PROVE  p \in Now.clients /\ \E r \in Now.asked : \E w \in Worlds(r) : TakesUp(p, r, w)
  BY DEF Receive, TakesUp

\* What a step is.
LEMMA Steps ==
  ASSUME [Next]_vars
  PROVE  \/ UNCHANGED vars \/ PutAway
         \/ \E p \in Procs : Receive(p)
         \/ \E p \in Procs : Step(p) \/ SyncReturns(p)
  BY DEF Next

-----------------------------------------------------------------------------
(* Credentials. *)

LEMMA InitCredentials == Init => Credentials
  BY Parts DEF Init, Credentials, Shape, NothingWithoutCredentials, Nothing

\* What a request without credentials leads to is refused by the dispatcher.
LEMMA StepCredentials == Credentials /\ [Next]_vars => Credentials'
<1> SUFFICES ASSUME Credentials, [Next]_vars PROVE Credentials'
  OBVIOUS
<1>s. Shape
  BY DEF Credentials
<1>1. CASE UNCHANGED vars
  BY <1>1 DEF vars, Credentials, Shape, NothingWithoutCredentials, Authentic
<1>2. CASE PutAway
  BY <1>2 DEF PutAway, Credentials, Shape, NothingWithoutCredentials, Authentic
<1>3. ASSUME NEW p \in Procs, Receive(p) PROVE Credentials'
  <2>1. PICK r, w : TakesUp(p, r, w)
    BY <1>3, StepTakesUp
  <2> DEFINE plan == Dispatch(conf, r, w)
  <2>2. conf.user # Null =>
          \/ Authentic(r)
          \/ plan.run = <<>> /\ (plan.answer.kind = "ok" => IsPublic(r)) /\ (Restarts(r) => plan.answer # Empty)
    BY Refused, Passed
  <2> HIDE DEF plan
  <2>3. conf' = conf /\ Authentic(r)' = Authentic(r)
    BY <2>1 DEF TakesUp, Authentic
  <2>4. Shape'
    BY <1>s, <2>1, Parts DEF TakesUp, Shape
  <2>5. conf.user # Null => \A q \in Procs : proc'[q].pc # "idle" => Authentic(proc'[q].req)
    BY <1>s, <2>1, <2>2, Parts DEF TakesUp, Shape, Credentials, NothingWithoutCredentials, plan
  <2>6. conf.user # Null =>
          (last'.answer.kind = "ok" /\ last' # Nothing => Authentic(last'.req) \/ IsPublic(last'.req))
    BY <2>1, <2>2 DEF TakesUp, Answered, plan
  <2> QED
    BY <2>3, <2>4, <2>5, <2>6 DEF Credentials, NothingWithoutCredentials, Authentic
<1>4. ASSUME NEW p \in Procs, Step(p) \/ SyncReturns(p) PROVE Credentials'
  <2>1. Shape' /\ GoesOn(p)
    BY <1>s, <1>4, StepGoesOn
  <2>2. conf.user # Null => \A q \in Procs : proc'[q].pc # "idle" => Authentic(proc'[q].req)
    BY <2>1, Parts DEF GoesOn, Credentials, NothingWithoutCredentials
  <2>3. conf.user # Null => last' = Nothing \/ Authentic(last'.req)
    BY <2>1 DEF GoesOn, Credentials, NothingWithoutCredentials
  <2> QED
    BY <2>1, <2>2, <2>3 DEF GoesOn, Credentials, NothingWithoutCredentials, Authentic
<1> QED
  BY <1>1, <1>2, <1>3, <1>4, Steps

\* A device with a user does nothing for a client that does not know the
\* password, and tells it nothing but what is public.
THEOREM CredentialsAreAsked == Spec => []NothingWithoutCredentials
<1>1. Credentials => NothingWithoutCredentials
  BY DEF Credentials
<1> QED
  BY InitCredentials, StepCredentials, <1>1, PTL DEF Spec

-----------------------------------------------------------------------------
(* Commands. *)

\* A plan of one command that does not change presets.
Acts(plan) ==
  \E command : plan.run = <<command>> /\ command.name \notin PresetChanges /\ plan.answer.kind = "ok"

\* A plan of the command of this name.
Runs(plan, name) == \E with : plan.run = <<Command(name, with)>> /\ plan.answer.kind = "ok"

LEMMA Commands ==
  /\ \A name, with, answer :
       /\ Plan(<<Command(name, with)>>, answer).run = <<Command(name, with)>>
       /\ Plan(<<Command(name, with)>>, answer).answer = answer
       /\ Command(name, with).name = name /\ Command(name, with).with = with
  /\ \A claims : Ok(claims).kind = "ok"
  BY DEF Plan, Command, Ok

LEMMA PlanOfDevice ==
  ASSUME NEW c, NEW r
  PROVE  /\ device_service(c, r).run = <<>> \/ Acts(device_service(c, r))
         /\ r.method = "SystemReboot" => device_service(c, r).run = <<>>
<1>1. CASE r.method # "SetSystemFactoryDefault"
  BY <1>1, OnlyAnswers DEF device_service
<1>2. CASE r.method = "SetSystemFactoryDefault"
  <2>1. device_service(c, r) = D!device_set_system_factory_default(c, r)
    BY <1>2 DEF device_service
  <2>2. \A answer : D!Only(answer).run = <<>>
    BY DEF D!Only, D!Plan
  <2>3. \A name, with : /\ D!Plan(<<D!Command(name, with)>>, D!Ok({})).run = <<Command(name, with)>>
                        /\ D!Plan(<<D!Command(name, with)>>, D!Ok({})).answer.kind = "ok"
    BY DEF D!Plan, D!Command, D!Ok, Command
  <2>4. device_service(c, r).run = <<>> \/ Runs(device_service(c, r), "factory_default_command")
    BY <2>1, <2>2, <2>3 DEF D!device_set_system_factory_default, Runs
  <2> QED
    BY <1>2, <2>4, Commands DEF Acts, Runs, PresetChanges
<1> QED
  BY <1>1, <1>2

LEMMA PlanOfDeviceIO ==
  ASSUME NEW c, NEW r
  PROVE  deviceio_service(c, r).run = <<>> \/ Acts(deviceio_service(c, r))
<1>1. CASE r.method # "SetRelayOutputState"
  BY <1>1, OnlyAnswers DEF deviceio_service
<1>2. CASE r.method = "SetRelayOutputState"
  <2> DEFINE plan == DIO!deviceio_set_relay_output_state(c, r)
  <2>1. deviceio_service(c, r) = plan
    BY <1>2 DEF deviceio_service
  <2>2. \/ plan.run = <<>>
        \/ Runs(plan, "close") \/ Runs(plan, "open") \/ Runs(plan, "(null)")
    <3> DEFINE relay == IF DIO!Has(r, "RelayOutputToken") THEN DIO!Relay(c, DIO!Arg(r, "RelayOutputToken")) ELSE {}
               state(i) == IF (DIO!Arg(r, "LogicalState") = "active") = (c.relays[i].idle = "open")
                           THEN "close" ELSE "open"
               run(i) == CASE c.relays[i][state(i)] = DIO!Null -> <<DIO!Command("(null)", {})>>
                           [] c.relays[i][state(i)] = <<"">> -> <<>>
                           [] OTHER -> <<DIO!Command(state(i), {<<"relay", i>>})>>
               it == CHOOSE i \in relay : TRUE
    <3>1. (\E answer : plan = DIO!Only(answer)) \/ plan = DIO!Plan(run(it), DIO!Ok({}))
      <4> HIDE DEF state
      <4> QED
        BY DEF DIO!deviceio_set_relay_output_state, state
    <3>s. \A i : state(i) \in {"close", "open"}
      OBVIOUS
    <3>r. run(it) = <<>> \/ \E name \in {"close", "open", "(null)"} : \E with : run(it) = <<DIO!Command(name, with)>>
      <4> HIDE DEF state, it
      <4>1. \/ run(it) = <<DIO!Command("(null)", {})>> \/ run(it) = <<>>
            \/ run(it) = <<DIO!Command(state(it), {<<"relay", it>>})>>
        <5>1. DIO!Null # <<"">>
          BY DEF DIO!Null
        <5> QED
          BY <5>1
      <4> HIDE DEF run
      <4> QED
        BY <3>s, <4>1
    <3> HIDE DEF run, it
    <3>2. /\ \A answer : DIO!Only(answer).run = <<>>
          /\ \A steps, answer : DIO!Plan(steps, answer).run = steps /\ DIO!Plan(steps, answer).answer = answer
          /\ \A name, with : DIO!Command(name, with) = Command(name, with)
          /\ DIO!Ok({}).kind = "ok"
      BY DEF DIO!Only, DIO!Plan, DIO!Command, DIO!Ok, Command
    <3> HIDE DEF plan
    <3> QED
      BY <3>1, <3>r, <3>2 DEF Runs
  <2> QED
    BY <2>1, <2>2, Commands DEF Acts, Runs, PresetChanges
<1> QED
  BY <1>1, <1>2

LEMMA PlanOfImaging ==
  ASSUME NEW c, NEW r
  PROVE  imaging_service(c, r).run = <<>> \/ Acts(imaging_service(c, r))
<1>1. \/ imaging_service(c, r).run = <<>>
      \/ imaging_service(c, r) = I!imaging_set_imaging_settings(c, r)
      \/ imaging_service(c, r) = I!imaging_move(c, r)
      \/ imaging_service(c, r) = I!imaging_stop(c, r)
  BY OnlyAnswers DEF imaging_service
<1>2. \A answer : I!Only(answer).run = <<>>
  BY DEF I!Only, I!Plan
<1>3. \A name, with : /\ I!Plan(<<I!Command(name, with)>>, I!Empty).run = <<Command(name, with)>>
                      /\ I!Plan(<<I!Command(name, with)>>, I!Empty).answer.kind = "ok"
  BY DEF I!Plan, I!Command, I!Empty, I!Ok, Command
<1>4. LET plan == I!imaging_set_imaging_settings(c, r)
      IN plan.run = <<>> \/ Runs(plan, "imaging_set_command")
  BY <1>2, <1>3 DEF I!imaging_set_imaging_settings, Runs
<1>5. LET plan == I!imaging_move(c, r) IN plan.run = <<>> \/ Runs(plan, "imaging_focus_command")
  BY <1>2, <1>3 DEF I!imaging_move, I!run_focus, Runs
<1>6. LET plan == I!imaging_stop(c, r) IN plan.run = <<>> \/ Runs(plan, "imaging_focus_command")
  BY <1>2, <1>3 DEF I!imaging_stop, I!run_focus, Runs
<1>7. \A plan : Runs(plan, "imaging_set_command") \/ Runs(plan, "imaging_focus_command") => Acts(plan)
  BY Commands DEF Acts, Runs, PresetChanges
<1> QED
  BY <1>1, <1>4, <1>5, <1>6, <1>7

\* What the PTZ methods plan; SetPreset and RemovePreset are the only ones
\* that change presets.
PlanFor(r, plan) ==
  \/ plan.run = <<>>
  \/ Acts(plan) /\ r.method \notin {"SetPreset", "RemovePreset"}
  \/ Runs(plan, "set_preset") /\ r.method = "SetPreset"
  \/ Runs(plan, "remove_preset") /\ r.method = "RemovePreset"

LEMMA OneCommand ==
  ASSUME NEW c, NEW name, NEW with
  PROVE  RunOne(c, name, with).run = <<>> \/ RunOne(c, name, with) = Plan(<<Command(name, with)>>, Ok({}))
  BY OnlyAnswers DEF RunOne

LEMMA TestsProfile ==
  ASSUME NEW c, NEW r, NEW plan
  PROVE  ForProfile(c, r, plan).run = <<>> \/ ForProfile(c, r, plan) = plan
  BY OnlyAnswers DEF ForProfile

LEMMA TestsPreset ==
  ASSUME NEW c, NEW r, NEW plan
  PROVE  ForPreset(c, r, plan).run = <<>> \/ ForPreset(c, r, plan) = plan
<1> DEFINE inner == CASE ~Has(r, "PresetToken") -> Only(Undefined)
                      [] Has(r, "PresetToken") ->
                           IF IsPresetToken(Arg(r, "PresetToken")) THEN plan ELSE Only(NoToken)
<1>1. inner.run = <<>> \/ inner = plan
  BY OnlyAnswers
<1>2. ForPreset(c, r, plan) = ForProfile(c, r, inner)
  BY DEF ForPreset
<1> QED
  BY <1>1, <1>2, TestsProfile

\* The PTZ methods that run a command when all goes well.
LEMMA PlanOfOne ==
  ASSUME NEW c, NEW r, NEW list, NEW uuid,
         NEW plan \in {ptz_goto_preset(c, r, list), ptz_goto_home_position(c, r), ptz_set_home_position(c, r),
                       ptz_relative_move(c, r), ptz_absolute_move(c, r), ptz_stop(c, r)}
  PROVE  plan.run = <<>> \/ Acts(plan)
<1>a. \A name, with :
        name \notin PresetChanges => Acts(Plan(<<Command(name, with)>>, Ok({})))
  BY Commands DEF Acts
<1>n. {"move_preset", "goto_home_position", "set_home_position", "jump_to_rel", "jump_to_abs", "move_stop"}
        \cap PresetChanges = {}
  BY DEF PresetChanges
<1>r. \A name, with : name \notin PresetChanges
        => RunOne(c, name, with).run = <<>> \/ Acts(RunOne(c, name, with))
  BY <1>a, OneCommand
<1>1. CASE plan = ptz_goto_preset(c, r, list)
  BY <1>1, <1>n, <1>r, TestsPreset, OnlyAnswers DEF ptz_goto_preset
<1>2. CASE plan = ptz_goto_home_position(c, r)
  BY <1>2, <1>n, <1>r, TestsProfile DEF ptz_goto_home_position
<1>3. CASE plan = ptz_set_home_position(c, r)
  BY <1>3, <1>n, <1>r, TestsProfile DEF ptz_set_home_position
<1>4. CASE plan = ptz_relative_move(c, r)
  <2>1. \A axes : Translation(r, axes).run = <<>> \/ Acts(Translation(r, axes))
    BY <1>n, <1>a, OnlyAnswers DEF Translation
  <2> QED
    BY <1>4, <2>1, TestsProfile, OnlyAnswers DEF ptz_relative_move
<1>5. CASE plan = ptz_absolute_move(c, r)
  BY <1>5, <1>n, <1>a, TestsProfile, OnlyAnswers DEF ptz_absolute_move
<1>6. CASE plan = ptz_stop(c, r)
  BY <1>6, <1>n, <1>r, TestsProfile, OnlyAnswers DEF ptz_stop
<1> QED
  BY <1>1, <1>2, <1>3, <1>4, <1>5, <1>6

\* A sequence of commands that do not change presets.
Items(run) == {run[i] : i \in DOMAIN run}
Steady(plan) ==
  /\ plan.run \in Seq(Items(plan.run))
  /\ \A i \in DOMAIN plan.run : plan.run[i].name \notin PresetChanges
  /\ plan.answer.kind = "ok" \/ plan.answer = ActionFailed

LEMMA OneIsSteady == \A plan : Acts(plan) => Steady(plan)
  BY DEF Acts, Steady, Items

MoveNames == {"move_right", "move_left", "move_up", "move_down", "move_in", "move_out"}

LEMMA AxisCommands ==
  ASSUME NEW r, NEW axis, NEW plus \in MoveNames, NEW minus \in MoveNames
  PROVE  AxisCommand(r, axis, plus, minus) \in Seq(MoveNames) /\ Len(AxisCommand(r, axis, plus, minus)) <= 1
<1>1. AxisCommand(r, axis, plus, minus) \in {<<>>, <<plus>>, <<minus>>}
  BY DEF AxisCommand
<1>2. <<>> \in Seq(MoveNames) /\ Len(<<>>) <= 1
  OBVIOUS
<1>3. \A name \in MoveNames : <<name>> \in Seq(MoveNames) /\ Len(<<name>>) <= 1
  OBVIOUS
<1> QED
  BY <1>1, <1>2, <1>3

LEMMA PlanOfContinuousMove ==
  ASSUME NEW c, NEW r
  PROVE  ptz_continuous_move(c, r).run = <<>> \/ Steady(ptz_continuous_move(c, r))
<1> DEFINE x == AxisCommand(r, "x", "move_right", "move_left")
           y == AxisCommand(r, "y", "move_up", "move_down")
           z == AxisCommand(r, "z", "move_in", "move_out")
           wanted == x \o y \o z
           there == {n \in 0..Len(wanted) : \A i \in 1..n : wanted[i] \in c.commands}
           most == CHOOSE n \in there : \A m \in there : m <= n
           run == [i \in 1..most |-> Command(wanted[i], {})]
           plan == Plan(run, IF most = Len(wanted) THEN Ok({}) ELSE ActionFailed)
<1>1. ptz_continuous_move(c, r) = ForProfile(c, r, plan)
  BY DEF ptz_continuous_move
<1>2. x \in Seq(MoveNames) /\ y \in Seq(MoveNames) /\ z \in Seq(MoveNames)
      /\ Len(x) <= 1 /\ Len(y) <= 1 /\ Len(z) <= 1
  BY AxisCommands DEF MoveNames
<1> HIDE DEF x, y, z
<1>3. wanted \in Seq(MoveNames) /\ Len(wanted) \in 0..3
  BY <1>2
<1> HIDE DEF wanted
<1>4. most \in there
  <2>1. 0 \in there /\ there \subseteq 0..3
    BY <1>3
  <2>2. \E n \in there : \A m \in there : m <= n
    <3> HIDE DEF there
    <3>1. CASE 3 \in there
      BY <2>1, <3>1
    <3>2. CASE 3 \notin there /\ 2 \in there
      BY <2>1, <3>2
    <3>3. CASE 3 \notin there /\ 2 \notin there /\ 1 \in there
      BY <2>1, <3>3
    <3>4. CASE 3 \notin there /\ 2 \notin there /\ 1 \notin there
      BY <2>1, <3>4
    <3> QED
      BY <3>1, <3>2, <3>3, <3>4
  <2> HIDE DEF there
  <2> QED
    BY <2>2
<1>5. most \in 0..Len(wanted)
  BY <1>4
<1> HIDE DEF most
<1>6. /\ DOMAIN run = 1..most
      /\ \A i \in 1..most : run[i].name \in MoveNames
  BY <1>3, <1>5 DEF Command
<1>7. run \in Seq(Items(run))
  BY <1>3, <1>5 DEF Items
<1>8. plan.run = run /\ (plan.answer.kind = "ok" \/ plan.answer = ActionFailed)
  BY DEF Plan, Ok
<1> HIDE DEF run
<1>9. Steady(plan)
  BY <1>6, <1>7, <1>8 DEF Steady, MoveNames, PresetChanges
<1> QED
  BY <1>1, <1>9, TestsProfile

\* SetPreset is refused, or its command says which preset it is about and what
\* it is called; that passed the tests.
WhichPreset(r) == IF Has(r, "PresetToken") THEN Arg(r, "PresetToken") ELSE <<"PresetToken", "-1">>
SetPresetCommand(r, list, uuid) ==
  Command("set_preset", {WhichPreset(r), <<"name", NewName(r, list, uuid)>>})
Passes(r, list, uuid) ==
  /\ Has(r, "PresetToken") => Numbered(list, Arg(r, "PresetToken")) # {}
  /\ Has(r, "PresetName") => Arg(r, "PresetName") # Unsafe
  /\ ~Clashes(r, list, NewName(r, list, uuid))

LEMMA PlanOfSetPreset ==
  ASSUME NEW c, NEW r, NEW list, NEW uuid
  PROVE  LET plan == ptz_set_preset(c, r, list, uuid) IN
           \/ plan.run = <<>> /\ plan.answer.kind # "ok" /\ plan.answer.code # "TooManyPresets"
           \/ /\ plan = Plan(<<SetPresetCommand(r, list, uuid)>>, Ok({}))
              /\ Passes(r, list, uuid)
<1> DEFINE refused(plan) == plan.run = <<>> /\ plan.answer.kind # "ok" /\ plan.answer.code # "TooManyPresets"
<1>1. /\ refused(Only(NoToken)) /\ refused(Only(PresetExist)) /\ refused(Only(Fault("InvalidPresetName")))
      /\ refused(Only(NoProfile)) /\ refused(Only(NoPTZProfile)) /\ refused(Only(ActionFailed))
  BY DEF Only, Plan, NoToken, PresetExist, NoProfile, NoPTZProfile, ActionFailed, Fault
<1>2. \A with : \/ refused(RunOne(c, "set_preset", with))
                \/ RunOne(c, "set_preset", with) = Plan(<<Command("set_preset", with)>>, Ok({}))
  BY <1>1 DEF RunOne
<1>3. \A plan : refused(ForProfile(c, r, plan)) \/ ForProfile(c, r, plan) = plan
  BY <1>1 DEF ForProfile
<1> DEFINE which == WhichPreset(r)
           name == NewName(r, list, uuid)
           unknown == Has(r, "PresetToken") /\ Numbered(list, Arg(r, "PresetToken")) = {}
           tested == IF Has(r, "PresetName") /\ Arg(r, "PresetName") = Unsafe THEN Only(Fault("InvalidPresetName"))
                     ELSE IF Clashes(r, list, name) THEN Only(PresetExist)
                     ELSE RunOne(c, "set_preset", {which, <<"name", name>>})
           inner == CASE unknown -> Only(NoToken) [] ~unknown -> tested
<1>4. ptz_set_preset(c, r, list, uuid) = ForProfile(c, r, inner)
  BY DEF ptz_set_preset, WhichPreset
<1> HIDE DEF which, name, refused
<1>5. CASE unknown
  <2>1. refused(inner)
    BY <1>1, <1>5
  <2> QED
    BY <1>3, <1>4, <2>1 DEF refused
<1>6. CASE ~unknown
  <2>1. inner = tested
    BY <1>6
  <2>2. \/ refused(tested)
        \/ tested = Plan(<<Command("set_preset", {which, <<"name", name>>})>>, Ok({})) /\ Passes(r, list, uuid)
    BY <1>1, <1>2, <1>6 DEF Passes, name
  <2> QED
    BY <1>3, <1>4, <2>1, <2>2 DEF refused, SetPresetCommand, which, name
<1> QED
  BY <1>5, <1>6

LEMMA PlanOfRemovePreset ==
  ASSUME NEW c, NEW r
  PROVE  LET plan == ptz_remove_preset(c, r) IN
           \/ plan.run = <<>>
           \/ plan = Plan(<<Command("remove_preset", {Arg(r, "PresetToken")})>>, Ok({}))
<1> DEFINE inner == RunOne(c, "remove_preset", {Arg(r, "PresetToken")})
<1>1. inner.run = <<>> \/ inner = Plan(<<Command("remove_preset", {Arg(r, "PresetToken")})>>, Ok({}))
  BY OneCommand
<1>2. ptz_remove_preset(c, r) = ForPreset(c, r, inner)
  BY DEF ptz_remove_preset
<1> HIDE DEF inner
<1>3. ForPreset(c, r, inner).run = <<>> \/ ForPreset(c, r, inner) = inner
  BY TestsPreset
<1> QED
  BY <1>1, <1>2, <1>3

LEMMA PlanOfPtz ==
  ASSUME NEW c, NEW r, NEW w
  PROVE  LET plan == ptz_service(c, r, w)
             list == init_presets(c, w.list)
         IN \/ plan.run = <<>> /\ r.method # "SetPreset"
            \/ Steady(plan) /\ r.method \notin {"SetPreset", "RemovePreset"}
            \/ r.method = "SetPreset" /\ plan = ptz_set_preset(c, r, list, w.uuid)
            \/ r.method = "RemovePreset" /\ plan = ptz_remove_preset(c, r)
<1> DEFINE plan == ptz_service(c, r, w)
           list == init_presets(c, w.list)
           ones == {"GotoPreset", "GotoHomePosition", "RelativeMove", "AbsoluteMove", "Stop", "SetHomePosition"}
           known == ones \cup {"ContinuousMove", "SetPreset", "RemovePreset", "GetPresets", "GetStatus"}
<1>1. CASE r.method \notin known
  BY <1>1, OnlyAnswers DEF ptz_service
<1>2. CASE r.method = "GetPresets"
  <2>1. plan = ptz_get_presets(c, r, list)
    BY <1>2 DEF ptz_service
  <2> QED
    BY <1>2, <2>1, TestsProfile, OnlyAnswers DEF ptz_get_presets
<1>3. CASE r.method = "GetStatus"
  <2>1. plan = ptz_get_status(c, r, w.position, w.moving)
    BY <1>3 DEF ptz_service
  <2> QED
    BY <1>3, <2>1, TestsProfile, OnlyAnswers DEF ptz_get_status
<1>4. CASE r.method \in ones
  <2>1. \/ plan = ptz_goto_preset(c, r, list) \/ plan = ptz_goto_home_position(c, r)
        \/ plan = ptz_set_home_position(c, r) \/ plan = ptz_relative_move(c, r)
        \/ plan = ptz_absolute_move(c, r) \/ plan = ptz_stop(c, r)
    BY <1>4 DEF ptz_service
  <2>2. plan.run = <<>> \/ Acts(plan)
    <3> HIDE DEF plan, list
    <3> QED
      BY <2>1, PlanOfOne
  <2> QED
    BY <1>4, <2>2, OneIsSteady
<1>5. CASE r.method = "ContinuousMove"
  <2>1. plan = ptz_continuous_move(c, r)
    BY <1>5 DEF ptz_service
  <2> QED
    BY <1>5, <2>1, PlanOfContinuousMove
<1>6. CASE r.method = "SetPreset"
  <2>1. plan = ptz_set_preset(c, r, list, w.uuid)
    BY <1>6 DEF ptz_service
  <2> QED
    BY <1>6, <2>1
<1>7. CASE r.method = "RemovePreset"
  <2>1. plan = ptz_remove_preset(c, r)
    BY <1>7 DEF ptz_service
  <2> QED
    BY <1>7, <2>1
<1> QED
  BY <1>1, <1>2, <1>3, <1>4, <1>5, <1>6, <1>7

\* Any request.
LEMMA PlanOfRequest ==
  ASSUME NEW c, NEW r, NEW w
  PROVE  LET plan == Dispatch(c, r, w)
             list == init_presets(c, w.list)
         IN \/ plan.run = <<>> /\ (Adds(r) => plan.answer.kind # "ok" /\ plan.answer.code # "TooManyPresets")
            \/ Steady(plan) /\ ~Changes(r) /\ ~Restarts(r)
            \/ Adds(r) /\ plan = ptz_set_preset(c, r, list, w.uuid)
            \/ Changes(r) /\ ~Adds(r) /\ plan = ptz_remove_preset(c, r)
<1> DEFINE plan == Dispatch(c, r, w)
<1>a. /\ NoAnswer.kind # "ok" /\ NoAnswer.code # "TooManyPresets"
      /\ Undefined.kind # "ok" /\ Undefined.code # "TooManyPresets"
      /\ Fault("MaxNVTProfiles").kind # "ok" /\ Fault("MaxNVTProfiles").code # "TooManyPresets"
      /\ AuthenticationError.kind # "ok" /\ AuthenticationError.code # "TooManyPresets"
  BY DEF NoAnswer, Undefined, AuthenticationError, Fault
<1>1. \/ plan = Service(c, r, w)
      \/ plan = Only(NoAnswer) \/ plan = Only(Undefined)
      \/ plan = Only(Fault("MaxNVTProfiles")) \/ plan = Only(AuthenticationError)
  BY DEF Dispatch
<1> HIDE DEF plan
<1>2. CASE plan # Service(c, r, w)
  BY <1>1, <1>2, <1>a, OnlyAnswers DEF plan
<1>3. CASE plan = Service(c, r, w) /\ r.service = "ptz_service"
  <2>1. plan = ptz_service(c, r, w) /\ ~Restarts(r)
    BY <1>3 DEF Service, Restarts
  <2> QED
    BY <1>3, <2>1, PlanOfPtz DEF plan, Adds, Changes
<1>4. CASE plan = Service(c, r, w) /\ r.service # "ptz_service"
  <2>1. ~Adds(r) /\ ~Changes(r)
    BY <1>4 DEF Adds, Changes
  <2>2. \/ plan.run = <<>>
        \/ r.service = "device_service" /\ plan = device_service(c, r)
        \/ ~Restarts(r) /\ (plan = deviceio_service(c, r) \/ plan = imaging_service(c, r))
    <3>1. r.service = "device_service" => plan = device_service(c, r)
      BY <1>4 DEF Service
    <3>2. r.service = "deviceio_service" => plan = deviceio_service(c, r)
      BY <1>4 DEF Service
    <3>3. r.service = "imaging_service" => plan = imaging_service(c, r)
      BY <1>4 DEF Service
    <3>4. \A d : events_service(d, r).run = <<>>
      BY OnlyAnswers DEF events_service
    <3>5. r.service \notin {"device_service", "deviceio_service", "imaging_service"} => plan.run = <<>>
      BY <1>4, <3>4, OnlyAnswers DEF Service
    <3> QED
      BY <3>1, <3>2, <3>3, <3>5 DEF Restarts
  <2>3. plan.run = <<>> \/ (Acts(plan) /\ ~Restarts(r))
    BY <2>2, PlanOfDevice, PlanOfDeviceIO, PlanOfImaging DEF Restarts
  <2> QED
    BY <2>1, <2>3, OneIsSteady DEF plan
<1> QED
  BY <1>2, <1>3, <1>4

-----------------------------------------------------------------------------
(* Refusals. *)

\* What is answered when the commands succeed.
LEMMA PlanAnswers ==
  ASSUME NEW c, NEW r, NEW w, Dispatch(c, r, w).run # <<>>
  PROVE  Dispatch(c, r, w).answer.kind = "ok" \/ Dispatch(c, r, w).answer = ActionFailed
<1> DEFINE plan == Dispatch(c, r, w)
           list == init_presets(c, w.list)
<1>1. \A run : Plan(run, Ok({})).answer.kind = "ok"
  BY DEF Plan, Ok
<1>2. \/ Steady(plan)
      \/ plan = ptz_set_preset(c, r, list, w.uuid)
      \/ plan = ptz_remove_preset(c, r)
  BY PlanOfRequest
<1> HIDE DEF plan, list
<1>3. CASE plan = ptz_set_preset(c, r, list, w.uuid)
  <2>1. plan.run # <<>>
    BY DEF plan
  <2>2. plan = Plan(<<SetPresetCommand(r, list, w.uuid)>>, Ok({}))
    BY <1>3, <2>1, PlanOfSetPreset
  <2> QED
    BY <1>1, <2>2 DEF plan
<1>4. CASE plan = ptz_remove_preset(c, r)
  <2>1. plan.run # <<>>
    BY DEF plan
  <2>2. plan = Plan(<<Command("remove_preset", {Arg(r, "PresetToken")})>>, Ok({}))
    BY <1>4, <2>1, PlanOfRemovePreset
  <2> QED
    BY <1>1, <2>2 DEF plan
<1> QED
  BY <1>2, <1>3, <1>4 DEF Steady, plan

LEMMA InitRefusals == Init => Refusals
  BY Parts DEF Init, Refusals, Shape, Promised, RejectedIsNotApplied, Nothing

\* The answers to a request whose commands have run.
LEMMA LateAnswers ==
  ASSUME NEW p \in Procs, Refusals, Step(p) \/ SyncReturns(p)
  PROVE  RejectedIsNotApplied'
<1>a. ActionFailed.code \in Tried /\ Fault("TooManyPresets").code \in Tried /\ Empty.kind = "ok"
  BY DEF ActionFailed, Fault, Tried, Empty, Ok
<1>n. Nothing.answer.kind # "fault"
  BY DEF Nothing, Empty, Ok
<1>1. CASE CommandSucceeds(p) \/ CommandFails(p)
  <2>1. \/ last' = Nothing
        \/ last'.answer = ActionFailed
        \/ last'.answer = proc[p].answer /\ proc[p].pc = "run"
    BY <1>1 DEF CommandSucceeds, CommandFails, End, Answered
  <2> QED
    BY <1>a, <1>n, <2>1 DEF RejectedIsNotApplied, Refusals, Promised
<1>2. CASE AnswerSetPreset(p)
  <2>1. \A r, name, total, list : \A answer \in SetPresetAnswer(r, name, total, list) :
          answer = Fault("TooManyPresets") \/ answer.kind = "ok"
    <3>1. \A claims : Ok(claims).kind = "ok"
      BY DEF Ok
    <3> QED
      BY <3>1 DEF SetPresetAnswer
  <2>2. last'.answer = Fault("TooManyPresets") \/ last'.answer.kind = "ok"
    BY <1>2, <2>1 DEF AnswerSetPreset, End, Answered
  <2> QED
    BY <1>a, <2>2 DEF RejectedIsNotApplied
<1>3. CASE last' = Nothing
  BY <1>n, <1>3 DEF RejectedIsNotApplied
<1>4. \/ CommandSucceeds(p) \/ CommandFails(p) \/ AnswerSetPreset(p) \/ last' = Nothing
  BY DEF Step, SetSystemFactoryDefault, CreateHelper, CallSync, Expire, Reboot, RebootFails, SyncReturns, Restart
<1> QED
  BY <1>1, <1>2, <1>3, <1>4

LEMMA StepRefusals == Refusals /\ [Next]_vars => Refusals'
<1> SUFFICES ASSUME Refusals, [Next]_vars PROVE Refusals'
  OBVIOUS
<1>s. Shape
  BY DEF Refusals
<1>1. CASE UNCHANGED vars
  BY <1>1 DEF vars, Refusals, Shape, Promised, RejectedIsNotApplied
<1>2. CASE PutAway
  BY <1>2 DEF PutAway, Refusals, Shape, Promised, RejectedIsNotApplied, Nothing
<1>3. ASSUME NEW p \in Procs, Receive(p) PROVE Refusals'
  <2>1. PICK r, w : TakesUp(p, r, w)
    BY <1>3, StepTakesUp
  <2> DEFINE plan == Dispatch(conf, r, w)
  <2>2. plan.run # <<>> => plan.answer.kind = "ok" \/ plan.answer = ActionFailed
    BY PlanAnswers
  <2> HIDE DEF plan
  <2>3. RejectedIsNotApplied'
    BY <2>1 DEF TakesUp, RejectedIsNotApplied, Answered, Nothing
  <2>4. Shape'
    BY <1>s, <2>1, Parts DEF TakesUp, Shape
  <2>5. \A q \in Procs : proc'[q] = proc[q] \/ proc'[q] = Begun(r, w, plan)
    BY <1>s, <2>1 DEF TakesUp, Shape, plan
  <2>6. proc' # proc => plan.run # <<>> \/ Restarts(r)
    BY <2>1 DEF TakesUp, plan
  <2>7. Promised'
    BY <2>2, <2>5, <2>6, Parts DEF Promised, Refusals
  <2> QED
    BY <2>3, <2>4, <2>7 DEF Refusals
<1>4. ASSUME NEW p \in Procs, Step(p) \/ SyncReturns(p) PROVE Refusals'
  <2>1. Shape' /\ GoesOn(p)
    BY <1>s, <1>4, StepGoesOn
  <2>2. Promised'
    BY <2>1, Parts DEF GoesOn, Promised, Refusals
  <2> QED
    BY <1>4, <2>1, <2>2, LateAnswers DEF Refusals
<1> QED
  BY <1>1, <1>2, <1>3, <1>4, Steps

\* A request that is refused has run no command, whatever the file says and in
\* whatever order the elements of the request are looked at.
THEOREM RefusalsChangeNothing == Spec => []RejectedIsNotApplied
<1>1. Refusals => RejectedIsNotApplied
  BY DEF Refusals
<1> QED
  BY InitRefusals, StepRefusals, <1>1, PTL DEF Spec

================================================================================
