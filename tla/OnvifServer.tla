------------------------------ MODULE OnvifServer ------------------------------
(***************************************************************************)
(* The CGI server at work: each request is a process of its own, which     *)
(* reads the configuration file, answers, and may run commands of the      *)
(* configuration before or after the answer. Processes share the presets   *)
(* that the commands of the device keep, and the device they can restart.  *)
(*                                                                         *)
(* The commands are external. Of their contract the model takes what the   *)
(* code relies on: set_preset adds a preset under a free number, or        *)
(* renames one, or does nothing when there is no room, all with status 0.  *)
(***************************************************************************)
EXTENDS Dispatcher

CONSTANTS Procs,       \* CGI processes
          Devices,     \* the devices by name: see DeviceType
          Serial,      \* those whose clients wait for one another with PTZ requests
          Prompt,      \* those whose get_presets prints everything at once
          Numbers,     \* of presets, as digits
          Names,       \* of presets, asked for or made of a UUID
          Uuids,       \* the latter
          MaxPresets   \* room in the device

\* What there is to know of a device: its file, the requests of its clients and
\* the processes that serve them, and the presets it may start with.
ASSUME DevicesAssumption ==
  /\ Serial \subseteq DOMAIN Devices /\ Prompt \subseteq DOMAIN Devices
  /\ \A d \in DOMAIN Devices :
       /\ Devices[d].format \in {"text", "json"} /\ Devices[d].clients \subseteq Procs
       /\ \A presets \in Devices[d].presets :
            /\ presets \subseteq Numbers \X Names /\ IsFiniteSet(presets)
            /\ \A a, b \in presets : a[1] = b[1] \/ a[2] = b[2] => a = b
            /\ Cardinality(presets) <= MaxPresets
       /\ \A r \in Devices[d].asked :
            Has(r, "PresetName") => Arg(r, "PresetName") \in Names \union {Unsafe}
\* The web server runs the program under the names of the services only.
Services == {"device_service", "media_service", "media2_service", "ptz_service", "events_service",
             "deviceio_service", "imaging_service"}
ASSUME PresetsAssumption == "-1" \notin Numbers /\ Uuids \subseteq Names /\ MaxPresets \in Nat

VARIABLES device,  \* the name of the device
          conf,    \* what every process reads in its file
          store,   \* the presets of the device: <<number, name>>
          proc,    \* the processes
          last     \* the last answer, until something else happens

vars == <<device, conf, store, proc, last>>

\* A process between requests, and no answer. Requests have the parts of NoRequest.
NoRequest == [service |-> "", method |-> "", args |-> [element \in {} |-> ""], header |-> {},
              user |-> "", secret |-> "", short |-> TRUE]
ASSUME RequestsAssumption ==
  \A d \in DOMAIN Devices : \A r \in Devices[d].asked :
    r.service \in Services /\ DOMAIN r = DOMAIN NoRequest
Idle == [pc |-> "idle", req |-> NoRequest, todo |-> <<>>, ran |-> <<>>,
         answer |-> Empty, total |-> 0, sync |-> "none"]
Nothing == [req |-> NoRequest, answer |-> Empty, ran |-> <<>>]
Answered(r, answer, ran) == [req |-> r, answer |-> answer, ran |-> ran]

Now == Devices[device]
ReadConf(d) ==
  IF Devices[d].format = "text" THEN process_conf_file(Devices[d].file)
  ELSE process_json_conf_file(Devices[d].file)

\* README.md:227: "you can use 1 or 2 profiles"; they have different names.
OneOrTwo(c) ==
  /\ c.profiles \in Seq(Profiles) /\ Len(c.profiles) \in {1, 2}
  /\ \A i, j \in P(c) : c.profiles[i].name = c.profiles[j].name => i = j
ASSUME FilesAssumption ==
  \A d \in DOMAIN Devices :
    /\ ReadConf(d).ok \in {"ok", "failed", "undefined"}
    /\ ReadConf(d).ok = "ok" => OneOrTwo(ReadConf(d))

Init ==
  /\ device \in DOMAIN Devices
  /\ conf = ReadConf(device)
  /\ store \in Devices[device].presets
  /\ proc = [p \in Procs |-> Idle]
  /\ last = Nothing

-----------------------------------------------------------------------------
(* Requests. *)

\* What get_presets may print: everything, or what came before the first read.
Lists == IF device \in Prompt THEN {store} ELSE SUBSET store

\* What a request finds. Only the methods of PTZ look.
World(list, uuid, position, moving) ==
  [list |-> list, uuid |-> uuid, position |-> position, moving |-> moving]
Worlds(r) ==
  CASE r.service # "ptz_service" -> {World({}, "", FALSE, FALSE)}
    [] r.service = "ptz_service" /\ r.method = "GetStatus" ->
         [list : {{}}, uuid : {""}, position : BOOLEAN, moving : BOOLEAN]
    [] OTHER -> [list : Lists, uuid : Uuids \ {preset[2] : preset \in store},
                 position : {FALSE}, moving : {FALSE}]

\* PTZ requests of a serial device wait for the one before.
Waits(r) ==
  device \in Serial /\ r.service = "ptz_service" /\ \E q \in Procs : proc[q].req.service = "ptz_service"

Restarts(r) == r.service = "device_service" /\ r.method = "SystemReboot"
Resets(r) == r.service = "device_service" /\ r.method = "SetSystemFactoryDefault"
Adds(r) == r.service = "ptz_service" /\ r.method = "SetPreset"

\* The last answer is a note for the properties, which is put away before the
\* next request; a process that has ended is not changed by that.
PutAway ==
  /\ last # Nothing
  /\ last' = Nothing
  /\ UNCHANGED <<device, conf, store, proc>>

\* A process with something to do after the dispatch.
Begun(r, w, plan) ==
  [Idle EXCEPT !.req = r, !.answer = plan.answer, !.todo = plan.run,
               !.total = IF Adds(r) THEN Cardinality(w.list) ELSE 0,
               !.pc = IF Restarts(r) THEN "restart" ELSE IF Resets(r) THEN "reset" ELSE "run"]

\* A process dispatches a request, and ends when nothing is left to do. The
\* restart and the factory default follow their answers.
Receive(p) ==
  /\ last = Nothing /\ p \in Now.clients /\ proc[p].pc = "idle"
  /\ \E r \in Now.asked : \E w \in Worlds(r) :
       LET plan == Dispatch(conf, r, w) IN
         /\ ~Waits(r)
         /\ proc' = IF plan.run # <<>> \/ (Restarts(r) /\ plan.answer = Empty)
                    THEN [proc EXCEPT ![p] = Begun(r, w, plan)] ELSE proc
         /\ last' = IF plan.run = <<>> \/ Resets(r) THEN Answered(r, plan.answer, <<>>) ELSE Nothing
  /\ UNCHANGED <<device, conf, store>>

-----------------------------------------------------------------------------
(* Commands. *)

\* The variable or argument of a command.
Given(command, name) == (CHOOSE v \in command.with : v[1] = name)[2]

\* What the presets may be after a command that succeeds.
AfterAdding(name) ==
  LET free == Numbers \ {preset[1] : preset \in store}
  IN IF Cardinality(store) = MaxPresets THEN {store} ELSE {store \union {<<n, name>>} : n \in free}
AfterRenaming(number, name) ==
  {{IF preset[1] = number THEN <<number, name>> ELSE preset : preset \in store}}
Effects(command) ==
  CASE command.name = "set_preset" ->
         IF Given(command, "PresetToken") = "-1" THEN AfterAdding(Given(command, "name"))
         ELSE AfterRenaming(Given(command, "PresetToken"), Given(command, "name"))
    [] command.name = "remove_preset" ->
         {{preset \in store : preset[1] # Given(command, "PresetToken")}}
    [] OTHER -> {store}

\* The process ends with this answer.
End(p, answer, ran) ==
  /\ proc' = [proc EXCEPT ![p] = Idle]
  /\ last' = Answered(proc[p].req, answer, ran)

\* run_command returns 0, and the next command follows, or the answer, or the
\* second look at the presets.
CommandSucceeds(p) ==
  LET command == Head(proc[p].todo)
      ran == Append(proc[p].ran, command)
  IN /\ proc[p].pc = "run" /\ command.name # "(null)"
     /\ store' \in Effects(command)
     /\ IF Tail(proc[p].todo) = <<>> /\ ~Adds(proc[p].req)
        THEN End(p, proc[p].answer, ran)
        ELSE /\ proc' = [proc EXCEPT ![p].todo = Tail(@), ![p].ran = ran,
                                     ![p].pc = IF Adds(proc[p].req) THEN "relist" ELSE "run"]
             /\ last' = Nothing
     /\ UNCHANGED <<device, conf>>

\* It returns something else, without having done anything.
CommandFails(p) ==
  /\ proc[p].pc = "run"
  /\ End(p, ActionFailed, proc[p].ran)
  /\ UNCHANGED <<device, conf, store>>

\* SetPreset reads the presets again and answers.
AnswerSetPreset(p) ==
  /\ proc[p].pc = "relist"
  /\ \E list \in Lists :
       \E answer \in SetPresetAnswer(proc[p].req, Given(proc[p].ran[1], "name"),
                                     proc[p].total, init_presets(conf, list)) :
         End(p, answer, proc[p].ran)
  /\ UNCHANGED <<device, conf, store>>

\* The command of SetSystemFactoryDefault, whose status nobody reads.
SetSystemFactoryDefault(p) ==
  /\ proc[p].pc = "reset"
  /\ proc' = [proc EXCEPT ![p] = Idle]
  /\ last' = Nothing
  /\ UNCHANGED <<device, conf, store>>

-----------------------------------------------------------------------------
(* Restart of the device: reboot_thread and reboot_sync_thread. *)

Restart(p, from, to) ==
  /\ proc[p].pc = "restart" /\ proc[p].sync = from
  /\ proc' = [proc EXCEPT ![p].sync = to]
  /\ last' = Nothing
  /\ UNCHANGED <<device, conf, store>>

\* The helper thread is created, or sync is called in its place.
CreateHelper(p) == Restart(p, "none", "helper")
CallSync(p) == Restart(p, "none", "inline")

\* sync returns, which it may never do; or the deadline passes, which counts
\* only for the thread that waits for the helper.
SyncReturns(p) == \E how \in {"helper", "inline"} : Restart(p, how, "done")

\* Mutant: the wait has no deadline.
Mutant_Expire(p) == FALSE
Expire(p) == Restart(p, "helper", "late")

\* Mutant: the work of the processes is still there afterwards.
Mutant_Reboot(p) ==
  /\ proc[p].pc = "restart" /\ proc[p].sync \in {"done", "late"}
  /\ proc' = [q \in Procs |-> [proc[q] EXCEPT !.pc = "idle"]]
  /\ last' = Nothing
  /\ UNCHANGED <<device, conf, store>>

\* The device restarts, and every process with it.
Reboot(p) ==
  /\ proc[p].pc = "restart" /\ proc[p].sync \in {"done", "late"}
  /\ proc' = [q \in Procs |-> Idle]
  /\ last' = Nothing
  /\ UNCHANGED <<device, conf, store>>

\* reboot is refused to a process without the right to it.
RebootFails(p) ==
  /\ proc[p].pc = "restart" /\ proc[p].sync \in {"done", "late"}
  /\ proc' = [proc EXCEPT ![p] = Idle]
  /\ last' = Nothing
  /\ UNCHANGED <<device, conf, store>>

-----------------------------------------------------------------------------

\* What a process does by itself once it has begun.
Step(p) ==
  \/ CommandSucceeds(p) \/ CommandFails(p) \/ AnswerSetPreset(p) \/ SetSystemFactoryDefault(p)
  \/ CreateHelper(p) \/ CallSync(p) \/ Expire(p) \/ Reboot(p) \/ RebootFails(p)

Next == PutAway \/ \E p \in Procs : Receive(p) \/ Step(p) \/ SyncReturns(p)

Spec == Init /\ [][Next]_vars

\* The commands return and the threads run; nothing says that sync returns.
FairSpec == Spec /\ \A p \in Procs : WF_vars(Step(p))

-----------------------------------------------------------------------------
(* Properties *)

Pcs == {"idle", "run", "relist", "reset", "restart"}
Sync == {"none", "helper", "inline", "late", "done"}

\* The variables have their types: every process is in a state of the code,
\* with commands to run exactly when it runs them, and there are never more
\* presets than there is room for.
TypeOK ==
  /\ device \in DOMAIN Devices
  /\ store \subseteq Numbers \X Names
  /\ \A p \in Procs :
       /\ proc[p].pc \in Pcs /\ proc[p].sync \in Sync
       /\ (proc[p].pc \in {"run", "reset"}) = (proc[p].todo # <<>>)
       /\ p \notin Now.clients => proc[p] = Idle
  /\ Cardinality(store) <= MaxPresets

\* The client has shown that it knows the user and the password.
Authentic(r) ==
  /\ {"Security", "UsernameToken"} \union TokenElements \subseteq r.header /\ r.short
  /\ <<r.user>> = conf.user /\ <<r.secret>> = conf.password

\* A device with a user runs no command, and says nothing of itself but through
\* the public methods, for a client without the credentials; whatever is
\* missing in the header, and in whatever order requests come.
NothingWithoutCredentials ==
  conf.user # Null =>
    /\ \A p \in Procs : proc[p].pc # "idle" => Authentic(proc[p].req)
    /\ last.answer.kind = "ok" /\ last # Nothing => Authentic(last.req) \/ IsPublic(last.req)

\* The elements that a method reads without asking whether they are there.
Needed == [GetNode |-> {"NodeToken"}, GotoPreset |-> {"PresetToken"}, RemovePreset |-> {"PresetToken"},
           RelativeMove |-> {"Translation", "PanTilt"}, SetRelayOutputState |-> {"LogicalState"},
           GetVideoSourceModes |-> {"VideoSourceToken"},
           GetGuaranteedNumberOfVideoEncoderInstances |-> {"ConfigurationToken"}]

\* Requests whose answer reads what was never written: such an element is
\* missing; the zoom moves alone, or without a space, or something moves in an
\* unknown one; the settings of a relay; the second profile when there is one.
Unwritten(c, r) ==
  \/ r.method \in DOMAIN Needed /\ ~(Needed[r.method] \subseteq DOMAIN r.args)
  \/ r.method \in {"RelativeMove", "AbsoluteMove"} /\ Missing(r, "x") /\ Missing(r, "y") /\ Has(r, "z")
  \/ r.method = "RelativeMove" /\ Has(r, "Zoom") /\ ~Has(r, "zspace")
  \/ r.method = "RelativeMove" /\ Has(r, "space") /\ Arg(r, "space") \notin {"generic", "fov"}
  \/ r.method = "SetRelayOutputSettings"
  \/ r.service \in {"media_service", "media2_service"} /\ Alone(c)
IsOff(c, r) == r.service = "media2_service" /\ c.media2 # 1

\* The list of the services has no case for an "enable" of PTZ, in a JSON file,
\* that is neither 0 nor 1: device_get_services ends without a word.
Unlisted(c, r) == r.service = "device_service" /\ r.method = "GetServices" /\ c.ptz \notin {0, 1}

\* When the file could be read, every request for a service that is on gets an
\* answer or a fault, whatever other clients do with the presets meanwhile: the
\* methods leave out the cases of Unwritten and Unlisted and no others, for
\* every combination of what the file enables.
EveryRequestIsAnswered ==
  conf.ok = "ok" /\ ~HasNoPassword(conf, last.req) =>
    \/ last.answer.kind \in {"ok", "fault"}
    \/ Unwritten(conf, last.req) \/ IsOff(conf, last.req) \/ Unlisted(conf, last.req)

\* README.md:276: "the user you want to set for WS-UsernameToken
\* authentication, if blank security is disabled".
BlankUserDisablesSecurity == conf.user = <<"">> => last.answer # AuthenticationError

\* The commands that a request asks for, by what its elements say.
Axes == [x |-> [pos |-> "move_right", neg |-> "move_left"],
         y |-> [pos |-> "move_up", neg |-> "move_down"],
         z |-> [pos |-> "move_in", neg |-> "move_out"]]
Movements == [GotoPreset |-> "move_preset", GotoHomePosition |-> "goto_home_position",
              RelativeMove |-> "jump_to_rel", AbsoluteMove |-> "jump_to_abs",
              SetPreset |-> "set_preset", SetHomePosition |-> "set_home_position",
              RemovePreset |-> "remove_preset"]
RelayState(c, r) ==
  IF (Arg(r, "LogicalState") = "active") = (c.relays[Arg(r, "RelayOutputToken")[2]].idle = "open")
  THEN "close" ELSE "open"
Moving(r) == {a \in DOMAIN Axes : Has(r, a) /\ Arg(r, a) \in {"pos", "neg"}}
Wanted(c, r) ==
  CASE r.service = "ptz_service" /\ r.method = "ContinuousMove" -> {Axes[a][Arg(r, a)] : a \in Moving(r)}
    [] r.service = "ptz_service" /\ r.method \in DOMAIN Movements -> {Movements[r.method]}
    [] r.service = "imaging_service" /\ r.method = "SetImagingSettings" -> {"imaging_set_command"}
    [] r.service = "imaging_service" /\ r.method = "Move" -> {"imaging_focus_command"}
    [] r.service = "deviceio_service" /\ r.method = "SetRelayOutputState" -> {RelayState(c, r)}
    [] OTHER -> {}
NamesOf(commands) == {commands[i].name : i \in DOMAIN commands}

\* A relay whose command for the state asked for is in the file, but blank:
\* deviceio_set_relay_output_state takes it for a relay with nothing to run.
SetsBlankRelay(c, r) ==
  /\ r.service = "deviceio_service" /\ r.method = "SetRelayOutputState"
  /\ c.relays[Arg(r, "RelayOutputToken")[2]][RelayState(c, r)] = <<"">>

\* A client that is told its request was carried out can rely on all of it: the
\* command for each of the axes was run and returned 0. The one "ok" for which
\* nothing was done is that of a relay whose command is blank.
OkMeansDone ==
  last.answer.kind = "ok" =>
    \/ Wanted(conf, last.req) \subseteq NamesOf(last.ran)
    \/ SetsBlankRelay(conf, last.req) /\ last.ran = <<>>

\* Faults that say that something went wrong on the way.
Tried == {"ActionFailed", "TooManyPresets"}

\* A request that is refused has changed nothing: all of it is looked at before
\* any command is run.
RejectedIsNotApplied ==
  last.answer.kind = "fault" /\ last.answer.code \notin Tried => last.ran = <<>>

-----------------------------------------------------------------------------
(* What the answers say together. *)

\* The methods that take a token, and the element they take it in.
Takers(kind) ==
  CASE kind = "Profile" ->
         {<<"media_service", m, "ProfileToken">> :
            m \in {"GetProfile", "GetSnapshotUri", "GetStreamUri", "GetVideoSourceConfigurationOptions",
                   "GetCompatibleVideoEncoderConfigurations", "GetCompatibleAudioEncoderConfigurations",
                   "GetCompatibleAudioDecoderConfigurations", "GetAudioSourceConfigurationOptions"}}
           \union {<<"media2_service", m, "ProfileToken">> :
            m \in {"GetVideoSourceConfigurations", "GetVideoEncoderConfigurations",
                   "GetAudioEncoderConfigurations", "GetSnapshotUri", "GetStreamUri"}}
           \union {<<"media2_service", "GetProfiles", "Token">>}
    [] kind = "VideoEncoderToken" ->
         {<<"media_service", "GetVideoEncoderConfiguration", "ConfigurationToken">>,
          <<"media2_service", "GetVideoEncoderConfigurations", "ConfigurationToken">>,
          <<"media2_service", "GetVideoEncoderConfigurationOptions", "ConfigurationToken">>}
    [] kind = "AudioEncoderToken" ->
         {<<"media_service", "GetAudioEncoderConfiguration", "ConfigurationToken">>,
          <<"media2_service", "GetAudioEncoderConfigurations", "ConfigurationToken">>}
    [] kind = "AudioDecoderToken" ->
         {<<"media_service", "GetAudioDecoderConfiguration", "ConfigurationToken">>,
          <<"media2_service", "GetAudioDecoderConfigurations", "ConfigurationToken">>}
    [] kind = "VideoSourceConfigToken" ->
         {<<"media_service", "GetVideoSourceConfiguration", "ConfigurationToken">>,
          <<"media2_service", "GetVideoSourceConfigurations", "ConfigurationToken">>}
    [] kind = "AudioSourceConfigToken" ->
         {<<"media_service", "GetAudioSourceConfiguration", "ConfigurationToken">>,
          <<"media2_service", "GetAudioSourceConfigurations", "ConfigurationToken">>}
    [] kind = "AudioOutputConfigToken" ->
         {<<"media2_service", "GetAudioOutputConfigurations", "ConfigurationToken">>}
    [] kind = "VideoSourceToken" -> {<<"imaging_service", "GetImagingSettings", "VideoSourceToken">>,
                                     <<"media2_service", "GetVideoSourceModes", "VideoSourceToken">>}
    [] kind = "RelayOutputToken" -> {<<"deviceio_service", "SetRelayOutputState", "RelayOutputToken">>}
    [] kind = "PTZNodeToken" -> {<<"ptz_service", "GetNode", "NodeToken">>}
    [] kind = "PresetToken" -> {<<"ptz_service", "GotoPreset", "PresetToken">>}
    [] OTHER -> {}

\* The same client uses a token that it was told, with what else there must be.
Usual == [LogicalState |-> "active", ProfileToken |-> Name(conf, 1)]
FollowUp(taker, token) ==
  [last.req EXCEPT
     !.service = taker[1], !.method = taker[2],
     !.args = [element \in {taker[3]} \union DOMAIN Usual |-> IF element = taker[3] THEN token ELSE Usual[element]]]

\* Faults that say that there is no such thing.
Strange == {"NoProfile", "NoConfig", "NoToken", "NoEntity", "NoSource", "NoVideoSource", "RelayToken"}

\* Clients of the presets wait for one another, and see all of them.
Orderly == device \in Serial \intersect Prompt /\ "get_presets" \in conf.commands

\* Tokens are cut after nine letters where a suffix may follow.
ShortNames == \A i \in P(conf) : Len(conf.profiles[i].name) <= 9
ASSUME LettersAssumption == \A name \in {"Profile_0", "Profile_1"} : Len(name) = 9

\* Media2 writes Profile_0 and Profile_1 whatever the names are.
UsualNames == \A i \in P(conf) : conf.profiles[i].name = <<"Profile_0", "Profile_1">>[i]

\* Every token that an answer lists can be used: no other method of a service
\* that is on denies that it exists. This ties each method that writes tokens to
\* each one that parses them, over both versions of Media. Presets are left out
\* when several clients change them at a time.
ListedTokensAreAccepted ==
  last.answer.kind = "ok" /\ ShortNames /\ (conf.media2 = 1 => UsualNames) =>
    \A claim \in {claim \in last.answer.claims : claim[1] = "PresetToken" => Orderly} :
      \A taker \in Takers(claim[1]) :
        LET r == FollowUp(taker, <<claim[1], claim[2]>>)
            answer == Dispatch(conf, r, World(store, "", FALSE, FALSE)).answer
        IN /\ answer.kind \in {"ok", "fault"} \/ Unwritten(conf, r) \/ IsOff(conf, r)
           /\ answer.code \notin Strange

\* Every service that GetServices or GetCapabilities lists has capabilities.
ListedServicesAnswer ==
  last.answer.kind = "ok" =>
    \A claim \in last.answer.claims :
      claim[1] = "Service" =>
        LET r == [last.req EXCEPT !.service = claim[2], !.method = "GetServiceCapabilities"]
        IN conf.user = Null \/ Authentic(r) => Dispatch(conf, r, World(store, "", FALSE, FALSE)).answer.kind = "ok"

\* Clients find their way: what they are told of works.
ListedIsUsable == ListedTokensAreAccepted /\ ListedServicesAnswer

\* The audio encoding that Media2 writes for one profile is that of the first.
BorrowsEncoding(c, r) ==
  r.service = "media2_service" /\ r.method = "GetProfiles" /\ Has(r, "Token")
    /\ \E i, j \in P(c) : c.profiles[i].audio # c.profiles[j].audio

\* Encodings have different names in the two versions of Media.
Comparable(r, s, kind) == kind \in Suffixed => r.service = s.service

\* Two methods that describe the same thing describe it alike: the codec of a
\* profile, how many relays there are, the state a relay is idle in, and which
\* events there are; each is written by several methods, from the same file.
ClaimsAgree ==
  last.answer.kind = "ok" /\ ~BorrowsEncoding(conf, last.req) =>
    \A r \in Now.asked :
      LET answer == Dispatch(conf, r, World({}, "", FALSE, FALSE)).answer IN
      r.service # "ptz_service" =>
        \A a \in last.answer.claims, b \in answer.claims :
          a[1] = b[1] /\ a[2] = b[2] /\ a[3] # "" /\ b[3] # "" /\ a[1] # "PresetToken"
              /\ Comparable(last.req, r, a[1]) /\ ~BorrowsEncoding(conf, r)
            => a[3] = b[3]

-----------------------------------------------------------------------------
(* Presets. *)

\* With clients that wait for one another no two presets have one name, and no
\* two have one number, whatever fails or restarts.
PresetNamesUnique ==
  Orderly => \A a, b \in store : a[1] = b[1] \/ a[2] = b[2] => a = b

None == <<"none", "">>

\* The command of SetPreset, before or after it has run, the name it gives,
\* and the presets that have this name.
SetCommand(p) == IF proc[p].pc = "run" THEN Head(proc[p].todo) ELSE proc[p].ran[1]
SetName(p) == Given(SetCommand(p), "name")
Called(p) == {preset \in store : preset[2] = SetName(p)}

\* The request that waits for its answer, and what became of it: the preset
\* that it changed, or the one with its name, or nothing.
Waiting == {p \in Procs : proc[p].pc = "relist"}
OutcomeOf(p) ==
  IF Has(proc[p].req, "PresetToken") THEN <<"added", Arg(proc[p].req, "PresetToken")[2]>>
  ELSE IF Called(p) = {} THEN <<"full", "">>
  ELSE <<"added", (CHOOSE preset \in Called(p) : TRUE)[1]>>
Outcome ==
  IF ~Orderly \/ Waiting = {} THEN None ELSE OutcomeOf(CHOOSE p \in Waiting : TRUE)

\* What the client of SetPreset was told.
Told ==
  IF ~Orderly \/ ~Adds(last.req) THEN None
  ELSE IF last.answer.code = "TooManyPresets" THEN <<"full", "">>
  ELSE IF last.answer.kind = "ok" THEN <<"added", (CHOOSE claim \in last.answer.claims : TRUE)[2]>>
  ELSE None

PS == INSTANCE PresetStore WITH store <- IF Orderly THEN store ELSE {}, outcome <- Outcome, told <- Told

\* With such clients the four steps of SetPreset, which lists the presets,
\* runs a command, lists again and compares, are the one step of PresetStore,
\* and the client is told the token of its preset or that there is no room.
ImplementsPresetStore == PS!Spec

-----------------------------------------------------------------------------
(* Liveness. *)

\* Every process ends, also one that restarts a device whose disk does not
\* answer; except that without a helper thread sync is called with no deadline.
RequestsEnd == \A p \in Procs : proc[p].pc # "idle" ~> proc[p].pc = "idle" \/ proc[p].sync = "inline"

-----------------------------------------------------------------------------
(* What every step keeps.                                                  *)

\* Processes keep their parts.
Shape == DOMAIN proc = Procs /\ \A p \in Procs : DOMAIN proc[p] = DOMAIN Idle

\* What is answered when the commands are through is no refusal.
Promised ==
  \A p \in Procs : proc[p].pc = "run" => proc[p].answer.kind = "ok" \/ proc[p].answer = ActionFailed

\* What a request asks for has been run or will be, unless one of its commands
\* is not configured, which cannot succeed.
Due ==
  \A p \in Procs :
    /\ proc[p].pc = "run" => proc[p].ran \in Seq({proc[p].ran[i] : i \in DOMAIN proc[p].ran})
    /\ proc[p].pc = "run" /\ (proc[p].answer.kind = "ok" \/ Adds(proc[p].req)) =>
         \/ "(null)" \in NamesOf(proc[p].todo)
         \/ Wanted(conf, proc[p].req) \subseteq NamesOf(proc[p].ran) \union NamesOf(proc[p].todo)
    /\ proc[p].pc = "relist" => Wanted(conf, proc[p].req) \subseteq NamesOf(proc[p].ran)

\* The dispatcher has read the file, and could check the credentials, of every
\* request that leads to a command or to a claim.
LetThrough(r) == conf.ok = "ok" /\ ~HasNoPassword(conf, r)
Heard ==
  /\ \A p \in Procs : proc[p].pc # "idle" => LetThrough(proc[p].req)
  /\ last.answer.claims # {} => LetThrough(last.req)

\* What is said of the whole device, by which it is the same in every answer.
Totals(c) ==
  [AudioSources |-> IF Audible(c) = {} THEN "0" ELSE "1",
   AudioOutputs |-> IF Decoding(c) = {} THEN "0" ELSE "1",
   RelayOutputs |-> ToString(Cardinality(DOMAIN c.relays)),
   WSPullPointSupport |-> IF c.events \in {"PULLPOINT", "BOTH"} THEN "true" ELSE "false",
   BaseSubscription |-> IF c.events \in {"BASESUBSCRIPTION", "BOTH"} THEN "true" ELSE "false",
   MoveStatus |-> IF "is_moving" \in c.commands THEN "true" ELSE "false",
   StatusPosition |-> IF "get_position" \in c.commands THEN "true" ELSE "false"]

\* What the services call the profiles, and which names they have for codecs.
Written(c, r, i) == IF r.service = "media2_service" THEN M2!WrittenName(i) ELSE c.profiles[i].name
Version(r) == IF r.service = "media2_service" THEN 2 ELSE 1
FixedKinds == {"VideoSourceConfigToken", "AudioSourceConfigToken", "AudioOutputConfigToken",
               "VideoSourceToken", "PTZNodeToken"}

\* A claim that is true: it is about a profile, a relay, a service or another
\* part that there is, and has its value.
IsTrue(c, r, claim) ==
  LET kind == claim[1] IN
  /\ kind \in {"Profile", "AudioDecoderToken"} => \E i \in P(c) : claim[2] = Written(c, r, i)
  /\ kind = "VideoEncoderToken" =>
       \E i \in P(c) : claim[2] = Written(c, r, i) /\ claim[3] = VideoCodec(c.profiles[i].video, Version(r))
  /\ kind = "AudioEncoderToken" =>
       \E i \in P(c) : /\ claim[2] = Written(c, r, i)
                       /\ ~BorrowsEncoding(c, r) => claim[3] = AudioCodec(c.profiles[i].audio, Version(r))
  /\ kind = "RelayOutputToken" => claim[2] \in DOMAIN c.relays /\ claim[3] \in {"", c.relays[claim[2]].idle}
  /\ kind \in DOMAIN Totals(c) => claim[3] = Totals(c)[kind]
  /\ kind \in FixedKinds => claim[2] = ""
  /\ kind = "Service" => claim[2] \in Services /\ (claim[2] = "imaging_service" => c.imaging # 0)
                                               /\ (claim[2] = "media2_service" => c.media2 = 1)
  /\ kind \in {"VideoEncoderToken", "AudioEncoderToken", "RelayOutputToken", "PresetToken"}
       \union DOMAIN Totals(c) \/ claim[3] = ""
Truthful == \A claim \in last.answer.claims : IsTrue(conf, last.req, claim)

\* The answer that waits for commands makes no claims.
Quiet == \A p \in Procs : proc[p].pc = "run" => proc[p].answer.claims = {}

\* The last answer tells of presets that are still there.
PresetsLast ==
  Orderly => \A claim \in last.answer.claims :
    claim[1] = "PresetToken" => \E preset \in store : preset[1] = claim[2]

Credentials == NothingWithoutCredentials /\ Shape
Refusals == RejectedIsNotApplied /\ Promised /\ Shape

\* A command that changes presets is the only one of its request; the commands
\* of other requests do not change them.
PresetChanges == {"set_preset", "remove_preset"}
Changes(r) == r.service = "ptz_service" /\ r.method \in {"SetPreset", "RemovePreset"}
Follows(x) ==
  LET todo == x.todo IN x.pc = "run" =>
    \/ /\ ~Changes(x.req)
       /\ todo \in Seq({todo[i] : i \in DOMAIN todo})
       /\ \A i \in DOMAIN todo : todo[i].name \notin PresetChanges
    \/ /\ Changes(x.req)
       /\ todo = <<Head(todo)>> /\ x.ran = <<>>
       /\ Head(todo).name = IF Adds(x.req) THEN "set_preset" ELSE "remove_preset"
Single == \A p \in Procs : Follows(proc[p])

\* The command of SetPreset names the preset and says which one it is by the
\* number in the token.
Named ==
  \A p \in Procs :
    /\ proc[p].pc = "relist" => Adds(proc[p].req)
    /\ Adds(proc[p].req) =>
         /\ proc[p].pc \in {"run", "relist"}
         /\ SetName(p) \in Names
         /\ Given(SetCommand(p), "PresetToken") =
              IF Has(proc[p].req, "PresetToken") THEN Arg(proc[p].req, "PresetToken")[2] ELSE "-1"

\* The clients of a serial device wait for one another.
OneAtATime ==
  device \in Serial =>
    \A p, q \in Procs : (proc[p].req.service = "ptz_service" /\ proc[q].req.service = "ptz_service") => p = q

\* The presets called like that of SetPreset: before the command, none but the
\* one it is about; after it, that one, or none when there was no room.
Meant(p) == {preset \in store : PresetToken(preset) = Arg(proc[p].req, "PresetToken")}
Checked ==
  Orderly => \A p \in Procs : (Adds(proc[p].req) /\ proc[p].pc = "run") =>
    IF Has(proc[p].req, "PresetToken") THEN Meant(p) # {} /\ Called(p) \subseteq Meant(p)
    ELSE Called(p) = {} /\ proc[p].total = Cardinality(store)
Stored ==
  Orderly => \A p \in Procs : proc[p].pc = "relist" =>
    IF Has(proc[p].req, "PresetToken") THEN Meant(p) # {} /\ Called(p) = Meant(p)
    ELSE \/ Called(p) = {} /\ proc[p].total = Cardinality(store)
         \/ \E preset \in store : Called(p) = {preset} /\ Cardinality(store) = proc[p].total + 1

IInv ==
  /\ TypeOK /\ IsFiniteSet(store) /\ Shape
  /\ Single /\ Named /\ OneAtATime
  /\ PresetNamesUnique /\ Checked /\ Stored
================================================================================
