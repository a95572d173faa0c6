--------------------------------- MODULE Conf ----------------------------------
(***************************************************************************)
(* The configuration files. A text file is a sequence of options           *)
(* [param, value] in the order of its lines; a JSON file is a record of    *)
(* its members. Both become the configuration c that the handlers read.    *)
(*                                                                         *)
(* Left out: values that change nothing but a text of an answer (port,     *)
(* names of the device, sizes, limits of movements), the out of memory     *)
(* errors, and the address, which is a state of the host (c.address).      *)
(***************************************************************************)
EXTENDS Ptz, SequencesExt

MAX_RELAY_OUTPUTS == 8
MAX_EVENTS == 8

Flags == {"media2", "imaging", "empty_if_unknown", "fault_if_unknown", "fault_if_set", "synology"}

\* A profile before its options are read.
NewProfile(name) ==
  [name |-> name, video |-> "H264", audio |-> "AAC", decoder |-> "NONE",
   url |-> FALSE, snapurl |-> FALSE]

\* The configuration before the file is read.
Defaults ==
  [ok |-> "ok", user |-> Null, password |-> Null, media2 |-> 0, imaging |-> 0,
   empty_if_unknown |-> 0, fault_if_unknown |-> 0, fault_if_set |-> 0, synology |-> 0,
   profiles |-> <<>>, ptz |-> 0, zoom |-> "unset", commands |-> {}, relays |-> <<>>,
   events |-> "NONE", topics |-> 0, address |-> TRUE]

\* return -2
Failed(c) == [c EXCEPT !.ok = "failed"]
\* What is written before the first element of an array.
Wild(c) == [c EXCEPT !.ok = "undefined"]

\* profiles[profiles_num - 1] and relay_outputs[relay_outputs_num - 1], the
\* latter called by its digit.
SetProfile(c, field, value) ==
  IF c.profiles = <<>> THEN Wild(c) ELSE [c EXCEPT !.profiles[Len(c.profiles)][field] = value]
Digit(n) == ToString(n - 1)
Relays(c) == Cardinality(DOMAIN c.relays)

\* Relay outputs are reported as events; together they share the MAX_EVENTS.
RelayEvents(c) ==
  IF Relays(c) = 0 THEN c
  ELSE IF c.topics + Relays(c) > MAX_EVENTS THEN Failed(c)
  ELSE [c EXCEPT !.topics = @ + Relays(c), !.events = IF @ = "NONE" THEN "PULLPOINT" ELSE @]

-----------------------------------------------------------------------------
(* process_conf_file *)

\* Options of a profile that the model leaves out, and options of an event.
OtherProfileOptions == {"width", "height", "bitrate", "framerate"}
Hooks == {"factory_default_command", "imaging_set_command", "imaging_focus_command",
          "imaging_status_command"}
EventsValue == [v \in {"1", "2", "3"} |->
  CASE v = "1" -> "PULLPOINT" [] v = "2" -> "BASESUBSCRIPTION" [] v = "3" -> "BOTH"]

\* The options of a profile belong to the last name.
ProfileOption(c, o) ==
  CASE o.param = "name" -> [c EXCEPT !.profiles = Append(@, NewProfile(o.value))]
    [] o.param \in {"url", "snapurl"} -> SetProfile(c, o.param, TRUE)
    [] o.param = "type" -> IF o.value \in Encodings THEN SetProfile(c, "video", o.value) ELSE c
    [] o.param = "audio_encoder" -> IF o.value \in Codecs THEN SetProfile(c, "audio", o.value) ELSE c
    [] o.param = "audio_decoder" -> IF o.value \in Codecs THEN SetProfile(c, "decoder", o.value) ELSE c
    [] o.param \in OtherProfileOptions -> IF c.profiles = <<>> THEN Wild(c) ELSE c

\* The line "ptz" enables PTZ if its value says so, and forgets the options that
\* came before it, all but get_presets. Without it the options are ignored.
PtzOption(c, o) ==
  CASE o.param = "ptz" ->
         [c EXCEPT !.ptz = IF o.value = "1" THEN 1 ELSE @, !.zoom = "unset",
                   !.commands = @ \ (PtzCommands \ {"get_presets"})]
    [] o.param = "zoom" ->
         IF c.ptz = 0 THEN c
         ELSE [c EXCEPT !.zoom = CASE o.value \in {"1", "yes", "true"} -> "yes"
                                   [] o.value \in {"0", "no", "false"} -> "no"
                                   [] OTHER -> "unset"]
    [] o.param \in PtzCommands -> IF c.ptz = 0 THEN c ELSE [c EXCEPT !.commands = @ \union {o.param}]

\* The test is made after counting: seven relays are accepted.
RelayOption(c, o) ==
  CASE o.param = "idle_state" ->
         IF Relays(c) + 1 >= MAX_RELAY_OUTPUTS THEN Failed(c)
         ELSE [c EXCEPT !.relays =
                 (Digit(Relays(c) + 1) :> [idle |-> IF o.value = "close" THEN "close" ELSE "open",
                                           close |-> Null, open |-> Null]) @@ @]
    [] o.param \in {"close", "open"} ->
         IF Relays(c) = 0 THEN Wild(c)
         ELSE [c EXCEPT !.relays[Digit(Relays(c))][o.param] = <<o.value>>]

\* Topics count only after an events line that enables them.
EventOption(c, o) ==
  CASE o.param = "events" -> IF o.value \in DOMAIN EventsValue
                             THEN [c EXCEPT !.events = EventsValue[o.value]] ELSE c
    [] o.param = "topic" ->
         IF c.events = "NONE" THEN c
         ELSE IF c.topics + 1 > MAX_EVENTS THEN Failed(c) ELSE [c EXCEPT !.topics = @ + 1]
    [] o.param \in {"source_name", "source_type", "source_value", "input_file"} ->
         IF c.events # "NONE" /\ c.topics = 0 THEN Wild(c) ELSE c

\* One line; the first error ends the reading. A blank value is not NULL, but
\* the hooks are tested for being blank when they are used, and so are the
\* commands of relays, whose values are kept.
Line(c, o) ==
  CASE c.ok # "ok" -> c
    [] c.ok = "ok" ->
       CASE o.param \in Flags -> IF o.value = "1" THEN [c EXCEPT ![o.param] = 1] ELSE c
         [] o.param \in {"user", "password"} -> [c EXCEPT ![o.param] = <<o.value>>]
         [] o.param \in Hooks ->
              [c EXCEPT !.commands = IF o.value = "" THEN @ \ {o.param} ELSE @ \union {o.param}]
         [] o.param \in {"name", "url", "snapurl", "type", "audio_encoder", "audio_decoder"}
                          \union OtherProfileOptions -> ProfileOption(c, o)
         [] o.param \in {"ptz", "zoom"} \union PtzCommands -> PtzOption(c, o)
         [] o.param \in {"idle_state", "close", "open"} -> RelayOption(c, o)
         [] o.param \in {"events", "topic", "source_name", "source_type", "source_value", "input_file"}
              -> EventOption(c, o)
         [] OTHER -> c

process_conf_file(lines) ==
  LET c == FoldLeft(Line, Defaults, lines) IN IF c.ok = "ok" THEN RelayEvents(c) ELSE c

-----------------------------------------------------------------------------
(* process_json_conf_file *)

Member(j, name, default) == IF name \in DOMAIN j THEN j[name] ELSE default

\* A profile, with the defaults of a new one; the name may be missing.
JsonProfile(j) ==
  [name |-> Member(j, "name", "(null)"),
   video |-> IF Member(j, "type", "") \in Encodings THEN j.type ELSE "H264",
   audio |-> IF Member(j, "audio_encoder", "") \in Codecs THEN j.audio_encoder ELSE "AAC",
   decoder |-> IF Member(j, "audio_decoder", "") \in Codecs THEN j.audio_decoder ELSE "NONE",
   url |-> "url" \in DOMAIN j, snapurl |-> "snapurl" \in DOMAIN j]

\* The relays after the seventh are ignored.
JsonRelays(items) ==
  [d \in {Digit(i) : i \in {i \in DOMAIN items : i < MAX_RELAY_OUTPUTS}} |->
     LET j == items[CHOOSE i \in DOMAIN items : Digit(i) = d] IN
     [idle |-> IF Member(j, "idle_state", "close") = "close" THEN "close" ELSE "open",
      close |-> IF "close" \in DOMAIN j THEN <<j.close>> ELSE Null,
      open |-> IF "open" \in DOMAIN j THEN <<j.open>> ELSE Null]]

\* "enable" is a member of "events", an object, and any number; the events
\* themselves are looked for in a member "events" of the file, which must be an
\* array.
JsonEnable(events) ==
  CASE events.type # "object" \/ "enable" \notin DOMAIN events -> "NONE"
    [] events.type = "object" /\ "enable" \in DOMAIN events ->
         IF events.enable \in 0..3
         THEN <<"NONE", "PULLPOINT", "BASESUBSCRIPTION", "BOTH">>[events.enable + 1] ELSE "OTHER"
JsonTopics(events) ==
  CASE events.type # "array" -> 0
    [] events.type = "array" ->
         IF Len(events.items) < MAX_EVENTS THEN Len(events.items) ELSE MAX_EVENTS - 1

process_json_conf_file(j) ==
  LET flag(name) == IF Member(j, name, FALSE) THEN 1 ELSE 0
      ptz == Member(j, "ptz", [enable |-> 0])
      events == Member(j, "events", [type |-> "null"])
      hooks == {h \in Hooks : Member(j, h, "") # ""}
  IN RelayEvents(
       [Defaults EXCEPT
         !.user = Member(j, "user", Null), !.password = Member(j, "password", Null),
         !.media2 = flag("media2"), !.imaging = flag("imaging"),
         !.empty_if_unknown = flag("empty_if_unknown"),
         !.fault_if_unknown = flag("fault_if_unknown"),
         !.fault_if_set = flag("fault_if_set"), !.synology = flag("synology"),
         !.profiles = [i \in DOMAIN Member(j, "profiles", <<>>) |-> JsonProfile(j.profiles[i])],
         !.ptz = Member(ptz, "enable", 0), !.zoom = Member(ptz, "zoom", "unset"),
         !.commands = (PtzCommands \intersect DOMAIN ptz) \union hooks,
         !.relays = JsonRelays(Member(j, "relays", <<>>)),
         !.events = JsonEnable(events), !.topics = JsonTopics(events)])
================================================================================
