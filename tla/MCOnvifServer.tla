----------------------------- MODULE MCOnvifServer -----------------------------
(* Devices and their clients, for TLC. *)
EXTENDS OnvifServer

\* Lines of a text file: several options with the same value, and one option.
Line1(param, value) == [param |-> param, value |-> value]
LinesOf(params) ==
  FoldSet(LAMBDA param, lines : Append(lines, Line1(param, "a command")), <<>>, params)
PtzLines == LinesOf(PtzCommands)
HookLines == LinesOf(Hooks)
User == <<Line1("user", "admin"), Line1("password", "right")>>
ProfileLines(name, video, audio, decoder) ==
  <<Line1("name", name), Line1("width", "640"), Line1("url", "rtsp"), Line1("snapurl", "http"),
    Line1("type", video), Line1("audio_encoder", audio), Line1("audio_decoder", decoder)>>
RelayLines == <<Line1("idle_state", "open"), Line1("close", "a"), Line1("open", "b")>>
TopicLines == <<Line1("topic", "t"), Line1("input_file", "f")>>

\* The file of the documentation with everything enabled, and one with nothing.
FullFile ==
  User \o <<Line1("media2", "1"), Line1("imaging", "1")>> \o HookLines
    \o ProfileLines("Profile_0", "H264", "AAC", "G711") \o ProfileLines("Profile_1", "H264", "AAC", "NONE")
    \o <<Line1("ptz", "1")>> \o PtzLines \o RelayLines
    \o <<Line1("idle_state", "close"), Line1("close", "c"), Line1("open", "")>> \o <<Line1("events", "1")>> \o TopicLines
PoorFile ==
  <<Line1("fault_if_unknown", "1"), Line1("fault_if_set", "1"), Line1("empty_if_unknown", "1")>>
    \o ProfileLines("Main", "JPEG", "NONE", "NONE") \o ProfileLines("Sub", "MPEG4", "NONE", "NONE")
    \o <<Line1("ptz", "0"), Line1("move_left", "ignored"), Line1("events", "0")>>
PtzFile ==
  ProfileLines("Profile_0", "H264", "AAC", "G711") \o ProfileLines("Profile_1", "H264", "AAC", "NONE")
    \o <<Line1("ptz", "1")>> \o PtzLines \o <<Line1("factory_default_command", "a")>>
\* PTZ without some of its commands.
LameFile ==
  ProfileLines("Profile_0", "H264", "G711", "AAC") \o ProfileLines("Profile_1", "H265", "NONE", "G711")
    \o <<Line1("ptz", "1")>>
    \o LinesOf({"move_left", "move_right", "move_in", "is_moving"})
\* One profile, with a sound or without.
SingleFile(audio) == <<Line1("media2", "1")>> \o ProfileLines("Profile_0", "H264", audio, "NONE")
TooManyRelays == FullFile \o RelayLines \o RelayLines \o RelayLines \o RelayLines \o RelayLines \o RelayLines
Misplaced == <<Line1("url", "rtsp")>> \o FullFile

JsonFile ==
  [user |-> <<"admin">>, password |-> <<"right">>, media2 |-> TRUE, synology |-> TRUE, imaging |-> TRUE,
   imaging_set_command |-> "a command",
   profiles |-> <<[name |-> "Profile_0", type |-> "H265", audio_encoder |-> "G726", audio_decoder |-> "AAC",
                   url |-> "rtsp"],
                  [name |-> "Profile_1", type |-> "H264", audio_encoder |-> "AAC", snapurl |-> "http"]>>,
   ptz |-> [enable |-> 1, zoom |-> "no", move_in |-> "a", get_position |-> "b"],
   relays |-> <<[idle_state |-> "open", open |-> "a"], [close |-> "b", open |-> ""]>>,
   events |-> [type |-> "object", enable |-> 3, events |-> <<"motion", "sound">>]]

\* A file that enables PTZ and events with numbers that mean nothing.
OddFile == [JsonFile EXCEPT !.ptz.enable = 2, !.events.enable = 7]

-----------------------------------------------------------------------------
(* Requests. *)

Everything == {"Security", "UsernameToken"} \union TokenElements
Req(service, method, args) ==
  [service |-> service, method |-> method, args |-> args, header |-> Everything,
   user |-> "admin", secret |-> "right", short |-> TRUE]
NoArgs == [element \in {} |-> ""]
Plain(service, methods) == {Req(service, m, NoArgs) : m \in methods}
With(service, methods, element, values) == {Req(service, m, element :> v) : m \in methods, v \in values}

MediaTokens ==
  {<<k, n>> : k \in {"Profile"} \union Suffixed, n \in {"Profile_0", "Profile_1", "Main", "Other"}}
    \union {VideoSourceConfig, AudioSourceConfig, AudioOutputConfig}
MediaConfiguration ==
  {"GetVideoSourceConfiguration", "GetVideoEncoderConfiguration", "GetAudioSourceConfiguration",
   "GetAudioEncoderConfiguration", "GetAudioDecoderConfiguration", "GetAudioOutputConfiguration",
   "GetVideoSourceConfigurationOptions", "GetVideoEncoderConfigurationOptions",
   "GetAudioSourceConfigurationOptions", "GetAudioEncoderConfigurationOptions",
   "GetAudioDecoderConfigurationOptions", "GetAudioOutputConfigurationOptions"}
MediaProfile ==
  {"GetProfile", "GetCompatibleVideoSourceConfigurations", "GetCompatibleVideoEncoderConfigurations",
   "GetCompatibleAudioSourceConfigurations", "GetCompatibleAudioEncoderConfigurations",
   "GetCompatibleAudioDecoderConfigurations", "GetCompatibleAudioOutputConfigurations",
   "GetSnapshotUri", "GetStreamUri", "GetAudioEncoderConfigurationOptions"}
MediaPlain ==
  {"GetServiceCapabilities", "GetVideoSources", "GetVideoSourceConfigurations", "GetProfiles",
   "CreateProfile", "GetVideoEncoderConfigurations", "GetAudioSources", "GetAudioSourceConfigurations",
   "GetAudioEncoderConfigurations", "GetAudioDecoderConfigurations", "GetAudioOutputs",
   "GetAudioOutputConfigurations", "SetVideoEncoderConfiguration", "SetAudioOutputConfiguration",
   "GetNothing"}
Media2Configurations ==
  {"GetVideoSourceConfigurations", "GetVideoEncoderConfigurations", "GetAudioSourceConfigurations",
   "GetAudioEncoderConfigurations", "GetAudioOutputConfigurations", "GetAudioDecoderConfigurations",
   "GetVideoSourceConfigurationOptions", "GetVideoEncoderConfigurationOptions",
   "GetAudioSourceConfigurationOptions", "GetAudioEncoderConfigurationOptions",
   "GetAudioDecoderConfigurationOptions", "GetAudioOutputConfigurationOptions"}
MediaRequests ==
  Plain("media_service", MediaPlain \union (MediaConfiguration \ {"GetVideoSourceConfiguration"}) )
    \union With("media_service", MediaConfiguration, "ConfigurationToken",
                {t \in MediaTokens : t[2] \in {"Profile_1", ""} /\ t[1] # "Profile"})
    \union With("media_service", MediaProfile, "ProfileToken",
                {t \in MediaTokens : t[1] = "Profile"})
    \union With("media_service", {"GetGuaranteedNumberOfVideoEncoderInstances"}, "ConfigurationToken",
                {VideoSourceConfig, OtherToken})
    \union With("media_service", {"SetVideoSourceConfiguration"}, "Configuration", {VideoSourceConfig, OtherToken})
Media2Requests ==
  Plain("media2_service", {"GetServiceCapabilities", "GetProfiles", "SetVideoSourceConfiguration"}
                            \union Media2Configurations)
    \union {Req("media2_service", "GetProfiles", [Type |-> "All"])}
    \union {Req("media2_service", "GetProfiles", [Type |-> "All", Token |-> <<"Profile", n>>]) :
              n \in {"Profile_0", "Profile_1", "Other"}}
    \union With("media2_service", {"GetSnapshotUri", "GetStreamUri"} \union Media2Configurations, "ProfileToken",
                {<<"Profile", "Profile_1">>, <<"Profile", "Other">>})
    \union With("media2_service", Media2Configurations, "ConfigurationToken",
                {t \in MediaTokens : t[2] \in {"Profile_0", ""} /\ t[1] # "Profile"})
    \union With("media2_service", {"GetVideoSourceModes"}, "VideoSourceToken", {VideoSource, OtherToken})

DeviceRequests ==
  Plain("device_service",
        {"GetServices", "GetServiceCapabilities", "GetDeviceInformation", "GetSystemDateAndTime",
         "SetSystemFactoryDefault", "GetScopes", "GetUsers", "GetCapabilities", "GetNetworkInterfaces",
         "GetDNS", "SystemReboot", "SetNothing"})
    \union With("device_service", {"GetServices"}, "IncludeCapability", {"true"})
    \union With("device_service", {"GetCapabilities"}, "Category",
                {"Device", "Media", "PTZ", "Events", "Imaging", "All", "Analytics"})
    \union With("device_service", {"SetSystemFactoryDefault"}, "FactoryDefault", {"Soft"})
DeviceIORequests ==
  Plain("deviceio_service",
        {"GetServiceCapabilities", "GetVideoSources", "GetAudioSources", "GetAudioOutputs", "GetRelayOutputs",
         "GetRelayOutputOptions", "SetRelayOutputSettings", "SetNothing"})
    \union With("deviceio_service", {"GetRelayOutputOptions"}, "RelayOutputToken", {<<"RelayOutputToken", "1">>})
    \union {Req("deviceio_service", "SetRelayOutputState",
                [RelayOutputToken |-> <<"RelayOutputToken", i>>, LogicalState |-> s]) :
              i \in {"0", "1", "2"}, s \in {"active", "inactive"}}
ImagingRequests ==
  Plain("imaging_service", {"GetServiceCapabilities", "Stop", "SetNothing"})
    \union With("imaging_service", {"GetImagingSettings", "GetOptions", "GetMoveOptions", "GetStatus", "Stop"},
                "VideoSourceToken", {VideoSource, OtherToken})
    \union {Req("imaging_service", "SetImagingSettings",
                [VideoSourceToken |-> VideoSource, ImagingSettings |-> "", Brightness |-> b, IrCutFilter |-> i]) :
              b \in {"0.5", "2"}, i \in {"ON", "AUTO"}}
    \union {Req("imaging_service", "Move", [VideoSourceToken |-> VideoSource, Speed |-> s]) : s \in {"-1", "2"}}

Token0 == Name([profiles |-> <<[name |-> "Profile_0"]>>], 1)
Ptz(method, args) == Req("ptz_service", method, ("ProfileToken" :> Token0) @@ args)
Directions == {"neg", "zero", "pos"}
MoveRequests ==
  {Ptz("ContinuousMove", [x |-> x, y |-> y]) : x, y \in Directions}
    \union {Ptz("ContinuousMove", [x |-> x, z |-> "pos"]) : x \in Directions}
    \union {Ptz("AbsoluteMove", [x |-> x, y |-> "in", z |-> z]) : x, z \in {"in", "out"}}
    \union {Ptz("RelativeMove", [Translation |-> "", PanTilt |-> "", x |-> x, y |-> "in", space |-> s]) :
              x \in {"in", "out"}, s \in {"generic", "fov"}}
    \union {Ptz("Stop", NoArgs), Ptz("Stop", [PanTilt |-> "false"]), Ptz("Stop", [PanTilt |-> "false", Zoom |-> "false"]),
            Ptz("GotoHomePosition", NoArgs), Ptz("SetHomePosition", NoArgs), Ptz("GetStatus", NoArgs),
            Ptz("GetPresets", NoArgs), Ptz("GotoPreset", [PresetToken |-> <<"PresetToken", "0">>])}
    \union Plain("ptz_service", {"GetServiceCapabilities", "GetConfigurations", "GetConfiguration",
                                 "GetConfigurationOptions", "GetNodes", "GetStatus", "SetNothing"})
    \union With("ptz_service", {"GetNode"}, "NodeToken", {Node, OtherToken})

\* Without credentials, or with wrong ones: methods that act, methods that
\* tell, methods for everybody.
Guarded ==
  Plain("device_service", {"GetServices", "SystemReboot", "GetScopes"})
    \union Plain("media_service", {"GetProfiles", "CreateProfile"})
    \union {Ptz("SetHomePosition", NoArgs)}
BadRequests ==
  {[r EXCEPT !.header = Everything \ {e}] : r \in Guarded, e \in Everything}
    \union {[r EXCEPT !.secret = "wrong"] : r \in Guarded}
    \union {[r EXCEPT !.user = "root"] : r \in Guarded}
    \union {[r EXCEPT !.short = FALSE] : r \in Guarded}

\* Requests without what their methods need.
IncompleteRequests ==
  {Ptz(m, NoArgs) : m \in {"GotoPreset", "RemovePreset", "RelativeMove", "AbsoluteMove"}}
    \union {Ptz(m, [Translation |-> "", PanTilt |-> "", space |-> s, z |-> "in"]) :
              m \in {"RelativeMove", "AbsoluteMove"}, s \in {"fov", "strange"}}
    \union {Ptz("RelativeMove", [Translation |-> "", PanTilt |-> "", Zoom |-> "", x |-> "in", y |-> "in", z |-> "in"])}
    \union Plain("ptz_service", {"GetNode"}) \union Plain("media2_service", {"GetVideoSourceModes"})
    \union Plain("media_service", {"GetGuaranteedNumberOfVideoEncoderInstances"})
    \union With("deviceio_service", {"SetRelayOutputState"}, "RelayOutputToken", {<<"RelayOutputToken", "0">>})

EventRequests == Plain("events_service", {"GetServiceCapabilities", "GetEventProperties", "SetNothing"})
AllRequests ==
  MediaRequests \union Media2Requests \union DeviceRequests \union DeviceIORequests \union ImagingRequests
    \union MoveRequests \union EventRequests

\* Clients that change the presets.
PresetRequests ==
  {Ptz("SetPreset", NoArgs), Ptz("GetPresets", NoArgs)}
    \union {Ptz("SetPreset", [PresetName |-> n]) : n \in {"a", "Preset_u", Unsafe}}
    \union {Ptz("SetPreset", [PresetName |-> n, PresetToken |-> <<"PresetToken", i>>]) :
              n \in {"a", "Preset_u"}, i \in {"0", "1"}}
    \union {Ptz(m, [PresetToken |-> <<"PresetToken", i>>]) :
              m \in {"SetPreset", "RemovePreset", "GotoPreset"}, i \in {"0", "1"}}
FewRequests ==
  {Ptz("SetPreset", NoArgs), Ptz("GetPresets", NoArgs), Ptz("SetPreset", [PresetName |-> "a"]),
   Ptz("SetPreset", [PresetName |-> "a", PresetToken |-> <<"PresetToken", "0">>]),
   Ptz("RemovePreset", [PresetToken |-> <<"PresetToken", "0">>])}
    \union Plain("device_service", {"SystemReboot"})
RestartRequests == Plain("device_service", {"SystemReboot", "GetScopes", "SetSystemFactoryDefault"})

-----------------------------------------------------------------------------
(* Constants. *)

MCNumbers == {"0", "1", "2"}
MCUuids == {"Preset_u", "Preset_v"}
\* A name that clients ask for and two that the server makes up, of which they
\* know one.
MCNames == {"a"} \union MCUuids
SomePresets == {{}, {<<"0", "a">>}, {<<"0", "a">>, <<"1", "Preset_u">>}}

Camera(file, asked, clients, presets) ==
  [format |-> "text", file |-> file, asked |-> asked, clients |-> clients, presets |-> presets]
Reader(file, asked) == Camera(file, asked, {CHOOSE p \in Procs : TRUE}, {{<<"0", "a">>}})

MCDevices ==
  [full |-> Reader(FullFile, AllRequests \union BadRequests \union IncompleteRequests),
   poor |-> Reader(PoorFile, AllRequests),
   lame |-> Reader(LameFile, DeviceRequests \union DeviceIORequests \union MediaRequests \union Media2Requests \union MoveRequests),
   json |-> [Reader(JsonFile, AllRequests \union BadRequests) EXCEPT !.format = "json"],
   odd |-> [Reader(OddFile, DeviceRequests \union MoveRequests \union MediaRequests \union Media2Requests)
              EXCEPT !.format = "json"],
   silent |-> Reader(SingleFile("NONE"), MediaRequests \union Media2Requests),
   single |-> Reader(SingleFile("AAC"), MediaRequests \union Media2Requests),
   relays |-> Reader(TooManyRelays, DeviceRequests),
   misplaced |-> Reader(Misplaced, DeviceRequests),
   presets |-> Camera(PtzFile, PresetRequests \union RestartRequests, Procs, SomePresets),
   shared |-> Camera(PtzFile, FewRequests, Procs, SomePresets)]

\* The file of README.md, where user is blank.
BlankFile == <<Line1("user", ""), Line1("password", "")>> \o PoorFile
BlankDevices ==
  [blank |-> Reader(BlankFile, {[r EXCEPT !.header = {}] : r \in DeviceRequests \union MediaRequests})]
================================================================================
