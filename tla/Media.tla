--------------------------------- MODULE Media ---------------------------------
(***************************************************************************)
(* The Media service (version 1): what each method answers to a request r  *)
(* on a device configured as c. The methods read the configuration and     *)
(* change nothing. The configuration is assumed to have one or two         *)
(* profiles, which is what the documentation allows.                       *)
(***************************************************************************)
EXTENDS Service

NoAudio == Fault("AudioNotSupported")
NoDecoder == Fault("AudioDecodingNotSupported")
NoOutput == Fault("AudioOutputNotSupported")

-----------------------------------------------------------------------------
(* Profiles. *)

\* Mutant: the audio encoding is that of the first profile.
Mutant_ProfileClaims(c, i) ==
  LET n == c.profiles[i].name IN
  {Listed(Name(c, i)), Listed(VideoSourceConfig), Listed(VideoSource), VideoClaim(c, i, n, 1)}
    \union (IF i \in Audible(c) THEN {Listed(AudioSourceConfig), AudioClaim(c, 1, n, 1)} ELSE {})

\* The configurations that are written for profile i.
ProfileClaims(c, i) ==
  LET n == c.profiles[i].name IN
  {Listed(Name(c, i)), Listed(VideoSourceConfig), Listed(VideoSource), VideoClaim(c, i, n, 1)}
    \union (IF i \in Audible(c) THEN {Listed(AudioSourceConfig), AudioClaim(c, i, n, 1)} ELSE {})
    \union (IF c.ptz = 1 THEN {Listed(Fixed("PTZCfgToken")), Listed(Fixed("PTZNodeToken"))} ELSE {})

media_get_profiles(c, r) == Ok(UNION {ProfileClaims(c, i) : i \in P(c)})

media_get_profile(c, r) ==
  LET asked == Asked(c, r, "Profile", "ProfileToken")
  IN IF asked = {} THEN Fault("NoProfile") ELSE Ok(UNION {ProfileClaims(c, i) : i \in asked})

media_create_profile(c, r) ==
  IF c.fault_if_unknown = 1 THEN ActionFailed ELSE Fault("MaxNVTProfiles")

-----------------------------------------------------------------------------
(* Video. *)

media_get_service_capabilities(c, r) == Ok({})
media_get_video_sources(c, r) == Ok({Listed(VideoSource)})
media_get_video_source_configurations(c, r) == Ok({Listed(VideoSourceConfig), Listed(VideoSource)})

media_get_video_source_configuration(c, r) ==
  IF Has(r, "ConfigurationToken") /\ Arg(r, "ConfigurationToken") = VideoSourceConfig
  THEN Ok({Listed(VideoSourceConfig), Listed(VideoSource)}) ELSE Fault("NoConfig")

\* The profile that is asked for is ignored.
media_get_compatible_video_source_configurations(c, r) ==
  Ok({Listed(VideoSourceConfig), Listed(VideoSource)})

media_get_video_source_configuration_options(c, r) ==
  NamesEither(c, ProfileFirst(c, r), VideoSourceConfig, Ok({}), Fault("NoConfig"))

media_get_video_encoder_configurations(c, r) ==
  Ok({VideoClaim(c, i, c.profiles[i].name, 1) : i \in P(c)})

media_get_video_encoder_configuration(c, r) ==
  LET asked == Asked(c, r, "VideoEncoderToken", "ConfigurationToken")
  IN IF asked = {} THEN Fault("NoConfig")
     ELSE Ok({VideoClaim(c, i, c.profiles[i].name, 1) : i \in asked})

media_get_compatible_video_encoder_configurations(c, r) ==
  LET asked == Asked(c, r, "Profile", "ProfileToken")
  IN IF asked = {} THEN Fault("NoProfile")
     ELSE Ok({VideoClaim(c, i, c.profiles[i].name, 1) : i \in asked})

\* The options are those of the first profile when the token names none.
media_get_video_encoder_configuration_options(c, r) == Ok({})

media_get_guaranteed_number_of_video_encoder_instances(c, r) ==
  CASE ~Has(r, "ConfigurationToken") -> Undefined
    [] Has(r, "ConfigurationToken") ->
         IF Arg(r, "ConfigurationToken") = VideoSourceConfig THEN Ok({}) ELSE Fault("NoConfig")

\* The URL is a configured one or there is none.
media_get_snapshot_uri(c, r) ==
  LET asked == Asked(c, r, "Profile", "ProfileToken")
  IN CASE asked = {} -> Fault("NoProfile")
       [] \E i \in asked : ~c.profiles[i].snapurl -> Fault("IncompleteConfiguration")
       [] OTHER -> Ok({})

media_get_stream_uri(c, r) ==
  LET asked == Asked(c, r, "Profile", "ProfileToken")
  IN CASE asked = {} -> Fault("NoProfile")
       [] \E i \in asked : ~c.profiles[i].url -> Fault("IncompleteConfiguration")
       [] OTHER -> Ok({})

-----------------------------------------------------------------------------
(* Audio. Several handlers read profiles[1] without asking whether there is one. *)

SilentIsWild(c) == Audible(c) = {} /\ Alone(c)

media_get_audio_sources(c, r) ==
  CASE SilentIsWild(c) -> Undefined
    [] Audible(c) # {} -> Ok({Listed(Fixed("AudioSourceToken"))})
    [] OTHER -> NoAudio

media_get_audio_source_configurations(c, r) ==
  IF Audible(c) = {} THEN NoAudio ELSE Ok({Listed(AudioSourceConfig)})

media_get_audio_source_configuration(c, r) ==
  IF Has(r, "ConfigurationToken") /\ Arg(r, "ConfigurationToken") = AudioSourceConfig
  THEN media_get_audio_source_configurations(c, r) ELSE Fault("NoConfig")

media_get_audio_source_configuration_options(c, r) ==
  CASE SilentIsWild(c) -> Undefined
    [] Audible(c) = {} /\ ~Alone(c) -> NoAudio
    [] Audible(c) # {} ->
         IF \/ ~Has(r, "ProfileToken") /\ ~Has(r, "ConfigurationToken")
            \/ ProfileFirst(c, r) \in {Name(c, i) : i \in P(c)} \union {AudioSourceConfig}
         THEN Ok({}) ELSE Fault("NoConfig")

media_get_audio_encoder_configuration(c, r) ==
  LET asked == Asked(c, r, "AudioEncoderToken", "ConfigurationToken")
  IN CASE asked = {} -> Fault("NoConfig")
       [] asked # {} /\ asked \subseteq Audible(c) ->
            Ok({AudioClaim(c, i, c.profiles[i].name, 1) : i \in asked})
       [] OTHER -> NoAudio

media_get_audio_encoder_configurations(c, r) ==
  CASE SilentIsWild(c) -> Undefined
    [] Audible(c) = {} /\ ~Alone(c) -> NoAudio
    [] OTHER -> Ok({AudioClaim(c, i, c.profiles[i].name, 1) : i \in Audible(c)})

\* The profile an options request is about: the second one only when it is
\* named, whatever else is asked.
OptionsIndex(c, r, kind) ==
  LET named == IF Has(r, "ConfigurationToken") THEN Asked(c, r, kind, "ConfigurationToken")
               ELSE Asked(c, r, "Profile", "ProfileToken")
  IN IF 2 \in named THEN 2 ELSE 1

\* The bitrates of G726 are not known, and it is refused.
media_get_audio_encoder_configuration_options(c, r) ==
  LET asks == Has(r, "ConfigurationToken") \/ Has(r, "ProfileToken")
      i == IF asks \/ 1 \in Audible(c) THEN OptionsIndex(c, r, "AudioEncoderToken") ELSE 2
  IN IF (~asks /\ Audible(c) = {}) \/ c.profiles[i].audio \in {"NONE", "G726"}
     THEN NoAudio ELSE Ok({AudioClaim(c, i, c.profiles[i].name, 1)})

media_get_audio_decoder_configuration(c, r) ==
  LET asked == Asked(c, r, "AudioDecoderToken", "ConfigurationToken")
  IN CASE asked = {} -> Fault("NoConfig")
       [] asked # {} /\ asked \subseteq Decoding(c) ->
            Ok({DecoderClaim(c.profiles[i].name) : i \in asked})
       [] OTHER -> NoDecoder

media_get_audio_decoder_configurations(c, r) ==
  IF Decoding(c) = {} THEN NoDecoder
  ELSE Ok({DecoderClaim(c.profiles[i].name) : i \in Decoding(c)})

media_get_audio_decoder_configuration_options(c, r) ==
  IF c.profiles[OptionsIndex(c, r, "AudioDecoderToken")].decoder \in {"NONE", "G726"}
  THEN NoDecoder ELSE Ok({})

media_get_audio_outputs(c, r) ==
  IF Decoding(c) = {} THEN NoOutput ELSE Ok({Listed(Fixed("AudioOutputToken"))})

media_get_audio_output_configuration(c, r) ==
  IF Decoding(c) = {} THEN NoOutput ELSE Ok({Listed(AudioOutputConfig)})

media_get_audio_output_configurations(c, r) ==
  IF Decoding(c) = {} THEN NoOutput ELSE Ok({Listed(AudioOutputConfig)})

media_get_audio_output_configuration_options(c, r) ==
  IF Decoding(c) = {} THEN NoOutput ELSE Ok({})

\* A profile that does not exist is answered as one without audio.
media_get_compatible_audio_source_configurations(c, r) ==
  CASE ~Has(r, "ProfileToken") -> Fault("NoProfile")
    [] OTHER -> IF Asked(c, r, "Profile", "ProfileToken") \intersect Audible(c) = {}
                THEN NoAudio ELSE Ok({Listed(AudioSourceConfig)})

media_get_compatible_audio_encoder_configurations(c, r) ==
  LET asked == Asked(c, r, "Profile", "ProfileToken")
  IN CASE asked = {} -> Fault("NoProfile")
       [] asked # {} /\ asked \subseteq Audible(c) ->
            Ok({AudioClaim(c, i, c.profiles[i].name, 1) : i \in asked})
       [] OTHER -> NoAudio

media_get_compatible_audio_decoder_configurations(c, r) ==
  LET asked == Asked(c, r, "Profile", "ProfileToken")
  IN CASE asked = {} -> Fault("NoProfile")
       [] asked # {} /\ asked \subseteq Decoding(c) ->
            Ok({DecoderClaim(c.profiles[i].name) : i \in asked})
       [] OTHER -> NoDecoder

\* The profile that is asked for is ignored.
media_get_compatible_audio_output_configurations(c, r) ==
  IF Decoding(c) = {} THEN NoOutput ELSE Ok({Listed(AudioOutputConfig)})

-----------------------------------------------------------------------------
(* Setters: nothing can be changed. *)

media_set_video_source_configuration(c, r) == SetFixed(r, VideoSourceConfig)
media_set_audio_source_configuration(c, r) == SetFixed(r, AudioSourceConfig)
media_set_video_encoder_configuration(c, r) == Fault("ConfigModify")
media_set_audio_encoder_configuration(c, r) == Fault("ConfigModify")
media_set_audio_output_configuration(c, r) == SetFixed(r, AudioOutputConfig)
===============================================================================
