-------------------------------- MODULE Media2 ---------------------------------
(***************************************************************************)
(* The Media2 service: what each method answers to a request r on a device *)
(* configured as c, with one or two profiles. Several handlers write       *)
(* Profile_0 and Profile_1 whatever the profiles are called.               *)
(***************************************************************************)
EXTENDS Service

NoAudio == Fault("AudioNotSupported")
NoDecoder == Fault("AudioDecodingNotSupported")
NoOutput == Fault("AudioOutputNotSupported")

\* The names that the handlers write for the first and the second profile.
WrittenName(i) == <<"Profile_0", "Profile_1">>[i]

\* A request for configurations takes the profile from the first letters of the
\* ConfigurationToken, or else from the ProfileToken; without one it is for all.
AsksOne(r) == Has(r, "ConfigurationToken") \/ Has(r, "ProfileToken")
ConfigurationFirst(r) ==
  Cut9(IF Has(r, "ConfigurationToken") THEN Arg(r, "ConfigurationToken") ELSE Arg(r, "ProfileToken"))

-----------------------------------------------------------------------------
(* Profiles. *)

\* The services that GetServiceCapabilities names.
media2_get_service_capabilities(c, r) ==
  Ok({Listed(Fixed("VideoSource")), Listed(Fixed("VideoEncoder"))}
       \union (IF Audible(c) = {} THEN {} ELSE {Listed(Fixed("AudioSource")), Listed(Fixed("AudioEncoder"))})
       \union (IF Decoding(c) = {} THEN {} ELSE {Listed(Fixed("AudioOutput")), Listed(Fixed("AudioDecoder"))})
       \union (IF c.ptz = 1 THEN {Listed(Fixed("PTZ"))} ELSE {}))

\* The configurations of profile i, with the audio encoding of profile j.
ProfileClaims(c, i, j) ==
  LET n == WrittenName(i) IN
  {Listed(VideoSourceConfig), Listed(VideoSource), VideoClaim(c, i, n, 2)}
    \union (IF Audible(c) = {} THEN {} ELSE {Listed(AudioSourceConfig)})
    \union (IF i \in Audible(c) THEN {AudioClaim(c, j, n, 2)} ELSE {})
    \union (IF c.ptz = 1 THEN {Listed(Fixed("PTZCfgToken")), Listed(Fixed("PTZNodeToken"))} ELSE {})
    \union (IF i \in Decoding(c) THEN {Listed(AudioOutputConfig), DecoderClaim(n)} ELSE {})

\* The Type elements choose which configurations are written; the model has
\* none and All. When one profile is written its audio encoding is that of the
\* first profile.
media2_get_profiles(c, r) ==
  LET asked == IF Has(r, "Token") THEN Asked(c, r, "Profile", "Token") ELSE P(c)
      encodingOf(i) == IF Cardinality(asked) = 1 THEN 1 ELSE i
  IN IF asked = {} THEN Fault("NoProfile")
     ELSE Ok({<<"Profile", WrittenName(i), "">> : i \in asked}
              \union (IF Has(r, "Type")
                      THEN UNION {ProfileClaims(c, i, encodingOf(i)) : i \in asked} ELSE {}))

-----------------------------------------------------------------------------
(* Video. *)

media2_get_video_source_modes(c, r) ==
  CASE ~Has(r, "VideoSourceToken") -> Undefined
    [] Has(r, "VideoSourceToken") ->
         IF Arg(r, "VideoSourceToken") = VideoSource THEN Ok({}) ELSE Fault("NoVideoSource")

media2_get_video_source_configurations(c, r) ==
  NamesEither(c, ProfileFirst(c, r), VideoSourceConfig,
              Ok({Listed(VideoSourceConfig), Listed(VideoSource)}), Fault("NoConfig"))

media2_get_video_source_configuration_options(c, r) ==
  NamesEither(c, ProfileFirst(c, r), VideoSourceConfig, Ok({}), Fault("NoConfig"))

media2_get_video_encoder_configurations(c, r) ==
  LET asked == IF AsksOne(r) THEN Owners(c, "Profile", ConfigurationFirst(r)) ELSE P(c)
  IN IF asked = {} THEN Fault("NoProfile")
     ELSE Ok({VideoClaim(c, i, WrittenName(i), 2) : i \in asked})

media2_get_video_encoder_configuration_options(c, r) ==
  LET token == IF AsksOne(r) THEN ConfigurationFirst(r) ELSE Cut9(Name(c, 1))
  IN IF Owners(c, "Profile", token) = {} THEN Fault("NoProfile") ELSE Ok({})

-----------------------------------------------------------------------------
(* Audio. *)

media2_get_audio_source_configurations(c, r) ==
  NamesEither(c, ProfileFirst(c, r), AudioSourceConfig,
              IF Audible(c) = {} THEN NoAudio ELSE Ok({Listed(AudioSourceConfig)}),
              Fault("NoConfig"))

\* Without a token the request is about the first profile that has the
\* equipment, whose name is cut like a token.
ProfileFirstOf(c, r, equipped) ==
  IF AsksOne(r) THEN ProfileFirst(c, r)
  ELSE Cut9(Name(c, CHOOSE i \in equipped : \A j \in equipped : i <= j))

media2_get_audio_source_configuration_options(c, r) ==
  CASE Audible(c) = {} -> NoAudio
    [] Audible(c) # {} ->
         IF ProfileFirstOf(c, r, Audible(c)) \in {Name(c, i) : i \in P(c)} \union {AudioSourceConfig}
         THEN Ok({}) ELSE Fault("NoConfig")

\* With one silent profile the first test is for no profile at all, so that
\* the answer depends on the token.
media2_get_audio_encoder_configurations(c, r) ==
  LET asked == IF AsksOne(r) THEN Owners(c, "Profile", ConfigurationFirst(r)) ELSE P(c)
  IN IF Audible(c) = {} /\ ~Alone(c) THEN NoAudio
     ELSE CASE asked = {} -> Fault("NoProfile")
            [] asked \intersect Audible(c) # {} ->
                 Ok({AudioClaim(c, i, WrittenName(i), 2) : i \in asked \intersect Audible(c)})
            [] OTHER -> NoAudio

media2_get_audio_encoder_configuration_options(c, r) ==
  LET token == IF AsksOne(r) THEN ConfigurationFirst(r) ELSE ProfileFirstOf(c, r, Audible(c))
      asked == Owners(c, "Profile", token)
  IN CASE ~AsksOne(r) /\ Audible(c) = {} -> NoAudio
       [] OTHER -> IF asked = {} THEN Fault("NoProfile")
                   ELSE IF \E i \in asked : c.profiles[i].audio \in {"NONE", "G726"} THEN NoAudio
                   ELSE Ok({AudioClaim(c, i, WrittenName(i), 2) : i \in asked})

media2_get_audio_output_configurations(c, r) ==
  NamesEither(c, ProfileFirst(c, r), AudioOutputConfig,
              IF Decoding(c) = {} THEN NoOutput ELSE Ok({Listed(AudioOutputConfig)}),
              Fault("NoConfig"))

media2_get_audio_output_configuration_options(c, r) ==
  CASE Decoding(c) = {} -> NoOutput
    [] Decoding(c) # {} ->
         IF ProfileFirstOf(c, r, Decoding(c)) \in {Name(c, i) : i \in P(c)} \union {AudioOutputConfig}
         THEN Ok({}) ELSE Fault("NoConfig")

media2_get_audio_decoder_configurations(c, r) ==
  LET asked == IF AsksOne(r) THEN Owners(c, "Profile", ConfigurationFirst(r)) ELSE P(c)
  IN CASE asked = {} -> Fault("NoConfig")
       [] asked \intersect Decoding(c) # {} ->
            Ok({DecoderClaim(WrittenName(i)) : i \in asked \intersect Decoding(c)})
       [] OTHER -> NoDecoder

\* A token that names no profile is answered as a profile without a decoder.
media2_get_audio_decoder_configuration_options(c, r) ==
  LET token == IF AsksOne(r) THEN ConfigurationFirst(r) ELSE ProfileFirstOf(c, r, Decoding(c))
  IN CASE ~AsksOne(r) /\ Decoding(c) = {} -> NoDecoder
       [] OTHER -> IF \E i \in Owners(c, "Profile", token) : c.profiles[i].decoder \notin {"NONE", "G726"}
                   THEN Ok({}) ELSE NoDecoder

-----------------------------------------------------------------------------
(* URLs and setters. *)

media2_get_snapshot_uri(c, r) ==
  LET asked == Asked(c, r, "Profile", "ProfileToken")
  IN CASE asked = {} -> Fault("NoProfile")
       [] \E i \in asked : ~c.profiles[i].snapurl -> Fault("IncompleteConfiguration")
       [] OTHER -> Ok({})

media2_get_stream_uri(c, r) ==
  LET asked == Asked(c, r, "Profile", "ProfileToken")
  IN CASE asked = {} -> Fault("NoProfile")
       [] \E i \in asked : ~c.profiles[i].url -> Fault("IncompleteConfiguration")
       [] OTHER -> Ok({})
===============================================================================
