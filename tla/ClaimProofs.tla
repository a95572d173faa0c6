------------------------------ MODULE ClaimProofs ------------------------------
(***************************************************************************)
(* Proofs about what the answers of OnvifServer say together, for any      *)
(* devices, files, clients and requests: what is listed is true, so that   *)
(* two answers agree and every token and service that a client is told of  *)
(* is accepted.                                                            *)
(***************************************************************************)
EXTENDS AnswerProofs

(* What the methods say is true. *)

\* A true claim that is not about a preset, and an answer of such claims.
Plain(c, r, claim) == IsTrue(c, r, claim) /\ claim[1] # "PresetToken"
Says(c, r, answer) == \A claim \in answer.claims : Plain(c, r, claim)

LEMMA TotalKinds ==
  \A c : DOMAIN Totals(c) = {"AudioSources", "AudioOutputs", "RelayOutputs", "WSPullPointSupport",
                             "BaseSubscription", "MoveStatus", "StatusPosition"}
  BY DEF Totals

LEMMA PlainTotals ==
  ASSUME NEW c, NEW r, NEW kind \in DOMAIN Totals(c)
  PROVE  Plain(c, r, <<kind, "", Totals(c)[kind]>>)
<1> DEFINE claim == <<kind, "", Totals(c)[kind]>>
<1>1. claim[1] = kind /\ claim[2] = "" /\ claim[3] = Totals(c)[kind]
  OBVIOUS
<1> HIDE DEF claim
<1>2. /\ kind \notin {"Profile", "AudioDecoderToken", "VideoEncoderToken", "AudioEncoderToken", "RelayOutputToken",
                      "Service", "PresetToken"}
      /\ kind \notin FixedKinds
  BY TotalKinds DEF FixedKinds
<1>3. Plain(c, r, claim)
  BY <1>1, <1>2, Zenon DEF Plain, IsTrue
<1> QED
  BY <1>3 DEF claim

\* What they are.
LEMMA PlainNumbers ==
  ASSUME NEW c, NEW r
  PROVE  /\ Plain(c, r, <<"AudioSources", "", IF Audible(c) = {} THEN "0" ELSE "1">>)
         /\ Plain(c, r, <<"AudioOutputs", "", IF Decoding(c) = {} THEN "0" ELSE "1">>)
         /\ Plain(c, r, <<"RelayOutputs", "", ToString(Cardinality(DOMAIN c.relays))>>)
         /\ Plain(c, r, <<"WSPullPointSupport", "",
                          IF c.events \in {"PULLPOINT", "BOTH"} THEN "true" ELSE "false">>)
         /\ Plain(c, r, <<"BaseSubscription", "",
                          IF c.events \in {"BASESUBSCRIPTION", "BOTH"} THEN "true" ELSE "false">>)
         /\ Plain(c, r, <<"MoveStatus", "", IF "is_moving" \in c.commands THEN "true" ELSE "false">>)
         /\ Plain(c, r, <<"StatusPosition", "", IF "get_position" \in c.commands THEN "true" ELSE "false">>)
<1>1. /\ Totals(c)["AudioSources"] = IF Audible(c) = {} THEN "0" ELSE "1"
      /\ Totals(c)["AudioOutputs"] = IF Decoding(c) = {} THEN "0" ELSE "1"
      /\ Totals(c)["RelayOutputs"] = ToString(Cardinality(DOMAIN c.relays))
      /\ Totals(c)["WSPullPointSupport"] = IF c.events \in {"PULLPOINT", "BOTH"} THEN "true" ELSE "false"
      /\ Totals(c)["BaseSubscription"] = IF c.events \in {"BASESUBSCRIPTION", "BOTH"} THEN "true" ELSE "false"
      /\ Totals(c)["MoveStatus"] = IF "is_moving" \in c.commands THEN "true" ELSE "false"
      /\ Totals(c)["StatusPosition"] = IF "get_position" \in c.commands THEN "true" ELSE "false"
  BY DEF Totals
<1>2. \A kind \in DOMAIN Totals(c) : Plain(c, r, <<kind, "", Totals(c)[kind]>>)
  BY PlainTotals
<1> QED
  BY <1>1, <1>2, TotalKinds

\* Words that are the same on every device.
Special == {"Profile", "AudioDecoderToken", "VideoEncoderToken", "AudioEncoderToken", "RelayOutputToken",
            "Service", "PresetToken", "AudioSources", "AudioOutputs", "RelayOutputs", "WSPullPointSupport",
            "BaseSubscription", "MoveStatus", "StatusPosition"}

LEMMA PlainWords ==
  ASSUME NEW c, NEW r, NEW kind, kind \notin Special
  PROVE  Plain(c, r, <<kind, "", "">>)
<1> DEFINE claim == <<kind, "", "">>
<1>1. claim[1] = kind /\ claim[2] = "" /\ claim[3] = ""
  OBVIOUS
<1> HIDE DEF claim
<1>2. /\ kind \notin {"Profile", "AudioDecoderToken", "VideoEncoderToken", "AudioEncoderToken", "RelayOutputToken",
                      "Service", "PresetToken"}
      /\ kind \notin DOMAIN Totals(c)
  BY TotalKinds DEF Special
<1>3. Plain(c, r, claim)
  BY <1>1, <1>2, Zenon DEF Plain, IsTrue
<1> QED
  BY <1>3 DEF claim

\* Claims about a profile, a relay or a service.
LEMMA PlainProfiles ==
  ASSUME NEW c, NEW r, NEW i \in P(c), NEW kind \in {"Profile", "AudioDecoderToken"}
  PROVE  Plain(c, r, <<kind, Written(c, r, i), "">>)
  BY TotalKinds DEF Plain, IsTrue, FixedKinds

LEMMA PlainVideo ==
  ASSUME NEW c, NEW r, NEW i \in P(c)
  PROVE  Plain(c, r, <<"VideoEncoderToken", Written(c, r, i), VideoCodec(c.profiles[i].video, Version(r))>>)
  BY TotalKinds DEF Plain, IsTrue, FixedKinds

LEMMA PlainAudio ==
  ASSUME NEW c, NEW r, NEW i \in P(c), NEW codec,
         ~BorrowsEncoding(c, r) => codec = AudioCodec(c.profiles[i].audio, Version(r))
  PROVE  Plain(c, r, <<"AudioEncoderToken", Written(c, r, i), codec>>)
  BY TotalKinds DEF Plain, IsTrue, FixedKinds

LEMMA KindsApart == \A c : DOMAIN Totals(c) \intersect {"RelayOutputToken", "Service"} = {}
                          /\ FixedKinds \intersect {"RelayOutputToken", "Service"} = {}
  BY TotalKinds DEF FixedKinds

LEMMA PlainRelays ==
  ASSUME NEW c, NEW r, NEW i \in DOMAIN c.relays, NEW value \in {"", c.relays[i].idle}
  PROVE  Plain(c, r, <<"RelayOutputToken", i, value>>)
<1> DEFINE claim == <<"RelayOutputToken", i, value>>
<1>1. claim[1] = "RelayOutputToken" /\ claim[2] = i /\ claim[3] = value
  OBVIOUS
<1> HIDE DEF claim
<1>2. "RelayOutputToken" \notin DOMAIN Totals(c) \union FixedKinds
  BY KindsApart, Zenon
<1>3. Plain(c, r, claim)
  BY <1>1, <1>2 DEF Plain, IsTrue
<1> QED
  BY <1>3 DEF claim

LEMMA PlainServices ==
  ASSUME NEW c, NEW r, NEW name \in Services, name = "imaging_service" => c.imaging # 0,
         name = "media2_service" => c.media2 = 1
  PROVE  Plain(c, r, <<"Service", name, "">>)
<1> DEFINE claim == <<"Service", name, "">>
<1>1. claim[1] = "Service" /\ claim[2] = name /\ claim[3] = ""
  OBVIOUS
<1> HIDE DEF claim
<1>2. "Service" \notin DOMAIN Totals(c) \union FixedKinds
  BY KindsApart, Zenon
<1>3. Plain(c, r, claim)
  BY <1>1, <1>2 DEF Plain, IsTrue
<1> QED
  BY <1>3 DEF claim

\* The services count in the same way.
LEMMA SameCounting ==
  /\ \A S : D!Cardinality(S) = Cardinality(S) /\ M2!Cardinality(S) = Cardinality(S)
            /\ DIO!Cardinality(S) = Cardinality(S)
  /\ \A n : D!ToString(n) = ToString(n) /\ DIO!ToString(n) = ToString(n)
  BY DEF D!Cardinality, M2!Cardinality, DIO!Cardinality, Cardinality, D!ToString, DIO!ToString, ToString

\* One profile or two.
LEMMA ProfilesAre ==
  ASSUME NEW c, OneOrTwo(c)
  PROVE  /\ P(c) = {1} \/ P(c) = {1, 2}
         /\ Alone(c) <=> P(c) = {1}
         /\ \A i, j \in P(c) : c.profiles[i].name = c.profiles[j].name => i = j
<1>1. c.profiles \in Seq(Profiles) /\ Len(c.profiles) \in {1, 2}
  BY DEF OneOrTwo
<1>2. P(c) = 1..Len(c.profiles)
  BY <1>1 DEF P
<1>3. 1..1 = {1} /\ 1..2 = {1, 2}
  OBVIOUS
<1>4. {1} # {1, 2}
  OBVIOUS
<1> QED
  BY <1>1, <1>2, <1>3, <1>4 DEF Alone, OneOrTwo

LEMMA SaysMedia ==
  ASSUME NEW c, NEW r, OneOrTwo(c), r.service = "media_service"
  PROVE  Says(c, r, media_service(c, r))
<1>w. /\ \A i : Written(c, r, i) = c.profiles[i].name
      /\ Version(r) = 1
  BY DEF Written, Version
<1>p. /\ M!P(c) = P(c) /\ M!Audible(c) \subseteq P(c) /\ M!Decoding(c) \subseteq P(c)
      /\ \A kind, t : M!Owners(c, kind, t) \subseteq P(c)
      /\ \A kind, element : M!Asked(c, r, kind, element) \subseteq P(c)
  BY DEF M!P, P, M!Audible, M!Decoding, M!Owners, M!Asked
<1>k. /\ \A claims : (\A claim \in claims : Plain(c, r, claim)) => Says(c, r, M!Ok(claims))
      /\ \A code : Says(c, r, M!Fault(code))
      /\ Says(c, r, M!Undefined)
  BY DEF Says, M!Ok, M!Fault, M!Undefined
<1>f. /\ Plain(c, r, M!Listed(M!VideoSource)) /\ Plain(c, r, M!Listed(M!VideoSourceConfig))
      /\ Plain(c, r, M!Listed(M!AudioSourceConfig)) /\ Plain(c, r, M!Listed(M!AudioOutputConfig))
      /\ Plain(c, r, M!Listed(M!Fixed("PTZCfgToken"))) /\ Plain(c, r, M!Listed(M!Fixed("PTZNodeToken")))
      /\ Plain(c, r, M!Listed(M!Fixed("AudioSourceToken"))) /\ Plain(c, r, M!Listed(M!Fixed("AudioOutputToken")))
  BY PlainWords DEF M!Listed, M!VideoSource, M!VideoSourceConfig, M!AudioSourceConfig, M!AudioOutputConfig,
                    M!Fixed, Special
<1>v. \A i \in P(c) : /\ Plain(c, r, M!Listed(M!Name(c, i)))
                      /\ Plain(c, r, M!DecoderClaim(c.profiles[i].name))
  BY <1>w, PlainProfiles DEF M!Listed, M!Name, M!DecoderClaim
<1>c. \A codec : M!VideoCodec(codec, 1) = VideoCodec(codec, 1) /\ M!AudioCodec(codec, 1) = AudioCodec(codec, 1)
  BY DEF M!VideoCodec, VideoCodec, M!AudioCodec, AudioCodec
<1>e. \A i \in P(c) : /\ Plain(c, r, M!VideoClaim(c, i, c.profiles[i].name, 1))
                      /\ Plain(c, r, M!AudioClaim(c, i, c.profiles[i].name, 1))
  <2> SUFFICES ASSUME NEW i \in P(c)
               PROVE  /\ Plain(c, r, M!VideoClaim(c, i, c.profiles[i].name, 1))
                      /\ Plain(c, r, M!AudioClaim(c, i, c.profiles[i].name, 1))
    OBVIOUS
  <2>1. M!VideoClaim(c, i, c.profiles[i].name, 1)
          = <<"VideoEncoderToken", Written(c, r, i), VideoCodec(c.profiles[i].video, Version(r))>>
    BY <1>w, <1>c DEF M!VideoClaim
  <2>2. M!AudioClaim(c, i, c.profiles[i].name, 1)
          = <<"AudioEncoderToken", Written(c, r, i), AudioCodec(c.profiles[i].audio, Version(r))>>
    BY <1>w, <1>c DEF M!AudioClaim
  <2> QED
    BY <2>1, <2>2, PlainVideo, PlainAudio
<1>s. \A i \in P(c) : \A claim \in M!ProfileClaims(c, i) : Plain(c, r, claim)
  BY <1>f, <1>v, <1>e DEF M!ProfileClaims
<1>n. \A t, word, yes, no : Says(c, r, yes) /\ Says(c, r, no) => Says(c, r, M!NamesEither(c, t, word, yes, no))
  BY <1>k DEF M!NamesEither
<1>x. Says(c, r, Unknown(c))
  BY DEF Unknown, Empty, ActionNotSupported, Ok, Fault, Says
<1>1. /\ Says(c, r, M!media_get_profiles(c, r)) /\ Says(c, r, M!media_get_profile(c, r))
      /\ Says(c, r, M!media_create_profile(c, r)) /\ Says(c, r, M!media_get_service_capabilities(c, r))
      /\ Says(c, r, M!media_get_video_sources(c, r))
      /\ Says(c, r, M!media_get_video_source_configurations(c, r))
      /\ Says(c, r, M!media_get_video_source_configuration(c, r))
      /\ Says(c, r, M!media_get_compatible_video_source_configurations(c, r))
      /\ Says(c, r, M!media_get_video_source_configuration_options(c, r))
      /\ Says(c, r, M!media_get_video_encoder_configurations(c, r))
      /\ Says(c, r, M!media_get_video_encoder_configuration(c, r))
      /\ Says(c, r, M!media_get_compatible_video_encoder_configurations(c, r))
      /\ Says(c, r, M!media_get_video_encoder_configuration_options(c, r))
      /\ Says(c, r, M!media_get_guaranteed_number_of_video_encoder_instances(c, r))
      /\ Says(c, r, M!media_get_snapshot_uri(c, r)) /\ Says(c, r, M!media_get_stream_uri(c, r))
      /\ Says(c, r, M!media_set_video_source_configuration(c, r))
      /\ Says(c, r, M!media_set_video_encoder_configuration(c, r))
  BY <1>p, <1>k, <1>f, <1>e, <1>s, <1>n DEF M!media_get_profiles, M!media_get_profile, M!media_create_profile, M!media_get_service_capabilities,
     M!media_get_video_sources, M!media_get_video_source_configurations,
     M!media_get_video_source_configuration, M!media_get_compatible_video_source_configurations,
     M!media_get_video_source_configuration_options, M!media_get_video_encoder_configurations,
     M!media_get_video_encoder_configuration, M!media_get_compatible_video_encoder_configurations,
     M!media_get_video_encoder_configuration_options,
     M!media_get_guaranteed_number_of_video_encoder_instances, M!media_get_snapshot_uri,
     M!media_get_stream_uri, M!media_set_video_source_configuration,
     M!media_set_video_encoder_configuration, M!ActionFailed, M!SetFixed
<1>2. /\ Says(c, r, M!media_get_audio_sources(c, r))
      /\ Says(c, r, M!media_get_audio_source_configurations(c, r))
      /\ Says(c, r, M!media_get_audio_source_configuration(c, r))
      /\ Says(c, r, M!media_get_audio_source_configuration_options(c, r))
      /\ Says(c, r, M!media_get_audio_encoder_configuration(c, r))
      /\ Says(c, r, M!media_get_audio_encoder_configurations(c, r))
      /\ Says(c, r, M!media_get_audio_decoder_configuration(c, r))
      /\ Says(c, r, M!media_get_audio_decoder_configurations(c, r))
      /\ Says(c, r, M!media_get_audio_decoder_configuration_options(c, r))
      /\ Says(c, r, M!media_get_audio_outputs(c, r))
      /\ Says(c, r, M!media_get_audio_output_configuration(c, r))
      /\ Says(c, r, M!media_get_audio_output_configurations(c, r))
      /\ Says(c, r, M!media_get_audio_output_configuration_options(c, r))
      /\ Says(c, r, M!media_get_compatible_audio_source_configurations(c, r))
      /\ Says(c, r, M!media_get_compatible_audio_encoder_configurations(c, r))
      /\ Says(c, r, M!media_get_compatible_audio_decoder_configurations(c, r))
      /\ Says(c, r, M!media_get_compatible_audio_output_configurations(c, r))
      /\ Says(c, r, M!media_set_audio_source_configuration(c, r))
      /\ Says(c, r, M!media_set_audio_encoder_configuration(c, r))
      /\ Says(c, r, M!media_set_audio_output_configuration(c, r))
  BY <1>p, <1>k, <1>f, <1>v, <1>e DEF M!media_get_audio_sources, M!media_get_audio_source_configurations,
     M!media_get_audio_source_configuration, M!media_get_audio_source_configuration_options,
     M!media_get_audio_encoder_configuration, M!media_get_audio_encoder_configurations,
     M!media_get_audio_decoder_configuration, M!media_get_audio_decoder_configurations,
     M!media_get_audio_decoder_configuration_options, M!media_get_audio_outputs,
     M!media_get_audio_output_configuration, M!media_get_audio_output_configurations,
     M!media_get_audio_output_configuration_options, M!media_get_compatible_audio_source_configurations,
     M!media_get_compatible_audio_encoder_configurations,
     M!media_get_compatible_audio_decoder_configurations,
     M!media_get_compatible_audio_output_configurations, M!media_set_audio_source_configuration,
     M!media_set_audio_encoder_configuration, M!media_set_audio_output_configuration, M!NoAudio,
     M!NoDecoder, M!NoOutput, M!SetFixed, M!SilentIsWild
<1>3. Says(c, r, M!media_get_audio_encoder_configuration_options(c, r))
  <2> DEFINE asks == M!Has(r, "ConfigurationToken") \/ M!Has(r, "ProfileToken")
             i == IF asks \/ 1 \in M!Audible(c) THEN M!OptionsIndex(c, r, "AudioEncoderToken") ELSE 2
  <2>1. M!OptionsIndex(c, r, "AudioEncoderToken") \in P(c)
    BY <1>p, ProfilesAre DEF M!OptionsIndex
  <2>2. asks \/ M!Audible(c) # {} => i \in P(c)
    BY <1>p, <2>1, ProfilesAre
  <2>3. M!media_get_audio_encoder_configuration_options(c, r)
          = IF (~asks /\ M!Audible(c) = {}) \/ c.profiles[i].audio \in {"NONE", "G726"}
            THEN M!NoAudio ELSE M!Ok({M!AudioClaim(c, i, c.profiles[i].name, 1)})
    BY DEF M!media_get_audio_encoder_configuration_options
  <2> HIDE DEF asks, i
  <2> QED
    BY <1>k, <1>e, <2>2, <2>3 DEF M!NoAudio
<1> QED
  BY <1>1, <1>2, <1>3, <1>x DEF media_service

LEMMA SaysMedia2 ==
  ASSUME NEW c, NEW r, OneOrTwo(c), r.service = "media2_service"
  PROVE  Says(c, r, media2_service(c, r))
<1>w. /\ \A i : Written(c, r, i) = M2!WrittenName(i)
      /\ Version(r) = 2
  BY DEF Written, Version
<1>p. /\ M2!P(c) = P(c) /\ M2!Audible(c) \subseteq P(c) /\ M2!Decoding(c) \subseteq P(c)
      /\ \A kind, t : M2!Owners(c, kind, t) \subseteq P(c)
      /\ \A kind, element : M2!Asked(c, r, kind, element) \subseteq P(c)
  BY DEF M2!P, P, M2!Audible, M2!Decoding, M2!Owners, M2!Asked
<1>k. /\ \A claims : (\A claim \in claims : Plain(c, r, claim)) => Says(c, r, M2!Ok(claims))
      /\ \A code : Says(c, r, M2!Fault(code))
      /\ Says(c, r, M2!Undefined)
  BY DEF Says, M2!Ok, M2!Fault, M2!Undefined
<1>f. /\ Plain(c, r, M2!Listed(M2!VideoSource)) /\ Plain(c, r, M2!Listed(M2!VideoSourceConfig))
      /\ Plain(c, r, M2!Listed(M2!AudioSourceConfig)) /\ Plain(c, r, M2!Listed(M2!AudioOutputConfig))
      /\ \A word \in {"PTZCfgToken", "PTZNodeToken", "PTZ", "VideoSource", "VideoEncoder", "AudioSource",
                      "AudioEncoder", "AudioOutput", "AudioDecoder"} : Plain(c, r, M2!Listed(M2!Fixed(word)))
  BY PlainWords DEF M2!Listed, M2!VideoSource, M2!VideoSourceConfig, M2!AudioSourceConfig, M2!AudioOutputConfig,
                    M2!Fixed, Special
<1>v. \A i \in P(c) : /\ Plain(c, r, <<"Profile", M2!WrittenName(i), "">>)
                      /\ Plain(c, r, M2!DecoderClaim(M2!WrittenName(i)))
  BY <1>w, PlainProfiles DEF M2!DecoderClaim
<1>c. \A codec : M2!VideoCodec(codec, 2) = VideoCodec(codec, 2) /\ M2!AudioCodec(codec, 2) = AudioCodec(codec, 2)
  BY DEF M2!VideoCodec, VideoCodec, M2!AudioCodec, AudioCodec
<1>e. \A i \in P(c) :
        /\ Plain(c, r, M2!VideoClaim(c, i, M2!WrittenName(i), 2))
        /\ \A j : (~BorrowsEncoding(c, r) => c.profiles[j].audio = c.profiles[i].audio)
                    => Plain(c, r, M2!AudioClaim(c, j, M2!WrittenName(i), 2))
  <2> SUFFICES ASSUME NEW i \in P(c)
               PROVE  /\ Plain(c, r, M2!VideoClaim(c, i, M2!WrittenName(i), 2))
                      /\ \A j : (~BorrowsEncoding(c, r) => c.profiles[j].audio = c.profiles[i].audio)
                                  => Plain(c, r, M2!AudioClaim(c, j, M2!WrittenName(i), 2))
    OBVIOUS
  <2>1. M2!VideoClaim(c, i, M2!WrittenName(i), 2)
          = <<"VideoEncoderToken", Written(c, r, i), VideoCodec(c.profiles[i].video, Version(r))>>
    BY <1>w, <1>c DEF M2!VideoClaim
  <2>2. \A j : M2!AudioClaim(c, j, M2!WrittenName(i), 2)
                 = <<"AudioEncoderToken", Written(c, r, i), AudioCodec(c.profiles[j].audio, Version(r))>>
    BY <1>w, <1>c DEF M2!AudioClaim
  <2> QED
    BY <2>1, <2>2, PlainVideo, PlainAudio
<1>s. \A i, j \in P(c) : (~BorrowsEncoding(c, r) => c.profiles[j].audio = c.profiles[i].audio)
                           => \A claim \in M2!ProfileClaims(c, i, j) : Plain(c, r, claim)
  BY <1>f, <1>v, <1>e DEF M2!ProfileClaims
<1>n. \A t, word, yes, no : Says(c, r, yes) /\ Says(c, r, no) => Says(c, r, M2!NamesEither(c, t, word, yes, no))
  BY <1>k DEF M2!NamesEither
<1>x. Says(c, r, Unknown(c))
  BY DEF Unknown, Empty, ActionNotSupported, Ok, Fault, Says
<1>1. /\ Says(c, r, M2!media2_get_service_capabilities(c, r))
      /\ Says(c, r, M2!media2_get_video_source_modes(c, r))
      /\ Says(c, r, M2!media2_get_video_source_configurations(c, r))
      /\ Says(c, r, M2!media2_get_video_source_configuration_options(c, r))
      /\ Says(c, r, M2!media2_get_video_encoder_configurations(c, r))
      /\ Says(c, r, M2!media2_get_video_encoder_configuration_options(c, r))
      /\ Says(c, r, M2!media2_get_snapshot_uri(c, r)) /\ Says(c, r, M2!media2_get_stream_uri(c, r))
  BY <1>p, <1>k, <1>f, <1>e, <1>n DEF M2!media2_get_service_capabilities, M2!media2_get_video_source_modes,
     M2!media2_get_video_source_configurations, M2!media2_get_video_source_configuration_options,
     M2!media2_get_video_encoder_configurations, M2!media2_get_video_encoder_configuration_options,
     M2!media2_get_snapshot_uri, M2!media2_get_stream_uri
<1>2. /\ Says(c, r, M2!media2_get_audio_source_configurations(c, r))
      /\ Says(c, r, M2!media2_get_audio_source_configuration_options(c, r))
      /\ Says(c, r, M2!media2_get_audio_encoder_configurations(c, r))
      /\ Says(c, r, M2!media2_get_audio_encoder_configuration_options(c, r))
      /\ Says(c, r, M2!media2_get_audio_output_configurations(c, r))
      /\ Says(c, r, M2!media2_get_audio_output_configuration_options(c, r))
      /\ Says(c, r, M2!media2_get_audio_decoder_configurations(c, r))
      /\ Says(c, r, M2!media2_get_audio_decoder_configuration_options(c, r))
  BY <1>p, <1>k, <1>f, <1>v, <1>e, <1>n DEF M2!media2_get_audio_source_configurations, M2!media2_get_audio_source_configuration_options,
     M2!media2_get_audio_encoder_configurations, M2!media2_get_audio_encoder_configuration_options,
     M2!media2_get_audio_output_configurations, M2!media2_get_audio_output_configuration_options,
     M2!media2_get_audio_decoder_configurations, M2!media2_get_audio_decoder_configuration_options,
     M2!NoAudio, M2!NoDecoder, M2!NoOutput
\* The encoding of the first profile is that of the profile, or borrowed.
<1>3. CASE r.method = "GetProfiles"
  <2> DEFINE asked == IF M2!Has(r, "Token") THEN M2!Asked(c, r, "Profile", "Token") ELSE M2!P(c)
             encodingOf(i) == IF M2!Cardinality(asked) = 1 THEN 1 ELSE i
             some == {<<"Profile", M2!WrittenName(i), "">> : i \in asked}
             more == IF M2!Has(r, "Type") THEN UNION {M2!ProfileClaims(c, i, encodingOf(i)) : i \in asked} ELSE {}
  <2>1. M2!media2_get_profiles(c, r) = IF asked = {} THEN M2!Fault("NoProfile") ELSE M2!Ok(some \union more)
    BY DEF M2!media2_get_profiles
  <2>2. asked \subseteq P(c) /\ 1 \in P(c)
    BY <1>p, ProfilesAre
  <2>3. \A i \in asked : ~BorrowsEncoding(c, r) => c.profiles[encodingOf(i)].audio = c.profiles[i].audio
    <3>1. CASE Has(r, "Token")
      BY <1>3, <2>2, <3>1 DEF BorrowsEncoding
    <3>2. CASE ~Has(r, "Token")
      <4>1. asked = P(c)
        BY <1>p, <3>2 DEF M2!Has, Has
      <4>2. Cardinality({1, 2}) # 1
        <5>1. IsFiniteSet({1}) /\ Cardinality({1}) = 1
          BY FS_Singleton
        <5>2. Cardinality({1} \union {2}) = 2
          BY <5>1, FS_AddElement
        <5>3. {1} \union {2} = {1, 2}
          OBVIOUS
        <5> QED
          BY <5>2, <5>3
      <4>3. CASE P(c) = {1}
        <5>1. \A i \in asked : i = 1 /\ encodingOf(i) = i
          BY <4>1, <4>3
        <5> QED
          BY <5>1
      <4>4. CASE P(c) = {1, 2}
        <5>1. M2!Cardinality(asked) # 1
          BY <4>1, <4>2, <4>4, SameCounting
        <5> QED
          BY <5>1
      <4> QED
        BY <4>3, <4>4, ProfilesAre
    <3> QED
      BY <3>1, <3>2
  <2>4. \A i \in asked : encodingOf(i) \in P(c)
    BY <2>2
  <2> HIDE DEF asked
  <2>5. \A claim \in more : Plain(c, r, claim)
    <3>1. \A i \in asked : \A claim \in M2!ProfileClaims(c, i, encodingOf(i)) : Plain(c, r, claim)
      BY <1>s, <2>2, <2>3, <2>4
    <3> HIDE DEF encodingOf
    <3> QED
      BY <3>1
  <2>6. \A claim \in some : Plain(c, r, claim)
    BY <1>v, <2>2
  <2> HIDE DEF some, more
  <2>7. Says(c, r, M2!media2_get_profiles(c, r))
    BY <1>k, <2>1, <2>5, <2>6
  <2> QED
    BY <1>3, <2>7 DEF media2_service
<1>4. CASE r.method # "GetProfiles"
  BY <1>4, <1>1, <1>2, <1>x DEF media2_service
<1> QED
  BY <1>3, <1>4

LEMMA SaysDevice ==
  ASSUME NEW c, NEW r
  PROVE  Says(c, r, device_service(c, r).answer)
<1>k. /\ \A claims : (\A claim \in claims : Plain(c, r, claim)) => Says(c, r, D!Ok(claims))
      /\ \A code : Says(c, r, D!Fault(code))
      /\ Says(c, r, Ok({}))
  BY DEF Says, D!Ok, D!Fault, Ok
<1>t. \A claim \in D!Counts(c) \union D!EventKinds(c) : Plain(c, r, claim)
  <2>1. D!Audible(c) = Audible(c) /\ D!Decoding(c) = Decoding(c)
    BY DEF D!Audible, Audible, D!Decoding, Decoding, D!P, P
  <2>2. /\ Plain(c, r, <<"AudioSources", "", IF Audible(c) = {} THEN "0" ELSE "1">>)
        /\ Plain(c, r, <<"AudioOutputs", "", IF Decoding(c) = {} THEN "0" ELSE "1">>)
        /\ Plain(c, r, <<"RelayOutputs", "", D!ToString(D!Cardinality(DOMAIN c.relays))>>)
    BY PlainNumbers, SameCounting
  <2>3. \A claim \in D!Counts(c) : Plain(c, r, claim)
    BY <2>1, <2>2 DEF D!Counts
  <2>4. \A claim \in D!EventKinds(c) : Plain(c, r, claim)
    BY PlainNumbers DEF D!EventKinds
  <2> QED
    BY <2>3, <2>4
<1>s. \A name \in Services : /\ name = "imaging_service" => c.imaging # 0
                             /\ name = "media2_service" => c.media2 = 1
                             => Plain(c, r, D!Service(name))
  BY PlainServices DEF D!Service, D!Listed
<1>a. \A name \in D!Always \union D!WithImaging(c) \union {"ptz_service"} : Plain(c, r, D!Service(name))
  BY <1>s DEF D!Always, D!WithImaging, Services
<1>m. c.media2 = 1 => Plain(c, r, D!Service("media2_service"))
  BY <1>s DEF Services
<1>1. /\ Says(c, r, D!device_get_service_capabilities(c, r))
      /\ Says(c, r, D!device_get_device_information(c, r))
      /\ Says(c, r, D!device_get_system_date_and_time(c, r)) /\ Says(c, r, D!device_get_scopes(c, r))
      /\ Says(c, r, D!device_get_users(c, r)) /\ Says(c, r, D!device_get_wsdl_url(c, r))
      /\ Says(c, r, D!device_get_network_default_gateway(c, r))
      /\ Says(c, r, D!device_get_network_protocols(c, r)) /\ Says(c, r, D!device_get_hostname(c, r))
      /\ Says(c, r, D!device_get_dns(c, r)) /\ Says(c, r, D!device_get_ntp(c, r))
      /\ Says(c, r, D!device_get_discovery_mode(c, r))
      /\ Says(c, r, D!device_get_endpoint_reference(c, r))
      /\ Says(c, r, D!device_get_network_interfaces(c, r))
  BY <1>k DEF D!device_get_service_capabilities, D!device_get_device_information, D!device_get_system_date_and_time,
     D!device_get_scopes, D!device_get_users, D!device_get_wsdl_url, D!device_get_network_default_gateway,
     D!device_get_network_protocols, D!device_get_hostname, D!device_get_dns, D!device_get_ntp,
     D!device_get_discovery_mode, D!device_get_endpoint_reference, D!device_get_network_interfaces,
     D!Empty, D!ActionFailed
<1>2. Says(c, r, D!device_get_services(c, r))
  <2>1. Says(c, r, D!NoAnswer)
    BY DEF D!NoAnswer, Says
  <2> QED
    BY <1>k, <1>t, <1>a, <1>m, <2>1 DEF D!device_get_services
<1>3. Says(c, r, D!device_get_capabilities(c, r))
  BY <1>k, <1>t, <1>a DEF D!device_get_capabilities, D!NoSuchService, D!Always, D!WithImaging
<1>4. Says(c, r, D!device_set_system_factory_default(c, r).answer)
  BY <1>k DEF D!device_set_system_factory_default, D!Only, D!Plan, D!ActionNotSupported
<1>x. Says(c, r, Unknown(c))
  BY DEF Unknown, Empty, ActionNotSupported, Ok, Fault, Says
<1> QED
  BY <1>k, <1>1, <1>2, <1>3, <1>4, <1>x, OnlyAnswers DEF device_service

\* Claims that are plain, or none.
LEMMA SaysNothing ==
  ASSUME NEW c, NEW r
  PROVE  /\ Says(c, r, Ok({})) /\ Says(c, r, Empty) /\ Says(c, r, Unknown(c))
         /\ Says(c, r, NoAnswer) /\ Says(c, r, Undefined)
         /\ \A code : Says(c, r, Fault(code))
  BY DEF Says, Ok, Empty, Unknown, ActionNotSupported, NoAnswer, Undefined, Fault

LEMMA SaysImaging ==
  ASSUME NEW c, NEW r
  PROVE  Says(c, r, imaging_service(c, r).answer)
<1>k. /\ \A claims : (\A claim \in claims : Plain(c, r, claim)) => Says(c, r, I!Ok(claims))
      /\ \A code : Says(c, r, I!Fault(code))
  BY DEF Says, I!Ok, I!Fault
<1>f. \A word \in {"AutoFocusMode", "AutoFocusModes", "Continuous", "FocusStatus20"} :
        Plain(c, r, I!Listed(I!Fixed(word)))
  BY PlainWords DEF I!Listed, I!Fixed, Special
<1>a. \A answer : Says(c, r, answer) => Says(c, r, I!ForSource(c, r, answer))
  BY <1>k DEF I!ForSource, I!NoSource
<1>e. /\ Says(c, r, I!Empty) /\ Says(c, r, I!ActionNotSupported) /\ Says(c, r, I!NoSource)
      /\ Says(c, r, ActionNotSupported)
  BY <1>k, SaysNothing DEF I!Empty, I!ActionNotSupported, I!NoSource, ActionNotSupported
<1>p. /\ \A answer : I!Only(answer).answer = answer
      /\ \A run, answer : I!Plan(run, answer).answer = answer
  BY DEF I!Only, I!Plan
<1>1. /\ Says(c, r, I!imaging_get_service_capabilities(c, r)) /\ Says(c, r, I!imaging_get_imaging_settings(c, r))
      /\ Says(c, r, I!imaging_get_options(c, r)) /\ Says(c, r, I!imaging_get_move_options(c, r))
      /\ Says(c, r, I!imaging_get_status(c, r))
  BY <1>k, <1>f, <1>a DEF I!imaging_get_service_capabilities, I!imaging_get_imaging_settings,
     I!imaging_get_options, I!imaging_get_move_options, I!imaging_get_status
<1>2. /\ Says(c, r, I!imaging_set_imaging_settings(c, r).answer)
      /\ Says(c, r, I!imaging_move(c, r).answer) /\ Says(c, r, I!imaging_stop(c, r).answer)
  BY <1>k, <1>e, <1>p DEF I!imaging_set_imaging_settings, I!imaging_move, I!imaging_stop
<1> QED
  BY <1>1, <1>2, <1>e, SaysNothing, OnlyAnswers DEF imaging_service

LEMMA SaysDeviceIO ==
  ASSUME NEW c, NEW r
  PROVE  Says(c, r, deviceio_service(c, r).answer)
<1>k. /\ \A claims : (\A claim \in claims : Plain(c, r, claim)) => Says(c, r, DIO!Ok(claims))
      /\ \A code : Says(c, r, DIO!Fault(code))
      /\ Says(c, r, DIO!Undefined)
  BY DEF Says, DIO!Ok, DIO!Fault, DIO!Undefined
<1>f. /\ Plain(c, r, DIO!Listed(DIO!VideoSource))
      /\ Plain(c, r, DIO!Listed(DIO!Fixed("AudioOutputToken")))
      /\ Plain(c, r, DIO!Listed(DIO!Fixed("AudioSourceToken")))
  BY PlainWords DEF DIO!Listed, DIO!VideoSource, DIO!Fixed, Special
<1>r. \A i \in DOMAIN c.relays : /\ Plain(c, r, <<"RelayOutputToken", i, c.relays[i].idle>>)
                                 /\ Plain(c, r, DIO!Listed(DIO!RelayToken(i)))
  BY PlainRelays DEF DIO!Listed, DIO!RelayToken
<1>p. /\ \A answer : DIO!Only(answer).answer = answer
      /\ \A run, answer : DIO!Plan(run, answer).answer = answer
  BY DEF DIO!Only, DIO!Plan
<1>1. Says(c, r, DIO!deviceio_get_service_capabilities(c, r))
  <2>1. DIO!Audible(c) = Audible(c) /\ DIO!Decoding(c) = Decoding(c)
    BY DEF DIO!Audible, Audible, DIO!Decoding, Decoding, DIO!P, P
  <2>2. /\ Plain(c, r, <<"AudioSources", "", IF Audible(c) = {} THEN "0" ELSE "1">>)
        /\ Plain(c, r, <<"AudioOutputs", "", IF Decoding(c) = {} THEN "0" ELSE "1">>)
        /\ Plain(c, r, <<"RelayOutputs", "", DIO!ToString(DIO!Cardinality(DOMAIN c.relays))>>)
    BY PlainNumbers, SameCounting
  <2> QED
    BY <1>k, <2>1, <2>2 DEF DIO!deviceio_get_service_capabilities
<1>2. /\ Says(c, r, DIO!deviceio_get_video_sources(c, r)) /\ Says(c, r, DIO!deviceio_get_audio_outputs(c, r))
      /\ Says(c, r, DIO!deviceio_get_audio_sources(c, r))
      /\ Says(c, r, DIO!deviceio_set_relay_output_settings(c, r))
  BY <1>k, <1>f DEF DIO!deviceio_get_video_sources, DIO!deviceio_get_audio_outputs, DIO!deviceio_get_audio_sources,
     DIO!deviceio_set_relay_output_settings
<1>3. /\ Says(c, r, DIO!deviceio_get_relay_outputs(c, r)) /\ Says(c, r, DIO!deviceio_get_relay_output_options(c, r))
  BY <1>k, <1>r DEF DIO!deviceio_get_relay_outputs, DIO!deviceio_get_relay_output_options, DIO!Relay
<1>4. Says(c, r, DIO!deviceio_set_relay_output_state(c, r).answer)
  BY <1>k, <1>p, PlanOfRelay DEF DIO!NoRelay
<1> QED
  BY <1>1, <1>2, <1>3, <1>4, SaysNothing, OnlyAnswers DEF deviceio_service

LEMMA SaysEvents ==
  ASSUME NEW c, NEW r
  PROVE  Says(c, r, events_service(c, r).answer)
<1>1. \A claim \in D!EventKinds(c) : Plain(c, r, claim)
  BY PlainNumbers DEF D!EventKinds
<1>2. Says(c, r, Ok(D!EventKinds(c)))
  BY <1>1 DEF Says, Ok
<1> QED
  BY <1>2, SaysNothing, OnlyAnswers DEF events_service

\* GetPresets alone tells of presets.
LEMMA SaysPtz ==
  ASSUME NEW c, NEW r, NEW w, r.method # "GetPresets"
  PROVE  Says(c, r, ptz_service(c, r, w).answer)
<1> DEFINE list == init_presets(c, w.list)
<1>k. \A claims : (\A claim \in claims : Plain(c, r, claim)) => Says(c, r, Ok(claims))
  BY DEF Says, Ok
<1>f. \A word \in {"PTZCfgToken", "PTZNodeToken", "ZoomSpace"} : Plain(c, r, Listed(Fixed(word)))
  BY PlainWords DEF Listed, Fixed, Special
<1>e. /\ Says(c, r, ActionFailed) /\ Says(c, r, NoProfile) /\ Says(c, r, NoPTZProfile) /\ Says(c, r, NoToken)
      /\ Says(c, r, PresetExist)
  BY SaysNothing DEF ActionFailed, NoProfile, NoPTZProfile, NoToken, PresetExist
<1>p. /\ \A run, answer : Plan(run, answer).answer = answer
      /\ \A answer : Only(answer).answer = answer
  BY DEF Plan, Only
<1>q. /\ \A answer : Says(c, r, answer) => Says(c, r, Only(answer).answer)
      /\ \A run, answer : Says(c, r, answer) => Says(c, r, Plan(run, answer).answer)
  BY <1>p, Zenon
<1>t. \A plan : Says(c, r, plan.answer)
                 => Says(c, r, ForProfile(c, r, plan).answer) /\ Says(c, r, ForPreset(c, r, plan).answer)
  BY <1>e, <1>p, SaysNothing DEF ForProfile, ForPreset
<1>o. \A name, with : Says(c, r, RunOne(c, name, with).answer)
  BY <1>e, <1>p, SaysNothing DEF RunOne
<1>1. /\ Says(c, r, ptz_get_configurations(c, r)) /\ Says(c, r, ptz_get_configuration(c, r))
      /\ Says(c, r, ptz_get_configuration_options(c, r)) /\ Says(c, r, ptz_get_nodes(c, r))
      /\ Says(c, r, ptz_get_node(c, r))
  <2>1. Plain(c, r, Listed(Node)) /\ \A claim \in Spaces(c) : Plain(c, r, claim)
    BY <1>f DEF Node, Spaces
  <2> QED
    BY <1>k, <1>f, <2>1, SaysNothing DEF ptz_get_configurations, ptz_get_configuration, ptz_get_configuration_options,
       ptz_get_nodes, ptz_get_node
<1>2. Says(c, r, ptz_get_service_capabilities(c, r))
  BY <1>k, PlainNumbers DEF ptz_get_service_capabilities
<1>3. /\ Says(c, r, ptz_goto_preset(c, r, list).answer) /\ Says(c, r, ptz_remove_preset(c, r).answer)
      /\ Says(c, r, ptz_set_preset(c, r, list, w.uuid).answer)
  <2>1. Says(c, r, Only(NoToken).answer) /\ Says(c, r, Only(PresetExist).answer)
        /\ Says(c, r, Only(Fault("InvalidPresetName")).answer)
    BY <1>e, <1>q, SaysNothing
  <2>2. Says(c, r, ptz_goto_preset(c, r, list).answer)
    BY <1>t, <1>o, <2>1 DEF ptz_goto_preset
  <2>3. Says(c, r, ptz_remove_preset(c, r).answer)
    BY <1>t, <1>o DEF ptz_remove_preset
  <2>4. Says(c, r, ptz_set_preset(c, r, list, w.uuid).answer)
    BY <1>t, <1>o, <2>1 DEF ptz_set_preset
  <2> QED
    BY <2>2, <2>3, <2>4
<1>4. /\ Says(c, r, ptz_goto_home_position(c, r).answer) /\ Says(c, r, ptz_set_home_position(c, r).answer)
  BY <1>t, <1>o DEF ptz_goto_home_position, ptz_set_home_position
<1>5. Says(c, r, ptz_continuous_move(c, r).answer)
  <2>1. \A run : Says(c, r, Plan(run, Ok({})).answer) /\ Says(c, r, Plan(run, ActionFailed).answer)
    BY <1>e, <1>p, SaysNothing
  <2>2. \A run, test : Says(c, r, Plan(run, IF test THEN Ok({}) ELSE ActionFailed).answer)
    BY <2>1
  <2> QED
    BY <1>t, <2>2 DEF ptz_continuous_move
<1>6. Says(c, r, ptz_relative_move(c, r).answer)
  <2>0. \A run : Says(c, r, Only(Fault("InvalidTranslation")).answer) /\ Says(c, r, Plan(run, Ok({})).answer)
    BY <1>q, SaysNothing
  <2>1. \A axes : Says(c, r, Translation(r, axes).answer)
    BY <2>0 DEF Translation
  <2>2. Says(c, r, Only(ActionFailed).answer) /\ Says(c, r, Only(Undefined).answer)
    BY <1>e, <1>p, SaysNothing
  <2> QED
    BY <1>t, <2>1, <2>2 DEF ptz_relative_move
<1>7. Says(c, r, ptz_absolute_move(c, r).answer)
  <2>1. /\ Says(c, r, Only(ActionFailed).answer) /\ Says(c, r, Only(Undefined).answer)
        /\ Says(c, r, Only(Fault("InvalidPosition")).answer) /\ \A run : Says(c, r, Plan(run, Ok({})).answer)
    BY <1>e, <1>p, SaysNothing
  <2> QED
    BY <1>t, <2>1 DEF ptz_absolute_move
<1>8. Says(c, r, ptz_stop(c, r).answer)
  <2>1. Says(c, r, Only(ActionFailed).answer) /\ Says(c, r, Only(Ok({})).answer)
    BY <1>e, <1>p, SaysNothing
  <2> QED
    BY <1>t, <1>o, <2>1 DEF ptz_stop
<1>9. Says(c, r, ptz_get_status(c, r, w.position, w.moving).answer)
  <2>1. Says(c, r, Only(Ok({})).answer) /\ Says(c, r, Only(Fault("NoStatus")).answer)
    BY <1>p, SaysNothing
  <2> QED
    BY <1>t, <2>1 DEF ptz_get_status
<1> QED
  BY <1>p, <1>1, <1>2, <1>3, <1>4, <1>5, <1>6, <1>7, <1>8, <1>9, SaysNothing DEF ptz_service, list

\* So what any request is answered is true of the configuration.
LEMMA SaysRequest ==
  ASSUME NEW c, NEW r, NEW w, OneOrTwo(c), ~(r.service = "ptz_service" /\ r.method = "GetPresets")
  PROVE  Says(c, r, Dispatch(c, r, w).answer)
<1>1. Says(c, r, Service(c, r, w).answer)
  BY SaysDevice, SaysMedia, SaysMedia2, SaysPtz, SaysEvents, SaysDeviceIO, SaysImaging, SaysNothing, OnlyAnswers
     DEF Service
<1>2. \/ Dispatch(c, r, w) = Service(c, r, w)
      \/ Dispatch(c, r, w) \in {Only(NoAnswer), Only(Undefined), Only(Fault("MaxNVTProfiles")),
                                Only(AuthenticationError)}
  BY DEF Dispatch
<1> QED
  BY <1>1, <1>2, SaysNothing, OnlyAnswers DEF AuthenticationError

\* An answer that waits for commands makes no claims.
LEMMA QuietPlans ==
  ASSUME NEW c, NEW r, NEW w
  PROVE  Dispatch(c, r, w).run = <<>> \/ Dispatch(c, r, w).answer.claims = {}
<1> DEFINE calm(plan) == plan.run = <<>> \/ plan.answer.claims = {}
           list == init_presets(c, w.list)
<1>o. \A answer : calm(Only(answer)) /\ calm(D!Only(answer)) /\ calm(DIO!Only(answer)) /\ calm(I!Only(answer))
  BY OnlyAnswers, OnlyInParts
<1>p. \A run : /\ calm(Plan(run, Ok({}))) /\ calm(Plan(run, ActionFailed)) /\ calm(D!Plan(run, D!Ok({})))
               /\ calm(DIO!Plan(run, DIO!Ok({}))) /\ calm(I!Plan(run, I!Empty))
  BY DEF Plan, Ok, ActionFailed, Fault, D!Plan, D!Ok, DIO!Plan, DIO!Ok, I!Plan, I!Empty, I!Ok
<1> HIDE DEF calm
<1>t. \A plan : calm(plan) => calm(ForProfile(c, r, plan)) /\ calm(ForPreset(c, r, plan))
  BY <1>o DEF ForProfile, ForPreset
<1>r. \A name, with : calm(RunOne(c, name, with))
  BY <1>o, <1>p DEF RunOne
<1>1. calm(device_service(c, r))
  <2>1. calm(D!device_set_system_factory_default(c, r))
    BY <1>o, <1>p DEF D!device_set_system_factory_default
  <2> QED
    BY <1>o, <2>1 DEF device_service
<1>2. calm(deviceio_service(c, r))
  <2>1. calm(DIO!deviceio_set_relay_output_state(c, r))
    BY <1>o, <1>p DEF DIO!deviceio_set_relay_output_state
  <2> QED
    BY <1>o, <2>1 DEF deviceio_service
<1>3. calm(imaging_service(c, r))
  <2>1. calm(I!imaging_set_imaging_settings(c, r)) /\ calm(I!imaging_move(c, r)) /\ calm(I!imaging_stop(c, r))
    BY <1>o, <1>p DEF I!imaging_set_imaging_settings, I!imaging_move, I!imaging_stop
  <2> QED
    BY <1>o, <2>1 DEF imaging_service
<1>4. calm(events_service(c, r))
  BY <1>o DEF events_service
<1>5. calm(ptz_service(c, r, w))
  <2>1. calm(ptz_get_presets(c, r, list))
    BY <1>t, <1>o DEF ptz_get_presets
  <2>2. calm(ptz_goto_preset(c, r, list))
    BY <1>t, <1>o, <1>r DEF ptz_goto_preset
  <2>3. calm(ptz_goto_home_position(c, r)) /\ calm(ptz_set_home_position(c, r)) /\ calm(ptz_remove_preset(c, r))
    BY <1>t, <1>r DEF ptz_goto_home_position, ptz_set_home_position, ptz_remove_preset
  <2>4. calm(ptz_continuous_move(c, r))
    <3>1. \A run, test : calm(Plan(run, IF test THEN Ok({}) ELSE ActionFailed))
      BY <1>p
    <3> QED
      BY <1>t, <3>1 DEF ptz_continuous_move
  <2>5. calm(ptz_relative_move(c, r))
    <3>1. \A axes : calm(Translation(r, axes))
      BY <1>o, <1>p DEF Translation
    <3> QED
      BY <1>t, <1>o, <3>1 DEF ptz_relative_move
  <2>6. calm(ptz_absolute_move(c, r)) /\ calm(ptz_stop(c, r))
    BY <1>t, <1>o, <1>p, <1>r DEF ptz_absolute_move, ptz_stop
  <2>7. calm(ptz_get_status(c, r, w.position, w.moving))
    BY <1>t, <1>o DEF ptz_get_status
  <2>8. calm(ptz_set_preset(c, r, list, w.uuid))
    BY <1>t, <1>o, <1>r DEF ptz_set_preset
  <2> QED
    BY <1>o, <2>1, <2>2, <2>3, <2>4, <2>5, <2>6, <2>7, <2>8 DEF ptz_service, list
<1>6. calm(Service(c, r, w))
  BY <1>o, <1>1, <1>2, <1>3, <1>4, <1>5 DEF Service
<1>7. calm(Dispatch(c, r, w))
  BY <1>o, <1>6 DEF Dispatch
<1> QED
  BY <1>7 DEF calm

\* Whoever is told something, or has a command run for it, was let through;
\* Media2 tells something only when it is there.
LEMMA OnlyWhenHeard ==
  ASSUME NEW c, NEW r, NEW w, c.ok \in {"ok", "failed", "undefined"}
  PROVE  /\ \/ c.ok = "ok" /\ ~HasNoPassword(c, r)
            \/ /\ Dispatch(c, r, w).run = <<>> /\ Dispatch(c, r, w).answer.claims = {}
               /\ Dispatch(c, r, w).answer # Empty
         /\ r.service = "media2_service" => c.media2 = 1 \/ Dispatch(c, r, w).answer.claims = {}
<1>1. /\ NoAnswer.claims = {} /\ Undefined.claims = {} /\ NoAnswer # Empty /\ Undefined # Empty
      /\ AuthenticationError.claims = {} /\ \A code : Fault(code).claims = {}
  BY DEF NoAnswer, Undefined, Empty, Ok, AuthenticationError, Fault
<1>2. \/ c.ok = "ok" /\ ~HasNoPassword(c, r)
      \/ Dispatch(c, r, w) \in {Only(NoAnswer), Only(Undefined)}
  BY DEF Dispatch
<1>3. \/ Dispatch(c, r, w) = Service(c, r, w)
      \/ Dispatch(c, r, w) \in {Only(NoAnswer), Only(Undefined), Only(Fault("MaxNVTProfiles")),
                                Only(AuthenticationError)}
  BY DEF Dispatch
<1>4. r.service = "media2_service" /\ c.media2 # 1 => Service(c, r, w) = Only(NoAnswer)
  BY DEF Service
<1> QED
  BY <1>1, <1>2, <1>3, <1>4, OnlyAnswers

-----------------------------------------------------------------------------
(* What the last answer says is true, and stays so. *)

LEMMA PresetClaims ==
  ASSUME NEW c, NEW r, NEW n, NEW name
  PROVE  IsTrue(c, r, <<"PresetToken", n, name>>)
<1> DEFINE claim == <<"PresetToken", n, name>>
<1>1. claim[1] = "PresetToken"
  OBVIOUS
<1> HIDE DEF claim
<1>2. "PresetToken" \notin DOMAIN Totals(c) /\ "PresetToken" \notin FixedKinds
  BY TotalKinds DEF FixedKinds
<1>3. IsTrue(c, r, claim)
  BY <1>1, <1>2, Zenon DEF IsTrue
<1> QED
  BY <1>3 DEF claim

\* The claims of GetPresets.
LEMMA ListsPresets ==
  ASSUME NEW c, NEW r, NEW w, r.service = "ptz_service", r.method = "GetPresets"
  PROVE  LET claims == Dispatch(c, r, w).answer.claims IN
           \/ claims = {}
           \/ claims = {<<"PresetToken", preset[1], preset[2]>> : preset \in init_presets(c, w.list)}
<1> DEFINE list == init_presets(c, w.list)
           shown == Ok({<<"PresetToken", preset[1], preset[2]>> : preset \in list})
<1>1. \/ Dispatch(c, r, w) = ptz_get_presets(c, r, list)
      \/ Dispatch(c, r, w) \in {Only(NoAnswer), Only(Undefined), Only(Fault("MaxNVTProfiles")),
                                Only(AuthenticationError)}
  BY DEF Dispatch, Service, ptz_service
<1>2. ptz_get_presets(c, r, list) \in {Only(NoProfile), Only(NoPTZProfile), Only(shown)}
  BY DEF ptz_get_presets, ForProfile
<1>3. /\ NoAnswer.claims = {} /\ Undefined.claims = {} /\ AuthenticationError.claims = {}
      /\ NoProfile.claims = {} /\ NoPTZProfile.claims = {} /\ Fault("MaxNVTProfiles").claims = {}
  BY DEF NoAnswer, Undefined, AuthenticationError, NoProfile, NoPTZProfile, Fault
<1>4. shown.claims = {<<"PresetToken", preset[1], preset[2]>> : preset \in list}
  BY DEF Ok
<1> HIDE DEF shown
<1> QED
  BY <1>1, <1>2, <1>3, <1>4, OnlyAnswers

\* The file has been read, requests have their parts, and only a service that is
\* there tells something.
Regular ==
  /\ conf.ok \in {"ok", "failed", "undefined"} /\ (conf.ok = "ok" => OneOrTwo(conf))
  /\ DOMAIN last.req = DOMAIN NoRequest
  /\ \A p \in Procs : DOMAIN proc[p].req = DOMAIN NoRequest
  /\ last.answer.claims # {} => (last.req.service = "media2_service" => conf.media2 = 1)

Honest == IInv /\ Regular /\ Heard /\ Truthful /\ Quiet /\ PresetsLast

LEMMA NoClaims ==
  /\ Nothing.answer.claims = {} /\ Nothing.req = NoRequest
  /\ ActionFailed.claims = {} /\ Empty.claims = {}
  BY DEF Nothing, ActionFailed, Fault, Empty, Ok

LEMMA InitHonest == Init => Honest
<1> SUFFICES ASSUME Init PROVE Honest
  OBVIOUS
<1>1. conf.ok \in {"ok", "failed", "undefined"} /\ (conf.ok = "ok" => OneOrTwo(conf))
  BY FilesAssumption DEF Init
<1>2. /\ \A p \in Procs : proc[p].pc = "idle" /\ proc[p].req = NoRequest
      /\ last = Nothing
  BY Parts DEF Init
<1> QED
  BY <1>1, <1>2, InitIInv, NoClaims DEF Honest, Regular, Heard, Truthful, Quiet, PresetsLast

\* What is answered at once.
LEMMA HonestByReceive ==
  ASSUME Honest, NEW p \in Procs, Receive(p)
  PROVE  (Regular /\ Heard /\ Truthful /\ Quiet /\ PresetsLast)'
<1>0. PICK r \in Now.asked : \E w \in Worlds(r) : TakesUp(p, r, w)
  BY StepTakesUp
<1>1. PICK w \in Worlds(r) : TakesUp(p, r, w)
  BY <1>0
<1> DEFINE plan == Dispatch(conf, r, w)
           x == Begun(r, w, plan)
<1>2. conf' = conf /\ store' = store /\ device' = device
  BY <1>1 DEF TakesUp
<1>3. DOMAIN r = DOMAIN NoRequest
  BY RequestsAssumption DEF Now, Honest, IInv, TypeOK
<1>4. plan.run = <<>> \/ plan.answer.claims = {}
  BY QuietPlans
<1>5. /\ LetThrough(r) \/ (plan.run = <<>> /\ plan.answer.claims = {} /\ plan.answer # Empty)
      /\ r.service = "media2_service" => conf.media2 = 1 \/ plan.answer.claims = {}
  BY OnlyWhenHeard DEF Honest, Regular, LetThrough
<1>6. /\ proc' = IF plan.run # <<>> \/ (Restarts(r) /\ plan.answer = Empty) THEN [proc EXCEPT ![p] = x] ELSE proc
      /\ last' = Nothing \/ (last'.req = r /\ last'.answer = plan.answer)
  BY <1>1 DEF TakesUp, Answered
<1>7. x.req = r /\ x.answer = plan.answer /\ (x.pc = "run" => ~Restarts(r))
  BY Parts
\* What is said is true: of the presets too.
<1>8. LetThrough(r) => \A claim \in plan.answer.claims : IsTrue(conf, r, claim)
  <2>1. CASE ~(r.service = "ptz_service" /\ r.method = "GetPresets")
    <3>1. LetThrough(r) => Says(conf, r, plan.answer)
      BY <2>1, SaysRequest DEF LetThrough, Honest, Regular
    <3> QED
      BY <3>1 DEF Says, Plain
  <2>2. CASE r.service = "ptz_service" /\ r.method = "GetPresets"
    <3> HIDE DEF plan
    <3>1. \A claim \in plan.answer.claims : \E n, name : claim = <<"PresetToken", n, name>>
      BY <2>2, ListsPresets DEF plan
    <3> QED
      BY <3>1, PresetClaims
  <2> QED
    BY <2>1, <2>2
<1>9. LetThrough(r) => \A claim \in plan.answer.claims :
        claim[1] = "PresetToken" => \E preset \in store : preset[1] = claim[2]
  <2>1. CASE ~(r.service = "ptz_service" /\ r.method = "GetPresets")
    <3>1. LetThrough(r) => Says(conf, r, plan.answer)
      BY <2>1, SaysRequest DEF LetThrough, Honest, Regular
    <3> QED
      BY <3>1 DEF Says, Plain
  <2>2. CASE r.service = "ptz_service" /\ r.method = "GetPresets"
    <3>1. w.list \in SUBSET store
      <4>1. Worlds(r) = [list : Lists, uuid : Uuids \ {preset[2] : preset \in store},
                         position : {FALSE}, moving : {FALSE}]
        BY <2>2 DEF Worlds
      <4>2. w.list \in Lists
        BY <4>1
      <4> QED
        BY <4>2 DEF Lists
    <3>2. init_presets(conf, w.list) \subseteq store
      BY <3>1 DEF init_presets
    <3>3. \/ plan.answer.claims = {}
          \/ plan.answer.claims = {<<"PresetToken", preset[1], preset[2]>> : preset \in init_presets(conf, w.list)}
      BY <2>2, ListsPresets
    <3> HIDE DEF plan
    <3> QED
      BY <3>2, <3>3
  <2> QED
    BY <2>1, <2>2
<1> HIDE DEF plan, x
<1>10. \A q \in Procs : proc'[q] = proc[q] \/ (q = p /\ proc'[q] = x
                           /\ (plan.run # <<>> \/ (Restarts(r) /\ plan.answer = Empty)))
  BY <1>6 DEF Honest, IInv, Shape
<1>11. Regular'
  BY <1>2, <1>3, <1>5, <1>6, <1>7, <1>10, NoClaims DEF Honest, Regular
<1>12. Heard'
  BY <1>2, <1>5, <1>6, <1>7, <1>10, NoClaims DEF Honest, Heard, LetThrough
<1>13. Quiet'
  BY <1>4, <1>7, <1>10 DEF Honest, Quiet
<1>14. Truthful'
  BY <1>2, <1>5, <1>6, <1>8, NoClaims DEF Truthful
<1>15. PresetsLast'
  BY <1>2, <1>5, <1>6, <1>9, NoClaims DEF PresetsLast, Orderly
<1> QED
  BY <1>11, <1>12, <1>13, <1>14, <1>15

\* An answer without claims, later.
LEMMA HonestInSilence ==
  ASSUME Honest, NEW p \in Procs, Step(p) \/ SyncReturns(p), last'.answer.claims = {}
  PROVE  (Regular /\ Heard /\ Truthful /\ Quiet /\ PresetsLast)'
<1>1. GoesOn(p)
  BY StepGoesOn DEF Honest, IInv
<1>2. /\ conf' = conf /\ proc[p].pc # "idle"
      /\ \A q \in Procs \ {p} : proc'[q] = proc[q] \/ proc'[q] = Idle
      /\ proc'[p] = Idle \/ (/\ proc'[p].req = proc[p].req /\ proc'[p].answer = proc[p].answer
                             /\ (proc'[p].pc = "run" => proc[p].pc = "run"))
      /\ last' = Nothing \/ last'.req = proc[p].req
  BY <1>1 DEF GoesOn
<1>3. Regular'
  BY <1>2, Parts, NoClaims DEF Honest, Regular
<1>4. Heard'
  BY <1>2, Parts DEF Honest, Heard, LetThrough
<1>5. Quiet'
  BY <1>2, Parts DEF Honest, Quiet
<1>6. Truthful' /\ PresetsLast'
  BY DEF Truthful, PresetsLast
<1> QED
  BY <1>3, <1>4, <1>5, <1>6

\* Only SetPreset tells something late: the token of its preset.
LEMMA SilentSteps ==
  ASSUME Honest, NEW p \in Procs, Step(p) \/ SyncReturns(p), ~AnswerSetPreset(p)
  PROVE  last'.answer.claims = {}
<1>1. \/ last' = Nothing \/ last'.answer = ActionFailed
      \/ last'.answer = proc[p].answer /\ proc[p].pc = "run"
  BY DEF Step, CommandSucceeds, CommandFails, SetSystemFactoryDefault, CreateHelper, CallSync, Expire, Reboot,
         RebootFails, SyncReturns, Restart, End, Answered
<1> QED
  BY <1>1, NoClaims DEF Honest, Quiet

LEMMA HonestByAnswer ==
  ASSUME Honest, NEW p \in Procs, AnswerSetPreset(p)
  PROVE  (Regular /\ Heard /\ Truthful /\ Quiet /\ PresetsLast)'
<1> DEFINE name == SetName(p)
           r == proc[p].req
<1>1. proc[p].pc = "relist" /\ Adds(r) /\ UNCHANGED <<device, conf, store>>
  BY DEF AnswerSetPreset, Honest, IInv, Named
<1>2. PICK list \in Lists : \E answer \in SetPresetAnswer(r, name, proc[p].total, init_presets(conf, list)) :
        End(p, answer, proc[p].ran)
  BY <1>1 DEF AnswerSetPreset, SetName, SetCommand
<1>3. PICK answer \in SetPresetAnswer(r, name, proc[p].total, init_presets(conf, list)) : End(p, answer, proc[p].ran)
  BY <1>2
<1>4. last'.req = r /\ last'.answer = answer /\ proc' = [proc EXCEPT ![p] = Idle]
  BY <1>3 DEF End, Answered
<1>5. \A claim \in answer.claims : \E n, known : claim = <<"PresetToken", n, known>>
  <2>1. answer = Fault("TooManyPresets") \/ \E n : answer = Ok({<<"PresetToken", n, name>>})
    BY <1>3 DEF SetPresetAnswer
  <2>2. Fault("TooManyPresets").claims = {} /\ \A n : Ok({<<"PresetToken", n, name>>}).claims = {<<"PresetToken", n, name>>}
    BY DEF Fault, Ok
  <2>3. answer.claims = {} \/ \E n : answer.claims = {<<"PresetToken", n, name>>}
    BY <2>1, <2>2
  <2> QED
    BY <2>3
<1>6. \A q \in Procs : proc'[q] = proc[q] \/ proc'[q] = Idle
  BY <1>4 DEF Honest, IInv, Shape
<1>7. r.service = "ptz_service"
  BY <1>1 DEF Adds
<1> HIDE DEF r
<1>8. Regular'
  BY <1>1, <1>4, <1>6, <1>7, Parts DEF Honest, Regular, r
<1>9. Heard'
  BY <1>1, <1>4, <1>6, Parts DEF Honest, Heard, LetThrough, r
<1>10. Quiet'
  BY <1>6, Parts DEF Honest, Quiet
<1>11. Truthful'
  <2>1. \A claim \in answer.claims : IsTrue(conf, r, claim)
    BY <1>5, PresetClaims
  <2> QED
    BY <1>1, <1>4, <2>1 DEF Truthful
\* With clients that wait for one another the token is one that is there.
<1>12. PresetsLast'
  <2>1. Orderly' = Orderly
    BY <1>1 DEF Orderly
  <2>2. CASE Orderly
    <3>1. init_presets(conf, list) = store
      BY <1>2, <2>2 DEF Orderly, Lists, init_presets
    <3>2. Tells(r, name, proc[p].total, store, answer)
      BY <1>3, <3>1, TokenAnswered
    <3>3. IF Has(r, "PresetToken") THEN Meant(p) # {} /\ Called(p) = Meant(p)
          ELSE \/ Called(p) = {} /\ proc[p].total = Cardinality(store)
               \/ \E preset \in store : Called(p) = {preset} /\ Cardinality(store) = proc[p].total + 1
      BY <1>1, <2>2 DEF Honest, IInv, Stored, r
    <3>4. Called(p) = {preset \in store : preset[2] = name}
      BY DEF Called
    <3>5. CASE ~Has(r, "PresetToken") /\ Cardinality(store) = proc[p].total
      <4>1. answer = Fault("TooManyPresets")
        BY <1>3, <3>1, <3>5 DEF SetPresetAnswer
      <4>2. answer.claims = {}
        BY <4>1 DEF Fault
      <4> QED
        BY <1>4, <4>2 DEF PresetsLast
    <3>6. CASE Has(r, "PresetToken") \/ Cardinality(store) # proc[p].total
      <4>1. Called(p) # {}
        BY <3>3, <3>6
      <4>2. \E preset \in store : answer.claims = {<<"PresetToken", preset[1], name>>}
        BY <3>2, <3>4, <3>6, <4>1 DEF Tells
      <4> QED
        BY <1>1, <1>4, <4>2 DEF PresetsLast
    <3> QED
      BY <3>5, <3>6
  <2>3. CASE ~Orderly
    BY <2>1, <2>3 DEF PresetsLast
  <2> QED
    BY <2>2, <2>3
<1> QED
  BY <1>8, <1>9, <1>10, <1>11, <1>12

LEMMA StepHonest == Honest /\ [Next]_vars => Honest'
<1> SUFFICES ASSUME Honest, [Next]_vars PROVE Honest'
  OBVIOUS
<1>i. IInv'
  BY StepIInv DEF Honest
<1>1. CASE UNCHANGED vars
  BY <1>i, <1>1 DEF vars, Honest, Regular, Heard, LetThrough, Truthful, Quiet, PresetsLast, Orderly
<1>2. CASE PutAway
  <2>1. last' = Nothing /\ UNCHANGED <<device, conf, store, proc>>
    BY <1>2 DEF PutAway
  <2> QED
    BY <1>i, <2>1, NoClaims DEF Honest, Regular, Heard, LetThrough, Truthful, Quiet, PresetsLast
<1>3. ASSUME NEW p \in Procs, Receive(p) PROVE Honest'
  BY <1>i, <1>3, HonestByReceive DEF Honest
<1>4. ASSUME NEW p \in Procs, Step(p) \/ SyncReturns(p) PROVE Honest'
  BY <1>i, <1>4, HonestByAnswer, HonestInSilence, SilentSteps DEF Honest
<1> QED
  BY <1>1, <1>2, <1>3, <1>4, Steps

\* Every claim of an answer is true of the configuration, and the client that
\* is told of a preset can find it.
THEOREM Honesty == Spec => [](Truthful /\ PresetsLast)
<1>1. Honest => Truthful /\ PresetsLast
  BY DEF Honest
<1> QED
  BY InitHonest, StepHonest, <1>1, PTL DEF Spec

-----------------------------------------------------------------------------
(* Two answers agree. *)

\* The profiles have different names in either version of Media.
LEMMA OneWriting ==
  ASSUME NEW c, OneOrTwo(c), NEW r, NEW i \in P(c), NEW j \in P(c), Written(c, r, i) = Written(c, r, j)
  PROVE  i = j
<1>1. M2!WrittenName(1) # M2!WrittenName(2)
  BY DEF M2!WrittenName
<1> QED
  BY <1>1, ProfilesAre DEF Written

\* Two claims about the same thing, and that they give it the same value.
Related(r, s, a, b) ==
  a[1] = b[1] /\ a[2] = b[2] /\ a[3] # "" /\ b[3] # "" /\ a[1] # "PresetToken" /\ Comparable(r, s, a[1])
Agree(a, b) == a[3] = b[3]

LEMMA TruthIsOne ==
  ASSUME NEW c, OneOrTwo(c), NEW r, NEW s, NEW a, NEW b, IsTrue(c, r, a), IsTrue(c, s, b),
         Related(r, s, a, b), ~BorrowsEncoding(c, r), ~BorrowsEncoding(c, s)
  PROVE  Agree(a, b)
<1> SUFFICES a[3] = b[3]
  BY DEF Agree
<1> USE DEF Related
<1>s. a[1] \in Suffixed => \A i : Written(c, r, i) = Written(c, s, i) /\ Version(r) = Version(s)
  BY DEF Comparable, Written, Version
<1>1. a[1] \in {"VideoEncoderToken", "AudioEncoderToken", "RelayOutputToken"} \union DOMAIN Totals(c)
  BY DEF IsTrue
<1>2. CASE a[1] = "VideoEncoderToken"
  <2>1. PICK i \in P(c) : a[2] = Written(c, r, i) /\ a[3] = VideoCodec(c.profiles[i].video, Version(r))
    BY <1>2 DEF IsTrue
  <2>2. PICK j \in P(c) : b[2] = Written(c, s, j) /\ b[3] = VideoCodec(c.profiles[j].video, Version(s))
    BY <1>2 DEF IsTrue
  <2>3. a[1] \in Suffixed
    BY <1>2 DEF Suffixed
  <2>4. i = j
    BY <1>s, <2>1, <2>2, <2>3, OneWriting
  <2> QED
    BY <1>s, <2>1, <2>2, <2>3, <2>4
<1>3. CASE a[1] = "AudioEncoderToken"
  <2>1. PICK i \in P(c) : a[2] = Written(c, r, i) /\ a[3] = AudioCodec(c.profiles[i].audio, Version(r))
    BY <1>3 DEF IsTrue
  <2>2. PICK j \in P(c) : b[2] = Written(c, s, j) /\ b[3] = AudioCodec(c.profiles[j].audio, Version(s))
    BY <1>3 DEF IsTrue
  <2>3. a[1] \in Suffixed
    BY <1>3 DEF Suffixed
  <2>4. i = j
    BY <1>s, <2>1, <2>2, <2>3, OneWriting
  <2> QED
    BY <1>s, <2>1, <2>2, <2>3, <2>4
<1>4. CASE a[1] = "RelayOutputToken"
  <2>1. a[3] \in {"", c.relays[a[2]].idle} /\ b[3] \in {"", c.relays[b[2]].idle}
    BY <1>4 DEF IsTrue
  <2> QED
    BY <2>1
<1>5. CASE a[1] \in DOMAIN Totals(c)
  <2>1. a[3] = Totals(c)[a[1]] /\ b[3] = Totals(c)[b[1]]
    BY <1>5, Zenon DEF IsTrue
  <2> QED
    BY <2>1
<1> QED
  BY <1>1, <1>2, <1>3, <1>4, <1>5

\* Whatever two requests ask, of whichever service, and whatever the file says:
\* codecs, relays, counts and kinds of events are the same in both answers.
THEOREM AnswersAgree == Spec => []ClaimsAgree
<1>1. Honest => ClaimsAgree
  <2> SUFFICES ASSUME Honest, last.answer.kind = "ok", ~BorrowsEncoding(conf, last.req), NEW r \in Now.asked,
                      r.service # "ptz_service", NEW a \in last.answer.claims,
                      NEW b \in Dispatch(conf, r, World({}, "", FALSE, FALSE)).answer.claims,
                      a[1] = b[1], a[2] = b[2], a[3] # "", b[3] # "", a[1] # "PresetToken",
                      Comparable(last.req, r, a[1]), ~BorrowsEncoding(conf, r)
               PROVE  a[3] = b[3]
    BY DEF ClaimsAgree
  <2>1. OneOrTwo(conf)
    BY DEF Honest, Heard, LetThrough, Regular
  <2>2. IsTrue(conf, last.req, a)
    BY DEF Honest, Truthful
  <2>3. IsTrue(conf, r, b)
    BY <2>1, SaysRequest DEF Says, Plain
  <2>4. Related(last.req, r, a, b)
    BY DEF Related
  <2>5. Agree(a, b)
    BY <2>1, <2>2, <2>3, <2>4, TruthIsOne, Zenon
  <2> QED
    BY <2>5 DEF Agree
<1> QED
  BY InitHonest, StepHonest, <1>1, PTL DEF Spec

-----------------------------------------------------------------------------
(* What is listed can be used. *)

\* No fault that denies that the thing exists.
Welcome(answer) == answer.code \notin Strange

\* A request that uses the token in the way of the taker.
Uses(c, r, taker, token) ==
  /\ r.service = taker[1] /\ r.method = taker[2]
  /\ DOMAIN r.args = {taker[3], "LogicalState", "ProfileToken"} /\ r.args[taker[3]] = token
  /\ taker[3] # "ProfileToken" => r.args["ProfileToken"] = Name(c, 1)

LEMMA WelcomeAnswers ==
  /\ \A claims : /\ Welcome(Ok(claims)) /\ Welcome(M!Ok(claims)) /\ Welcome(M2!Ok(claims))
                 /\ Welcome(I!Ok(claims)) /\ Welcome(DIO!Ok(claims))
  /\ Welcome(Undefined) /\ Welcome(M!Undefined) /\ Welcome(M2!Undefined) /\ Welcome(NoAnswer)
  /\ \A code : code \notin Strange => /\ Welcome(Fault(code)) /\ Welcome(M!Fault(code)) /\ Welcome(M2!Fault(code))
                                      /\ Welcome(I!Fault(code)) /\ Welcome(DIO!Fault(code))
  BY DEF Welcome, Ok, M!Ok, M2!Ok, I!Ok, DIO!Ok, Undefined, M!Undefined, M2!Undefined, NoAnswer,
         Fault, M!Fault, M2!Fault, I!Fault, DIO!Fault, Strange

\* The follow-up is such a request, of the same client.
LEMMA FollowsUp ==
  ASSUME DOMAIN last.req = DOMAIN NoRequest, NEW taker, NEW token
  PROVE  LET r == FollowUp(taker, token) IN
           /\ Uses(conf, r, taker, token)
           /\ r.header = last.req.header /\ r.short = last.req.short
           /\ r.user = last.req.user /\ r.secret = last.req.secret
<1> DEFINE r == FollowUp(taker, token)
           with == [element \in {taker[3]} \union DOMAIN Usual |-> IF element = taker[3] THEN token ELSE Usual[element]]
<1>1. /\ r.service = taker[1] /\ r.method = taker[2] /\ r.args = with
      /\ r.header = last.req.header /\ r.short = last.req.short
      /\ r.user = last.req.user /\ r.secret = last.req.secret
  BY DEF FollowUp, NoRequest
<1>2. DOMAIN Usual = {"LogicalState", "ProfileToken"} /\ Usual["ProfileToken"] = Name(conf, 1)
  BY DEF Usual
<1>3. DOMAIN with = {taker[3], "LogicalState", "ProfileToken"} /\ with[taker[3]] = token
      /\ (taker[3] # "ProfileToken" => with["ProfileToken"] = Name(conf, 1))
  BY <1>2
<1> QED
  BY <1>1, <1>3 DEF Uses

-----------------------------------------------------------------------------
(* The methods that take each kind of token. *)

LEMMA TakersOfProfiles ==
  \A taker \in Takers("Profile") :
    \/ /\ taker[1] = "media_service" /\ taker[3] = "ProfileToken"
       /\ taker[2] \in {"GetProfile", "GetSnapshotUri", "GetStreamUri", "GetVideoSourceConfigurationOptions",
                       "GetCompatibleVideoEncoderConfigurations", "GetCompatibleAudioEncoderConfigurations",
                       "GetCompatibleAudioDecoderConfigurations", "GetAudioSourceConfigurationOptions"}
    \/ /\ taker[1] = "media2_service" /\ taker[3] = "ProfileToken"
       /\ taker[2] \in {"GetVideoSourceConfigurations", "GetVideoEncoderConfigurations",
                       "GetAudioEncoderConfigurations", "GetSnapshotUri", "GetStreamUri"}
    \/ taker[1] = "media2_service" /\ taker[3] = "Token" /\ taker[2] = "GetProfiles"
  BY DEF Takers

LEMMA TakersOfParts ==
  /\ \A taker \in Takers("VideoEncoderToken") :
       /\ taker[3] = "ConfigurationToken"
       /\ \/ taker[1] = "media_service" /\ taker[2] = "GetVideoEncoderConfiguration"
          \/ taker[1] = "media2_service" /\ taker[2] \in {"GetVideoEncoderConfigurations",
                                                         "GetVideoEncoderConfigurationOptions"}
  /\ \A taker \in Takers("AudioEncoderToken") :
       /\ taker[3] = "ConfigurationToken"
       /\ \/ taker[1] = "media_service" /\ taker[2] = "GetAudioEncoderConfiguration"
          \/ taker[1] = "media2_service" /\ taker[2] = "GetAudioEncoderConfigurations"
  /\ \A taker \in Takers("AudioDecoderToken") :
       /\ taker[3] = "ConfigurationToken"
       /\ \/ taker[1] = "media_service" /\ taker[2] = "GetAudioDecoderConfiguration"
          \/ taker[1] = "media2_service" /\ taker[2] = "GetAudioDecoderConfigurations"
  BY DEF Takers

LEMMA TakersOfFixed ==
  /\ \A taker \in Takers("VideoSourceConfigToken") :
       /\ taker[3] = "ConfigurationToken"
       /\ \/ taker[1] = "media_service" /\ taker[2] = "GetVideoSourceConfiguration"
          \/ taker[1] = "media2_service" /\ taker[2] = "GetVideoSourceConfigurations"
  /\ \A taker \in Takers("AudioSourceConfigToken") :
       /\ taker[3] = "ConfigurationToken"
       /\ \/ taker[1] = "media_service" /\ taker[2] = "GetAudioSourceConfiguration"
          \/ taker[1] = "media2_service" /\ taker[2] = "GetAudioSourceConfigurations"
  /\ \A taker \in Takers("AudioOutputConfigToken") :
       taker[1] = "media2_service" /\ taker[2] = "GetAudioOutputConfigurations" /\ taker[3] = "ConfigurationToken"
  /\ \A taker \in Takers("VideoSourceToken") :
       /\ taker[3] = "VideoSourceToken"
       /\ \/ taker[1] = "imaging_service" /\ taker[2] = "GetImagingSettings"
          \/ taker[1] = "media2_service" /\ taker[2] = "GetVideoSourceModes"
  /\ \A taker \in Takers("PTZNodeToken") :
       taker[1] = "ptz_service" /\ taker[2] = "GetNode" /\ taker[3] = "NodeToken"
  BY DEF Takers

LEMMA TakersOfOthers ==
  /\ \A taker \in Takers("RelayOutputToken") :
       taker[1] = "deviceio_service" /\ taker[2] = "SetRelayOutputState" /\ taker[3] = "RelayOutputToken"
  /\ \A taker \in Takers("PresetToken") :
       taker[1] = "ptz_service" /\ taker[2] = "GotoPreset" /\ taker[3] = "PresetToken"
  BY DEF Takers

LEMMA KindsOfTakers ==
  ASSUME NEW kind, Takers(kind) # {}
  PROVE  kind \in {"Profile", "RelayOutputToken", "PresetToken"} \union Suffixed \union FixedKinds
  BY DEF Takers, Suffixed, FixedKinds

-----------------------------------------------------------------------------
(* How they take it. *)

\* A token that names a profile is accepted where it may also be a word.
LEMMA NamesAProfile ==
  ASSUME NEW c, OneOrTwo(c), NEW i \in P(c), NEW word, NEW yes, NEW no
  PROVE  /\ M!NamesEither(c, <<"Profile", c.profiles[i].name>>, word, yes, no) = yes
         /\ M2!NamesEither(c, <<"Profile", c.profiles[i].name>>, word, yes, no) = yes
<1> DEFINE t == <<"Profile", c.profiles[i].name>>
<1>1. i = 1 \/ i = 2
  BY ProfilesAre
<1>2. CASE i = 1
  <2>1. t = M!Name(c, 1) /\ t = M2!Name(c, 1)
    BY <1>2 DEF M!Name, M2!Name
  <2> HIDE DEF t
  <2>2. M!NamesEither(c, t, word, yes, no) = yes /\ M2!NamesEither(c, t, word, yes, no) = yes
    BY <2>1 DEF M!NamesEither, M2!NamesEither
  <2> QED
    BY <2>2 DEF t
<1>3. CASE i = 2
  <2>1. P(c) = {1, 2} /\ ~Alone(c)
    BY <1>3, ProfilesAre
  <2>2. ~M!Alone(c) /\ ~M2!Alone(c)
    BY <2>1 DEF M!Alone, M2!Alone, Alone
  <2>3. t = M!Name(c, 2) /\ t = M2!Name(c, 2)
    BY <1>3 DEF M!Name, M2!Name
  <2> HIDE DEF t
  <2>4. M!NamesEither(c, t, word, yes, no) = yes /\ M2!NamesEither(c, t, word, yes, no) = yes
    BY <2>2, <2>3 DEF M!NamesEither, M2!NamesEither
  <2> QED
    BY <2>4 DEF t
<1> QED
  BY <1>1, <1>2, <1>3

\* A short name is left when a token is cut; a suffix is cut from one of nine.
LEMMA CutsLeave ==
  ASSUME NEW name, NEW kind,
         \/ kind = "Profile" /\ Len(name) <= 9
         \/ kind \in Suffixed /\ Len(name) = 9
  PROVE  M!Cut9(<<kind, name>>) = <<"Profile", name>> /\ M2!Cut9(<<kind, name>>) = <<"Profile", name>>
<1> DEFINE t == <<kind, name>>
<1>1. t[1] = kind /\ t[2] = name
  OBVIOUS
<1>2. M!Len(name) = Len(name) /\ M2!Len(name) = Len(name) /\ M!Suffixed = Suffixed /\ M2!Suffixed = Suffixed
  BY DEF Len, M!Len, M2!Len, M!Suffixed, M2!Suffixed, Suffixed
<1> HIDE DEF t
<1>3. M!Cut9(t) = <<"Profile", name>> /\ M2!Cut9(t) = <<"Profile", name>>
  BY <1>1, <1>2 DEF M!Cut9, M2!Cut9
<1> QED
  BY <1>3 DEF t

\* The methods of Media that take a profile.
LEMMA MediaTakesProfiles ==
  ASSUME NEW c, OneOrTwo(c), NEW r, NEW i \in P(c), Len(c.profiles[i].name) <= 9,
         "ProfileToken" \in DOMAIN r.args, r.args["ProfileToken"] = <<"Profile", c.profiles[i].name>>
  PROVE  /\ Welcome(M!media_get_profile(c, r)) /\ Welcome(M!media_get_snapshot_uri(c, r))
         /\ Welcome(M!media_get_stream_uri(c, r))
         /\ Welcome(M!media_get_video_source_configuration_options(c, r))
         /\ Welcome(M!media_get_compatible_video_encoder_configurations(c, r))
         /\ Welcome(M!media_get_compatible_audio_encoder_configurations(c, r))
         /\ Welcome(M!media_get_compatible_audio_decoder_configurations(c, r))
         /\ Welcome(M!media_get_audio_source_configuration_options(c, r))
<1>a. i \in M!Asked(c, r, "Profile", "ProfileToken")
  BY DEF M!Asked, M!Owners, M!Has, M!Arg, M!P, P
<1>o. /\ \A claims : Welcome(M!Ok(claims))
      /\ Welcome(M!NoAudio) /\ Welcome(M!NoDecoder) /\ Welcome(M!Fault("IncompleteConfiguration"))
      /\ Welcome(M!Undefined)
  BY WelcomeAnswers DEF M!NoAudio, M!NoDecoder, Strange
<1>1. Welcome(M!media_get_profile(c, r))
  BY <1>a, <1>o DEF M!media_get_profile
<1>2. Welcome(M!media_get_snapshot_uri(c, r)) /\ Welcome(M!media_get_stream_uri(c, r))
  BY <1>a, <1>o DEF M!media_get_snapshot_uri, M!media_get_stream_uri
<1>3. /\ Welcome(M!media_get_compatible_video_encoder_configurations(c, r))
      /\ Welcome(M!media_get_compatible_audio_encoder_configurations(c, r))
      /\ Welcome(M!media_get_compatible_audio_decoder_configurations(c, r))
  BY <1>a, <1>o DEF M!media_get_compatible_video_encoder_configurations,
     M!media_get_compatible_audio_encoder_configurations, M!media_get_compatible_audio_decoder_configurations
<1>4. M!ProfileFirst(c, r) = <<"Profile", c.profiles[i].name>>
  BY CutsLeave DEF M!ProfileFirst, M!Has, M!Arg
<1>5. Welcome(M!media_get_video_source_configuration_options(c, r))
  BY <1>4, <1>o, NamesAProfile DEF M!media_get_video_source_configuration_options
<1>6. Welcome(M!media_get_audio_source_configuration_options(c, r))
  <2>1. M!ProfileFirst(c, r) \in {M!Name(c, j) : j \in M!P(c)} \union {M!AudioSourceConfig}
    BY <1>4 DEF M!Name, M!P, P
  <2> QED
    BY <2>1, <1>o DEF M!media_get_audio_source_configuration_options, M!SilentIsWild
<1> QED
  BY <1>1, <1>2, <1>3, <1>5, <1>6

\* The methods of Media that take a configuration.
LEMMA MediaTakesParts ==
  ASSUME NEW c, NEW r, NEW i \in P(c), NEW kind, "ConfigurationToken" \in DOMAIN r.args,
         r.args["ConfigurationToken"] = <<kind, c.profiles[i].name>>
  PROVE  /\ kind = "VideoEncoderToken" => Welcome(M!media_get_video_encoder_configuration(c, r))
         /\ kind = "AudioEncoderToken" => Welcome(M!media_get_audio_encoder_configuration(c, r))
         /\ kind = "AudioDecoderToken" => Welcome(M!media_get_audio_decoder_configuration(c, r))
<1>a. i \in M!Asked(c, r, kind, "ConfigurationToken")
  BY DEF M!Asked, M!Owners, M!Has, M!Arg, M!P, P
<1>o. (\A claims : Welcome(M!Ok(claims))) /\ Welcome(M!NoAudio) /\ Welcome(M!NoDecoder)
  BY WelcomeAnswers DEF M!NoAudio, M!NoDecoder, Strange
<1> QED
  BY <1>a, <1>o DEF M!media_get_video_encoder_configuration, M!media_get_audio_encoder_configuration,
     M!media_get_audio_decoder_configuration

LEMMA MediaTakesWords ==
  ASSUME NEW c, NEW r, NEW kind, "ConfigurationToken" \in DOMAIN r.args,
         r.args["ConfigurationToken"] = <<kind, "">>
  PROVE  /\ kind = "VideoSourceConfigToken" => Welcome(M!media_get_video_source_configuration(c, r))
         /\ kind = "AudioSourceConfigToken" => Welcome(M!media_get_audio_source_configuration(c, r))
<1>o. (\A claims : Welcome(M!Ok(claims))) /\ Welcome(M!NoAudio)
  BY WelcomeAnswers DEF M!NoAudio, Strange
<1> QED
  BY <1>o DEF M!media_get_video_source_configuration, M!media_get_audio_source_configuration,
     M!media_get_audio_source_configurations, M!VideoSourceConfig, M!AudioSourceConfig, M!Fixed, M!Has, M!Arg

\* The methods of Media2.
LEMMA Media2TakesProfiles ==
  ASSUME NEW c, OneOrTwo(c), NEW r, NEW i \in P(c), Len(c.profiles[i].name) <= 9,
         "ConfigurationToken" \notin DOMAIN r.args,
         "ProfileToken" \in DOMAIN r.args, r.args["ProfileToken"] = <<"Profile", c.profiles[i].name>>
  PROVE  /\ Welcome(M2!media2_get_video_source_configurations(c, r))
         /\ Welcome(M2!media2_get_video_encoder_configurations(c, r))
         /\ Welcome(M2!media2_get_audio_encoder_configurations(c, r))
         /\ Welcome(M2!media2_get_audio_source_configurations(c, r))
         /\ Welcome(M2!media2_get_audio_output_configurations(c, r))
         /\ Welcome(M2!media2_get_snapshot_uri(c, r)) /\ Welcome(M2!media2_get_stream_uri(c, r))
<1> DEFINE t == <<"Profile", c.profiles[i].name>>
<1>c. M2!Cut9(t) = t
  BY CutsLeave
<1>f. M2!ProfileFirst(c, r) = t /\ M2!ConfigurationFirst(r) = t /\ M2!AsksOne(r)
  BY <1>c DEF M2!ProfileFirst, M2!ConfigurationFirst, M2!AsksOne, M2!Has, M2!Arg
<1>a. i \in M2!Asked(c, r, "Profile", "ProfileToken") /\ i \in M2!Owners(c, "Profile", t)
  BY DEF M2!Asked, M2!Owners, M2!Has, M2!Arg, M2!P, P
<1>n. \A word, yes, no : M2!NamesEither(c, t, word, yes, no) = yes
  BY NamesAProfile
<1> HIDE DEF t
<1>o. /\ \A claims : Welcome(M2!Ok(claims))
      /\ Welcome(M2!NoAudio) /\ Welcome(M2!NoDecoder) /\ Welcome(M2!NoOutput)
      /\ Welcome(M2!Fault("IncompleteConfiguration"))
  BY WelcomeAnswers DEF M2!NoAudio, M2!NoDecoder, M2!NoOutput, Strange
<1>1. Welcome(M2!media2_get_video_source_configurations(c, r))
  BY <1>f, <1>n, <1>o DEF M2!media2_get_video_source_configurations
<1>2. Welcome(M2!media2_get_video_encoder_configurations(c, r))
  BY <1>f, <1>a, <1>o DEF M2!media2_get_video_encoder_configurations
<1>3. Welcome(M2!media2_get_audio_encoder_configurations(c, r))
  BY <1>f, <1>a, <1>o DEF M2!media2_get_audio_encoder_configurations
<1>4. /\ Welcome(M2!media2_get_audio_source_configurations(c, r))
      /\ Welcome(M2!media2_get_audio_output_configurations(c, r))
  BY <1>f, <1>n, <1>o DEF M2!media2_get_audio_source_configurations, M2!media2_get_audio_output_configurations
<1>5. Welcome(M2!media2_get_snapshot_uri(c, r)) /\ Welcome(M2!media2_get_stream_uri(c, r))
  BY <1>a, <1>o DEF M2!media2_get_snapshot_uri, M2!media2_get_stream_uri
<1> QED
  BY <1>1, <1>2, <1>3, <1>4, <1>5

LEMMA Media2TakesNames ==
  ASSUME NEW c, NEW r, NEW i \in P(c), "Token" \in DOMAIN r.args,
         r.args["Token"] = <<"Profile", c.profiles[i].name>>
  PROVE  Welcome(M2!media2_get_profiles(c, r))
<1>1. i \in M2!Asked(c, r, "Profile", "Token")
  BY DEF M2!Asked, M2!Owners, M2!Has, M2!Arg, M2!P, P
<1>2. M2!Has(r, "Token") /\ \A claims : Welcome(M2!Ok(claims))
  BY WelcomeAnswers DEF M2!Has
<1> QED
  BY <1>1, <1>2 DEF M2!media2_get_profiles

LEMMA Media2TakesParts ==
  ASSUME NEW c, NEW r, NEW i \in P(c), Len(c.profiles[i].name) = 9, NEW kind \in Suffixed,
         "ConfigurationToken" \in DOMAIN r.args, r.args["ConfigurationToken"] = <<kind, c.profiles[i].name>>
  PROVE  /\ Welcome(M2!media2_get_video_encoder_configurations(c, r))
         /\ Welcome(M2!media2_get_video_encoder_configuration_options(c, r))
         /\ Welcome(M2!media2_get_audio_encoder_configurations(c, r))
         /\ Welcome(M2!media2_get_audio_decoder_configurations(c, r))
<1> DEFINE t == <<"Profile", c.profiles[i].name>>
<1>c. M2!Cut9(<<kind, c.profiles[i].name>>) = t
  BY CutsLeave
<1>f. M2!ConfigurationFirst(r) = t /\ M2!AsksOne(r)
  BY <1>c DEF M2!ConfigurationFirst, M2!AsksOne, M2!Has, M2!Arg
<1>a. i \in M2!Owners(c, "Profile", t)
  BY DEF M2!Owners, M2!P, P
<1> HIDE DEF t
<1>o. /\ \A claims : Welcome(M2!Ok(claims))
      /\ Welcome(M2!NoAudio) /\ Welcome(M2!NoDecoder)
  BY WelcomeAnswers DEF M2!NoAudio, M2!NoDecoder, Strange
<1>1. /\ Welcome(M2!media2_get_video_encoder_configurations(c, r))
      /\ Welcome(M2!media2_get_video_encoder_configuration_options(c, r))
  BY <1>f, <1>a, <1>o DEF M2!media2_get_video_encoder_configurations,
     M2!media2_get_video_encoder_configuration_options
<1>2. /\ Welcome(M2!media2_get_audio_encoder_configurations(c, r))
      /\ Welcome(M2!media2_get_audio_decoder_configurations(c, r))
  BY <1>f, <1>a, <1>o DEF M2!media2_get_audio_encoder_configurations, M2!media2_get_audio_decoder_configurations
<1> QED
  BY <1>1, <1>2

\* The other words: with a profile beside it a configuration is not looked at.
LEMMA Media2TakesWords ==
  ASSUME NEW c, OneOrTwo(c), Len(c.profiles[1].name) <= 9, NEW r,
         "ProfileToken" \in DOMAIN r.args, r.args["ProfileToken"] = Name(c, 1)
  PROVE  /\ Welcome(M2!media2_get_video_source_configurations(c, r))
         /\ Welcome(M2!media2_get_audio_source_configurations(c, r))
         /\ Welcome(M2!media2_get_audio_output_configurations(c, r))
<1> DEFINE t == <<"Profile", c.profiles[1].name>>
<1>c. M2!Cut9(t) = t
  BY CutsLeave
<1>f. M2!ProfileFirst(c, r) = t
  BY <1>c DEF M2!ProfileFirst, M2!Has, M2!Arg, Name
<1>n. \A word, yes, no : M2!NamesEither(c, t, word, yes, no) = yes
  <2>1. 1 \in P(c)
    BY ProfilesAre
  <2> QED
    BY <2>1, NamesAProfile
<1> HIDE DEF t
<1>o. (\A claims : Welcome(M2!Ok(claims))) /\ Welcome(M2!NoAudio) /\ Welcome(M2!NoOutput)
  BY WelcomeAnswers DEF M2!NoAudio, M2!NoOutput, Strange
<1> QED
  BY <1>f, <1>n, <1>o DEF M2!media2_get_video_source_configurations,
     M2!media2_get_audio_source_configurations, M2!media2_get_audio_output_configurations

\* The methods of the other services.
LEMMA SourcesAreTaken ==
  ASSUME NEW c, NEW r, "VideoSourceToken" \in DOMAIN r.args, r.args["VideoSourceToken"] = <<"VideoSourceToken", "">>
  PROVE  /\ Welcome(M2!media2_get_video_source_modes(c, r))
         /\ Welcome(I!imaging_get_imaging_settings(c, r))
<1>1. Welcome(M2!media2_get_video_source_modes(c, r))
  BY WelcomeAnswers DEF M2!media2_get_video_source_modes, M2!Has, M2!Arg, M2!VideoSource, M2!Fixed
<1>2. I!KnowsSource(r)
  BY DEF I!KnowsSource, I!Has, I!Arg, I!VideoSource, I!Fixed
<1>3. Welcome(I!imaging_get_imaging_settings(c, r))
  BY <1>2, WelcomeAnswers DEF I!imaging_get_imaging_settings, I!ForSource
<1> QED
  BY <1>1, <1>3

LEMMA NodesAreTaken ==
  ASSUME NEW c, NEW r, "NodeToken" \in DOMAIN r.args, r.args["NodeToken"] = <<"PTZNodeToken", "">>
  PROVE  Welcome(ptz_get_node(c, r))
  BY WelcomeAnswers DEF ptz_get_node, Has, Arg, Node, Fixed

LEMMA RelaysAreTaken ==
  ASSUME NEW c, NEW r, NEW i \in DOMAIN c.relays, "RelayOutputToken" \in DOMAIN r.args,
         r.args["RelayOutputToken"] = <<"RelayOutputToken", i>>
  PROVE  Welcome(DIO!deviceio_set_relay_output_state(c, r).answer)
<1>1. i \in DIO!Relay(c, DIO!Arg(r, "RelayOutputToken"))
  BY DEF DIO!Relay, DIO!RelayToken, DIO!Arg
<1>2. DIO!Has(r, "RelayOutputToken")
  BY DEF DIO!Has
<1>3. /\ \A run, answer : DIO!Plan(run, answer).answer = answer
      /\ \A answer : DIO!Only(answer).answer = answer
      /\ Welcome(DIO!Undefined)
  BY DEF DIO!Plan, DIO!Only, DIO!Undefined, Welcome, Strange
<1> QED
  BY <1>1, <1>2, <1>3, PlanOfRelay, WelcomeAnswers

LEMMA PresetsAreTaken ==
  ASSUME NEW c, NEW r, NEW list, NEW preset \in list, "PresetToken" \in DOMAIN r.args,
         r.args["PresetToken"] = PresetToken(preset), "ProfileToken" \in DOMAIN r.args
  PROVE  Welcome(ptz_goto_preset(c, r, list).answer)
<1>1. preset \in Numbered(list, Arg(r, "PresetToken")) /\ IsPresetToken(Arg(r, "PresetToken"))
  BY DEF Numbered, Arg, IsPresetToken, PresetToken
<1>2. Has(r, "PresetToken") /\ Has(r, "ProfileToken")
  BY DEF Has
<1>3. \A name, with : Welcome(RunOne(c, name, with).answer)
  BY WelcomeAnswers DEF RunOne, ActionFailed, Plan, Only, Strange
<1>4. Welcome(Only(NoPTZProfile).answer)
  BY OnlyAnswers, WelcomeAnswers DEF NoPTZProfile, Strange
<1> QED
  BY <1>1, <1>2, <1>3, <1>4 DEF ptz_goto_preset, ForPreset, ForProfile

-----------------------------------------------------------------------------
(* The services that take them. *)

\* A name that goes with a kind on this device.
Known(c, kind, name) ==
  /\ kind \in {"Profile"} \union Suffixed => \E i \in P(c) : name = c.profiles[i].name
  /\ kind \in FixedKinds => name = ""
  /\ kind = "RelayOutputToken" => name \in DOMAIN c.relays
  /\ kind # "PresetToken"
Brief(c) == \A i \in P(c) : Len(c.profiles[i].name) <= 9
Nine(c) == \A i \in P(c) : Len(c.profiles[i].name) = 9

LEMMA NineIsBrief == \A c : Nine(c) => Brief(c)
<1>1. \A n : n = 9 => n <= 9
  OBVIOUS
<1> QED
  BY <1>1 DEF Nine, Brief

LEMMA MediaTakes ==
  ASSUME NEW c, OneOrTwo(c), Brief(c), NEW kind, NEW name, Known(c, kind, name),
         NEW taker \in Takers(kind), taker[1] = "media_service", NEW r, Uses(c, r, taker, <<kind, name>>)
  PROVE  Welcome(media_service(c, r))
<1>u. /\ r.method = taker[2] /\ taker[3] \in DOMAIN r.args
      /\ r.args[taker[3]] = <<kind, name>>
  BY DEF Uses
<1>k. kind \in {"Profile", "RelayOutputToken", "PresetToken"} \union Suffixed \union FixedKinds
  BY KindsOfTakers
<1>1. CASE kind = "Profile"
  <2>1. PICK i \in P(c) : name = c.profiles[i].name
    BY <1>1 DEF Known
  <2>2. /\ taker[3] = "ProfileToken"
        /\ taker[2] \in {"GetProfile", "GetSnapshotUri", "GetStreamUri", "GetVideoSourceConfigurationOptions",
                         "GetCompatibleVideoEncoderConfigurations", "GetCompatibleAudioEncoderConfigurations",
                         "GetCompatibleAudioDecoderConfigurations", "GetAudioSourceConfigurationOptions"}
    BY <1>1, TakersOfProfiles
  <2>3. /\ Len(c.profiles[i].name) <= 9 /\ "ProfileToken" \in DOMAIN r.args
        /\ r.args["ProfileToken"] = <<"Profile", c.profiles[i].name>>
    BY <1>1, <1>u, <2>1, <2>2 DEF Brief
  <2> QED
    BY <1>u, <2>2, <2>3, MediaTakesProfiles DEF media_service
<1>2. CASE kind \in Suffixed
  <2>1. PICK i \in P(c) : name = c.profiles[i].name
    BY <1>2 DEF Known
  <2>2. /\ taker[3] = "ConfigurationToken"
        /\ kind = "VideoEncoderToken" => taker[2] = "GetVideoEncoderConfiguration"
        /\ kind = "AudioEncoderToken" => taker[2] = "GetAudioEncoderConfiguration"
        /\ kind = "AudioDecoderToken" => taker[2] = "GetAudioDecoderConfiguration"
    BY <1>2, TakersOfParts DEF Suffixed
  <2>3. "ConfigurationToken" \in DOMAIN r.args /\ r.args["ConfigurationToken"] = <<kind, c.profiles[i].name>>
    BY <1>u, <2>1, <2>2
  <2> QED
    BY <1>u, <1>2, <2>2, <2>3, MediaTakesParts DEF media_service, Suffixed
<1>3. CASE kind \in FixedKinds
  <2>1. name = ""
    BY <1>3 DEF Known
  <2>2. /\ taker[3] = "ConfigurationToken"
        /\ \/ kind = "VideoSourceConfigToken" /\ taker[2] = "GetVideoSourceConfiguration"
           \/ kind = "AudioSourceConfigToken" /\ taker[2] = "GetAudioSourceConfiguration"
    BY <1>3, TakersOfFixed DEF FixedKinds
  <2>3. "ConfigurationToken" \in DOMAIN r.args /\ r.args["ConfigurationToken"] = <<kind, "">>
    BY <1>u, <2>1, <2>2
  <2> QED
    BY <1>u, <2>2, <2>3, MediaTakesWords DEF media_service
<1>4. kind \notin {"RelayOutputToken", "PresetToken"}
  BY TakersOfOthers
<1> QED
  BY <1>k, <1>1, <1>2, <1>3, <1>4

LEMMA Media2Takes ==
  ASSUME NEW c, OneOrTwo(c), Nine(c), NEW kind, NEW name, Known(c, kind, name),
         NEW taker \in Takers(kind), taker[1] = "media2_service", NEW r, Uses(c, r, taker, <<kind, name>>)
  PROVE  Welcome(media2_service(c, r))
<1>u. /\ r.method = taker[2] /\ taker[3] \in DOMAIN r.args
      /\ r.args[taker[3]] = <<kind, name>>
      /\ DOMAIN r.args = {taker[3], "LogicalState", "ProfileToken"}
  BY DEF Uses
<1>k. kind \in {"Profile", "RelayOutputToken", "PresetToken"} \union Suffixed \union FixedKinds
  BY KindsOfTakers
<1>1. CASE kind = "Profile"
  <2>1. PICK i \in P(c) : name = c.profiles[i].name
    BY <1>1 DEF Known
  <2>2. CASE taker[3] = "ProfileToken"
    <3>1. taker[2] \in {"GetVideoSourceConfigurations", "GetVideoEncoderConfigurations",
                        "GetAudioEncoderConfigurations", "GetSnapshotUri", "GetStreamUri"}
      BY <1>1, <2>2, TakersOfProfiles
    <3>2. /\ Len(c.profiles[i].name) <= 9 /\ "ConfigurationToken" \notin DOMAIN r.args
          /\ "ProfileToken" \in DOMAIN r.args /\ r.args["ProfileToken"] = <<"Profile", c.profiles[i].name>>
      BY <1>1, <1>u, <2>1, <2>2, NineIsBrief DEF Brief
    <3> QED
      BY <1>u, <3>1, <3>2, Media2TakesProfiles DEF media2_service
  <2>3. CASE taker[3] = "Token"
    <3>1. taker[2] = "GetProfiles"
      BY <1>1, <2>3, TakersOfProfiles
    <3> QED
      BY <1>1, <1>u, <2>1, <2>3, <3>1, Media2TakesNames DEF media2_service
  <2> QED
    BY <1>1, <2>2, <2>3, TakersOfProfiles
<1>2. CASE kind \in Suffixed
  <2>1. PICK i \in P(c) : name = c.profiles[i].name
    BY <1>2 DEF Known
  <2>2. /\ taker[3] = "ConfigurationToken"
        /\ taker[2] \in {"GetVideoEncoderConfigurations", "GetVideoEncoderConfigurationOptions",
                         "GetAudioEncoderConfigurations", "GetAudioDecoderConfigurations"}
    BY <1>2, TakersOfParts DEF Suffixed
  <2>3. /\ "ConfigurationToken" \in DOMAIN r.args /\ r.args["ConfigurationToken"] = <<kind, c.profiles[i].name>>
        /\ Len(c.profiles[i].name) = 9
    BY <1>u, <2>1, <2>2 DEF Nine
  <2> QED
    BY <1>u, <1>2, <2>2, <2>3, Media2TakesParts DEF media2_service
<1>3. CASE kind \in FixedKinds /\ kind # "VideoSourceToken"
  <2>1. /\ taker[3] = "ConfigurationToken"
        /\ taker[2] \in {"GetVideoSourceConfigurations", "GetAudioSourceConfigurations",
                         "GetAudioOutputConfigurations"}
    BY <1>3, TakersOfFixed DEF FixedKinds
  <2>2. "ProfileToken" \in DOMAIN r.args /\ r.args["ProfileToken"] = Name(c, 1)
    BY <2>1 DEF Uses
  <2>3. Len(c.profiles[1].name) <= 9
    BY ProfilesAre, NineIsBrief DEF Brief
  <2> QED
    BY <1>u, <2>1, <2>2, <2>3, Media2TakesWords DEF media2_service
<1>4. CASE kind = "VideoSourceToken"
  <2>1. taker[2] = "GetVideoSourceModes" /\ taker[3] = "VideoSourceToken"
    BY <1>4, TakersOfFixed
  <2>2. r.args["VideoSourceToken"] = <<"VideoSourceToken", "">>
    BY <1>4, <1>u, <2>1 DEF Known, FixedKinds
  <2> QED
    BY <1>u, <2>1, <2>2, SourcesAreTaken DEF media2_service
<1>5. kind \notin {"RelayOutputToken", "PresetToken"}
  BY TakersOfOthers
<1> QED
  BY <1>k, <1>1, <1>2, <1>3, <1>4, <1>5

LEMMA OthersTake ==
  ASSUME NEW c, NEW kind, NEW name, Known(c, kind, name), NEW taker \in Takers(kind), NEW w,
         taker[1] \notin {"media_service", "media2_service"}, NEW r, Uses(c, r, taker, <<kind, name>>)
  PROVE  Welcome(Service(c, r, w).answer)
<1>u. /\ r.service = taker[1] /\ r.method = taker[2] /\ taker[3] \in DOMAIN r.args
      /\ r.args[taker[3]] = <<kind, name>>
  BY DEF Uses
<1>k. kind \in {"VideoSourceToken", "PTZNodeToken", "RelayOutputToken"}
  <2>1. kind \in {"Profile", "RelayOutputToken", "PresetToken"} \union Suffixed \union FixedKinds
    BY KindsOfTakers
  <2>2. kind \notin {"Profile"} \union Suffixed
    BY TakersOfProfiles, TakersOfParts DEF Suffixed
  <2>3. kind \notin {"VideoSourceConfigToken", "AudioSourceConfigToken", "AudioOutputConfigToken"}
    BY TakersOfFixed
  <2>4. kind # "PresetToken"
    BY DEF Known
  <2> QED
    BY <2>1, <2>2, <2>3, <2>4 DEF FixedKinds
<1>1. CASE kind = "VideoSourceToken"
  <2>1. r.service = "imaging_service" /\ r.method = "GetImagingSettings" /\ taker[3] = "VideoSourceToken"
    BY <1>1, <1>u, TakersOfFixed
  <2>2. r.args["VideoSourceToken"] = <<"VideoSourceToken", "">>
    BY <1>1, <1>u, <2>1 DEF Known, FixedKinds
  <2>3. Welcome(I!imaging_get_imaging_settings(c, r))
    BY <1>u, <2>1, <2>2, SourcesAreTaken
  <2>4. Welcome(ActionNotSupported)
    BY WelcomeAnswers DEF ActionNotSupported, Strange
  <2>5. Welcome(imaging_service(c, r).answer)
    BY <2>1, <2>3, <2>4, OnlyAnswers DEF imaging_service
  <2> QED
    BY <2>1, <2>5 DEF Service
<1>2. CASE kind = "PTZNodeToken"
  <2>1. r.service = "ptz_service" /\ r.method = "GetNode" /\ taker[3] = "NodeToken"
    BY <1>2, <1>u, TakersOfFixed
  <2>2. r.args["NodeToken"] = <<"PTZNodeToken", "">>
    BY <1>2, <1>u, <2>1 DEF Known, FixedKinds
  <2>3. Welcome(ptz_get_node(c, r))
    BY <1>u, <2>1, <2>2, NodesAreTaken
  <2>4. Welcome(ptz_service(c, r, w).answer)
    BY <2>1, <2>3, OnlyAnswers DEF ptz_service
  <2> QED
    BY <2>1, <2>4 DEF Service
<1>3. CASE kind = "RelayOutputToken"
  <2>1. r.service = "deviceio_service" /\ r.method = "SetRelayOutputState" /\ taker[3] = "RelayOutputToken"
    BY <1>3, <1>u, TakersOfOthers
  <2>2. r.args["RelayOutputToken"] = <<"RelayOutputToken", name>> /\ name \in DOMAIN c.relays
    BY <1>3, <1>u, <2>1 DEF Known
  <2>3. Welcome(DIO!deviceio_set_relay_output_state(c, r).answer)
    BY <1>u, <2>1, <2>2, RelaysAreTaken
  <2>4. deviceio_service(c, r) = DIO!deviceio_set_relay_output_state(c, r)
    BY <2>1 DEF deviceio_service
  <2> QED
    BY <2>1, <2>3, <2>4 DEF Service
<1> QED
  BY <1>k, <1>1, <1>2, <1>3

\* The dispatcher denies nothing by itself.
LEMMA DispatchWelcomes ==
  ASSUME NEW c, NEW r, NEW w, Welcome(Service(c, r, w).answer)
  PROVE  Welcome(Dispatch(c, r, w).answer)
<1>1. \/ Dispatch(c, r, w) = Service(c, r, w)
      \/ Dispatch(c, r, w) \in {Only(NoAnswer), Only(Undefined), Only(Fault("MaxNVTProfiles")),
                                Only(AuthenticationError)}
  BY DEF Dispatch
<1>2. Welcome(NoAnswer) /\ Welcome(Undefined) /\ Welcome(Fault("MaxNVTProfiles")) /\ Welcome(AuthenticationError)
  BY WelcomeAnswers DEF AuthenticationError, Strange
<1> QED
  BY <1>1, <1>2, OnlyAnswers

\* A token of this device is known wherever tokens of its kind are taken.
LEMMA KnownIsTaken ==
  ASSUME NEW c, OneOrTwo(c), Brief(c), c.media2 = 1 => Nine(c), NEW kind, NEW name, Known(c, kind, name),
         NEW taker \in Takers(kind), NEW r, Uses(c, r, taker, <<kind, name>>), NEW w
  PROVE  Welcome(Dispatch(c, r, w).answer)
<1>u. r.service = taker[1]
  BY DEF Uses
<1>1. CASE taker[1] = "media_service"
  <2>1. Welcome(media_service(c, r))
    BY <1>1, MediaTakes
  <2>2. Service(c, r, w) = Only(media_service(c, r))
    BY <1>u, <1>1 DEF Service
  <2> QED
    BY <2>1, <2>2, OnlyAnswers, DispatchWelcomes
<1>2. CASE taker[1] = "media2_service" /\ c.media2 = 1
  <2>1. Welcome(media2_service(c, r))
    BY <1>2, Media2Takes
  <2>2. Service(c, r, w) = Only(media2_service(c, r))
    BY <1>u, <1>2 DEF Service
  <2> QED
    BY <2>1, <2>2, OnlyAnswers, DispatchWelcomes
<1>3. CASE taker[1] = "media2_service" /\ c.media2 # 1
  <2>1. Service(c, r, w) = Only(NoAnswer)
    BY <1>u, <1>3 DEF Service
  <2> QED
    BY <2>1, OnlyAnswers, WelcomeAnswers, DispatchWelcomes
<1>4. CASE taker[1] \notin {"media_service", "media2_service"}
  BY <1>4, OthersTake, DispatchWelcomes
<1> QED
  BY <1>1, <1>2, <1>3, <1>4

\* A preset that is still there can be gone to.
LEMMA PresetIsTaken ==
  ASSUME NEW c, NEW w, NEW preset \in init_presets(c, w.list), NEW taker \in Takers("PresetToken"),
         NEW r, Uses(c, r, taker, PresetToken(preset))
  PROVE  Welcome(Dispatch(c, r, w).answer)
<1>1. /\ r.service = "ptz_service" /\ r.method = "GotoPreset"
      /\ DOMAIN r.args = {"PresetToken", "LogicalState", "ProfileToken"}
      /\ r.args["PresetToken"] = PresetToken(preset)
  BY TakersOfOthers DEF Uses
<1>2. Welcome(ptz_goto_preset(c, r, init_presets(c, w.list)).answer)
  BY <1>1, PresetsAreTaken
<1>3. Service(c, r, w) = ptz_goto_preset(c, r, init_presets(c, w.list))
  BY <1>1 DEF Service, ptz_service
<1> QED
  BY <1>2, <1>3, DispatchWelcomes

\* What is true of the device is known to it: Media2 writes the names that the
\* profiles have.
LEMMA TrueIsKnown ==
  ASSUME NEW c, OneOrTwo(c), NEW r, r.service = "media2_service" => c.media2 = 1, NEW claim,
         c.media2 = 1 => \A i \in P(c) : c.profiles[i].name = <<"Profile_0", "Profile_1">>[i],
         IsTrue(c, r, claim), claim[1] # "PresetToken"
  PROVE  Known(c, claim[1], claim[2])
<1>1. \A i \in P(c) : Written(c, r, i) = c.profiles[i].name
  BY DEF Written, M2!WrittenName
<1>2. claim[1] \in {"Profile"} \union Suffixed => \E i \in P(c) : claim[2] = c.profiles[i].name
  BY <1>1 DEF IsTrue, Suffixed
<1>3. /\ claim[1] \in FixedKinds => claim[2] = ""
      /\ claim[1] = "RelayOutputToken" => claim[2] \in DOMAIN c.relays
  BY DEF IsTrue
<1> QED
  BY <1>2, <1>3 DEF Known

LEMMA UsualIsNine ==
  ASSUME NEW c, OneOrTwo(c), \A i \in P(c) : c.profiles[i].name = <<"Profile_0", "Profile_1">>[i]
  PROVE  Nine(c)
<1>1. \A i \in P(c) : c.profiles[i].name \in {"Profile_0", "Profile_1"}
  BY ProfilesAre
<1> QED
  BY <1>1, LettersAssumption DEF Nine

-----------------------------------------------------------------------------
(* What the last answer lists. *)

\* The same client asks, of a service that there is.
LEMMA FollowUpIsLetThrough ==
  ASSUME Regular, LetThrough(last.req), NEW kind, NEW taker \in Takers(kind), NEW token
  PROVE  /\ FollowUp(taker, token).service \in Services
         /\ LetThrough(FollowUp(taker, token))
         /\ Uses(conf, FollowUp(taker, token), taker, token)
<1> DEFINE r == FollowUp(taker, token)
<1>1. Uses(conf, r, taker, token) /\ r.header = last.req.header /\ r.short = last.req.short
  BY FollowsUp DEF Regular
<1>2. taker[1] \in Services
  <2>1. kind \in {"Profile", "RelayOutputToken", "PresetToken"} \union Suffixed \union FixedKinds
    BY KindsOfTakers
  <2> QED
    BY <2>1, TakersOfProfiles, TakersOfParts, TakersOfFixed, TakersOfOthers DEF Services, Suffixed, FixedKinds
<1> HIDE DEF r
<1>3. r.service \in Services
  BY <1>1, <1>2 DEF Uses
<1>4. LetThrough(r)
  BY <1>1 DEF LetThrough, HasNoPassword, Complete
<1> QED
  BY <1>1, <1>3, <1>4 DEF r

LEMMA TokensAreAccepted == Honest => ListedTokensAreAccepted
<1> SUFFICES ASSUME Honest, last.answer.kind = "ok", ShortNames, conf.media2 = 1 => UsualNames,
                    NEW claim \in last.answer.claims, claim[1] = "PresetToken" => Orderly,
                    NEW taker \in Takers(claim[1])
             PROVE  LET r == FollowUp(taker, <<claim[1], claim[2]>>)
                        answer == Dispatch(conf, r, World(store, "", FALSE, FALSE)).answer
                    IN /\ answer.kind \in {"ok", "fault"} \/ Unwritten(conf, r) \/ IsOff(conf, r)
                       /\ answer.code \notin Strange
  BY DEF ListedTokensAreAccepted
<1> DEFINE token == <<claim[1], claim[2]>>
           r == FollowUp(taker, token)
           w == World(store, "", FALSE, FALSE)
<1>1. LetThrough(last.req) /\ OneOrTwo(conf)
  BY DEF Honest, Heard, Regular, LetThrough
<1>2. r.service \in Services /\ LetThrough(r) /\ Uses(conf, r, taker, token)
  BY <1>1, FollowUpIsLetThrough DEF Honest
<1>3. w.list = store
  BY DEF World
<1>u. r.service # "device_service"
  <2>1. taker[1] # "device_service"
    BY DEF Takers
  <2> QED
    BY <1>2, <2>1 DEF Uses
<1> HIDE DEF r, w
<1>4. Answers(Dispatch(conf, r, w).answer) \/ Unwritten(conf, r) \/ IsOff(conf, r)
  BY <1>2, <1>u, AnswersOfRequest DEF LetThrough, Unlisted
<1>5. ASSUME claim[1] = "PresetToken" PROVE Welcome(Dispatch(conf, r, w).answer)
  <2>1. PICK preset \in store : preset[1] = claim[2]
    BY <1>5 DEF Honest, PresetsLast
  <2>2. preset \in init_presets(conf, w.list)
    BY <1>3, <1>5 DEF init_presets, Orderly
  <2>3. token = PresetToken(preset)
    BY <1>5, <2>1 DEF PresetToken
  <2> QED
    BY <1>2, <1>5, <2>2, <2>3, PresetIsTaken
<1>6. ASSUME claim[1] # "PresetToken" PROVE Welcome(Dispatch(conf, r, w).answer)
  <2>1. conf.media2 = 1 => \A i \in P(conf) : conf.profiles[i].name = <<"Profile_0", "Profile_1">>[i]
    BY DEF UsualNames
  <2>2. IsTrue(conf, last.req, claim) /\ (last.req.service = "media2_service" => conf.media2 = 1)
    BY DEF Honest, Truthful, Regular
  <2>3. Known(conf, claim[1], claim[2])
    BY <1>1, <1>6, <2>1, <2>2, TrueIsKnown
  <2>4. Brief(conf) /\ (conf.media2 = 1 => Nine(conf))
    BY <1>1, <2>1, UsualIsNine DEF Brief, ShortNames
  <2> QED
    BY <1>1, <1>2, <2>3, <2>4, KnownIsTaken
<1> QED
  BY <1>4, <1>5, <1>6 DEF Answers, Welcome, r, w

\* A client that knows the credentials passes.
LEMMA AuthenticPasses ==
  ASSUME NEW r, conf.user = Null \/ Authentic(r)
  PROVE  auth_error(conf, r) = 0
  BY DEF auth_error, Authentic, TokenElements

\* Every service that is on has capabilities.
LEMMA CapabilitiesOfServices ==
  ASSUME NEW c, NEW r, NEW w, r.method = "GetServiceCapabilities", r.service \in Services,
         r.service = "imaging_service" => c.imaging # 0, r.service = "media2_service" => c.media2 = 1
  PROVE  Service(c, r, w).answer.kind = "ok"
<1>k. /\ \A claims : /\ Ok(claims).kind = "ok" /\ D!Ok(claims).kind = "ok" /\ M!Ok(claims).kind = "ok"
                     /\ M2!Ok(claims).kind = "ok" /\ DIO!Ok(claims).kind = "ok" /\ I!Ok(claims).kind = "ok"
  BY DEF Ok, D!Ok, M!Ok, M2!Ok, DIO!Ok, I!Ok
<1>1. device_service(c, r) = Only(D!device_get_service_capabilities(c, r))
  BY DEF device_service
<1>2. media_service(c, r) = M!media_get_service_capabilities(c, r)
  BY DEF media_service
<1>3. media2_service(c, r) = M2!media2_get_service_capabilities(c, r)
  BY DEF media2_service
<1>4. ptz_service(c, r, w) = Only(ptz_get_service_capabilities(c, r))
  BY DEF ptz_service
<1>5. events_service(c, r) = Only(Ok(D!EventKinds(c)))
  BY DEF events_service
<1>6. deviceio_service(c, r) = Only(DIO!deviceio_get_service_capabilities(c, r))
  BY DEF deviceio_service
<1>7. c.imaging # 0 => imaging_service(c, r) = Only(I!imaging_get_service_capabilities(c, r))
  BY DEF imaging_service
<1>8. /\ D!device_get_service_capabilities(c, r).kind = "ok" /\ M!media_get_service_capabilities(c, r).kind = "ok"
      /\ M2!media2_get_service_capabilities(c, r).kind = "ok" /\ ptz_get_service_capabilities(c, r).kind = "ok"
      /\ DIO!deviceio_get_service_capabilities(c, r).kind = "ok"
      /\ I!imaging_get_service_capabilities(c, r).kind = "ok"
  BY <1>k DEF D!device_get_service_capabilities, M!media_get_service_capabilities,
     M2!media2_get_service_capabilities, ptz_get_service_capabilities, DIO!deviceio_get_service_capabilities,
     I!imaging_get_service_capabilities
<1> QED
  BY <1>k, <1>1, <1>2, <1>3, <1>4, <1>5, <1>6, <1>7, <1>8, OnlyAnswers DEF Service, Services

LEMMA ServicesAnswer == Honest => ListedServicesAnswer
<1> SUFFICES ASSUME Honest, NEW claim \in last.answer.claims, claim[1] = "Service"
             PROVE  LET r == [last.req EXCEPT !.service = claim[2], !.method = "GetServiceCapabilities"]
                    IN conf.user = Null \/ Authentic(r) =>
                         Dispatch(conf, r, World(store, "", FALSE, FALSE)).answer.kind = "ok"
  BY DEF ListedServicesAnswer
<1> DEFINE r == [last.req EXCEPT !.service = claim[2], !.method = "GetServiceCapabilities"]
           w == World(store, "", FALSE, FALSE)
<1>1. LetThrough(last.req)
  BY DEF Honest, Heard
<1>2. /\ r.service = claim[2] /\ r.method = "GetServiceCapabilities"
      /\ r.header = last.req.header /\ r.short = last.req.short
  BY DEF Honest, Regular, NoRequest
<1> HIDE DEF r, w
<1>3. LetThrough(r)
  BY <1>1, <1>2 DEF LetThrough, HasNoPassword, Complete
<1>4. /\ claim[2] \in Services /\ (claim[2] = "imaging_service" => conf.imaging # 0)
      /\ (claim[2] = "media2_service" => conf.media2 = 1)
  BY DEF Honest, Truthful, IsTrue
<1>5. Service(conf, r, w).answer.kind = "ok"
  BY <1>2, <1>4, CapabilitiesOfServices
<1>6. ASSUME conf.user = Null \/ Authentic(r) PROVE Dispatch(conf, r, w).answer.kind = "ok"
  <2>1. auth_error(conf, r) = 0
    BY <1>6, AuthenticPasses
  <2>2. Dispatch(conf, r, w) = Service(conf, r, w)
    BY <1>3, <2>1 DEF Dispatch, LetThrough
  <2> QED
    BY <1>5, <2>2
<1> QED
  BY <1>6 DEF r, w

\* What a client is told of it can use: no method denies a token that another
\* one listed, over both versions of Media, PTZ, Imaging and DeviceIO, nor a
\* preset that no one else may have removed; and each listed service has
\* capabilities, whatever the file enables.
THEOREM ListedWorks == Spec => []ListedIsUsable
<1>1. Honest => ListedIsUsable
  BY TokensAreAccepted, ServicesAnswer DEF ListedIsUsable
<1> QED
  BY InitHonest, StepHonest, <1>1, PTL DEF Spec

================================================================================
