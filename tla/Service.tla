-------------------------------- MODULE Service --------------------------------
(***************************************************************************)
(* What the handlers of the CGI server share: the configuration they read  *)
(* (service_ctx), requests, answers, and tokens.                           *)
(*                                                                         *)
(* A token is <<kind, name>>: a word that is part of every device, with an *)
(* empty name, or the name of a profile with a suffix that tells the kind. *)
(* The kind "Profile" is the bare name. Case is not modelled: the code     *)
(* compares tokens with strcasecmp.                                        *)
(*                                                                         *)
(* An answer carries the claims it makes about the entities it lists:      *)
(* <<kind, name, value>> where <<kind, name>> is the token of the entity   *)
(* and value is what a client configures itself from (an encoding).        *)
(***************************************************************************)
EXTENDS Integers, Sequences, FiniteSets, TLC

\* A string that may be NULL is a sequence of at most one string.
Null == <<>>

Codecs == {"NONE", "G711", "G726", "AAC"}
Encodings == {"JPEG", "MPEG4", "H264", "H265"}

Profiles == [name : STRING, video : Encodings, audio : Codecs, decoder : Codecs,
             url : BOOLEAN, snapurl : BOOLEAN]

-----------------------------------------------------------------------------
(* Answers. *)

Ok(claims) == [kind |-> "ok", code |-> "", claims |-> claims]
Fault(code) == [kind |-> "fault", code |-> code, claims |-> {}]

\* The process ends without having written anything.
NoAnswer == [kind |-> "none", code |-> "", claims |-> {}]

\* The handler reads what it never wrote or does not own: anything may be
\* answered, or nothing. No property accepts this answer.
Undefined == [kind |-> "undefined", code |-> "", claims |-> {}]

\* send_action_failed_fault, send_action_not_supported_fault,
\* send_authentication_error, send_empty_response.
ActionFailed == Fault("ActionFailed")
ActionNotSupported == Fault("NotSupported")
AuthenticationError == Fault("AuthenticationError")
Empty == Ok({})

\* What a handler that acts on the device does: the commands it runs in order,
\* and its answer when none of them fails. The first one that fails ends the
\* handler with ActionFailed.
Plan(commands, answer) == [run |-> commands, answer |-> answer]
Only(answer) == Plan(<<>>, answer)
Command(name, with) == [name |-> name, with |-> with]

-----------------------------------------------------------------------------
(* Requests and tokens. *)

\* get_element(name, "Body") # NULL, and its text.
Has(r, element) == element \in DOMAIN r.args
Arg(r, element) == r.args[element]

Fixed(kind) == <<kind, "">>
VideoSource == Fixed("VideoSourceToken")
VideoSourceConfig == Fixed("VideoSourceConfigToken")
AudioSourceConfig == Fixed("AudioSourceConfigToken")
AudioOutputConfig == Fixed("AudioOutputConfigToken")
OtherToken == <<"Other", "">>

\* Tokens made of the name of a profile and a suffix.
Suffixed == {"VideoEncoderToken", "AudioEncoderToken", "AudioDecoderToken"}

\* Mutant: the suffix is not cut off.
Mutant_Cut9(t) == IF t[1] = "Profile" /\ Len(t[2]) <= 9 THEN t ELSE OtherToken

\* strncpy(token, t, 9), which extracts "Profile_x": a name of nine letters is
\* left, a shorter one only when nothing follows it.
Cut9(t) ==
  IF \/ t[1] = "Profile" /\ Len(t[2]) <= 9
     \/ t[1] \in Suffixed /\ Len(t[2]) = 9
  THEN <<"Profile", t[2]>> ELSE OtherToken

\* strncpy(token, t, 22): the tokens it is compared with have 22 letters or
\* are names of profiles, so only the suffixed ones are changed.
Cut22(t) == IF t[1] \in Suffixed THEN OtherToken ELSE t

-----------------------------------------------------------------------------
(* The configuration. *)

Name(c, i) == <<"Profile", c.profiles[i].name>>
P(c) == DOMAIN c.profiles
Alone(c) == Len(c.profiles) = 1
Audible(c) == {i \in P(c) : c.profiles[i].audio # "NONE"}
Decoding(c) == {i \in P(c) : c.profiles[i].decoder # "NONE"}

\* The profiles whose token of this kind is t.
Owners(c, kind, t) == {i \in P(c) : <<kind, c.profiles[i].name>> = t}

\* The profiles named by an element of the request, none when it is missing.
Asked(c, r, kind, element) ==
  IF Has(r, element) THEN Owners(c, kind, Arg(r, element)) ELSE {}

\* set_video_codec and set_audio_codec: ver is the version of the media service.
VideoCodec(codec, ver) == IF codec = "H265" /\ ver = 1 THEN "H264" ELSE codec
AudioCodec(codec, ver) ==
  CASE ver = 2 /\ codec = "G711" -> "PCMU"
    [] ver = 2 /\ codec = "AAC" -> "MPEG4-GENERIC"
    [] OTHER -> codec

\* Claims about the entities of profile i, called n in the answer.
VideoClaim(c, i, n, ver) ==
  <<"VideoEncoderToken", n, VideoCodec(c.profiles[i].video, ver)>>
AudioClaim(c, i, n, ver) ==
  <<"AudioEncoderToken", n, AudioCodec(c.profiles[i].audio, ver)>>
DecoderClaim(n) == <<"AudioDecoderToken", n, "">>
Listed(token) == <<token[1], token[2], "">>

\* strcasecmp(profiles[0].name, t) == 0 || strcasecmp(profiles[1].name, t) == 0 ||
\* strcasecmp(word, t) == 0, where nothing says that there is a profiles[1].
NamesEither(c, t, word, yes, no) ==
  CASE t = Name(c, 1) -> yes
    [] t # Name(c, 1) /\ Alone(c) -> Undefined
    [] t # Name(c, 1) /\ ~Alone(c) -> IF t \in {Name(c, 2), word} THEN yes ELSE no

\* The token a request is about: the profile first, then the configuration,
\* then the first profile.
ProfileFirst(c, r) ==
  IF Has(r, "ProfileToken") THEN Cut9(Arg(r, "ProfileToken"))
  ELSE IF Has(r, "ConfigurationToken") THEN Cut22(Arg(r, "ConfigurationToken"))
  ELSE Cut9(Name(c, 1))

\* set_*_source_configuration: a known configuration is not changed either.
SetFixed(r, token) ==
  IF Has(r, "Configuration") /\ Arg(r, "Configuration") = token
  THEN Fault("ConfigModify") ELSE Fault("NoConfig")
===============================================================================
