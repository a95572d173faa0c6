-------------------------------- MODULE Imaging --------------------------------
(***************************************************************************)
(* The Imaging service. The settings of a request are its elements; the    *)
(* commands of the configuration receive them as environment variables.    *)
(* c.commands is the set of the commands that are configured.              *)
(***************************************************************************)
EXTENDS Service

NoSource == Fault("NoSource")

\* check_video_source_token
KnowsSource(r) == Has(r, "VideoSourceToken") /\ Arg(r, "VideoSourceToken") = VideoSource

has_focus(c) == "imaging_focus_command" \in c.commands

\* parse_unit_range accepts 0 to 1 and parse_speed -1 to 1; anything else,
\* what is not a number too, is rejected.
UnitRange == {"0", "0.5", "1"}
Speeds == UnitRange \union {"-1"}

ForSource(c, r, answer) == IF KnowsSource(r) THEN answer ELSE NoSource

imaging_get_service_capabilities(c, r) == Ok({})
imaging_get_imaging_settings(c, r) ==
  ForSource(c, r, Ok(IF has_focus(c) THEN {Listed(Fixed("AutoFocusMode"))} ELSE {}))
imaging_get_options(c, r) ==
  ForSource(c, r, Ok(IF has_focus(c) THEN {Listed(Fixed("AutoFocusModes"))} ELSE {}))
imaging_get_move_options(c, r) ==
  ForSource(c, r, Ok(IF has_focus(c) THEN {Listed(Fixed("Continuous"))} ELSE {}))

\* read_focus_status leaves UNKNOWN when its command fails or prints something
\* else, so the status is answered whatever the command does.
imaging_get_status(c, r) ==
  ForSource(c, r, Ok(IF has_focus(c) THEN {Listed(Fixed("FocusStatus20"))} ELSE {}))

-----------------------------------------------------------------------------
(* Settings. *)

\* What each setting may be; the Mode of WhiteBalance, Exposure and
\* WideDynamicRange is looked up inside its own element.
Allowed ==
  [Brightness |-> UnitRange, Contrast |-> UnitRange, ColorSaturation |-> UnitRange,
   Sharpness |-> UnitRange, IrCutFilter |-> {"ON", "OFF"}, WhiteBalance |-> {"AUTO", "MANUAL"},
   Exposure |-> {"AUTO", "MANUAL"}, WideDynamicRange |-> {"ON", "OFF"},
   AutoFocusMode |-> {"AUTO", "MANUAL"}]

\* The settings of the request, all of which are looked at before any is applied.
Given(r) == {<<s, Arg(r, s)>> : s \in {s \in DOMAIN Allowed : Has(r, s)}}
Valid(r) == \A g \in Given(r) : g[2] \in Allowed[g[1]]

\* Mutant: the settings that are valid are applied before the others are found
\* not to be.
Mutant_imaging_set_imaging_settings(c, r) ==
  IF "imaging_set_command" \notin c.commands THEN Only(ActionNotSupported)
  ELSE IF ~KnowsSource(r) THEN Only(NoSource)
  ELSE Plan(<<Command("imaging_set_command", {g \in Given(r) : g[2] \in Allowed[g[1]]})>>,
            IF Valid(r) THEN Empty ELSE Fault("SettingsInvalid"))

\* Variables of settings the request does not have are unset.
imaging_set_imaging_settings(c, r) ==
  CASE "imaging_set_command" \notin c.commands -> Only(ActionNotSupported)
    [] "imaging_set_command" \in c.commands /\ ~KnowsSource(r) -> Only(NoSource)
    [] OTHER -> IF Has(r, "ImagingSettings") /\ Valid(r)
                THEN Plan(<<Command("imaging_set_command", Given(r))>>, Empty)
                ELSE Only(Fault("SettingsInvalid"))

-----------------------------------------------------------------------------
(* Focus. *)

run_focus(speed) == <<Command("imaging_focus_command", {<<"ONVIF_IMAGING_FOCUS_SPEED", speed>>})>>

imaging_move(c, r) ==
  CASE ~has_focus(c) -> Only(ActionNotSupported)
    [] has_focus(c) /\ ~KnowsSource(r) -> Only(NoSource)
    [] OTHER -> IF Has(r, "Speed") /\ Arg(r, "Speed") \in Speeds
                THEN Plan(run_focus(Arg(r, "Speed")), Empty)
                ELSE Only(Fault("InvalidFocus"))

\* Without focus there is nothing to stop, and the token is not looked at.
imaging_stop(c, r) ==
  CASE ~has_focus(c) -> Only(Empty)
    [] has_focus(c) /\ ~KnowsSource(r) -> Only(NoSource)
    [] OTHER -> Plan(run_focus("0"), Empty)
================================================================================
