------------------------------- MODULE DeviceIO --------------------------------
(***************************************************************************)
(* The DeviceIO service: audio and video equipment and the relays. Relays  *)
(* are called by the digit their token ends with; c.relays gives for each  *)
(* the state it is idle in and the commands that close and open it, which  *)
(* may be NULL or blank.                                                   *)
(***************************************************************************)
EXTENDS Service

RelayToken(i) == <<"RelayOutputToken", i>>
NoRelay == Fault("RelayToken")

\* The relay whose token is t, if there is one.
Relay(c, t) == {i \in DOMAIN c.relays : RelayToken(i) = t}

deviceio_get_video_sources(c, r) == Ok({Listed(VideoSource)})

deviceio_get_service_capabilities(c, r) ==
  Ok({<<"AudioSources", "", IF Audible(c) = {} THEN "0" ELSE "1">>,
      <<"AudioOutputs", "", IF Decoding(c) = {} THEN "0" ELSE "1">>,
      <<"RelayOutputs", "", ToString(Cardinality(DOMAIN c.relays))>>})

deviceio_get_audio_outputs(c, r) ==
  Ok(IF Decoding(c) = {} THEN {} ELSE {Listed(Fixed("AudioOutputToken"))})

deviceio_get_audio_sources(c, r) ==
  Ok(IF Audible(c) = {} THEN {} ELSE {Listed(Fixed("AudioSourceToken"))})

deviceio_get_relay_outputs(c, r) ==
  Ok({<<"RelayOutputToken", i, c.relays[i].idle>> : i \in DOMAIN c.relays})

\* A token of no relay gets an empty list.
deviceio_get_relay_output_options(c, r) ==
  Ok({Listed(RelayToken(i)) : i \in IF Has(r, "RelayOutputToken")
                                    THEN Relay(c, Arg(r, "RelayOutputToken"))
                                    ELSE DOMAIN c.relays})

\* Where the search for RelayOutput starts was never written.
deviceio_set_relay_output_settings(c, r) == Undefined

\* Mutant: the command of a relay that does not exist is looked up.
Mutant_deviceio_set_relay_output_state(c, r) ==
  LET relay == IF Has(r, "RelayOutputToken") THEN Relay(c, Arg(r, "RelayOutputToken")) ELSE {}
  IN IF relay = {} THEN Only(Undefined) ELSE Only(ActionFailed)

\* A relay that is active is in the state that it is not idle in. Any word but
\* "active" means inactive; none at all is dereferenced. A command
\* that is not configured is printed as "(null)", which the shell refuses; one
\* that is blank is not run, and the client is told that all is well.
deviceio_set_relay_output_state(c, r) ==
  LET relay == IF Has(r, "RelayOutputToken") THEN Relay(c, Arg(r, "RelayOutputToken")) ELSE {}
      state(i) == IF (Arg(r, "LogicalState") = "active") = (c.relays[i].idle = "open")
                  THEN "close" ELSE "open"
      run(i) == CASE c.relays[i][state(i)] = Null -> <<Command("(null)", {})>>
                  [] c.relays[i][state(i)] = <<"">> -> <<>>
                  [] OTHER -> <<Command(state(i), {<<"relay", i>>})>>
  IN IF relay = {} THEN Only(NoRelay)
     ELSE IF ~Has(r, "LogicalState") THEN Only(Undefined)
     ELSE Plan(run(CHOOSE i \in relay : TRUE), Ok({}))
================================================================================
