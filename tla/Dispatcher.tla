------------------------------ MODULE Dispatcher -------------------------------
(***************************************************************************)
(* What onvif_simple_server.c makes of a request r on a device configured  *)
(* as c: the check of the credentials, and the method that is called. The  *)
(* world w is what the commands print that a method reads before it acts:  *)
(* the list of the presets, the position and the movement; and a new UUID. *)
(* The methods of the events service with a state are those of module      *)
(* EventService.                                                           *)
(***************************************************************************)
EXTENDS Conf

D == INSTANCE Device
M == INSTANCE Media
M2 == INSTANCE Media2
DIO == INSTANCE DeviceIO
I == INSTANCE Imaging

-----------------------------------------------------------------------------
(* Credentials. The header of a request is the set of its elements; user    *)
(* and secret are the name in Username and the password that the digest     *)
(* was made with; short says that everything fits the buffers.              *)

TokenElements == {"Username", "Password", "Nonce", "Created"}

\* Mutant: an element that is missing is not an error.
Mutant_auth_error(c, r) ==
  IF c.user = Null THEN 0
  ELSE IF ~({"Security", "UsernameToken"} \subseteq r.header) THEN 11
  ELSE IF <<r.user>> # c.user /\ "Username" \in r.header THEN 10 ELSE 0

\* The last error counts; without an error the digest is compared.
auth_error(c, r) ==
  CASE c.user = Null -> 0
    [] c.user # Null /\ ~({"Security", "UsernameToken"} \subseteq r.header) -> 11
    [] OTHER -> CASE "Created" \notin r.header -> 4
                  [] "Created" \in r.header /\ ("Nonce" \notin r.header \/ ~r.short) -> 3
                  [] {"Created", "Nonce"} \subseteq r.header /\ "Password" \notin r.header -> 2
                  [] TokenElements \ {"Username"} \subseteq r.header /\ "Username" \notin r.header -> 1
                  [] OTHER -> IF <<r.user>> = c.user /\ <<r.secret>> = c.password THEN 0 ELSE 10

\* Methods that are answered without credentials.
PublicMethods ==
  {"GetSystemDateAndTime", "GetUsers", "GetCapabilities", "GetServices", "GetServiceCapabilities"}
IsPublic(r) == r.service = "device_service" /\ r.method \in PublicMethods

-----------------------------------------------------------------------------
(* Methods. *)

Unknown(c) == IF c.empty_if_unknown = 1 THEN Empty ELSE ActionNotSupported

\* The restart that follows the answer to SystemReboot is part of OnvifServer.
device_service(c, r) ==
  CASE r.method = "GetServices" -> Only(D!device_get_services(c, r))
    [] r.method = "GetServiceCapabilities" -> Only(D!device_get_service_capabilities(c, r))
    [] r.method = "GetDeviceInformation" -> Only(D!device_get_device_information(c, r))
    [] r.method = "GetSystemDateAndTime" -> Only(D!device_get_system_date_and_time(c, r))
    [] r.method = "SystemReboot" -> Only(Ok({}))
    [] r.method = "SetSystemFactoryDefault" -> D!device_set_system_factory_default(c, r)
    [] r.method = "GetScopes" -> Only(D!device_get_scopes(c, r))
    [] r.method = "GetUsers" -> Only(D!device_get_users(c, r))
    [] r.method = "GetWsdlUrl" -> Only(D!device_get_wsdl_url(c, r))
    [] r.method = "GetCapabilities" -> Only(D!device_get_capabilities(c, r))
    [] r.method = "GetNetworkInterfaces" -> Only(D!device_get_network_interfaces(c, r))
    [] r.method = "GetNetworkDefaultGateway" -> Only(D!device_get_network_default_gateway(c, r))
    [] r.method = "GetNetworkProtocols" -> Only(D!device_get_network_protocols(c, r))
    [] r.method = "GetHostname" -> Only(D!device_get_hostname(c, r))
    [] r.method = "GetDNS" -> Only(D!device_get_dns(c, r))
    [] r.method = "GetNTP" -> Only(D!device_get_ntp(c, r))
    [] r.method = "GetDiscoveryMode" -> Only(D!device_get_discovery_mode(c, r))
    [] r.method = "GetEndpointReference" -> Only(D!device_get_endpoint_reference(c, r))
    [] OTHER -> Only(Unknown(c))

\* The setters are known only when they are asked to fail.
media_service(c, r) ==
  CASE r.method = "GetServiceCapabilities" -> M!media_get_service_capabilities(c, r)
    [] r.method = "GetVideoSources" -> M!media_get_video_sources(c, r)
    [] r.method = "GetVideoSourceConfigurations" -> M!media_get_video_source_configurations(c, r)
    [] r.method = "GetVideoSourceConfiguration" -> M!media_get_video_source_configuration(c, r)
    [] r.method = "GetCompatibleVideoSourceConfigurations" ->
           M!media_get_compatible_video_source_configurations(c, r)
    [] r.method = "GetVideoSourceConfigurationOptions" ->
           M!media_get_video_source_configuration_options(c, r)
    [] r.method = "GetProfiles" -> M!media_get_profiles(c, r)
    [] r.method = "GetProfile" -> M!media_get_profile(c, r)
    [] r.method = "CreateProfile" -> M!media_create_profile(c, r)
    [] r.method = "GetVideoEncoderConfigurations" -> M!media_get_video_encoder_configurations(c, r)
    [] r.method = "GetVideoEncoderConfiguration" -> M!media_get_video_encoder_configuration(c, r)
    [] r.method = "GetCompatibleVideoEncoderConfigurations" ->
           M!media_get_compatible_video_encoder_configurations(c, r)
    [] r.method = "GetVideoEncoderConfigurationOptions" ->
           M!media_get_video_encoder_configuration_options(c, r)
    [] r.method = "GetGuaranteedNumberOfVideoEncoderInstances" ->
           M!media_get_guaranteed_number_of_video_encoder_instances(c, r)
    [] r.method = "GetSnapshotUri" -> M!media_get_snapshot_uri(c, r)
    [] r.method = "GetStreamUri" -> M!media_get_stream_uri(c, r)
    [] r.method = "GetAudioSources" -> M!media_get_audio_sources(c, r)
    [] r.method = "GetAudioSourceConfigurations" -> M!media_get_audio_source_configurations(c, r)
    [] r.method = "GetAudioSourceConfiguration" -> M!media_get_audio_source_configuration(c, r)
    [] r.method = "GetAudioSourceConfigurationOptions" ->
           M!media_get_audio_source_configuration_options(c, r)
    [] r.method = "GetAudioEncoderConfigurations" -> M!media_get_audio_encoder_configurations(c, r)
    [] r.method = "GetAudioEncoderConfiguration" -> M!media_get_audio_encoder_configuration(c, r)
    [] r.method = "GetAudioEncoderConfigurationOptions" ->
           M!media_get_audio_encoder_configuration_options(c, r)
    [] r.method = "GetAudioDecoderConfigurations" -> M!media_get_audio_decoder_configurations(c, r)
    [] r.method = "GetAudioDecoderConfiguration" -> M!media_get_audio_decoder_configuration(c, r)
    [] r.method = "GetAudioDecoderConfigurationOptions" ->
           M!media_get_audio_decoder_configuration_options(c, r)
    [] r.method = "GetAudioOutputs" -> M!media_get_audio_outputs(c, r)
    [] r.method = "GetAudioOutputConfiguration" -> M!media_get_audio_output_configuration(c, r)
    [] r.method = "GetAudioOutputConfigurations" -> M!media_get_audio_output_configurations(c, r)
    [] r.method = "GetAudioOutputConfigurationOptions" ->
           M!media_get_audio_output_configuration_options(c, r)
    [] r.method = "GetCompatibleAudioSourceConfigurations" ->
           M!media_get_compatible_audio_source_configurations(c, r)
    [] r.method = "GetCompatibleAudioEncoderConfigurations" ->
           M!media_get_compatible_audio_encoder_configurations(c, r)
    [] r.method = "GetCompatibleAudioDecoderConfigurations" ->
           M!media_get_compatible_audio_decoder_configurations(c, r)
    [] r.method = "GetCompatibleAudioOutputConfigurations" ->
           M!media_get_compatible_audio_output_configurations(c, r)
    [] c.fault_if_set = 1 /\ r.method = "SetVideoSourceConfiguration" ->
           M!media_set_video_source_configuration(c, r)
    [] c.fault_if_set = 1 /\ r.method = "SetAudioSourceConfiguration" ->
           M!media_set_audio_source_configuration(c, r)
    [] c.fault_if_set = 1 /\ r.method = "SetVideoEncoderConfiguration" ->
           M!media_set_video_encoder_configuration(c, r)
    [] c.fault_if_set = 1 /\ r.method = "SetAudioEncoderConfiguration" ->
           M!media_set_audio_encoder_configuration(c, r)
    [] c.fault_if_set = 1 /\ r.method = "SetAudioOutputConfiguration" ->
           M!media_set_audio_output_configuration(c, r)
    [] OTHER -> Unknown(c)

\* The setters of Media2 are never called.
media2_service(c, r) ==
  CASE r.method = "GetServiceCapabilities" -> M2!media2_get_service_capabilities(c, r)
    [] r.method = "GetProfiles" -> M2!media2_get_profiles(c, r)
    [] r.method = "GetVideoSourceModes" -> M2!media2_get_video_source_modes(c, r)
    [] r.method = "GetVideoSourceConfigurations" -> M2!media2_get_video_source_configurations(c, r)
    [] r.method = "GetVideoSourceConfigurationOptions" ->
           M2!media2_get_video_source_configuration_options(c, r)
    [] r.method = "GetVideoEncoderConfigurations" -> M2!media2_get_video_encoder_configurations(c, r)
    [] r.method = "GetVideoEncoderConfigurationOptions" ->
           M2!media2_get_video_encoder_configuration_options(c, r)
    [] r.method = "GetAudioSourceConfigurations" -> M2!media2_get_audio_source_configurations(c, r)
    [] r.method = "GetAudioSourceConfigurationOptions" ->
           M2!media2_get_audio_source_configuration_options(c, r)
    [] r.method = "GetAudioEncoderConfigurations" -> M2!media2_get_audio_encoder_configurations(c, r)
    [] r.method = "GetAudioEncoderConfigurationOptions" ->
           M2!media2_get_audio_encoder_configuration_options(c, r)
    [] r.method = "GetAudioOutputConfigurations" -> M2!media2_get_audio_output_configurations(c, r)
    [] r.method = "GetAudioOutputConfigurationOptions" ->
           M2!media2_get_audio_output_configuration_options(c, r)
    [] r.method = "GetAudioDecoderConfigurations" -> M2!media2_get_audio_decoder_configurations(c, r)
    [] r.method = "GetAudioDecoderConfigurationOptions" ->
           M2!media2_get_audio_decoder_configuration_options(c, r)
    [] r.method = "GetSnapshotUri" -> M2!media2_get_snapshot_uri(c, r)
    [] r.method = "GetStreamUri" -> M2!media2_get_stream_uri(c, r)
    [] OTHER -> Unknown(c)

\* The methods that look for presets read the list that the command prints.
ptz_service(c, r, w) ==
  LET list == init_presets(c, w.list) IN
  CASE r.method = "GetServiceCapabilities" -> Only(ptz_get_service_capabilities(c, r))
    [] r.method = "GetConfigurations" -> Only(ptz_get_configurations(c, r))
    [] r.method = "GetConfiguration" -> Only(ptz_get_configuration(c, r))
    [] r.method = "GetConfigurationOptions" -> Only(ptz_get_configuration_options(c, r))
    [] r.method = "GetNodes" -> Only(ptz_get_nodes(c, r))
    [] r.method = "GetNode" -> Only(ptz_get_node(c, r))
    [] r.method = "GetPresets" -> ptz_get_presets(c, r, list)
    [] r.method = "GotoPreset" -> ptz_goto_preset(c, r, list)
    [] r.method = "GotoHomePosition" -> ptz_goto_home_position(c, r)
    [] r.method = "ContinuousMove" -> ptz_continuous_move(c, r)
    [] r.method = "RelativeMove" -> ptz_relative_move(c, r)
    [] r.method = "AbsoluteMove" -> ptz_absolute_move(c, r)
    [] r.method = "Stop" -> ptz_stop(c, r)
    [] r.method = "GetStatus" -> ptz_get_status(c, r, w.position, w.moving)
    [] r.method = "SetPreset" -> ptz_set_preset(c, r, list, w.uuid)
    [] r.method = "SetHomePosition" -> ptz_set_home_position(c, r)
    [] r.method = "RemovePreset" -> ptz_remove_preset(c, r)
    [] OTHER -> Only(Unknown(c))

\* The methods that keep subscriptions are those of module EventService, and are
\* not asked for here. Topics have at most three levels.
events_service(c, r) ==
  CASE r.method = "GetServiceCapabilities" -> Only(Ok(D!EventKinds(c)))
    [] r.method = "GetEventProperties" -> Only(Ok({}))
    [] OTHER -> Only(Unknown(c))

\* Equipment and relays.
deviceio_service(c, r) ==
  CASE r.method = "GetVideoSources" -> Only(DIO!deviceio_get_video_sources(c, r))
    [] r.method = "GetServiceCapabilities" -> Only(DIO!deviceio_get_service_capabilities(c, r))
    [] r.method = "GetAudioOutputs" -> Only(DIO!deviceio_get_audio_outputs(c, r))
    [] r.method = "GetAudioSources" -> Only(DIO!deviceio_get_audio_sources(c, r))
    [] r.method = "GetRelayOutputs" -> Only(DIO!deviceio_get_relay_outputs(c, r))
    [] r.method = "GetRelayOutputOptions" -> Only(DIO!deviceio_get_relay_output_options(c, r))
    [] r.method = "SetRelayOutputSettings" -> Only(DIO!deviceio_set_relay_output_settings(c, r))
    [] r.method = "SetRelayOutputState" -> DIO!deviceio_set_relay_output_state(c, r)
    [] OTHER -> Only(Unknown(c))

\* Refused as a whole when it is not enabled.
imaging_service(c, r) ==
  IF c.imaging = 0 THEN Only(ActionNotSupported)
  ELSE CASE r.method = "GetServiceCapabilities" -> Only(I!imaging_get_service_capabilities(c, r))
         [] r.method = "GetImagingSettings" -> Only(I!imaging_get_imaging_settings(c, r))
         [] r.method = "SetImagingSettings" -> I!imaging_set_imaging_settings(c, r)
         [] r.method = "GetOptions" -> Only(I!imaging_get_options(c, r))
         [] r.method = "GetMoveOptions" -> Only(I!imaging_get_move_options(c, r))
         [] r.method = "Move" -> I!imaging_move(c, r)
         [] r.method = "Stop" -> I!imaging_stop(c, r)
         [] r.method = "GetStatus" -> Only(I!imaging_get_status(c, r))
         [] OTHER -> Only(Unknown(c))

\* The services by name. A service that is not there gets no answer.
Service(c, r, w) ==
  CASE r.service = "device_service" -> device_service(c, r)
    [] r.service = "media_service" -> Only(media_service(c, r))
    [] r.service = "media2_service" /\ c.media2 = 1 -> Only(media2_service(c, r))
    [] r.service = "ptz_service" -> ptz_service(c, r, w)
    [] r.service = "events_service" -> events_service(c, r)
    [] r.service = "deviceio_service" -> deviceio_service(c, r)
    [] r.service = "imaging_service" -> imaging_service(c, r)
    [] OTHER -> Only(NoAnswer)

\* A digest can be made of the token, which needs the password of the device.
Complete(r) ==
  {"Security", "UsernameToken"} \union TokenElements \subseteq r.header /\ r.short
HasNoPassword(c, r) == c.user # Null /\ c.password = Null /\ Complete(r)

\* A configuration that cannot be read ends the process; the password that is
\* not there is dereferenced. CreateProfile has an answer of its own for a
\* Synology that does not authenticate.
Dispatch(c, r, w) ==
  CASE c.ok = "failed" -> Only(NoAnswer)
    [] c.ok = "undefined" -> Only(Undefined)
    [] c.ok = "ok" /\ HasNoPassword(c, r) -> Only(Undefined)
    [] OTHER ->
         IF auth_error(c, r) = 0 \/ IsPublic(r) THEN Service(c, r, w)
         ELSE IF c.synology = 1 /\ r.service = "media_service" /\ r.method = "CreateProfile"
         THEN Only(Fault("MaxNVTProfiles")) ELSE Only(AuthenticationError)
================================================================================
