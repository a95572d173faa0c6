-------------------------------- MODULE Device ---------------------------------
(***************************************************************************)
(* The Device service: what each method answers to a request r on a device *)
(* configured as c. SystemReboot is part of OnvifServer, which also runs   *)
(* the command of SetSystemFactoryDefault after the answer.                *)
(***************************************************************************)
EXTENDS Service

Service(name) == Listed(<<"Service", name>>)

\* The services a device has, by the flags of its configuration.
Always == {"device_service", "media_service", "events_service", "deviceio_service"}
WithImaging(c) == IF c.imaging = 0 THEN {} ELSE {"imaging_service"}

\* How many audio sources, audio outputs and relays the device says it has.
Counts(c) ==
  {<<"AudioSources", "", IF Audible(c) = {} THEN "0" ELSE "1">>,
   <<"AudioOutputs", "", IF Decoding(c) = {} THEN "0" ELSE "1">>,
   <<"RelayOutputs", "", ToString(Cardinality(DOMAIN c.relays))>>}

\* Which kinds of subscriptions the events service has.
EventKinds(c) ==
  {<<"WSPullPointSupport", "", IF c.events \in {"PULLPOINT", "BOTH"} THEN "true" ELSE "false">>,
   <<"BaseSubscription", "", IF c.events \in {"BASESUBSCRIPTION", "BOTH"} THEN "true" ELSE "false">>}

-----------------------------------------------------------------------------
(* Services and capabilities. *)

\* There is a template for PTZ off and one for PTZ on. A JSON file may enable it
\* with another number, for which nothing is written.
device_get_services(c, r) ==
  LET capabilities == Has(r, "IncludeCapability") /\ Arg(r, "IncludeCapability") = "true"
  IN IF c.ptz \notin {0, 1} THEN NoAnswer
     ELSE Ok({Service(s) : s \in Always \union WithImaging(c)
                                   \union (IF c.ptz = 1 THEN {"ptz_service"} ELSE {})
                                   \union (IF c.media2 = 1 THEN {"media2_service"} ELSE {})}
               \union (IF capabilities THEN Counts(c) \union EventKinds(c) ELSE {}))

NoSuchService == Fault("NoSuchService")

\* Media2 has no category of its own and is never listed here.
device_get_capabilities(c, r) ==
  LET category == IF Has(r, "Category") THEN Arg(r, "Category") ELSE "All" IN
  CASE category = "Device" -> Ok({Service("device_service")})
    [] category = "Media" -> Ok({Service("media_service")})
    [] category = "PTZ" -> IF c.ptz = 1 THEN Ok({Service("ptz_service")}) ELSE NoSuchService
    [] category = "Events" -> Ok({Service("events_service")} \union EventKinds(c))
    [] category = "Imaging" -> IF c.imaging = 0 THEN NoSuchService ELSE Ok({Service("imaging_service")})
    [] category = "All" ->
         Ok({Service(s) : s \in Always \union WithImaging(c)
                                  \union (IF c.ptz = 0 THEN {} ELSE {"ptz_service"})}
              \union Counts(c) \union EventKinds(c))
    [] OTHER -> NoSuchService

device_get_service_capabilities(c, r) == Ok({})

-----------------------------------------------------------------------------
(* Information about the device. *)

device_get_device_information(c, r) == Ok({})
device_get_system_date_and_time(c, r) == Ok({})

\* Fails when malloc does, which is not modelled.
device_get_scopes(c, r) == Ok({})

\* No users are listed.
device_get_users(c, r) == Empty
device_get_wsdl_url(c, r) == Ok({})
device_get_network_default_gateway(c, r) == Ok({})
device_get_network_protocols(c, r) == Ok({})
device_get_hostname(c, r) == Ok({})
device_get_dns(c, r) == Ok({})
device_get_ntp(c, r) == Ok({})
device_get_discovery_mode(c, r) == Ok({})
device_get_endpoint_reference(c, r) == Ok({})

\* The interface of the configuration has an IP address, or not.
device_get_network_interfaces(c, r) == IF c.address THEN Ok({}) ELSE ActionFailed

-----------------------------------------------------------------------------
(* Factory default. *)

\* Soft when exactly that is asked for.
device_set_system_factory_default(c, r) ==
  IF "factory_default_command" \notin c.commands THEN Only(ActionNotSupported)
  ELSE Plan(<<Command("factory_default_command",
               {<<"ONVIF_FACTORY_DEFAULT_TYPE",
                  IF Has(r, "FactoryDefault") /\ Arg(r, "FactoryDefault") = "Soft"
                  THEN "Soft" ELSE "Hard">>})>>, Ok({}))
================================================================================
