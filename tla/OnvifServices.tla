--------------------------- MODULE OnvifServices ----------------------------
(***************************************************************************)
(* ServiceMedia.c and ServiceDevice.c: the handlers gSOAP dispatches to.   *)
(* A handler reads the context and fills in a reply; none changes it.      *)
(* gSOAP hands each handler a default-initialised response.  uris and hosts *)
(* hold every address the reply may carry: more than one where the code    *)
(* reads uninitialised memory.                                             *)
(***************************************************************************)
EXTENDS ServiceContext

CONSTANT FixedScope    \* ONVIF_SCOPE_NAME

Profile == [token : Tokens,
            video_source : [token : Tokens, source : Tokens],
            video_encoder : [token : Tokens, encoding : Encodings \cup {-1}]]

(* A zeroed array element: tt__Profile with NULL pointers.                 *)
Zeroed == [token |-> NoText]

Empty == [code |-> "SOAP_OK", profiles |-> <<>>, sources |-> <<>>,
          scopes |-> <<>>, uris |-> {}, hosts |-> {}]

Failed(code) == [Empty EXCEPT !.code = code]

-----------------------------------------------------------------------------
(* Media service.                                                          *)
GetVideoSources(sc) ==
  IF sc.profiles = <<>>
  THEN Failed("SOAP_FAULT")
  ELSE [Empty EXCEPT !.sources =
          [i \in DOMAIN sc.profiles |-> SourceToken(sc.profiles[i].streamProfile.name)]]

GetProfile(sc, token) ==
  LET it == StreamProfileMapFind(sc.profiles, token)
  IN  IF it = 0
      THEN Failed("SOAP_FAULT")
      ELSE [Empty EXCEPT !.profiles = <<get_profile(sc.profiles[it].streamProfile)>>]

(* Every profile is copied into element 0 of an array as long as the map.  *)
GetProfiles(sc) ==
  LET total == Len(sc.profiles)
  IN  IF total = 0
      THEN Failed("SOAP_FAULT")
      ELSE [Empty EXCEPT !.profiles =
              [i \in 1 .. total |-> IF i = 1
                                    THEN get_profile(sc.profiles[total].streamProfile)
                                    ELSE Zeroed]]

(* Looks the token up among profile names, and on success fills a response *)
(* of its own in place of the one it was given.                            *)
GetVideoSourceConfiguration(sc, token) ==
  IF StreamProfileMapFind(sc.profiles, token) = 0 THEN Failed("SOAP_ERR") ELSE Empty

(* These two likewise fill a response of their own.                        *)
GetVideoEncoderConfiguration == Empty

GetVideoEncoderConfigurationOptions == Failed("501")

(* Answers for the first profile, whatever the token in the request.       *)
GetStreamUri(sc, public_ip, client) ==
  IF sc.profiles = <<>>
  THEN Failed("SOAP_FAULT")
  ELSE [Empty EXCEPT !.uris =
          get_stream_uri(sc, public_ip, sc.profiles[1].streamProfile.url, client)]

(* The handlers that log their name and return SOAP_OK, and those whose    *)
(* reply holds only data left out here (clock, device strings, user name,  *)
(* capability flags).                                                      *)
OtherHandler == Empty

-----------------------------------------------------------------------------
(* Device service.                                                         *)

(* GetServices and GetCapabilities, reduced to the address they advertise. *)
GetServices(sc, public_ip, client) ==
  [Empty EXCEPT !.hosts = getXAddr(sc, public_ip, client)]

(* The array has a fixed scope before the configured ones, its declared    *)
(* length is that of the configured ones.                                  *)
GetScopes(sc) ==
  [Empty EXCEPT !.scopes =
     [i \in DOMAIN sc.scopes |-> IF i = 1 THEN FixedScope ELSE sc.scopes[i - 1]]]

(* The first interface.  Without an address on it, what the buffer held.   *)
GetNetworkInterfaces(sc) ==
  IF sc.eth_ifs = <<>>
  THEN Failed("SOAP_ERR")
  ELSE [Empty EXCEPT !.hosts = IF sc.eth_ifs[1] \in Addressed
                               THEN {sc.eth_ifs[1]}
                               ELSE Interfaces \cup {NoText}]
=============================================================================
