---------------------------- MODULE OnvifServer -----------------------------
(***************************************************************************)
(* onvif_srvd.c: the life of the daemon, from its command line to the      *)
(* request loop.  One process, one thread; SIGTERM may arrive anywhere.    *)
(*                                                                         *)
(* main calls init_soap directly (daemonize2 is compiled out), so nothing  *)
(* forks, no pid file is written and daemon_info.daemonized stays 0.       *)
(* Options that only store a string or a flag no property reads (port,     *)
(* user, model, no_fork, ...) are stuttering steps.                        *)
(***************************************************************************)
EXTENDS OnvifServices

CONSTANTS
  Types,       \* bound: the encodings --type is given
  Ops,         \* bound: the operations clients ask for
  MaxScopes,   \* bound: --scope options on the command line
  MaxIfs       \* bound: --ifs options on the command line

ASSUME OnvifServerAssumption ==
  /\ Types \subseteq Encodings
  /\ MaxScopes \in Nat
  /\ MaxIfs \in Nat

VARIABLES
  phase,       \* where main is
  status,      \* exit status, once it has exited
  soap,        \* the gSOAP context: "null", "bound" or "freed"
  sc,          \* service_ctx
  public_ip,   \* g_public_ip, read from rtsp.ini
  profile,     \* processing_cmd's scratch profile
  reply,       \* the reply to the last request
  request,     \* and the request itself
  add_ret,     \* history: the last return value of add_profile
  accepted,    \* history: names add_profile returned 1 for
  given,       \* history: profile options since the last --type
  first_profile,  \* history: what the first --type came to: "none" yet, "stored" or "refused"
  told         \* history: tokens replies have named

options == <<profile, add_ret, accepted, given, first_profile>>
replies == <<reply, request, told>>
vars == <<phase, status, soap, sc, public_ip, options, replies>>

NoRequest == [op |-> "none", token |-> NoText, client |-> NoText]

AllRequests ==
  [op : {"GetVideoSources", "GetProfiles", "GetVideoEncoderConfiguration",
         "GetVideoEncoderConfigurationOptions", "GetScopes", "GetNetworkInterfaces", "Other"},
   token : {NoText}, client : {NoText}]
  \cup [op : {"GetProfile", "GetVideoSourceConfiguration"}, token : Tokens, client : {NoText}]
  \cup [op : {"GetStreamUri"}, token : Tokens, client : Clients]
  \cup [op : {"GetServices"}, token : {NoText}, client : Clients]

Requests == {r \in AllRequests : r.op \in Ops}

Init ==
  /\ phase = "options"
  /\ status = "none"
  /\ soap = "null"
  /\ sc = ServiceContext_Constructor
  /\ public_ip \in PublicIps
  /\ profile = StreamProfile_Constructor
  /\ reply = Empty
  /\ request = NoRequest
  /\ add_ret = 0
  /\ accepted = {}
  /\ given = {}
  /\ first_profile = "none"
  /\ told = [profile |-> {}, configuration |-> {}, source |-> {}]

Exit(s) == phase' = "exited" /\ status' = s

-----------------------------------------------------------------------------
(* processing_cmd, one action per option.                                  *)
Option == phase = "options" /\ UNCHANGED <<soap, public_ip, replies>>

Stay == UNCHANGED <<phase, status>>

(* --help and --version: exit_if_not_daemonized.                           *)
OptHelp ==
  /\ Option
  /\ Exit("success")
  /\ UNCHANGED <<sc, options>>

OptUnknown ==
  /\ Option
  /\ Exit("failure")
  /\ UNCHANGED <<sc, options>>

OptScope(s) ==
  /\ Option
  /\ Len(sc.scopes) < MaxScopes
  /\ sc' = [sc EXCEPT !.scopes = Append(@, s)]
  /\ Stay
  /\ UNCHANGED options

(* Each --ifs pushes the interface twice, "global ip" being the second.    *)
(* Either open may fail.                                                   *)
OptIfs(i) ==
  /\ Option
  /\ Len(sc.eth_ifs) < 2 * MaxIfs
  /\ sc' = [sc EXCEPT !.eth_ifs = @ \o <<i, i>>]
  /\ Stay
  /\ UNCHANGED options

OptIfsFails(i) ==
  /\ Option
  /\ Len(sc.eth_ifs) < 2 * MaxIfs
  /\ \E pushed \in {<<i>>, <<i, i>>} : sc' = [sc EXCEPT !.eth_ifs = @ \o pushed]
  /\ Exit("failure")
  /\ UNCHANGED options

SetField(field, val) ==
  /\ profile' = [profile EXCEPT ![field] = val]
  /\ given' = given \cup {field}
  /\ Stay
  /\ UNCHANGED <<sc, add_ret, accepted, first_profile>>

OptName(n) == Option /\ SetField("name", n)

OptUrl(u) == Option /\ SetField("url", u)

OptDimension(field, val) ==
  /\ Option
  /\ IF InRange(val)
     THEN SetField(field, val)
     ELSE Exit("failure") /\ UNCHANGED <<sc, options>>

(* --type ends a profile: set, add, clear.  Of add_profile's return values *)
(* (1, -10, -20) only 0, which it never returns, stops the daemon.         *)
OptType(t) ==
  /\ Option
  /\ LET full == [profile EXCEPT !.type = t]
         add  == ServiceContext_add_profile(sc, full)
     IN  /\ add_ret' = add.ret
         /\ sc' = add.sc
         /\ accepted' = IF add.ret = 1 THEN accepted \cup {full.name} ELSE accepted
         /\ first_profile' = IF first_profile # "none" THEN first_profile
                             ELSE IF add.ret = 1 THEN "stored" ELSE "refused"
         /\ IF add.ret = 0
            THEN Exit("failure") /\ UNCHANGED <<profile, given>>
            ELSE Stay /\ profile' = StreamProfile_clear /\ given' = {}

OptBadType ==
  /\ Option
  /\ Exit("failure")
  /\ UNCHANGED <<sc, options>>

(* processing_cmd returns; the scratch profile was a local of it.          *)
OptionsEnd ==
  /\ phase = "options"
  /\ phase' = "signals"
  /\ profile' = StreamProfile_Constructor
  /\ given' = {}
  /\ UNCHANGED <<status, soap, sc, public_ip, add_ret, accepted, first_profile, replies>>

-----------------------------------------------------------------------------
(* init_soap: init_signals, check_service_ctx, init_gsoap.                 *)
InitSignals ==
  /\ phase = "signals"
  /\ phase' = "check"
  /\ UNCHANGED <<status, soap, sc, public_ip, options, replies>>

Configured == sc.eth_ifs # <<>> /\ sc.scopes # <<>> /\ sc.profiles # <<>>

CheckServiceCtx ==
  /\ phase = "check"
  /\ IF Configured THEN phase' = "bind" /\ UNCHANGED status ELSE Exit("failure")
  /\ UNCHANGED <<soap, sc, public_ip, options, replies>>

InitGsoap ==
  /\ phase = "bind"
  /\ phase' = "accept"
  /\ soap' = "bound"
  /\ UNCHANGED <<status, sc, public_ip, options, replies>>

(* soap_new1, soap_bind, or sigaction before them, fails.                  *)
InitFails ==
  /\ phase \in {"signals", "bind"}
  /\ Exit("failure")
  /\ UNCHANGED <<soap, sc, public_ip, options, replies>>

-----------------------------------------------------------------------------
(* The request loop.                                                       *)
Accept(r) ==
  /\ phase = "accept"
  /\ phase' = "serve"
  /\ request' = r
  /\ UNCHANGED <<status, soap, sc, public_ip, options, reply, told>>

AcceptFails ==
  /\ phase = "accept"
  /\ Exit("failure")
  /\ UNCHANGED <<soap, sc, public_ip, options, replies>>

Answer(r) ==
  CASE r.op = "GetVideoSources" -> GetVideoSources(sc)
    [] r.op = "GetProfile" -> GetProfile(sc, r.token)
    [] r.op = "GetProfiles" -> GetProfiles(sc)
    [] r.op = "GetVideoSourceConfiguration" -> GetVideoSourceConfiguration(sc, r.token)
    [] r.op = "GetVideoEncoderConfiguration" -> GetVideoEncoderConfiguration
    [] r.op = "GetVideoEncoderConfigurationOptions" -> GetVideoEncoderConfigurationOptions
    [] r.op = "GetStreamUri" -> GetStreamUri(sc, public_ip, r.client)
    [] r.op = "GetServices" -> GetServices(sc, public_ip, r.client)
    [] r.op = "GetScopes" -> GetScopes(sc)
    [] r.op = "GetNetworkInterfaces" -> GetNetworkInterfaces(sc)
    [] r.op = "Other" -> OtherHandler

(* What a client can read off a reply.                                     *)
Learn(known, a) ==
  LET named == {a.profiles[i] : i \in DOMAIN a.profiles} \cap Profile
  IN  [profile       |-> known.profile \cup {p.token : p \in named},
       configuration |-> known.configuration \cup {p.video_source.token : p \in named},
       source        |-> known.source \cup {p.video_source.source : p \in named}]

(* A fault is printed and the loop goes on.                                *)
Serve ==
  /\ phase = "serve"
  /\ phase' = "accept"
  /\ reply' = Answer(request)
  /\ told' = Learn(told, reply')
  /\ UNCHANGED <<status, soap, sc, public_ip, options, request>>

-----------------------------------------------------------------------------
(* SIGTERM: its default action until init_signals has run, then            *)
(* daemon_exit_handler, which frees the gSOAP context.                     *)
TermDefault ==
  /\ phase \in {"options", "signals"}
  /\ Exit("killed")
  /\ UNCHANGED <<soap, sc, public_ip, options, replies>>

daemon_exit_handler ==
  /\ phase \in {"check", "bind", "accept", "serve"}
  /\ Exit("success")
  /\ soap' = "freed"
  /\ UNCHANGED <<sc, public_ip, options, replies>>

Exited == phase = "exited" /\ UNCHANGED vars

processing_cmd ==
  \/ OptHelp
  \/ OptUnknown
  \/ \E s \in Scopes : OptScope(s)
  \/ \E i \in Interfaces : OptIfs(i) \/ OptIfsFails(i)
  \/ \E n \in Names \cup {NoText} : OptName(n)
  \/ \E u \in Urls \cup {NoText} : OptUrl(u)
  \/ \E f \in {"width", "height"}, v \in Dimensions : OptDimension(f, v)
  \/ \E t \in Types : OptType(t)
  \/ OptBadType
  \/ OptionsEnd

init_soap == InitSignals \/ CheckServiceCtx \/ InitGsoap \/ InitFails

Loop == (\E r \in Requests : Accept(r)) \/ AcceptFails \/ Serve

Next == processing_cmd \/ init_soap \/ Loop \/ TermDefault \/ daemon_exit_handler \/ Exited

Spec == Init /\ [][Next]_vars
-----------------------------------------------------------------------------
(* Type correctness of the daemon's state.                                 *)
TypeOK ==
  /\ phase \in {"options", "signals", "check", "bind", "accept", "serve", "exited"}
  /\ status \in {"none", "success", "failure", "killed"}
  /\ soap \in {"null", "bound", "freed"}
  /\ sc.eth_ifs \in Seq(Interfaces)
  /\ sc.scopes \in Seq(Scopes)
  /\ sc.profiles \in Seq([key : Names, streamProfile : StreamProfiles])
  /\ public_ip \in PublicIps
  /\ profile \in StreamProfiles
  /\ request \in Requests \cup {NoRequest}
  /\ add_ret \in {0, 1, -10, -20}
  /\ accepted \subseteq Names
  /\ given \subseteq {"name", "url", "width", "height"}
  /\ first_profile \in {"none", "stored", "refused"}
  /\ told \in [profile : SUBSET Tokens, configuration : SUBSET Tokens, source : SUBSET Tokens]

(* A profile the services can reach is complete, and its sizes are what    *)
(* set_width and set_height say they may be: "correct range: 100-10000".   *)
(* One that came with the first --type may lack a size, which is then the  *)
(* constructor's 0; a later one may not, also if the first was refused.    *)
Sized(val) ==
  \/ val >= 100 /\ val <= 10000
  \/ val = 0 /\ first_profile = "stored"

Whole(node) ==
  LET sp == node.streamProfile IN
  /\ sp.name = node.key
  /\ sp.name \in Names /\ sp.url \in Urls /\ sp.type \in Encodings
  /\ Sized(sp.width) /\ Sized(sp.height)

StoredProfilesWhole == \A i \in DOMAIN sc.profiles : Whole(sc.profiles[i])

(* onvif_srvd.c: "now we can add new profile (just uses one variable)".  No *)
(* parameter of an earlier profile, refused or not, is left in the scratch *)
(* profile that collects the next one.                                     *)
NoStaleParameter ==
  phase = "options" =>
    /\ profile.name # NoText => "name" \in given
    /\ profile.url # NoText => "url" \in given
    /\ first_profile # "none" => \A f \in {"width", "height"} : profile[f] # -1 => f \in given

(* What replies tell clients fits what later requests say.  A profile token *)
(* any reply has named is good in a later GetProfile, which answers with    *)
(* the profile of that token; and the source token in a profile's video     *)
(* source configuration is one that GetVideoSources lists.                 *)
AdvertisedProfile ==
  phase = "accept" /\ request.op = "GetProfile" /\ request.token \in told.profile
    => reply.code = "SOAP_OK" /\ reply.profiles[1].token = request.token

AdvertisedSource ==
  phase = "accept" /\ request.op = "GetVideoSources"
    => told.source \subseteq {reply.sources[i] : i \in DOMAIN reply.sources}

AdvertisedTokensResolve == AdvertisedProfile /\ AdvertisedSource

(* README.md: %s in the URL "will be replaced with the IP address of the   *)
(* interface, see the option --ifs".  So it is for every client, if        *)
(* rtsp.ini names no public address and the first interface has one.       *)
TemplateFilled ==
  phase = "accept" /\ request.op = "GetStreamUri" /\ public_ip = NoText
    /\ sc.eth_ifs[1] \in Addressed
    => \A u \in reply.uris : u.url \in Templates
         => \E i \in DOMAIN sc.eth_ifs : u.host = sc.eth_ifs[i]

(* media.wsdl on GetProfiles: "This command lists all configured profiles  *)
(* in a device".  It lists every profile that add_profile accepted.        *)
AcceptedProfileListed ==
  phase = "accept" /\ request.op = "GetProfiles"
    => \A n \in accepted : \E i \in DOMAIN reply.profiles : reply.profiles[i].token = Token(n)

(* devicemgmt.wsdl on GetScopes: the reply holds the scope parameters of   *)
(* the device.  Every configured scope is in it.  (The array has room for   *)
(* as many as are configured, so the code, which puts a fixed one before   *)
(* them, also writes the last behind its end.)                             *)
ScopesAllReturned ==
  phase = "accept" /\ request.op = "GetScopes"
    => \A i \in DOMAIN sc.scopes : \E j \in DOMAIN reply.scopes : reply.scopes[j] = sc.scopes[i]
=============================================================================
