------------------------- MODULE OnvifServerProofs -------------------------
(***************************************************************************)
(* What the command line can leave behind, for any names, URLs, sizes and   *)
(* encodings, and options in any number and order.                         *)
(*                                                                         *)
(* The invariant types the scratch profile more closely than the code does: *)
(* a size is unset, zero or in range (Scratch).  add_profile stores it only *)
(* when it is valid, which makes what is stored whole (Stored); a zero is   *)
(* found by the first --type only (ZerosAreFirst).  What the replies name,  *)
(* the templates and the types of the rest build on it.                    *)
(***************************************************************************)
EXTENDS OnvifServer, TLAPS

Sizes == {-1, 0} \cup 100..9999

ScratchProfiles ==
  [name : Names \cup {NoText}, url : Urls \cup {NoText},
   width : Sizes, height : Sizes, type : Encodings \cup {-1}]

WholeProfiles ==
  [name : Names, url : Urls, width : Sizes \ {-1}, height : Sizes \ {-1}, type : Encodings]

Nodes == [key : Names, streamProfile : WholeProfiles]

Contexts ==
  [eth_ifs : Seq(Interfaces), scopes : Seq(Scopes),
   profiles : {<<>>} \cup {<<node>> : node \in {n \in Nodes : n.key = n.streamProfile.name}}]

Scratch == profile \in ScratchProfiles

Stored == sc \in Contexts

NoZeros(sp) == sp.width # 0 /\ sp.height # 0

(* A size of 0 is the constructor's, which the first --type takes away.     *)
ZerosAreFirst ==
  /\ first_profile = "none" => sc.profiles = <<>>
  /\ phase = "options" /\ first_profile # "none" => NoZeros(profile)
  /\ first_profile # "stored" => \A i \in DOMAIN sc.profiles : NoZeros(sc.profiles[i].streamProfile)

OptionsInv == Scratch /\ Stored /\ NoStaleParameter /\ ZerosAreFirst

Assumptions == ServiceContextAssumption /\ OnvifServerAssumption

-----------------------------------------------------------------------------
(* What the constructor and clear make, and what a valid profile is.       *)
LEMMA FreshProfiles ==
  StreamProfile_Constructor \in ScratchProfiles /\ StreamProfile_clear \in ScratchProfiles
BY DEF StreamProfile_Constructor, StreamProfile_clear, ScratchProfiles, Sizes, Encodings

LEMMA ValidIsWhole ==
  ASSUME NEW sp \in ScratchProfiles, StreamProfile_is_valid(sp)
  PROVE  sp \in WholeProfiles
BY DEF StreamProfile_is_valid, ScratchProfiles, WholeProfiles

(* Adding a profile returns one of three codes, none of which is 0, and     *)
(* leaves a context of whole profiles.                                     *)
LEMMA AddProfile ==
  ASSUME NEW c \in Contexts, NEW sp \in ScratchProfiles
  PROVE  /\ ServiceContext_add_profile(c, sp).ret \in {1, -10, -20}
         /\ ServiceContext_add_profile(c, sp).sc \in Contexts
         /\ \/ ServiceContext_add_profile(c, sp).sc = c
            \/ /\ ServiceContext_add_profile(c, sp).ret = 1
               /\ \A i \in DOMAIN ServiceContext_add_profile(c, sp).sc.profiles :
                    ServiceContext_add_profile(c, sp).sc.profiles[i].streamProfile
                      \in {sp} \cup {c.profiles[k].streamProfile : k \in DOMAIN c.profiles}
<1>1. CASE ~ StreamProfile_is_valid(sp)
  BY <1>1 DEF ServiceContext_add_profile
<1>2. CASE /\ StreamProfile_is_valid(sp)
           /\ StreamProfileMapFind(c.profiles, Token(sp.name)) # 0
  BY <1>2 DEF ServiceContext_add_profile
<1>3. CASE /\ StreamProfile_is_valid(sp)
           /\ StreamProfileMapFind(c.profiles, Token(sp.name)) = 0
  <2>1. sp \in WholeProfiles
    BY <1>3, ValidIsWhole
  <2>2. [key |-> sp.name, streamProfile |-> sp] \in {n \in Nodes : n.key = n.streamProfile.name}
    BY <2>1 DEF Nodes, WholeProfiles
  <2>3. [c EXCEPT !.profiles = StreamProfileMapAdd(@, sp)] \in Contexts
    BY <2>2 DEF StreamProfileMapAdd, Contexts
  <2>4. \A i \in DOMAIN StreamProfileMapAdd(c.profiles, sp) :
          StreamProfileMapAdd(c.profiles, sp)[i].streamProfile
            \in {sp} \cup {c.profiles[k].streamProfile : k \in DOMAIN c.profiles}
    BY DEF StreamProfileMapAdd
  <2>5. [c EXCEPT !.profiles = StreamProfileMapAdd(@, sp)].profiles = StreamProfileMapAdd(c.profiles, sp)
    BY DEF Contexts
  <2>6. ServiceContext_add_profile(c, sp)
          = [ret |-> 1, sc |-> [c EXCEPT !.profiles = StreamProfileMapAdd(@, sp)]]
    BY <1>3 DEF ServiceContext_add_profile
  <2>7. /\ ServiceContext_add_profile(c, sp).ret = 1
        /\ ServiceContext_add_profile(c, sp).sc = [c EXCEPT !.profiles = StreamProfileMapAdd(@, sp)]
    BY <2>6
  <2>8. ServiceContext_add_profile(c, sp).sc.profiles = StreamProfileMapAdd(c.profiles, sp)
    BY <2>5, <2>7, Zenon
  <2>9. \A i \in DOMAIN ServiceContext_add_profile(c, sp).sc.profiles :
          ServiceContext_add_profile(c, sp).sc.profiles[i].streamProfile
            \in {sp} \cup {c.profiles[k].streamProfile : k \in DOMAIN c.profiles}
    BY <2>4, <2>8, Zenon
  <2>10. ServiceContext_add_profile(c, sp).sc \in Contexts
    BY <2>3, <2>7, Zenon
  <2>11. QED
    BY <2>7, <2>9, <2>10
<1>4. QED
  BY <1>1, <1>2, <1>3

LEMMA OptionsInvInit ==
  ASSUME Init
  PROVE  OptionsInv
<1>1. Scratch
  BY FreshProfiles DEF Init, Scratch
<1>2. Stored
  BY DEF Init, Stored, Contexts, ServiceContext_Constructor
<1>3. NoStaleParameter
  BY DEF Init, NoStaleParameter, StreamProfile_Constructor
<1>4. ZerosAreFirst
  BY DEF Init, ZerosAreFirst, ServiceContext_Constructor
<1>5. QED
  BY <1>1, <1>2, <1>3, <1>4 DEF OptionsInv

-----------------------------------------------------------------------------
(* An option that sets one field of the scratch profile.                   *)
LEMMA SetFieldKeeps ==
  ASSUME OptionsInv, Option,
         NEW field \in {"name", "url", "width", "height"}, NEW to,
         field = "name" => to \in Names \cup {NoText},
         field = "url" => to \in Urls \cup {NoText},
         field \in {"width", "height"} => to \in 100..9999,
         SetField(field, to)
  PROVE  OptionsInv'
<1>0. profile' = [profile EXCEPT ![field] = to] /\ profile \in ScratchProfiles
  BY DEF SetField, OptionsInv, Scratch
<1>1. Scratch'
  <2>1. CASE field = "name"
    BY <1>0, <2>1 DEF Scratch, ScratchProfiles
  <2>2. CASE field = "url"
    BY <1>0, <2>2 DEF Scratch, ScratchProfiles
  <2>3. CASE field = "width"
    <3>1. to \in Sizes
      BY <2>3 DEF Sizes
    <3>2. QED
      BY <1>0, <2>3, <3>1 DEF Scratch, ScratchProfiles
  <2>4. CASE field = "height"
    <3>1. to \in Sizes
      BY <2>4 DEF Sizes
    <3>2. QED
      BY <1>0, <2>4, <3>1 DEF Scratch, ScratchProfiles
  <2>5. QED
    BY <2>1, <2>2, <2>3, <2>4
<1>2. Stored'
  BY DEF SetField, OptionsInv, Stored
<1>3. NoStaleParameter'
  BY DEF SetField, OptionsInv, NoStaleParameter, Stay, Option, Scratch, ScratchProfiles
<1>4. ZerosAreFirst'
  <2>1. NoZeros(profile) => NoZeros(profile')
    <3>1. CASE field \in {"name", "url"}
      BY <1>0, <3>1 DEF NoZeros, ScratchProfiles
    <3>2. CASE field \in {"width", "height"}
      <4>1. \A size \in 100..9999 : size # 0
        OBVIOUS
      <4>2. to \in 100..9999
        BY <3>2
      <4>3. to # 0
        BY <4>1, <4>2
      <4>4. QED
        BY <1>0, <3>2, <4>3 DEF NoZeros, ScratchProfiles
    <3>3. QED
      BY <3>1, <3>2
  <2>2. QED
    BY <2>1 DEF SetField, Stay, Option, OptionsInv, ZerosAreFirst
<1>5. QED
  BY <1>1, <1>2, <1>3, <1>4 DEF OptionsInv

(* An option of the command line keeps OptionsInv.                         *)
LEMMA OptionKeeps ==
  ASSUME Assumptions, OptionsInv, processing_cmd
  PROVE  OptionsInv'
<1>1. CASE OptHelp \/ OptUnknown \/ OptBadType
  BY <1>1 DEF OptHelp, OptUnknown, OptBadType, Exit, options, OptionsInv, Scratch, Stored,
                NoStaleParameter, ZerosAreFirst
<1>2. ASSUME NEW s \in Scopes, OptScope(s)
      PROVE  OptionsInv'
  <2>1. Stored'
    <3>1. sc \in Contexts /\ Append(sc.scopes, s) \in Seq(Scopes)
      BY DEF OptionsInv, Stored, Contexts
    <3>2. sc' = [sc EXCEPT !.scopes = Append(sc.scopes, s)]
      BY <1>2 DEF OptScope
    <3>3. QED
      BY <3>1, <3>2 DEF Stored, Contexts
  <2>2. sc'.profiles = sc.profiles
    BY <1>2 DEF OptScope, OptionsInv, Stored, Contexts
  <2>3. QED
    BY <1>2, <2>1, <2>2 DEF OptScope, Option, Stay, options, OptionsInv, Scratch, NoStaleParameter, ZerosAreFirst
<1>3. ASSUME NEW i \in Interfaces, OptIfs(i) \/ OptIfsFails(i)
      PROVE  OptionsInv'
  <2>1. Stored'
    <3>0. <<i>> \in Seq(Interfaces) /\ <<i, i>> \in Seq(Interfaces)
      OBVIOUS
    <3>1. PICK pushed \in {<<i>>, <<i, i>>} : sc' = [sc EXCEPT !.eth_ifs = sc.eth_ifs \o pushed]
      BY <1>3 DEF OptIfs, OptIfsFails
    <3>2. sc.eth_ifs \in Seq(Interfaces)
      BY DEF OptionsInv, Stored, Contexts
    <3>3. pushed \in Seq(Interfaces)
      BY <3>0
    <3>4. sc.eth_ifs \o pushed \in Seq(Interfaces)
      BY <3>2, <3>3
    <3>5. QED
      BY <3>1, <3>4 DEF OptionsInv, Stored, Contexts
  <2>2. UNCHANGED options /\ (phase' = "options" => phase = "options")
    BY <1>3 DEF OptIfs, OptIfsFails, Stay, Exit
  <2>3. sc'.profiles = sc.profiles
    BY <1>3 DEF OptIfs, OptIfsFails, OptionsInv, Stored, Contexts
  <2>4. QED
    BY <2>1, <2>2, <2>3 DEF options, OptionsInv, Scratch, NoStaleParameter, ZerosAreFirst
<1>4. ASSUME NEW n \in Names \cup {NoText}, OptName(n)
      PROVE  OptionsInv'
  BY <1>4, SetFieldKeeps DEF OptName
<1>5. ASSUME NEW u \in Urls \cup {NoText}, OptUrl(u)
      PROVE  OptionsInv'
  BY <1>5, SetFieldKeeps DEF OptUrl
<1>6. ASSUME NEW f \in {"width", "height"}, NEW v \in Dimensions, OptDimension(f, v)
      PROVE  OptionsInv'
  <2>1. CASE InRange(v)
    <3>1. v \in 100..9999
      BY <2>1 DEF InRange, Assumptions, ServiceContextAssumption
    <3>2. Option /\ SetField(f, v)
      BY <1>6, <2>1 DEF OptDimension
    <3>3. /\ f \in {"name", "url", "width", "height"}
          /\ f # "name" /\ f # "url"
      BY <1>6
    <3>4. /\ f = "name" => v \in Names \cup {NoText}
          /\ f = "url" => v \in Urls \cup {NoText}
          /\ f \in {"width", "height"} => v \in 100..9999
      BY <3>1, <3>3
    <3>5. QED
      BY <3>2, <3>3, <3>4, SetFieldKeeps, SMTT(30)
  <2>2. CASE ~ InRange(v)
    BY <1>6, <2>2 DEF OptDimension, Exit, options, OptionsInv, Scratch, Stored, NoStaleParameter,
                      ZerosAreFirst
  <2>3. QED
    BY <2>1, <2>2
<1>7. ASSUME NEW t \in Types, OptType(t)
      PROVE  OptionsInv'
  <2> DEFINE full == [profile EXCEPT !.type = t]
             add == ServiceContext_add_profile(sc, full)
  <2>1. t \in Encodings
    BY DEF Assumptions, OnvifServerAssumption
  <2>2. full \in ScratchProfiles
    BY <2>1 DEF OptionsInv, Scratch, ScratchProfiles
  <2>3. /\ add.ret # 0 /\ add.sc \in Contexts
        /\ \/ add.sc = sc
           \/ /\ add.ret = 1
              /\ \A i \in DOMAIN add.sc.profiles :
                   add.sc.profiles[i].streamProfile
                     \in {full} \cup {sc.profiles[k].streamProfile : k \in DOMAIN sc.profiles}
    BY <2>2, AddProfile DEF OptionsInv, Stored
  <2>4. /\ sc' = add.sc /\ profile' = StreamProfile_clear /\ given' = {} /\ phase' = phase
        /\ first_profile' = IF first_profile # "none" THEN first_profile
                            ELSE IF add.ret = 1 THEN "stored" ELSE "refused"
        /\ phase = "options"
    BY <1>7, <2>3 DEF OptType, Stay, Option
  <2>5. NoZeros(profile) => NoZeros(full)
    BY DEF OptionsInv, Scratch, ScratchProfiles, NoZeros
  <2> HIDE DEF full, add
  <2>6. Scratch' /\ Stored'
    BY <2>3, <2>4, FreshProfiles DEF Scratch, Stored
  <2>7. NoStaleParameter'
    BY <2>4 DEF NoStaleParameter, StreamProfile_clear
  <2>8. ZerosAreFirst'
    <3>1. ZerosAreFirst
      BY DEF OptionsInv
    <3>2. NoZeros(profile')
      BY <2>4 DEF NoZeros, StreamProfile_clear
    <3>3. first_profile' # "none"
      BY <2>4
    <3>4. ASSUME first_profile' # "stored", NEW i \in DOMAIN add.sc.profiles
          PROVE  NoZeros(add.sc.profiles[i].streamProfile)
      <4>1. CASE add.sc = sc
        BY <2>4, <3>1, <3>4, <4>1 DEF ZerosAreFirst
      <4>2. CASE /\ add.ret = 1
                 /\ add.sc.profiles[i].streamProfile
                      \in {full} \cup {sc.profiles[k].streamProfile : k \in DOMAIN sc.profiles}
        <5>1. first_profile # "none" /\ first_profile # "stored"
          BY <2>4, <3>4, <4>2
        <5>2. NoZeros(full)
          BY <2>4, <2>5, <3>1, <5>1 DEF ZerosAreFirst
        <5>3. \A k \in DOMAIN sc.profiles : NoZeros(sc.profiles[k].streamProfile)
          BY <3>1, <5>1 DEF ZerosAreFirst
        <5>4. QED
          BY <4>2, <5>2, <5>3
      <4>3. QED
        BY <2>3, <4>1, <4>2
    <3>5. QED
      BY <2>4, <3>2, <3>3, <3>4 DEF ZerosAreFirst
  <2>9. QED
    BY <2>6, <2>7, <2>8 DEF OptionsInv
<1>8. CASE OptionsEnd
  BY <1>8, FreshProfiles DEF OptionsEnd, OptionsInv, Scratch, Stored, NoStaleParameter, ZerosAreFirst
<1>9. QED
  BY <1>1, <1>2, <1>3, <1>4, <1>5, <1>6, <1>7, <1>8 DEF processing_cmd

(* Start-up, requests and signals write none of what the options wrote.    *)
LEMMA RestKeeps ==
  ASSUME OptionsInv, init_soap \/ Loop \/ TermDefault \/ daemon_exit_handler \/ UNCHANGED vars
  PROVE  OptionsInv'
<1>1. UNCHANGED <<sc, options>> /\ (phase' = "options" => phase = "options")
  <2>1. CASE init_soap
    BY <2>1 DEF init_soap, InitSignals, CheckServiceCtx, InitGsoap, InitFails, Exit
  <2>2. CASE Loop
    BY <2>2 DEF Loop, Accept, AcceptFails, Serve, Exit
  <2>3. CASE TermDefault \/ daemon_exit_handler
    BY <2>3 DEF TermDefault, daemon_exit_handler, Exit
  <2>4. CASE UNCHANGED vars
    BY <2>4 DEF vars
  <2>5. QED
    BY <2>1, <2>2, <2>3, <2>4
<1>2. QED
  BY <1>1 DEF options, OptionsInv, Scratch, Stored, NoStaleParameter, ZerosAreFirst

LEMMA OptionsInvStep ==
  ASSUME Assumptions, OptionsInv, [Next]_vars
  PROVE  OptionsInv'
BY OptionKeeps, RestKeeps DEF Next, Exited

LEMMA NodesAreWhole ==
  ASSUME NEW node \in Nodes, node.key = node.streamProfile.name,
         first_profile # "stored" => NoZeros(node.streamProfile)
  PROVE  Whole(node)
<1>1. ASSUME NEW size \in Sizes \ {-1}, first_profile # "stored" => size # 0
      PROVE  Sized(size)
  BY <1>1 DEF Sizes, Sized
<1>2. node.key \in Names /\ node.streamProfile \in WholeProfiles
  BY DEF Nodes
<1>3. ASSUME NEW sp \in WholeProfiles, first_profile # "stored" => NoZeros(sp)
      PROVE  /\ sp.name \in Names /\ sp.url \in Urls /\ sp.type \in Encodings
             /\ Sized(sp.width) /\ Sized(sp.height)
  <2>1. sp.width \in Sizes \ {-1} /\ sp.height \in Sizes \ {-1}
    BY DEF WholeProfiles
  <2>2. Sized(sp.width) /\ Sized(sp.height)
    BY <1>1, <1>3, <2>1 DEF NoZeros
  <2>3. QED
    BY <2>2 DEF WholeProfiles
<1>4. QED
  BY <1>2, <1>3 DEF Whole

LEMMA StoredSuffices ==
  ASSUME OptionsInv
  PROVE  StoredProfilesWhole
<1>1. ASSUME NEW i \in DOMAIN sc.profiles
      PROVE  Whole(sc.profiles[i])
  <2>1. /\ sc.profiles[i] \in Nodes
        /\ sc.profiles[i].key = sc.profiles[i].streamProfile.name
        /\ first_profile # "stored" => NoZeros(sc.profiles[i].streamProfile)
    BY <1>1 DEF OptionsInv, Stored, Contexts, ZerosAreFirst
  <2>2. QED
    BY <2>1, NodesAreWhole
<1>2. QED
  BY <1>1 DEF StoredProfilesWhole

-----------------------------------------------------------------------------
(* onvif_srvd.c, ServiceContext.c: a profile the services can reach has a   *)
(* name, a URL and an encoding, and sizes in range, or the constructor's    *)
(* zero if it came with the first --type, whatever options were given in    *)
(* whatever order.                                                         *)
THEOREM StoredProfilesAlwaysWhole ==
  ASSUME Assumptions
  PROVE  Spec => []StoredProfilesWhole
<1>1. Init => OptionsInv
  BY OptionsInvInit
<1>2. OptionsInv /\ [Next]_vars => OptionsInv'
  BY OptionsInvStep
<1>3. OptionsInv => StoredProfilesWhole
  BY StoredSuffices
<1>4. QED
  BY <1>1, <1>2, <1>3, PTL DEF Spec

(* onvif_srvd.c: the one scratch profile holds nothing that an earlier      *)
(* profile, accepted or refused, was given.                                *)
THEOREM ParametersNeverStale ==
  ASSUME Assumptions
  PROVE  Spec => []NoStaleParameter
<1>1. Init => OptionsInv
  BY OptionsInvInit
<1>2. OptionsInv /\ [Next]_vars => OptionsInv'
  BY OptionsInvStep
<1>3. OptionsInv => NoStaleParameter
  BY DEF OptionsInv
<1>4. QED
  BY <1>1, <1>2, <1>3, PTL DEF Spec

-----------------------------------------------------------------------------
(* Replies.  The map holds one profile at most, which is all that replies   *)
(* can name; nothing is named before the loop, and in it nothing changes    *)
(* the map.                                                                *)
Stored1 == sc.profiles[1].streamProfile

NothingTold == [profile |-> {}, configuration |-> {}, source |-> {}]

ToldIsStored ==
  /\ phase \in {"options", "signals", "check", "bind"} => told = NothingTold
  /\ told.profile # {} \/ told.source # {} => sc.profiles # <<>>
  /\ told.profile \subseteq {Token(Stored1.name)}
  /\ told.source \subseteq {SourceToken(Stored1.name)}

Answered ==
  /\ phase = "serve" => request \in Requests
  /\ phase = "accept" /\ request # NoRequest => reply = Answer(request)
  /\ phase \in {"options", "signals", "check", "bind"} => request = NoRequest

RepliesInv == OptionsInv /\ ToldIsStored /\ Answered

LEMMA OneProfile ==
  ASSUME Stored
  PROVE  \/ sc.profiles = <<>>
         \/ /\ sc.profiles # <<>> /\ Len(sc.profiles) = 1 /\ DOMAIN sc.profiles = {1}
            /\ sc.profiles[1].key = Stored1.name
BY DEF Stored, Contexts, Stored1

LEMMA OpsKnown ==
  ASSUME NEW r \in Requests
  PROVE  r.op \in {"GetVideoSources", "GetProfiles", "GetVideoEncoderConfiguration",
                   "GetVideoEncoderConfigurationOptions", "GetScopes", "GetNetworkInterfaces",
                   "Other", "GetProfile", "GetVideoSourceConfiguration", "GetStreamUri",
                   "GetServices"}
BY DEF Requests, AllRequests

(* The profiles a reply lists: none, or the stored one.                    *)
LEMMA RepliesListStored ==
  ASSUME Stored, NEW r \in Requests
  PROVE  \/ Answer(r).profiles = <<>>
         \/ sc.profiles # <<>> /\ Answer(r).profiles = <<get_profile(Stored1)>>
<1>1. CASE r.op = "GetProfile"
  <2>1. Answer(r) = GetProfile(sc, r.token)
    BY <1>1 DEF Answer
  <2>2. CASE StreamProfileMapFind(sc.profiles, r.token) = 0
    BY <2>1, <2>2 DEF GetProfile, Failed, Empty
  <2>3. CASE StreamProfileMapFind(sc.profiles, r.token) # 0
    <3>1. StreamProfileMapFind(sc.profiles, r.token) = 1 /\ sc.profiles # <<>>
      BY <2>3, OneProfile DEF StreamProfileMapFind
    <3>2. QED
      BY <2>1, <3>1 DEF GetProfile, Empty, Stored1
  <2>4. QED
    BY <2>2, <2>3
<1>2. CASE r.op = "GetProfiles"
  <2>1. Answer(r) = GetProfiles(sc)
    BY <1>2 DEF Answer
  <2>2. CASE sc.profiles = <<>>
    BY <2>1, <2>2 DEF GetProfiles, Failed, Empty
  <2>3. CASE sc.profiles # <<>>
    <3>1. Len(sc.profiles) = 1
      BY <2>3, OneProfile
    <3>2. Answer(r).profiles = [i \in 1..1 |-> IF i = 1 THEN get_profile(Stored1) ELSE Zeroed]
      BY <2>1, <3>1 DEF GetProfiles, Empty, Stored1
    <3>3. QED
      BY <2>3, <3>2
  <2>4. QED
    BY <2>2, <2>3
<1>3. CASE r.op \notin {"GetProfile", "GetProfiles"}
  BY <1>3, OpsKnown DEF Answer, GetVideoSources, GetVideoSourceConfiguration,
     GetVideoEncoderConfiguration, GetVideoEncoderConfigurationOptions, GetStreamUri, GetServices,
     GetScopes, GetNetworkInterfaces, OtherHandler, Failed, Empty
<1>4. QED
  BY <1>1, <1>2, <1>3

LEMMA RepliesInvInit ==
  ASSUME Init
  PROVE  RepliesInv
BY OptionsInvInit DEF Init, RepliesInv, ToldIsStored, Answered, NothingTold

LEMMA ServeKeeps ==
  ASSUME Assumptions, RepliesInv, Serve
  PROVE  ToldIsStored' /\ Answered'
<1> USE DEF RepliesInv, OptionsInv
<1>1. /\ phase = "serve" /\ phase' = "accept" /\ request \in Requests
      /\ reply' = Answer(request) /\ told' = Learn(told, reply') /\ UNCHANGED <<sc, request>>
  BY DEF Serve, Answered
<1>2. Answered'
  BY <1>1 DEF Answered, Answer
<1>3. ToldIsStored'
  <2>1. CASE reply'.profiles = <<>>
    <3>1. told'.profile = told.profile /\ told'.source = told.source
      BY <1>1, <2>1 DEF Learn
    <3>2. QED
      BY <1>1, <3>1 DEF ToldIsStored, Stored1
  <2>2. CASE sc.profiles # <<>> /\ reply'.profiles = <<get_profile(Stored1)>>
    <3>1. {reply'.profiles[i] : i \in DOMAIN reply'.profiles} = {get_profile(Stored1)}
      BY <2>2
    <3>2. /\ told'.profile \subseteq told.profile \cup {get_profile(Stored1).token}
          /\ told'.source \subseteq told.source \cup {get_profile(Stored1).video_source.source}
      BY <1>1, <3>1 DEF Learn
    <3>3. /\ get_profile(Stored1).token = Token(Stored1.name)
          /\ get_profile(Stored1).video_source.source = SourceToken(Stored1.name)
      BY DEF get_profile, get_video_src_cnf
    <3>4. QED
      BY <1>1, <2>2, <3>2, <3>3 DEF ToldIsStored, Stored1
  <2>3. QED
    BY <1>1, <2>1, <2>2, RepliesListStored
<1>4. QED
  BY <1>2, <1>3

LEMMA RepliesInvStep ==
  ASSUME Assumptions, RepliesInv, [Next]_vars
  PROVE  RepliesInv'
<1> USE DEF RepliesInv
<1>1. OptionsInv'
  BY OptionsInvStep
<1>2. CASE processing_cmd
  <2>1. /\ phase = "options" /\ phase' \in {"options", "signals", "exited"}
        /\ UNCHANGED <<told, request>>
    BY <1>2 DEF processing_cmd, OptHelp, OptUnknown, OptScope, OptIfs, OptIfsFails, OptName, OptUrl,
       OptDimension, OptType, OptBadType, OptionsEnd, SetField, Option, Stay, Exit, replies
  <2>2. ToldIsStored'
    BY <2>1 DEF ToldIsStored, NothingTold
  <2>3. QED
    BY <1>1, <2>1, <2>2 DEF Answered
<1>3. CASE init_soap \/ TermDefault \/ daemon_exit_handler \/ AcceptFails \/ UNCHANGED vars
  <2>1. /\ UNCHANGED <<sc, public_ip, told, request, reply>>
        /\ \/ phase' = "exited" \/ UNCHANGED phase
           \/ phase \in {"signals", "check", "bind"} /\ phase' \in {"check", "bind", "accept"}
    BY <1>3 DEF init_soap, InitSignals, CheckServiceCtx, InitGsoap, InitFails, TermDefault,
       daemon_exit_handler, AcceptFails, Exit, replies, vars
  <2>2. ToldIsStored'
    BY <2>1 DEF ToldIsStored, Stored1
  <2>3. Answered'
    <3>1. Answer(request)' = Answer(request)
      BY <2>1 DEF Answer
    <3>2. QED
      BY <2>1, <3>1 DEF Answered
  <2>4. QED
    BY <1>1, <2>2, <2>3
<1>4. ASSUME NEW r \in Requests, Accept(r)
      PROVE  RepliesInv'
  BY <1>1, <1>4 DEF Accept, ToldIsStored, Answered, Stored1
<1>5. CASE Serve
  BY <1>1, <1>5, ServeKeeps
<1>6. QED
  BY <1>2, <1>3, <1>4, <1>5 DEF Next, Loop, Exited

LEMMA RepliesSuffice ==
  ASSUME RepliesInv
  PROVE  AdvertisedTokensResolve
<1> USE DEF RepliesInv, OptionsInv
<1>1. ASSUME phase = "accept", request.op = "GetProfile", request.token \in told.profile
      PROVE  reply.code = "SOAP_OK" /\ reply.profiles[1].token = request.token
  <2>1. reply = GetProfile(sc, request.token)
    BY <1>1 DEF Answered, NoRequest, Answer
  <2>2. sc.profiles # <<>> /\ request.token = Token(Stored1.name)
    BY <1>1 DEF ToldIsStored
  <2>3. StreamProfileMapFind(sc.profiles, request.token) = 1
    BY <2>2, OneProfile DEF StreamProfileMapFind
  <2>4. reply.code = "SOAP_OK" /\ reply.profiles = <<get_profile(Stored1)>>
    BY <2>1, <2>3 DEF GetProfile, Empty, Stored1
  <2>5. QED
    BY <2>2, <2>4 DEF get_profile
<1>2. ASSUME phase = "accept", request.op = "GetVideoSources"
      PROVE  told.source \subseteq {reply.sources[i] : i \in DOMAIN reply.sources}
  <2>1. reply = GetVideoSources(sc)
    BY <1>2 DEF Answered, NoRequest, Answer
  <2>2. CASE told.source = {}
    BY <2>2
  <2>3. CASE told.source # {}
    <3>1. sc.profiles # <<>> /\ told.source \subseteq {SourceToken(Stored1.name)}
      BY <2>3 DEF ToldIsStored
    <3>2. DOMAIN reply.sources = {1} /\ reply.sources[1] = SourceToken(Stored1.name)
      BY <2>1, <3>1, OneProfile DEF GetVideoSources, Empty, Stored1
    <3>3. QED
      BY <3>1, <3>2
  <2>4. QED
    BY <2>2, <2>3
<1>3. QED
  BY <1>1, <1>2 DEF AdvertisedTokensResolve, AdvertisedProfile, AdvertisedSource

(* ServiceMedia.c: a profile token that any reply has named is understood   *)
(* by GetProfile for ever after, and the source tokens of the profiles are  *)
(* those of GetVideoSources.                                               *)
THEOREM AdvertisedTokensAlwaysResolve ==
  ASSUME Assumptions
  PROVE  Spec => []AdvertisedTokensResolve
<1>1. Init => RepliesInv
  BY RepliesInvInit
<1>2. RepliesInv /\ [Next]_vars => RepliesInv'
  BY RepliesInvStep
<1>3. RepliesInv => AdvertisedTokensResolve
  BY RepliesSuffice
<1>4. QED
  BY <1>1, <1>2, <1>3, PTL DEF Spec

-----------------------------------------------------------------------------
(* Requests are only served with an interface, a scope and a profile, as    *)
(* check_service_ctx has seen them and nothing changes them afterwards.     *)
ServingIsConfigured == phase \in {"bind", "accept", "serve"} => Configured

ServingInv == RepliesInv /\ ServingIsConfigured

LEMMA ServingInvStep ==
  ASSUME Assumptions, ServingInv, [Next]_vars
  PROVE  ServingInv'
<1> USE DEF ServingInv
<1>1. RepliesInv'
  BY RepliesInvStep
<1>2. CASE processing_cmd
  <2>1. phase' \in {"options", "signals", "exited"}
    BY <1>2 DEF processing_cmd, OptHelp, OptUnknown, OptScope, OptIfs, OptIfsFails, OptName, OptUrl,
       OptDimension, OptType, OptBadType, OptionsEnd, SetField, Option, Stay, Exit
  <2>2. QED
    BY <1>1, <2>1 DEF ServingIsConfigured
<1>3. CASE init_soap
  BY <1>1, <1>3 DEF init_soap, InitSignals, CheckServiceCtx, InitGsoap, InitFails, Exit,
     ServingIsConfigured, Configured
<1>4. CASE Loop \/ TermDefault \/ daemon_exit_handler \/ UNCHANGED vars
  BY <1>1, <1>4 DEF Loop, Accept, AcceptFails, Serve, TermDefault, daemon_exit_handler, Exit, vars,
     ServingIsConfigured, Configured
<1>5. QED
  BY <1>2, <1>3, <1>4 DEF Next, Exited

LEMMA ServingSuffices ==
  ASSUME ServingInv
  PROVE  TemplateFilled
<1> DEFINE if == sc.eth_ifs[1]
           url == sc.profiles[1].streamProfile.url
<1> SUFFICES ASSUME phase = "accept", request.op = "GetStreamUri", public_ip = NoText, if \in Addressed,
                    NEW u \in reply.uris, u.url \in Templates
             PROVE  \E i \in DOMAIN sc.eth_ifs : u.host = sc.eth_ifs[i]
  BY DEF TemplateFilled
<1>1. sc.eth_ifs # <<>> /\ sc.profiles # <<>> /\ sc.eth_ifs \in Seq(Interfaces)
  BY DEF ServingInv, ServingIsConfigured, Configured, RepliesInv, OptionsInv, Stored, Contexts
<1>2. reply = GetStreamUri(sc, public_ip, request.client)
  BY DEF ServingInv, RepliesInv, Answered, NoRequest, Answer
<1>3. u \in get_stream_uri(sc, public_ip, url, request.client)
  BY <1>1, <1>2 DEF GetStreamUri, Empty
<1>4. url \in Templates
  BY <1>3 DEF get_stream_uri
<1>5. PICK ip \in getServerIpFromClientIp(sc, public_ip, request.client) : u = [url |-> url, host |-> ip]
  BY <1>3, <1>4 DEF get_stream_uri
<1>6. ip = if
  BY <1>1, <1>5 DEF getServerIpFromClientIp, OwnIp
<1>7. 1 \in DOMAIN sc.eth_ifs
  BY <1>1
<1>8. QED
  BY <1>5, <1>6, <1>7

(* ServiceContext.c: whatever the command line, a URL with a place for the  *)
(* server's address is told to every client with the address of one of the  *)
(* device's interfaces, if the first has one and there is no public one.    *)
THEOREM TemplatesAlwaysFilled ==
  ASSUME Assumptions
  PROVE  Spec => []TemplateFilled
<1>1. Init => ServingInv
  BY RepliesInvInit DEF ServingInv, ServingIsConfigured, Init
<1>2. ServingInv /\ [Next]_vars => ServingInv'
  BY ServingInvStep
<1>3. ServingInv => TemplateFilled
  BY ServingSuffices
<1>4. QED
  BY <1>1, <1>2, <1>3, PTL DEF Spec

-----------------------------------------------------------------------------
(* Type correctness.  What the profile and the context hold follows from    *)
(* OptionsInv; Histories types the rest.                                    *)
Histories ==
  /\ phase \in {"options", "signals", "check", "bind", "accept", "serve", "exited"}
  /\ status \in {"none", "success", "failure", "killed"}
  /\ soap \in {"null", "bound", "freed"}
  /\ public_ip \in PublicIps
  /\ request \in Requests \cup {NoRequest}
  /\ add_ret \in {0, 1, -10, -20}
  /\ accepted \subseteq Names
  /\ given \subseteq {"name", "url", "width", "height"}
  /\ first_profile \in {"none", "stored", "refused"}
  /\ told \in [profile : SUBSET Tokens, configuration : SUBSET Tokens, source : SUBSET Tokens]

TypeInv == OptionsInv /\ Histories

LEMMA TypeSuffices ==
  ASSUME TypeInv
  PROVE  TypeOK
<1> USE DEF TypeInv, OptionsInv, Sizes
<1>1. ScratchProfiles \subseteq StreamProfiles /\ WholeProfiles \subseteq StreamProfiles
  <2>1. Sizes \subseteq Int
    OBVIOUS
  <2> HIDE DEF Sizes
  <2>2. QED
    BY <2>1 DEF ScratchProfiles, WholeProfiles, StreamProfiles
<1>2. Nodes \subseteq [key : Names, streamProfile : StreamProfiles]
  BY <1>1 DEF Nodes
<1>3. /\ sc.eth_ifs \in Seq(Interfaces) /\ sc.scopes \in Seq(Scopes)
      /\ sc.profiles \in Seq([key : Names, streamProfile : StreamProfiles])
  <2> DEFINE Records == Seq([key : Names, streamProfile : StreamProfiles])
  <2>1. sc.profiles = <<>> \/ \E node \in Nodes : sc.profiles = <<node>>
    BY DEF Stored, Contexts
  <2>2. <<>> \in Records /\ \A node \in Nodes : <<node>> \in Records
    BY <1>2
  <2> HIDE DEF Records
  <2>3. sc.profiles \in Records
    BY <2>1, <2>2
  <2>4. QED
    BY <2>3 DEF Records, Stored, Contexts
<1>4. QED
  BY <1>1, <1>3 DEF TypeOK, Histories, Scratch

LEMMA LearnIsTyped ==
  ASSUME NEW known \in [profile : SUBSET Tokens, configuration : SUBSET Tokens, source : SUBSET Tokens], NEW a
  PROVE  Learn(known, a) \in [profile : SUBSET Tokens, configuration : SUBSET Tokens, source : SUBSET Tokens]
BY DEF Learn, Profile

LEMMA AcceptedHasName ==
  ASSUME NEW c, NEW sp \in ScratchProfiles, ServiceContext_add_profile(c, sp).ret = 1
  PROVE  sp.name \in Names
BY DEF ServiceContext_add_profile, StreamProfile_is_valid, ScratchProfiles

LEMMA HistoriesKept ==
  ASSUME Assumptions, TypeInv, [Next]_vars
  PROVE  Histories'
<1> USE DEF TypeInv, Histories
<1>1. CASE OptHelp \/ OptUnknown \/ OptBadType \/ OptionsEnd
  BY <1>1 DEF OptHelp, OptUnknown, OptBadType, OptionsEnd, Option, Exit, options, replies
<1>2. ASSUME \/ \E s \in Scopes : OptScope(s)
             \/ \E i \in Interfaces : OptIfs(i) \/ OptIfsFails(i)
      PROVE  Histories'
  BY <1>2 DEF OptScope, OptIfs, OptIfsFails, Option, Stay, Exit, options, replies
<1>3. ASSUME \/ \E n \in Names \cup {NoText} : OptName(n)
             \/ \E u \in Urls \cup {NoText} : OptUrl(u)
             \/ \E f \in {"width", "height"}, v \in Dimensions : OptDimension(f, v)
      PROVE  Histories'
  BY <1>3, ZenonT(40) DEF OptName, OptUrl, OptDimension,
     SetField, Option, Stay, Exit, options, replies
<1>4. ASSUME NEW t \in Types, OptType(t)
      PROVE  Histories'
  <2> DEFINE full == [profile EXCEPT !.type = t]
             add == ServiceContext_add_profile(sc, full)
  <2>1. full \in ScratchProfiles
    BY DEF Assumptions, OnvifServerAssumption, OptionsInv, Scratch, ScratchProfiles
  <2>2. add.ret \in {1, -10, -20}
    BY <2>1, AddProfile DEF OptionsInv, Stored
  <2>3. add.ret = 1 => full.name \in Names
    BY <2>1, AcceptedHasName
  <2>4. /\ Option /\ Stay /\ add_ret' = add.ret /\ given' = {}
        /\ first_profile' \in {first_profile, "stored", "refused"}
        /\ accepted' = IF add.ret = 1 THEN accepted \cup {full.name} ELSE accepted
    BY <1>4, <2>2 DEF OptType
  <2> HIDE DEF full, add
  <2>5. QED
    BY <2>2, <2>3, <2>4 DEF Option, Stay, replies
<1>5. CASE init_soap \/ TermDefault \/ daemon_exit_handler \/ AcceptFails \/ UNCHANGED vars
  BY <1>5, ZenonT(40) DEF init_soap, InitSignals, CheckServiceCtx, InitGsoap,
     InitFails, TermDefault,
     daemon_exit_handler, AcceptFails, Exit, options, replies, vars
<1>6. ASSUME NEW r \in Requests, Accept(r)
      PROVE  Histories'
  BY <1>6 DEF Accept, options
<1>7. CASE Serve
  <2>1. told' \in [profile : SUBSET Tokens, configuration : SUBSET Tokens, source : SUBSET Tokens]
    BY <1>7, LearnIsTyped DEF Serve
  <2>2. QED
    BY <1>7, <2>1 DEF Serve, options
<1>8. QED
  BY <1>1, <1>2, <1>3, <1>4, <1>5, <1>6, <1>7 DEF Next, processing_cmd, Loop, Exited

(* onvif_srvd.c: the daemon's state keeps its types through any options,    *)
(* requests and signals; the context holds profiles under their names.      *)
THEOREM ServerTypeCorrect ==
  ASSUME Assumptions
  PROVE  Spec => []TypeOK
<1>1. Init => TypeInv
  <2>1. [profile |-> {}, configuration |-> {}, source |-> {}]
          \in [profile : SUBSET Tokens, configuration : SUBSET Tokens, source : SUBSET Tokens]
    OBVIOUS
  <2>2. QED
    BY <2>1, OptionsInvInit DEF Init, TypeInv, Histories
<1>2. TypeInv /\ [Next]_vars => TypeInv'
  BY OptionsInvStep, HistoriesKept DEF TypeInv
<1>3. TypeInv => TypeOK
  BY TypeSuffices
<1>4. QED
  BY <1>1, <1>2, <1>3, PTL DEF Spec
=============================================================================
