--------------------------- MODULE ServiceContext ---------------------------
(***************************************************************************)
(* ServiceContext.c: what the daemon knows of itself, and the helpers the  *)
(* Device and Media services are written with.                             *)
(*                                                                         *)
(* A context sc is a record of three lists.  eth_ifs and scopes are        *)
(* linkedLists, used through Push and a First/Next traversal only, hence   *)
(* sequences (module LinkedList shows that Push appends).  profiles is the *)
(* StreamProfileMap: the sequence of nodes reachable through next.         *)
(*                                                                         *)
(* A token is <<name, suffix>>: the code builds tokens with strcat.        *)
(***************************************************************************)
EXTENDS Integers, Sequences

CONSTANTS
  Names,       \* profile names
  Urls,        \* stream URLs
  Templates,   \* those of Urls that hold a %s
  Dimensions,  \* arguments of --width and --height
  Scopes,      \* arguments of --scope
  Interfaces,  \* arguments of --ifs, each standing for its own IP address
  Addressed,   \* those of Interfaces that have an IP address
  Clients,     \* client addresses
  InSubnet,    \* pairs <<client, interface>> of one subnet
  NoText,      \* the empty string
  PublicIps,   \* the addresses rtsp.ini may give, NoText for none
  Localhost    \* 127.0.0.1

ASSUME ServiceContextAssumption ==
  /\ NoText \notin Names \cup Urls \cup Scopes \cup Interfaces \cup Clients
  /\ Templates \subseteq Urls
  /\ Dimensions \subseteq Int
  /\ Addressed \subseteq Interfaces

Encodings == 0 .. 2      \* tt__VideoEncoding: JPEG, MPEG4, H264

StreamProfiles == [name : Names \cup {NoText}, url : Urls \cup {NoText},
                   width : Int, height : Int, type : Encodings \cup {-1}]

Suffixes == {"", "_video_source", "_video_encoder"}
Tokens == Names \X Suffixes
Token(name) == <<name, "">>
SourceToken(name) == <<name, "_video_source">>
EncoderToken(name) == <<name, "_video_encoder">>

-----------------------------------------------------------------------------
(* StreamProfile: the constructor zeroes, clear marks every field unset.   *)
StreamProfile_Constructor ==
  [name |-> NoText, url |-> NoText, width |-> 0, height |-> 0, type |-> 0]

(* Mutant of clear: zeroes, as the constructor does.                       *)
StreamProfile_zero == StreamProfile_Constructor

StreamProfile_clear ==
  [name |-> NoText, url |-> NoText, width |-> -1, height |-> -1, type |-> -1]

(* set_width and set_height accept the same range.                         *)
InRange(val) == val >= 100 /\ val < 10000

(* Mutant of is_valid: the name is not looked at.                          *)
StreamProfile_is_valid_unnamed(sp) ==
  /\ sp.url # NoText
  /\ sp.width # -1
  /\ sp.height # -1
  /\ sp.type # -1

StreamProfile_is_valid(sp) ==
  /\ sp.name # NoText
  /\ sp.url # NoText
  /\ sp.width # -1
  /\ sp.height # -1
  /\ sp.type # -1

-----------------------------------------------------------------------------
(* The map.  Find gives the first node with the key, or 0 for NULL.        *)
StreamProfileMapFind(map, findme) ==
  LET hits == {i \in DOMAIN map : Token(map[i].key) = findme}
  IN  IF hits = {} THEN 0 ELSE CHOOSE i \in hits : \A j \in hits : i <= j

(* Add fills the embedded first node if it is free.  Otherwise it allocates *)
(* a node and returns it, but sets no next pointer to it.                  *)
StreamProfileMapAdd(map, profile) ==
  IF map = <<>> THEN <<[key |-> profile.name, streamProfile |-> profile]>> ELSE map

ServiceContext_Constructor == [eth_ifs |-> <<>>, scopes |-> <<>>, profiles |-> <<>>]

(* The return value and the context after the call.                        *)
ServiceContext_add_profile(sc, profile) ==
  IF ~ StreamProfile_is_valid(profile)
  THEN [ret |-> -10, sc |-> sc]
  ELSE IF StreamProfileMapFind(sc.profiles, Token(profile.name)) # 0
  THEN [ret |-> -20, sc |-> sc]
  ELSE [ret |-> 1, sc |-> [sc EXCEPT !.profiles = StreamProfileMapAdd(@, profile)]]

-----------------------------------------------------------------------------
(* The server's address for a client.  Every path of the loop body returns, *)
(* so only the first interface counts.  Without an address on it, if_ip    *)
(* and if_mask are compared uninitialised, and both branches are possible. *)
SubnetTest(client, if) ==
  IF if \in Addressed THEN {(<<client, if>> \in InSubnet)} ELSE BOOLEAN

OwnIp(if, failed) == IF if \in Addressed THEN if ELSE failed

(* Mutant: the loop goes on to the interface of the client's subnet.       *)
getServerIpOfSubnet(sc, public_ip, client) ==
  LET own == {i \in DOMAIN sc.eth_ifs : <<client, sc.eth_ifs[i]>> \in InSubnet}
  IN  IF own = {} THEN {Localhost} ELSE {sc.eth_ifs[i] : i \in own}

getServerIpFromClientIp(sc, public_ip, client) ==
  IF sc.eth_ifs = <<>>
  THEN {Localhost}
  ELSE LET if == sc.eth_ifs[1] IN
       {IF same THEN OwnIp(if, Localhost)
        ELSE IF public_ip # NoText THEN public_ip ELSE OwnIp(if, NoText)
          : same \in SubnetTest(client, if)}

getXAddr(sc, public_ip, client) ==
  IF public_ip # NoText THEN {public_ip} ELSE getServerIpFromClientIp(sc, public_ip, client)

get_stream_uri(sc, public_ip, url, client) ==
  IF url \in Templates
  THEN {[url |-> url, host |-> ip] : ip \in getServerIpFromClientIp(sc, public_ip, client)}
  ELSE {[url |-> url, host |-> NoText]}

-----------------------------------------------------------------------------
(* What StreamProfile_get_profile tells of a stored profile.               *)
get_video_src_cnf(sp) == [token |-> SourceToken(sp.name), source |-> SourceToken(sp.name)]

get_video_enc_cfg(sp) == [token |-> EncoderToken(sp.name), encoding |-> sp.type]

(* The mutant names it by its video source.                                *)
get_profile_by_source(sp) ==
  [token |-> SourceToken(sp.name), video_source |-> get_video_src_cnf(sp),
   video_encoder |-> get_video_enc_cfg(sp)]

get_profile(sp) ==
  [token |-> Token(sp.name), video_source |-> get_video_src_cnf(sp),
   video_encoder |-> get_video_enc_cfg(sp)]
=============================================================================
