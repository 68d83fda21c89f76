---------------------------- MODULE SocketClient ----------------------------
(***************************************************************************)
(* socket_client.c: clients that connect, send a request, wait for an       *)
(* answer with a timeout and read it, either to the end of the connection   *)
(* or, if they keep it alive, to the first line end.  They are threads of   *)
(* one process, which the system gives the number of a closed descriptor    *)
(* again, while a client may still hold it.                                *)
(***************************************************************************)
EXTENDS Connections, FiniteSets

CONSTANTS
  Clients,
  KeepAlive,    \* those of them whose keep_alive is set
  RequestMax    \* bound on the requests of all clients

ASSUME SocketClientAssumption == KeepAlive \subseteq Clients /\ RequestMax \in Nat

VARIABLES
  initialized,
  sock_local,     \* the connection its descriptor stands for, or NULL; it may
                  \* have been closed, or made by another client
  step,           \* of SocketClient_send: "idle", "select", "recv" or "callback"
  request,        \* the number of the last request
  rcvBuffer       \* what was read since, for the callback

clientVars == <<initialized, sock_local, step, request, rcvBuffer>>

NULL == 0

ClientInit ==
  /\ initialized = [p \in Clients |-> FALSE]
  /\ sock_local = [p \in Clients |-> NULL]
  /\ step = [p \in Clients |-> "idle"]
  /\ request = [p \in Clients |-> 0]
  /\ rcvBuffer = [p \in Clients |-> <<>>]

(* Clients that hold the number of the connection c; NULL is none.          *)
Holders(c) == {q \in Clients : sock_local[q] = c /\ c # NULL}

(* The new connection may get the number of one that is closed: it is then  *)
(* the connection of everyone who still holds that number.                 *)
Connect(p) ==
  /\ listening /\ made < ConnMax /\ Len(backlog) < BacklogMax
  /\ made' = made + 1
  /\ backlog' = Append(backlog, made + 1)
  /\ \E c \in {NULL} \cup {c \in Conns : clientEnd'[c] # "open"} :
       sock_local' = [q \in Clients |-> IF q \in {p} \cup Holders(c) THEN made + 1 ELSE sock_local[q]]

Close(c) ==
  /\ clientEnd' = [clientEnd EXCEPT ![c] = IF @ = "open" THEN EndAfter(c) ELSE @]
  /\ toClient' = [toClient EXCEPT ![c] = <<>>]

(* Mutant of CloseFailed: the connection is kept for another try.           *)
KeepFailed(p) == UNCHANGED <<clientEnd, toClient, sock_local>>

(* What every failure of SocketClient_send does; the client cannot connect  *)
(* again after it, since SocketClient_reConnect refuses a NULL socket.      *)
CloseFailed(p) == Close(sock_local[p]) /\ sock_local' = [sock_local EXCEPT ![p] = NULL]

SocketClient_Constructor(p) ==
  /\ ~ initialized[p]
  /\ initialized' = [initialized EXCEPT ![p] = TRUE]
  /\ UNCHANGED <<step, request, rcvBuffer, toServer, toClient, clientEnd, serverEnd>>
  /\ Connect(p)
  /\ UNCHANGED listening

SocketClient_reConnect(p) ==
  /\ step[p] = "idle" /\ initialized[p] /\ sock_local[p] # NULL
  /\ Close(sock_local[p])
  /\ Connect(p) \/ UNCHANGED <<made, backlog, sock_local>>
  /\ UNCHANGED <<initialized, step, request, rcvBuffer, listening, toServer, serverEnd>>

(* On a connection that was closed here send fails, on one that the server  *)
(* has closed it can.                                                      *)
SocketClient_send(p) ==
  LET c == sock_local[p]
  IN  /\ step[p] = "idle" /\ initialized[p] /\ c # NULL
      /\ FoldFunction(+, 0, request) < RequestMax
      /\ request' = [request EXCEPT ![p] = @ + 1]
      /\ \/ /\ clientEnd[c] # "open" \/ serverEnd[c] = "closed"
            /\ CloseFailed(p)
            /\ UNCHANGED <<step, toServer>>
         \/ /\ clientEnd[c] = "open"
            /\ step' = [step EXCEPT ![p] = "select"]
            /\ toServer' = IF serverEnd[c] = "closed" THEN toServer ELSE [toServer EXCEPT ![c] = Append(@, request'[p])]
            /\ UNCHANGED <<sock_local, clientEnd, toClient>>
      /\ UNCHANGED <<initialized, rcvBuffer, listening, made, backlog, serverEnd>>

(* select gives up after 9 seconds; when it reports something, recv comes   *)
(* next and what it then finds is what select has seen, or more.           *)
Timeout(p) ==
  /\ step[p] = "select"
  /\ ~ ClientReadable(sock_local[p])
  /\ step' = [step EXCEPT ![p] = "idle"]
  /\ CloseFailed(p)
  /\ UNCHANGED <<initialized, request, rcvBuffer, listening, made, backlog, toServer, serverEnd>>

(* A client that keeps the connection alive reads until it has a line end,  *)
(* the others to the end of the connection.                                *)
Receive(p) ==
  LET c == sock_local[p]
  IN  /\ step[p] \in {"select", "recv"}
      /\ \E n \in 1..Len(toClient[c]) :
           /\ rcvBuffer' = [rcvBuffer EXCEPT ![p] = @ \o Taken(toClient[c], n)]
           /\ toClient' = [toClient EXCEPT ![c] = Left(@, n)]
      /\ step' = IF p \in KeepAlive /\ \E k \in DOMAIN rcvBuffer'[p] : rcvBuffer'[p][k].eol
                 THEN [step EXCEPT ![p] = "callback"] ELSE [step EXCEPT ![p] = "recv"]
      /\ UNCHANGED <<initialized, sock_local, request, listening, made, backlog, toServer, clientEnd, serverEnd>>

(* recv returns 0, or fails as the descriptor was closed by another client. *)
ReceiveEnd(p) ==
  LET c == sock_local[p]
  IN  /\ step[p] \in {"select", "recv"}
      /\ toClient[c] = <<>> /\ (serverEnd[c] = "closed" \/ clientEnd[c] # "open")
      /\ step' = [step EXCEPT ![p] = "callback"]
      /\ UNCHANGED <<initialized, sock_local, request, rcvBuffer, netVars>>

(* The callback has the answer, and the connection is closed or kept alive; *)
(* a descriptor that is closed here is still in sock_local.                 *)
Callback(p) ==
  /\ step[p] = "callback"
  /\ IF p \in KeepAlive THEN UNCHANGED <<clientEnd, toClient>> ELSE Close(sock_local[p])
  /\ step' = [step EXCEPT ![p] = "idle"]
  /\ rcvBuffer' = [rcvBuffer EXCEPT ![p] = <<>>]
  /\ UNCHANGED <<initialized, sock_local, request, listening, made, backlog, toServer, serverEnd>>

ClientNext(p) ==
  \/ SocketClient_Constructor(p) \/ SocketClient_reConnect(p) \/ SocketClient_send(p)
  \/ Timeout(p) \/ Receive(p) \/ ReceiveEnd(p) \/ Callback(p)
=============================================================================
