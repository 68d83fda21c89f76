---------------------------- MODULE SocketProofs ----------------------------
(***************************************************************************)
(* NeverBlocks, AsyncReachesAll and AnswersAreToRequests for any number of  *)
(* clients, places and connections.                                        *)
(*                                                                         *)
(* A handle stays worth serving from select to its turn (Worthwhile): no    *)
(* client can take back what it has sent or its end, and what the server    *)
(* does for one place touches only the connection of that place.  For the   *)
(* latter every connection has one place at most, in the table or in the    *)
(* backlog (Alone), and the client being answered keeps its own (Answering). *)
(*                                                                         *)
(* On a connection that one client holds, what is on its way is at most one *)
(* request or its answer, and anything else is due to an async message.     *)
(***************************************************************************)
EXTENDS MCSockets, Foundations, SequenceTheorems

NetTyped ==
  /\ made \in 0..ConnMax
  /\ backlog \in Seq(1..made)
  /\ toServer \in [Conns -> Seq(Nat)]
  /\ clientEnd \in [Conns -> {"open", "closed", "reset"}]

TableTyped ==
  /\ clients \in [Places -> 0..made]
  /\ async_needed \in [Places -> BOOLEAN]
  /\ read_handles \subseteq Connected

ClientsTyped ==
  /\ sock_local \in [Clients -> 0..made]
  /\ request \in [Clients -> Nat]

Alone ==
  /\ \A k, l \in Places : clients[k] # Free /\ clients[k] = clients[l] => k = l
  /\ \A i, j \in 1..Len(backlog) : backlog[i] = backlog[j] => i = j
  /\ \A k \in Places, i \in 1..Len(backlog) : clients[k] # backlog[i]

(* The client being answered was served, and is still connected.            *)
Answering == pc = "send" => serving \in Connected \ read_handles

Worthwhile ==
  pc \in {"serve", "send"} => \A k \in read_handles : async_needed[k] \/ ServerReadable(clients[k])

NetInv == NetTyped /\ TableTyped /\ ClientsTyped /\ Alone /\ Answering /\ Worthwhile

Assumptions == ConnectionsAssumption /\ SocketServerAssumption /\ SocketClientAssumption

-----------------------------------------------------------------------------
LEMMA ServedIsAHandle ==
  ASSUME SocketServerAssumption, TableTyped, read_handles # {}
  PROVE  Served \in read_handles
<1>1. read_handles \subseteq Nat
  BY DEF TableTyped, Connected, Places, SocketServerAssumption
<1>2. \E k \in read_handles : \A l \in read_handles : k <= l
  BY <1>1, LeastNumber
<1>3. QED
  BY <1>2 DEF Served

LEMMA NetInvInit ==
  ASSUME Assumptions, Init
  PROVE  NetInv
<1> USE DEF Assumptions, ConnectionsAssumption, SocketServerAssumption, Free, NULL
<1>1. NetTyped
  BY DEF Init, NetInit, NetTyped, Conns
<1>2. TableTyped
  BY DEF Init, NetInit, ServerInit, TableTyped
<1>3. ClientsTyped
  BY DEF Init, NetInit, ClientInit, ClientsTyped
<1>4. Alone /\ Answering /\ Worthwhile
  BY DEF Init, NetInit, ServerInit, Alone, Answering, Worthwhile
<1>5. QED
  BY <1>1, <1>2, <1>3, <1>4 DEF NetInv

-----------------------------------------------------------------------------
(* Steps of a client.  What it sends is added to what is unread; an end of  *)
(* it that was closed stays closed.                                        *)
Grows ==
  /\ \A c \in Conns : ServerReadable(c) => ServerReadable(c)'
  /\ toServer' \in [Conns -> Seq(Nat)]
  /\ clientEnd' \in [Conns -> {"open", "closed", "reset"}]

LEMMA CloseGrows ==
  ASSUME NetTyped, NEW c, Close(c), UNCHANGED toServer
  PROVE  Grows
BY DEF NetTyped, Close, EndAfter, Grows, ServerReadable

LEMMA ClientKeeps ==
  ASSUME Assumptions, NetInv, ClientStep
  PROVE  NetInv'
<1> USE DEF Assumptions, NetInv
<1>0. PICK p \in Clients : ClientNext(p)
  BY DEF ClientStep
<1>1. UNCHANGED serverVars
  BY DEF ClientStep
<1>2. Grows /\ request' \in [Clients -> Nat]
  <2>1. CASE SocketClient_Constructor(p)
    BY <2>1 DEF SocketClient_Constructor, Grows, NetTyped, ClientsTyped, ServerReadable
  <2>2. CASE SocketClient_reConnect(p)
    BY <2>2, CloseGrows, Zenon DEF SocketClient_reConnect, ClientsTyped
  <2>3. CASE SocketClient_send(p)
    <3>0. request' = [request EXCEPT ![p] = @ + 1]
      BY <2>3, Zenon DEF SocketClient_send
    <3>1. request' \in [Clients -> Nat]
      BY <3>0 DEF ClientsTyped
    <3>2. CASE CloseFailed(p) /\ UNCHANGED toServer
      BY <3>1, <3>2, CloseGrows DEF CloseFailed
    <3>3. CASE UNCHANGED <<clientEnd, toServer>>
      BY <3>1, <3>3 DEF Grows, NetTyped, ServerReadable
    <3>4. CASE /\ UNCHANGED clientEnd
               /\ toServer' = [toServer EXCEPT ![sock_local[p]] = Append(@, request'[p])]
      <4>1. ASSUME NEW s \in Seq(Nat)
            PROVE  Append(s, request'[p]) \in Seq(Nat) /\ Append(s, request'[p]) # <<>>
        BY <3>1
      <4>2. toServer' \in [Conns -> Seq(Nat)]
        BY <3>4, <4>1 DEF NetTyped
      <4>3. \A c \in Conns : toServer[c] # <<>> => toServer'[c] # <<>>
        BY <3>4, <4>1 DEF NetTyped
      <4>4. QED
        BY <3>1, <3>4, <4>2, <4>3 DEF Grows, NetTyped, ServerReadable
    <3>5. \/ CloseFailed(p) /\ UNCHANGED toServer
          \/ UNCHANGED <<clientEnd, toServer>>
          \/ /\ UNCHANGED clientEnd
             /\ toServer' = [toServer EXCEPT ![sock_local[p]] = Append(@, request'[p])]
      BY <2>3, Zenon DEF SocketClient_send
    <3>6. QED
      BY <3>1, <3>2, <3>3, <3>4, <3>5
  <2>4. CASE Timeout(p)
    BY <2>4, CloseGrows DEF Timeout, CloseFailed, ClientsTyped
  <2>5. CASE Receive(p) \/ ReceiveEnd(p)
    BY <2>5 DEF Receive, ReceiveEnd, netVars, Grows, NetTyped, ClientsTyped, ServerReadable
  <2>6. CASE Callback(p)
    <3>1. CASE UNCHANGED clientEnd
      BY <2>6, <3>1 DEF Callback, Grows, NetTyped, ClientsTyped, ServerReadable
    <3>2. CASE Close(sock_local[p])
      BY <2>6, <3>2, CloseGrows DEF Callback, ClientsTyped
    <3>3. QED
      BY <2>6, <3>1, <3>2 DEF Callback
  <2>7. QED
    BY <1>0, <2>1, <2>2, <2>3, <2>4, <2>5, <2>6 DEF ClientNext
<1>3. \/ UNCHANGED <<made, backlog>> /\ sock_local' \in [Clients -> 0..made]
      \/ Connect(p)
  <2>1. CASE CloseFailed(p) /\ UNCHANGED <<made, backlog>>
    BY <2>1 DEF CloseFailed, ClientsTyped, NetTyped, NULL
  <2>2. CASE UNCHANGED <<made, backlog, sock_local>>
    BY <2>2 DEF ClientsTyped
  <2>3. QED
    BY <1>0, <2>1, <2>2 DEF ClientNext, SocketClient_Constructor, SocketClient_reConnect,
       SocketClient_send, Timeout, Receive, ReceiveEnd, Callback, netVars
<1>4. /\ made' \in 0..ConnMax /\ made <= made'
      /\ backlog' \in Seq(1..made')
      /\ sock_local' \in [Clients -> 0..made']
      /\ \A i, j \in 1..Len(backlog') : backlog'[i] = backlog'[j] => i = j
      /\ \A k \in Places, i \in 1..Len(backlog') : clients[k] # backlog'[i]
  <2>1. CASE UNCHANGED <<made, backlog>> /\ sock_local' \in [Clients -> 0..made]
    BY <2>1 DEF NetTyped, Alone
  <2>2. CASE Connect(p)
    <3>1. /\ made' = made + 1 /\ made' \in 0..ConnMax
          /\ backlog' = Append(backlog, made')
      BY <2>2 DEF Connect, NetTyped, ConnectionsAssumption
    <3>2. /\ backlog \in Seq(1..made') /\ made' \in 1..made'
      BY <3>1 DEF NetTyped
    <3>3. /\ backlog' \in Seq(1..made')
          /\ Len(backlog') = Len(backlog) + 1
          /\ backlog'[Len(backlog')] = made'
          /\ \A i \in 1..Len(backlog) : backlog'[i] = backlog[i] /\ backlog[i] \in 1..made
      BY <3>1, <3>2 DEF NetTyped
    <3>4. \A i, j \in 1..Len(backlog') : backlog'[i] = backlog'[j] => i = j
      BY <3>1, <3>3 DEF NetTyped, Alone
    <3>5. \A k \in Places, i \in 1..Len(backlog') : clients[k] # backlog'[i]
      BY <3>1, <3>3 DEF NetTyped, TableTyped, Alone
    <3>6. sock_local' \in [Clients -> 0..made']
      <4>1. made' \in 0..made' /\ \A q \in Clients : sock_local[q] \in 0..made'
        BY <3>1 DEF ClientsTyped, NetTyped
      <4>2. PICK S : sock_local' = [q \in Clients |-> IF q \in S THEN made' ELSE sock_local[q]]
        BY <2>2, <3>1 DEF Connect
      <4>3. QED
        BY <4>1, <4>2
    <3>7. QED
      BY <3>1, <3>3, <3>4, <3>5, <3>6 DEF NetTyped
  <2>3. QED
    BY <1>3, <2>1, <2>2
<1>5. NetTyped' /\ ClientsTyped'
  BY <1>2, <1>4 DEF NetTyped, ClientsTyped, Grows
<1>6. TableTyped' /\ Alone' /\ Answering'
  BY <1>1, <1>4 DEF serverVars, sendVars, TableTyped, Alone, Answering, Connected, NetTyped
<1>7. Worthwhile'
  <2>1. ASSUME NEW k \in read_handles
        PROVE  clients[k] \in Conns
    BY DEF NetTyped, TableTyped, Connected, Free, Conns
  <2>2. QED
    BY <1>1, <1>2, <2>1 DEF serverVars, Worthwhile, Grows, ServerReadable
<1>8. QED
  BY <1>5, <1>6, <1>7
-----------------------------------------------------------------------------
(* Steps of the server.  A new connection takes a free place.               *)
LEMMA AcceptKeeps ==
  ASSUME Assumptions, NetInv, ServerStep, Select, Accept
  PROVE  NetInv'
<1> USE DEF Assumptions, NetInv
<1>1. /\ pc = "select" /\ pc' = "select"
      /\ UNCHANGED <<made, clientEnd, sock_local, request, async_needed, read_handles>>
      /\ backlog # <<>> /\ backlog' = Tail(backlog)
  BY DEF ServerStep, Select, Accept, clientVars
<1>2. /\ Head(backlog) = backlog[1] /\ 1 \in 1..Len(backlog) /\ backlog[1] \in 1..made
      /\ backlog' \in Seq(1..made) /\ Len(backlog') = Len(backlog) - 1
      /\ \A i \in 1..Len(backlog') : backlog'[i] = backlog[i + 1] /\ i + 1 \in 1..Len(backlog)
  BY <1>1 DEF NetTyped
<1>3. \/ UNCHANGED clients
      \/ \E k \in Places : /\ clients[k] = Free
                           /\ clients' = [clients EXCEPT ![k] = backlog[1]]
  <2>1. CASE Connected = Places
    BY <2>1 DEF Accept
  <2>2. CASE Connected # Places
    <3>1. Places \ Connected \in SUBSET Nat /\ Places \ Connected # {}
      BY <2>2 DEF Places, Connected
    <3>2. \E k \in Places \ Connected : \A l \in Places \ Connected : k <= l
      BY <3>1, LeastNumber
    <3>3. QED
      BY <1>2, <2>2, <3>2 DEF Accept, Connected
  <2>3. QED
    BY <2>1, <2>2
<1>4. NetTyped' /\ ClientsTyped'
  <2>0. <<>> \in Seq(Nat)
    OBVIOUS
  <2>1. toServer' \in [Conns -> Seq(Nat)]
    <3>1. UNCHANGED toServer \/ toServer' = [toServer EXCEPT ![Head(backlog)] = <<>>]
      BY Zenon DEF Accept
    <3>2. QED
      BY <2>0, <3>1 DEF NetTyped
  <2>2. QED
    BY <1>1, <1>2, <2>1 DEF NetTyped, ClientsTyped
<1>5. TableTyped'
  <2>0. backlog[1] \in 0..made
    BY <1>2 DEF NetTyped
  <2>1. clients' \in [Places -> 0..made]
    BY <2>0, <1>3 DEF TableTyped
  <2>2. Connected \subseteq Connected'
    BY <1>2, <1>3 DEF Connected, TableTyped, NetTyped, Free
  <2>3. QED
    BY <1>1, <2>1, <2>2 DEF TableTyped
<1>6. Alone'
  <2>1. ASSUME NEW i \in 1..Len(backlog'), NEW j \in 1..Len(backlog'), backlog'[i] = backlog'[j]
        PROVE  i = j
    <3>1. i + 1 = j + 1
      BY <1>2, <2>1 DEF Alone
    <3>2. QED
      BY <1>2, <3>1
  <2>2. CASE UNCHANGED clients
    BY <1>2, <2>1, <2>2 DEF Alone
  <2>3. ASSUME NEW k \in Places, clients' = [clients EXCEPT ![k] = backlog[1]]
        PROVE  Alone'
    <3>1. \A l, m \in Places : clients'[l] # Free /\ clients'[l] = clients'[m] => l = m
      BY <1>2, <2>3 DEF Alone, TableTyped
    <3>2. \A l \in Places, i \in 1..Len(backlog') : clients'[l] # backlog'[i]
      BY <1>2, <2>3 DEF Alone, TableTyped
    <3>3. QED
      BY <2>1, <3>1, <3>2 DEF Alone
  <2>4. QED
    BY <1>3, <2>2, <2>3
<1>7. Worthwhile' /\ Answering'
  BY <1>1 DEF Worthwhile, Answering
<1>8. QED
  BY <1>4, <1>5, <1>6, <1>7

LEMMA RoundKeeps ==
  ASSUME Assumptions, NetInv, ServerStep, Select, Round
  PROVE  NetInv'
<1> USE DEF Assumptions, NetInv
<1>1. UNCHANGED <<made, backlog, toServer, clientEnd, clients, sock_local, request>>
  BY DEF ServerStep, Select, Round, clientVars
<1>2. read_handles' = {k \in Listened : ServerReadable(clients[k])} \cup AsyncHandles
  BY DEF Round
<1>3. /\ async_needed' \in [Places -> BOOLEAN]
      /\ \A k \in AsyncHandles : async_needed'[k]
  <2>1. CASE async_message_required # 1
    BY <2>1 DEF Round, AsyncStarts, AsyncHandles, TableTyped
  <2>2. CASE async_message_required = 1
    BY <2>2 DEF Round, AsyncStarts, AsyncHandles, TableTyped, Connected
  <2>3. QED
    BY <2>1, <2>2
<1>4. TableTyped'
  BY <1>1, <1>2, <1>3 DEF TableTyped, Listened, AsyncHandles, Connected
<1>5. Worthwhile'
  BY <1>1, <1>2, <1>3 DEF Worthwhile, ServerReadable
<1>6. Answering'
  BY DEF Round, Answering
<1>7. QED
  BY <1>1, <1>4, <1>5, <1>6 DEF NetTyped, ClientsTyped, Alone

(* What serving the place k may change: its own connection, and its own     *)
(* flag; unless the next thing is select, the other handles stay.          *)
Touches(k) ==
  /\ pc \in {"serve", "send"}
  /\ UNCHANGED <<made, backlog, clientEnd>>
  /\ toServer' \in [Conns -> Seq(Nat)]
  /\ \A c \in Conns \ {clients[k]} : toServer'[c] = toServer[c]
  /\ UNCHANGED clients \/ clients' = [clients EXCEPT ![k] = Free]
  /\ UNCHANGED async_needed \/ async_needed' = [async_needed EXCEPT ![k] = FALSE]
  /\ \/ read_handles' = {} /\ pc' = "select"
     \/ read_handles' = read_handles \ {k} /\ pc' = "serve"
     \/ read_handles' = read_handles \ {k} /\ pc' = "send" /\ serving' = k /\ UNCHANGED clients

LEMMA ServeTouches ==
  ASSUME Assumptions, NetInv, NEW k \in read_handles, UNCHANGED <<made, backlog, clientEnd>>,
         pc = "serve", ServeAsync(k) \/ ServeInput(k) \/ ServeEnd(k)
  PROVE  Touches(k)
<1> USE DEF Assumptions, NetInv
<1>1. clients[k] \in Conns /\ toServer[clients[k]] \in Seq(Nat)
  BY DEF NetTyped, TableTyped, Connected, Free, Conns
<1>2. ASSUME NEW r, NEW left \in Seq(Nat), Called(k, r, left),
             UNCHANGED async_needed \/ async_needed' = [async_needed EXCEPT ![k] = FALSE]
      PROVE  Touches(k)
  <2>1. PICK o \in Outcomes : IF o.again THEN Hear(k) ELSE Respond(k, Answer(r, o.pieces), o.close)
    BY <1>2, Zenon DEF Called
  <2>2. UNCHANGED clients /\ toServer' = [toServer EXCEPT ![clients[k]] = left]
    BY <1>2 DEF Called, Unread
  <2>3. \/ read_handles' = {} /\ pc' = "select"
        \/ read_handles' = read_handles \ {k} /\ pc' = "send" /\ serving' = k
    BY <2>1 DEF Hear, Respond
  <2>4. /\ toServer' \in [Conns -> Seq(Nat)]
        /\ \A c \in Conns \ {clients[k]} : toServer'[c] = toServer[c]
    BY <1>1, <1>2, <2>2 DEF NetTyped
  <2>5. QED
    BY <1>2, <2>2, <2>3, <2>4 DEF Touches
<1>3. CASE ServeAsync(k)
  BY <1>1, <1>2, <1>3 DEF ServeAsync
<1>4. CASE ServeInput(k)
  <2>1. PICK n \in 1..Len(toServer[clients[k]]) :
          Called(k, Last(Taken(toServer[clients[k]], n)), Left(toServer[clients[k]], n))
    BY <1>4 DEF ServeInput
  <2>2. Left(toServer[clients[k]], n) \in Seq(Nat)
    BY <1>1, <2>1 DEF Left
  <2>3. QED
    BY <1>2, <1>4, <2>1, <2>2 DEF ServeInput
<1>5. CASE ServeEnd(k)
  <2>1. /\ Closed(k) /\ Unread(k, <<>>) /\ UNCHANGED <<async_needed, pc>>
        /\ read_handles' = read_handles \ {k}
    BY <1>5 DEF ServeEnd
  <2>2. /\ toServer' \in [Conns -> Seq(Nat)]
        /\ \A c \in Conns \ {clients[k]} : toServer'[c] = toServer[c]
    BY <1>1, <2>1 DEF Unread, NetTyped
  <2>3. QED
    BY <2>1, <2>2 DEF Closed, Touches
<1>6. QED
  BY <1>3, <1>4, <1>5

LEMMA TouchesKeeps ==
  ASSUME Assumptions, NetInv, NEW k \in Connected, Touches(k), UNCHANGED <<sock_local, request>>
  PROVE  NetInv'
<1> USE DEF Assumptions, NetInv
<1>1. NetTyped' /\ ClientsTyped'
  BY DEF Touches, NetTyped, ClientsTyped
<1>2. ASSUME NEW l \in read_handles'
      PROVE  /\ l \in read_handles \ {k}
             /\ clients'[l] = clients[l] /\ async_needed'[l] = async_needed[l]
             /\ clients[l] \in Conns \ {clients[k]}
  <2>1. l \in read_handles \ {k}
    BY <1>2 DEF Touches
  <2>2. l \in Places /\ clients[l] # Free /\ k \in Places
    BY <2>1 DEF TableTyped, Connected
  <2>3. clients[l] \in Conns \ {clients[k]}
    BY <2>1, <2>2 DEF TableTyped, NetTyped, Alone, Free, Conns
  <2>4. QED
    BY <2>1, <2>2, <2>3 DEF Touches, TableTyped
<1>3. TableTyped'
  <2>0. clients' \in [Places -> 0..made']
    <3>1. Free \in 0..made
      BY DEF NetTyped, Free
    <3>2. QED
      BY <3>1 DEF Touches, TableTyped
  <2>1. async_needed' \in [Places -> BOOLEAN]
    BY DEF Touches, TableTyped
  <2>2. read_handles' \subseteq Connected'
    BY <1>2 DEF TableTyped, Connected
  <2>3. QED
    BY <2>0, <2>1, <2>2 DEF TableTyped
<1>4. Alone'
  <2>1. ASSUME NEW l \in Places
        PROVE  clients'[l] = clients[l] \/ clients'[l] = Free
    BY DEF Touches, TableTyped
  <2>2. \A i \in 1..Len(backlog) : backlog[i] # Free
    BY DEF NetTyped, Free
  <2>3. QED
    BY <2>1, <2>2 DEF Touches, Alone
<1>5. Worthwhile'
  <2>1. pc \in {"serve", "send"} /\ UNCHANGED clientEnd
    BY DEF Touches
  <2>2. ASSUME NEW l \in read_handles'
        PROVE  async_needed'[l] \/ ServerReadable(clients[l])'
    <3>1. async_needed[l] \/ ServerReadable(clients[l])
      BY <1>2, <2>1, <2>2 DEF Worthwhile
    <3>2. QED
      BY <1>2, <2>1, <2>2, <3>1 DEF Touches, ServerReadable
  <2>3. QED
    BY <2>2 DEF Worthwhile
<1>6. Answering'
  BY DEF Touches, Answering, Connected
<1>7. QED
  BY <1>1, <1>3, <1>4, <1>5, <1>6

(* sendto adds to what the client has to read, or learns that it has gone.  *)
LEMMA SendtoKeeps ==
  ASSUME Assumptions, NetInv, Sendto, UNCHANGED clientVars
  PROVE  NetInv'
<1> USE DEF Assumptions, NetInv
<1>1. UNCHANGED <<made, backlog, toServer, clients, async_needed, pc, read_handles, serving, sock_local, request>>
  BY DEF Sendto, clientVars
<1>2. UNCHANGED clientEnd \/ \E end \in {clientEnd[clients[serving]], "reset"} :
                               clientEnd' = [clientEnd EXCEPT ![clients[serving]] = end]
  BY Zenon DEF Sendto, Delivered, Lost
<1>3. clientEnd' \in [Conns -> {"open", "closed", "reset"}]
  BY <1>2 DEF NetTyped
<1>4. \A c \in Conns : clientEnd[c] # "open" => clientEnd'[c] # "open"
  BY <1>2 DEF NetTyped
<1>5. \A k \in read_handles : clients[k] \in Conns
  BY DEF NetTyped, TableTyped, Connected, Free, Conns
<1>6. NetTyped' /\ ClientsTyped' /\ TableTyped' /\ Alone' /\ Answering'
  BY <1>1, <1>3 DEF NetTyped, ClientsTyped, TableTyped, Connected, Alone, Answering
<1>7. Worthwhile'
  BY <1>1, <1>4, <1>5 DEF Worthwhile, ServerReadable
<1>8. QED
  BY <1>6, <1>7

LEMMA KilledKeeps ==
  ASSUME Assumptions, NetInv, Killed, UNCHANGED clientVars
  PROVE  NetInv'
<1> USE DEF Assumptions, NetInv
<1>1. /\ pc' = "killed" /\ backlog' = <<>> /\ toServer' = [c \in Conns |-> <<>>]
      /\ UNCHANGED <<made, clientEnd, clients, async_needed, read_handles, sock_local, request>>
  BY DEF Killed, clientVars
<1>2. NetTyped'
  <2>1. backlog' \in Seq(1..made') /\ toServer' \in [Conns -> Seq(Nat)]
    BY <1>1
  <2>2. QED
    BY <1>1, <2>1 DEF NetTyped
<1>3. ClientsTyped' /\ TableTyped' /\ Alone'
  BY <1>1 DEF ClientsTyped, TableTyped, Connected, Alone
<1>4. QED
  BY <1>1, <1>2, <1>3 DEF Answering, Worthwhile

LEMMA SentTouches ==
  ASSUME Assumptions, NetInv, Sent
  PROVE  serving \in Connected /\ Touches(serving)
<1> USE DEF Assumptions, NetInv
<1>1. pc = "send" /\ serving \in Connected \ read_handles /\ clients[serving] \in Conns
  BY DEF Sent, Answering, Connected, NetTyped, TableTyped, Conns, Free
<1>2. /\ toServer' \in [Conns -> Seq(Nat)]
      /\ \A c \in Conns \ {clients[serving]} : toServer'[c] = toServer[c]
  <2>1. <<>> \in Seq(Nat)
    OBVIOUS
  <2>2. QED
    BY <1>1, <2>1 DEF Sent, Unread, NetTyped
<1>3. UNCHANGED clients \/ clients' = [clients EXCEPT ![serving] = Free]
  BY DEF Sent, Closed
<1>4. QED
  BY <1>1, <1>2, <1>3 DEF Sent, Touches

LEMMA ServerKeeps ==
  ASSUME Assumptions, NetInv, ServerStep
  PROVE  NetInv'
<1>0. UNCHANGED clientVars /\ UNCHANGED <<sock_local, request>>
  BY DEF ServerStep, clientVars
<1>1. CASE Select
  <2>1. CASE Accept
    BY <1>1, <2>1, AcceptKeeps
  <2>2. CASE Round
    BY <1>1, <2>2, RoundKeeps
  <2>3. CASE SeesEndRun
    BY <1>0, <1>1, <2>3 DEF Select, SeesEndRun, NetInv, NetTyped, TableTyped,
       ClientsTyped, Alone, Answering, Worthwhile, Connected
  <2>4. QED
    BY <1>1, <2>1, <2>2, <2>3 DEF Select
<1>2. CASE Serve
  <2>1. Served \in read_handles /\ Served \in Connected
    BY <1>2, ServedIsAHandle DEF Assumptions, NetInv, TableTyped, Serve
  <2>2. Touches(Served)
    BY <1>2, <2>1, ServeTouches DEF Serve
  <2>3. QED
    BY <1>0, <2>1, <2>2, TouchesKeeps
<1>3. CASE Sendto
  BY <1>0, <1>3, SendtoKeeps
<1>4. CASE Killed
  BY <1>0, <1>4, KilledKeeps
<1>5. CASE Sent
  BY <1>0, <1>5, SentTouches, TouchesKeeps
<1>6. CASE EndRound
  BY <1>0, <1>6 DEF EndRound, netVars, sendVars, NetInv, NetTyped, TableTyped,
     ClientsTyped, Alone, Answering, Worthwhile, Connected
<1>7. QED
  BY <1>1, <1>2, <1>3, <1>4, <1>5, <1>6 DEF ServerStep, ServerNext

-----------------------------------------------------------------------------
(* socket_server.c: whatever clients do, and whatever callbacks answer and  *)
(* ask for, the one thread reads only from clients that have sent something *)
(* or gone.                                                                *)
THEOREM ServerNeverBlocks ==
  ASSUME Assumptions
  PROVE  Spec => []NeverBlocks
<1>1. Init => NetInv
  BY NetInvInit
<1>2. NetInv /\ [Next]_vars => NetInv'
  <2>1. SUFFICES ASSUME NetInv, [Next]_vars
                 PROVE  NetInv'
    OBVIOUS
  <2>2. CASE UNCHANGED vars
    BY <2>1, <2>2 DEF vars, netVars, serverVars, clientVars, NetInv, NetTyped, TableTyped,
       ClientsTyped, Alone, Answering, Worthwhile, Connected, ServerReadable
  <2>3. QED
    BY <2>1, <2>2, ServerKeeps, ClientKeeps DEF Next
<1>3. NetInv => NeverBlocks
  BY ServedIsAHandle DEF Assumptions, NetInv, Worthwhile, NeverBlocks, ReadsFrom
<1>4. QED
  BY <1>1, <1>2, <1>3, PTL DEF Spec

(* Whom an async message has yet to reach is still to be served in this     *)
(* round, of which nothing is left when select comes next.                  *)
OwedAreHandles == owed \subseteq read_handles /\ (pc \notin {"serve", "send"} => owed = {})

LEMMA OwedStep ==
  ASSUME OwedAreHandles, [Next]_vars
  PROVE  OwedAreHandles'
<1> USE DEF OwedAreHandles
<1>1. CASE Select
  <2>1. CASE SeesEndRun
    BY <1>1, <2>1 DEF Select, SeesEndRun
  <2>2. CASE Accept
    BY <1>1, <2>2 DEF Select, Accept
  <2>3. CASE Round
    BY <1>1, <2>3 DEF Select, Round, AsyncStarts, AsyncHandles
  <2>4. QED
    BY <1>1, <2>1, <2>2, <2>3 DEF Select
<1>2. CASE Serve
  <2>1. ASSUME NEW k, NEW r, NEW left, Called(k, r, left)
        PROVE  OwedAreHandles'
    <3>1. PICK o \in Outcomes : /\ owed' = IF o.request \/ o.again THEN {} ELSE owed \ {k}
                                /\ IF o.again THEN Hear(k) ELSE Respond(k, Answer(r, o.pieces), o.close)
      BY <2>1, Zenon DEF Called
    <3>2. QED
      BY <3>1 DEF Hear, Respond
  <2>2. QED
    BY <1>2, <2>1 DEF Serve, ServeAsync, ServeInput, ServeEnd
<1>3. CASE Sendto \/ Killed \/ Sent \/ EndRound
  BY <1>3 DEF Sendto, Killed, Sent, EndRound
<1>4. CASE ClientStep \/ UNCHANGED vars
  BY <1>4 DEF ClientStep, vars, serverVars
<1>5. QED
  BY <1>1, <1>2, <1>3, <1>4 DEF Next, ServerStep, ServerNext

(* socket_server.c: a round that sends an async message does not end before *)
(* the callback was called for every client, or asked for something else.   *)
THEOREM AsyncAlwaysReachesAll == Spec => []AsyncReachesAll
<1>1. Init => OwedAreHandles
  BY DEF Init, ServerInit, OwedAreHandles
<1>2. OwedAreHandles /\ [Next]_vars => OwedAreHandles'
  BY OwedStep
<1>3. OwedAreHandles => AsyncReachesAll
  BY DEF OwedAreHandles, AsyncReachesAll
<1>4. QED
  BY <1>1, <1>2, <1>3, PTL DEF Spec

-----------------------------------------------------------------------------
(* AnswersAreToRequests for any number of clients, places and connections.  *)
(* As long as a connection has one holder and has seen no answer in two     *)
(* pieces and no async message, there is one thing on its way at most: the  *)
(* client's last request, or the answer to it, which may also wait in       *)
(* sendto or be in the client's buffer already (Asked).  A client that does *)
(* not wait finds nothing on its way (Orderly): it has had its answer, or   *)
(* closed the connection for it.  A client that does not keep its           *)
(* connection alive sends one request on it at most, which alone can be     *)
(* answered there (Single).                                                *)
Pieces == [request : Nat, eol : BOOLEAN]

AnswersTyped ==
  /\ toClient \in [Conns -> Seq(Pieces)]
  /\ unsent \in [Conns -> Seq(Pieces)]
  /\ serverEnd \in [Conns -> {"open", "closed"}]
  /\ initialized \in [Clients -> BOOLEAN]
  /\ step \in [Clients -> {"idle", "select", "recv", "callback"}]
  /\ rcvBuffer \in [Clients -> Seq(Pieces)]

Quiet(c) == toServer[c] = <<>> /\ toClient[c] = <<>> /\ unsent[c] = <<>>

Fresh == \A c \in Conns : c > made => Quiet(c)

(* The server answers on one connection at a time.                          *)
OneAnswer == \A c \in Conns : unsent[c] # <<>> => pc = "send" /\ c = clients[serving]

OwnConnection ==
  \A p, q \in Clients : sock_local[p] # NULL /\ sock_local[p] = sock_local[q] /\ p # q => sock_local[p] \in shared

(* The connections whose only holder is p.                                  *)
Sole(p) == sock_local[p] # NULL /\ sock_local[p] \notin shared

Waiting(p) ==
  /\ ~ initialized[p] => step[p] = "idle"
  /\ step[p] # "idle" => sock_local[p] # NULL /\ (Sole(p) => clientEnd[sock_local[p]] = "open")
  /\ step[p] \in {"idle", "select"} => rcvBuffer[p] = <<>>

TheAnswer(p) == <<Piece(request[p], TRUE)>>

Asked(p) ==
  LET c == sock_local[p]
  IN  \/ toServer[c] = <<request[p]>> /\ unsent[c] = <<>> /\ toClient[c] = <<>> /\ rcvBuffer[p] = <<>>
      \/ toServer[c] = <<>> /\ unsent[c] = TheAnswer(p) /\ toClient[c] = <<>> /\ rcvBuffer[p] = <<>>
      \/ toServer[c] = <<>> /\ unsent[c] = <<>> /\ toClient[c] = TheAnswer(p) /\ rcvBuffer[p] = <<>>
      \/ Quiet(c) /\ rcvBuffer[p] \in {<<>>, TheAnswer(p)}

Orderly(p) ==
  LET c == sock_local[p]
  IN  Sole(p) /\ c \notin mixed =>
        /\ serverEnd[c] = "closed" => toServer[c] = <<>> /\ unsent[c] = <<>>
        /\ step[p] \in {"idle", "callback"} => Quiet(c)
        /\ step[p] # "idle" => Asked(p)

(* What pieces answer, and what p may be answered.                          *)
Abouts(pieces) == {pieces[i].request : i \in DOMAIN pieces}
Due(p) == IF step[p] = "idle" THEN {} ELSE {request[p]}

Single(p) ==
  LET c == sock_local[p]
  IN  Sole(p) /\ p \notin KeepAlive /\ clientEnd[c] = "open" =>
        /\ Range(toServer[c]) \subseteq Due(p)
        /\ Abouts(unsent[c]) \cup Abouts(toClient[c]) \cup Abouts(rcvBuffer[p]) \subseteq {0} \cup Due(p)

Settled(p) == Waiting(p) /\ Orderly(p) /\ Single(p)

AnswerInv ==
  /\ NetInv /\ AnswersTyped /\ Fresh /\ OneAnswer /\ OwnConnection
  /\ \A p \in Clients : Settled(p)

-----------------------------------------------------------------------------
(* What a step leaves alone: a connection, a client; and a client but for   *)
(* its descriptor, which stands for the connection of another by now.       *)
SameConnection(c) ==
  /\ toServer'[c] = toServer[c] /\ toClient'[c] = toClient[c] /\ unsent'[c] = unsent[c]
  /\ serverEnd'[c] = serverEnd[c] /\ (clientEnd[c] = "open" <=> clientEnd'[c] = "open")

SameState(p) ==
  /\ initialized'[p] = initialized[p] /\ step'[p] = step[p]
  /\ request'[p] = request[p] /\ rcvBuffer'[p] = rcvBuffer[p]

SameClient(p) == SameState(p) /\ sock_local'[p] = sock_local[p]

LEMMA LeftAlone ==
  ASSUME NEW p, Settled(p), SameClient(p), mixed \subseteq mixed', shared \subseteq shared',
         Sole(p) => SameConnection(sock_local[p])
  PROVE  Settled(p)'
<1>1. Sole(p)' => Sole(p) /\ SameConnection(sock_local[p])
  BY DEF Sole, SameClient
<1>2. Waiting(p)'
  BY <1>1 DEF Settled, Waiting, SameClient, SameState, SameConnection
<1>3. Orderly(p)'
  BY <1>1 DEF Settled, Orderly, SameClient, SameState, SameConnection, Asked, TheAnswer, Quiet
<1>4. Single(p)'
  <2>1. CASE ~ Sole(p)'
    BY <2>1 DEF Single
  <2>2. CASE Sole(p)'
    <3> DEFINE c == sock_local[p]
    <3>1. Sole(p) /\ SameConnection(c) /\ sock_local'[p] = c
      BY <1>1, <2>2 DEF SameClient
    <3>2. /\ toServer'[c] = toServer[c] /\ unsent'[c] = unsent[c]
          /\ toClient'[c] = toClient[c] /\ rcvBuffer'[p] = rcvBuffer[p]
          /\ clientEnd'[c] = "open" => clientEnd[c] = "open"
      BY <3>1 DEF SameConnection, SameClient, SameState
    <3>3. Due(p)' = Due(p)
      BY DEF Due, SameClient, SameState
    <3>4. p \notin KeepAlive /\ clientEnd[c] = "open" =>
            /\ Range(toServer[c]) \subseteq Due(p)
            /\ Abouts(unsent[c]) \cup Abouts(toClient[c]) \cup Abouts(rcvBuffer[p]) \subseteq {0} \cup Due(p)
      BY <3>1, Zenon DEF Settled, Single
    <3>5. p \notin KeepAlive /\ clientEnd'[c] = "open" =>
            /\ Range(toServer'[c]) \subseteq Due(p)'
            /\ Abouts(unsent'[c]) \cup Abouts(toClient'[c]) \cup Abouts(rcvBuffer'[p]) \subseteq {0} \cup Due(p)'
      BY <3>2, <3>3, <3>4, Zenon
    <3>6. QED
      BY <3>1, <3>5, Zenon DEF Single
  <2>3. QED
    BY <2>1, <2>2
<1>5. QED
  BY <1>2, <1>3, <1>4 DEF Settled

LEMMA TakenOver ==
  ASSUME NEW p, Settled(p), SameState(p), sock_local'[p] # NULL, sock_local'[p] \in shared'
  PROVE  Settled(p)'
<1>1. ~ Sole(p)'
  BY DEF Sole
<1>2. QED
  BY <1>1 DEF Settled, Waiting, Orderly, Single, SameState

LEMMA SocketIsConnection ==
  ASSUME Assumptions, NetInv, NEW p \in Clients, sock_local[p] # NULL
  PROVE  sock_local[p] \in Conns /\ sock_local[p] <= made
BY DEF Assumptions, ConnectionsAssumption, NetInv, NetTyped, ClientsTyped, NULL, Conns

(* What parts of streams are about.                                         *)
LEMMA AboutsOfParts ==
  ASSUME NEW s \in Seq(Pieces), NEW n \in 1..Len(s)
  PROVE  /\ Taken(s, n) \in Seq(Pieces) /\ Left(s, n) \in Seq(Pieces)
         /\ Abouts(Taken(s, n)) \subseteq Abouts(s) /\ Abouts(Left(s, n)) \subseteq Abouts(s)
         /\ Tail(s) \in Seq(Pieces) /\ Head(s) \in Pieces
         /\ Abouts(Tail(s)) \subseteq Abouts(s) /\ Head(s).request \in Abouts(s)
<1>1. /\ Taken(s, n) \in Seq(Pieces) /\ \A i \in DOMAIN Taken(s, n) : Taken(s, n)[i] = s[i] /\ i \in DOMAIN s
  BY DEF Taken
<1>2. /\ Left(s, n) \in Seq(Pieces) /\ \A i \in DOMAIN Left(s, n) : Left(s, n)[i] = s[i + n] /\ i + n \in DOMAIN s
  BY DEF Left
<1>3. /\ Tail(s) \in Seq(Pieces) /\ \A i \in DOMAIN Tail(s) : Tail(s)[i] = s[i + 1] /\ i + 1 \in DOMAIN s
  OBVIOUS
<1>4. Head(s) = s[1] /\ 1 \in DOMAIN s /\ Head(s) \in Pieces
  OBVIOUS
<1>5. QED
  BY <1>1, <1>2, <1>3, <1>4 DEF Abouts

LEMMA AboutsOfSums ==
  ASSUME NEW s \in Seq(Pieces), NEW t \in Seq(Pieces), NEW x \in Pieces
  PROVE  /\ s \o t \in Seq(Pieces) /\ Abouts(s \o t) \subseteq Abouts(s) \cup Abouts(t)
         /\ Append(s, x) \in Seq(Pieces) /\ Abouts(Append(s, x)) \subseteq Abouts(s) \cup {x.request}
<1>1. /\ s \o t \in Seq(Pieces)
      /\ \A i \in DOMAIN (s \o t) : \/ i \in DOMAIN s /\ (s \o t)[i] = s[i]
                                    \/ i - Len(s) \in DOMAIN t /\ (s \o t)[i] = t[i - Len(s)]
  OBVIOUS
<1>2. /\ Append(s, x) \in Seq(Pieces)
      /\ \A i \in DOMAIN Append(s, x) : Append(s, x)[i] = x \/ (i \in DOMAIN s /\ Append(s, x)[i] = s[i])
  OBVIOUS
<1>3. QED
  BY <1>1, <1>2 DEF Abouts

LEMMA NothingInRange ==
  ASSUME NEW s \in Seq(Nat), Range(s) \subseteq {}
  PROVE  s = <<>>
<1>1. DOMAIN s = {}
  BY DEF Range
<1>2. Len(s) = 0
  BY <1>1
<1>3. QED
  BY <1>2

LEMMA RequestsTaken ==
  ASSUME NEW s \in Seq(Nat), NEW n \in 1..Len(s)
  PROVE  /\ Last(Taken(s, n)) \in Nat /\ Last(Taken(s, n)) \in Range(s)
         /\ Left(s, n) \in Seq(Nat) /\ Range(Left(s, n)) \subseteq Range(s)
<1>1. Last(Taken(s, n)) = s[n] /\ n \in DOMAIN s /\ s[n] \in Nat
  BY DEF Last, Taken
<1>2. /\ Left(s, n) \in Seq(Nat) /\ \A i \in DOMAIN Left(s, n) : Left(s, n)[i] = s[i + n] /\ i + n \in DOMAIN s
  BY DEF Left
<1>3. QED
  BY <1>1, <1>2 DEF Range

LEMMA AboutsOfNone ==
  Abouts(<<>>) = {} /\ Range(<<>>) = {}
BY DEF Abouts, Range

(* One piece of a stream of one piece is the whole stream.                  *)
LEMMA OnePiece ==
  ASSUME NEW S, NEW x \in S, NEW n \in 1..Len(<<x>>)
  PROVE  n = 1 /\ Taken(<<x>>, n) = <<x>> /\ Left(<<x>>, n) = <<>> /\ Last(Taken(<<x>>, n)) = x
<1>1. n = 1 /\ Len(<<x>>) = 1
  OBVIOUS
<1>2. SubSeq(<<x>>, 1, 1) = <<x>>
  <2>1. <<x>> \in Seq(S)
    OBVIOUS
  <2>2. SubSeq(<<x>>, 1, Len(<<x>>)) = <<x>>
    BY <2>1, SubSeqFull, Zenon
  <2>3. QED
    BY <1>1, <2>2
<1>3. SubSeq(<<x>>, 2, 1) = <<>>
  OBVIOUS
<1>4. QED
  BY <1>1, <1>2, <1>3 DEF Taken, Left, Last

LEMMA AnswerInvInit ==
  ASSUME Assumptions, Init
  PROVE  AnswerInv
<1>1. AnswersTyped
  <2>1. <<>> \in Seq(Pieces)
    OBVIOUS
  <2>2. QED
    BY <2>1 DEF Init, NetInit, ServerInit, ClientInit, AnswersTyped
<1>2. Fresh /\ OneAnswer /\ OwnConnection
  BY DEF Init, NetInit, ServerInit, ClientInit, Fresh, OneAnswer, Quiet, OwnConnection
<1>3. ASSUME NEW p \in Clients
      PROVE  Settled(p)
  BY DEF Init, ClientInit, Settled, Waiting, Orderly, Single, Sole
<1>4. QED
  BY <1>1, <1>2, <1>3, NetInvInit DEF AnswerInv

-----------------------------------------------------------------------------
(* A step of the client p touches no other client, but that it may make of  *)
(* the descriptor of one the same connection as its own; and of the         *)
(* connections only its own.                                                *)
Own(p) ==
  /\ \A q \in Clients \ {p} :
       SameState(q) /\ (sock_local'[q] = sock_local[q] \/ (sock_local'[q] # NULL /\ sock_local'[q] \in shared'))
  /\ \A c \in Conns \ {sock_local[p]} : SameConnection(c)

(* The connections it may make is a new one.                                *)
Moves(p) ==
  \/ made' = made /\ sock_local'[p] \in {sock_local[p], NULL}
  \/ made' = made + 1 /\ made' \in Conns /\ sock_local'[p] = made'

LEMMA CloseTyped ==
  ASSUME AnswersTyped, NetTyped, NEW c \in Conns, Close(c)
  PROVE  /\ toClient' \in [Conns -> Seq(Pieces)]
         /\ toClient'[c] = <<>> /\ clientEnd'[c] # "open"
         /\ \A d \in Conns \ {c} : toClient'[d] = toClient[d] /\ clientEnd'[d] = clientEnd[d]
<1>1. <<>> \in Seq(Pieces)
  OBVIOUS
<1>2. QED
  BY <1>1 DEF Close, EndAfter, AnswersTyped, NetTyped

LEMMA ConnectMoves ==
  ASSUME Assumptions, NetInv, NEW p \in Clients, Connect(p), Remember
  PROVE  /\ made \in Nat /\ made' = made + 1 /\ made' \in Conns /\ sock_local'[p] = made'
         /\ \A q \in Clients \ {p} :
              sock_local'[q] = sock_local[q] \/ (sock_local'[q] # NULL /\ sock_local'[q] \in shared')
<1>1. made \in Nat /\ made' = made + 1 /\ made' \in Conns /\ made' # NULL
  BY DEF Connect, NetInv, NetTyped, Assumptions, ConnectionsAssumption, Conns, NULL
<1>2. PICK S : sock_local' = [q \in Clients |-> IF q \in {p} \cup S THEN made + 1 ELSE sock_local[q]]
  BY DEF Connect
<1>3. sock_local'[p] = made'
  BY <1>1, <1>2
<1>4. ASSUME NEW q \in Clients \ {p}, sock_local'[q] = made'
      PROVE  made' \in shared'
  BY <1>1, <1>3, <1>4 DEF Remember
<1>5. QED
  BY <1>1, <1>2, <1>3, <1>4

(* What a step of the client p establishes.                                 *)
Kept(p) == AnswersTyped' /\ Own(p) /\ Moves(p) /\ Settled(p)'

Remembers == Remember /\ mixed \subseteq mixed' /\ shared \subseteq shared' /\ UNCHANGED unsent

(* Nothing is on its way on a new connection.                               *)
LEMMA ConnectIsOrderly ==
  ASSUME Assumptions, AnswerInv, NEW p \in Clients, step[p] = "idle", Connect(p), Remembers,
         UNCHANGED <<step, rcvBuffer, toServer>>,
         initialized'[p] = initialized[p] \/ initialized'[p] = TRUE,
         \A c \in Conns : c > made => toClient'[c] = toClient[c]
  PROVE  Settled(p)'
<1> USE DEF AnswerInv
<1>1. made \in Nat /\ made' = made + 1 /\ made' \in Conns /\ sock_local'[p] = made'
  BY ConnectMoves DEF Remembers
<1>2. toServer'[made'] = <<>> /\ toClient'[made'] = <<>> /\ unsent'[made'] = <<>>
  BY <1>1 DEF Fresh, Quiet, Remembers
<1>3. rcvBuffer'[p] = <<>> /\ step'[p] = "idle"
  BY DEF Settled, Waiting
<1>4. Waiting(p)' /\ Orderly(p)'
  BY <1>1, <1>2, <1>3 DEF Waiting, Orderly, Quiet
<1>5. Single(p)'
  BY <1>1, <1>2, <1>3, AboutsOfNone DEF Single
<1>6. QED
  BY <1>4, <1>5 DEF Settled

LEMMA ConstructorKeeps ==
  ASSUME Assumptions, AnswerInv, NEW p \in Clients, SocketClient_Constructor(p), Remembers
  PROVE  Kept(p)
<1> USE DEF AnswerInv
<1>1. step[p] = "idle" /\ initialized'[p] = TRUE
  BY DEF SocketClient_Constructor, Settled, Waiting, AnswersTyped
<1>2. Settled(p)'
  BY <1>1, ConnectIsOrderly DEF SocketClient_Constructor
<1>3. AnswersTyped' /\ Own(p) /\ Moves(p)
  BY ConnectMoves DEF SocketClient_Constructor, AnswersTyped, Own, SameState, SameConnection, Moves, Remembers
<1>4. QED
  BY <1>2, <1>3 DEF Kept

LEMMA reConnectKeeps ==
  ASSUME Assumptions, AnswerInv, NEW p \in Clients, SocketClient_reConnect(p), Remembers
  PROVE  Kept(p)
<1> USE DEF AnswerInv
<1>1. /\ step[p] = "idle" /\ Close(sock_local[p])
      /\ Connect(p) \/ UNCHANGED <<made, sock_local>>
      /\ UNCHANGED <<initialized, step, request, rcvBuffer, toServer, serverEnd>>
      /\ sock_local[p] \in Conns /\ sock_local[p] <= made
  BY SocketIsConnection DEF SocketClient_reConnect
<1>2. /\ toClient' \in [Conns -> Seq(Pieces)]
      /\ toClient'[sock_local[p]] = <<>> /\ clientEnd'[sock_local[p]] # "open"
      /\ \A c \in Conns \ {sock_local[p]} : toClient'[c] = toClient[c] /\ clientEnd'[c] = clientEnd[c]
  BY <1>1, CloseTyped DEF NetInv
<1>3. \A c \in Conns : c > made => toClient'[c] = toClient[c]
  BY <1>1, <1>2 DEF NetInv, NetTyped, Conns
<1>4. AnswersTyped'
  BY <1>1, <1>2 DEF AnswersTyped, Remembers
<1>5. CASE Connect(p)
  <2>1. Settled(p)'
    BY <1>1, <1>3, <1>5, ConnectIsOrderly
  <2>2. Own(p) /\ Moves(p)
    BY <1>1, <1>2, <1>5, ConnectMoves DEF Own, SameState, SameConnection, Moves, Remembers
  <2>3. QED
    BY <1>4, <2>1, <2>2 DEF Kept
<1>6. CASE UNCHANGED <<made, sock_local>>
  <2>1. Own(p) /\ Moves(p)
    BY <1>1, <1>2, <1>6 DEF Own, SameState, SameConnection, Moves, Remembers
  <2>2. Settled(p)'
    BY <1>1, <1>2, <1>6 DEF Settled, Waiting, Orderly, Single, Sole, Quiet, Remembers
  <2>3. QED
    BY <1>4, <2>1, <2>2 DEF Kept
<1>7. QED
  BY <1>1, <1>5, <1>6

LEMMA CloseFailedKeeps ==
  ASSUME Assumptions, AnswerInv, NEW p \in Clients, CloseFailed(p), sock_local[p] # NULL, Remembers,
         rcvBuffer[p] = <<>>, step' = [step EXCEPT ![p] = "idle"],
         UNCHANGED <<initialized, rcvBuffer, made, toServer, serverEnd>>,
         \A q \in Clients \ {p} : request'[q] = request[q]
  PROVE  Kept(p)
<1> USE DEF AnswerInv
<1>1. sock_local[p] \in Conns
  BY SocketIsConnection
<1>2. /\ toClient' \in [Conns -> Seq(Pieces)]
      /\ \A c \in Conns \ {sock_local[p]} : toClient'[c] = toClient[c] /\ clientEnd'[c] = clientEnd[c]
  BY <1>1, CloseTyped DEF CloseFailed, NetInv
<1>3. sock_local'[p] = NULL /\ \A q \in Clients \ {p} : sock_local'[q] = sock_local[q]
  BY DEF CloseFailed, NetInv, ClientsTyped
<1>4. step'[p] = "idle" /\ \A q \in Clients \ {p} : step'[q] = step[q]
  BY DEF AnswersTyped
<1>5. AnswersTyped' /\ Own(p) /\ Moves(p)
  BY <1>2, <1>3, <1>4 DEF AnswersTyped, Own, SameState, SameConnection, Moves, Remembers
<1>6. Settled(p)'
  BY <1>3, <1>4 DEF Settled, Waiting, Orderly, Single, Sole
<1>7. QED
  BY <1>5, <1>6 DEF Kept

LEMMA SendKeeps ==
  ASSUME Assumptions, AnswerInv, NEW p \in Clients, SocketClient_send(p), Remembers
  PROVE  Kept(p)
<1> USE DEF AnswerInv
<1> DEFINE c == sock_local[p]
<1>1. /\ step[p] = "idle" /\ initialized[p] /\ c # NULL
      /\ request' = [request EXCEPT ![p] = @ + 1]
      /\ UNCHANGED <<initialized, rcvBuffer, made, serverEnd>>
  BY Zenon DEF SocketClient_send
<1>2. c \in Conns /\ rcvBuffer[p] = <<>> /\ \A q \in Clients \ {p} : request'[q] = request[q]
  BY <1>1, SocketIsConnection DEF Settled, Waiting, NetInv, ClientsTyped
<1>3. CASE CloseFailed(p) /\ UNCHANGED <<step, toServer>>
  <2>1. step' = [step EXCEPT ![p] = "idle"]
    BY <1>1, <1>3 DEF AnswersTyped
  <2>2. QED
    BY <1>1, <1>2, <1>3, <2>1, CloseFailedKeeps
<1>4. CASE /\ clientEnd[c] = "open"
           /\ step' = [step EXCEPT ![p] = "select"]
           /\ toServer' = IF serverEnd[c] = "closed" THEN toServer
                          ELSE [toServer EXCEPT ![c] = Append(@, request'[p])]
           /\ UNCHANGED <<sock_local, clientEnd, toClient>>
  <2>1. AnswersTyped' /\ Own(p) /\ Moves(p)
    BY <1>1, <1>2, <1>4 DEF AnswersTyped, Own, SameState, SameConnection, Moves, NetInv, NetTyped, Remembers
  <2>2. step'[p] = "select" /\ unsent'[c] = unsent[c] /\ (Sole(p)' => Sole(p))
    BY <1>4 DEF AnswersTyped, Remembers, Sole
  <2>3. Waiting(p)'
    BY <1>1, <1>2, <1>4, <2>2 DEF Waiting
  <2>4. ASSUME c \notin mixed, Sole(p)
        PROVE  /\ serverEnd'[c] = "closed" => toServer'[c] = <<>> /\ unsent'[c] = <<>>
               /\ Asked(p)'
    <3>1. Quiet(c)
      BY <1>1, <2>4 DEF Settled, Orderly
    <3>2. CASE serverEnd[c] = "closed"
      BY <1>1, <1>2, <1>4, <2>2, <3>1, <3>2 DEF Asked, Quiet
    <3>3. CASE serverEnd[c] # "closed"
      <4>1. toServer'[c] = <<request'[p]>>
        BY <1>2, <1>4, <3>1, <3>3 DEF Quiet, NetInv, NetTyped
      <4>2. QED
        BY <1>1, <1>2, <1>4, <2>2, <3>1, <3>3, <4>1 DEF Asked, Quiet
    <3>4. QED
      BY <3>2, <3>3
  <2>5. Orderly(p)'
    BY <1>4, <2>2, <2>4 DEF Orderly, Remembers
  <2>6. Single(p)'
    <3>1. SUFFICES ASSUME Sole(p), p \notin KeepAlive
                   PROVE  /\ Range(toServer'[c]) \subseteq {request'[p]}
                          /\ Abouts(unsent'[c]) \cup Abouts(toClient'[c]) \cup Abouts(rcvBuffer'[p])
                               \subseteq {0} \cup {request'[p]}
      BY <1>4, <2>2 DEF Single, Due
    <3>2. /\ Range(toServer[c]) \subseteq {}
          /\ Abouts(unsent[c]) \cup Abouts(toClient[c]) \cup Abouts(rcvBuffer[p]) \subseteq {0}
      BY <1>1, <1>4, <3>1 DEF Settled, Single, Due
    <3>3. toServer[c] = <<>>
      BY <1>2, <3>2, NothingInRange DEF NetInv, NetTyped
    <3>4. toServer'[c] = <<>> \/ toServer'[c] = <<request'[p]>>
      BY <1>2, <1>4, <3>3 DEF NetInv, NetTyped
    <3>5. Range(<<request'[p]>>) = {request'[p]}
      BY DEF Range
    <3>6. QED
      BY <1>1, <1>4, <2>2, <3>2, <3>4, <3>5, AboutsOfNone
  <2>7. QED
    BY <2>1, <2>3, <2>5, <2>6 DEF Kept, Settled
<1>5. QED
  BY <1>1, <1>3, <1>4, Zenon DEF SocketClient_send

LEMMA TimeoutKeeps ==
  ASSUME Assumptions, AnswerInv, NEW p \in Clients, Timeout(p), Remembers
  PROVE  Kept(p)
BY CloseFailedKeeps DEF Timeout, AnswerInv, Settled, Waiting

LEMMA ReceiveKeeps ==
  ASSUME Assumptions, AnswerInv, NEW p \in Clients, Receive(p), Remembers
  PROVE  Kept(p)
<1> USE DEF AnswerInv
<1> DEFINE c == sock_local[p]
<1>1. PICK n \in 1..Len(toClient[c]) :
        /\ rcvBuffer' = [rcvBuffer EXCEPT ![p] = @ \o Taken(toClient[c], n)]
        /\ toClient' = [toClient EXCEPT ![c] = Left(@, n)]
  BY Zenon DEF Receive
<1>2. /\ step[p] \in {"select", "recv"} /\ c # NULL /\ c \in Conns
      /\ UNCHANGED <<initialized, sock_local, request, made, toServer, clientEnd, serverEnd, unsent>>
  BY SocketIsConnection DEF Receive, Settled, Waiting, Remembers
<1>3. \E s \in {"callback", "recv"} : step' = [step EXCEPT ![p] = s]
  BY DEF Receive
<1>4. /\ toClient[c] \in Seq(Pieces) /\ rcvBuffer[p] \in Seq(Pieces)
      /\ Taken(toClient[c], n) \in Seq(Pieces) /\ Left(toClient[c], n) \in Seq(Pieces)
  BY <1>2 DEF AnswersTyped, Taken, Left
<1>5. AnswersTyped' /\ Own(p) /\ Moves(p)
  BY <1>1, <1>2, <1>3, <1>4 DEF AnswersTyped, Own, SameState, SameConnection, Moves
<1>6. step'[p] \in {"callback", "recv"} /\ (Sole(p)' => Sole(p))
  BY <1>2, <1>3 DEF AnswersTyped, Sole, Remembers
<1>7. Waiting(p)'
  BY <1>2, <1>6 DEF Settled, Waiting
<1>8. ASSUME c \notin mixed, Sole(p)
      PROVE  Quiet(c)' /\ Asked(p)'
  <2>1. toServer[c] = <<>> /\ unsent[c] = <<>> /\ toClient[c] = TheAnswer(p) /\ rcvBuffer[p] = <<>>
    BY <1>1, <1>2, <1>8 DEF Settled, Orderly, Asked, Quiet
  <2>2. Taken(toClient[c], n) = TheAnswer(p) /\ Left(toClient[c], n) = <<>>
    BY <2>1, OnePiece DEF TheAnswer
  <2>3. toClient'[c] = <<>> /\ rcvBuffer'[p] = <<>> \o TheAnswer(p)
    BY <1>1, <1>2, <2>1, <2>2 DEF AnswersTyped
  <2>4. <<>> \o TheAnswer(p) = TheAnswer(p)
    BY DEF TheAnswer
  <2>5. QED
    BY <1>2, <2>1, <2>3, <2>4 DEF Quiet, Asked, TheAnswer
<1>9. Orderly(p)'
  BY <1>2, <1>6, <1>8 DEF Settled, Orderly, Quiet, Remembers
<1>10. Single(p)'
  <2>1. /\ toClient'[c] = Left(toClient[c], n)
        /\ rcvBuffer'[p] = rcvBuffer[p] \o Taken(toClient[c], n)
    BY <1>1, <1>2 DEF AnswersTyped
  <2>2. /\ Abouts(toClient'[c]) \subseteq Abouts(toClient[c])
        /\ Abouts(rcvBuffer'[p]) \subseteq Abouts(rcvBuffer[p]) \cup Abouts(toClient[c])
    <3>1. /\ Abouts(Left(toClient[c], n)) \subseteq Abouts(toClient[c])
          /\ Abouts(Taken(toClient[c], n)) \subseteq Abouts(toClient[c])
      BY <1>4, AboutsOfParts
    <3>2. PICK x : x \in Pieces
      <4>1. [request |-> 0, eol |-> TRUE] \in Pieces
        BY DEF Pieces
      <4>2. QED
        BY <4>1
    <3>3. Abouts(rcvBuffer[p] \o Taken(toClient[c], n)) \subseteq Abouts(rcvBuffer[p]) \cup Abouts(Taken(toClient[c], n))
      BY <1>4, <3>2, AboutsOfSums
    <3>4. QED
      BY <2>1, <3>1, <3>3
  <2>3. Due(p)' = Due(p) /\ Due(p) = {request[p]}
    BY <1>2, <1>6 DEF Due
  <2>4. SUFFICES ASSUME Sole(p), p \notin KeepAlive, clientEnd[c] = "open"
                 PROVE  /\ Range(toServer[c]) \subseteq Due(p)
                        /\ Abouts(unsent[c]) \cup Abouts(toClient'[c]) \cup Abouts(rcvBuffer'[p]) \subseteq {0} \cup Due(p)
    BY <1>2, <1>6, <2>3 DEF Single
  <2>5. /\ Range(toServer[c]) \subseteq Due(p)
        /\ Abouts(unsent[c]) \cup Abouts(toClient[c]) \cup Abouts(rcvBuffer[p]) \subseteq {0} \cup Due(p)
    BY <2>4 DEF Settled, Single
  <2>6. QED
    BY <2>2, <2>5
<1>11. QED
  BY <1>5, <1>7, <1>9, <1>10 DEF Kept, Settled

LEMMA ReceiveEndKeeps ==
  ASSUME Assumptions, AnswerInv, NEW p \in Clients, ReceiveEnd(p), Remembers
  PROVE  Kept(p)
<1> USE DEF AnswerInv
<1>1. /\ step[p] # "idle" /\ step' = [step EXCEPT ![p] = "callback"] /\ step'[p] = "callback"
      /\ toClient[sock_local[p]] = <<>>
      /\ serverEnd[sock_local[p]] = "closed" \/ clientEnd[sock_local[p]] # "open"
      /\ UNCHANGED <<initialized, sock_local, request, rcvBuffer, made, toServer, toClient, clientEnd, serverEnd, unsent>>
  BY DEF ReceiveEnd, netVars, AnswersTyped, Remembers
<1>2. AnswersTyped' /\ Own(p) /\ Moves(p)
  BY <1>1 DEF AnswersTyped, Own, SameState, SameConnection, Moves
<1>3. Sole(p)' => Sole(p) /\ serverEnd[sock_local[p]] = "closed"
  BY <1>1 DEF Sole, Settled, Waiting, Remembers
<1>4. Waiting(p)'
  BY <1>1, <1>3 DEF Settled, Waiting
<1>5. Orderly(p)'
  BY <1>1, <1>3 DEF Settled, Orderly, Asked, TheAnswer, Quiet, Remembers
<1>6. Single(p)'
  <2>1. Due(p)' = Due(p)
    BY <1>1 DEF Due
  <2>2. Single(p)
    BY DEF Settled
  <2>3. QED
    BY <1>1, <1>3, <2>1, <2>2 DEF Single
<1>7. QED
  BY <1>2, <1>4, <1>5, <1>6 DEF Kept, Settled

LEMMA CallbackKeeps ==
  ASSUME Assumptions, AnswerInv, NEW p \in Clients, Callback(p), Remembers
  PROVE  Kept(p)
<1> USE DEF AnswerInv
<1> DEFINE c == sock_local[p]
<1>1. /\ step[p] = "callback" /\ c # NULL /\ c \in Conns
      /\ step' = [step EXCEPT ![p] = "idle"] /\ rcvBuffer' = [rcvBuffer EXCEPT ![p] = <<>>]
      /\ UNCHANGED <<initialized, sock_local, request, made, toServer, serverEnd, unsent>>
  BY SocketIsConnection DEF Callback, Settled, Waiting, Remembers
<1>2. /\ toClient' \in [Conns -> Seq(Pieces)]
      /\ \A d \in Conns \ {c} : toClient'[d] = toClient[d] /\ clientEnd'[d] = clientEnd[d]
      /\ toClient'[c] \in {toClient[c], <<>>}
      /\ p \notin KeepAlive => clientEnd'[c] # "open"
  BY <1>1, CloseTyped DEF Callback, AnswersTyped, NetInv
<1>3. step'[p] = "idle" /\ rcvBuffer'[p] = <<>> /\ (Sole(p)' => Sole(p))
  BY <1>1 DEF AnswersTyped, Sole, Remembers
<1>4. AnswersTyped' /\ Own(p) /\ Moves(p)
  <2>1. <<>> \in Seq(Pieces)
    OBVIOUS
  <2>2. QED
    BY <1>1, <1>2, <2>1 DEF AnswersTyped, Own, SameState, SameConnection, Moves
<1>5. Waiting(p)' /\ Orderly(p)'
  BY <1>1, <1>2, <1>3 DEF Settled, Waiting, Orderly, Quiet, Remembers
<1>6. Single(p)'
  BY <1>1, <1>2 DEF Single
<1>7. QED
  BY <1>4, <1>5, <1>6 DEF Kept, Settled

(* A connection that two clients hold is remembered.                        *)
LEMMA SocketsShared ==
  ASSUME Assumptions, NetInv', Remember
  PROVE  OwnConnection'
<1>1. \A p \in Clients : sock_local'[p] # NULL => sock_local'[p] \in Conns
  BY DEF Assumptions, ConnectionsAssumption, NetInv, NetTyped, ClientsTyped, NULL, Conns
<1>2. QED
  BY <1>1 DEF Remember, OwnConnection

LEMMA ClientAnswers ==
  ASSUME Assumptions, AnswerInv, ClientStep
  PROVE  AnswerInv'
<1> USE DEF AnswerInv
<1>1. PICK p \in Clients : ClientNext(p)
  BY DEF ClientStep
<1>2. Remembers /\ UNCHANGED <<pc, clients, serving>>
  BY DEF ClientStep, Remember, Remembers, serverVars, sendVars
<1>3. Kept(p)
  BY <1>1, <1>2, ConstructorKeeps, reConnectKeeps, SendKeeps, TimeoutKeeps, ReceiveKeeps,
     ReceiveEndKeeps, CallbackKeeps DEF ClientNext
<1>4. NetInv'
  BY ClientKeeps
<1>5. \A q \in Clients : sock_local[q] # NULL => sock_local[q] \in Conns /\ sock_local[q] <= made
  BY SocketIsConnection
<1>6. made \in Nat /\ made' \in Nat /\ made' >= made
  BY <1>3 DEF Kept, Moves, NetInv, NetTyped, Assumptions, ConnectionsAssumption
<1>7. Fresh'
  <2>1. ASSUME NEW c \in Conns, c > made'
        PROVE  toServer'[c] = <<>> /\ toClient'[c] = <<>> /\ unsent'[c] = <<>>
    <3>1. c > made /\ c # sock_local[p]
      BY <1>5, <1>6, <2>1 DEF NULL, Conns, Assumptions, ConnectionsAssumption
    <3>2. QED
      BY <1>3, <3>1 DEF Kept, Own, SameConnection, Fresh, Quiet
  <2>2. QED
    BY <2>1 DEF Fresh, Quiet
<1>8. OneAnswer'
  BY <1>2 DEF OneAnswer, Remembers
<1>9. OwnConnection'
  BY <1>2, <1>4, SocketsShared DEF Remembers
<1>10. ASSUME NEW q \in Clients
       PROVE  Settled(q)'
  <2>1. CASE q = p
    BY <1>3, <2>1 DEF Kept
  <2>2. CASE q # p /\ sock_local'[q] = sock_local[q]
    <3>1. SameClient(q) /\ (Sole(q) => SameConnection(sock_local[q]))
      BY <1>3, <1>5, <2>2 DEF Kept, Own, OwnConnection, SameClient, Sole
    <3>2. QED
      BY <1>2, <3>1, LeftAlone DEF Remembers
  <2>3. CASE q # p /\ sock_local'[q] # sock_local[q]
    BY <1>3, <2>3, TakenOver DEF Kept, Own
  <2>4. QED
    BY <2>1, <2>2, <2>3
<1>11. QED
  BY <1>3, <1>4, <1>7, <1>8, <1>9, <1>10 DEF Kept
-----------------------------------------------------------------------------
(* A callback for the client at k, on whose connection left is what is still *)
(* unread: what may come of it there.                                      *)
LEMMA CalledDoes ==
  ASSUME AnswerInv, NEW k, clients[k] \in Conns, NEW r \in Nat, NEW left \in Seq(Nat), Called(k, r, left),
         UNCHANGED <<toClient, clientEnd>>, pc = "serve"
  PROVE  LET d == clients[k]
         IN  /\ \A c \in Conns \ {d} : SameConnection(c)
             /\ unsent' \in [Conns -> Seq(Pieces)]
             /\ toServer'[d] = left /\ UNCHANGED serverEnd
             /\ unsent[d] = <<>> /\ (unsent'[d] = <<>> \/ \E n \in 1..2 : unsent'[d] = Answer(r, n))
             /\ OneAnswer'
<1> USE DEF AnswerInv
<1> DEFINE d == clients[k]
<1>1. PICK o \in Outcomes : IF o.again THEN Hear(k) ELSE Respond(k, Answer(r, o.pieces), o.close)
  BY Zenon DEF Called
<1>2. UNCHANGED <<serverEnd, clients>> /\ toServer' = [toServer EXCEPT ![d] = left]
  BY DEF Called, Unread
<1>3. unsent[d] = <<>> /\ \A c \in Conns : unsent[c] = <<>>
  BY DEF OneAnswer
<1>4. o.pieces \in 0..2 /\ Answer(r, 0) = <<>> /\ \A n \in 0..2 : Answer(r, n) \in Seq(Pieces)
  BY DEF Answer, Piece, Pieces, Outcomes
<1>5. toServer'[d] = left /\ \A c \in Conns \ {d} : toServer'[c] = toServer[c]
  BY <1>2 DEF NetInv, NetTyped
<1>6. CASE Hear(k)
  <2>1. UNCHANGED unsent
    BY <1>6 DEF Hear, sendVars
  <2>2. QED
    BY <1>2, <1>3, <1>5, <2>1 DEF SameConnection, AnswersTyped, OneAnswer
<1>7. CASE Respond(k, Answer(r, o.pieces), o.close)
  <2>1. unsent' = [unsent EXCEPT ![d] = Answer(r, o.pieces)] /\ pc' = "send" /\ serving' = k
    BY <1>7 DEF Respond
  <2>2. /\ unsent' \in [Conns -> Seq(Pieces)]
        /\ unsent'[d] = Answer(r, o.pieces)
        /\ \A c \in Conns \ {d} : unsent'[c] = unsent[c]
    BY <1>4, <2>1 DEF AnswersTyped
  <2>3. unsent'[d] = <<>> \/ \E n \in 1..2 : unsent'[d] = Answer(r, n)
    <3>1. o.pieces = 0 \/ o.pieces \in 1..2
      BY <1>4
    <3>2. QED
      BY <1>4, <2>2, <3>1
  <2>4. QED
    BY <1>2, <1>3, <1>5, <2>1, <2>2, <2>3 DEF SameConnection, OneAnswer
<1>8. QED
  BY <1>1, <1>6, <1>7

(* What the server does on a connection: what it then sends was there, or   *)
(* answers what was there, or is an async message.                         *)
Derives(d) ==
  /\ Range(toServer'[d]) \subseteq Range(toServer[d])
  /\ Abouts(unsent'[d]) \subseteq Abouts(unsent[d]) \cup {0} \cup Range(toServer[d])
  /\ Abouts(toClient'[d]) \subseteq Abouts(toClient[d]) \cup Abouts(unsent[d])

(* It keeps the side of a sole client orderly: nothing, a close, an answer  *)
(* to what it reads, or a piece sent.                                       *)
Rests(d) ==
  /\ toClient'[d] = toClient[d] /\ unsent'[d] = unsent[d]
  /\ \/ toServer'[d] = toServer[d] /\ serverEnd'[d] = serverEnd[d]
     \/ toServer'[d] = <<>> /\ unsent[d] = <<>>

Replies(d, p) ==
  /\ toServer[d] = <<request[p]>> /\ toServer'[d] = <<>>
  /\ unsent'[d] \in {<<>>, TheAnswer(p)}
  /\ toClient'[d] = toClient[d] /\ serverEnd'[d] = serverEnd[d]

Sends(d) ==
  /\ unsent[d] # <<>> /\ unsent'[d] = Tail(unsent[d])
  /\ toClient'[d] \in {toClient[d], Append(toClient[d], Head(unsent[d]))}
  /\ toServer'[d] = toServer[d] /\ serverEnd'[d] = serverEnd[d]

Answers(d) ==
  /\ \A c \in Conns \ {d} : SameConnection(c)
  /\ toClient' \in [Conns -> Seq(Pieces)] /\ unsent' \in [Conns -> Seq(Pieces)]
  /\ serverEnd' \in [Conns -> {"open", "closed"}]
  /\ clientEnd[d] = "open" <=> clientEnd'[d] = "open"
  /\ Derives(d)
  /\ \A p \in Clients : sock_local[p] = d /\ Sole(p) /\ d \notin mixed' => Rests(d) \/ Replies(d, p) \/ Sends(d)

LEMMA AnswersKeep ==
  ASSUME Assumptions, AnswerInv, NEW d \in Conns, d <= made, Answers(d), UNCHANGED <<made, clientVars>>,
         mixed \subseteq mixed', shared \subseteq shared'
  PROVE  AnswersTyped' /\ Fresh' /\ \A p \in Clients : Settled(p)'
<1> USE DEF AnswerInv
<1>1. AnswersTyped' /\ \A p \in Clients : SameClient(p)
  BY DEF Answers, AnswersTyped, clientVars, SameClient, SameState
<1>2. Fresh'
  <2>1. \A c \in Conns : c > made => SameConnection(c)
    BY DEF Answers, NetInv, NetTyped, Conns, Assumptions, ConnectionsAssumption
  <2>2. QED
    BY <2>1 DEF Fresh, Quiet, SameConnection
<1>3. ASSUME NEW p \in Clients
      PROVE  Settled(p)'
  <2>0. /\ sock_local'[p] = sock_local[p] /\ step'[p] = step[p] /\ request'[p] = request[p]
        /\ rcvBuffer'[p] = rcvBuffer[p] /\ (Sole(p)' => Sole(p))
    BY <1>1 DEF SameClient, SameState, Sole
  <2>1. CASE sock_local[p] # d
    <3>1. sock_local[p] # NULL => SameConnection(sock_local[p])
      BY <2>1, SocketIsConnection DEF Answers
    <3>2. QED
      BY <1>1, <3>1, LeftAlone DEF Sole
  <2>2. CASE sock_local[p] = d
    <3>1. Waiting(p)'
      BY <1>1, <2>0, <2>2 DEF Settled, Waiting, SameClient, SameState, Answers
    <3>2. Single(p)'
      BY <2>0, <2>2 DEF Settled, Single, Answers, Derives, Due
    <3>3. SUFFICES ASSUME Sole(p), d \notin mixed'
                   PROVE  /\ serverEnd'[d] = "closed" => toServer'[d] = <<>> /\ unsent'[d] = <<>>
                          /\ step[p] \in {"idle", "callback"} => Quiet(d)'
                          /\ step[p] # "idle" => Asked(p)'
      BY <2>0, <2>2, <3>1, <3>2 DEF Settled, Orderly
    <3>4. /\ serverEnd[d] = "closed" => toServer[d] = <<>> /\ unsent[d] = <<>>
          /\ step[p] \in {"idle", "callback"} => Quiet(d)
          /\ step[p] # "idle" => Asked(p)
          /\ step[p] \in {"idle", "select", "recv", "callback"}
      BY <2>2, <3>3 DEF Settled, Orderly, AnswersTyped
    <3>5. CASE Rests(d)
      BY <2>0, <2>2, <3>4, <3>5 DEF Rests, Asked, TheAnswer, Quiet
    <3>6. CASE Replies(d, p)
      <4>1. step[p] \notin {"idle", "callback"}
        BY <3>4, <3>6 DEF Replies, Quiet
      <4>2. Asked(p) /\ toClient[d] = <<>> /\ rcvBuffer[p] = <<>>
        BY <2>2, <3>4, <3>6, <4>1 DEF Replies, Asked, Quiet
      <4>3. serverEnd'[d] # "closed"
        <5>1. toServer[d] # <<>>
          BY <3>6 DEF Replies
        <5>2. QED
          BY <3>4, <3>6, <5>1 DEF Replies
      <4>4. Asked(p)'
        BY <2>0, <2>2, <3>6, <4>2 DEF Replies, Asked, TheAnswer, Quiet
      <4>5. QED
        BY <4>1, <4>3, <4>4
    <3>7. CASE Sends(d)
      <4>1. step[p] \notin {"idle", "callback"}
        BY <3>4, <3>7 DEF Sends, Quiet
      <4>2. /\ unsent[d] = TheAnswer(p) /\ toServer[d] = <<>> /\ toClient[d] = <<>>
            /\ rcvBuffer[p] = <<>>
        BY <2>2, <3>4, <3>7, <4>1 DEF Sends, Asked, Quiet
      <4>3. /\ Tail(TheAnswer(p)) = <<>>
            /\ Append(<<>>, Head(TheAnswer(p))) = TheAnswer(p)
        BY DEF TheAnswer
      <4>4. unsent'[d] = <<>> /\ toClient'[d] \in {<<>>, TheAnswer(p)}
        BY <3>7, <4>2, <4>3 DEF Sends
      <4>5. QED
        BY <2>0, <2>2, <3>4, <3>7, <4>1, <4>2, <4>4 DEF Sends, Asked, TheAnswer, Quiet
    <3>8. QED
      BY <2>2, <3>3, <3>5, <3>6, <3>7 DEF Answers
  <2>3. QED
    BY <2>1, <2>2
<1>4. QED
  BY <1>1, <1>2, <1>3

LEMMA AnswerIs ==
  ASSUME NEW r \in Nat
  PROVE  /\ \A n \in 1..2 : Answer(r, n) \in Seq(Pieces) /\ Len(Answer(r, n)) = n /\ Abouts(Answer(r, n)) \subseteq {r}
         /\ Answer(r, 1) = <<Piece(r, TRUE)>>
         /\ Answer(r, 2) \in Seq(Pieces) /\ Len(Answer(r, 2)) = 2 /\ ~ Answer(r, 2)[2].eol
         /\ \A n \in 1..2 : Answer(r, n)[1].request = r
<1>1. \A n \in 1..2 : Answer(r, n) \in Seq(Pieces) /\ Len(Answer(r, n)) = n
  BY DEF Answer, Piece, Pieces
<1>2. \A n \in 1..2 : \A i \in 1..n : Answer(r, n)[i].request = r /\ (Answer(r, n)[i].eol <=> i = 1)
  BY DEF Answer, Piece
<1>3. \A n \in 1..2 : Abouts(Answer(r, n)) \subseteq {r}
  BY <1>1, <1>2 DEF Abouts
<1>4. Answer(r, 1) = <<Piece(r, TRUE)>>
  <2>1. Answer(r, 1)[1] = Piece(r, TRUE)
    <3>1. 1 \in 1..1
      OBVIOUS
    <3>2. Answer(r, 1)[1] = Piece(r, 1 = 1)
      BY <3>1, Zenon DEF Answer
    <3>3. (1 = 1) = TRUE
      BY Zenon
    <3>4. QED
      BY <3>2, <3>3, Zenon
  <2>2. Answer(r, 1) = <<Answer(r, 1)[1]>>
    BY <1>1
  <2>3. QED
    BY <2>1, <2>2
<1>5. Answer(r, 2) \in Seq(Pieces) /\ Len(Answer(r, 2)) = 2 /\ ~ Answer(r, 2)[2].eol
  <2>1. 2 \in 1..2
    OBVIOUS
  <2>2. Answer(r, 2) \in Seq(Pieces) /\ Len(Answer(r, 2)) = 2
    BY <1>1, <2>1, Zenon
  <2>3. ~ Answer(r, 2)[2].eol
    BY <1>2
  <2>4. QED
    BY <2>2, <2>3
<1>6. \A n \in 1..2 : Answer(r, n)[1].request = r
  BY <1>2
<1>7. QED
  BY <1>1, <1>3, <1>4, <1>5, <1>6, Zenon

(* Something unusual that is about to be sent is remembered.                *)
LEMMA UnsentIsUsual ==
  ASSUME Remember, NEW d \in Conns, d \notin mixed'
  PROVE  d \notin mixed /\ \A i \in DOMAIN unsent'[d] : unsent'[d][i].eol /\ unsent'[d][i].request # 0
BY DEF Remember, Unusual

LEMMA ServeAnswers ==
  ASSUME Assumptions, AnswerInv, NEW k \in read_handles, Remember, pc = "serve",
         UNCHANGED <<toClient, clientEnd>>,
         ServeAsync(k) \/ ServeInput(k) \/ ServeEnd(k)
  PROVE  clients[k] \in Conns /\ clients[k] <= made /\ Answers(clients[k]) /\ OneAnswer'
<1> USE DEF AnswerInv
<1> DEFINE d == clients[k]
<1>1. d \in Conns /\ d <= made /\ toServer[d] \in Seq(Nat) /\ toClient[d] \in Seq(Pieces)
  BY SMTT(30) DEF NetInv, NetTyped, TableTyped, Connected, Free, Conns, AnswersTyped,
     Assumptions, ConnectionsAssumption
<1>2. CASE ServeAsync(k)
  <2>1. Called(k, 0, toServer[d])
    BY <1>2 DEF ServeAsync
  <2>2. /\ \A c \in Conns \ {d} : SameConnection(c)
        /\ unsent' \in [Conns -> Seq(Pieces)] /\ OneAnswer'
        /\ toServer'[d] = toServer[d] /\ UNCHANGED serverEnd
        /\ unsent[d] = <<>> /\ (unsent'[d] = <<>> \/ \E n \in 1..2 : unsent'[d] = Answer(0, n))
    BY <1>1, <2>1, CalledDoes
  <2>3. ASSUME NEW n \in 1..2, unsent'[d] = Answer(0, n)
        PROVE  d \in mixed'
    <3>1. Len(Answer(0, n)) = n /\ Answer(0, n) \in Seq(Pieces) /\ Answer(0, n)[1].request = 0
      BY AnswerIs
    <3>2. 1 \in DOMAIN unsent'[d] /\ unsent'[d][1].request = 0
      BY <2>3, <3>1
    <3>3. QED
      BY <1>1, <3>2, UnsentIsUsual
  <2>4. Derives(d)
    <3>1. Abouts(unsent'[d]) \subseteq {0}
      BY <2>2, AnswerIs, AboutsOfNone
    <3>2. QED
      BY <2>2, <3>1 DEF Derives
  <2>5. QED
    BY <1>1, <2>2, <2>3, <2>4 DEF Answers, Rests, AnswersTyped
<1>3. CASE ServeInput(k)
  <2>1. PICK n \in 1..Len(toServer[d]) : Called(k, Last(Taken(toServer[d], n)), Left(toServer[d], n))
    BY <1>3 DEF ServeInput
  <2> DEFINE r == Last(Taken(toServer[d], n))
             left == Left(toServer[d], n)
  <2>2. /\ r \in Nat /\ left \in Seq(Nat)
        /\ r \in Range(toServer[d]) /\ Range(left) \subseteq Range(toServer[d])
    BY <1>1, <2>1, RequestsTaken
  <2>3. /\ \A c \in Conns \ {d} : SameConnection(c)
        /\ unsent' \in [Conns -> Seq(Pieces)] /\ OneAnswer'
        /\ toServer'[d] = left /\ UNCHANGED serverEnd
        /\ unsent[d] = <<>> /\ (unsent'[d] = <<>> \/ \E i \in 1..2 : unsent'[d] = Answer(r, i))
    BY <1>1, <2>1, <2>2, CalledDoes
  <2>4. ASSUME NEW p \in Clients, sock_local[p] = d, Sole(p), d \notin mixed'
        PROVE  Replies(d, p)
    <3>1. toServer[d] = <<request[p]>>
      <4>1. d \notin mixed /\ Orderly(p)
        BY <1>1, <2>4, UnsentIsUsual DEF Settled
      <4>2. toServer[d] # <<>>
        BY <1>1, <2>1
      <4>3. step[p] # "idle" /\ Asked(p)
        BY <2>4, <4>1, <4>2 DEF Orderly, Quiet
      <4>4. QED
        BY <2>4, <4>2, <4>3 DEF Asked, Quiet
    <3>2. r = request[p] /\ left = <<>>
      BY <2>1, <3>1, OnePiece
    <3>3. ASSUME NEW i \in 1..2, unsent'[d] = Answer(r, i)
          PROVE  unsent'[d] = TheAnswer(p)
      <4>1. i # 2
        <5>1. ASSUME i = 2
              PROVE  FALSE
          <6>1. Answer(r, 2) \in Seq(Pieces) /\ Len(Answer(r, 2)) = 2 /\ ~ Answer(r, 2)[2].eol
            BY <2>2, AnswerIs, Zenon
          <6>2. 2 \in DOMAIN unsent'[d] /\ ~ unsent'[d][2].eol
            BY <3>3, <5>1, <6>1
          <6>3. QED
            BY <1>1, <2>4, <6>2, UnsentIsUsual
        <5>2. QED
          BY <5>1
      <4>2. unsent'[d] = Answer(r, 1)
        BY <3>3, <4>1
      <4>3. QED
        BY <2>2, <3>2, <4>2, AnswerIs DEF TheAnswer
    <3>4. QED
      BY <2>3, <3>1, <3>2, <3>3 DEF Replies
  <2>5. Derives(d)
    <3>1. Abouts(unsent'[d]) \subseteq {r}
      BY <2>2, <2>3, AnswerIs, AboutsOfNone
    <3>2. QED
      BY <1>1, <2>2, <2>3, <3>1 DEF Derives, Answers
  <2>6. QED
    BY <1>1, <2>3, <2>4, <2>5 DEF Answers, AnswersTyped
<1>4. CASE ServeEnd(k)
  <2>1. /\ toServer' = [toServer EXCEPT ![d] = <<>>] /\ serverEnd' = [serverEnd EXCEPT ![d] = "closed"]
        /\ UNCHANGED <<unsent, pc>> /\ unsent[d] = <<>>
    BY <1>1, <1>4 DEF ServeEnd, Closed, Unread, sendVars, OneAnswer
  <2>2. OneAnswer'
    BY <2>1 DEF OneAnswer
  <2>3. toServer'[d] = <<>> /\ Derives(d)
    BY <1>1, <2>1, AboutsOfNone DEF Derives, NetInv, NetTyped
  <2>4. QED
    BY <1>1, <2>1, <2>2, <2>3 DEF Answers, Rests, SameConnection, AnswersTyped, NetInv, NetTyped
<1>5. QED
  BY <1>1, <1>2, <1>3, <1>4

LEMMA SendtoAnswers ==
  ASSUME Assumptions, AnswerInv, Sendto
  PROVE  clients[serving] \in Conns /\ clients[serving] <= made /\ Answers(clients[serving]) /\ OneAnswer'
<1> USE DEF AnswerInv
<1> DEFINE d == clients[serving]
<1>1. /\ pc = "send" /\ unsent[d] # <<>> /\ unsent' = [unsent EXCEPT ![d] = Tail(@)]
      /\ UNCHANGED <<pc, serving, clients, toServer, serverEnd>>
  BY DEF Sendto
<1>2. d \in Conns /\ d <= made /\ toClient[d] \in Seq(Pieces) /\ unsent[d] \in Seq(Pieces) /\ 1 \in 1..Len(unsent[d])
  <2>1. d \in Conns /\ d <= made
    BY <1>1 DEF NetInv, Answering, Connected, NetTyped, TableTyped, Conns, Free, Assumptions, ConnectionsAssumption
  <2>2. QED
    BY <1>1, <2>1 DEF AnswersTyped
<1>3. /\ Tail(unsent[d]) \in Seq(Pieces) /\ Head(unsent[d]) \in Pieces
      /\ Abouts(Tail(unsent[d])) \subseteq Abouts(unsent[d]) /\ Head(unsent[d]).request \in Abouts(unsent[d])
  BY <1>2, AboutsOfParts
<1>4. /\ Append(toClient[d], Head(unsent[d])) \in Seq(Pieces)
      /\ Abouts(Append(toClient[d], Head(unsent[d]))) \subseteq Abouts(toClient[d]) \cup {Head(unsent[d]).request}
  BY <1>2, <1>3, AboutsOfSums
<1>5. /\ unsent' \in [Conns -> Seq(Pieces)] /\ unsent'[d] = Tail(unsent[d])
      /\ \A c \in Conns \ {d} : unsent'[c] = unsent[c]
  BY <1>1, <1>2, <1>3 DEF AnswersTyped
<1>6. /\ toClient' \in [Conns -> Seq(Pieces)]
      /\ toClient'[d] \in {toClient[d], Append(toClient[d], Head(unsent[d]))}
      /\ \A c \in Conns \ {d} : toClient'[c] = toClient[c]
      /\ \A c \in Conns : clientEnd[c] = "open" <=> clientEnd'[c] = "open"
  <2>1. CASE Delivered(d, Head(unsent[d]))
    BY <1>2, <1>4, <2>1 DEF Delivered, AnswersTyped
  <2>2. CASE Lost(d)
    BY <1>2, <2>2 DEF Lost, AnswersTyped, NetInv, NetTyped
  <2>3. QED
    BY <2>1, <2>2 DEF Sendto
<1>7. OneAnswer'
  BY <1>1, <1>2, <1>5 DEF OneAnswer
<1>8. Derives(d)
  BY <1>1, <1>3, <1>4, <1>5, <1>6 DEF Derives
<1>9. Sends(d)
  BY <1>1, <1>5, <1>6 DEF Sends
<1>10. QED
  BY <1>1, <1>2, <1>5, <1>6, <1>7, <1>8, <1>9 DEF Answers, SameConnection, AnswersTyped

LEMMA SentAnswers ==
  ASSUME Assumptions, AnswerInv, Sent
  PROVE  clients[serving] \in Conns /\ clients[serving] <= made /\ Answers(clients[serving]) /\ OneAnswer'
<1> USE DEF AnswerInv
<1> DEFINE d == clients[serving]
<1>1. pc = "send" /\ unsent[d] = <<>> /\ UNCHANGED <<unsent, toClient, clientEnd>>
  BY DEF Sent
<1>2. d \in Conns /\ d <= made
  BY <1>1 DEF NetInv, Answering, Connected, NetTyped, TableTyped, Conns, Free, Assumptions, ConnectionsAssumption
<1>3. \/ UNCHANGED <<toServer, serverEnd>>
      \/ toServer' = [toServer EXCEPT ![d] = <<>>] /\ serverEnd' = [serverEnd EXCEPT ![d] = "closed"]
  BY DEF Sent, Closed, Unread
<1>4. OneAnswer'
  BY <1>1 DEF OneAnswer
<1>5. Derives(d)
  BY <1>1, <1>2, <1>3, AboutsOfNone DEF Derives, NetInv, NetTyped
<1>6. QED
  BY <1>1, <1>2, <1>3, <1>4, <1>5 DEF Answers, Rests, SameConnection, AnswersTyped, NetInv, NetTyped

LEMMA AcceptAnswers ==
  ASSUME Assumptions, AnswerInv, Accept, UNCHANGED <<toClient, clientEnd, unsent>>, pc = "select"
  PROVE  \/ UNCHANGED <<toServer, serverEnd>>
         \/ Head(backlog) \in Conns /\ Head(backlog) <= made /\ Answers(Head(backlog))
<1> USE DEF AnswerInv
<1> DEFINE d == Head(backlog)
<1>1. d \in Conns /\ d <= made
  BY DEF Accept, NetInv, NetTyped, Conns, Assumptions, ConnectionsAssumption
<1>2. CASE toServer' = [toServer EXCEPT ![d] = <<>>] /\ serverEnd' = [serverEnd EXCEPT ![d] = "closed"]
  <2>1. unsent[d] = <<>>
    BY <1>1 DEF OneAnswer
  <2>2. Derives(d)
    BY <1>1, <1>2, AboutsOfNone DEF Derives, NetInv, NetTyped
  <2>3. QED
    BY <1>1, <1>2, <2>1, <2>2 DEF Answers, Rests, SameConnection, AnswersTyped, NetInv, NetTyped
<1>3. QED
  BY <1>2 DEF Accept

LEMMA KilledAnswers ==
  ASSUME Assumptions, AnswerInv, Killed, UNCHANGED clientVars, mixed \subseteq mixed', shared \subseteq shared'
  PROVE  AnswersTyped' /\ Fresh' /\ OneAnswer' /\ \A p \in Clients : Settled(p)'
<1> USE DEF AnswerInv
<1>1. /\ UNCHANGED <<made, toClient, clientEnd>>
      /\ \A c \in Conns : toServer'[c] = <<>> /\ unsent'[c] = <<>>
      /\ serverEnd' = [c \in Conns |-> IF c <= made THEN "closed" ELSE serverEnd[c]]
      /\ unsent' = [c \in Conns |-> <<>>]
  BY DEF Killed
<1>2. AnswersTyped'
  <2>1. <<>> \in Seq(Pieces)
    OBVIOUS
  <2>2. unsent' \in [Conns -> Seq(Pieces)] /\ serverEnd' \in [Conns -> {"open", "closed"}]
    BY <1>1, <2>1 DEF AnswersTyped
  <2>3. QED
    BY <1>1, <2>2 DEF AnswersTyped, clientVars
<1>3. Fresh' /\ OneAnswer'
  BY <1>1 DEF Fresh, Quiet, OneAnswer
<1>4. ASSUME NEW p \in Clients
      PROVE  Settled(p)'
  <2>1. /\ UNCHANGED clientVars /\ (Sole(p)' => Sole(p))
        /\ Sole(p)' => sock_local[p] \in Conns
    BY SocketIsConnection DEF clientVars, Sole
  <2>2. Waiting(p)'
    BY <1>1, <2>1 DEF Settled, Waiting, clientVars
  <2>3. Orderly(p)'
    BY <1>1, <2>1 DEF Settled, Orderly, Asked, TheAnswer, Quiet, clientVars
  <2>4. Single(p)'
    <3>1. SUFFICES ASSUME Sole(p)', p \notin KeepAlive, clientEnd[sock_local[p]] = "open"
                   PROVE  /\ Range(toServer'[sock_local[p]]) \subseteq Due(p)
                          /\ Abouts(unsent'[sock_local[p]]) \cup Abouts(toClient[sock_local[p]]) \cup Abouts(rcvBuffer[p])
                               \subseteq {0} \cup Due(p)
      BY <1>1, <2>1 DEF Single, Due, clientVars
    <3>2. Abouts(toClient[sock_local[p]]) \cup Abouts(rcvBuffer[p]) \subseteq {0} \cup Due(p)
      BY <2>1, <3>1 DEF Settled, Single
    <3>3. Range(toServer'[sock_local[p]]) = {} /\ Abouts(unsent'[sock_local[p]]) = {}
      BY <1>1, <2>1, <3>1, AboutsOfNone
    <3>4. QED
      BY <3>2, <3>3
  <2>5. QED
    BY <2>2, <2>3, <2>4 DEF Settled
<1>5. QED
  BY <1>2, <1>3, <1>4

LEMMA ServerAnswers ==
  ASSUME Assumptions, AnswerInv, ServerStep
  PROVE  AnswerInv'
<1>1. Remember /\ mixed \subseteq mixed' /\ shared \subseteq shared' /\ UNCHANGED clientVars
  BY DEF ServerStep, Remember
<1>2. NetInv' /\ OwnConnection'
  BY <1>1, ServerKeeps, SocketsShared DEF AnswerInv
<1>3. UNCHANGED made
  BY DEF ServerStep, ServerNext, Select, Serve, Sendto, Killed, Sent, EndRound, netVars
<1>4. CASE OneAnswer' /\ \E d \in Conns : d <= made /\ Answers(d)
  BY <1>1, <1>2, <1>3, <1>4, AnswersKeep DEF AnswerInv
<1>5. CASE UNCHANGED <<toServer, toClient, clientEnd, serverEnd, unsent>> /\ OneAnswer'
  <2>1. AnswersTyped' /\ Fresh'
    BY <1>1, <1>3, <1>5 DEF AnswerInv, AnswersTyped, Fresh, Quiet, clientVars
  <2>2. \A p \in Clients : SameClient(p) /\ SameConnection(sock_local[p])
    BY <1>1, <1>5 DEF clientVars, SameClient, SameState, SameConnection
  <2>3. QED
    BY <1>1, <1>2, <1>5, <2>1, <2>2, LeftAlone DEF AnswerInv
<1>6. CASE Select
  <2>1. UNCHANGED <<toClient, clientEnd, unsent>> /\ pc = "select"
    BY <1>6 DEF Select, sendVars
  <2>2. OneAnswer'
    BY <2>1 DEF AnswerInv, OneAnswer
  <2>3. QED
    BY <1>4, <1>5, <1>6, <2>1, <2>2, AcceptAnswers DEF Select, Round, SeesEndRun
<1>7. CASE Serve
  <2>1. Served \in read_handles
    BY <1>7, ServedIsAHandle DEF Assumptions, AnswerInv, NetInv, Serve
  <2>2. QED
    BY <1>1, <1>4, <1>7, <2>1, ServeAnswers DEF Serve
<1>8. CASE Sendto
  BY <1>4, <1>8, SendtoAnswers
<1>9. CASE Sent
  BY <1>4, <1>9, SentAnswers
<1>10. CASE Killed
  BY <1>1, <1>2, <1>10, KilledAnswers DEF AnswerInv
<1>11. CASE EndRound
  <2>1. UNCHANGED <<toServer, toClient, clientEnd, serverEnd, unsent>> /\ pc = "serve"
    BY <1>11 DEF EndRound, netVars, sendVars
  <2>2. OneAnswer'
    BY <2>1 DEF AnswerInv, OneAnswer
  <2>3. QED
    BY <1>5, <2>1, <2>2
<1>12. QED
  BY <1>6, <1>7, <1>8, <1>9, <1>10, <1>11 DEF ServerStep, ServerNext

-----------------------------------------------------------------------------
LEMMA AnswerInvSuffices ==
  ASSUME AnswerInv
  PROVE  AnswersAreToRequests
<1> SUFFICES ASSUME NEW p \in Clients, step[p] = "callback", sock_local[p] \notin shared,
                    NEW k \in DOMAIN rcvBuffer[p]
             PROVE  \/ rcvBuffer[p][k].request = request[p]
                    \/ sock_local[p] \in mixed /\ (p \in KeepAlive \/ rcvBuffer[p][k].request = 0)
  BY DEF AnswersAreToRequests
<1>1. Waiting(p) /\ Orderly(p) /\ Single(p) /\ Sole(p)
  BY DEF AnswerInv, Settled, Waiting, Sole
<1>2. CASE sock_local[p] \notin mixed
  <2>1. Quiet(sock_local[p]) /\ Asked(p)
    BY <1>1, <1>2 DEF Orderly
  <2>2. rcvBuffer[p] \in {<<>>, TheAnswer(p)}
    BY <2>1 DEF Asked, Quiet, TheAnswer
  <2>3. QED
    BY <2>2 DEF TheAnswer, Piece
<1>3. CASE p \notin KeepAlive
  <2>1. Abouts(rcvBuffer[p]) \subseteq {0, request[p]}
    BY <1>1, <1>3 DEF Waiting, Single, Due
  <2>2. rcvBuffer[p][k].request = 0 \/ rcvBuffer[p][k].request = request[p]
    BY <2>1 DEF Abouts
  <2>3. CASE sock_local[p] \in mixed
    BY <1>3, <2>2, <2>3
  <2>4. QED
    BY <1>2, <2>3
<1>4. QED
  BY <1>2, <1>3

(* socket_client.c: whatever callbacks answer, and whenever clients give up *)
(* and connect again, what a client takes for an answer is one to the       *)
(* request it sent last; on a connection that only it holds, and that, if   *)
(* it is kept alive, has seen whole answers only.                          *)
THEOREM AnswersAlwaysFit ==
  ASSUME Assumptions
  PROVE  Spec => []AnswersAreToRequests
<1>1. Init => AnswerInv
  BY AnswerInvInit
<1>2. AnswerInv /\ [Next]_vars => AnswerInv'
  <2>1. SUFFICES ASSUME AnswerInv, [Next]_vars
                 PROVE  AnswerInv'
    OBVIOUS
  <2>2. CASE UNCHANGED vars
    <3>1. NetInv'
      BY <2>1, <2>2 DEF vars, netVars, serverVars, clientVars, AnswerInv, NetInv, NetTyped, TableTyped,
         ClientsTyped, Alone, Answering, Worthwhile, Connected, ServerReadable
    <3>2. AnswersTyped' /\ Fresh' /\ OneAnswer' /\ OwnConnection'
      BY <2>1, <2>2 DEF vars, netVars, serverVars, clientVars, AnswerInv, AnswersTyped, Fresh, Quiet,
         OneAnswer, OwnConnection
    <3>3. \A p \in Clients : Settled(p)'
      BY <2>1, <2>2, LeftAlone DEF vars, netVars, serverVars, clientVars, AnswerInv, SameClient, SameState,
         SameConnection
    <3>4. QED
      BY <3>1, <3>2, <3>3 DEF AnswerInv
  <2>3. QED
    BY <2>1, <2>2, ServerAnswers, ClientAnswers DEF Next
<1>3. AnswerInv => AnswersAreToRequests
  BY AnswerInvSuffices
<1>4. QED
  BY <1>1, <1>2, <1>3, PTL DEF Spec
=============================================================================
