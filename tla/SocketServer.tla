---------------------------- MODULE SocketServer ----------------------------
(***************************************************************************)
(* socket_server.c: one thread that selects among its listening socket and  *)
(* a table of clients, and calls back for what they send.  A callback can   *)
(* ask to be called for every client (an async message), or to hear no      *)
(* other client until this one has sent more.                              *)
(***************************************************************************)
EXTENDS Connections, FiniteSets

CONSTANTS
  GNUCSS_MAX_CLIENT,
  AsyncMax    \* bound on the async messages callbacks ask for

ASSUME SocketServerAssumption == GNUCSS_MAX_CLIENT \in Nat /\ AsyncMax \in Nat

VARIABLES
  clients,                  \* the connection of each place of the table, or Free
  async_needed,
  async_message_required,   \* 0, 1 asked for, 2 being sent
  rcv_from_this_guy_again,  \* a place or Free
  pc,                       \* "select", "serve", "send", "ended" or "killed"
  read_handles,             \* the places that select, or the server itself, has set,
                            \* and that are still to be served
  serving,                  \* the place that is being sent an answer, or Free
  unsent,                   \* of every connection, the pieces sendto has yet to send
  closes,                   \* whether the connection is closed when they are
  asked,                    \* history: how often an async message was asked for
  owed                      \* history: places an async message has yet to reach, as long
                            \* as no callback asks for something else

serverVars == <<clients, async_needed, async_message_required, rcv_from_this_guy_again,
                pc, read_handles, serving, unsent, closes, asked, owed>>

sendVars == <<serving, unsent, closes>>

Places == 1..GNUCSS_MAX_CLIENT
Free == 0
Connected == {k \in Places : clients[k] # Free}

ServerInit ==
  /\ clients = [k \in Places |-> Free]
  /\ async_needed = [k \in Places |-> FALSE]
  /\ async_message_required = 0
  /\ rcv_from_this_guy_again = Free
  /\ pc = "select"
  /\ read_handles = {}
  /\ serving = Free /\ unsent = [c \in Conns |-> <<>>] /\ closes = FALSE
  /\ asked = 0
  /\ owed = {}

-----------------------------------------------------------------------------
Listened ==
  IF rcv_from_this_guy_again = Free THEN Connected ELSE {rcv_from_this_guy_again} \cap Connected

(* select has returned: with what is there, or after the timeout, which can *)
(* be any time.  A new connection is accepted, or closed at once if the     *)
(* table is full, and the round of the clients is left out.                *)
Accept ==
  /\ backlog # <<>>
  /\ backlog' = Tail(backlog)
  /\ IF Connected = Places
     THEN /\ serverEnd' = [serverEnd EXCEPT ![Head(backlog)] = "closed"]
          /\ toServer' = [toServer EXCEPT ![Head(backlog)] = <<>>]
          /\ UNCHANGED clients
     ELSE /\ clients' = [clients EXCEPT ![CHOOSE k \in Places \ Connected : \A l \in Places \ Connected : k <= l]
                                          = Head(backlog)]
          /\ UNCHANGED <<serverEnd, toServer>>
  /\ UNCHANGED <<pc, read_handles, async_needed, async_message_required, owed>>

(* Mutant of AsyncHandles: only clients that select reported are called.    *)
NoAsyncHandles == {}

AsyncHandles == IF async_message_required = 1 THEN Connected ELSE {}

(* An async message that was asked for makes every client one to be called. *)
AsyncStarts ==
  IF async_message_required # 1 THEN UNCHANGED <<async_needed, async_message_required, owed>>
  ELSE /\ async_message_required' = 2
       /\ async_needed' = [k \in Places |-> async_needed[k] \/ k \in Connected]
       /\ owed' = Connected

Round ==
  /\ backlog = <<>>
  /\ read_handles' = {k \in Listened : ServerReadable(clients[k])} \cup AsyncHandles
  /\ AsyncStarts
  /\ pc' = "serve"
  /\ UNCHANGED <<clients, backlog, serverEnd, toServer>>

(* endrun is set by another thread and looked at when select has returned.  *)
SeesEndRun ==
  /\ pc' = "ended"
  /\ UNCHANGED <<backlog, toServer, serverEnd, clients, async_needed, async_message_required,
                 read_handles, owed>>

Select ==
  /\ pc = "select"
  /\ SeesEndRun \/ Accept \/ Round
  /\ UNCHANGED <<listening, made, toClient, clientEnd, rcv_from_this_guy_again, sendVars, asked>>

-----------------------------------------------------------------------------
(* What a callback can answer: so many pieces, and whether to close the     *)
(* connection, as if it fails; and what it can ask for.                     *)
Outcomes == [pieces : 0..2, close : BOOLEAN, request : BOOLEAN, again : BOOLEAN]

Sensible(o) ==
  /\ o.again => o.pieces = 0 /\ ~ o.close
  /\ o.request => asked < AsyncMax

Answer(request, pieces) == [n \in 1..pieces |-> Piece(request, n = 1)]

Closed(k) ==
  /\ clients' = [clients EXCEPT ![k] = Free]
  /\ serverEnd' = [serverEnd EXCEPT ![clients[k]] = "closed"]

Unread(k, left) == toServer' = [toServer EXCEPT ![clients[k]] = left]

(* The round is given up to hear the client at k again.                     *)
Hear(k) ==
  /\ rcv_from_this_guy_again' = k
  /\ pc' = "select"
  /\ read_handles' = {}
  /\ UNCHANGED sendVars

Respond(k, pieces, close) ==
  /\ pc' = "send" /\ serving' = k /\ closes' = close
  /\ unsent' = [unsent EXCEPT ![clients[k]] = pieces]
  /\ read_handles' = read_handles \ {k}
  /\ UNCHANGED rcv_from_this_guy_again

(* The callback for the client at k, whose request was read and who has left *)
(* more unread.                                                            *)
Called(k, request, left) ==
  \E o \in {o \in Outcomes : Sensible(o)} :
    /\ asked' = IF o.request THEN asked + 1 ELSE asked
    /\ async_message_required' = IF o.request THEN 1 ELSE async_message_required
    /\ owed' = IF o.request \/ o.again THEN {} ELSE owed \ {k}
    /\ Unread(k, left)
    /\ IF o.again THEN Hear(k) ELSE Respond(k, Answer(request, o.pieces), o.close)
    /\ UNCHANGED <<clients, serverEnd>>

(* Mutant of ReadsFrom: the client is read although nothing need be there.  *)
ReadsAlways(k) == TRUE

ReadsFrom(k) == ~ async_needed[k]

(* A client that is owed an async message is not read from.                 *)
ServeAsync(k) ==
  /\ ~ ReadsFrom(k)
  /\ async_needed' = [async_needed EXCEPT ![k] = FALSE]
  /\ Called(k, 0, toServer[clients[k]])

ServeInput(k) ==
  /\ ReadsFrom(k)
  /\ clientEnd[clients[k]] # "reset"
  /\ \E n \in 1..Len(toServer[clients[k]]) :
       Called(k, Last(Taken(toServer[clients[k]], n)), Left(toServer[clients[k]], n))
  /\ UNCHANGED async_needed

(* recv returns 0 or, on a connection that was reset, negative.             *)
ServeEnd(k) ==
  LET c == clients[k]
  IN  /\ ReadsFrom(k)
      /\ clientEnd[c] = "reset" \/ (toServer[c] = <<>> /\ clientEnd[c] = "closed")
      /\ Closed(k) /\ Unread(k, <<>>)
      /\ owed' = owed \ {k}
      /\ read_handles' = read_handles \ {k}
      /\ UNCHANGED <<async_needed, async_message_required, rcv_from_this_guy_again, pc, sendVars, asked>>

(* The places are served in their order.                                    *)
Served == CHOOSE k \in read_handles : \A l \in read_handles : k <= l

Serve ==
  /\ pc = "serve" /\ read_handles # {}
  /\ ServeAsync(Served) \/ ServeInput(Served) \/ ServeEnd(Served)
  /\ UNCHANGED <<listening, made, backlog, toClient, clientEnd>>

-----------------------------------------------------------------------------
(* sendto, a piece at a time: it waits as long as an open connection has no *)
(* room.                                                                   *)
Delivered(c, piece) ==
  /\ clientEnd[c] = "open" /\ Len(toClient[c]) < SendRoom
  /\ toClient' = [toClient EXCEPT ![c] = Append(@, piece)]
  /\ UNCHANGED clientEnd

(* What is sent to a client that has closed is lost; its side then answers  *)
(* with a reset, at some time.                                             *)
Lost(c) ==
  /\ clientEnd[c] # "open"
  /\ \E end \in {clientEnd[c], "reset"} : clientEnd' = [clientEnd EXCEPT ![c] = end]
  /\ UNCHANGED toClient

Sendto ==
  LET c == clients[serving]
  IN  /\ pc = "send" /\ unsent[c] # <<>>
      /\ Delivered(c, Head(unsent[c])) \/ Lost(c)
      /\ unsent' = [unsent EXCEPT ![c] = Tail(@)]
      /\ UNCHANGED <<listening, made, backlog, toServer, serverEnd, clients, async_needed,
                     async_message_required, rcv_from_this_guy_again, pc, read_handles,
                     serving, closes, asked, owed>>

(* SIGPIPE, which nothing here blocks or handles, may come of sendto once   *)
(* the connection was reset: the process is gone, with all its sockets.     *)
Killed ==
  /\ pc = "send" /\ unsent[clients[serving]] # <<>> /\ clientEnd[clients[serving]] = "reset"
  /\ pc' = "killed" /\ listening' = FALSE
  /\ backlog' = <<>>
  /\ toServer' = [c \in Conns |-> <<>>]
  /\ serverEnd' = [c \in Conns |-> IF c <= made THEN "closed" ELSE serverEnd[c]]
  /\ unsent' = [c \in Conns |-> <<>>]
  /\ owed' = {}
  /\ UNCHANGED <<made, toClient, clientEnd, clients, async_needed, async_message_required,
                 rcv_from_this_guy_again, read_handles, serving, closes, asked>>

(* Everything is sent, and the connection closed if it is to be.            *)
Sent ==
  /\ pc = "send" /\ unsent[clients[serving]] = <<>>
  /\ IF closes THEN Closed(serving) /\ Unread(serving, <<>>) ELSE UNCHANGED <<clients, serverEnd, toServer>>
  /\ pc' = "serve" /\ serving' = Free /\ closes' = FALSE
  /\ UNCHANGED <<listening, made, backlog, toClient, clientEnd, async_needed, async_message_required,
                 rcv_from_this_guy_again, read_handles, unsent, asked, owed>>


LastChance == Free

(* The end of a round: the callback learns that an async message has been   *)
(* sent; then, as amount_served is never counted, comes what is meant for a *)
(* timeout: everybody is heard again, and the idle callback, which may ask  *)
(* for an async message.                                                   *)
EndRound ==
  /\ pc = "serve" /\ read_handles = {}
  /\ \E request \in BOOLEAN :
       /\ request => asked < AsyncMax
       /\ asked' = IF request THEN asked + 1 ELSE asked
       /\ async_message_required' = IF request THEN 1 ELSE IF async_message_required = 2 THEN 0
                                    ELSE async_message_required
  /\ rcv_from_this_guy_again' = LastChance
  /\ pc' = "select"
  /\ owed' = {}
  /\ UNCHANGED <<netVars, clients, async_needed, read_handles, sendVars>>

(* socketServer_listen.                                                     *)
ServerNext == Select \/ Serve \/ Sendto \/ Killed \/ Sent \/ EndRound

-----------------------------------------------------------------------------
(* The one thread never waits in recv: whatever it is about to read from is *)
(* a client that has sent something or gone, although the server sets       *)
(* handles itself that select did not report.  In sendto it can wait.       *)
NeverBlocks ==
  pc = "serve" /\ read_handles # {} /\ ReadsFrom(Served) => ServerReadable(clients[Served])

(* When the callback learns that an async message is completed, it has been *)
(* called for every client of the table, or has itself asked in this round  *)
(* to hear one client only or for another message.                          *)
AsyncReachesAll ==
  pc = "serve" /\ read_handles = {} /\ async_message_required = 2 => owed = {}

(* The thread waits in sendto for a client that does not read.              *)
Stalled ==
  LET c == clients[serving]
  IN  pc = "send" /\ unsent[c] # <<>> /\ clientEnd[c] = "open" /\ Len(toClient[c]) >= SendRoom

=============================================================================
