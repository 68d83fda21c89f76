---------------------------- MODULE Connections ----------------------------
(***************************************************************************)
(* The TCP connections between socket_client.c and socket_server.c, as far  *)
(* as their calls tell: what is unread on either side, in the order it was  *)
(* sent, and which side has closed.  A request is its number, a piece of an *)
(* answer the request it answers, 0 for a message nobody asked for, and     *)
(* whether it is the piece with the line end that a client looks for.  A    *)
(* side that closes discards what it has not read.  Sockets are blocking:   *)
(* what the server sends waits for room on the client's side.              *)
(***************************************************************************)
EXTENDS Naturals, Sequences, SequencesExt

CONSTANTS
  ConnMax,      \* bound on the connections ever made
  BacklogMax,   \* the second argument of listen
  SendRoom      \* unread pieces a client's side holds before sendto waits

ASSUME ConnectionsAssumption == ConnMax \in Nat /\ BacklogMax \in Nat /\ SendRoom \in Nat

VARIABLES
  listening,  \* whether the server's process is there to connect to
  made,       \* connections made so far
  backlog,    \* those not accepted yet, in order
  toServer, toClient,
  clientEnd,  \* "open", "closed" or, if closed with something unread, "reset"
  serverEnd   \* "open" or "closed"

netVars == <<listening, made, backlog, toServer, toClient, clientEnd, serverEnd>>

Conns == 1..ConnMax
Piece(request, eol) == [request |-> request, eol |-> eol]

NetInit ==
  /\ listening = TRUE
  /\ made = 0 /\ backlog = <<>>
  /\ toServer = [c \in Conns |-> <<>>] /\ toClient = [c \in Conns |-> <<>>]
  /\ clientEnd = [c \in Conns |-> "open"] /\ serverEnd = [c \in Conns |-> "open"]

(* What makes select report a connection: input, or the end of it.          *)
ServerReadable(c) == toServer[c] # <<>> \/ clientEnd[c] # "open"
ClientReadable(c) == toClient[c] # <<>> \/ serverEnd[c] = "closed"

EndAfter(c) == IF toClient[c] = <<>> THEN "closed" ELSE "reset"

(* Every way recv can cut a stream: one or more of the pieces that are there. *)
Taken(stream, n) == SubSeq(stream, 1, n)
Left(stream, n) == SubSeq(stream, n + 1, Len(stream))
=============================================================================
