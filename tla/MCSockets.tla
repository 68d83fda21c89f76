----------------------------- MODULE MCSockets -----------------------------
(***************************************************************************)
(* Socket clients and a socket server that talk to each other.  Only the    *)
(* server is given fairness: its step is disabled where the one thread is   *)
(* ended, or waits in sendto for a client to read, and happens otherwise as *)
(* select has a timeout.  Clients may stop anywhere.                       *)
(***************************************************************************)
EXTENDS SocketServer, SocketClient

CONSTANT EventMax   \* bound on connections, requests and async messages together

VARIABLES
  mixed,    \* history: connections with an answer in two pieces or an async message,
            \* sent or about to be
  shared    \* history: connections that two clients have held at once

vars == <<netVars, serverVars, clientVars, mixed, shared>>

Unusual(pieces) == \E k \in DOMAIN pieces : ~ pieces[k].eol \/ pieces[k].request = 0

Remember ==
  /\ mixed' = mixed \cup {c \in Conns : Unusual(toClient'[c]) \/ Unusual(unsent'[c])}
  /\ shared' = shared \cup {c \in Conns : \E p, q \in Clients : p # q /\ sock_local'[p] = c /\ sock_local'[q] = c}

Init == NetInit /\ ServerInit /\ ClientInit /\ mixed = {} /\ shared = {}

Bounded == made' + asked' + FoldFunction(+, 0, request') <= EventMax

ServerStep == ServerNext /\ UNCHANGED clientVars /\ Bounded /\ Remember

ClientStep == (\E p \in Clients : ClientNext(p)) /\ UNCHANGED serverVars /\ Bounded /\ Remember

Next == ServerStep \/ ClientStep

Spec == Init /\ [][Next]_vars /\ WF_vars(ServerStep)

(* What a client takes for the answer to a request is an answer to it, also *)
(* if an earlier request was given up after the timeout and answered late.  *)
(* Where an async message or an answer in two pieces is sent, a client that *)
(* keeps its connection alive may take what is left of an earlier answer    *)
(* for the answer, the others at most the async message.  Nothing is said   *)
(* of a descriptor that two clients take for their own.                     *)
AnswersAreToRequests ==
  \A p \in Clients : step[p] = "callback" /\ sock_local[p] \notin shared =>
    \A k \in DOMAIN rcvBuffer[p] :
      \/ rcvBuffer[p][k].request = request[p]
      \/ sock_local[p] \in mixed /\ (p \in KeepAlive \/ rcvBuffer[p][k].request = 0)
=============================================================================
