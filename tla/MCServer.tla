------------------------------ MODULE MCServer ------------------------------
(* Instances of OnvifServer for TLC.                                       *)
EXTENDS OnvifServer, TLC

CONSTANTS n1, n2, u1, e1, e2, c1, c2, gw

(* Each client shares a subnet with one interface.                         *)
OwnSubnets == {<<c1, e1>>, <<c2, e2>>}

Public == {NoText, gw}
Private == {NoText}

AllOps == {r.op : r \in AllRequests}

Symmetry == Permutations(Names)
=============================================================================
