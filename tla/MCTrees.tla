------------------------------ MODULE MCTrees ------------------------------
(***************************************************************************)
(* Instances of the three structures the toolbox keeps names in.  They     *)
(* share nothing: a behaviour is of a pair of binary trees, of a generic    *)
(* tree or of an XML parser, and leaves the others empty.                   *)
(***************************************************************************)
EXTENDS BinaryTree, GenericTree, XmlText

VARIABLE structure   \* which of them this behaviour is about

(* What may be repeated, and the tree callers walk through.                 *)
Setting(names, ids, zero, walks) ==
  [duplicate_names |-> names, duplicate_unique_ids |-> ids, zero_unique_ids |-> zero, walks |-> walks]

MCSettings ==
  {Setting(FALSE, FALSE, FALSE, "itop"), Setting(TRUE, FALSE, FALSE, "top"),
   Setting(FALSE, TRUE, FALSE, "itop"), Setting(TRUE, FALSE, TRUE, "top")}

SomeSetting == CHOOSE s \in Settings : TRUE

NoDocument ==
  /\ document = <<>> /\ parser = "none" /\ elements = <<>> /\ file = <<>>
  /\ prints = 0

MCInit ==
  /\ structure \in {"btree", "tree", "xml"}
  /\ binaryTree_Constructor
  /\ genericTree_Constructor
  /\ structure = "btree" \/ settings = SomeSetting
  /\ structure = "tree" \/ accept_duplicate_names = TRUE
  /\ IF structure = "xml" THEN XmlInit ELSE NoDocument

MCNext ==
  /\ UNCHANGED structure
  /\ \/ structure = "btree" /\ TreeNext /\ UNCHANGED <<forestVars, xmlVars>>
     \/ structure = "tree" /\ ForestNext /\ UNCHANGED <<treeVars, xmlVars>>
     \/ structure = "xml" /\ XmlNext /\ UNCHANGED <<treeVars, forestVars>>

MCSpec == MCInit /\ [][MCNext]_<<structure, treeVars, forestVars, xmlVars>>
=============================================================================
