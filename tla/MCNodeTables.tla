---------------------------- MODULE MCNodeTables ----------------------------
(* The two tables of a node: its neighbours and its HLMAC addresses.  No    *)
(* handler of discovery reads or writes the HLMAC table, and no operation   *)
(* of that table reads or writes the other one.  What one of them goes      *)
(* through is therefore the same whatever the other does meanwhile, and it  *)
(* is enough to let only one of them leave its initial state in a behaviour.*)
EXTENDS MCNeighbours, HlmacTable

NodeInit == Init /\ TableInit

NodeNext ==
  \/ TableInit /\ Next /\ UNCHANGED tableVars
  \/ Init /\ TableNext /\ UNCHANGED vars

NodeSpec == NodeInit /\ [][NodeNext]_<<vars, tableVars>>
=============================================================================
