---------------------------- MODULE MCMasterPanel ----------------------------
(* Bounded instances of MasterPanel for TLC.                               *)
EXTENDS MasterPanel, TLC

MCTwoHours == {<<2, 4>>, <<3, 4>>}

MCPanelHours == {<<2, 5>>}

Clients == Permutations(Users)
ListsAlike == Permutations(Lists)
=============================================================================
