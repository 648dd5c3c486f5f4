---------------------------- MODULE MCBrainServe ----------------------------
(* Values for model checking BrainServe: two leafs and the synapse between them. *)
EXTENDS BrainServe, TLC

CONSTANTS l1, l2, e

MCLeafs == {l1, l2}
MCEdges == {e}
MCEnds == [x \in {e} |-> {l1, l2}]
MCIndexIds == {l1}
Symmetry == Permutations(Reqs)
=============================================================================
