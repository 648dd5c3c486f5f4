---------------------------- MODULE MCIndexSync ----------------------------
(* Values for model checking IndexSync. *)
EXTENDS IndexSync

CalmOne == [busy |-> FALSE, docker |-> FALSE, fails |-> 2, writes |-> 0, deaths |-> 0]
Killed == [busy |-> TRUE, docker |-> FALSE, fails |-> 1, writes |-> 0, deaths |-> 1]
Written == [busy |-> TRUE, docker |-> TRUE, fails |-> 1, writes |-> 1, deaths |-> 0]
CalmAndRough == {CalmOne, Killed, Written}
BusyOnly == {[CalmOne EXCEPT !.busy = TRUE, !.fails = 0]}
=============================================================================
