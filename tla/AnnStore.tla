------------------------------ MODULE AnnStore ------------------------------
(***************************************************************************)
(* What the vector index promises to its users, without its two files.     *)
(*                                                                         *)
(* `durable` is the set of leaf ids the files on disk hold, `working` the  *)
(* ids of the index a tool process has in memory (empty when no tool runs).*)
(* Two things make them differ: `pending`, a rebuilt index that waits for  *)
(* its snapshot, and `damaged`, a file that an append left incomplete.     *)
(* Otherwise a working row is durable as soon as it is added.  A snapshot  *)
(* publishes at least the working rows and invents none, and a process     *)
(* that dies takes only its memory with it.                                *)
(***************************************************************************)
CONSTANT Rows          \* the leaf ids that may ever be indexed

VARIABLES durable, working, pending, damaged

storeVars == <<durable, working, pending, damaged>>

StoreInit == durable = {} /\ working = {} /\ ~pending /\ ~damaged

\* Open: the index starts from everything that is on disk.
Load ==
    /\ working = {} /\ ~pending
    /\ working' = durable
    /\ UNCHANGED <<durable, pending, damaged>>

\* An append to a damaged file: its row may not become durable, and at most one
\* other row is lost.
Spoils(r) ==
    /\ durable' \subseteq durable \cup {r}
    /\ \E lost \in Rows : durable \ {lost} \subseteq durable'

\* Upsert: one new row becomes visible and, in a file without damage, durable.
Add(r) ==
    /\ r \in Rows \ working /\ ~pending
    /\ working' = working \cup {r}
    /\ IF damaged THEN Spoils(r) ELSE durable' = durable \cup {r}
    /\ UNCHANGED <<pending, damaged>>

\* An append is cut short, and the process ends.
Tear(r) ==
    /\ ~pending /\ Spoils(r)
    /\ working' = {} /\ damaged' /\ UNCHANGED pending

\* Build: the working set is replaced, and its snapshot is owed from now on.
Rebuild ==
    /\ working' \in SUBSET Rows /\ pending'
    /\ durable' \subseteq durable \cup working'
    /\ durable' = durable \/ working' \subseteq durable'
    /\ UNCHANGED damaged

\* A snapshot or a log reset: nothing the index holds may leave the files.
Publish ==
    /\ working \subseteq durable'
    /\ durable' \subseteq durable \cup working
    /\ UNCHANGED working /\ ~pending'
    /\ damaged' => damaged

\* Discarding an index that cannot be opened or has no snapshot.
Discard ==
    /\ working = {}
    /\ durable' \subseteq durable
    /\ UNCHANGED <<working, pending>>
    /\ damaged' => damaged

\* The process ends, by itself or not.
Exit == working' = {} /\ ~pending' /\ UNCHANGED <<durable, damaged>>

StoreNext ==
    \/ Load \/ Rebuild \/ Publish \/ Discard \/ Exit
    \/ \E r \in Rows : Add(r) \/ Tear(r)

StoreSpec == StoreInit /\ [][StoreNext]_storeVars
=============================================================================
