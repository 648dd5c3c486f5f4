----------------------------- MODULE GraphImport -----------------------------
(***************************************************************************)
(* mail-graph and git-graph: the importers that write Message, Commit and  *)
(* Person nodes and their edges into the graph of kb.lbug.                 *)
(*                                                                         *)
(* A mail row is [id, ver, deleted, ok, date, reply, people]; a date of 0  *)
(* is a missing one, people is a sequence of [role, addr, name] in header  *)
(* order.  A commit is [repo, sha, date, addr, name].  An address is       *)
(* [box, up]: up says that it is not written in lower case.                *)
(***************************************************************************)
EXTENDS Integers, FiniteSets, Sequences, SequencesExt, Ranking

CONSTANTS
    Mails,       \* message ids; NoId stands for an empty one
    Boxes,       \* mailboxes: what a lower-cased address is
    Shas, Repos,
    Hives,       \* contents of the canon: [Channels -> sets of rows]
    Histories,   \* contents of the repositories: sequences of [repo, bad, commits]
    GraphCommands,  \* [tool, channel, commit, skip]
    GraphBatch,  \* --batch (500)
    MaxGraphRuns, MaxGraphFaults

NoId == "no id"
NoBox == "no box"   \* an empty address
NoNode == "absent"

\* A row that came without an id or a date has NoId and 0; a batch is not empty.
ASSUME GraphAssumption ==
    /\ GraphBatch \in Nat \ {0} /\ NoId \notin Mails
    /\ \A h \in Hives : \A ch \in DOMAIN h :
          IsFiniteSet(h[ch]) /\ \A r \in h[ch] : r.id \in Mails \cup {NoId} /\ r.date \in Nat
    /\ \A c \in GraphCommands, h \in Hives : c.tool = "mail" => c.channel \in DOMAIN h

VARIABLES
    hive, history,   \* what the collectors have produced so far
    graph,           \* the graph in kb.lbug
    holder,          \* a live process has kb.lbug open
    gcmd, gpc,       \* the running command and its step
    readRows,        \* the rows it has read
    inputs,          \* those left after --skip-existing, in the order they are written
    cursor,          \* first input not yet written
    tx, upto,        \* the graph a batch has in view, and where the batch ends
    started,         \* the batch is a transaction
    before,          \* the graph when it was opened
    gruns, gfaults

graphVars == <<hive, history, graph, holder, gcmd, gpc, readRows, inputs, cursor, tx, upto, started,
               before, gruns, gfaults>>

batchVars == <<tx, upto, started>>

NoGraph == [person |-> [b \in Boxes |-> NoNode], message |-> {}, thread |-> [m \in Mails |-> NoNode],
            commits |-> {}, edges |-> {}]

-----------------------------------------------------------------------------
(* internal/mailgraph. *)

\* person: the node of an address is the address in lower case.
Person(addr) == addr.box

\* ReadSQL: of every message id of a channel a latest version, unless that
\* version is a tombstone.
Latest(rs, id) == CHOOSE r \in rs : r.id = id /\ \A o \in rs : o.id = id => o.ver <= r.ver
ReadSQL(h, channel) == {r \in h[channel] : ~r.deleted /\ r = Latest(h[channel], r.id)}

\* MapRows: a row that does not map is skipped, the others are kept.
MapRows(raw) == {r \in raw : r.ok}

Known(rs, id) == id # NoId /\ \E r \in rs : r.id = id
RowOf(rs, id) == CHOOSE r \in rs : r.id = id

\* threadRoot: the end of the chain of replies, a parent outside the channel
\* included; a message whose chain runs into a cycle is its own thread.
Chain(rs, m) ==
    {r \in rs : \A up \in SUBSET rs :
        (m \in up /\ \A x \in up : Known(rs, x.reply) => RowOf(rs, x.reply) \in up) => r \in up}
Tops(rs, m) == {r \in Chain(rs, m) : ~Known(rs, r.reply)}
RootId(tops) ==
    LET last == CHOOSE r \in tops : TRUE IN IF last.reply = NoId THEN last.id ELSE last.reply
ThreadRoot(rs, m) == IF Tops(rs, m) = {} THEN m.id ELSE RootId(Tops(rs, m))

\* ResolveThreads and Row.Input.
Input(rs, r) ==
    [id |-> r.id, date |-> r.date, reply |-> r.reply, people |-> r.people, thread |-> ThreadRoot(rs, r)]

\* ToInputs: a message without an id makes no node.
MailRows(rs) == {Input(rs, r) : r \in {m \in rs : m.id # NoId}}

\* Mutant: newest first.
NewestFirst(x, y) == x.date > y.date

\* SortByDate, gitgraph.ToInputs: undated rows last; ties, which the code puts in
\* the order of their ids, in any.
Earlier(x, y) == x.date # 0 /\ (y.date = 0 \/ x.date < y.date)

-----------------------------------------------------------------------------
(* internal/gitgraph. *)

\* ReadAll: an unreadable repository is skipped.
ReadAll(hs) == FlattenSeq([i \in DOMAIN hs |-> IF hs[i].bad THEN <<>> ELSE hs[i].commits])

CommitID(c) == <<c.repo, c.sha>>

\* The first of the commits with one id is kept.
CommitRows(hs) ==
    LET all == ReadAll(hs)
    IN {all[i] : i \in {j \in DOMAIN all : \A o \in 1..(j - 1) : CommitID(all[o]) # CommitID(all[j])}}

-----------------------------------------------------------------------------
(* internal/brain: graph.go, graphplan.go, gitcommit.go, commitplan.go. *)

\* personUpsertQuery: one node per lower-cased address, the last name wins;
\* within a message the first name of an address is used.
UpsertPersons(person, people) ==
    [b \in Boxes |->
        LET mine == SelectSeq(people, LAMBDA p : Person(p.addr) = b)
        IN IF mine = <<>> THEN person[b] ELSE Head(mine).name]

\* planGraph: an edge per address, and the reply unless it is to itself.
PlanGraph(r) ==
    {<<p.role, r.id, Person(p.addr)>> : p \in {q \in ToSet(r.people) : Person(q.addr) # NoBox}}
      \cup (IF r.reply \notin {NoId, r.id} THEN {<<"REPLY_TO", r.id, r.reply>>} ELSE {})

\* MATCH finds both ends or the edge is silently not made.
Ends(messages, e) == e[1] = "REPLY_TO" => e[3] \in messages

\* upsertMessage: its nodes, and then the edges.
MessageNodes(g, r) ==
    [person |-> UpsertPersons(g.person, r.people), message |-> g.message \cup {r.id},
     thread |-> [g.thread EXCEPT ![r.id] = r.thread], commits |-> g.commits, edges |-> g.edges]
UpsertMessage(g, r) ==
    LET n == MessageNodes(g, r)
    IN [person |-> n.person, message |-> n.message, thread |-> n.thread, commits |-> n.commits,
        edges |-> n.edges \cup {e \in PlanGraph(r) : Ends(n.message, e)}]

\* upsertCommit: without an address there is no author.
CommitNodes(g, c) ==
    [person |-> IF Person(c.addr) = NoBox THEN g.person ELSE UpsertPersons(g.person, <<c>>),
     message |-> g.message, thread |-> g.thread, commits |-> g.commits \cup {CommitID(c)}, edges |-> g.edges]
UpsertCommit(g, c) ==
    LET n == CommitNodes(g, c)
    IN [person |-> n.person, message |-> n.message, thread |-> n.thread, commits |-> n.commits,
        edges |-> n.edges \cup (IF Person(c.addr) = NoBox THEN {}
                                  ELSE {<<"AUTHORED", CommitID(c), Person(c.addr)>>})]

-----------------------------------------------------------------------------
GraphInit ==
    /\ hive \in Hives /\ history \in Histories
    /\ graph = NoGraph /\ holder = FALSE
    /\ gcmd \in GraphCommands /\ gpc = "idle"
    /\ readRows = {} /\ inputs = <<>> /\ cursor = 1 /\ before = NoGraph
    /\ tx = NoGraph /\ upto = 1 /\ started = FALSE
    /\ gruns = 0 /\ gfaults = 0

\* The collectors of the canon pack new rows; repositories get commits.
CollectorsWrite ==
    /\ hive' \in Hives /\ history' \in Histories /\ <<hive', history'>> # <<hive, history>>
    /\ UNCHANGED <<graph, holder, gcmd, gpc, readRows, inputs, cursor, before, batchVars, gruns, gfaults>>

HolderChanges ==
    /\ gpc \in {"idle", "guard", "open"}
    /\ holder' = ~holder
    /\ UNCHANGED <<hive, history, graph, gcmd, gpc, readRows, inputs, cursor, before, batchVars, gruns, gfaults>>

\* brain-index --rebuild starts the database, graph included, from nothing.
IndexRebuilt ==
    /\ gpc = "idle" /\ ~holder /\ graph # NoGraph
    /\ graph' = NoGraph
    /\ UNCHANGED <<hive, history, holder, gcmd, gpc, readRows, inputs, cursor, before, batchVars, gruns, gfaults>>

GraphStart(c) ==
    /\ gpc = "idle" /\ gruns < MaxGraphRuns
    /\ gcmd' = c /\ gruns' = gruns + 1
    /\ gpc' = "read"
    /\ UNCHANGED <<hive, history, graph, holder, readRows, inputs, cursor, before, batchVars, gfaults>>

\* What the process held goes with it.
GraphExit == gpc' = "idle" /\ readRows' = {} /\ inputs' = <<>> /\ cursor' = 1 /\ before' = NoGraph
BatchOver == tx' = NoGraph /\ upto' = 1 /\ started' = FALSE

\* Read and map; a dry run (the default) counts and ends here.
ReadRows ==
    /\ gpc = "read"
    /\ LET got == IF gcmd.tool = "mail" THEN MailRows(MapRows(ReadSQL(hive, gcmd.channel))) ELSE CommitRows(history)
       IN IF gcmd.commit
            THEN /\ readRows' = got /\ gpc' = "guard"
                 /\ UNCHANGED <<inputs, cursor, before>>
            ELSE GraphExit
    /\ UNCHANGED <<hive, history, graph, holder, gcmd, batchVars, gruns, gfaults>>

\* ensureWritable
EnsureWritable ==
    /\ gpc = "guard"
    /\ IF holder THEN GraphExit ELSE gpc' = "open" /\ UNCHANGED <<readRows, inputs, cursor, before>>
    /\ UNCHANGED <<hive, history, graph, holder, gcmd, batchVars, gruns, gfaults>>

InGraph(g, r) == IF gcmd.tool = "mail" THEN r.id \in g.message ELSE CommitID(r) \in g.commits

\* OpenWritable, which the lock of a holder fails, InitSchema and, with
\* --skip-existing, the ids that are there.
OpenGraph ==
    /\ gpc = "open"
    /\ \/ holder /\ GraphExit
       \/ /\ ~holder
          /\ before' = graph
          /\ inputs' \in Ranked({r \in readRows : gcmd.skip => ~InGraph(graph, r)}, Earlier)
          /\ cursor' = 1 /\ gpc' = "write"
          /\ UNCHANGED readRows
    /\ UNCHANGED <<hive, history, graph, holder, gcmd, batchVars, gruns, gfaults>>

\* UpsertMessages / UpsertCommits: a batch is one transaction, unless BEGIN fails:
\* then its rows are written all the same, each for itself.
BeginBatch ==
    /\ gpc = "write" /\ cursor <= Len(inputs)
    /\ gpc' = "batch" /\ tx' = graph
    /\ upto' = (IF cursor + GraphBatch < Len(inputs) + 1 THEN cursor + GraphBatch ELSE Len(inputs) + 1)
    /\ started' \in BOOLEAN
    /\ UNCHANGED <<hive, history, graph, holder, gcmd, readRows, inputs, cursor, before, gruns, gfaults>>

RowUpserted(g, r) == IF gcmd.tool = "mail" THEN UpsertMessage(g, r) ELSE UpsertCommit(g, r)
RowNodes(g, r) == IF gcmd.tool = "mail" THEN MessageNodes(g, r) ELSE CommitNodes(g, r)

\* The first error of a row rolls the batch back and ends the run.  Without a
\* transaction its nodes may be there and its edges not.
UpsertNext ==
    /\ gpc = "batch" /\ cursor < upto
    /\ \/ /\ tx' = RowUpserted(tx, inputs[cursor]) /\ cursor' = cursor + 1
          /\ graph' = (IF started THEN graph ELSE tx')
          /\ UNCHANGED <<gpc, readRows, inputs, upto, started, before, gfaults>>
       \/ /\ gfaults < MaxGraphFaults /\ gfaults' = gfaults + 1
          /\ GraphExit /\ BatchOver
          /\ graph' \in {graph} \cup (IF started THEN {} ELSE {RowNodes(graph, inputs[cursor])})
    /\ UNCHANGED <<hive, history, holder, gcmd, gruns>>

EndTransaction ==
    /\ gpc = "batch" /\ cursor = upto /\ BatchOver
    /\ \/ gpc' = "write" /\ graph' = tx /\ UNCHANGED <<readRows, inputs, cursor, before, gfaults>>
       \/ started /\ gfaults < MaxGraphFaults /\ gfaults' = gfaults + 1 /\ GraphExit /\ UNCHANGED graph
    /\ UNCHANGED <<hive, history, holder, gcmd, gruns>>

Written ==
    /\ gpc = "write" /\ cursor > Len(inputs)
    /\ gpc' = "done"
    /\ UNCHANGED <<hive, history, graph, holder, gcmd, readRows, inputs, cursor, before, batchVars, gruns, gfaults>>

GraphDone ==
    /\ gpc = "done" /\ GraphExit
    /\ UNCHANGED <<hive, history, graph, holder, gcmd, batchVars, gruns, gfaults>>

GraphNext ==
    \/ CollectorsWrite \/ HolderChanges \/ IndexRebuilt
    \/ \E c \in GraphCommands : GraphStart(c)
    \/ ReadRows \/ EnsureWritable \/ OpenGraph \/ BeginBatch \/ UpsertNext \/ EndTransaction
    \/ Written \/ GraphDone

GraphSpec == GraphInit /\ [][GraphNext]_graphVars

-----------------------------------------------------------------------------
(* Properties. *)

Imported(i) == inputs[i].id
MailDone == gpc = "done" /\ gcmd.tool = "mail"

\* A reply imported before its parent gets no REPLY_TO; it "appears on a repeated
\* run after the parent's import" (graph.go:57).  A run without --skip-existing
\* leaves a reply unlinked only if its parent was not in the graph when the run
\* opened it, and this run did not write one that is dated before the reply.
RepliesLinked ==
    MailDone => \A i \in DOMAIN inputs :
        LET r == inputs[i] IN
        (r.reply \notin {NoId, r.id} /\ <<"REPLY_TO", r.id, r.reply>> \notin graph.edges) =>
            /\ r.reply \notin before.message
            /\ \A j \in DOMAIN inputs : inputs[j].id = r.reply =>
                  inputs[j].date = 0 \/ (r.date # 0 /\ inputs[j].date >= r.date)

\* After a run over the whole channel a reply is in the thread of its parent,
\* whatever was imported first, unless their chain of replies is a cycle.
ThreadsJoined ==
    (MailDone /\ ~gcmd.skip) => \A i, j \in DOMAIN inputs :
        (inputs[i].reply = Imported(j) /\ inputs[i].thread # Imported(i)) =>
            graph.thread[Imported(i)] = graph.thread[Imported(j)]

\* The graph joins the letters of a conversation as far as the order of the
\* imports allows.
ConversationsLinked == RepliesLinked /\ ThreadsJoined
=============================================================================
