-------------------------- MODULE AnnIndex_proofs --------------------------
(***************************************************************************)
(* Proofs about AnnIndex, for every set of leafs, threshold and bound.     *)
(***************************************************************************)
EXTENDS AnnIndex, FiniteSetTheorems, TLAPS

-----------------------------------------------------------------------------
(* The log. *)

\* An append makes a log of lines: it is Append, or rewrites the last line.
LEMMA AppendType ==
    ASSUME NEW w \in Seq(Line), NEW r \in Ids, NEW whole \in BOOLEAN, NEW nl \in BOOLEAN
    PROVE  AppendLine(w, r, whole, nl) \in Seq(Line)
<1>1. [id |-> r, whole |-> whole, nl |-> nl] \in Line
  BY DEF Line
<1>2. CASE w # <<>> /\ ~w[Len(w)].nl
  <2>1. Len(w) \in 1..Len(w) /\ [id |-> r, whole |-> FALSE, nl |-> nl] \in Line
    BY <1>2 DEF Line
  <2>2. QED
    BY <1>2, <2>1 DEF AppendLine
<1>3. CASE ~(w # <<>> /\ ~w[Len(w)].nl)
  BY <1>1, <1>3 DEF AppendLine
<1>4. QED
  BY <1>2, <1>3

\* An append shows a restart at most the row it was for.
LEMMA AppendReplays ==
    ASSUME NEW w \in Seq(Line), NEW r \in Ids, NEW whole \in BOOLEAN, NEW nl \in BOOLEAN
    PROVE  Replayed(AppendLine(w, r, whole, nl)) \subseteq Replayed(w) \cup {r}
<1> DEFINE v == AppendLine(w, r, whole, nl)
<1> SUFFICES ASSUME NEW i \in DOMAIN v, \A k \in 1..i : v[k].whole, v[i].id # r
             PROVE  /\ i \in DOMAIN w /\ w[i] = v[i]
                    /\ \A k \in 1..i : w[k].whole
  BY DEF Replayed
<1>1. CASE w # <<>> /\ ~w[Len(w)].nl
  <2>1. Len(w) \in Nat \ {0} /\ DOMAIN v = 1..Len(w)
    BY <1>1 DEF AppendLine
  <2> DEFINE bad == [id |-> r, whole |-> FALSE, nl |-> nl]
  <2>a. Len(w) \in DOMAIN w /\ ~bad.whole
    BY <2>1
  <2>b. v = [w EXCEPT ![Len(w)] = bad]
    BY <1>1, Zenon DEF AppendLine
  <2>2. v[Len(w)] = bad
    BY <2>a, <2>b, Zenon
  <2>3. \A k \in 1..Len(w) : k # Len(w) => v[k] = w[k]
    BY <1>1, <2>1 DEF AppendLine
  <2>4. i < Len(w)
    <3> HIDE DEF v, bad
    <3> QED BY <2>1, <2>2, <2>a
  <2>5. QED
    BY <2>1, <2>3, <2>4
<1>2. CASE ~(w # <<>> /\ ~w[Len(w)].nl)
  <2>1. v = Append(w, [id |-> r, whole |-> whole, nl |-> nl])
    BY <1>2 DEF AppendLine
  <2>2. DOMAIN v = 1..(Len(w) + 1) /\ v[Len(w) + 1].id = r
    BY <2>1
  <2>3. \A k \in 1..Len(w) : v[k] = w[k]
    BY <2>1
  <2>4. i \in 1..Len(w)
    BY <2>2
  <2>5. QED
    BY <2>3, <2>4
<1>3. QED
  BY <1>1, <1>2

\* An append damages no settled row.
LEMMA AppendSettles ==
    ASSUME NEW w \in Seq(Line), NEW r \in Ids, NEW whole \in BOOLEAN, NEW nl \in BOOLEAN
    PROVE  SettledOf(w) \subseteq SettledOf(AppendLine(w, r, whole, nl))
<1> DEFINE v == AppendLine(w, r, whole, nl)
<1> SUFFICES ASSUME NEW i \in DOMAIN w, \A k \in 1..i : w[k].whole /\ w[k].nl
             PROVE  i \in DOMAIN v /\ \A k \in 1..i : v[k] = w[k]
  BY DEF SettledOf
<1>1. CASE w # <<>> /\ ~w[Len(w)].nl
  <2>1. i < Len(w)
    BY <1>1
  <2>2. DOMAIN v = 1..Len(w) /\ \A k \in 1..Len(w) : k # Len(w) => v[k] = w[k]
    BY <1>1 DEF AppendLine
  <2>3. QED
    BY <2>1, <2>2
<1>2. CASE ~(w # <<>> /\ ~w[Len(w)].nl)
  BY <1>2 DEF AppendLine
<1>3. QED
  BY <1>1, <1>2

\* A whole line appended to a log without damage is replayed with all before it.
LEMMA AppendClean ==
    ASSUME NEW w \in Seq(Line), NEW r \in Ids, Clean(w)
    PROVE  /\ Clean(AppendLine(w, r, TRUE, TRUE))
           /\ Replayed(AppendLine(w, r, TRUE, TRUE)) = Replayed(w) \cup {r}
<1> DEFINE v == AppendLine(w, r, TRUE, TRUE)
<1> DEFINE new == [id |-> r, whole |-> TRUE, nl |-> TRUE]
<1>a. w # <<>> => Len(w) \in DOMAIN w
  OBVIOUS
<1>1. v = Append(w, new) /\ new.id = r /\ new.whole /\ new.nl
  BY <1>a DEF AppendLine, Clean
<1> HIDE DEF v, new
<1>2. DOMAIN v = 1..(Len(w) + 1) /\ DOMAIN w = 1..Len(w) /\ Len(w) \in Nat
  BY <1>1
<1>3. v[Len(w) + 1] = new /\ \A k \in 1..Len(w) : v[k] = w[k]
  BY <1>1
<1>4. Clean(v)
  BY <1>1, <1>2, <1>3 DEF Clean
<1>5. Replayed(v) = {v[i].id : i \in DOMAIN v} /\ Replayed(w) = {w[i].id : i \in DOMAIN w}
  BY <1>2, <1>4 DEF Replayed, Clean
<1>6. Replayed(v) = Replayed(w) \cup {r}
  BY <1>1, <1>2, <1>3, <1>5
<1>7. QED
  BY <1>4, <1>6 DEF v

\* An append costs a restart at most one row, the one it is glued to.
LEMMA AppendSpoils ==
    ASSUME NEW w \in Seq(Line), NEW r \in Ids, NEW whole \in BOOLEAN, NEW nl \in BOOLEAN
    PROVE  \E x \in Ids : Replayed(w) \ {x} \subseteq Replayed(AppendLine(w, r, whole, nl))
<1> DEFINE v == AppendLine(w, r, whole, nl)
<1> DEFINE x == IF w # <<>> /\ ~w[Len(w)].nl THEN w[Len(w)].id ELSE r
<1>1. x \in Ids
  <2>1. w # <<>> => w[Len(w)] \in Line
    OBVIOUS
  <2>2. QED
    BY <2>1 DEF Line
<1>2. ASSUME NEW i \in DOMAIN w, \A k \in 1..i : w[k].whole, w[i].id # x
      PROVE  i \in DOMAIN v /\ \A k \in 1..i : v[k] = w[k]
  <2>1. CASE w # <<>> /\ ~w[Len(w)].nl
    <3>1. i < Len(w)
      BY <1>2, <2>1
    <3>2. DOMAIN v = 1..Len(w) /\ \A k \in 1..Len(w) : k # Len(w) => v[k] = w[k]
      BY <2>1 DEF AppendLine
    <3>3. QED
      BY <3>1, <3>2
  <2>2. CASE ~(w # <<>> /\ ~w[Len(w)].nl)
    BY <2>2 DEF AppendLine
  <2>3. QED
    BY <2>1, <2>2
<1>3. Replayed(w) \ {x} \subseteq Replayed(v)
  <2> HIDE DEF v, x
  <2>1. ASSUME NEW i \in DOMAIN w, \A k \in 1..i : w[k].whole, w[i].id # x
        PROVE  w[i].id \in Replayed(v)
    <3>1. i \in DOMAIN v /\ \A k \in 1..i : v[k] = w[k]
      BY <1>2, <2>1
    <3>2. i \in 1..i
      OBVIOUS
    <3>3. QED
      BY <2>1, <3>1, <3>2 DEF Replayed
  <2>2. QED
    BY <2>1 DEF Replayed
<1>4. QED
  BY <1>1, <1>3

\* No append repairs a damaged log, and a cut one damages it.
LEMMA AppendDamages ==
    ASSUME NEW w \in Seq(Line), NEW r \in Ids, NEW whole \in BOOLEAN, NEW nl \in BOOLEAN,
           ~Clean(w) \/ ~nl
    PROVE  ~Clean(AppendLine(w, r, whole, nl))
<1> DEFINE v == AppendLine(w, r, whole, nl)
<1>1. CASE w # <<>> /\ ~w[Len(w)].nl
  <2> DEFINE bad == [id |-> r, whole |-> FALSE, nl |-> nl]
  <2>1. Len(w) \in DOMAIN w /\ ~bad.whole
    BY <1>1
  <2>2. v = [w EXCEPT ![Len(w)] = bad]
    BY <1>1, Zenon DEF AppendLine
  <2>3. v[Len(w)] = bad /\ DOMAIN v = DOMAIN w
    BY <2>1, <2>2, Zenon
  <2>4. QED
    <3> HIDE DEF v, bad
    <3>1. ~Clean(v)
      BY <2>1, <2>3 DEF Clean
    <3>2. QED
      BY <3>1 DEF v
<1>2. CASE ~(w # <<>> /\ ~w[Len(w)].nl)
  <2> DEFINE new == [id |-> r, whole |-> whole, nl |-> nl]
  <2>1. v = Append(w, new) /\ new.nl = nl
    BY <1>2 DEF AppendLine
  <2> HIDE DEF v, new
  <2>2. DOMAIN v = 1..(Len(w) + 1) /\ DOMAIN w = 1..Len(w) /\ Len(w) \in Nat
    BY <2>1
  <2>3. v[Len(w) + 1] = new /\ \A k \in 1..Len(w) : v[k] = w[k]
    BY <2>1
  <2>4. ~Clean(v)
    BY <2>1, <2>2, <2>3 DEF Clean
  <2>5. QED
    BY <2>4 DEF v
<1>3. QED
  BY <1>1, <1>2

LEMMA EmptyLog == Replayed(<<>>) = {} /\ SettledOf(<<>>) = {} /\ Clean(<<>>) /\ <<>> \in Seq(Line)
  BY DEF Replayed, SettledOf, Clean

LEMMA ReplayedType ==
    ASSUME NEW w \in Seq(Line)
    PROVE  Replayed(w) \subseteq Ids
<1> SUFFICES ASSUME NEW i \in DOMAIN w PROVE w[i].id \in Ids
  BY DEF Replayed
<1>1. w[i] \in Line
  OBVIOUS
<1>2. QED
  BY <1>1 DEF Line

LEMMA SettledReplayed ==
    ASSUME NEW w \in Seq(Line)
    PROVE  SettledOf(w) \subseteq Replayed(w)
  BY DEF SettledOf, Replayed

-----------------------------------------------------------------------------
(* Type correctness. *)

LEMMA TypeInit == Init => TypeOK
<1> SUFFICES ASSUME Init PROVE TypeOK
  OBVIOUS
<1>1. wal \in Seq(Line)
  BY EmptyLog DEF Init
<1>2. snap \in Snapshot
  BY DEF Init, Snapshot, NoSnapshot
<1>3. QED
  BY <1>1, <1>2 DEF Init, TypeOK, Steps, Commands
LEMMA TypeStep == TypeOK /\ [Next]_vars => TypeOK'
<1> SUFFICES ASSUME TypeOK, [Next]_vars
             PROVE  TypeOK'
  OBVIOUS
<1> USE DEF TypeOK, Snapshot, NoSnapshot, Steps, Commands, counts, disk
<1>1. CASE \E c \in Commands : Start(c)
  BY <1>1 DEF Start
<1>2. CASE BuildExtract
  <2>1. CASE db = {} /\ Ends
    BY <1>2, <2>1 DEF BuildExtract, Ends
  <2>2. CASE db # {} /\ rows' = db /\ pc' = "dropSnap"
             /\ UNCHANGED <<cmd, mem, dirty, added, todo>>
    BY <1>2, <2>2 DEF BuildExtract
  <2>3. QED
    BY <1>2, <2>1, <2>2, Zenon DEF BuildExtract
<1>3. CASE OpenIndex
  <2>1. Replayed(wal) \subseteq Ids
    BY ReplayedType
  <2>2. Recoverable \in SUBSET Ids
    BY <2>1 DEF Recoverable, OnDisk
  <2>3. Cardinality(Replayed(wal) \ snap.ids) \in Nat
    BY <2>1, AnnAssumption, FS_CardinalityType, FS_Subset
  <2>4. QED
    BY <1>3, <2>2, <2>3 DEF OpenIndex
<1>4. CASE OpenFails
  BY <1>4 DEF OpenFails, Ends
<1>5. CASE DiscardCorrupt \/ DiscardLogOnly \/ DropSnapshot
  BY <1>5 DEF DiscardCorrupt, DiscardLogOnly, DropSnapshot
<1>6. CASE DropWal
  BY <1>6, EmptyLog DEF DropWal
<1>7. CASE Extract
  <2>1. CASE Ends
    BY <1>7, <2>1 DEF Extract, Ends
  <2>2. CASE rows' = db /\ pc' \in {"build", "upsert"} /\ todo' \in SUBSET Ids
             /\ UNCHANGED <<cmd, mem, dirty, added>>
    BY <1>7, <2>2 DEF Extract
  <2>3. QED
    BY <1>7, <2>1, <2>2, Zenon DEF Extract
<1>8. CASE Build
  BY <1>8 DEF Build, Written, Eligible
<1>9. CASE SaveSnapshot
  BY <1>9 DEF SaveSnapshot, Written
<1>10. CASE ResetWal
  BY <1>10, EmptyLog DEF ResetWal
<1>11. ASSUME NEW r \in Ids, UpsertRow(r) PROVE TypeOK'
  <2>1. wal' \in Seq(Line)
    BY <1>11, AppendType DEF UpsertRow
  <2>2. mem' \in SUBSET Ids /\ todo' \in SUBSET Ids /\ dirty' \in Nat /\ added' \in BOOLEAN
    BY <1>11 DEF UpsertRow
  <2>3. UNCHANGED <<db, snap, pc, cmd, rows, faults, dbOps>>
    BY <1>11 DEF UpsertRow
  <2>4. QED
    BY <2>1, <2>2, <2>3
<1>12. CASE UpsertEnd
  BY <1>12 DEF UpsertEnd
<1>13. CASE Finish \/ Crash
  <2>1. Ends /\ UNCHANGED <<db, snap, wal, dbOps>> /\ faults' \in Nat
    BY <1>13 DEF Finish, Crash
  <2>2. QED
    BY <2>1 DEF Ends
<1>14. ASSUME NEW r \in Ids, TornAppend(r) PROVE TypeOK'
  <2>1. wal' \in Seq(Line)
    <3>1. PICK whole \in BOOLEAN : wal' = AppendLine(wal, r, whole, FALSE)
      BY <1>14 DEF TornAppend
    <3>2. QED
      BY <3>1, AppendType
  <2>2. Ends /\ UNCHANGED <<db, snap, dbOps>> /\ faults' \in Nat
    BY <1>14 DEF TornAppend
  <2>3. QED
    BY <2>1, <2>2 DEF Ends
<1>15. CASE \/ \E i \in Ids : Ingest(i)
            \/ \E S \in SUBSET Ids : RebuildDb(S)
  BY <1>15 DEF Ingest, RebuildDb
<1>16. CASE UNCHANGED vars
  BY <1>16 DEF vars
<1>17. QED
  BY <1>1, <1>2, <1>3, <1>4, <1>5, <1>6, <1>7, <1>8, <1>9, <1>10, <1>11, <1>12,
     <1>13, <1>14, <1>15, <1>16 DEF Next, ToolStep
\* Every variable keeps its type.
THEOREM TypeCorrect == Spec => []TypeOK
BY TypeInit, TypeStep, PTL DEF Spec

-----------------------------------------------------------------------------
(* What a process may assume between two of its file operations. *)

\* Only a snapshot that opens lists rows.
SnapInv == snap.st # "good" => snap.ids = {}

\* What the process has not read or built yet.
FreshInv ==
    /\ pc \in {"idle", "start", "dropSnap", "dropWal"} => mem = {}
    /\ pc \notin {"upsert", "save", "reset", "done"} => ~added
    /\ pc = "dropWal" => snap.ids = {}

\* An opened index holds all the files hold until it is replaced.
CoverInv ==
    pc \in {"opened", "upsert"} \/ (pc \in {"save", "reset"} /\ added)
        => OnDisk \subseteq mem

\* The rows a command extracted are in the index or still to be upserted.
RowsInv ==
    /\ pc = "upsert" => /\ todo \subseteq Eligible \ mem
                        /\ rows \cap Eligible \subseteq mem \cup todo
    /\ pc = "save" /\ ~added => mem = rows \cap Eligible
    /\ pc \in {"save", "reset", "done"} => rows \cap Eligible \subseteq mem
    /\ pc = "reset" => snap = Written(mem)

IInv == TypeOK /\ OnlyIndexable /\ SnapInv /\ FreshInv /\ CoverInv /\ RowsInv

LEMMA Inductive == IInv /\ [Next]_vars => IInv'
<1> SUFFICES ASSUME IInv, [Next]_vars, TypeOK'
             PROVE  (OnlyIndexable /\ SnapInv /\ FreshInv /\ CoverInv /\ RowsInv)'
  BY TypeStep DEF IInv
<1> USE DEF IInv, OnlyIndexable, SnapInv, FreshInv, CoverInv, RowsInv, OnDisk,
            counts, disk
<1>1. CASE \E c \in Commands : Start(c)
  BY <1>1 DEF Start
<1>2. CASE BuildExtract
  BY <1>2 DEF BuildExtract, Ends
<1>3. CASE OpenIndex
  BY <1>3 DEF OpenIndex, Recoverable
<1>4. CASE OpenFails \/ Finish \/ Crash
  BY <1>4 DEF OpenFails, Finish, Crash, Ends
<1>5. CASE DiscardCorrupt \/ DiscardLogOnly
  BY <1>5 DEF DiscardCorrupt, DiscardLogOnly, TypeOK
<1>6. CASE DropSnapshot
  BY <1>6 DEF DropSnapshot, NoSnapshot
<1>7. CASE DropWal
  BY <1>7, EmptyLog DEF DropWal
<1>8. CASE Extract
  BY <1>8 DEF Extract, Ends, TypeOK
<1>9. CASE Build
  BY <1>9 DEF Build, Written
<1>10. CASE SaveSnapshot
  BY <1>10 DEF SaveSnapshot, Written
<1>11. CASE ResetWal
  BY <1>11, EmptyLog DEF ResetWal, Written
<1>12. ASSUME NEW r \in Ids, UpsertRow(r)
       PROVE  (OnlyIndexable /\ SnapInv /\ FreshInv /\ CoverInv /\ RowsInv)'
  <2>1. Replayed(wal') \subseteq Replayed(wal) \cup {r}
    BY <1>12, AppendReplays DEF UpsertRow, TypeOK
  <2>2. QED
    BY <1>12, <2>1 DEF UpsertRow
<1>13. CASE UpsertEnd
  BY <1>13 DEF UpsertEnd
<1>14. ASSUME NEW r \in Ids, TornAppend(r)
       PROVE  (OnlyIndexable /\ SnapInv /\ FreshInv /\ CoverInv /\ RowsInv)'
  <2>1. Replayed(wal') \subseteq Replayed(wal) \cup {r}
    BY <1>14, AppendReplays DEF TornAppend, TypeOK
  <2>2. QED
    BY <1>14, <2>1 DEF TornAppend, Ends
<1>15. CASE \/ \E i \in Ids : Ingest(i)
            \/ \E S \in SUBSET Ids : RebuildDb(S)
  BY <1>15 DEF Ingest, RebuildDb
<1>16. CASE UNCHANGED vars
  BY <1>16 DEF vars, Written
<1>17. QED
  BY <1>1, <1>2, <1>3, <1>4, <1>5, <1>6, <1>7, <1>8, <1>9, <1>10, <1>11, <1>12,
     <1>13, <1>14, <1>15, <1>16 DEF Next, ToolStep

LEMMA InductiveInit == Init => IInv
<1> SUFFICES ASSUME Init PROVE IInv
  OBVIOUS
<1>1. wal = <<>> /\ snap = NoSnapshot /\ pc = "idle" /\ mem = {} /\ ~added
  BY DEF Init
<1>2. QED
  BY <1>1, TypeInit, EmptyLog
     DEF IInv, OnlyIndexable, SnapInv, FreshInv, CoverInv, RowsInv, NoSnapshot

LEMMA Invariance == Spec => []IInv
  BY InductiveInit, Inductive, PTL DEF Spec

\* No row that cannot be searched is ever in memory, snapshot or log.
THEOREM NeverDegenerate == Spec => []OnlyIndexable
<1>1. IInv => OnlyIndexable
  BY DEF IInv
<1>2. QED
  BY <1>1, Invariance, PTL

\* While a tool upserts or compacts, its memory holds whatever a restart could
\* recover, torn appends or not.
THEOREM MemoryCovers == Spec => []MemCoversDisk
<1>1. IInv => MemCoversDisk
  BY DEF IInv, CoverInv, MemCoversDisk, Recoverable
<1>2. QED
  BY <1>1, Invariance, PTL

Sticks == \A r \in Settled \ Settled' :
            pc \in {"dropSnap", "dropWal"} \/ (~added /\ r \notin rows)

LEMMA SticksStep == IInv /\ [Next]_vars => [Sticks]_vars
<1> SUFFICES ASSUME IInv, Next
             PROVE  Sticks
  OBVIOUS
<1> USE DEF Sticks, Settled
<1>1. SettledOf(wal) \subseteq Replayed(wal)
  BY SettledReplayed DEF IInv, TypeOK
<1>2. CASE UNCHANGED disk
  BY <1>2 DEF disk
<1>3. CASE DropSnapshot \/ DropWal
  BY <1>3 DEF DropSnapshot, DropWal
<1>4. CASE Build
  BY <1>4 DEF Build, Written, IInv, FreshInv, OnlyIndexable
<1>5. CASE SaveSnapshot
  <2>1. CASE added
    BY <1>1, <1>5, <2>1 DEF SaveSnapshot, Written, IInv, CoverInv, OnDisk
  <2>2. CASE ~added
    BY <1>5, <2>2 DEF SaveSnapshot, Written, IInv, RowsInv, OnlyIndexable
  <2>3. QED
    BY <2>1, <2>2
<1>6. CASE ResetWal
  <2>1. CASE added
    BY <1>1, <1>6, <2>1, EmptyLog DEF ResetWal, Written, IInv, CoverInv, RowsInv, OnDisk
  <2>2. CASE ~added
    BY <1>1, <1>6, <2>2, EmptyLog DEF ResetWal, Written, IInv, RowsInv, OnlyIndexable
  <2>3. QED
    BY <2>1, <2>2
<1>7. ASSUME NEW r \in Ids, UpsertRow(r) \/ TornAppend(r)
      PROVE  Sticks
  <2>1. SettledOf(wal) \subseteq SettledOf(wal') /\ snap' = snap
    BY <1>7, AppendSettles DEF UpsertRow, TornAppend, IInv, TypeOK
  <2>2. QED
    BY <2>1
<1>8. QED
  BY <1>2, <1>3, <1>4, <1>5, <1>6, <1>7
     DEF Next, ToolStep, Start, BuildExtract, OpenIndex, OpenFails, DiscardCorrupt,
         DiscardLogOnly, Extract, UpsertEnd, Finish, Crash, Ingest, RebuildDb

\* A row on the disk survives every append, crash and compaction, until a
\* discard or a rebuild that no longer finds it in the database.
THEOREM SettledRowsStick == Spec => SettledSticks
<1>1. IInv /\ [Next]_vars => [Sticks]_vars
  BY SticksStep
<1>2. Spec => [][Sticks]_vars
  BY <1>1, Invariance, PTL DEF Spec
<1>3. QED
  BY <1>2, PTL DEF SettledSticks, Sticks

-----------------------------------------------------------------------------
(* While no append was torn the files have all the memory has. *)

DurableInv ==
    /\ pc \in {"dropWal", "opened", "upsert"} => snap.st # "bad"
    /\ Clean(wal) /\ pc \in {"opened", "upsert", "done"} => mem \subseteq OnDisk
    /\ pc = "done" /\ snap.st = "bad" => mem = {}

LEMMA DurableInit == Init => DurableInv
  BY EmptyLog DEF Init, DurableInv

LEMMA DurableStep == IInv /\ DurableInv /\ [Next]_vars => DurableInv'
<1> SUFFICES ASSUME IInv, DurableInv, [Next]_vars
             PROVE  DurableInv'
  OBVIOUS
<1> USE DEF DurableInv, OnDisk, counts, disk
<1>1. CASE \E c \in Commands : Start(c)
  BY <1>1 DEF Start
<1>2. CASE BuildExtract
  BY <1>2 DEF BuildExtract, Ends
<1>3. CASE OpenIndex
  BY <1>3 DEF OpenIndex, Recoverable
<1>4. CASE OpenFails \/ Finish \/ Crash
  BY <1>4 DEF OpenFails, Finish, Crash, Ends
<1>5. CASE DiscardCorrupt \/ DiscardLogOnly \/ DropSnapshot
  BY <1>5 DEF DiscardCorrupt, DiscardLogOnly, DropSnapshot, NoSnapshot
<1>6. CASE DropWal
  BY <1>6, EmptyLog DEF DropWal, IInv, FreshInv
<1>7. CASE Extract
  BY <1>7 DEF Extract, Ends
<1>8. CASE Build \/ SaveSnapshot
  BY <1>8 DEF Build, SaveSnapshot
<1>9. CASE ResetWal
  BY <1>9, EmptyLog DEF ResetWal, Written, IInv, RowsInv
<1>10. ASSUME NEW r \in Ids, UpsertRow(r)
       PROVE  DurableInv'
  <2>1. wal \in Seq(Line) /\ wal' = AppendLine(wal, r, TRUE, TRUE)
    BY <1>10 DEF UpsertRow, IInv, TypeOK
  <2>2. CASE Clean(wal)
    <3>1. Replayed(wal') = Replayed(wal) \cup {r}
      BY <2>1, <2>2, AppendClean
    <3>2. QED
      BY <1>10, <2>2, <3>1 DEF UpsertRow
  <2>3. CASE ~Clean(wal)
    <3>1. ~Clean(wal')
      BY <2>1, <2>3, AppendDamages
    <3>2. QED
      BY <1>10, <3>1 DEF UpsertRow
  <2>4. QED
    BY <2>2, <2>3
<1>11. CASE UpsertEnd
  BY <1>11 DEF UpsertEnd
<1>12. CASE \E r \in Ids : TornAppend(r)
  BY <1>12 DEF TornAppend, Ends
<1>13. CASE \/ \E i \in Ids : Ingest(i)
            \/ \E S \in SUBSET Ids : RebuildDb(S)
  BY <1>13 DEF Ingest, RebuildDb
<1>14. CASE UNCHANGED vars
  BY <1>14 DEF vars
<1>15. QED
  BY <1>1, <1>2, <1>3, <1>4, <1>5, <1>6, <1>7, <1>8, <1>9, <1>10, <1>11, <1>12,
     <1>13, <1>14 DEF Next, ToolStep

LEMMA Durability == Spec => [](IInv /\ DurableInv)
<1>1. Init => IInv /\ DurableInv
  BY InductiveInit, DurableInit
<1>2. (IInv /\ DurableInv) /\ [Next]_vars => (IInv /\ DurableInv)'
  BY Inductive, DurableStep
<1>3. QED
  BY <1>1, <1>2, PTL DEF Spec

\* Unless an append was torn, a command that succeeded leaves files from which a
\* restart recovers every indexable row it extracted.
THEOREM SuccessIsDurable == Spec => []EnsureCovers
<1>1. IInv /\ DurableInv => EnsureCovers
  BY DEF IInv, RowsInv, DurableInv, EnsureCovers, Recoverable
<1>2. QED
  BY <1>1, Durability, PTL

LEMMA StoreInitial == Init => Store!StoreInit
  BY EmptyLog DEF Init, NoSnapshot, Store!StoreInit, OnDisk, Unsaved

\* Whatever an append does to the log, the store spoils at most one row.
LEMMA SpoilsOne ==
    ASSUME IInv, NEW r \in Eligible, NEW whole \in BOOLEAN, NEW nl \in BOOLEAN,
           wal' = AppendLine(wal, r, whole, nl), snap' = snap
    PROVE  Store!Spoils(r)
<1>1. wal \in Seq(Line) /\ r \in Ids
  BY DEF IInv, TypeOK, Eligible
<1>2. OnDisk' \subseteq OnDisk \cup {r}
  BY <1>1, AppendReplays DEF OnDisk
<1>3. PICK x \in Ids : Replayed(wal) \ {x} \subseteq Replayed(wal')
  BY <1>1, AppendSpoils
<1>4. OnDisk \ {x} \subseteq OnDisk'
  BY <1>3 DEF OnDisk
<1>5. OnDisk \subseteq Eligible
  BY DEF IInv, OnlyIndexable, OnDisk
<1>6. \E lost \in Eligible : OnDisk \ {lost} \subseteq OnDisk'
  <2>1. CASE x \in Eligible
    BY <1>4, <2>1
  <2>2. CASE x \notin Eligible
    BY <1>4, <1>5, <2>2
  <2>3. QED
    BY <2>1, <2>2
<1>7. QED
  BY <1>2, <1>6 DEF Store!Spoils

LEMMA StoreStep ==
    IInv /\ DurableInv /\ [Next]_vars => [Store!StoreNext]_(Store!storeVars)
<1> SUFFICES ASSUME IInv, DurableInv, [Next]_vars
             PROVE  \/ Store!StoreNext
                    \/ /\ UNCHANGED mem /\ OnDisk' = OnDisk /\ Unsaved' = Unsaved
                       /\ (~Clean(wal))' = ~Clean(wal)
  BY DEF Store!storeVars
<1> USE DEF Store!StoreNext, OnDisk, Unsaved
<1>1. CASE UNCHANGED <<mem, snap, wal, pc, added>>
  BY <1>1
<1>2. CASE Ends /\ UNCHANGED disk
  BY <1>2 DEF Store!Exit, Ends, disk
<1>3. CASE UNCHANGED <<mem, snap, wal, added>> /\ ~Unsaved /\ ~Unsaved'
  BY <1>3, Zenon
<1>4. CASE (\E c \in Commands : Start(c)) \/ DiscardCorrupt \/ DiscardLogOnly \/ UpsertEnd
  <2>1. UNCHANGED <<mem, snap, wal, added>> /\ ~Unsaved /\ ~Unsaved'
    BY <1>4 DEF Start, DiscardCorrupt, DiscardLogOnly, UpsertEnd, disk
  <2>2. QED
    BY <1>3, <2>1
<1>5. CASE BuildExtract \/ Extract
  <2>1. UNCHANGED disk /\ (Ends \/ (UNCHANGED <<mem, added>> /\ ~Unsaved /\ ~Unsaved'))
    BY <1>5 DEF BuildExtract, Extract
  <2>2. QED
    BY <1>2, <1>3, <2>1 DEF disk
<1>6. CASE OpenIndex
  <2>1. ~Unsaved /\ ~Unsaved' /\ mem = {} /\ mem' = OnDisk /\ UNCHANGED disk
    BY <1>6 DEF OpenIndex, Recoverable, IInv, FreshInv
  <2>2. QED
    BY <2>1 DEF Store!Load, disk
<1>7. CASE DropSnapshot \/ DropWal
  <2>1. mem = {} /\ mem' = {} /\ ~Unsaved /\ ~Unsaved'
    BY <1>7 DEF DropSnapshot, DropWal, IInv, FreshInv
  <2>2. OnDisk' \subseteq OnDisk /\ (~Clean(wal') => ~Clean(wal))
    BY <1>7, EmptyLog DEF DropSnapshot, DropWal, NoSnapshot
  <2>3. QED
    BY <2>1, <2>2 DEF Store!Discard
<1>8. CASE Build
  <2>1. mem' \in SUBSET Eligible /\ Unsaved' /\ wal' = wal
    BY <1>8 DEF Build, IInv, FreshInv, TypeOK
  <2>2. OnDisk' \subseteq OnDisk \cup mem' /\ (OnDisk' = OnDisk \/ mem' \subseteq OnDisk')
    BY <1>8 DEF Build, Written
  <2>3. QED
    BY <2>1, <2>2 DEF Store!Rebuild
<1>9. CASE SaveSnapshot \/ ResetWal
  <2>1. mem \subseteq OnDisk' /\ OnDisk' \subseteq OnDisk \cup mem
    BY <1>9, EmptyLog DEF SaveSnapshot, ResetWal, Written, IInv, RowsInv
  <2>2. mem' = mem /\ ~Unsaved' /\ (~Clean(wal') => ~Clean(wal))
    BY <1>9, EmptyLog DEF SaveSnapshot, ResetWal
  <2>3. QED
    BY <2>1, <2>2 DEF Store!Publish
<1>10. ASSUME NEW r \in Ids, UpsertRow(r)
      PROVE  Store!StoreNext
  <2>1. wal \in Seq(Line) /\ wal' = AppendLine(wal, r, TRUE, TRUE) /\ snap' = snap
    BY <1>10 DEF UpsertRow, IInv, TypeOK
  <2>2. r \in Eligible \ mem /\ mem' = mem \cup {r}
    BY <1>10 DEF UpsertRow, IInv, RowsInv
  <2>3. ~Unsaved /\ ~Unsaved'
    BY <1>10 DEF UpsertRow
  <2>4. CASE Clean(wal)
    <3>1. Clean(wal') /\ Replayed(wal') = Replayed(wal) \cup {r}
      BY <2>1, <2>4, AppendClean
    <3>2. Store!Add(r)
      BY <2>1, <2>2, <2>3, <2>4, <3>1 DEF Store!Add
    <3>3. QED
      BY <2>2, <3>2
  <2>5. CASE ~Clean(wal)
    <3>1. ~Clean(wal')
      BY <2>1, <2>5, AppendDamages
    <3>2. Store!Spoils(r)
      BY <2>1, <2>2, SpoilsOne
    <3>3. Store!Add(r)
      BY <2>2, <2>3, <2>5, <3>1, <3>2 DEF Store!Add
    <3>4. QED
      BY <2>2, <3>3
  <2>6. QED
    BY <2>4, <2>5
<1>11. ASSUME NEW r \in Ids, TornAppend(r)
      PROVE  Store!StoreNext
  <2>1. PICK whole \in BOOLEAN : wal' = AppendLine(wal, r, whole, FALSE)
    BY <1>11 DEF TornAppend
  <2>2. wal \in Seq(Line) /\ snap' = snap /\ r \in Eligible /\ mem' = {}
    BY <1>11 DEF TornAppend, Ends, IInv, TypeOK, RowsInv
  <2>3. ~Unsaved /\ ~Unsaved'
    BY <1>11 DEF TornAppend, Ends
  <2>4. ~Clean(wal')
    BY <2>1, <2>2, AppendDamages
  <2>5. Store!Spoils(r)
    BY <2>1, <2>2, SpoilsOne
  <2>6. Store!Tear(r)
    BY <2>2, <2>3, <2>4, <2>5 DEF Store!Tear
  <2>7. QED
    BY <2>2, <2>6
<1>12. QED
  BY <1>1, <1>2, <1>4, <1>5, <1>6, <1>7, <1>8, <1>9, <1>10, <1>11
     DEF vars, disk, Next, ToolStep, OpenFails, Finish, Crash, Ingest, RebuildDb

\* The two files and the three commands implement the abstract store, torn
\* appends included.
THEOREM FilesImplementStore == Spec => StoreRefined
<1>1. Init => Store!StoreInit
  BY StoreInitial
<1>2. IInv /\ DurableInv /\ [Next]_vars => [Store!StoreNext]_(Store!storeVars)
  BY StoreStep
<1>3. Spec => Store!StoreInit /\ [][Store!StoreNext]_(Store!storeVars)
  BY <1>1, <1>2, Durability, PTL DEF Spec
<1>4. QED
  BY <1>3 DEF StoreRefined, Store!StoreSpec
=============================================================================
