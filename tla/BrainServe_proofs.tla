------------------------- MODULE BrainServe_proofs -------------------------
(***************************************************************************)
(* Proofs about BrainServe, for every set of requests, leafs and edges,    *)
(* any number of workers and any bounds.                                   *)
(***************************************************************************)
EXTENDS BrainServe, TLAPS

-----------------------------------------------------------------------------
(* The operations of a sync.RWMutex. *)

LEMMA UnlockedType ==
    /\ Unlocked \in RWMutexes
    /\ Unlocked.pending = Nobody /\ Unlocked.writer = Nobody
    /\ \A p \in Reqs : Unlocked.readers[p] = 0
  BY DEF Unlocked, RWMutexes

LEMMA RLockedType ==
    ASSUME NEW m \in RWMutexes, NEW p \in Reqs
    PROVE  /\ RLocked(m, p) \in RWMutexes
           /\ RLocked(m, p).pending = m.pending /\ RLocked(m, p).writer = m.writer
           /\ RLocked(m, p).readers = [m.readers EXCEPT ![p] = @ + 1]
  BY DEF RLocked, RWMutexes

LEMMA RUnlockedType ==
    ASSUME NEW m \in RWMutexes, NEW p \in Reqs, m.readers[p] > 0
    PROVE  /\ RUnlocked(m, p) \in RWMutexes
           /\ RUnlocked(m, p).pending = m.pending /\ RUnlocked(m, p).writer = m.writer
           /\ RUnlocked(m, p).readers = [m.readers EXCEPT ![p] = @ - 1]
  BY DEF RUnlocked, RWMutexes

LEMMA WriterType ==
    ASSUME NEW m \in RWMutexes, NEW p \in Reqs
    PROVE  /\ Announced(m, p) = [m EXCEPT !.pending = p] /\ Announced(m, p) \in RWMutexes
           /\ Locked(m, p) \in RWMutexes /\ Locked(m, p).readers = m.readers
           /\ Locked(m, p).pending = Nobody /\ Locked(m, p).writer = p
           /\ WUnlocked(m) \in RWMutexes /\ WUnlocked(m).readers = m.readers
           /\ WUnlocked(m).pending = m.pending /\ WUnlocked(m).writer = Nobody
           /\ Announced(m, p).readers = m.readers /\ Announced(m, p).writer = m.writer
           /\ Announced(m, p).pending = p
  BY DEF Announced, Locked, WUnlocked, RWMutexes

-----------------------------------------------------------------------------
(* Who holds which lock. *)

Reading == {"ftsHeld", "scanHeld", "getHeld", "statsHeld"}
Writing == {"wClose", "wOpen", "wAdd", "wIndex", "wDone", "wReopen"}

\* The steps of a request say what it holds.
Mutexes ==
    /\ \A r \in Reqs : brainMu.readers[r] = IF pc[r] \in Reading THEN 1 ELSE 0
    /\ \A r \in Reqs : annMu.readers[r] = IF pc[r] = "idxHeld" THEN 1 ELSE 0
    /\ \A r \in Reqs : brainMu.writer = r <=> pc[r] \in Writing
    /\ \A r \in Reqs : brainMu.pending = r <=> pc[r] = "wPend"
    /\ brainMu.writer # Nobody => brainMu.pending = Nobody /\ NoReader(brainMu)

LockInv == TypeOK /\ Mutexes

LEMMA LockInit == Init => LockInv
<1> SUFFICES ASSUME Init PROVE LockInv
  OBVIOUS
<1>1. brainMu \in RWMutexes /\ annMu \in RWMutexes
  BY UnlockedType DEF Init
<1>2. ann \in Indexes
  BY ServeAssumption DEF Init, AtStart, OpenOutcomes, Unopened, Indexes
<1>3. conn \in Handle /\ disk \in SUBSET Items
  BY DEF Init, Opened, Handle, Items
<1>4. TypeOK
  BY <1>1, <1>2, <1>3 DEF Init, TypeOK, Steps, Reads, Writes, Outcomes
<1>5. Mutexes
  BY UnlockedType, ServeAssumption DEF Init, Mutexes, Reading, Writing
<1>6. QED
  BY <1>4, <1>5 DEF LockInv

LEMMA HandleType ==
    /\ Closed \in Handle /\ ~Closed.open
    /\ \A d \in SUBSET Items : Opened(d) \in Handle /\ Opened(d).open /\ Opened(d).view = d
  BY DEF Closed, Opened, Handle

\* Every variable but the locks keeps its type in every step of a request.
LEMMA RestType ==
    ASSUME LockInv, NEW r \in Reqs, Serve(r),
           brainMu' \in RWMutexes, annMu' \in RWMutexes
    PROVE  TypeOK'
<1> USE DEF LockInv, TypeOK, local, bounds, store, locks, Goto, Return, Steps, Outcomes,
            Reads, Writes
<1>1. CASE Acquire(r)
  BY <1>1 DEF Acquire, First
<1>2. CASE FtsBegin(r) \/ ScanBegin(r) \/ GetBegin(r) \/ StatsBegin(r)
  BY <1>2 DEF FtsBegin, ScanBegin, GetBegin, StatsBegin, RLockBrain
<1>3. CASE FtsQuery(r)
  BY <1>3 DEF FtsQuery, Handle
<1>4. CASE AnnEnabled(r)
  BY <1>4 DEF AnnEnabled
<1>5. CASE AnnCached(r)
  BY <1>5 DEF AnnCached, UseIndex, Indexes
<1>6. CASE AnnRecheck(r) \/ AnnAnnounce(r)
  BY <1>6 DEF AnnRecheck, AnnAnnounce
<1>7. CASE AnnOpen(r)
  <2>1. ann' \in Indexes
    BY <1>7, ServeAssumption DEF AnnOpen, OpenOutcomes, Indexes
  <2>2. QED
    BY <1>7, <2>1 DEF AnnOpen, UseIndex, Indexes
<1>8. ASSUME NEW l \in Leafs, Lookup(r, l) PROVE TypeOK'
  <2>1. hit' \in [Reqs -> BOOLEAN]
    BY <1>8, Zenon DEF Lookup
  <2>2. QED
    BY <1>8, <2>1 DEF Lookup, Items, Handle
<1>9. CASE LookupEnd(r)
  BY <1>9 DEF LookupEnd
<1>10. CASE ScanQuery(r) \/ GetQuery(r) \/ StatsQuery(r)
  BY <1>10 DEF ScanQuery, GetQuery, StatsQuery, Handle
<1>11. CASE Embed(r) \/ LockIngest(r) \/ AnnounceBrain(r) \/ LockBrain(r)
  BY <1>11 DEF Embed, LockIngest, AnnounceBrain, LockBrain
<1>12. CASE CloseRead(r) \/ OpenWritable(r)
  <2>1. CASE CloseRead(r)
    BY <2>1, HandleType DEF CloseRead
  <2>2. CASE OpenWritable(r)
    BY <2>2 DEF OpenWritable
  <2>3. QED
    BY <1>12, <2>1, <2>2
<1>13. CASE AddLeafs(r)
  BY <1>13 DEF AddLeafs, Written, Items
<1>14. CASE EnsureIndexes(r) \/ CloseWrite(r)
  BY <1>14 DEF EnsureIndexes, CloseWrite
<1>15. CASE Reopen(r)
  <2>1. conn' \in Handle /\ openFaults' \in Nat
    BY <1>15, HandleType DEF Reopen, ReopenRead
  <2>2. acked' \in SUBSET Items
    BY <1>15 DEF Reopen
  <2>3. QED
    BY <1>15, <2>1, <2>2 DEF Reopen
<1>16. QED
  BY <1>1, <1>2, <1>3, <1>4, <1>5, <1>6, <1>7, <1>8, <1>9, <1>10, <1>11, <1>12,
     <1>13, <1>14, <1>15 DEF Serve, Search, Read, Write

\* A step of a request that neither takes nor gives back a lock.
LEMMA QuietStep ==
    ASSUME LockInv, NEW r \in Reqs, NEW l,
           pc' = [pc EXCEPT ![r] = l], UNCHANGED <<brainMu, annMu>>,
           pc[r] \notin Reading \cup {"idxHeld", "wPend"},
           l \notin Reading \cup {"idxHeld", "wPend"},
           pc[r] \in Writing <=> l \in Writing
    PROVE  Mutexes'
  BY DEF LockInv, TypeOK, Mutexes

LEMMA LockServe ==
    ASSUME LockInv, NEW r \in Reqs, Serve(r)
    PROVE  LockInv'
<1> DEFINE Good == brainMu' \in RWMutexes /\ annMu' \in RWMutexes /\ Mutexes'
<1> SUFFICES Good
  BY RestType DEF LockInv
<1>a. brainMu \in RWMutexes /\ annMu \in RWMutexes /\ pc \in [Reqs -> Steps]
  BY DEF LockInv, TypeOK
<1>b. r # Nobody /\ brainMu.readers \in [Reqs -> Nat] /\ annMu.readers \in [Reqs -> Nat]
  BY <1>a, ServeAssumption DEF RWMutexes
<1> USE DEF Goto, Return, locks, Reading, Writing
<1>1. CASE \/ Acquire(r) \/ AnnEnabled(r) \/ LookupEnd(r) \/ Embed(r) \/ LockIngest(r)
           \/ CloseRead(r) \/ OpenWritable(r) \/ AddLeafs(r) \/ EnsureIndexes(r)
           \/ CloseWrite(r)
  <2>1. PICK l : /\ pc' = [pc EXCEPT ![r] = l]
                 /\ pc[r] \notin Reading \cup {"idxHeld", "wPend"}
                 /\ l \notin Reading \cup {"idxHeld", "wPend"}
                 /\ pc[r] \in Writing <=> l \in Writing
    BY <1>1 DEF Acquire, First, Reads, Writes, AnnEnabled, LookupEnd, Embed, LockIngest, CloseRead, OpenWritable,
                AddLeafs, EnsureIndexes, CloseWrite, LockInv, TypeOK
  <2>2. UNCHANGED <<brainMu, annMu>>
    BY <1>1 DEF Acquire, AnnEnabled, LookupEnd, Embed, LockIngest, CloseRead,
                OpenWritable, AddLeafs, EnsureIndexes, CloseWrite
  <2>3. QED
    BY <1>a, <2>1, <2>2, QuietStep
<1>2. CASE FtsBegin(r) \/ ScanBegin(r) \/ GetBegin(r) \/ StatsBegin(r)
  <2>1. PICK l \in Reading : /\ pc' = [pc EXCEPT ![r] = l]
                             /\ pc[r] \in {"fts", "scan", "get", "stats"}
                             /\ CanRLock(brainMu) /\ brainMu' = RLocked(brainMu, r)
                             /\ annMu' = annMu
    BY <1>2 DEF FtsBegin, ScanBegin, GetBegin, StatsBegin, RLockBrain
  <2>2. /\ brainMu' \in RWMutexes
        /\ brainMu'.pending = Nobody /\ brainMu'.writer = Nobody
        /\ brainMu'.readers = [brainMu.readers EXCEPT ![r] = @ + 1]
    BY <1>a, <2>1, RLockedType DEF CanRLock, Free
  <2>3. brainMu.pending = Nobody /\ brainMu.writer = Nobody /\ brainMu.readers[r] = 0
    BY <2>1 DEF CanRLock, Free, LockInv, Mutexes
  <2>4. QED
    BY <1>a, <1>b, <2>1, <2>2, <2>3 DEF LockInv, Mutexes
<1>3. CASE FtsQuery(r) \/ ScanQuery(r) \/ GetQuery(r) \/ StatsQuery(r)
  <2>1. PICK l \in {"enabled", "done"} :
                /\ pc' = [pc EXCEPT ![r] = l] /\ pc[r] \in Reading
                /\ brainMu' = RUnlocked(brainMu, r) /\ annMu' = annMu
    BY <1>3 DEF FtsQuery, ScanQuery, GetQuery, StatsQuery
  <2>2. brainMu.readers[r] > 0
    BY <2>1 DEF LockInv, Mutexes
  <2>3. /\ brainMu' \in RWMutexes
        /\ brainMu'.pending = brainMu.pending /\ brainMu'.writer = brainMu.writer
        /\ brainMu'.readers = [brainMu.readers EXCEPT ![r] = @ - 1]
    BY <1>a, <2>1, <2>2, RUnlockedType
  <2>4. brainMu.writer = Nobody /\ brainMu.readers[r] = 1
    BY <1>b, <2>1 DEF LockInv, Mutexes, NoReader
  <2>5. QED
    BY <1>a, <1>b, <2>1, <2>3, <2>4 DEF LockInv, Mutexes
<1>4. CASE AnnCached(r) \/ AnnOpen(r)
  <2>1. CASE annMu'.readers = annMu.readers /\ annMu' \in RWMutexes /\ brainMu' = brainMu
             /\ \E l \in {"scan", "lookup"} : pc' = [pc EXCEPT ![r] = l]
    BY <1>a, <1>b, <1>4, <2>1 DEF LockInv, Mutexes, AnnCached, AnnOpen
  <2>2. CASE AnnCached(r)
    <3>1. CASE ann # Unopened
      BY <1>a, <2>1, <2>2, <3>1 DEF AnnCached, UseIndex
    <3>2. CASE ann = Unopened
      <4>1. /\ annMu' = RLocked(annMu, r) /\ pc' = [pc EXCEPT ![r] = "idxHeld"]
            /\ pc[r] = "idx" /\ brainMu' = brainMu
        BY <2>2, <3>2 DEF AnnCached
      <4>2. annMu' \in RWMutexes /\ annMu'.readers = [annMu.readers EXCEPT ![r] = @ + 1]
        BY <1>a, <4>1, RLockedType
      <4>3. annMu.readers[r] = 0
        BY <4>1 DEF LockInv, Mutexes
      <4>4. QED
        BY <1>a, <1>b, <4>1, <4>2, <4>3 DEF LockInv, Mutexes
    <3>3. QED
      BY <3>1, <3>2
  <2>3. CASE AnnOpen(r)
    <3>1. annMu' = WUnlocked(Locked(annMu, r)) /\ brainMu' = brainMu
      BY <2>3 DEF AnnOpen
    <3>2. annMu' \in RWMutexes /\ annMu'.readers = annMu.readers
      <4>1. Locked(annMu, r) \in RWMutexes /\ Locked(annMu, r).readers = annMu.readers
        BY <1>a, WriterType
      <4>2. QED
        BY <3>1, <4>1, WriterType
    <3>3. \E l \in {"scan", "lookup"} : pc' = [pc EXCEPT ![r] = l]
      BY <2>3 DEF AnnOpen, UseIndex
    <3>4. QED
      BY <2>1, <3>1, <3>2, <3>3
  <2>4. QED
    BY <1>4, <2>2, <2>3
<1>5. CASE AnnRecheck(r)
  <2>1. annMu.readers[r] > 0
    BY <1>5 DEF AnnRecheck, LockInv, Mutexes
  <2>2. annMu' \in RWMutexes /\ annMu'.readers = [annMu.readers EXCEPT ![r] = @ - 1]
    BY <1>5, <1>a, <2>1, RUnlockedType DEF AnnRecheck
  <2>3. /\ pc[r] = "idxHeld" /\ pc' = [pc EXCEPT ![r] = "idxWant"]
        /\ brainMu' = brainMu /\ annMu.readers[r] = 1
    BY <1>5 DEF AnnRecheck, LockInv, Mutexes
  <2>4. QED
    BY <1>a, <1>b, <2>2, <2>3 DEF LockInv, Mutexes
<1>6. CASE AnnAnnounce(r)
  BY <1>6, <1>a, <1>b, WriterType DEF AnnAnnounce, LockInv, Mutexes
<1>7. CASE \E l \in Leafs : Lookup(r, l)
  BY <1>7 DEF Lookup, LockInv, TypeOK, Mutexes
<1>8. CASE AnnounceBrain(r)
  <2>1. /\ brainMu' \in RWMutexes /\ brainMu'.readers = brainMu.readers
        /\ brainMu'.writer = brainMu.writer /\ brainMu'.pending = r
    BY <1>8, <1>a, WriterType DEF AnnounceBrain
  <2>2. /\ pc[r] = "wWant" /\ pc' = [pc EXCEPT ![r] = "wPend"] /\ annMu' = annMu
        /\ brainMu.writer = Nobody /\ brainMu.pending = Nobody
    BY <1>8 DEF AnnounceBrain, CanAnnounce, Free
  <2>3. QED
    BY <1>a, <1>b, <2>1, <2>2 DEF LockInv, Mutexes
<1>9. CASE LockBrain(r)
  <2>1. /\ brainMu' \in RWMutexes /\ brainMu'.readers = brainMu.readers
        /\ brainMu'.writer = r /\ brainMu'.pending = Nobody
    BY <1>9, <1>a, WriterType DEF LockBrain
  <2>2. /\ pc[r] = "wPend" /\ pc' = [pc EXCEPT ![r] = "wClose"] /\ annMu' = annMu
        /\ brainMu.pending = r /\ NoReader(brainMu)
    BY <1>9 DEF LockBrain, CanLock
  <2>3. \A s \in Reqs : brainMu.writer # s
    BY <1>b, <2>2, ServeAssumption DEF LockInv, Mutexes
  <2>4. QED
    BY <1>a, <1>b, <2>1, <2>2, <2>3 DEF LockInv, Mutexes, NoReader
<1>10. CASE Reopen(r)
  BY <1>10, <1>a, <1>b, WriterType, ServeAssumption DEF Reopen, LockInv, Mutexes
<1>11. QED
  BY <1>1, <1>2, <1>3, <1>4, <1>5, <1>6, <1>7, <1>8, <1>9, <1>10
     DEF Serve, Search, Read, Write

LEMMA LockClient ==
    ASSUME LockInv, NEW r \in Reqs, Send(r) \/ Cancel(r)
    PROVE  LockInv'
<1> USE DEF LockInv, TypeOK, Goto, Return, local, bounds, store, locks
<1>1. ASSUME NEW k \in Reads \cup Writes, NEW S \in SUBSET Items, Arrive(r, k, S)
      PROVE  LockInv'
  <2>1. TypeOK'
    BY <1>1 DEF Arrive, Steps
  <2>2. Mutexes'
    BY <1>1, QuietStep DEF Arrive, Reading, Writing
  <2>3. QED
    BY <2>1, <2>2
<1>2. CASE Cancel(r)
  <2>1. TypeOK'
    BY <1>2 DEF Cancel, Steps, Outcomes
  <2>2. Mutexes'
    BY <1>2, QuietStep DEF Cancel, Reading, Writing
  <2>3. QED
    BY <2>1, <2>2
<1>3. QED
  BY <1>1, <1>2 DEF Send

LEMMA LockWorld ==
    ASSUME LockInv, Kill \/ Boot \/ ForeignOpen \/ ForeignWrite
    PROVE  LockInv'
<1> USE DEF LockInv, TypeOK, local, bounds, store, locks
<1>1. CASE Kill
  <2>1. brainMu' \in RWMutexes /\ annMu' \in RWMutexes
    BY <1>1, UnlockedType DEF Kill
  <2>2. pc' \in [Reqs -> Steps] /\ out' \in [Reqs -> Outcomes]
    BY <1>1 DEF Kill, Steps, Outcomes
  <2>3. ann' \in Indexes /\ conn' \in Handle
    BY <1>1, HandleType DEF Kill, Indexes, Unopened
  <2>k. up' \in BOOLEAN
    BY <1>1, Zenon DEF Kill
  <2>a. kills' \in Nat /\ wconn' = Nobody /\ ingestMu' = Nobody
    <3>1. kills' = kills + 1 /\ wconn' = Nobody /\ ingestMu' = Nobody
      BY <1>1, Zenon DEF Kill
    <3>2. QED
      BY <3>1
  <2>b. UNCHANGED <<disk, foreign, kind, item, got, left, hit, base, acked, openFaults, foreigns>>
    BY <1>1 DEF Kill
  <2>4. TypeOK'
    BY <2>k, <2>a, <2>b, <2>1, <2>2, <2>3
  <2>5. \A r \in Reqs : pc'[r] \in {"new", "done"}
    BY <1>1 DEF Kill
  <2>6. Mutexes'
    <3>1. brainMu' = Unlocked /\ annMu' = Unlocked
      BY <1>1 DEF Kill
    <3>2. /\ brainMu'.writer = Nobody /\ brainMu'.pending = Nobody
          /\ \A r \in Reqs : brainMu'.readers[r] = 0 /\ annMu'.readers[r] = 0 /\ r # Nobody
      BY <3>1, UnlockedType, ServeAssumption
    <3>3. QED
      BY <2>5, <3>2 DEF Mutexes, Reading, Writing, NoReader
  <2>7. QED
    BY <2>4, <2>6
<1>2. CASE Boot
  <2>1. ann' \in Indexes
    BY <1>2, ServeAssumption DEF Boot, AtStart, OpenOutcomes, Unopened, Indexes
  <2>2. TypeOK'
    BY <1>2, <2>1, HandleType DEF Boot
  <2>3. Mutexes'
    BY <1>2 DEF Boot, Mutexes, NoReader
  <2>4. QED
    BY <2>2, <2>3
<1>3. CASE ForeignOpen
  BY <1>3 DEF ForeignOpen, Mutexes, NoReader
<1>4. CASE ForeignWrite
  <2>1. PICK S \in {{}} \cup {{l} : l \in Leafs} : ForeignClose(S)
    BY <1>4 DEF ForeignWrite
  <2>2. disk' \in SUBSET Items
    BY <2>1 DEF ForeignClose, Items
  <2>3. TypeOK'
    BY <2>1, <2>2 DEF ForeignClose
  <2>4. Mutexes'
    BY <2>1 DEF ForeignClose, Mutexes, NoReader
  <2>5. QED
    BY <2>3, <2>4
<1>5. QED
  BY <1>1, <1>2, <1>3, <1>4

LEMMA LockStep == LockInv /\ [Next]_vars => LockInv'
<1> SUFFICES ASSUME LockInv, [Next]_vars PROVE LockInv'
  OBVIOUS
<1>1. CASE UNCHANGED vars
  BY <1>1 DEF LockInv, TypeOK, Mutexes, NoReader, vars, local, bounds, store, locks
<1>2. CASE \E r \in Reqs : Send(r) \/ Cancel(r) \/ Serve(r)
  BY <1>2, LockClient, LockServe
<1>3. CASE Kill \/ Boot \/ ForeignOpen \/ ForeignWrite
  BY <1>3, LockWorld
<1>4. QED
  BY <1>1, <1>2, <1>3 DEF Next, AllAnswered

\* Every variable of the serve process keeps its type, and what a request holds
\* is what its step says: the locks are never left behind.
THEOREM TypeCorrect == Spec => [](TypeOK /\ Mutexes)
<1>1. Init => LockInv
  BY LockInit
<1>2. LockInv /\ [Next]_vars => LockInv'
  BY LockStep
<1>3. QED
  BY <1>1, <1>2, PTL DEF Spec, LockInv

-----------------------------------------------------------------------------
(* Who holds the file. *)

Holding == {"wAdd", "wIndex", "wDone"}

Handles ==
    /\ \A r \in Reqs : wconn = r <=> pc[r] \in Holding
    /\ \A r \in Reqs : pc[r] \in Writing \ {"wClose"} => ~conn.open
    /\ foreign => ~conn.open /\ wconn = Nobody
    /\ foreigns = 0 => ~foreign
    /\ conn.open => conn.view = disk
    /\ ~up => \A r \in Reqs : pc[r] \in Ended

\* At most one request is past the lock of a writer.
LEMMA Alone ==
    ASSUME Mutexes, NEW r \in Reqs, NEW s \in Reqs, pc[r] \in Writing, pc[s] \in Writing
    PROVE  r = s
  BY DEF Mutexes

\* The step of a request that leaves the handles and the data alone.
HandleQuiet(r) ==
    /\ UNCHANGED <<up, disk, conn, wconn, foreign, foreigns, openFaults>>
    /\ \E l \in Steps \ Holding :
          /\ pc' = [pc EXCEPT ![r] = l]
          /\ l \in Writing \ {"wClose"} => ~conn.open
          /\ pc[r] \notin Holding \cup Ended

LEMMA HandlesQuiet ==
    ASSUME LockInv, Handles, NEW r \in Reqs, HandleQuiet(r)
    PROVE  Handles'
<1>1. PICK l \in Steps \ Holding :
          /\ pc' = [pc EXCEPT ![r] = l]
          /\ l \in Writing \ {"wClose"} => ~conn.open
          /\ pc[r] \notin Holding \cup Ended
  BY DEF HandleQuiet
<1>2. UNCHANGED <<up, disk, conn, wconn, foreign, foreigns, openFaults>>
  BY DEF HandleQuiet
<1>3. pc \in [Reqs -> Steps]
  BY DEF LockInv, TypeOK
<1>4. \A s \in Reqs : wconn' = s <=> pc'[s] \in Holding
  BY <1>1, <1>2, <1>3 DEF Handles
<1>5. \A s \in Reqs : pc'[s] \in Writing \ {"wClose"} => ~conn'.open
  BY <1>1, <1>2, <1>3 DEF Handles
<1>6. ~up' => \A s \in Reqs : pc'[s] \in Ended
  BY <1>1, <1>2, <1>3 DEF Handles
<1>7. QED
  BY <1>2, <1>4, <1>5, <1>6 DEF Handles

LEMMA HandlesServe ==
    ASSUME LockInv, Handles, NEW r \in Reqs, Serve(r)
    PROVE  Handles'
<1>a. pc \in [Reqs -> Steps] /\ wconn \in Reqs \cup {Nobody} /\ r # Nobody /\ up \in BOOLEAN
  BY ServeAssumption DEF LockInv, TypeOK
<1> USE DEF Goto, Return, locks, store, local, bounds
<1>1. CASE HandleQuiet(r)
  BY <1>1, HandlesQuiet
<1>2. CASE Search(r) \/ Read(r)
  <2>1. CASE \E l \in Leafs : Lookup(r, l)
    BY <2>1 DEF Lookup, Handles
  <2>2. CASE ~ \E l \in Leafs : Lookup(r, l)
    <3>1. UNCHANGED <<up, disk, conn, wconn, foreign, foreigns, openFaults>>
      BY <1>2, <2>2 DEF Search, Read, FtsBegin, FtsQuery, AnnEnabled, AnnCached, AnnRecheck,
         AnnAnnounce, AnnOpen, LookupEnd, ScanBegin, ScanQuery, GetBegin, GetQuery,
         StatsBegin, StatsQuery, RLockBrain
    <3>2. PICK l \in Steps \ (Holding \cup Writing) :
              pc' = [pc EXCEPT ![r] = l] /\ pc[r] \notin Holding \cup Ended
      BY <1>2, <2>2 DEF Search, Read, FtsBegin, FtsQuery, AnnEnabled, AnnCached, AnnRecheck,
         AnnAnnounce, AnnOpen, LookupEnd, ScanBegin, ScanQuery, GetBegin, GetQuery,
         StatsBegin, StatsQuery, RLockBrain, UseIndex, Steps, Holding, Writing, Ended
    <3>3. QED
      BY <1>1, <3>1, <3>2 DEF HandleQuiet
  <2>3. QED
    BY <2>1, <2>2
<1>3. CASE Acquire(r) \/ Embed(r) \/ LockIngest(r) \/ AnnounceBrain(r) \/ LockBrain(r)
  <2>1. UNCHANGED <<up, disk, conn, wconn, foreign, foreigns, openFaults>>
    BY <1>3 DEF Acquire, Embed, LockIngest, AnnounceBrain, LockBrain
  <2>2. PICK l \in Steps \ Holding :
            /\ pc' = [pc EXCEPT ![r] = l] /\ pc[r] \notin Holding \cup Ended
            /\ l \notin Writing \ {"wClose"}
    BY <1>3 DEF Acquire, Embed, LockIngest, AnnounceBrain, LockBrain, First, Steps, Holding,
       Writing, Ended, LockInv, TypeOK, Reads, Writes
  <2>3. QED
    BY <1>1, <2>1, <2>2 DEF HandleQuiet
<1>4. CASE CloseRead(r)
  <2>1. ~conn'.open /\ UNCHANGED <<up, disk, wconn, foreign, foreigns>>
    BY <1>4, HandleType DEF CloseRead
  <2>2. pc[r] = "wClose" /\ pc' = [pc EXCEPT ![r] = "wOpen"]
    BY <1>4 DEF CloseRead
  <2>3. QED
    BY <1>a, <2>1, <2>2 DEF Handles, Holding, Ended
<1>5. CASE OpenWritable(r)
  <2>1. CASE wconn' = r /\ pc' = [pc EXCEPT ![r] = "wAdd"] /\ ~foreign
    <3>1. UNCHANGED <<up, disk, conn, foreign, foreigns>> /\ pc[r] = "wOpen"
      BY <1>5 DEF OpenWritable
    <3>2. \A s \in Reqs \ {r} : pc[s] \notin Writing
      BY <3>1, Alone DEF Writing, LockInv
    <3>3. \A s \in Reqs : wconn' = s <=> pc'[s] \in Holding
      BY <1>a, <2>1, <3>1, <3>2 DEF Holding, Writing
    <3>4. QED
      BY <1>a, <2>1, <3>1, <3>3 DEF Handles, Writing, Ended
  <2>2. CASE wconn' = wconn /\ pc' = [pc EXCEPT ![r] = "wReopen"]
    <3>1. UNCHANGED <<up, disk, conn, foreign, foreigns>> /\ pc[r] = "wOpen"
      BY <1>5 DEF OpenWritable
    <3>2. QED
      BY <1>a, <2>2, <3>1 DEF Handles, Holding, Writing, Ended
  <2>3. QED
    BY <1>5, <2>1, <2>2 DEF OpenWritable
<1>6. CASE AddLeafs(r) \/ EnsureIndexes(r)
  <2>1. UNCHANGED <<up, conn, wconn, foreign, foreigns>>
    BY <1>6 DEF AddLeafs, EnsureIndexes
  <2>2. PICK l \in {"wIndex", "wDone"} : pc' = [pc EXCEPT ![r] = l] /\ pc[r] \in {"wAdd", "wIndex"}
    BY <1>6 DEF AddLeafs, EnsureIndexes
  <2>3. ~conn.open
    BY <2>2 DEF Handles, Writing
  <2>4. QED
    BY <1>a, <2>1, <2>2, <2>3 DEF Handles, Holding, Ended
<1>7. CASE CloseWrite(r)
  <2>1. UNCHANGED <<up, disk, conn, foreign, foreigns>> /\ wconn' = Nobody
    BY <1>7 DEF CloseWrite
  <2>2. pc[r] = "wDone" /\ pc' = [pc EXCEPT ![r] = "wReopen"] /\ ~conn.open
    BY <1>7 DEF CloseWrite, Handles, Writing
  <2>3. \A s \in Reqs \ {r} : pc[s] \notin Writing
    BY <2>2, Alone DEF Writing, LockInv
  <2>4. QED
    BY <1>a, <2>1, <2>2, <2>3, ServeAssumption DEF Handles, Holding, Writing, Ended
<1>8. CASE Reopen(r)
  <2>1. UNCHANGED <<up, disk, wconn, foreign, foreigns>>
    BY <1>8 DEF Reopen
  <2>2. pc[r] = "wReopen" /\ pc' = [pc EXCEPT ![r] = "done"]
    BY <1>8 DEF Reopen
  <2>3. \A s \in Reqs \ {r} : pc[s] \notin Writing
    BY <2>2, Alone DEF Writing, LockInv
  <2>4. conn'.open => ~foreign /\ conn'.view = disk
    BY <1>8, HandleType DEF Reopen, ReopenRead, LockInv, TypeOK
  <2>5. QED
    BY <1>a, <2>1, <2>2, <2>3, <2>4 DEF Handles, Holding, Writing, Ended
<1>9. QED
  BY <1>2, <1>3, <1>4, <1>5, <1>6, <1>7, <1>8 DEF Serve, Write

LEMMA HandlesClient ==
    ASSUME LockInv, Handles, NEW r \in Reqs, Send(r) \/ Cancel(r)
    PROVE  Handles'
<1>a. pc \in [Reqs -> Steps]
  BY DEF LockInv, TypeOK
<1>1. UNCHANGED <<disk, conn, wconn, foreign, foreigns, up>>
  BY DEF Send, Arrive, Cancel, store, bounds
<1>2. PICK l \in {"slot", "done"} :
          /\ pc' = [pc EXCEPT ![r] = l] /\ pc[r] \in {"new", "slot"}
          /\ ~up => l = "done"
  BY DEF Send, Arrive, Cancel, Goto, Return
<1>3. QED
  BY <1>a, <1>1, <1>2 DEF Handles, Holding, Writing, Ended

LEMMA HandlesWorld ==
    ASSUME LockInv, Handles, Kill \/ Boot \/ ForeignOpen \/ ForeignWrite
    PROVE  Handles'
<1>a. /\ pc \in [Reqs -> Steps] /\ foreigns \in Nat /\ disk \in SUBSET Items
      /\ wconn \in Reqs \cup {Nobody}
  BY DEF LockInv, TypeOK
<1> USE DEF local, bounds, store, locks
<1>1. CASE Kill
  <2>1. \A r \in Reqs : pc'[r] \in Ended
    BY <1>1 DEF Kill, Ended
  <2>2. ~conn'.open /\ wconn' = Nobody /\ UNCHANGED <<foreign, foreigns>>
    BY <1>1, HandleType DEF Kill
  <2>3. QED
    BY <2>1, <2>2, ServeAssumption DEF Handles, Holding, Writing, Ended
<1>2. CASE Boot
  <2>1. conn'.view = disk /\ ~foreign /\ UNCHANGED <<disk, wconn, foreign, foreigns, pc>>
    BY <1>2, <1>a, HandleType DEF Boot
  <2>2. ~up /\ up'
    BY <1>2, Zenon DEF Boot
  <2>3. \A r \in Reqs : pc[r] \in Ended
    BY <2>2 DEF Handles
  <2>4. QED
    BY <2>1, <2>2, <2>3 DEF Handles, Holding, Writing, Ended
<1>3. CASE ForeignOpen
  <2>1. foreigns' # 0 /\ ~conn.open /\ wconn = Nobody
    BY <1>3, <1>a DEF ForeignOpen
  <2>2. UNCHANGED <<up, disk, conn, wconn, pc>>
    BY <1>3 DEF ForeignOpen
  <2>3. QED
    BY <2>1, <2>2 DEF Handles
<1>4. CASE ForeignWrite
  <2>1. foreign /\ ~foreign' /\ UNCHANGED <<up, conn, wconn, pc, foreigns>>
    BY <1>4 DEF ForeignWrite, ForeignClose
  <2>2. QED
    BY <2>1 DEF Handles
<1>5. QED
  BY <1>1, <1>2, <1>3, <1>4

LEMMA HandlesStep == LockInv /\ Handles /\ [Next]_vars => Handles'
<1> SUFFICES ASSUME LockInv, Handles, [Next]_vars PROVE Handles'
  OBVIOUS
<1>1. CASE UNCHANGED vars
  BY <1>1 DEF Handles, vars, bounds, store
<1>2. CASE \E r \in Reqs : Send(r) \/ Cancel(r) \/ Serve(r)
  BY <1>2, HandlesClient, HandlesServe
<1>3. CASE Kill \/ Boot \/ ForeignOpen \/ ForeignWrite
  BY <1>3, HandlesWorld
<1>4. QED
  BY <1>1, <1>2, <1>3 DEF Next, AllAnswered

LEMMA HandlesInit == Init => Handles
<1> SUFFICES ASSUME Init PROVE Handles
  OBVIOUS
<1>1. conn.view = disk /\ disk \in SUBSET Items
  BY HandleType DEF Init, Items
<1>2. up
  BY Zenon DEF Init
<1>3. QED
  BY <1>1, <1>2, ServeAssumption DEF Init, Handles, Holding, Writing, Ended

LEMMA OneHandleHolds == LockInv /\ Handles => OneHandle
<1> SUFFICES ASSUME LockInv, Handles PROVE OneHandle
  OBVIOUS
<1>1. ASSUME conn.open PROVE wconn = Nobody
  BY <1>1 DEF LockInv, TypeOK, Handles, Holding, Writing
<1>2. QED
  BY <1>1 DEF OneHandle, Handles

\* The database file is never opened twice, whatever requests, deaths of the
\* process and other processes of the stack do.
THEOREM FileOpenedOnce == Spec => []OneHandle
<1>1. Init => LockInv /\ Handles
  BY LockInit, HandlesInit
<1>2. LockInv /\ Handles /\ [Next]_vars => LockInv' /\ Handles'
  BY LockStep, HandlesStep
<1>3. QED
  BY <1>1, <1>2, OneHandleHolds, PTL DEF Spec

LEMMA ConnMoves ==
    ASSUME LockInv, [Next]_vars, up, up', conn' # conn
    PROVE  \E r \in Reqs : pc[r] \in Writing
<1> USE DEF local, bounds, store, locks, vars
<1>1. ASSUME NEW r \in Reqs, Serve(r) PROVE pc[r] \in Writing
  <2>1. ~Acquire(r) /\ ~Search(r) /\ ~Read(r)
    BY DEF Acquire, Search, Read, FtsBegin, FtsQuery, AnnEnabled, AnnCached, AnnRecheck,
       AnnAnnounce, AnnOpen, Lookup, LookupEnd, ScanBegin, ScanQuery, GetBegin, GetQuery,
       StatsBegin, StatsQuery, RLockBrain
  <2>2. CloseRead(r) \/ Reopen(r)
    BY <1>1, <2>1 DEF Serve, Write, Embed, LockIngest, AnnounceBrain, LockBrain, OpenWritable,
       AddLeafs, EnsureIndexes, CloseWrite
  <2>3. QED
    BY <2>2 DEF CloseRead, Reopen, Writing
<1>2. ASSUME NEW r \in Reqs PROVE ~Send(r) /\ ~Cancel(r)
  BY DEF Send, Arrive, Cancel
<1>3. ~Kill /\ ~Boot
  BY Zenon DEF Kill, Boot
<1>4. ~ForeignOpen /\ ~ForeignWrite
  BY DEF ForeignOpen, ForeignWrite, ForeignClose
<1>5. QED
  BY <1>1, <1>2, <1>3, <1>4 DEF Next, AllAnswered

\* No request reads through the handle while it is closed or replaced.
THEOREM ReadersKeepHandle == Spec => NoUseAfterClose
<1> DEFINE Kept == (up /\ up' /\ conn' # conn) => NoReader(brainMu)
<1>1. LockInv /\ [Next]_vars => [Kept]_vars
  <2> SUFFICES ASSUME LockInv, [Next]_vars, up, up', conn' # conn PROVE NoReader(brainMu)
    OBVIOUS
  <2>1. PICK r \in Reqs : pc[r] \in Writing
    BY ConnMoves
  <2>2. QED
    BY <2>1, ServeAssumption DEF LockInv, Mutexes
<1>2. QED
  BY <1>1, LockInit, LockStep, PTL DEF Spec, NoUseAfterClose

LEMMA RestoredServe ==
    ASSUME LockInv, Handles, HandleRestored, NEW r \in Reqs, Serve(r)
    PROVE  HandleRestored'
<1>a. brainMu \in RWMutexes /\ r # Nobody /\ openFaults \in Nat
  BY ServeAssumption DEF LockInv, TypeOK
<1> USE DEF Goto, Return, locks, store, local, bounds
<1>1. CASE Reopen(r)
  <2>1. UNCHANGED <<up, foreigns>> /\ (conn' = Opened(disk) \/ foreign \/ openFaults' # 0)
    BY <1>1, <1>a DEF Reopen, ReopenRead
  <2>2. QED
    BY <2>1, HandleType DEF HandleRestored, Handles, LockInv, TypeOK
<1>2. CASE LockBrain(r)
  <2>1. brainMu'.writer # Nobody
    BY <1>2, <1>a, WriterType DEF LockBrain
  <2>2. QED
    BY <2>1 DEF HandleRestored
<1>3. CASE \/ CloseRead(r) \/ OpenWritable(r) \/ AddLeafs(r) \/ EnsureIndexes(r)
           \/ CloseWrite(r)
  <2>1. pc[r] \in Writing /\ brainMu' = brainMu
    BY <1>3 DEF CloseRead, OpenWritable, AddLeafs, EnsureIndexes, CloseWrite, Writing
  <2>2. brainMu'.writer # Nobody
    BY <2>1, <1>a DEF LockInv, Mutexes
  <2>3. QED
    BY <2>2 DEF HandleRestored
<1>4. CASE \/ Acquire(r) \/ Embed(r) \/ LockIngest(r) \/ AnnounceBrain(r)
           \/ Search(r) \/ Read(r)
  <2>1. UNCHANGED <<up, conn, foreigns, openFaults>>
    BY <1>4 DEF Acquire, Embed, LockIngest, AnnounceBrain, Search, Read, FtsBegin, FtsQuery,
       AnnEnabled, AnnCached, AnnRecheck, AnnAnnounce, AnnOpen, Lookup, LookupEnd, ScanBegin,
       ScanQuery, GetBegin, GetQuery, StatsBegin, StatsQuery, RLockBrain
  <2>2. \/ brainMu' = brainMu \/ brainMu' = RLocked(brainMu, r)
        \/ brainMu' = RUnlocked(brainMu, r) \/ brainMu' = Announced(brainMu, r)
    BY <1>4 DEF Acquire, Embed, LockIngest, AnnounceBrain, Search, Read, FtsBegin, FtsQuery,
       AnnEnabled, AnnCached, AnnRecheck, AnnAnnounce, AnnOpen, Lookup, LookupEnd, ScanBegin,
       ScanQuery, GetBegin, GetQuery, StatsBegin, StatsQuery, RLockBrain
  <2>3. brainMu'.writer = brainMu.writer
    BY <2>2, <1>a DEF RLocked, RUnlocked, Announced, RWMutexes
  <2>4. QED
    BY <2>1, <2>3 DEF HandleRestored
<1>5. QED
  BY <1>1, <1>2, <1>3, <1>4 DEF Serve, Write

LEMMA RestoredStep == LockInv /\ Handles /\ HandleRestored /\ [Next]_vars => HandleRestored'
<1> SUFFICES ASSUME LockInv, Handles, HandleRestored, [Next]_vars PROVE HandleRestored'
  OBVIOUS
<1> USE DEF locks, store, local, bounds
<1>1. CASE UNCHANGED vars
  BY <1>1 DEF HandleRestored, vars
<1>2. ASSUME NEW r \in Reqs, Send(r) \/ Cancel(r) PROVE HandleRestored'
  BY <1>2 DEF HandleRestored, Send, Arrive, Cancel
<1>3. CASE Kill
  <2>1. ~up'
    BY <1>3, Zenon DEF Kill
  <2>2. QED
    BY <2>1 DEF HandleRestored
<1>4. CASE Boot
  <2>1. conn'.open
    BY <1>4, HandleType DEF Boot, LockInv, TypeOK
  <2>2. QED
    BY <2>1 DEF HandleRestored
<1>5. CASE ForeignOpen
  <2>1. foreigns' # 0
    BY <1>5 DEF ForeignOpen, LockInv, TypeOK
  <2>2. QED
    BY <2>1 DEF HandleRestored
<1>6. CASE ForeignWrite
  BY <1>6 DEF ForeignWrite, ForeignClose, HandleRestored
<1>7. QED
  BY <1>1, <1>2, <1>3, <1>4, <1>5, <1>6, RestoredServe DEF Next, AllAnswered

\* Every exit path of a write leaves the read handle open, unless another
\* process took the file in between or the reopen itself failed.
THEOREM WritesRestoreHandle == Spec => []HandleRestored
<1>1. Init => LockInv /\ Handles
  BY LockInit, HandlesInit
<1>2. Init => HandleRestored
  BY HandleType DEF Init, HandleRestored, Items
<1>3. LockInv /\ Handles /\ [Next]_vars => LockInv' /\ Handles'
  BY LockStep, HandlesStep
<1>4. QED
  BY <1>1, <1>2, <1>3, RestoredStep, PTL DEF Spec

-----------------------------------------------------------------------------
(* What a read has seen. *)

Searched == {"enabled", "idx", "idxHeld", "idxWant", "idxPend", "lookup", "scan", "scanHeld"}

Data ==
    /\ acked \subseteq disk
    /\ \A r \in Reqs : base[r] \subseteq acked
    /\ \A r \in Reqs : pc[r] \in Writing \cup {"embed", "ingestMu", "wWant", "wPend"}
                        => kind[r] \in Writes
    /\ \A r \in Reqs : pc[r] \in Searched => base[r] \subseteq got[r]
    /\ ReadYourIngest

\* A step of one request that shows it no less than it had.
DataQuiet(r) ==
    /\ UNCHANGED <<base, kind>>
    /\ acked \subseteq acked' /\ acked' \subseteq disk'
    /\ \E l \in Steps :
          /\ pc' = [pc EXCEPT ![r] = l]
          /\ l \in Writing \cup {"embed", "ingestMu", "wWant", "wPend"} => kind[r] \in Writes
          /\ l \in Searched => base[r] \subseteq got'[r]
          /\ (l = "done" /\ out'[r] = "ok" /\ kind[r] \in Reads) => base[r] \subseteq got'[r]
    /\ \A s \in Reqs \ {r} : got'[s] = got[s] /\ out'[s] = out[s]

LEMMA DataQuietKeeps ==
    ASSUME LockInv, Data, NEW r \in Reqs, DataQuiet(r)
    PROVE  Data'
<1>1. PICK l \in Steps :
          /\ pc' = [pc EXCEPT ![r] = l]
          /\ l \in Writing \cup {"embed", "ingestMu", "wWant", "wPend"} => kind[r] \in Writes
          /\ l \in Searched => base[r] \subseteq got'[r]
          /\ (l = "done" /\ out'[r] = "ok" /\ kind[r] \in Reads) => base[r] \subseteq got'[r]
  BY DEF DataQuiet
<1>2. pc \in [Reqs -> Steps]
  BY DEF LockInv, TypeOK
<1>3. /\ UNCHANGED <<base, kind>> /\ acked \subseteq acked' /\ acked' \subseteq disk'
      /\ \A s \in Reqs \ {r} : got'[s] = got[s] /\ out'[s] = out[s]
  BY DEF DataQuiet
<1>4. \A s \in Reqs : pc'[s] = IF s = r THEN l ELSE pc[s]
  BY <1>1, <1>2
<1>5. acked' \subseteq disk' /\ \A s \in Reqs : base'[s] \subseteq acked'
  BY <1>3 DEF Data
<1>6. \A s \in Reqs : pc'[s] \in Writing \cup {"embed", "ingestMu", "wWant", "wPend"}
                      => kind'[s] \in Writes
  BY <1>1, <1>3, <1>4 DEF Data
<1>7. \A s \in Reqs : pc'[s] \in Searched => base'[s] \subseteq got'[s]
  BY <1>1, <1>3, <1>4 DEF Data
<1>8. ReadYourIngest'
  BY <1>1, <1>3, <1>4 DEF Data, ReadYourIngest
<1>9. QED
  BY <1>5, <1>6, <1>7, <1>8 DEF Data

LEMMA DataServe ==
    ASSUME LockInv, Handles, Data, NEW r \in Reqs, Serve(r)
    PROVE  Data'
<1>a. /\ pc \in [Reqs -> Steps] /\ got \in [Reqs -> SUBSET Items] /\ out \in [Reqs -> Outcomes]
      /\ disk \in SUBSET Items /\ acked \in SUBSET Items /\ kind \in [Reqs -> Reads \cup Writes]
      /\ item \in [Reqs -> SUBSET Items]
  BY DEF LockInv, TypeOK
<1>b. acked \subseteq disk /\ base[r] \subseteq acked
  BY DEF Data
<1>c. SUFFICES DataQuiet(r) \/ Data'
  BY DataQuietKeeps
<1> USE DEF Goto, Return, locks, store, local, bounds
<1>1. CASE Acquire(r)
  <2>1. UNCHANGED <<base, kind, acked, disk, got, out>>
    BY <1>1 DEF Acquire
  <2>2. PICK l \in Steps : /\ pc' = [pc EXCEPT ![r] = l]
                           /\ l \notin Writing \cup Searched \cup {"wWant", "wPend", "done"}
                           /\ l \in {"embed", "ingestMu"} => kind[r] \in Writes
    BY <1>1, <1>a DEF Acquire, First, Steps, Writing, Searched, Reads, Writes
  <2>3. QED
    BY <1>b, <2>1, <2>2 DEF DataQuiet
<1>2. CASE \/ FtsBegin(r) \/ ScanBegin(r) \/ GetBegin(r) \/ StatsBegin(r) \/ AnnEnabled(r)
           \/ AnnCached(r) \/ AnnRecheck(r) \/ AnnAnnounce(r) \/ AnnOpen(r)
  <2>1. UNCHANGED <<base, kind, acked, disk, got, out>>
    BY <1>2 DEF FtsBegin, ScanBegin, GetBegin, StatsBegin, RLockBrain, AnnEnabled, AnnCached,
       AnnRecheck, AnnAnnounce, AnnOpen
  <2>2. PICK l \in Steps : /\ pc' = [pc EXCEPT ![r] = l]
                           /\ l \notin Writing \cup {"embed", "ingestMu", "wWant", "wPend", "done"}
                           /\ l \in Searched => pc[r] \in Searched
    BY <1>2 DEF FtsBegin, ScanBegin, GetBegin, StatsBegin, RLockBrain, AnnEnabled, AnnCached,
       AnnRecheck, AnnAnnounce, AnnOpen, UseIndex, Steps, Writing, Searched
  <2>3. QED
    BY <1>b, <2>1, <2>2 DEF DataQuiet, Data
<1>3. CASE FtsQuery(r)
  <2>1. /\ UNCHANGED <<base, kind, acked, disk>>
        /\ \A s \in Reqs \ {r} : got'[s] = got[s] /\ out'[s] = out[s]
    BY <1>3, <1>a DEF FtsQuery
  <2>2. CASE pc' = [pc EXCEPT ![r] = "enabled"] /\ conn.open /\ got'[r] = conn.view
    BY <1>b, <2>1, <2>2 DEF DataQuiet, Handles, Steps, Writing, Searched
  <2>3. CASE pc' = [pc EXCEPT ![r] = "done"] /\ out'[r] # "ok"
    BY <1>b, <2>1, <2>3 DEF DataQuiet, Steps, Writing, Searched
  <2>4. QED
    BY <1>3, <1>a, <2>2, <2>3 DEF FtsQuery
<1>4. ASSUME NEW m \in Leafs, Lookup(r, m) PROVE Data'
  <2>1. UNCHANGED <<base, kind, acked, disk, out, pc>>
    BY <1>4 DEF Lookup
  <2>2. \A s \in Reqs : got[s] \subseteq got'[s]
    BY <1>4, <1>a DEF Lookup
  <2>3. QED
    BY <2>1, <2>2 DEF Data, ReadYourIngest
<1>5. CASE LookupEnd(r) \/ ScanQuery(r)
  <2>1. /\ UNCHANGED <<base, kind, acked, disk>> /\ pc[r] \in Searched
        /\ got[r] \subseteq got'[r]
        /\ \A s \in Reqs \ {r} : got'[s] = got[s] /\ out'[s] = out[s]
    BY <1>5, <1>a DEF LookupEnd, ScanQuery, Searched
  <2>2. \E l \in {"done", "scan"} : pc' = [pc EXCEPT ![r] = l]
    BY <1>5 DEF LookupEnd, ScanQuery
  <2>3. base[r] \subseteq got'[r]
    BY <2>1 DEF Data
  <2>4. QED
    BY <1>b, <2>1, <2>2, <2>3 DEF DataQuiet, Steps, Writing
<1>6. CASE GetQuery(r) \/ StatsQuery(r)
  <2>1. /\ UNCHANGED <<base, kind, acked, disk>> /\ pc' = [pc EXCEPT ![r] = "done"]
        /\ out'[r] = "ok" => conn.open /\ got'[r] = conn.view
        /\ \A s \in Reqs \ {r} : got'[s] = got[s] /\ out'[s] = out[s]
    BY <1>6, <1>a DEF GetQuery, StatsQuery
  <2>2. QED
    BY <1>b, <2>1 DEF DataQuiet, Handles, Steps, Writing, Searched
<1>7. CASE \/ Embed(r) \/ LockIngest(r) \/ AnnounceBrain(r) \/ LockBrain(r) \/ CloseRead(r)
           \/ OpenWritable(r) \/ AddLeafs(r) \/ EnsureIndexes(r) \/ CloseWrite(r)
  <2>1. /\ UNCHANGED <<base, kind, acked, got>> /\ disk \subseteq disk'
        /\ \A s \in Reqs \ {r} : out'[s] = out[s]
    BY <1>7, <1>a DEF Embed, LockIngest, AnnounceBrain, LockBrain, CloseRead, OpenWritable,
       AddLeafs, EnsureIndexes, CloseWrite
  <2>2. pc[r] \in Writing \cup {"embed", "ingestMu", "wWant", "wPend"}
    BY <1>7 DEF Embed, LockIngest, AnnounceBrain, LockBrain, CloseRead, OpenWritable,
       AddLeafs, EnsureIndexes, CloseWrite, Writing
  <2>3. kind[r] \in Writes /\ kind[r] \notin Reads
    BY <2>2 DEF Data, Reads, Writes
  <2>4. \E l \in Steps \ Searched : pc' = [pc EXCEPT ![r] = l]
    BY <1>7 DEF Embed, LockIngest, AnnounceBrain, LockBrain, CloseRead, OpenWritable,
       AddLeafs, EnsureIndexes, CloseWrite, Steps, Searched
  <2>5. QED
    BY <1>b, <2>1, <2>3, <2>4 DEF DataQuiet
<1>8. CASE Reopen(r)
  <2>1. /\ UNCHANGED <<base, kind, got, out, disk>> /\ pc' = [pc EXCEPT ![r] = "done"]
        /\ acked \subseteq acked' /\ acked' \subseteq acked \cup disk /\ pc[r] = "wReopen"
    BY <1>8 DEF Reopen
  <2>2. kind[r] \notin Reads
    BY <2>1 DEF Data, Writing, Reads, Writes
  <2>3. QED
    BY <1>b, <2>1, <2>2 DEF DataQuiet, Steps, Writing, Searched
<1>9. QED
  BY <1>1, <1>2, <1>3, <1>4, <1>5, <1>6, <1>7, <1>8 DEF Serve, Search, Read, Write

LEMMA DataStep == LockInv /\ Handles /\ Data /\ [Next]_vars => Data'
<1> SUFFICES ASSUME LockInv, Handles, Data, [Next]_vars PROVE Data'
  OBVIOUS
<1>a. /\ pc \in [Reqs -> Steps] /\ out \in [Reqs -> Outcomes] /\ kind \in [Reqs -> Reads \cup Writes]
      /\ base \in [Reqs -> SUBSET Items]
  BY DEF LockInv, TypeOK
<1> USE DEF locks, store, local, bounds, Goto, Return
<1>1. CASE UNCHANGED vars
  BY <1>1 DEF Data, ReadYourIngest, vars
<1>2. ASSUME NEW r \in Reqs, NEW k \in Reads \cup Writes, NEW S \in SUBSET Items, Arrive(r, k, S)
      PROVE  Data'
  <2>1. /\ UNCHANGED <<acked, disk, got, out>>
        /\ pc' = [pc EXCEPT ![r] = "slot"] /\ kind' = [kind EXCEPT ![r] = k]
        /\ base' = [base EXCEPT ![r] = acked]
    BY <1>2 DEF Arrive
  <2>2. \A s \in Reqs \ {r} : pc'[s] = pc[s] /\ kind'[s] = kind[s] /\ base'[s] = base[s]
    BY <1>a, <2>1
  <2>3. pc'[r] = "slot" /\ base'[r] = acked
    BY <1>a, <2>1
  <2>4. /\ acked' \subseteq disk' /\ \A s \in Reqs : base'[s] \subseteq acked'
        /\ \A s \in Reqs : pc'[s] \in Searched => base'[s] \subseteq got'[s]
    BY <2>1, <2>2, <2>3 DEF Data, Searched
  <2>5. \A s \in Reqs : pc'[s] \in Writing \cup {"embed", "ingestMu", "wWant", "wPend"}
                        => kind'[s] \in Writes
    BY <2>2, <2>3 DEF Data, Writing
  <2>6. ReadYourIngest'
    BY <2>1, <2>2, <2>3 DEF Data, ReadYourIngest
  <2>7. QED
    BY <2>4, <2>5, <2>6 DEF Data
<1>3. ASSUME NEW r \in Reqs, Cancel(r) PROVE Data'
  <2>1. /\ UNCHANGED <<base, kind, acked, disk, got>> /\ pc' = [pc EXCEPT ![r] = "done"]
        /\ out' = [out EXCEPT ![r] = "cancelled"]
    BY <1>3 DEF Cancel
  <2>2. QED
    BY <1>a, <2>1, DataQuietKeeps DEF DataQuiet, Data, Steps, Writing, Searched
<1>4. CASE Kill
  <2>1. UNCHANGED <<base, kind, acked, disk, got>>
    BY <1>4 DEF Kill
  <2>2. \A s \in Reqs : pc'[s] = IF pc[s] = "new" THEN "new" ELSE "done"
    BY <1>4 DEF Kill
  <2>3. \A s \in Reqs : out'[s] = "ok" => pc[s] \in Ended /\ out[s] = "ok"
    BY <1>4 DEF Kill
  <2>4. ReadYourIngest'
    BY <2>1, <2>2, <2>3 DEF Data, ReadYourIngest, Ended
  <2>5. QED
    BY <2>1, <2>2, <2>4 DEF Data, Writing, Searched
<1>5. CASE Boot \/ ForeignOpen \/ ForeignWrite
  <2>1. UNCHANGED <<base, kind, acked, got, out, pc>> /\ disk \subseteq disk'
    BY <1>5 DEF Boot, ForeignOpen, ForeignWrite, ForeignClose
  <2>2. QED
    BY <2>1 DEF Data, ReadYourIngest
<1>6. QED
  BY <1>1, <1>2, <1>3, <1>4, <1>5, DataServe DEF Next, AllAnswered, Send

\* A read that succeeds has seen every write acknowledged before it was sent.
THEOREM ReadsSeeAckedWrites == Spec => []ReadYourIngest
<1>1. Init => LockInv /\ Handles
  BY LockInit, HandlesInit
<1>2. Init => Data
  BY DEF Init, Data, ReadYourIngest, Writing, Searched
<1>3. LockInv /\ Handles /\ [Next]_vars => LockInv' /\ Handles'
  BY LockStep, HandlesStep
<1>4. Data => ReadYourIngest
  BY DEF Data
<1>5. QED
  BY <1>1, <1>2, <1>3, <1>4, DataStep, PTL DEF Spec

\* The vector index is opened once in the life of the process.
THEOREM IndexOpenedOnce == Spec => OpenedOnce
<1> DEFINE Once == (up /\ up' /\ ann # Unopened) => ann' = ann
<1>1. [Next]_vars => [Once]_vars
  <2> SUFFICES ASSUME [Next]_vars, up, up', ann # Unopened PROVE ann' = ann
    OBVIOUS
  <2> USE DEF locks, store, local, bounds, vars
  <2>1. ASSUME NEW r \in Reqs, Serve(r) PROVE ann' = ann
    BY <2>1 DEF Serve, Acquire, Search, Read, Write, FtsBegin, FtsQuery, AnnEnabled, AnnCached,
       AnnRecheck, AnnAnnounce, AnnOpen, Lookup, LookupEnd, ScanBegin, ScanQuery, GetBegin,
       GetQuery, StatsBegin, StatsQuery, RLockBrain, Embed, LockIngest, AnnounceBrain,
       LockBrain, CloseRead, OpenWritable, AddLeafs, EnsureIndexes, CloseWrite, Reopen
  <2>2. ASSUME NEW r \in Reqs, Send(r) \/ Cancel(r) PROVE ann' = ann
    BY <2>2 DEF Send, Arrive, Cancel
  <2>3. ~Kill /\ ~Boot
    BY Zenon DEF Kill, Boot
  <2>4. ForeignOpen \/ ForeignWrite => ann' = ann
    BY DEF ForeignOpen, ForeignWrite, ForeignClose
  <2>5. QED
    BY <2>1, <2>2, <2>3, <2>4 DEF Next, AllAnswered
<1>2. QED
  BY <1>1, PTL DEF Spec, OpenedOnce
=============================================================================
