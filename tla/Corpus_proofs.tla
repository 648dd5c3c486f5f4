--------------------------- MODULE Corpus_proofs ---------------------------
(***************************************************************************)
(* Proofs about what becomes of the texts: CanonStore holds what the       *)
(* source holds, a program of CorpusWrite that succeeds has stored and     *)
(* linked what it read, and the tables of DocTables are whole.             *)
(***************************************************************************)
EXTENDS CanonStore, CorpusWrite, DocTables, GraphImport, Lists_proofs, FiniteSetTheorems, WellFoundedInduction, TLAPS

-----------------------------------------------------------------------------
(* CanonStore. *)

CanonTypes ==
    /\ feed \in Feeds /\ at \in DOMAIN feed
    /\ cpc \in {"idle", "write", "file", "manifest"}
    /\ cpc = "idle" => asked = {} /\ wrote = 0
    /\ cpc # "idle" => offered \in Seq(ToSet(feed[at])) /\ asked = Messages(feed[at])
    /\ cpc \in {"file", "manifest"} =>
         offered # <<>> /\ Head(offered).ok /\ current = Canonical(Head(offered))

FromFeed(e) ==
    /\ e = [id |-> e.msg.id, msg |-> e.msg]
    /\ \E i \in DOMAIN feed : i <= at /\ e.msg \in Messages(feed[i])
Only(m, ms) == \A n \in ms : n.id = m.id => n = m
PathAlone(m) == \A n \in Ever : n.id # m.id => messagePath(n) # messagePath(m)
HasFile(m) == \E f \in canon : f.path = messagePath(m) /\ ~f.torn /\ f.msg = m
(* The source has since had another message of that id.                       *)
Outdated(m) ==
    \E i, j \in DOMAIN feed :
        i <= j /\ j <= at /\ m \in Messages(feed[i]) /\ ~Only(m, Messages(feed[j]))

(* What the manifest records is in its file, until the source has another     *)
(* message of its id.                                                         *)
FilesAreKept == \A e \in manifest : FromFeed(e) /\ (PathAlone(e.msg) => HasFile(e.msg) \/ Outdated(e.msg))
InHand ==
    /\ cpc = "file" => ~Recorded(current)
    /\ cpc = "manifest" => HasFile(current)
DoneSoFar == cpc # "idle" => \A m \in asked : Only(m, asked) => Recorded(m) \/ m \in Messages(offered)
NothingNew ==
    quiet /\ (\A m \in Messages(feed[at]) : Only(m, Messages(feed[at]))) =>
        wrote = 0 /\ cpc \in {"idle", "write"} /\ \A m \in Messages(feed[at]) : Recorded(m)
CanonInv == CanonTypes /\ FilesAreKept /\ InHand /\ DoneSoFar /\ NothingNew

(* A text that the source has replaced does not return to it.                 *)
NothingReturns ==
    \A f \in Feeds : \A i, j, k \in DOMAIN f :
        i <= j /\ j < k => \A m \in Messages(f[i]) \cap Messages(f[k]) : Only(m, Messages(f[j]))

LEMMA NoMessages == Messages(<<>>) = {}
<1>1. DOMAIN <<>> = {}
  OBVIOUS
<1>2. QED
  BY <1>1 DEF Messages, ToSet

LEMMA InTheFeed ==
    ASSUME CanonTypes PROVE feed[at] \in Seq(ToSet(feed[at])) /\ at \in Nat /\ DOMAIN feed \subseteq Nat
<1>1. Len(feed) \in Nat /\ DOMAIN feed = 1 .. Len(feed) /\ \A i \in DOMAIN feed : feed[i] \in Seq(ToSet(feed[i]))
  BY CanonAssumption DEF CanonTypes
<1>2. QED
  BY <1>1 DEF CanonTypes

LEMMA CurrentIsAsked ==
    ASSUME CanonTypes, cpc \in {"file", "manifest"}
    PROVE  current \in Messages(feed[at]) /\ Messages(offered) = {current} \cup Messages(Tail(offered))
<1>1. /\ offered \in Seq(ToSet(feed[at])) /\ offered # <<>> /\ Head(offered).ok
      /\ current = Canonical(Head(offered))
  BY DEF CanonTypes
<1>2. Head(offered) \in ToSet(feed[at]) /\ ToSet(offered) = {Head(offered)} \cup ToSet(Tail(offered))
  BY <1>1, HeadAndTail
<1>3. QED
  BY <1>1, <1>2 DEF Messages

(* A file is replaced, perhaps by a torn one.                                 *)
LEMMA ReplaceKeeps ==
    ASSUME CanonInv, cpc = "file", NEW torn \in BOOLEAN, canon' = Replace(current, torn), torn => ~Recorded(current),
           UNCHANGED <<feed, at, manifest>>
    PROVE  FilesAreKept'
<1> SUFFICES ASSUME NEW e \in manifest, PathAlone(e.msg) PROVE HasFile(e.msg)' \/ Outdated(e.msg)'
  BY DEF CanonInv, FilesAreKept, FromFeed, PathAlone, Ever
<1>1. FromFeed(e) /\ (HasFile(e.msg) \/ Outdated(e.msg))
  BY DEF CanonInv, FilesAreKept
<1>2. Outdated(e.msg) => Outdated(e.msg)'
  BY DEF Outdated
<1>3. current \in Messages(feed[at]) /\ at \in DOMAIN feed /\ at \in Nat
  BY CurrentIsAsked, InTheFeed DEF CanonInv, CanonTypes
<1>4. CASE HasFile(e.msg) /\ messagePath(current) # messagePath(e.msg)
  <2>1. PICK f \in canon : f.path = messagePath(e.msg) /\ ~f.torn /\ f.msg = e.msg
    BY <1>4 DEF HasFile
  <2>2. f \in canon'
    BY <1>4, <2>1 DEF Replace
  <2>3. QED
    BY <2>1, <2>2 DEF HasFile
<1>5. CASE HasFile(e.msg) /\ messagePath(current) = messagePath(e.msg)
  <2>1. current.id = e.msg.id
    BY <1>3, <1>5 DEF PathAlone, Ever
  <2>2. CASE current = e.msg
    <3>1. Recorded(current)
      BY <1>1, <2>2 DEF FromFeed, Recorded
    <3>2. QED
      BY <3>1 DEF CanonInv, InHand
  <2>3. CASE current # e.msg
    <3>1. PICK i \in DOMAIN feed : i <= at /\ e.msg \in Messages(feed[i])
      BY <1>1 DEF FromFeed
    <3>2. ~Only(e.msg, Messages(feed[at])) /\ at <= at
      BY <1>3, <2>1, <2>3 DEF Only
    <3>3. Outdated(e.msg)
      BY <1>3, <3>1, <3>2 DEF Outdated
    <3>4. QED
      BY <1>2, <3>3
  <2>4. QED
    BY <2>2, <2>3
<1>6. QED
  BY <1>1, <1>2, <1>4, <1>5

LEMMA BeginWaveKeeps == ASSUME CanonInv, BeginWave PROVE CanonInv'
<1>1. CanonTypes'
  BY InTheFeed DEF CanonInv, CanonTypes, BeginWave, sourceVars
<1>2. FilesAreKept'
  BY DEF CanonInv, FilesAreKept, FromFeed, PathAlone, Ever, HasFile, Outdated, BeginWave, sourceVars
<1>3. DoneSoFar'
  BY DEF DoneSoFar, BeginWave, sourceVars
<1>4. NothingNew'
  BY DEF CanonInv, NothingNew, Recorded, BeginWave, sourceVars
<1>5. QED
  BY <1>1, <1>2, <1>3, <1>4 DEF CanonInv, InHand, BeginWave

LEMMA WriteKeeps == ASSUME CanonInv, Write PROVE CanonInv'
<1>1. /\ offered \in Seq(ToSet(feed[at])) /\ offered # <<>> /\ asked = Messages(feed[at])
      /\ UNCHANGED <<feed, at, canon, manifest, asked, wrote, quiet>>
  BY DEF CanonInv, CanonTypes, Write, sourceVars
<1>2. /\ Tail(offered) \in Seq(ToSet(feed[at])) /\ Head(offered) \in ToSet(feed[at])
      /\ ToSet(offered) = {Head(offered)} \cup ToSet(Tail(offered))
  BY <1>1, HeadAndTail
<1>3. FilesAreKept'
  BY <1>1 DEF CanonInv, FilesAreKept, FromFeed, PathAlone, Ever, HasFile, Outdated
<1>4. CASE (~Head(offered).ok \/ Recorded(Canonical(Head(offered)))) /\ offered' = Tail(offered) /\ cpc' = "write"
  <2>1. CanonTypes'
    BY <1>1, <1>2, <1>4 DEF CanonInv, CanonTypes, Write
  <2>2. DoneSoFar'
    <3>1. \A m \in Messages(offered) : Recorded(m) \/ m \in Messages(Tail(offered))
      BY <1>2, <1>4 DEF Messages
    <3>2. QED
      BY <1>1, <1>4, <3>1 DEF CanonInv, DoneSoFar, Recorded, Write
  <2>3. NothingNew'
    BY <1>1, <1>4 DEF CanonInv, NothingNew, Recorded
  <2>4. QED
    BY <1>3, <1>4, <2>1, <2>2, <2>3 DEF CanonInv, InHand
<1>5. CASE /\ Head(offered).ok /\ ~Recorded(Canonical(Head(offered)))
           /\ cpc' = "file" /\ current' = Canonical(Head(offered)) /\ UNCHANGED offered
  <2>1. CanonTypes'
    BY <1>1, <1>5 DEF CanonInv, CanonTypes
  <2>2. DoneSoFar'
    BY <1>1, <1>5 DEF CanonInv, DoneSoFar, Recorded, Write
  <2>3. NothingNew'
    <3>1. Canonical(Head(offered)) \in Messages(feed[at])
      BY <1>2, <1>5 DEF Messages
    <3>2. QED
      BY <1>1, <1>5, <3>1 DEF CanonInv, NothingNew, Recorded
  <2>4. InHand'
    BY <1>1, <1>5 DEF InHand, Recorded
  <2>5. QED
    BY <1>3, <2>1, <2>2, <2>3, <2>4 DEF CanonInv
<1>6. QED
  BY <1>4, <1>5 DEF Write

LEMMA WriteFileKeeps == ASSUME CanonInv, WriteFile PROVE CanonInv'
<1>1. CanonTypes'
  BY DEF CanonInv, CanonTypes, WriteFile, sourceVars
<1>2. FilesAreKept'
  BY ReplaceKeeps DEF WriteFile, sourceVars
<1>3. InHand'
  <2>1. [path |-> messagePath(current), torn |-> FALSE, msg |-> current] \in canon' /\ current' = current
    BY DEF WriteFile, Replace
  <2>2. HasFile(current)'
    BY <2>1 DEF HasFile
  <2>3. QED
    BY <2>2 DEF InHand, WriteFile
<1>4. DoneSoFar'
  BY DEF CanonInv, DoneSoFar, Recorded, WriteFile
<1>5. NothingNew'
  BY DEF CanonInv, NothingNew, Recorded, WriteFile, sourceVars
<1>6. QED
  BY <1>1, <1>2, <1>3, <1>4, <1>5 DEF CanonInv

LEMMA SaveManifestKeeps == ASSUME CanonInv, SaveManifest PROVE CanonInv'
<1>1. /\ current \in Messages(feed[at]) /\ Messages(offered) = {current} \cup Messages(Tail(offered))
      /\ asked = Messages(feed[at]) /\ HasFile(current) /\ at \in DOMAIN feed /\ at \in Nat
      /\ UNCHANGED <<feed, at, canon, asked, wrote, quiet>>
      /\ manifest' = Record(current) /\ offered' = Tail(offered) /\ cpc' = "write"
  BY CurrentIsAsked, InTheFeed DEF CanonInv, CanonTypes, InHand, SaveManifest, sourceVars
<1>2. CanonTypes'
  <2>1. Tail(offered) \in Seq(ToSet(feed[at]))
    BY HeadAndTail DEF CanonInv, CanonTypes, SaveManifest
  <2>2. QED
    BY <1>1, <2>1 DEF CanonInv, CanonTypes
<1>3. FilesAreKept'
  <2> SUFFICES ASSUME NEW e \in manifest'
               PROVE  FromFeed(e)' /\ (PathAlone(e.msg)' => HasFile(e.msg)' \/ Outdated(e.msg)')
    BY DEF FilesAreKept
  <2>1. CASE e \in manifest
    BY <1>1, <2>1 DEF CanonInv, FilesAreKept, FromFeed, PathAlone, Ever, HasFile, Outdated
  <2>2. CASE e = [id |-> current.id, msg |-> current]
    BY <1>1, <2>2 DEF FromFeed, HasFile
  <2>3. QED
    BY <1>1, <2>1, <2>2 DEF Record
<1>4. DoneSoFar'
  <2> SUFFICES ASSUME NEW m \in asked, Only(m, asked)
               PROVE  Recorded(m)' \/ m \in Messages(Tail(offered))
    BY <1>1 DEF DoneSoFar
  <2>1. m.id = current.id => m = current
    BY <1>1 DEF Only
  <2>2. CASE m = current
    BY <1>1, <2>2 DEF Recorded, Record
  <2>3. CASE m # current
    <3>1. Recorded(m) \/ m \in Messages(Tail(offered))
      BY <1>1, <2>3 DEF CanonInv, DoneSoFar, SaveManifest
    <3>2. Recorded(m) => Recorded(m)'
      BY <1>1, <2>1, <2>3 DEF Recorded, Record
    <3>3. QED
      BY <3>1, <3>2
  <2>4. QED
    BY <2>2, <2>3
<1>5. NothingNew'
  BY <1>1 DEF CanonInv, NothingNew, SaveManifest
<1>6. QED
  BY <1>1, <1>2, <1>3, <1>4, <1>5 DEF CanonInv, InHand

LEMMA WaveEndsKeeps == ASSUME CanonInv, WaveEnds PROVE CanonInv'
<1>1. CanonTypes'
  BY DEF CanonInv, CanonTypes, WaveEnds, sourceVars
<1>2. FilesAreKept'
  BY DEF CanonInv, FilesAreKept, FromFeed, PathAlone, Ever, HasFile, Outdated, WaveEnds, sourceVars
<1>3. NothingNew'
  <2>1. \A m \in Messages(feed[at]) : Only(m, Messages(feed[at])) => Recorded(m)
    BY NoMessages DEF CanonInv, CanonTypes, DoneSoFar, WaveEnds
  <2>2. QED
    BY <2>1 DEF NothingNew, Recorded, WaveEnds, sourceVars
<1>4. QED
  BY <1>1, <1>2, <1>3 DEF CanonInv, InHand, DoneSoFar, WaveEnds

LEMMA WaveFailsKeeps == ASSUME CanonInv, WaveFails PROVE CanonInv'
<1>1. CanonTypes'
  BY DEF CanonInv, CanonTypes, WaveFails, sourceVars
<1>2. FilesAreKept'
  <2>1. CASE UNCHANGED canon
    BY <2>1 DEF CanonInv, FilesAreKept, FromFeed, PathAlone, Ever, HasFile, Outdated, WaveFails, sourceVars
  <2>2. CASE cpc = "file" /\ canon' = Replace(current, TRUE)
    BY <2>2, ReplaceKeeps DEF CanonInv, InHand, WaveFails, sourceVars
  <2>3. QED
    BY <2>1, <2>2 DEF WaveFails
<1>3. QED
  BY <1>1, <1>2 DEF CanonInv, InHand, DoneSoFar, NothingNew, WaveFails

LEMMA SourceChangesKeeps == ASSUME CanonInv, SourceChanges PROVE CanonInv'
<1>1. CanonTypes'
  <2>1. Len(feed) \in Nat /\ DOMAIN feed = 1 .. Len(feed)
    BY CanonAssumption DEF CanonInv, CanonTypes
  <2>2. \A n \in Nat : \A i \in 1 .. n : i < n => i + 1 \in 1 .. n
    OBVIOUS
  <2>3. at' \in DOMAIN feed'
    BY <2>1, <2>2 DEF CanonInv, CanonTypes, SourceChanges
  <2>4. QED
    BY <2>3 DEF CanonInv, CanonTypes, SourceChanges
<1>2. FilesAreKept'
  <2>1. \A i \in DOMAIN feed : i <= at => i <= at'
    <3>1. \A i, n \in Nat : i <= n => i <= n + 1
      OBVIOUS
    <3>2. QED
      BY <3>1, InTheFeed DEF CanonInv, SourceChanges
  <2>2. QED
    BY <2>1 DEF CanonInv, FilesAreKept, FromFeed, PathAlone, Ever, HasFile, Outdated, SourceChanges
<1>3. QED
  BY <1>1, <1>2 DEF CanonInv, InHand, DoneSoFar, NothingNew, SourceChanges

LEMMA CanonStep == ASSUME CanonInv, CanonNext PROVE CanonInv'
<1>1. CASE LoadManifestEmpty
  BY <1>1 DEF CanonInv, CanonTypes, FilesAreKept, InHand, DoneSoFar, NothingNew, LoadManifestEmpty, sourceVars
<1>2. QED
  BY <1>1, BeginWaveKeeps, WriteKeeps, WriteFileKeeps, SaveManifestKeeps, WaveEndsKeeps, WaveFailsKeeps,
     SourceChangesKeeps DEF CanonNext

(* After every wave that ends well the store holds the messages of the source *)
(* that share neither id nor path with another, whatever waves failed before; *)
(* and if all ids are unique a wave after it writes nothing as long as        *)
(* nothing has changed (store.go, Store.Write).  NothingReturns is needed: a  *)
(* text that was replaced by a wave that died before it saved the manifest    *)
(* is still recorded, and is skipped when the source returns to it.           *)
THEOREM StoreFollowsSource ==
    ASSUME NothingReturns PROVE CanonInit /\ [][CanonNext]_canonVars => []CanonFollows
<1>1. CanonInit => CanonInv
  <2> SUFFICES ASSUME CanonInit PROVE CanonInv
    OBVIOUS
  <2>1. at \in DOMAIN feed
    <3>1. \A n \in Nat \ {0} : 1 \in 1 .. n
      OBVIOUS
    <3>2. QED
      BY <3>1, CanonAssumption DEF CanonInit
  <2>2. QED
    BY <2>1 DEF CanonInit, CanonInv, CanonTypes, FilesAreKept, InHand, DoneSoFar, NothingNew
<1>2. CanonInv /\ [CanonNext]_canonVars => CanonInv'
  <2>1. CanonInv /\ UNCHANGED canonVars => CanonInv'
    BY DEF CanonInv, CanonTypes, FilesAreKept, FromFeed, PathAlone, Ever, HasFile, Outdated, InHand, DoneSoFar,
           NothingNew, Recorded, canonVars
  <2>2. QED
    BY <2>1, CanonStep
<1>3. CanonInv => CanonFollows
  <2> SUFFICES ASSUME CanonInv PROVE WaveIsStored /\ IdleWaveIsQuiet
    BY DEF CanonFollows
  <2>1. WaveIsStored
    <3> SUFFICES ASSUME cpc = "write", offered = <<>>, NEW m \in asked, AloneAtItsPath(m) PROVE m \in Read
      BY DEF WaveIsStored
    <3>1. asked = Messages(feed[at]) /\ PathAlone(m) /\ Only(m, asked)
      BY DEF CanonInv, CanonTypes, AloneAtItsPath, PathAlone, Only
    <3>2. Recorded(m)
      BY <3>1, NoMessages DEF CanonInv, DoneSoFar
    <3>3. HasFile(m) \/ Outdated(m)
      <4> DEFINE e == [id |-> m.id, msg |-> m]
      <4>1. e \in manifest /\ e.msg = m
        BY <3>2 DEF Recorded
      <4> HIDE DEF e
      <4>2. QED
        BY <3>1, <4>1 DEF CanonInv, FilesAreKept
    <3>4. ~Outdated(m)
      <4> SUFFICES ASSUME NEW i \in DOMAIN feed, NEW j \in DOMAIN feed, i <= j, j <= at, m \in Messages(feed[i])
                   PROVE  Only(m, Messages(feed[j]))
        BY DEF Outdated
      <4>1. CASE j = at
        BY <3>1, <4>1
      <4>2. CASE j < at
        BY <3>1, <4>2 DEF NothingReturns, CanonInv, CanonTypes
      <4>3. \A a, b \in Nat : a <= b => a < b \/ a = b
        OBVIOUS
      <4>4. QED
        BY <4>1, <4>2, <4>3, InTheFeed DEF CanonInv
    <3>5. QED
      BY <3>3, <3>4 DEF HasFile, Read
  <2>2. IdleWaveIsQuiet
    <3>1. CASE cpc = "idle"
      BY <3>1 DEF IdleWaveIsQuiet, CanonInv, CanonTypes
    <3>2. CASE cpc # "idle"
      BY <3>2 DEF IdleWaveIsQuiet, CanonInv, CanonTypes, NothingNew, Only
    <3>3. QED
      BY <3>1, <3>2
  <2>3. QED
    BY <2>1, <2>2
<1>4. QED
  BY <1>1, <1>2, <1>3, PTL

-----------------------------------------------------------------------------
(* CorpusWrite. *)

Late == {"stream", "chunk", "embed", "batch", "link", "facts", "fts", "done"}

CorpusTypes ==
    /\ corpus \in Corpora /\ cmd \in Commands
    /\ kb \in [file : BOOLEAN, leafs : SUBSET Keys, emb : [Keys -> Keys \cup {NoEmb}],
               linked : SUBSET Keys, fts : {"none", "ok", "orphan"}]
    /\ pc \in Late \cup {"idle", "count", "check", "remove", "open"}
    /\ input \in Seq(Keys) /\ buf \in Seq(Keys) /\ unlinked \in Seq(Keys)
    /\ next \in Nat \ {0} /\ written \in Nat /\ streamed \in Nat /\ faults \in Nat
    /\ seen \in SUBSET Keys

(* What the variables of a chunk hold at each step.                           *)
ChunkShape ==
    /\ pc \in {"count", "check", "remove", "open"} => buf = <<>> /\ written = 0 /\ streamed = 0 /\ seen = {}
    /\ pc \notin {"idle", "batch", "link"} => next = 1
    /\ pc \notin {"idle", "link"} => unlinked = <<>>
    /\ pc \in {"facts", "fts", "done"} => buf = <<>>
    /\ pc \in {"batch", "link"} => next <= Len(buf) + 1
    /\ pc = "link" => Len(unlinked) <= Batch
    /\ pc \in {"embed", "batch", "link"} =>
         DOMAIN result = DOMAIN buf /\ \A i \in DOMAIN buf : result[i] \in {NoEmb, buf[i]}

(* Every leaf that was taken is stored, or waits in the chunk.                *)
Waiting == {buf[i] : i \in next .. Len(buf)}
AllStored ==
    pc \in Late => /\ seen \subseteq kb.leafs \cup Waiting
                   /\ IF cmd.skip THEN existing \subseteq kb.leafs ELSE existing = {}
AllLinked == pc \in Late /\ ~cmd.skip => seen \subseteq kb.linked \cup ToSet(unlinked) \cup Waiting

(* Leafs that will never be linked were left by a failure, a batch each.      *)
Owed == Unlinked \ (IF pc = "link" THEN ToSet(unlinked) ELSE {})
OwedIsPaid == Cardinality(Owed) <= Batch * faults

Fresh == pc \in Late /\ cmd.tool = "index" /\ ~cmd.skip
AllCounted == Fresh => written + Len(unlinked) + ((Len(buf) + 1) - next) = Cardinality(seen)

(* The stream that was counted is the stream that is read.                    *)
Taken(s) ==
    /\ streamed <= Len(s) /\ Len(input) = Len(s) - streamed
    /\ \A j \in 1 .. Len(input) : input[j] = s[streamed + j]
    /\ seen = {s[i] : i \in 1 .. streamed}
    /\ cmd.limit > 0 => streamed <= cmd.limit
    /\ pc \in {"facts", "fts", "done"} => streamed = Len(s) \/ LimitReached
SameStream ==
    same /\ cmd.tool = "index" =>
        /\ pc \in {"check", "remove", "open"} => total = CountCorpus(Stream(corpus, "index"), cmd.limit)
        /\ pc \in Late => \E s \in Seq(Keys) : total = CountCorpus(s, cmd.limit) /\ Taken(s)

CorpusInv ==
    CorpusTypes /\ ChunkShape /\ OwnEmbedding /\ AllStored /\ AllLinked /\ OwedIsPaid /\ AllCounted /\ SameStream

(* What is owed stays within its bound as long as nothing is added to it, or  *)
(* a failure adds the batch that was being linked.                            *)
LEMMA OwedStays ==
    ASSUME CorpusTypes, OwedIsPaid, faults' \in Nat, faults <= faults', Owed' \subseteq Owed
    PROVE  OwedIsPaid'
<1>1. Owed \subseteq Keys /\ IsFiniteSet(Keys)
  BY CorpusAssumption DEF CorpusTypes, Owed, Unlinked
<1>2. IsFiniteSet(Owed)
  BY <1>1, FS_Subset
<1>3. IsFiniteSet(Owed') /\ Cardinality(Owed)' <= Cardinality(Owed) /\ Cardinality(Owed) \in Nat /\ Cardinality(Owed)' \in Nat
  BY <1>2, FS_Subset, FS_CardinalityType
<1>4. Batch * faults <= Batch * faults' /\ Batch * faults \in Nat /\ Batch * faults' \in Nat
  <2>1. \A b, f, g \in Nat : f <= g => b * f <= b * g /\ b * f \in Nat /\ b * g \in Nat
    OBVIOUS
  <2>2. QED
    BY <2>1, CorpusAssumption DEF CorpusTypes
<1>5. QED
  <2>1. \A a, b, c, d \in Nat : a <= b /\ b <= c /\ c <= d => a <= d
    OBVIOUS
  <2>2. QED
    BY <1>3, <1>4, <2>1 DEF OwedIsPaid

LEMMA OwedGrows ==
    ASSUME CorpusInv, pc = "link", faults' = faults + 1, Owed' \subseteq Owed \cup ToSet(unlinked)
    PROVE  OwedIsPaid'
<1>1. /\ Owed \subseteq Keys /\ IsFiniteSet(Keys) /\ faults \in Nat /\ Batch \in Nat
      /\ unlinked \in Seq(Keys) /\ Len(unlinked) <= Batch
  BY CorpusAssumption DEF CorpusInv, CorpusTypes, ChunkShape, Owed, Unlinked
<1>2. IsFiniteSet(Owed)
  BY <1>1, FS_Subset
<1>3. /\ IsFiniteSet(ToSet(unlinked)) /\ Cardinality(ToSet(unlinked)) \in Nat /\ Len(unlinked) \in Nat
      /\ Cardinality(ToSet(unlinked)) <= Len(unlinked)
  BY <1>1, SetIsShort
<1>4. /\ IsFiniteSet(Owed \cup ToSet(unlinked)) /\ Cardinality(Owed) \in Nat
      /\ Cardinality(Owed \cup ToSet(unlinked)) \in Nat
      /\ Cardinality(Owed \cup ToSet(unlinked)) <= Cardinality(Owed) + Cardinality(ToSet(unlinked))
  BY <1>2, <1>3, UnionCount
<1>5. Cardinality(Owed)' \in Nat /\ Cardinality(Owed)' <= Cardinality(Owed \cup ToSet(unlinked))
  BY <1>4, FS_Subset, FS_CardinalityType
<1>6. Batch * (faults + 1) = Batch * faults + Batch /\ Batch * faults \in Nat
  <2>1. \A b, f \in Nat : b * (f + 1) = b * f + b /\ b * f \in Nat
    OBVIOUS
  <2>2. QED
    BY <1>1, <2>1
<1>7. Cardinality(Owed) <= Batch * faults
  BY DEF CorpusInv, OwedIsPaid
<1>8. \A a, b, c, d, e, f, g \in Nat : a <= b /\ b <= c + d /\ d <= e /\ e <= f /\ c <= g => a <= g + f
  OBVIOUS
<1>9. Cardinality(Owed)' <= Batch * faults + Batch
  BY <1>1, <1>3, <1>4, <1>5, <1>6, <1>7, <1>8
<1>10. QED
  BY <1>6, <1>9 DEF OwedIsPaid

LEMMA GivesUp ==
    ASSUME CorpusInv, Exit, UNCHANGED corpus, OwnEmbedding',
           faults' \in {faults, faults + 1}, pc = "link" => faults' = faults + 1,
           kb' \in [file : BOOLEAN, leafs : SUBSET Keys, emb : [Keys -> Keys \cup {NoEmb}],
                    linked : SUBSET Keys, fts : {"none", "ok", "orphan"}],
           kb'.leafs \subseteq kb.leafs \cup FactKeys, kb.linked \subseteq kb'.linked
    PROVE  CorpusInv'
<1>1. CorpusTypes'
  <2>1. faults' \in Nat
    BY DEF CorpusInv, CorpusTypes
  <2>2. QED
    BY <2>1 DEF CorpusInv, CorpusTypes, Exit, passState, chunkState
<1>2. OwedIsPaid'
  <2>1. CASE pc = "link"
    <3>1. Owed' \subseteq Owed \cup ToSet(unlinked) /\ faults' = faults + 1
      BY <2>1 DEF Owed, Unlinked, Exit
    <3>2. QED
      BY <2>1, <3>1, OwedGrows
  <2>2. CASE pc # "link"
    <3>1. Owed' \subseteq Owed
      BY <2>2 DEF Owed, Unlinked, Exit
    <3>2. faults' \in Nat /\ faults <= faults'
      BY DEF CorpusInv, CorpusTypes
    <3>3. QED
      BY <3>1, <3>2, OwedStays DEF CorpusInv
  <2>3. QED
    BY <2>1, <2>2
<1>3. QED
  BY <1>1, <1>2 DEF CorpusInv, ChunkShape, AllStored, AllLinked, AllCounted, Fresh, SameStream, Late, Exit

(* What the other steps leave as it is.                                       *)
LEMMA GivesUpUnchanged ==
    ASSUME CorpusInv, Exit, UNCHANGED <<corpus, kb>>, faults' \in {faults, faults + 1},
           pc = "link" => faults' = faults + 1
    PROVE  CorpusInv'
<1>1. OwnEmbedding'
  BY DEF CorpusInv, OwnEmbedding
<1>2. QED
  BY <1>1, GivesUp DEF CorpusInv, CorpusTypes

LEMMA OutsideKeeps ==
    ASSUME CorpusInv, UNCHANGED <<kb, cmd, pc, total, input, fails, streamed, seen, existing, written,
                                  buf, result, next, unlinked, faults>>,
           corpus' \in Corpora, same' => same,
           same' => UNCHANGED corpus \/ pc \notin {"count", "check", "remove", "open"}
    PROVE  CorpusInv'
<1>1. CorpusTypes' /\ ChunkShape' /\ OwnEmbedding'
  BY DEF CorpusInv, CorpusTypes, ChunkShape, OwnEmbedding
<1>2. AllStored' /\ AllLinked' /\ AllCounted'
  BY DEF CorpusInv, AllStored, AllLinked, AllCounted, Fresh, Waiting
<1>3. OwedIsPaid'
  BY DEF CorpusInv, OwedIsPaid, Owed, Unlinked
<1>4. SameStream'
  BY DEF CorpusInv, SameStream, Taken, LimitReached
<1>5. QED
  BY <1>1, <1>2, <1>3, <1>4 DEF CorpusInv

LEMMA StartKeeps == ASSUME CorpusInv, NEW c \in Commands, Start(c) PROVE CorpusInv'
<1>1. /\ pc' \in {"count", "check", "open"} /\ pc = "idle" /\ cmd' = c
      /\ streamed' = 0 /\ seen' = {} /\ written' = 0 /\ buf' = <<>> /\ next' = 1 /\ unlinked' = <<>>
      /\ same' = FALSE /\ input' = <<>> /\ UNCHANGED <<corpus, kb, faults>>
  BY DEF Start
<1>2. CorpusTypes'
  BY <1>1, NothingInIt DEF CorpusInv, CorpusTypes
<1>3. ChunkShape' /\ OwnEmbedding'
  BY <1>1 DEF CorpusInv, ChunkShape, OwnEmbedding
<1>4. OwedIsPaid'
  BY <1>1 DEF CorpusInv, OwedIsPaid, Owed, Unlinked
<1>5. QED
  BY <1>1, <1>2, <1>3, <1>4 DEF CorpusInv, AllStored, AllLinked, AllCounted, Fresh, Late, SameStream

LEMMA CountKeeps == ASSUME CorpusInv, Count PROVE CorpusInv'
<1>1. /\ pc = "count" /\ pc' = "check" /\ same' = TRUE /\ total' = CountCorpus(Stream(corpus, "index"), cmd.limit)
      /\ UNCHANGED <<corpus, kb, cmd, input, streamed, seen, existing, written, chunkState, faults>>
  BY DEF Count
<1>2. CorpusTypes'
  BY <1>1 DEF CorpusInv, CorpusTypes, chunkState
<1>3. ChunkShape' /\ OwnEmbedding'
  BY <1>1 DEF CorpusInv, ChunkShape, OwnEmbedding, chunkState
<1>4. OwedIsPaid'
  BY <1>1 DEF CorpusInv, OwedIsPaid, Owed, Unlinked
<1>5. SameStream'
  BY <1>1 DEF SameStream, Late
<1>6. QED
  BY <1>1, <1>2, <1>3, <1>4, <1>5 DEF CorpusInv, AllStored, AllLinked, AllCounted, Fresh, Late

LEMMA CheckKeeps == ASSUME CorpusInv, Check PROVE CorpusInv'
<1>1. UNCHANGED <<corpus, kb, faults>> /\ pc = "check"
  BY DEF Check
<1>2. CASE Exit
  BY <1>1, <1>2, GivesUpUnchanged
<1>3. CASE pc' \in {"open", "remove"} /\ UNCHANGED <<cmd, passState, chunkState, runs>>
  <2>1. CorpusTypes'
    BY <1>1, <1>3 DEF CorpusInv, CorpusTypes, chunkState, passState
  <2>2. ChunkShape' /\ OwnEmbedding'
    BY <1>1, <1>3 DEF CorpusInv, ChunkShape, OwnEmbedding, chunkState, passState
  <2>3. OwedIsPaid'
    BY <1>1, <1>3 DEF CorpusInv, OwedIsPaid, Owed, Unlinked
  <2>4. SameStream'
    BY <1>1, <1>3 DEF CorpusInv, SameStream, Late, passState
  <2>5. QED
    BY <1>3, <2>1, <2>2, <2>3, <2>4 DEF CorpusInv, AllStored, AllLinked, AllCounted, Fresh, Late
<1>4. QED
  BY <1>2, <1>3 DEF Check

LEMMA RemoveDbKeeps == ASSUME CorpusInv, RemoveDb PROVE CorpusInv'
<1>1. /\ pc = "remove" /\ pc' = "open" /\ UNCHANGED <<corpus, cmd, passState, chunkState, faults>>
      /\ kb' = NoKb
  BY DEF RemoveDb
<1>2. CorpusTypes'
  BY <1>1 DEF CorpusInv, CorpusTypes, NoKb, chunkState, passState
<1>3. ChunkShape' /\ OwnEmbedding'
  BY <1>1 DEF CorpusInv, ChunkShape, OwnEmbedding, NoKb, chunkState, passState
<1>4. OwedIsPaid'
  <2>1. Owed' = {}
    BY <1>1 DEF Owed, Unlinked, NoKb
  <2>2. faults' \in Nat /\ faults <= faults'
    BY <1>1 DEF CorpusInv, CorpusTypes
  <2>3. QED
    BY <2>1, <2>2, OwedStays DEF CorpusInv
<1>5. SameStream'
  BY <1>1 DEF CorpusInv, SameStream, Late, passState
<1>6. QED
  BY <1>1, <1>2, <1>3, <1>4, <1>5 DEF CorpusInv, AllStored, AllLinked, AllCounted, Fresh, Late

LEMMA OpenKeeps == ASSUME CorpusInv, Open PROVE CorpusInv'
<1>1. UNCHANGED <<corpus, faults>> /\ pc = "open"
  BY DEF Open
<1>2. CASE Exit /\ UNCHANGED kb
  BY <1>1, <1>2, GivesUpUnchanged
<1>3. CASE /\ kb' = [kb EXCEPT !.file = TRUE] /\ existing' = ExistingLeafIDSet
           /\ input' = Stream(corpus, cmd.tool) /\ pc' = "stream"
           /\ UNCHANGED <<cmd, total, same, streamed, seen, written, chunkState, runs>>
  <2>1. /\ buf = <<>> /\ written = 0 /\ streamed = 0 /\ seen = {} /\ next = 1 /\ unlinked = <<>>
        /\ UNCHANGED <<buf, next, unlinked, result>>
    BY <1>1, <1>3 DEF CorpusInv, ChunkShape, chunkState
  <2>2. kb'.leafs = kb.leafs /\ kb'.linked = kb.linked /\ kb'.emb = kb.emb
    BY <1>3 DEF CorpusInv, CorpusTypes
  <2>3. Stream(corpus, cmd.tool) \in Seq(Keys)
    BY AdaptersEmitLeafs, CorpusAssumption DEF CorpusInv, CorpusTypes
  <2>4. CorpusTypes'
    BY <1>1, <1>3, <2>1, <2>3 DEF CorpusInv, CorpusTypes, Late
  <2>5. ChunkShape' /\ OwnEmbedding'
    BY <1>3, <2>1, <2>2 DEF CorpusInv, ChunkShape, OwnEmbedding
  <2>6. OwedIsPaid'
    BY <1>1, <1>3, <2>2 DEF CorpusInv, OwedIsPaid, Owed, Unlinked
  <2>7. AllStored' /\ AllLinked'
    BY <1>3, <2>1, <2>2 DEF AllStored, AllLinked, ExistingLeafIDSet
  <2>8. AllCounted'
    BY <1>3, <2>1, NothingInIt, FS_EmptySet DEF AllCounted
  <2>9. SameStream'
    <3> SUFFICES ASSUME same, cmd.tool = "index"
                 PROVE  total = CountCorpus(Stream(corpus, "index"), cmd.limit) /\ Taken(Stream(corpus, "index"))'
      BY <1>1, <1>3, <2>3, AdaptersEmitLeafs DEF SameStream, CorpusInv, CorpusTypes
    <3>1. cmd.limit \in Nat
      BY CorpusAssumption DEF CorpusInv, CorpusTypes
    <3>2. \A s \in Seq(Keys) : Len(s) \in Nat /\ 1 .. 0 = {}
      OBVIOUS
    <3>3. Taken(Stream(corpus, "index"))'
      BY <1>1, <1>3, <2>1, <2>3, <3>1, <3>2 DEF Taken
    <3>4. QED
      BY <1>1, <3>3 DEF CorpusInv, SameStream
  <2>10. QED
    BY <2>4, <2>5, <2>6, <2>7, <2>8, <2>9 DEF CorpusInv
<1>4. QED
  BY <1>2, <1>3 DEF Open

LEMMA AppendFacts ==
    ASSUME NEW S, NEW s \in Seq(S), NEW x \in S
    PROVE  /\ Append(s, x) \in Seq(S) /\ Len(Append(s, x)) = Len(s) + 1 /\ Len(s) \in Nat
           /\ {Append(s, x)[i] : i \in 1 .. Len(Append(s, x))} = {s[i] : i \in 1 .. Len(s)} \cup {x}
<1>1. /\ Append(s, x) \in Seq(S) /\ Len(Append(s, x)) = Len(s) + 1 /\ Len(s) \in Nat
      /\ \A i \in 1 .. Len(s) : Append(s, x)[i] = s[i]
      /\ Append(s, x)[Len(s) + 1] = x
  OBVIOUS
<1>2. \A n \in Nat : 1 .. (n + 1) = (1 .. n) \cup {n + 1}
  OBVIOUS
<1>3. 1 .. Len(Append(s, x)) = (1 .. Len(s)) \cup {Len(s) + 1}
  BY <1>1, <1>2
<1>4. QED
  BY <1>1, <1>3

LEMMA EmitKeeps == ASSUME CorpusInv, Emit PROVE CorpusInv'
<1> DEFINE x == Head(input)
<1>1. /\ pc = "stream" /\ next = 1 /\ unlinked = <<>> /\ pc' \in {"stream", "chunk"}
      /\ input' = Tail(input) /\ streamed' = streamed + 1 /\ seen' = seen \cup {x}
      /\ UNCHANGED <<corpus, kb, cmd, total, same, existing, written, result, next, unlinked, faults>>
  BY DEF Emit, CorpusInv, ChunkShape
<1>2. /\ input \in Seq(Keys) /\ x \in Keys /\ Tail(input) \in Seq(Keys) /\ Len(input) \in Nat \ {0}
      /\ Len(Tail(input)) = Len(input) - 1 /\ x = input[1]
      /\ \A j \in 1 .. Len(input) - 1 : Tail(input)[j] = input[j + 1]
  <2>1. input \in Seq(Keys) /\ input # <<>>
    BY DEF Emit, CorpusInv, CorpusTypes
  <2>2. QED
    BY <2>1
<1>3. \/ buf' = buf /\ x \in seen
      \/ buf' = Append(buf, x) /\ (Dedups => x \notin seen)
  BY DEF Emit
<1>4. /\ Waiting = {buf[i] : i \in 1 .. Len(buf)} /\ Waiting' = {buf'[i] : i \in 1 .. Len(buf')}
      /\ buf \in Seq(Keys)
  BY <1>1 DEF Waiting, CorpusInv, CorpusTypes
<1> HIDE DEF x
<1>5. /\ buf' \in Seq(Keys) /\ Len(buf) \in Nat
      /\ x \in seen => Waiting \subseteq Waiting'
      /\ buf' = Append(buf, x) => Waiting' = Waiting \cup {x} /\ Len(buf') = Len(buf) + 1
  <2>1. Append(buf, x) \in Seq(Keys) /\ Len(Append(buf, x)) = Len(buf) + 1 /\ Len(buf) \in Nat
    BY <1>2, <1>4, AppendFacts
  <2>2. {Append(buf, x)[i] : i \in 1 .. Len(Append(buf, x))} = {buf[i] : i \in 1 .. Len(buf)} \cup {x}
    BY <1>2, <1>4, AppendFacts
  <2>3. CASE buf' = buf /\ x \in seen
    <3>1. Waiting' = Waiting
      BY <1>4, <2>3
    <3>2. buf' # Append(buf, x)
      BY <2>1, <2>3
    <3>3. QED
      BY <1>4, <2>1, <2>3, <3>1, <3>2
  <2>4. CASE buf' = Append(buf, x)
    <3>1. Waiting' = Waiting \cup {x}
      BY <1>4, <2>2, <2>4
    <3>2. QED
      BY <2>1, <2>4, <3>1
  <2>5. QED
    BY <1>3, <2>3, <2>4
<1>6. CorpusTypes'
  <2>1. streamed + 1 \in Nat
    BY DEF CorpusInv, CorpusTypes
  <2>2. QED
    BY <1>1, <1>2, <1>5, <2>1 DEF CorpusInv, CorpusTypes, Late
<1>7. ChunkShape' /\ OwnEmbedding'
  BY <1>1 DEF CorpusInv, ChunkShape, OwnEmbedding
<1>8. OwedIsPaid'
  BY <1>1 DEF CorpusInv, OwedIsPaid, Owed, Unlinked
<1>9. AllStored'
  BY <1>1, <1>3, <1>5 DEF CorpusInv, AllStored, Late
<1>10. AllLinked'
  BY <1>1, <1>3, <1>5 DEF CorpusInv, AllLinked, Late
<1>11. AllCounted'
  <2> SUFFICES ASSUME Fresh'
               PROVE  written + Len(unlinked) + ((Len(buf') + 1) - next) = Cardinality(seen')
    BY <1>1 DEF AllCounted
  <2>1. Fresh /\ Dedups
    BY <1>1 DEF Fresh, Dedups, Late
  <2>2. IsFiniteSet(seen) /\ Cardinality(seen) \in Nat
    BY CorpusAssumption, FS_Subset, FS_CardinalityType DEF CorpusInv, CorpusTypes
  <2>3. /\ written + Len(unlinked) + ((Len(buf) + 1) - next) = Cardinality(seen)
        /\ written \in Nat /\ Len(unlinked) = 0 /\ next = 1
    BY <1>1, <2>1, NothingInIt DEF CorpusInv, AllCounted, CorpusTypes
  <2>4. CASE buf' = buf /\ x \in seen
    <3>1. seen' = seen
      BY <1>1, <2>4
    <3>2. QED
      BY <2>3, <2>4, <3>1
  <2>5. CASE buf' = Append(buf, x) /\ x \notin seen
    <3>1. Cardinality(seen') = Cardinality(seen) + 1
      BY <1>1, <2>2, <2>5, FS_AddElement
    <3>2. QED
      BY <1>5, <2>2, <2>3, <2>5, <3>1
  <2>6. QED
    BY <1>3, <2>1, <2>4, <2>5
<1>12. SameStream'
  <2> SUFFICES ASSUME same, cmd.tool = "index"
               PROVE  \E s \in Seq(Keys) : total = CountCorpus(s, cmd.limit) /\ Taken(s)'
    BY <1>1 DEF SameStream
  <2>1. PICK s \in Seq(Keys) : total = CountCorpus(s, cmd.limit) /\ Taken(s)
    BY <1>1 DEF CorpusInv, SameStream, Late
  <2>2. cmd.limit \in Nat /\ streamed \in Nat /\ Len(s) \in Nat
    BY CorpusAssumption DEF CorpusInv, CorpusTypes
  <2>3. Taken(s)'
    <3>1. streamed' <= Len(s) /\ Len(input') = Len(s) - streamed'
      BY <1>1, <1>2, <2>1, <2>2 DEF Taken
    <3>2. \A j \in 1 .. Len(input') : input'[j] = s[streamed' + j]
      <4> SUFFICES ASSUME NEW j \in 1 .. Len(input') PROVE input'[j] = s[streamed' + j]
        OBVIOUS
      <4>1. j \in 1 .. Len(input) - 1 /\ j + 1 \in 1 .. Len(input) /\ j \in Nat
        BY <1>1, <1>2
      <4>2. input'[j] = input[j + 1] /\ input[j + 1] = s[streamed + (j + 1)]
        BY <1>1, <1>2, <2>1, <4>1 DEF Taken
      <4>3. streamed + (j + 1) = streamed' + j
        BY <1>1, <2>2, <4>1
      <4>4. QED
        BY <4>2, <4>3
    <3>3. seen' = {s[i] : i \in 1 .. streamed'}
      <4>1. x = s[streamed + 1]
        BY <1>2, <2>1, <2>2 DEF Taken
      <4>2. \A n \in Nat : 1 .. (n + 1) = (1 .. n) \cup {n + 1}
        OBVIOUS
      <4>3. 1 .. streamed' = (1 .. streamed) \cup {streamed + 1}
        BY <1>1, <2>2, <4>2
      <4>4. QED
        BY <1>1, <2>1, <4>1, <4>3 DEF Taken
    <3>4. cmd'.limit > 0 => streamed' <= cmd'.limit
      BY <1>1, <2>2 DEF Emit, LimitReached
    <3>5. QED
      BY <1>1, <3>1, <3>2, <3>3, <3>4 DEF Taken
  <2>4. QED
    BY <2>1, <2>3
<1>13. QED
  BY <1>6, <1>7, <1>8, <1>9, <1>10, <1>11, <1>12 DEF CorpusInv

LEMMA StreamEndKeeps == ASSUME CorpusInv, StreamEnd PROVE CorpusInv'
<1>1. UNCHANGED <<corpus, kb, faults>> /\ pc = "stream" /\ (input = <<>> \/ LimitReached)
  BY DEF StreamEnd
<1>2. CASE Exit
  BY <1>1, <1>2, GivesUpUnchanged
<1>3. CASE pc' = (IF buf = <<>> THEN "facts" ELSE "chunk") /\ UNCHANGED <<cmd, passState, chunkState, runs>>
  <2>1. CorpusTypes'
    BY <1>1, <1>3 DEF CorpusInv, CorpusTypes, Late, chunkState, passState
  <2>2. ChunkShape' /\ OwnEmbedding'
    BY <1>1, <1>3 DEF CorpusInv, ChunkShape, OwnEmbedding, chunkState
  <2>3. OwedIsPaid'
    BY <1>1, <1>3 DEF CorpusInv, OwedIsPaid, Owed, Unlinked
  <2>4. AllStored' /\ AllLinked' /\ AllCounted'
    BY <1>1, <1>3 DEF CorpusInv, AllStored, AllLinked, AllCounted, Fresh, Waiting, Late, chunkState, passState
  <2>5. SameStream'
    <3> SUFFICES ASSUME same, cmd.tool = "index"
                 PROVE  \E s \in Seq(Keys) : total = CountCorpus(s, cmd.limit) /\ Taken(s)'
      BY <1>1, <1>3 DEF SameStream, passState
    <3>1. PICK s \in Seq(Keys) : total = CountCorpus(s, cmd.limit) /\ Taken(s)
      BY <1>1 DEF CorpusInv, SameStream, Late
    <3>2. input = <<>> => streamed = Len(s)
      BY <3>1, NothingInIt DEF Taken, CorpusInv, CorpusTypes
    <3>3. Taken(s)'
      BY <1>1, <1>3, <3>1, <3>2 DEF Taken, LimitReached, passState
    <3>4. QED
      BY <3>1, <3>3
  <2>6. QED
    BY <2>1, <2>2, <2>3, <2>4, <2>5 DEF CorpusInv
<1>4. QED
  BY <1>2, <1>3 DEF StreamEnd

LEMMA Filtered ==
    ASSUME NEW s \in Seq(Keys), NEW t \in FilterExistingLeafs(s)
    PROVE  /\ t \in Seq(Keys)
           /\ {s[i] : i \in 1 .. Len(s)} \subseteq existing \cup {t[j] : j \in 1 .. Len(t)}
<1> DEFINE S == {i \in DOMAIN s : s[i] \notin existing}
<1>1. DOMAIN s = 1 .. Len(s) /\ Len(s) \in Nat /\ \A i \in DOMAIN s : s[i] \in Keys
  OBVIOUS
<1>2. Cardinality(S) \in Nat
  <2>1. \A n \in Nat : IsFiniteSet(1 .. n)
    BY FS_Interval
  <2>2. IsFiniteSet(S)
    BY <1>1, <2>1, FS_Subset
  <2>3. QED
    BY <2>2, FS_CardinalityType
<1>3. PICK pos \in Ascending(S) : t = [j \in DOMAIN pos |-> s[pos[j]]]
  BY DEF FilterExistingLeafs
<1> HIDE DEF S
<1>4. DOMAIN pos = 1 .. Cardinality(S) /\ \A j \in DOMAIN pos : pos[j] \in S
  BY <1>3 DEF Ascending
<1>5. \A j \in 1 .. Cardinality(S) : s[pos[j]] \in Keys
  BY <1>1, <1>4 DEF S
<1>6. t \in Seq(Keys) /\ Len(t) = Cardinality(S)
  BY <1>2, <1>3, <1>4, <1>5
<1>7. ASSUME NEW i \in 1 .. Len(s), s[i] \notin existing
      PROVE  \E j \in 1 .. Len(t) : t[j] = s[i]
  <2>1. i \in S
    BY <1>1, <1>7 DEF S
  <2>2. PICK j \in DOMAIN pos : pos[j] = i
    BY <1>3, <2>1 DEF Ascending
  <2>3. QED
    BY <1>3, <1>4, <1>6, <2>2
<1>8. QED
  BY <1>6, <1>7

LEMMA BeginChunkKeeps == ASSUME CorpusInv, BeginChunk PROVE CorpusInv'
<1>1. /\ pc = "chunk" /\ pc' = "embed" /\ next = 1 /\ next' = 1 /\ unlinked = <<>> /\ unlinked' = <<>>
      /\ UNCHANGED <<corpus, kb, cmd, total, same, input, streamed, seen, existing, written, faults>>
      /\ result' = [i \in DOMAIN buf' |-> NoEmb] /\ buf \in Seq(Keys)
  BY DEF BeginChunk, CorpusInv, CorpusTypes, ChunkShape, passState
<1>2. /\ buf' \in Seq(Keys)
      /\ IF cmd.skip THEN Waiting \subseteq existing \cup Waiting' ELSE buf' = buf
  <2>1. CASE cmd.skip
    <3>1. buf' \in FilterExistingLeafs(buf)
      BY <2>1 DEF BeginChunk
    <3>2. QED
      BY <1>1, <2>1, <3>1, Filtered DEF Waiting
  <2>2. CASE ~cmd.skip
    BY <1>1, <2>2 DEF BeginChunk
  <2>3. QED
    BY <2>1, <2>2
<1>3. CorpusTypes'
  BY <1>1, <1>2 DEF CorpusInv, CorpusTypes, Late
<1>4. ChunkShape' /\ OwnEmbedding'
  BY <1>1 DEF CorpusInv, ChunkShape, OwnEmbedding
<1>5. OwedIsPaid'
  BY <1>1 DEF CorpusInv, OwedIsPaid, Owed, Unlinked
<1>6. AllStored' /\ AllLinked'
  <2>1. ~cmd.skip => Waiting' = Waiting
    BY <1>1, <1>2 DEF Waiting
  <2>2. QED
    BY <1>1, <1>2, <2>1 DEF CorpusInv, AllStored, AllLinked, Late
<1>7. AllCounted'
  BY <1>1, <1>2 DEF CorpusInv, AllCounted, Fresh, Late
<1>8. SameStream'
  BY <1>1 DEF CorpusInv, SameStream, Taken, Late
<1>9. QED
  BY <1>3, <1>4, <1>5, <1>6, <1>7, <1>8 DEF CorpusInv

LEMMA EmbeddedKeeps == ASSUME CorpusInv, NEW i \in DOMAIN slot, Embedded(i) PROVE CorpusInv'
<1>1. /\ pc = "embed" /\ pc' = "embed" /\ faults' \in {faults, faults + 1}
      /\ UNCHANGED <<corpus, kb, cmd, total, same, input, streamed, seen, existing, written, buf, next, unlinked>>
      /\ result' \in {result, [result EXCEPT ![i] = buf[i]], [result EXCEPT ![i] = NoEmb]}
  BY DEF Embedded, Fault, passState
<1>2. CorpusTypes'
  <2>1. faults' \in Nat
    BY <1>1 DEF CorpusInv, CorpusTypes
  <2>2. QED
    BY <1>1, <2>1 DEF CorpusInv, CorpusTypes
<1>3. ChunkShape' /\ OwnEmbedding'
  <2>1. DOMAIN result' = DOMAIN buf' /\ \A j \in DOMAIN buf' : result'[j] \in {NoEmb, buf'[j]}
    BY <1>1 DEF CorpusInv, ChunkShape
  <2>2. QED
    BY <1>1, <2>1 DEF CorpusInv, ChunkShape, OwnEmbedding
<1>4. OwedIsPaid'
  <2>1. faults' \in Nat /\ faults <= faults'
    BY <1>1 DEF CorpusInv, CorpusTypes
  <2>2. Owed' \subseteq Owed
    BY <1>1 DEF Owed, Unlinked
  <2>3. QED
    BY <2>1, <2>2, OwedStays DEF CorpusInv
<1>5. AllStored' /\ AllLinked' /\ AllCounted'
  BY <1>1 DEF CorpusInv, AllStored, AllLinked, AllCounted, Fresh, Waiting
<1>6. SameStream'
  BY <1>1 DEF CorpusInv, SameStream, Taken, LimitReached
<1>7. QED
  BY <1>2, <1>3, <1>4, <1>5, <1>6 DEF CorpusInv

LEMMA JoinKeeps == ASSUME CorpusInv, Join PROVE CorpusInv'
<1>1. UNCHANGED <<corpus, kb, faults>> /\ pc = "embed"
  BY DEF Join
<1>2. CASE Exit
  BY <1>1, <1>2, GivesUpUnchanged
<1>3. CASE pc' = "batch" /\ UNCHANGED <<cmd, passState, chunkState, runs>>
  <2>1. CorpusTypes'
    BY <1>1, <1>3 DEF CorpusInv, CorpusTypes, Late, chunkState, passState
  <2>2. ChunkShape' /\ OwnEmbedding'
    <3>1. next = 1 /\ Len(buf) \in Nat
      BY <1>1 DEF CorpusInv, CorpusTypes, ChunkShape
    <3>2. next <= Len(buf) + 1
      BY <3>1
    <3>3. QED
      BY <1>1, <1>3, <3>2 DEF CorpusInv, ChunkShape, OwnEmbedding, chunkState
  <2>3. OwedIsPaid'
    BY <1>1, <1>3 DEF CorpusInv, OwedIsPaid, Owed, Unlinked
  <2>4. AllStored' /\ AllLinked' /\ AllCounted'
    BY <1>1, <1>3 DEF CorpusInv, AllStored, AllLinked, AllCounted, Fresh, Waiting, Late, chunkState, passState
  <2>5. SameStream'
    BY <1>1, <1>3 DEF CorpusInv, SameStream, Taken, LimitReached, Late, passState
  <2>6. QED
    BY <2>1, <2>2, <2>3, <2>4, <2>5 DEF CorpusInv
<1>4. QED
  BY <1>2, <1>3 DEF Join

LEMMA BatchBounds ==
    ASSUME CorpusInv, pc = "batch", next <= Len(buf)
    PROVE  \E last \in Nat :
             /\ InBatch = next .. last /\ next <= last /\ last <= Len(buf) /\ last - next + 1 <= Batch
             /\ Cardinality(InBatch) = last - next + 1 /\ Len(buf) \in Nat
<1>1. Len(buf) \in Nat /\ next \in Nat \ {0} /\ Batch \in Nat \ {0}
  BY CorpusAssumption DEF CorpusInv, CorpusTypes
<1> DEFINE last == IF next + Batch - 1 < Len(buf) THEN next + Batch - 1 ELSE Len(buf)
<1>2. last \in Nat /\ next <= last /\ last <= Len(buf) /\ last - next + 1 <= Batch
  BY <1>1
<1>3. InBatch = next .. last
  BY DEF InBatch
<1> HIDE DEF last
<1>4. Cardinality(next .. last) = last - next + 1
  <2>1. \A a, b \in Int : Cardinality(a .. b) = IF a > b THEN 0 ELSE b - a + 1
    BY FS_Interval
  <2>2. next \in Int /\ last \in Int /\ ~(next > last)
    BY <1>1, <1>2
  <2>3. QED
    BY <2>1, <2>2
<1>5. QED
  BY <1>1, <1>2, <1>3, <1>4

Less == {p \in Nat \X Nat : p[1] < p[2]}

(* A bounded set of numbers has a largest one.                                *)
LEMMA HasLargest ==
    ASSUME NEW S \in SUBSET Nat, S # {}, NEW b \in Nat, \A n \in S : n <= b
    PROVE  \E m \in S : \A n \in S : n <= m
<1> DEFINE U == {k \in Nat : \A n \in S : n <= k}
<1>1. IsWellFoundedOn(Less, Nat)
  BY NatLessThanWellFounded DEF OpToRel, Less
<1>2. PICK k \in U : \A j \in SetLessThan(k, Less, Nat) : j \notin U
  <2>1. b \in U /\ U \subseteq Nat
    OBVIOUS
  <2> HIDE DEF U
  <2>2. QED
    BY <1>1, <2>1, WFMin DEF SetLessThan
<1>3. k \in Nat /\ \A j \in Nat : j < k => j \notin U
  BY <1>2 DEF SetLessThan, Less
<1>4. k \in S
  <2> SUFFICES ASSUME k \notin S PROVE FALSE
    OBVIOUS
  <2>1. PICK n \in S : TRUE
    OBVIOUS
  <2>2. n < k /\ n \in Nat /\ \A x \in S : x <= k /\ x # k
    BY <1>2, <2>1
  <2>3. k - 1 \in Nat /\ k - 1 < k /\ k - 1 \in U
    BY <1>3, <2>2
  <2>4. QED
    BY <1>3, <2>3
<1>5. QED
  BY <1>2, <1>4

(* A committed batch stores its leafs, each with its own embedding.           *)
LEMMA BatchIsStored ==
    ASSUME CorpusInv, pc = "batch", next <= Len(buf)
    PROVE  /\ AddLeafs(kb, InBatch) \in
                [file : BOOLEAN, leafs : SUBSET Keys, emb : [Keys -> Keys \cup {NoEmb}],
                 linked : SUBSET Keys, fts : {"none", "ok", "orphan"}]
           /\ AddLeafs(kb, InBatch).leafs = kb.leafs \cup {buf[i] : i \in InBatch}
           /\ AddLeafs(kb, InBatch).linked = kb.linked
           /\ \A k \in Keys : AddLeafs(kb, InBatch).emb[k] \in {NoEmb, k}
<1> DEFINE given(k) == {i \in InBatch : buf[i] = k /\ result[i] # NoEmb}
           last(k) == CHOOSE i \in given(k) : \A j \in given(k) : j <= i
           emb == [k \in Keys |-> IF given(k) = {} THEN kb.emb[k] ELSE result[last(k)]]
<1>1. PICK n \in Nat : InBatch = next .. n /\ n <= Len(buf)
  BY BatchBounds
<1>2. InBatch \subseteq DOMAIN buf /\ InBatch \subseteq Nat /\ \A i \in InBatch : i <= n /\ buf[i] \in Keys
  <2>1. next \in Nat \ {0} /\ DOMAIN buf = 1 .. Len(buf) /\ Len(buf) \in Nat /\ \A i \in DOMAIN buf : buf[i] \in Keys
    BY DEF CorpusInv, CorpusTypes
  <2>2. QED
    BY <1>1, <2>1
<1>3. ASSUME NEW k \in Keys PROVE emb[k] \in {NoEmb, k}
  <2>1. CASE given(k) = {}
    BY <2>1 DEF CorpusInv, OwnEmbedding
  <2>2. CASE given(k) # {}
    <3>1. given(k) \in SUBSET Nat /\ \A i \in given(k) : i <= n
      BY <1>2
    <3>2. \E i \in given(k) : \A j \in given(k) : j <= i
      <4> HIDE DEF given
      <4>1. QED
        BY <2>2, <3>1, HasLargest
    <3>3. last(k) \in given(k)
      <4> HIDE DEF given
      <4>1. QED
        BY <3>2
    <3>4. last(k) \in InBatch /\ buf[last(k)] = k
      <4> HIDE DEF last
      <4>1. QED
        BY <3>3
    <3>5. result[last(k)] \in {NoEmb, k}
      <4> HIDE DEF last, given
      <4>1. QED
        BY <1>2, <3>4 DEF CorpusInv, ChunkShape
    <3>6. QED
      BY <2>2, <3>5
  <2>3. QED
    BY <2>1, <2>2
<1>4. AddLeafs(kb, InBatch) = [kb EXCEPT !.leafs = @ \cup {buf[i] : i \in InBatch}, !.emb = emb]
  BY DEF AddLeafs, CorpusInv, CorpusTypes
<1>5. emb \in [Keys -> Keys \cup {NoEmb}]
  BY <1>3
<1> HIDE DEF emb
<1>6. /\ kb \in [file : BOOLEAN, leafs : SUBSET Keys, emb : [Keys -> Keys \cup {NoEmb}],
                linked : SUBSET Keys, fts : {"none", "ok", "orphan"}]
      /\ {buf[i] : i \in InBatch} \subseteq Keys
  BY <1>2 DEF CorpusInv, CorpusTypes
<1>7. AddLeafs(kb, InBatch) = [file |-> kb.file, leafs |-> kb.leafs \cup {buf[i] : i \in InBatch},
                               emb |-> emb, linked |-> kb.linked, fts |-> kb.fts]
  BY <1>4, <1>6
<1>8. QED
  BY <1>3, <1>5, <1>6, <1>7

LEMMA CommitBatchKeeps == ASSUME CorpusInv, CommitBatch PROVE CorpusInv'
<1>1. pc = "batch" /\ next <= Len(buf) /\ UNCHANGED corpus
  BY DEF CommitBatch
<1>2. CASE Exit /\ UNCHANGED kb /\ faults' \in {faults, faults + 1}
  BY <1>1, <1>2, GivesUpUnchanged
<1>3. CASE /\ kb' = AddLeafs(kb, InBatch)
           /\ unlinked' = [j \in 1..Cardinality(InBatch) |-> buf[next + j - 1]]
           /\ next' = next + Cardinality(InBatch)
           /\ pc' = "link"
           /\ UNCHANGED <<cmd, passState, buf, slot, result, runs, faults>>
  <2>1. PICK last \in Nat :
             /\ InBatch = next .. last /\ next <= last /\ last <= Len(buf) /\ last - next + 1 <= Batch
             /\ Cardinality(InBatch) = last - next + 1 /\ Len(buf) \in Nat
    BY <1>1, BatchBounds
  <2>2. /\ next \in Nat \ {0} /\ DOMAIN buf = 1 .. Len(buf) /\ \A i \in 1 .. Len(buf) : buf[i] \in Keys
        /\ unlinked = <<>> /\ Batch \in Nat
    BY <1>1, CorpusAssumption DEF CorpusInv, CorpusTypes, ChunkShape
  <2>3. next' = last + 1 /\ next' \in Nat \ {0}
    BY <1>3, <2>1, <2>2
  <2>4. /\ \A j \in 1 .. (last - next + 1) : next + j - 1 \in next .. last /\ next + j - 1 \in 1 .. Len(buf)
        /\ \A i \in next .. last : i - next + 1 \in 1 .. (last - next + 1) /\ next + (i - next + 1) - 1 = i
        /\ last - next + 1 \in Nat
        /\ next .. Len(buf) = (next .. last) \cup ((last + 1) .. Len(buf))
    BY <2>1, <2>2
  <2>5. /\ unlinked' \in Seq(Keys) /\ Len(unlinked') = last - next + 1
        /\ ToSet(unlinked') = {buf[i] : i \in InBatch}
    <3>1. unlinked' = [j \in 1 .. (last - next + 1) |-> buf[next + j - 1]]
      BY <1>3, <2>1
    <3>2. \A j \in 1 .. (last - next + 1) : buf[next + j - 1] \in Keys
      BY <2>2, <2>4
    <3>3. unlinked' \in Seq(Keys) /\ Len(unlinked') = last - next + 1 /\ DOMAIN unlinked' = 1 .. (last - next + 1)
      BY <2>4, <3>1, <3>2
    <3>4. ToSet(unlinked') = {buf[i] : i \in next .. last}
      <4>1. ASSUME NEW y \in ToSet(unlinked') PROVE y \in {buf[i] : i \in next .. last}
        <5>1. PICK j \in 1 .. (last - next + 1) : y = unlinked'[j]
          BY <3>3 DEF ToSet
        <5>2. QED
          BY <2>4, <3>1, <5>1
      <4>2. ASSUME NEW i \in next .. last PROVE buf[i] \in ToSet(unlinked')
        <5>1. unlinked'[i - next + 1] = buf[i] /\ i - next + 1 \in DOMAIN unlinked'
          BY <2>4, <3>1, <3>3
        <5>2. QED
          BY <5>1 DEF ToSet
      <4>3. QED
        BY <4>1, <4>2
    <3>5. QED
      BY <2>1, <3>3, <3>4
  <2>6. Waiting = ToSet(unlinked') \cup Waiting'
    <3>1. Waiting = {buf[i] : i \in next .. last} \cup {buf[i] : i \in (last + 1) .. Len(buf)}
      BY <2>4 DEF Waiting
    <3>2. Waiting' = {buf[i] : i \in (last + 1) .. Len(buf)}
      BY <1>3, <2>3 DEF Waiting
    <3>3. QED
      BY <2>1, <2>5, <3>1, <3>2
  <2>7. /\ kb' \in [file : BOOLEAN, leafs : SUBSET Keys, emb : [Keys -> Keys \cup {NoEmb}],
                    linked : SUBSET Keys, fts : {"none", "ok", "orphan"}]
        /\ kb'.leafs = kb.leafs \cup ToSet(unlinked') /\ kb'.linked = kb.linked
        /\ OwnEmbedding'
    BY <1>1, <1>3, <2>5, BatchIsStored DEF OwnEmbedding
  <2>8. CorpusTypes'
    BY <1>1, <1>3, <2>3, <2>5, <2>7 DEF CorpusInv, CorpusTypes, Late, passState
  <2>9. ChunkShape'
    <3>1. next' <= Len(buf') + 1 /\ Len(unlinked') <= Batch
      <4>1. next' <= Len(buf) + 1
        BY <2>1, <2>3
      <4>2. buf' = buf /\ Len(unlinked') <= Batch
        BY <1>3, <2>1, <2>5
      <4>3. QED
        BY <4>1, <4>2
    <3>2. QED
      BY <1>1, <1>3, <3>1 DEF CorpusInv, ChunkShape
  <2>10. OwedIsPaid'
    <3>1. Owed' \subseteq Owed
      BY <1>1, <1>3, <2>7 DEF Owed, Unlinked
    <3>2. faults' \in Nat /\ faults <= faults'
      BY <1>3 DEF CorpusInv, CorpusTypes
    <3>3. QED
      BY <3>1, <3>2, OwedStays DEF CorpusInv
  <2>11. AllStored' /\ AllLinked'
    <3>1. pc \in Late /\ ToSet(unlinked) = {}
      BY <1>1, <2>2, NothingInIt DEF Late
    <3>2. QED
      BY <1>3, <2>6, <2>7, <3>1 DEF CorpusInv, AllStored, AllLinked, passState
  <2>12. AllCounted'
    <3> SUFFICES ASSUME Fresh' PROVE written' + Len(unlinked') + ((Len(buf') + 1) - next') = Cardinality(seen')
      BY DEF AllCounted
    <3>1. written + Len(unlinked) + ((Len(buf) + 1) - next) = Cardinality(seen)
      BY <1>1, <1>3 DEF Fresh, Late, CorpusInv, AllCounted
    <3>2. Len(unlinked) = 0 /\ written \in Nat
      BY <2>2, NothingInIt DEF CorpusInv, CorpusTypes
    <3>3. written' = written /\ buf' = buf /\ seen' = seen
      BY <1>3 DEF passState
    <3>4. \A w, l, n, m, c \in Int : w + 0 + ((l + 1) - n) = c => w + (m - n + 1) + ((l + 1) - (m + 1)) = c
      OBVIOUS
    <3>5. /\ written \in Int /\ Len(buf) \in Int /\ next \in Int /\ last \in Int
          /\ Cardinality(seen) \in Int
      BY <2>1, <2>2, <3>1, <3>2
    <3>6. written + 0 + ((Len(buf) + 1) - next) = Cardinality(seen)
      BY <3>1, <3>2
    <3>7. written + (last - next + 1) + ((Len(buf) + 1) - (last + 1)) = Cardinality(seen)
      BY <3>4, <3>5, <3>6
    <3>8. Len(unlinked') = last - next + 1 /\ next' = last + 1 /\ Len(buf') = Len(buf)
          /\ Cardinality(seen') = Cardinality(seen)
      BY <2>3, <2>5, <3>3
    <3>9. QED
      BY <3>3, <3>7, <3>8
  <2>13. SameStream'
    BY <1>1, <1>3 DEF CorpusInv, SameStream, Taken, LimitReached, Late, passState
  <2>14. QED
    BY <2>7, <2>8, <2>9, <2>10, <2>11, <2>12, <2>13 DEF CorpusInv
<1>4. QED
  BY <1>2, <1>3 DEF CommitBatch, Fault

LEMMA LinkKeeps == ASSUME CorpusInv, Link PROVE CorpusInv'
<1>1. pc = "link" /\ unlinked # <<>> /\ UNCHANGED corpus
  BY DEF Link
<1>2. CASE Fault /\ Exit /\ UNCHANGED kb
  BY <1>1, <1>2, GivesUpUnchanged DEF Fault
<1>3. CASE /\ kb' = [kb EXCEPT !.linked = @ \cup {Head(unlinked)}]
           /\ unlinked' = Tail(unlinked) /\ written' = written + 1
           /\ UNCHANGED <<cmd, pc, total, same, input, fails, streamed, seen, existing,
                          buf, slot, result, next, runs, faults>>
  <2>1. /\ unlinked \in Seq(Keys) /\ Tail(unlinked) \in Seq(Keys) /\ Head(unlinked) \in Keys
        /\ ToSet(unlinked) = {Head(unlinked)} \cup ToSet(Tail(unlinked))
    BY <1>1, HeadAndTail DEF CorpusInv, CorpusTypes
  <2>2. Len(unlinked) \in Nat \ {0} /\ Len(Tail(unlinked)) = Len(unlinked) - 1
    BY <1>1, <2>1
  <2>3. /\ kb' \in [file : BOOLEAN, leafs : SUBSET Keys, emb : [Keys -> Keys \cup {NoEmb}],
                    linked : SUBSET Keys, fts : {"none", "ok", "orphan"}]
        /\ kb'.leafs = kb.leafs /\ kb'.emb = kb.emb /\ kb'.linked = kb.linked \cup {Head(unlinked)}
    BY <1>3, <2>1 DEF CorpusInv, CorpusTypes
  <2>4. CorpusTypes'
    <3>1. written' \in Nat
      BY <1>3 DEF CorpusInv, CorpusTypes
    <3>2. QED
      BY <1>1, <1>3, <2>1, <2>3, <3>1 DEF CorpusInv, CorpusTypes
  <2>5. ChunkShape' /\ OwnEmbedding'
    <3>1. Len(unlinked') <= Batch
      BY <1>1, <1>3, <2>2, CorpusAssumption DEF CorpusInv, ChunkShape
    <3>2. QED
      BY <1>1, <1>3, <2>3, <3>1 DEF CorpusInv, ChunkShape, OwnEmbedding
  <2>6. OwedIsPaid'
    <3>1. Owed' \subseteq Owed
      BY <1>1, <1>3, <2>1, <2>3 DEF Owed, Unlinked
    <3>2. faults' \in Nat /\ faults <= faults'
      BY <1>3 DEF CorpusInv, CorpusTypes
    <3>3. QED
      BY <3>1, <3>2, OwedStays DEF CorpusInv
  <2>7. AllStored' /\ AllLinked'
    BY <1>1, <1>3, <2>1, <2>3 DEF CorpusInv, AllStored, AllLinked, Waiting, Late
  <2>8. AllCounted'
    <3> SUFFICES ASSUME Fresh' PROVE written' + Len(unlinked') + ((Len(buf') + 1) - next') = Cardinality(seen')
      BY DEF AllCounted
    <3>1. written + Len(unlinked) + ((Len(buf) + 1) - next) = Cardinality(seen)
      BY <1>1, <1>3 DEF Fresh, Late, CorpusInv, AllCounted
    <3>2. written \in Nat /\ next \in Nat /\ Len(buf) \in Nat
      BY DEF CorpusInv, CorpusTypes
    <3>3. (written + 1) + Len(Tail(unlinked)) + ((Len(buf) + 1) - next) = Cardinality(seen)
      BY <2>2, <3>1, <3>2
    <3>4. QED
      BY <1>3, <3>3
  <2>9. SameStream'
    BY <1>1, <1>3 DEF CorpusInv, SameStream, Taken, LimitReached, Late
  <2>10. QED
    BY <2>4, <2>5, <2>6, <2>7, <2>8, <2>9 DEF CorpusInv
<1>4. QED
  BY <1>2, <1>3 DEF Link

LEMMA BatchLinkedKeeps == ASSUME CorpusInv, BatchLinked PROVE CorpusInv'
<1>1. /\ pc = "link" /\ pc' = "batch" /\ unlinked = <<>> /\ ToSet(unlinked) = {}
      /\ UNCHANGED <<corpus, kb, cmd, passState, chunkState, faults>>
  BY NothingInIt DEF BatchLinked
<1>2. CorpusTypes'
  BY <1>1 DEF CorpusInv, CorpusTypes, Late, chunkState, passState
<1>3. ChunkShape' /\ OwnEmbedding'
  BY <1>1 DEF CorpusInv, ChunkShape, OwnEmbedding, chunkState
<1>4. OwedIsPaid'
  BY <1>1 DEF CorpusInv, OwedIsPaid, Owed, Unlinked
<1>5. AllStored' /\ AllLinked' /\ AllCounted'
  BY <1>1 DEF CorpusInv, AllStored, AllLinked, AllCounted, Fresh, Waiting, Late, chunkState, passState
<1>6. SameStream'
  BY <1>1 DEF CorpusInv, SameStream, Taken, LimitReached, Late, passState
<1>7. QED
  BY <1>2, <1>3, <1>4, <1>5, <1>6 DEF CorpusInv

LEMMA ChunkDoneKeeps == ASSUME CorpusInv, ChunkDone PROVE CorpusInv'
<1>1. /\ pc = "batch" /\ pc' = "stream" /\ next > Len(buf) /\ unlinked = <<>>
      /\ buf' = <<>> /\ next' = 1 /\ unlinked' = <<>>
      /\ UNCHANGED <<corpus, kb, cmd, passState, faults>>
  BY DEF ChunkDone, CorpusInv, ChunkShape
<1>2. next = Len(buf) + 1 /\ Len(buf) \in Nat /\ next \in Nat /\ written \in Nat
  BY <1>1 DEF CorpusInv, CorpusTypes, ChunkShape
<1>3. Waiting = {} /\ Waiting' = {}
  <2>1. next .. Len(buf) = {} /\ 1 .. 0 = {}
    BY <1>2
  <2>2. QED
    BY <1>1, <2>1, NothingInIt DEF Waiting
<1>4. CorpusTypes'
  BY <1>1, NothingInIt DEF CorpusInv, CorpusTypes, Late, passState
<1>5. ChunkShape' /\ OwnEmbedding'
  BY <1>1 DEF CorpusInv, ChunkShape, OwnEmbedding
<1>6. OwedIsPaid'
  BY <1>1 DEF CorpusInv, OwedIsPaid, Owed, Unlinked
<1>7. AllStored' /\ AllLinked'
  BY <1>1, <1>3 DEF CorpusInv, AllStored, AllLinked, Late, passState
<1>8. AllCounted'
  <2>1. (Len(buf) + 1) - next = 0 /\ (Len(<<>>) + 1) - 1 = 0 /\ Len(<<>>) = 0
    BY <1>2, NothingInIt
  <2>2. QED
    BY <1>1, <1>2, <2>1 DEF CorpusInv, AllCounted, Fresh, Late, passState
<1>9. SameStream'
  BY <1>1 DEF CorpusInv, SameStream, Taken, LimitReached, Late, passState
<1>10. QED
  BY <1>4, <1>5, <1>6, <1>7, <1>8, <1>9 DEF CorpusInv

LEMMA FactsAreKept ==
    ASSUME CorpusInv, NEW S \in SUBSET FactsFromJSON
    PROVE  /\ UpsertFacts(S) \in
                [file : BOOLEAN, leafs : SUBSET Keys, emb : [Keys -> Keys \cup {NoEmb}],
                 linked : SUBSET Keys, fts : {"none", "ok", "orphan"}]
           /\ UpsertFacts(S).leafs = kb.leafs \cup S /\ UpsertFacts(S).linked = kb.linked
           /\ \A k \in Keys : UpsertFacts(S).emb[k] \in {NoEmb, k}
           /\ S \subseteq FactKeys
<1> DEFINE emb == [k \in Keys |-> IF k \in S /\ cmd.model THEN k ELSE kb.emb[k]]
<1>1. S \subseteq FactKeys /\ S \subseteq Keys
  BY CorpusAssumption DEF FactsFromJSON
<1>2. kb \in [file : BOOLEAN, leafs : SUBSET Keys, emb : [Keys -> Keys \cup {NoEmb}],
              linked : SUBSET Keys, fts : {"none", "ok", "orphan"}]
  BY DEF CorpusInv, CorpusTypes
<1>3. \A k \in Keys : emb[k] \in {NoEmb, k}
  BY DEF CorpusInv, OwnEmbedding
<1>4. emb \in [Keys -> Keys \cup {NoEmb}]
  BY <1>3
<1>5. UpsertFacts(S) = [kb EXCEPT !.leafs = @ \cup S, !.emb = emb]
  BY <1>2 DEF UpsertFacts
<1> HIDE DEF emb
<1>6. UpsertFacts(S) = [file |-> kb.file, leafs |-> kb.leafs \cup S, emb |-> emb, linked |-> kb.linked, fts |-> kb.fts]
  BY <1>2, <1>5
<1>7. QED
  BY <1>1, <1>2, <1>3, <1>4, <1>6

(* A step of the last stages, over an empty chunk.                            *)
LEMMA LastStagesKeep ==
    ASSUME CorpusInv, pc \in {"facts", "fts"}, pc' \in {"fts", "done"},
           UNCHANGED <<corpus, cmd, passState, chunkState, faults>>, OwnEmbedding',
           kb' \in [file : BOOLEAN, leafs : SUBSET Keys, emb : [Keys -> Keys \cup {NoEmb}],
                    linked : SUBSET Keys, fts : {"none", "ok", "orphan"}],
           kb.leafs \subseteq kb'.leafs, kb'.leafs \subseteq kb.leafs \cup FactKeys, kb'.linked = kb.linked
    PROVE  CorpusInv'
<1>1. CorpusTypes'
  BY DEF CorpusInv, CorpusTypes, Late, chunkState, passState
<1>2. ChunkShape'
  BY DEF CorpusInv, ChunkShape, chunkState
<1>3. OwedIsPaid'
  <2>1. Owed' \subseteq Owed
    BY DEF Owed, Unlinked
  <2>2. faults' \in Nat /\ faults <= faults'
    BY DEF CorpusInv, CorpusTypes
  <2>3. QED
    BY <2>1, <2>2, OwedStays DEF CorpusInv
<1>4. AllStored' /\ AllLinked' /\ AllCounted'
  BY DEF CorpusInv, AllStored, AllLinked, AllCounted, Fresh, Waiting, Late, chunkState, passState
<1>5. SameStream'
  BY DEF CorpusInv, SameStream, Taken, LimitReached, Late, passState
<1>6. QED
  BY <1>1, <1>2, <1>3, <1>4, <1>5 DEF CorpusInv

LEMMA FactPassKeeps == ASSUME CorpusInv, FactPass PROVE CorpusInv'
<1>1. pc = "facts" /\ UNCHANGED corpus
  BY DEF FactPass
<1>2. CASE /\ kb' = IF cmd.tool = "index" THEN UpsertFacts(FactsFromJSON) ELSE kb
           /\ pc' = IF cmd.tool = "leaf" THEN "done" ELSE "fts"
           /\ UNCHANGED <<cmd, passState, chunkState, runs, faults>>
  <2>1. CASE kb' = kb
    <3>1. OwnEmbedding'
      BY <2>1 DEF CorpusInv, OwnEmbedding
    <3>2. kb' \in [file : BOOLEAN, leafs : SUBSET Keys, emb : [Keys -> Keys \cup {NoEmb}],
                   linked : SUBSET Keys, fts : {"none", "ok", "orphan"}]
      BY <2>1 DEF CorpusInv, CorpusTypes
    <3>3. QED
      BY <1>1, <1>2, <2>1, <3>1, <3>2, LastStagesKeep
  <2>2. CASE kb' = UpsertFacts(FactsFromJSON)
    <3>1. OwnEmbedding'
      BY <2>2, FactsAreKept DEF OwnEmbedding
    <3>2. QED
      BY <1>1, <1>2, <2>2, <3>1, FactsAreKept, LastStagesKeep
  <2>3. QED
    BY <1>2, <2>1, <2>2
<1>3. CASE Fault /\ Exit /\ \E S \in SUBSET FactsFromJSON : kb' = UpsertFacts(S)
  <2>1. PICK S \in SUBSET FactsFromJSON : kb' = UpsertFacts(S)
    BY <1>3
  <2>2. OwnEmbedding'
    BY <2>1, FactsAreKept DEF OwnEmbedding
  <2>3. QED
    BY <1>1, <1>3, <2>1, <2>2, FactsAreKept, GivesUp DEF Fault
<1>4. QED
  BY <1>2, <1>3 DEF FactPass

LEMMA EnsureIndexesKeeps == ASSUME CorpusInv, EnsureIndexes PROVE CorpusInv'
<1>1. pc = "fts" /\ UNCHANGED corpus
  BY DEF EnsureIndexes
<1>2. CASE Exit /\ UNCHANGED kb /\ faults' \in {faults, faults + 1}
  BY <1>1, <1>2, GivesUpUnchanged
<1>3. ASSUME NEW fts \in {"ok", "orphan"}, kb' = [kb EXCEPT !.fts = fts]
      PROVE  /\ kb' \in [file : BOOLEAN, leafs : SUBSET Keys, emb : [Keys -> Keys \cup {NoEmb}],
                         linked : SUBSET Keys, fts : {"none", "ok", "orphan"}]
             /\ kb'.leafs = kb.leafs /\ kb'.linked = kb.linked /\ kb'.emb = kb.emb
  BY <1>3 DEF CorpusInv, CorpusTypes
<1>4. CASE Exit /\ kb' = [kb EXCEPT !.fts = "orphan"] /\ Fault
  <2>1. OwnEmbedding'
    BY <1>3, <1>4 DEF CorpusInv, OwnEmbedding
  <2>2. QED
    BY <1>1, <1>3, <1>4, <2>1, GivesUp DEF Fault
<1>5. CASE /\ kb' = [kb EXCEPT !.fts = "ok"] /\ pc' = "done"
           /\ UNCHANGED <<cmd, passState, chunkState, runs, faults>>
  <2>1. OwnEmbedding'
    BY <1>3, <1>5 DEF CorpusInv, OwnEmbedding
  <2>2. QED
    BY <1>1, <1>3, <1>5, <2>1, LastStagesKeep
<1>6. QED
  BY <1>2, <1>4, <1>5 DEF EnsureIndexes

LEMMA CorpusStep == ASSUME CorpusInv, CorpusNext PROVE CorpusInv'
<1>1. CASE Done \/ Dies
  BY <1>1, GivesUpUnchanged DEF Done, Dies, Fault
<1>2. CASE CorpusChanges \/ ServeChanges
  <2>1. UNCHANGED <<kb, cmd, pc, total, input, fails, streamed, seen, existing, written,
                    buf, result, next, unlinked, faults>>
    BY <1>2 DEF CorpusChanges, ServeChanges, passState, chunkState
  <2>2. corpus' \in Corpora
    BY <1>2 DEF CorpusChanges, ServeChanges, CorpusInv, CorpusTypes
  <2>3. CASE CorpusChanges
    <3>1. same' = (same /\ pc \notin {"count", "check", "remove", "open"})
      BY <2>3 DEF CorpusChanges
    <3>2. (same' => same) /\ (same' => pc \notin {"count", "check", "remove", "open"})
      BY <3>1
    <3>3. QED
      BY <2>1, <2>2, <3>2, OutsideKeeps
  <2>4. CASE ServeChanges
    BY <2>1, <2>2, <2>4, OutsideKeeps DEF ServeChanges, passState
  <2>5. QED
    BY <1>2, <2>3, <2>4
<1>3. CASE \E i \in DOMAIN slot : Feed(i)
  BY <1>3, OutsideKeeps DEF Feed, passState, CorpusInv, CorpusTypes
<1>4. CASE \E c \in Commands : Start(c)
  BY <1>4, StartKeeps
<1>5. CASE \E i \in DOMAIN slot : Embedded(i)
  BY <1>5, EmbeddedKeeps
<1>6. CASE Count \/ Check \/ RemoveDb \/ Open \/ Emit \/ StreamEnd
  BY <1>6, CountKeeps, CheckKeeps, RemoveDbKeeps, OpenKeeps, EmitKeeps, StreamEndKeeps
<1>7. CASE BeginChunk \/ Join \/ CommitBatch \/ Link \/ BatchLinked \/ ChunkDone \/ FactPass \/ EnsureIndexes
  BY <1>7, BeginChunkKeeps, JoinKeeps, CommitBatchKeeps, LinkKeeps, BatchLinkedKeeps, ChunkDoneKeeps,
     FactPassKeeps, EnsureIndexesKeeps
<1>8. QED
  BY <1>1, <1>2, <1>3, <1>4, <1>5, <1>6, <1>7 DEF CorpusNext, Step

LEMMA CorpusIsInv == CorpusInit /\ [][CorpusNext]_corpusVars => []CorpusInv
<1>1. CorpusInit => CorpusInv
  <2> SUFFICES ASSUME CorpusInit PROVE CorpusInv
    OBVIOUS
  <2>1. CorpusTypes
    BY NothingInIt DEF CorpusInit, CorpusTypes, NoKb
  <2>2. OwedIsPaid
    <3>1. Owed = {}
      BY DEF CorpusInit, Owed, Unlinked, NoKb
    <3>2. Batch * 0 = 0
      BY CorpusAssumption
    <3>3. QED
      BY <3>1, <3>2, FS_EmptySet DEF OwedIsPaid, CorpusInit
  <2>3. QED
    BY <2>1, <2>2 DEF CorpusInit, CorpusInv, ChunkShape, OwnEmbedding, NoKb, AllStored, AllLinked, AllCounted, Fresh,
                      SameStream, Late
<1>2. CorpusInv /\ [CorpusNext]_corpusVars => CorpusInv'
  <2>1. CorpusInv /\ UNCHANGED corpusVars => CorpusInv'
    BY OutsideKeeps DEF CorpusInv, CorpusTypes, corpusVars, passState, chunkState
  <2>2. QED
    BY <2>1, CorpusStep
<1>3. QED
  BY <1>1, <1>2, PTL

(* A program that reports success has stored every leaf it read, each with    *)
(* the embedding of its own text, in as many leafs as the dry run counted,    *)
(* for any corpus, chunk, batch and number of workers, and after any run that *)
(* failed (corpus_chunk.go, WriteCorpusChunked; corpus.go, WriteCorpus).      *)
THEOREM SuccessStoresAll == CorpusInit /\ [][CorpusNext]_corpusVars => []RunIsComplete
<1>1. CorpusInv => RunIsComplete
  <2> SUFFICES ASSUME CorpusInv PROVE RunIsComplete
    OBVIOUS
  <2>1. pc = "done" => seen \subseteq kb.leafs
    <3>1. pc = "done" => Waiting = {}
      BY NothingInIt DEF CorpusInv, ChunkShape, Waiting
    <3>2. QED
      BY <3>1 DEF CorpusInv, AllStored, Late
  <2>2. CountIsWritten
    <3> SUFFICES ASSUME pc = "done", cmd.tool = "index", ~cmd.skip, same
                 PROVE  written = total /\ total = Cardinality(seen)
      BY DEF CountIsWritten
    <3>1. written = Cardinality(seen)
      <4>1. buf = <<>> /\ unlinked = <<>> /\ next = 1 /\ written \in Nat
        BY DEF CorpusInv, CorpusTypes, ChunkShape
      <4>2. written + Len(unlinked) + ((Len(buf) + 1) - next) = Cardinality(seen)
        BY DEF CorpusInv, AllCounted, Fresh, Late
      <4>3. QED
        BY <4>1, <4>2, NothingInIt
    <3>2. PICK s \in Seq(Keys) : total = CountCorpus(s, cmd.limit) /\ Taken(s)
      BY DEF CorpusInv, SameStream, Late
    <3>3. (IF cmd.limit > 0 /\ cmd.limit < Len(s) THEN cmd.limit ELSE Len(s)) = streamed
      <4>1. cmd.limit \in Nat /\ Len(s) \in Nat /\ streamed \in Nat
        BY CorpusAssumption DEF CorpusInv, CorpusTypes
      <4>2. /\ streamed <= Len(s)
            /\ cmd.limit > 0 => streamed <= cmd.limit
            /\ streamed = Len(s) \/ (cmd.limit > 0 /\ streamed >= cmd.limit)
        BY <3>2 DEF Taken, LimitReached
      <4>3. QED
        BY <4>1, <4>2
    <3>4. QED
      BY <3>1, <3>2, <3>3 DEF CountCorpus, Taken
  <2>3. QED
    BY <2>1, <2>2 DEF RunIsComplete, CorpusInv
<1>2. QED
  BY <1>1, CorpusIsInv, PTL

(* A leaf is committed in one step and linked to its file in another: what    *)
(* stays without its link is bounded by a batch for each failure, and a       *)
(* success without --skip leaves nothing of what it read so (corpus.go,       *)
(* WriteCorpus).                                                              *)
THEOREM FailuresLeaveABatch == CorpusInit /\ [][CorpusNext]_corpusVars => []LinkLoss
<1>1. CorpusInv => LinkLoss
  <2> SUFFICES ASSUME CorpusInv PROVE LinkLoss
    OBVIOUS
  <2>1. Cardinality(Unlinked) <= Batch * (faults + (IF pc = "link" THEN 1 ELSE 0))
    <3>1. faults \in Nat /\ Batch \in Nat /\ Cardinality(Owed) <= Batch * faults
      BY CorpusAssumption DEF CorpusInv, CorpusTypes, OwedIsPaid
    <3>2. CASE pc # "link"
      BY <3>1, <3>2 DEF Owed
    <3>3. CASE pc = "link"
      <4>1. /\ IsFiniteSet(ToSet(unlinked)) /\ Cardinality(ToSet(unlinked)) \in Nat /\ Len(unlinked) \in Nat
            /\ Cardinality(ToSet(unlinked)) <= Len(unlinked) /\ Len(unlinked) <= Batch
        BY <3>3, SetIsShort DEF CorpusInv, CorpusTypes, ChunkShape
      <4>2. IsFiniteSet(Owed)
        BY CorpusAssumption, FS_Subset DEF CorpusInv, CorpusTypes, Owed, Unlinked
      <4>3. /\ IsFiniteSet(Owed \cup ToSet(unlinked)) /\ Cardinality(Owed) \in Nat
            /\ Cardinality(Owed \cup ToSet(unlinked)) \in Nat
            /\ Cardinality(Owed \cup ToSet(unlinked)) <= Cardinality(Owed) + Cardinality(ToSet(unlinked))
        BY <4>1, <4>2, UnionCount
      <4>4. Unlinked \subseteq Owed \cup ToSet(unlinked)
        BY <3>3 DEF Owed
      <4>5. Cardinality(Unlinked) \in Nat /\ Cardinality(Unlinked) <= Cardinality(Owed \cup ToSet(unlinked))
        BY <4>3, <4>4, FS_Subset, FS_CardinalityType
      <4>6. Batch * (faults + 1) = Batch * faults + Batch /\ Batch * faults \in Nat
        <5>1. \A b, f \in Nat : b * (f + 1) = b * f + b /\ b * f \in Nat
          OBVIOUS
        <5>2. QED
          BY <3>1, <5>1
      <4>7. \A a, b, c, d, e, f, g \in Nat : a <= b /\ b <= c + d /\ d <= e /\ e <= f /\ c <= g => a <= g + f
        OBVIOUS
      <4>8. Cardinality(Unlinked) <= Batch * faults + Batch
        BY <3>1, <4>1, <4>3, <4>5, <4>6, <4>7
      <4>9. QED
        BY <3>3, <4>6, <4>8
    <3>4. QED
      BY <3>2, <3>3
  <2>2. pc = "done" /\ ~cmd.skip => seen \subseteq kb.linked
    <3>1. pc = "done" => Waiting = {} /\ ToSet(unlinked) = {}
      BY NothingInIt DEF CorpusInv, ChunkShape, Waiting
    <3>2. QED
      BY <3>1 DEF CorpusInv, AllLinked, Late
  <2>3. QED
    BY <2>1, <2>2 DEF LinkLoss
<1>2. QED
  BY <1>1, CorpusIsInv, PTL

-----------------------------------------------------------------------------
(* GraphImport. *)

(* Rows of one message each, in which a reply is in the thread of its parent  *)
(* unless it is a thread of its own.                                          *)
OneEach(rs) == \A x, y \in rs : x.id = y.id => x = y
ThreadsAgree(rs) == \A x, y \in rs : x.reply = y.id /\ x.thread # x.id => x.thread = y.thread

LEMMA ChainStep ==
    ASSUME NEW rs, NEW x \in rs, Known(rs, x.reply)
    PROVE  Tops(rs, x) = Tops(rs, RowOf(rs, x.reply))
<1> DEFINE Above(y) == RowOf(rs, y.reply)
           Closed(up) == \A y \in up : Known(rs, y.reply) => Above(y) \in up
           p == Above(x)
<1>1. \A y \in rs : Known(rs, y.reply) => Above(y) \in rs
  BY DEF Known, RowOf
<1>2. \A m, r : r \in Chain(rs, m) <=> r \in rs /\ \A up \in SUBSET rs : m \in up /\ Closed(up) => r \in up
  BY DEF Chain
<1> HIDE DEF Above
<1>3. Chain(rs, p) \subseteq Chain(rs, x)
  BY <1>2
<1>4. Chain(rs, x) \subseteq {x} \cup Chain(rs, p)
  <2> DEFINE up == {x} \cup Chain(rs, p)
  <2>1. up \in SUBSET rs /\ x \in up
    BY <1>2
  <2>2. p \in Chain(rs, p)
    BY <1>1, <1>2
  <2>3. ASSUME NEW y \in Chain(rs, p), Known(rs, y.reply) PROVE Above(y) \in Chain(rs, p)
    BY <1>1, <1>2, <2>3
  <2>4. Closed(up)
    BY <2>2, <2>3
  <2> HIDE DEF up, Closed
  <2>5. Chain(rs, x) \subseteq up
    BY <1>2, <2>1, <2>4
  <2>6. QED
    BY <2>5 DEF up
<1>5. QED
  BY <1>3, <1>4 DEF Tops, Above

LEMMA MailRowsAgree ==
    ASSUME NEW rs, IsFiniteSet(rs), OneEach(rs), \A r \in rs : r.id \in Mails \cup {NoId} /\ r.date \in Nat
    PROVE  /\ IsFiniteSet(MailRows(rs)) /\ OneEach(MailRows(rs)) /\ ThreadsAgree(MailRows(rs))
           /\ \A r \in MailRows(rs) : r.id \in Mails /\ r.date \in Nat
<1> DEFINE kept == {m \in rs : m.id # NoId}
<1>1. \A r : /\ Input(rs, r).id = r.id /\ Input(rs, r).date = r.date /\ Input(rs, r).reply = r.reply
             /\ Input(rs, r).thread = ThreadRoot(rs, r)
  BY DEF Input
<1>2. \A x \in MailRows(rs) : \E a \in kept : x = Input(rs, a)
  BY DEF MailRows
<1>3. IsFiniteSet(MailRows(rs))
  <2> DEFINE f == [r \in kept |-> Input(rs, r)]
  <2>1. f \in Surjection(kept, MailRows(rs))
    BY DEF Surjection, MailRows
  <2>2. IsFiniteSet(kept)
    BY FS_Subset
  <2> HIDE DEF f
  <2>3. QED
    BY <2>1, <2>2, FS_Surjection
<1>4. OneEach(MailRows(rs))
  BY <1>1, <1>2 DEF OneEach
<1>5. ThreadsAgree(MailRows(rs))
  <2> SUFFICES ASSUME NEW x \in MailRows(rs), NEW y \in MailRows(rs), x.reply = y.id, x.thread # x.id
               PROVE  x.thread = y.thread
    BY DEF ThreadsAgree
  <2>1. PICK a \in kept, b \in kept : x = Input(rs, a) /\ y = Input(rs, b)
    BY <1>2
  <2>2. Known(rs, a.reply) /\ RowOf(rs, a.reply) = b
    <3>1. a.reply = b.id /\ b \in rs /\ b.id # NoId
      BY <1>1, <2>1
    <3>2. \A r \in rs : r.id = a.reply => r = b
      BY <3>1 DEF OneEach
    <3>3. QED
      BY <3>1, <3>2 DEF Known, RowOf
  <2>3. Tops(rs, a) = Tops(rs, b)
    BY <2>2, ChainStep
  <2>4. Tops(rs, a) # {} /\ x.thread = RootId(Tops(rs, a)) /\ y.thread = ThreadRoot(rs, b)
    BY <1>1, <2>1 DEF ThreadRoot
  <2>5. QED
    BY <2>3, <2>4 DEF ThreadRoot
<1>6. QED
  BY <1>1, <1>2, <1>3, <1>4, <1>5

GraphTypes ==
    /\ hive \in Hives /\ gcmd \in GraphCommands
    /\ DOMAIN graph.thread = Mails /\ DOMAIN tx.thread = Mails
    /\ gpc \in {"idle", "read"} => readRows = {}

(* What a run of mail-graph has read, and the order it writes it in.          *)
MailRun == gcmd.tool = "mail" /\ gpc \in {"write", "batch", "done"}
RowsRead ==
    gcmd.tool = "mail" =>
        /\ IsFiniteSet(readRows) /\ OneEach(readRows) /\ ThreadsAgree(readRows)
        /\ \A r \in readRows : r.id \in Mails /\ r.date \in Nat
InputsRanked ==
    MailRun =>
        /\ DOMAIN inputs = 1 .. Len(inputs) /\ Len(inputs) \in Nat
        /\ \A i \in DOMAIN inputs : inputs[i] \in readRows
        /\ \A i, j \in DOMAIN inputs : i < j => inputs[i] # inputs[j] /\ ~Earlier(inputs[j], inputs[i])
        /\ cursor \in Nat \ {0} /\ cursor <= Len(inputs) + 1
        /\ gpc = "batch" => upto \in Nat /\ upto <= Len(inputs) + 1
        /\ gpc = "done" => cursor = Len(inputs) + 1

(* The graph a run has in view holds what it held before, every message the   *)
(* run has been at, in its thread, and the edges whose other end was there.   *)
View == IF gpc = "batch" THEN tx ELSE graph
Reply(i) == <<"REPLY_TO", inputs[i].id, inputs[i].reply>>
Linkable(i) ==
    /\ inputs[i].reply \notin {NoId, inputs[i].id}
    /\ inputs[i].reply \in before.message \/ \E j \in DOMAIN inputs : j < i /\ inputs[j].id = inputs[i].reply
WrittenSoFar ==
    MailRun =>
        /\ before.message \subseteq View.message
        /\ \A i \in DOMAIN inputs : i < cursor =>
              /\ inputs[i].id \in View.message /\ View.thread[inputs[i].id] = inputs[i].thread
              /\ Linkable(i) => Reply(i) \in View.edges
GraphInv == GraphTypes /\ RowsRead /\ InputsRanked /\ WrittenSoFar

LEMMA GraphBegins == GraphInit => GraphInv
<1>1. DOMAIN NoGraph.thread = Mails
  BY DEF NoGraph
<1>2. QED
  BY <1>1, FS_EmptySet DEF GraphInit, GraphInv, GraphTypes, RowsRead, InputsRanked, WrittenSoFar, MailRun,
                           OneEach, ThreadsAgree

(* Whatever is written, the threads of a graph are those of all messages.     *)
LEMMA RowFacts ==
    ASSUME NEW g, NEW r
    PROVE  /\ DOMAIN RowUpserted(g, r).thread = DOMAIN g.thread /\ DOMAIN RowNodes(g, r).thread = DOMAIN g.thread
           /\ gcmd.tool = "mail" =>
                 /\ RowUpserted(g, r).message = g.message \cup {r.id}
                 /\ RowUpserted(g, r).thread = [g.thread EXCEPT ![r.id] = r.thread]
                 /\ g.edges \subseteq RowUpserted(g, r).edges
                 /\ r.reply \notin {NoId, r.id} /\ r.reply \in g.message =>
                       <<"REPLY_TO", r.id, r.reply>> \in RowUpserted(g, r).edges
<1>1. /\ MessageNodes(g, r).message = g.message \cup {r.id} /\ MessageNodes(g, r).edges = g.edges
      /\ MessageNodes(g, r).thread = [g.thread EXCEPT ![r.id] = r.thread]
      /\ CommitNodes(g, r).thread = g.thread
  BY DEF MessageNodes, CommitNodes
<1>2. /\ UpsertMessage(g, r).message = g.message \cup {r.id}
      /\ UpsertMessage(g, r).thread = [g.thread EXCEPT ![r.id] = r.thread]
      /\ UpsertMessage(g, r).edges = g.edges \cup {e \in PlanGraph(r) : Ends(g.message \cup {r.id}, e)}
      /\ UpsertCommit(g, r).thread = g.thread
  BY <1>1 DEF UpsertMessage, UpsertCommit
<1>3. r.reply \notin {NoId, r.id} /\ r.reply \in g.message =>
        <<"REPLY_TO", r.id, r.reply>> \in {e \in PlanGraph(r) : Ends(g.message \cup {r.id}, e)}
  BY DEF PlanGraph, Ends
<1>4. QED
  BY <1>1, <1>2, <1>3 DEF RowUpserted, RowNodes

(* Steps between two runs, and those of a run that end it.                    *)
LEMMA AtRest ==
    ASSUME GraphInv, gpc' = "idle", readRows' = {}, gcmd' \in GraphCommands, hive' \in Hives,
           DOMAIN graph'.thread = Mails, DOMAIN tx'.thread = Mails
    PROVE  GraphInv'
BY FS_EmptySet DEF GraphInv, GraphTypes, RowsRead, InputsRanked, WrittenSoFar, MailRun, OneEach, ThreadsAgree

LEMMA AroundKeeps ==
    ASSUME GraphInv,
           CollectorsWrite \/ HolderChanges \/ IndexRebuilt \/ (\E c \in GraphCommands : GraphStart(c)) \/ UNCHANGED graphVars
    PROVE  GraphInv'
<1>1. DOMAIN NoGraph.thread = Mails
  BY DEF NoGraph
<1>2. CASE CollectorsWrite \/ HolderChanges \/ UNCHANGED graphVars
  <2>1. UNCHANGED <<graph, gcmd, gpc, readRows, inputs, cursor, tx, upto, started, before>> /\ hive' \in Hives
    BY <1>2 DEF CollectorsWrite, HolderChanges, batchVars, graphVars, GraphInv, GraphTypes
  <2>2. GraphTypes' /\ RowsRead' /\ InputsRanked'
    BY <2>1 DEF GraphInv, GraphTypes, RowsRead, InputsRanked, MailRun
  <2>3. WrittenSoFar'
    BY <2>1 DEF GraphInv, WrittenSoFar, MailRun, View, Linkable, Reply
  <2>4. QED
    BY <2>2, <2>3 DEF GraphInv
<1>3. CASE IndexRebuilt
  BY <1>1, <1>3, AtRest DEF IndexRebuilt, batchVars, GraphInv, GraphTypes
<1>4. CASE \E c \in GraphCommands : GraphStart(c)
  <2>1. /\ gpc' = "read" /\ gcmd' \in GraphCommands /\ readRows' = {}
        /\ UNCHANGED <<hive, graph, tx>>
    BY <1>4 DEF GraphStart, batchVars, GraphInv, GraphTypes
  <2>2. QED
    BY <2>1, FS_EmptySet DEF GraphInv, GraphTypes, RowsRead, InputsRanked, WrittenSoFar, MailRun, OneEach, ThreadsAgree
<1>5. QED
  BY <1>2, <1>3, <1>4

LEMMA ReadKeeps == ASSUME GraphInv, ReadRows \/ EnsureWritable PROVE GraphInv'
<1>1. CASE GraphExit
  BY <1>1, AtRest DEF ReadRows, EnsureWritable, GraphExit, batchVars, GraphInv, GraphTypes
<1>2. CASE EnsureWritable /\ ~GraphExit
  BY <1>2 DEF EnsureWritable, batchVars, GraphInv, GraphTypes, RowsRead, InputsRanked, WrittenSoFar, MailRun
<1>3. CASE ReadRows /\ ~GraphExit
  <2>1. /\ gpc' = "guard" /\ UNCHANGED <<hive, gcmd, graph, tx>>
        /\ gcmd.tool = "mail" => readRows' = MailRows(MapRows(ReadSQL(hive, gcmd.channel)))
    BY <1>3 DEF ReadRows, batchVars
  <2>2. GraphTypes' /\ InputsRanked' /\ WrittenSoFar'
    BY <2>1 DEF GraphInv, GraphTypes, InputsRanked, WrittenSoFar, MailRun
  <2>3. ASSUME gcmd.tool = "mail" PROVE RowsRead'
    <3> DEFINE rs == MapRows(ReadSQL(hive, gcmd.channel))
    <3>1. rs \subseteq hive[gcmd.channel] /\ \A r \in rs : r = Latest(hive[gcmd.channel], r.id)
      BY DEF MapRows, ReadSQL
    <3>2. IsFiniteSet(hive[gcmd.channel]) /\ \A r \in hive[gcmd.channel] : r.id \in Mails \cup {NoId} /\ r.date \in Nat
      BY <2>3, GraphAssumption DEF GraphInv, GraphTypes
    <3>3. OneEach(rs)
      BY <3>1 DEF OneEach
    <3>4. IsFiniteSet(rs) /\ \A r \in rs : r.id \in Mails \cup {NoId} /\ r.date \in Nat
      BY <3>1, <3>2, FS_Subset
    <3> HIDE DEF rs
    <3>5. /\ IsFiniteSet(MailRows(rs)) /\ OneEach(MailRows(rs)) /\ ThreadsAgree(MailRows(rs))
          /\ \A r \in MailRows(rs) : r.id \in Mails /\ r.date \in Nat
      BY <3>3, <3>4, MailRowsAgree
    <3>6. readRows' = MailRows(rs)
      BY <2>1, <2>3 DEF rs
    <3>7. QED
      BY <3>5, <3>6 DEF RowsRead
  <2>4. QED
    BY <2>1, <2>2, <2>3 DEF GraphInv, RowsRead
<1>4. QED
  BY <1>1, <1>2, <1>3

LEMMA OpenGraphKeeps == ASSUME GraphInv, OpenGraph PROVE GraphInv'
<1>1. CASE GraphExit
  BY <1>1, AtRest DEF OpenGraph, GraphExit, batchVars, GraphInv, GraphTypes
<1>2. CASE ~GraphExit
  <2> DEFINE S == {r \in readRows : gcmd.skip => ~InGraph(graph, r)}
  <2>1. /\ gpc' = "write" /\ before' = graph /\ cursor' = 1 /\ inputs' \in Ranked(S, Earlier)
        /\ UNCHANGED <<hive, gcmd, graph, tx, readRows>>
    BY <1>2 DEF OpenGraph, batchVars
  <2>2. GraphTypes' /\ RowsRead'
    BY <2>1 DEF GraphInv, GraphTypes, RowsRead
  <2>3. S \subseteq readRows
    OBVIOUS
  <2> HIDE DEF S
  <2>4. ASSUME gcmd.tool = "mail" PROVE InputsRanked' /\ WrittenSoFar'
    <3>1. Cardinality(S) \in Nat
      BY <2>3, <2>4, FS_Subset, FS_CardinalityType DEF GraphInv, RowsRead
    <3>2. /\ DOMAIN inputs' = 1 .. Cardinality(S) /\ inputs' \in [1 .. Cardinality(S) -> S]
          /\ \A i, j \in DOMAIN inputs' : i < j => inputs'[i] # inputs'[j] /\ ~Earlier(inputs'[j], inputs'[i])
      BY <2>1 DEF Ranked
    <3>3. Len(inputs') = Cardinality(S)
      BY <3>1, <3>2
    <3>4. InputsRanked'
      BY <2>1, <2>3, <3>1, <3>2, <3>3 DEF InputsRanked
    <3>5. WrittenSoFar'
      <4>1. View' = graph
        BY <2>1 DEF View
      <4>2. \A i \in DOMAIN inputs' : ~(i < cursor')
        BY <2>1, <3>1, <3>2
      <4>3. QED
        BY <2>1, <4>1, <4>2 DEF WrittenSoFar
    <3>6. QED
      BY <3>4, <3>5
  <2>5. QED
    BY <2>1, <2>2, <2>4 DEF GraphInv, InputsRanked, WrittenSoFar, MailRun
<1>3. QED
  BY <1>1, <1>2

LEMMA BetweenKeeps ==
    ASSUME GraphInv, BeginBatch \/ Written \/ GraphDone PROVE GraphInv'
<1>1. CASE GraphDone
  BY <1>1, AtRest DEF GraphDone, GraphExit, batchVars, GraphInv, GraphTypes
<1>2. CASE BeginBatch \/ Written
  <2>1. UNCHANGED <<hive, gcmd, graph, readRows, inputs, cursor, before>> /\ gpc = "write" /\ gpc' \in {"batch", "done"}
    BY <1>2 DEF BeginBatch, Written
  <2>2. View = graph /\ View' = graph
    BY <1>2 DEF BeginBatch, Written, View
  <2>3. GraphTypes' /\ RowsRead'
    BY <1>2, <2>1 DEF BeginBatch, Written, batchVars, GraphInv, GraphTypes, RowsRead
  <2>4. InputsRanked'
    <3>1. MailRun' => MailRun
      BY <2>1 DEF MailRun
    <3>2. ASSUME MailRun, BeginBatch PROVE upto' \in Nat /\ upto' <= Len(inputs) + 1
      BY <3>2, GraphAssumption DEF BeginBatch, GraphInv, InputsRanked
    <3>3. ASSUME MailRun, Written PROVE cursor = Len(inputs) + 1
      BY <3>3 DEF Written, GraphInv, InputsRanked
    <3>4. BeginBatch => gpc' = "batch"
      BY DEF BeginBatch
    <3>5. Written => gpc' = "done"
      BY DEF Written
    <3>6. QED
      BY <1>2, <2>1, <3>1, <3>2, <3>3, <3>4, <3>5 DEF GraphInv, InputsRanked
  <2>5. WrittenSoFar'
    BY <2>1, <2>2 DEF GraphInv, WrittenSoFar, MailRun, Linkable, Reply
  <2>6. QED
    BY <2>3, <2>4, <2>5 DEF GraphInv
<1>3. QED
  BY <1>1, <1>2

LEMMA UpsertKeeps == ASSUME GraphInv, UpsertNext PROVE GraphInv'
<1> DEFINE r == inputs[cursor]
<1>1. CASE GraphExit /\ BatchOver
  <2>1. DOMAIN graph'.thread = Mails
    <3>1. graph' = graph \/ graph' = RowNodes(graph, r)
      BY <1>1 DEF UpsertNext, GraphExit
    <3>2. DOMAIN graph.thread = Mails /\ DOMAIN RowNodes(graph, r).thread = DOMAIN graph.thread
      BY RowFacts DEF GraphInv, GraphTypes
    <3>3. QED
      BY <3>1, <3>2
  <2>2. DOMAIN tx'.thread = Mails
    BY <1>1 DEF BatchOver, NoGraph
  <2>3. QED
    BY <1>1, <2>1, <2>2, AtRest DEF UpsertNext, GraphExit, GraphInv, GraphTypes
<1>2. CASE tx' = RowUpserted(tx, r) /\ cursor' = cursor + 1 /\ graph' \in {graph, tx'} /\ UNCHANGED <<gpc, readRows, inputs, upto, before>>
  <2>1. gpc = "batch" /\ gpc' = "batch" /\ UNCHANGED <<hive, gcmd>> /\ cursor < upto
    BY <1>2 DEF UpsertNext
  <2>2. GraphTypes' /\ RowsRead'
    <3>1. DOMAIN tx'.thread = Mails
      BY <1>2, RowFacts DEF GraphInv, GraphTypes
    <3>2. QED
      BY <1>2, <2>1, <3>1 DEF GraphInv, GraphTypes, RowsRead
  <2>3. ASSUME MailRun PROVE InputsRanked' /\ WrittenSoFar'
    <3>1. /\ cursor \in DOMAIN inputs /\ cursor \in Nat /\ \A i \in DOMAIN inputs : i \in Nat
          /\ cursor + 1 <= Len(inputs) + 1
      BY <2>1, <2>3 DEF GraphInv, InputsRanked
    <3>2. InputsRanked'
      BY <1>2, <2>1, <2>3, <3>1 DEF GraphInv, InputsRanked, MailRun
    <3>3. View = tx /\ View' = tx'
      BY <2>1 DEF View
    <3>4. /\ tx'.message = tx.message \cup {r.id} /\ tx'.thread = [tx.thread EXCEPT ![r.id] = r.thread]
          /\ tx.edges \subseteq tx'.edges
          /\ r.reply \notin {NoId, r.id} /\ r.reply \in tx.message => Reply(cursor) \in tx'.edges
      BY <1>2, <2>3, RowFacts DEF MailRun, Reply
    <3>5. \A i \in DOMAIN inputs : i < cursor => inputs[i].id # r.id
      BY <2>3, <3>1 DEF GraphInv, InputsRanked, RowsRead, OneEach, MailRun
    <3>6. r.id \in DOMAIN tx.thread
      BY <2>3, <3>1 DEF GraphInv, GraphTypes, InputsRanked, RowsRead, MailRun
    <3>7. \A i \in DOMAIN inputs : (Linkable(i)' <=> Linkable(i)) /\ Reply(i)' = Reply(i)
      BY <1>2 DEF Linkable, Reply
    <3>8. Linkable(cursor) => r.reply \in tx.message
      BY <2>3, <3>1, <3>3 DEF Linkable, GraphInv, WrittenSoFar
    <3>9. ASSUME NEW i \in DOMAIN inputs, i < cursor + 1
          PROVE  /\ inputs[i].id \in tx'.message /\ tx'.thread[inputs[i].id] = inputs[i].thread
                 /\ Linkable(i) => Reply(i) \in tx'.edges
      <4>1. CASE i = cursor
        BY <3>4, <3>6, <3>8, <4>1 DEF Linkable
      <4>2. CASE i < cursor
        BY <2>3, <3>3, <3>4, <3>5, <4>2 DEF GraphInv, WrittenSoFar
      <4>3. QED
        BY <3>1, <3>9, <4>1, <4>2
    <3>10. before.message \subseteq tx'.message
      BY <2>3, <3>3, <3>4 DEF GraphInv, WrittenSoFar
    <3>11. WrittenSoFar'
      BY <1>2, <3>3, <3>7, <3>9, <3>10 DEF WrittenSoFar
    <3>12. QED
      BY <3>2, <3>11
  <2>4. MailRun' <=> MailRun
    BY <2>1 DEF MailRun
  <2>5. QED
    BY <2>2, <2>3, <2>4 DEF GraphInv, InputsRanked, WrittenSoFar
<1>3. QED
  BY <1>1, <1>2 DEF UpsertNext

LEMMA EndKeeps == ASSUME GraphInv, EndTransaction PROVE GraphInv'
<1>1. DOMAIN tx'.thread = Mails
  BY DEF EndTransaction, BatchOver, NoGraph
<1>2. CASE GraphExit /\ UNCHANGED graph
  BY <1>1, <1>2, AtRest DEF EndTransaction, GraphExit, GraphInv, GraphTypes
<1>3. CASE gpc' = "write" /\ graph' = tx /\ UNCHANGED <<readRows, inputs, cursor, before>>
  <2>1. gpc = "batch" /\ UNCHANGED <<hive, gcmd>> /\ View' = tx /\ View = tx /\ (MailRun' <=> MailRun)
    BY <1>3 DEF EndTransaction, View, MailRun
  <2>2. GraphTypes' /\ RowsRead' /\ InputsRanked'
    BY <1>1, <1>3, <2>1 DEF GraphInv, GraphTypes, RowsRead, InputsRanked
  <2>3. WrittenSoFar'
    BY <1>3, <2>1 DEF GraphInv, WrittenSoFar, Linkable, Reply
  <2>4. QED
    BY <2>2, <2>3 DEF GraphInv
<1>4. QED
  BY <1>2, <1>3 DEF EndTransaction

LEMMA RunsLink == ASSUME GraphInv PROVE ConversationsLinked
<1>1. MailDone => MailRun /\ View = graph /\ cursor = Len(inputs) + 1
  BY DEF MailDone, MailRun, View, GraphInv, InputsRanked
<1>2. ASSUME MailDone, NEW i \in DOMAIN inputs
      PROVE  /\ graph.thread[inputs[i].id] = inputs[i].thread
             /\ Linkable(i) => Reply(i) \in graph.edges
  <2>1. i < cursor
    BY <1>1, <1>2 DEF GraphInv, InputsRanked
  <2>2. QED
    BY <1>1, <1>2, <2>1 DEF GraphInv, WrittenSoFar
<1>3. RepliesLinked
  <2> SUFFICES ASSUME MailDone, NEW i \in DOMAIN inputs, inputs[i].reply \notin {NoId, inputs[i].id},
                      Reply(i) \notin graph.edges
               PROVE  /\ inputs[i].reply \notin before.message
                      /\ \A j \in DOMAIN inputs : inputs[j].id = inputs[i].reply =>
                            inputs[j].date = 0 \/ (inputs[i].date # 0 /\ inputs[j].date >= inputs[i].date)
    BY DEF RepliesLinked, Reply
  <2>1. inputs[i].reply \notin before.message /\ \A j \in DOMAIN inputs : j < i => inputs[j].id # inputs[i].reply
    BY <1>2 DEF Linkable
  <2>2. ASSUME NEW j \in DOMAIN inputs, inputs[j].id = inputs[i].reply
        PROVE  inputs[j].date = 0 \/ (inputs[i].date # 0 /\ inputs[j].date >= inputs[i].date)
    <3>1. i < j
      <4>1. i \in Nat /\ j \in Nat
        BY <1>1 DEF GraphInv, InputsRanked
      <4>2. i # j /\ ~(j < i)
        BY <2>1, <2>2
      <4>3. QED
        BY <4>1, <4>2
    <3>2. ~Earlier(inputs[j], inputs[i]) /\ inputs[i] \in readRows /\ inputs[j] \in readRows
      BY <1>1, <3>1 DEF GraphInv, InputsRanked
    <3>3. inputs[i].date \in Nat /\ inputs[j].date \in Nat
      BY <1>1, <3>2 DEF GraphInv, RowsRead, MailRun
    <3>4. \A a, b \in Nat : ~(a < b) => a >= b
      OBVIOUS
    <3>5. QED
      BY <3>2, <3>3, <3>4 DEF Earlier
  <2>3. QED
    BY <2>1, <2>2
<1>4. ThreadsJoined
  <2> SUFFICES ASSUME MailDone, NEW i \in DOMAIN inputs, NEW j \in DOMAIN inputs,
                      inputs[i].reply = inputs[j].id, inputs[i].thread # inputs[i].id
               PROVE  graph.thread[inputs[i].id] = graph.thread[inputs[j].id]
    BY DEF ThreadsJoined, Imported
  <2>1. inputs[i] \in readRows /\ inputs[j] \in readRows /\ ThreadsAgree(readRows)
    BY <1>1 DEF GraphInv, InputsRanked, RowsRead, MailRun
  <2>2. QED
    BY <1>2, <2>1 DEF ThreadsAgree
<1>5. QED
  BY <1>3, <1>4 DEF ConversationsLinked

(* Whatever channels are imported in whatever order, with failing statements, *)
(* batches that are no transactions and a database rebuilt between two runs:  *)
(* a run that ends well has linked every reply to a parent that was in the    *)
(* graph or comes before it in the order of the dates, and has put replies in *)
(* the threads of their parents (mailgraph.go, threadRoot, SortByDate;        *)
(* graph.go, upsertMessage).                                                  *)
THEOREM RunsJoinConversations == GraphSpec => []ConversationsLinked
<1>1. GraphInit => GraphInv
  BY GraphBegins
<1>2. GraphInv /\ [GraphNext]_graphVars => GraphInv'
  BY AroundKeeps, ReadKeeps, OpenGraphKeeps, BetweenKeeps, UpsertKeeps, EndKeeps DEF GraphNext
<1>3. GraphInv => ConversationsLinked
  BY RunsLink
<1>4. QED
  BY <1>1, <1>2, <1>3, PTL DEF GraphSpec

-----------------------------------------------------------------------------
(* DocTables. *)

(* A cell of a row made of fragments of S.                                    *)
CellIn(S) == [text : SUBSET S, x : Int, y : Int, w : Nat]
Sorted(row) == \A k \in 2..Len(row) : row[k - 1].x <= row[k].x
IsLine(row, F) ==
    /\ row \in Seq(CellIn(F)) /\ RowFragments(row) = F /\ F # {} /\ Len(row) = Cardinality(F)
    /\ Sorted(row)
    /\ \A k \in DOMAIN row : \E f \in F : row[k].y = f.y
On(ls, k) == RowFragments(ls[k])
Over(F, G) == \A a \in F, b \in G : a.y < b.y

DocTypes ==
    /\ doc \in Documents /\ page \in Nat \ {0} /\ box \in Nat \ {0}
    /\ dpc \in {"fast", "lit"} => page = 1 /\ box = 1 /\ tables = {}
    /\ method = "liteparse" => dpc \in {"page", "rows", "done"}
    /\ method = "liteparse" /\ dpc = "done" => page > Len(doc.pages)
    /\ page \in DOMAIN doc.pages => IF Boxed THEN box \in DOMAIN Page.boxes ELSE box = 1
    /\ dpc = "rows" => page \in DOMAIN doc.pages /\ tableIdx \in Nat /\ lineNo \in Nat \ {0}

(* The lines ls have the fragments of items that are not in r, each below the *)
(* one before; where the lines keep apart, they are those of items.           *)
LinesIn(items, r, ls) ==
    /\ r \subseteq items /\ ls \in Seq(Seq(CellIn(items)))
    /\ \A k \in DOMAIN ls : IsLine(ls[k], On(ls, k)) /\ On(ls, k) \subseteq items /\ Over(On(ls, k), r)
    /\ \A f \in items : f \in r \/ \E k \in DOMAIN ls : f \in On(ls, k)
    /\ \A k, m \in DOMAIN ls : k < m => Over(On(ls, k), On(ls, m))
    /\ Apart(items) => \A k \in DOMAIN ls : \A i \in On(ls, k) : Line(items, i) = On(ls, k)

(* The rows c are sorted, each below the one before and all above the lines   *)
(* from n on.                                                                 *)
RowsIn(items, c, ls, n) ==
    /\ c \in Seq(Seq(CellIn(items))) /\ \A k \in DOMAIN c : Sorted(c[k])
    /\ \A k, m \in DOMAIN c : k < m => Over(ToSet(c[k]), ToSet(c[m]))
    /\ \A k \in DOMAIN c, m \in DOMAIN ls : n <= m => Over(ToSet(c[k]), ToSet(ls[m]))

(* Without boxes the rows collected are the last of the lines looked at, back *)
(* to a line of one cell.                                                     *)
Before == lineNo - 1 - Len(cur)
RowsSoFar ==
    /\ rest # {} => lineNo = 1 /\ cur = <<>>
    /\ lineNo <= Len(lines) + 1
    /\ ~Boxed => /\ Before \in Nat
                 /\ \A k \in DOMAIN cur : cur[k] = lines[Before + k] /\ IsMulti(cur[k])
                 /\ Before = 0 \/ ~IsMulti(lines[Before])

(* A table found keeps to its box, and its number is taken.                   *)
AddressTaken(t) ==
    /\ t.page \in DOMAIN doc.pages /\ t.page <= page /\ t.n \in Nat
    /\ doc.pages[t.page].boxes # <<>> =>
         /\ t.n + 1 \in DOMAIN doc.pages[t.page].boxes
         /\ Fragments(t) \subseteq itemsInBBox(doc.pages[t.page].items, doc.pages[t.page].boxes[t.n + 1])
    /\ t.page = page => IF Boxed THEN t.n + 1 < box ELSE dpc = "rows" /\ t.n < tableIdx

(* What is in tables is what the runs so far hold.                            *)
InRun(ls, k) == /\ IsMulti(ls[k])
                /\ \E m \in DOMAIN ls : (m = k + 1 \/ k = m + 1) /\ IsMulti(ls[m])
InRuns(ls, n) == UNION {On(ls, k) : k \in {m \in DOMAIN ls : m <= n /\ InRun(ls, m)}}
RunOf(ls, b, n) == UNION {On(ls, b + k) : k \in 1 .. n}
Tabled(ts, p) == UNION {Fragments(t) : t \in {u \in ts : u.page = p}}
Settled(p) ==
    doc.pages[p].boxes = <<>> /\ Apart(doc.pages[p].items) =>
        Tabled(tables, p) = {i \in doc.pages[p].items : InTable(doc.pages[p].items, i)}

PartSoFar == LinesIn(Items, rest, lines) /\ RowsIn(Items, cur, lines, lineNo) /\ RowsSoFar
RunsSoFar == Tabled(tables, page) = InRuns(lines, Before)
AddressesTaken == \A t \in tables : AddressTaken(t)
PagesSettled == \A p \in DOMAIN doc.pages : p < page => Settled(p)
DocInv ==
    /\ DocTypes /\ TablesAreGrids /\ AddressesTaken /\ PagesSettled
    /\ dpc = "rows" => PartSoFar
    /\ dpc = "rows" /\ ~Boxed => RunsSoFar

(* What is lower than a fragment of another line is of another line too.      *)
LEMMA Thresholds ==
    ASSUME NEW items, items \subseteq Fragment
    PROVE  /\ \A d \in Int : d <= 0 => yThreshold(items, d)
           /\ \A d, e \in Int : e <= d /\ yThreshold(items, d) => yThreshold(items, e)
<1>1. \A d \in Int : d <= 0 => yThreshold(items, d)
  BY DEF yThreshold, floor
<1>2. ASSUME NEW d \in Int, NEW e \in Int, e <= d, yThreshold(items, d) PROVE yThreshold(items, e)
  <2>1. CASE d <= floor
    BY <1>2, <2>1 DEF yThreshold, floor
  <2>2. CASE ~(d <= floor)
    <3>1. PICK i \in Sized(items) :
             /\ Cardinality({j \in Sized(items) : j.font < i.font}) <= Cardinality(Sized(items)) \div 2
             /\ 2 * d <= i.font
      BY <1>2, <2>2 DEF yThreshold
    <3>2. i.font \in Int
      BY DEF Sized, Fragment
    <3>3. 2 * e <= i.font
      BY <1>2, <3>1, <3>2
    <3>4. QED
      BY <3>1, <3>3 DEF yThreshold
  <2>3. QED
    BY <2>1, <2>2
<1>3. QED
  BY <1>1, <1>2

(* The cells of a sorted line are those of its fragments.                     *)
LEMMA CellsInLine ==
    ASSUME NEW F, F \subseteq Fragment, IsFiniteSet(F), F # {}, NEW s \in [1 .. Cardinality(F) -> F],
           \A i, j \in DOMAIN s : i < j => s[i] # s[j] /\ ~leftOf(s[j], s[i])
    PROVE  IsLine(Cells(s), F)
<1>2. s \in Seq(F) /\ ToSet(s) = F /\ Len(s) = Cardinality(F) /\ Cardinality(F) \in Nat /\ DOMAIN s = 1 .. Cardinality(F)
  BY AllListed
<1> DEFINE row == Cells(s)
           n == Cardinality(F)
<1>3. row = [k \in 1 .. n |-> cell(s[k])]
  BY <1>2 DEF Cells
<1>4. \A k \in 1 .. n : s[k] \in F /\ s[k].x \in Int /\ s[k].y \in Int /\ s[k].w \in Nat
  <2>1. \A f \in F : f.x \in Int /\ f.y \in Int /\ f.w \in Nat
    BY DEF Fragment
  <2>2. \A k \in 1 .. n : s[k] \in F
    OBVIOUS
  <2>3. QED
    BY <2>1, <2>2, Zenon
<1>5. \A k \in 1 .. n : row[k] = cell(s[k])
  BY <1>3
<1>12. \A k \in 1 .. n : row[k].x = s[k].x /\ row[k].y = s[k].y /\ row[k].text = {s[k]}
  <2>1. \A i : cell(i).x = i.x /\ cell(i).y = i.y /\ cell(i).text = {i}
    BY DEF cell
  <2> HIDE DEF row, n
  <2>2. QED
    BY <1>5, <2>1
<1>6. \A k \in 1 .. n : row[k] \in CellIn(F)
  <2>1. ASSUME NEW k \in 1 .. n PROVE row[k] \in CellIn(F)
    <3>1. row[k] = [text |-> {s[k]}, x |-> s[k].x, y |-> s[k].y, w |-> s[k].w]
      BY <1>5 DEF cell
    <3>2. {s[k]} \in SUBSET F /\ s[k].x \in Int /\ s[k].y \in Int /\ s[k].w \in Nat
      BY <1>4
    <3> HIDE DEF row, n
    <3>3. QED
      BY <3>1, <3>2 DEF CellIn
  <2>2. QED
    BY <2>1
<1>7. row \in Seq(CellIn(F)) /\ Len(row) = n /\ DOMAIN row = 1 .. n
  <2>1. row \in [1 .. n -> CellIn(F)]
    BY <1>3, <1>6
  <2> HIDE DEF row, n
  <2>2. n \in Nat
    BY <1>2 DEF n
  <2>3. QED
    BY <2>1, <2>2
<1>8. RowFragments(row) = F
  <2>1. \A k \in DOMAIN row : row[k].text = {s[k]}
    BY <1>12, <1>7
  <2>2. \A f \in F : \E k \in DOMAIN row : s[k] = f
    BY <1>2, <1>7 DEF ToSet
  <2>3. \A k \in DOMAIN row : s[k] \in F
    BY <1>4, <1>7
  <2> HIDE DEF row, n
  <2>4. QED
    BY <2>1, <2>2, <2>3 DEF RowFragments
<1>9. Sorted(row)
  <2>1. ASSUME NEW k \in 2 .. n PROVE row[k - 1].x <= row[k].x
    <3>1. k - 1 \in 1 .. n /\ k \in 1 .. n /\ k - 1 < k
      BY <1>2, <2>1
    <3>2. ~leftOf(s[k], s[k - 1])
      BY <1>2, <3>1
    <3>3. s[k].x \in Int /\ s[k - 1].x \in Int /\ ~(s[k].x < s[k - 1].x)
      BY <1>4, <3>1, <3>2 DEF leftOf
    <3>4. row[k].x = s[k].x /\ row[k - 1].x = s[k - 1].x
      BY <1>12, <3>1, Zenon
    <3> HIDE DEF row
    <3>5. QED
      BY <3>3, <3>4
  <2>2. QED
    BY <2>1, <1>7 DEF Sorted
<1>10. \A k \in DOMAIN row : \E f \in F : row[k].y = f.y
  BY <1>4, <1>12, <1>7
<1>11. QED
  BY <1>7, <1>8, <1>9, <1>10 DEF IsLine

(* bucketRows keeps what LinesIn says: the next line is below the others and  *)
(* above what is left, and where lines keep apart it is all of a line.        *)
LEMMA LineAdded ==
    ASSUME NEW items, items \subseteq Fragment, IsFiniteSet(items), NEW r, NEW ls, LinesIn(items, r, ls),
           NEW first \in r, \A i \in r : ~above(i, first),
           NEW F, F = {j \in r : yThreshold(items, j.y - first.y)}, NEW row, IsLine(row, F)
    PROVE  LinesIn(items, r \ F, Append(ls, row))
<1> DEFINE ns == Append(ls, row)
           n == Len(ls) + 1
<1>1. r \subseteq items /\ (\A i \in items : i.y \in Int /\ i.x \in Int)
  BY DEF LinesIn, Fragment
<1>2. \A i \in r : first.y <= i.y
  <2>1. ASSUME NEW i \in r PROVE first.y <= i.y
    <3>1. i.y \in Int /\ first.y \in Int
      BY <1>1
    <3>2. ~(i.y < first.y)
      BY DEF above
    <3>3. QED
      BY <3>1, <3>2
  <2>2. QED
    BY <2>1
<1>3. \A i \in items : \A d \in Int : d = i.y - i.y \/ d <= 0 => yThreshold(items, d)
  BY <1>1, Thresholds
<1>4. first \in F /\ F \subseteq r
  BY <1>1, <1>3
<1>5. Over(F, r \ F)
  <2>1. ASSUME NEW a \in F, NEW b \in r \ F, ~(a.y < b.y) PROVE FALSE
    <3>1. a.y \in Int /\ b.y \in Int /\ first.y \in Int
      BY <1>1, <1>4
    <3>2. a.y - first.y \in Int /\ b.y - first.y \in Int /\ b.y - first.y <= a.y - first.y
      BY <2>1, <3>1
    <3>3. yThreshold(items, a.y - first.y)
      OBVIOUS
    <3>4. yThreshold(items, b.y - first.y)
      BY <3>2, <3>3, Thresholds
    <3>5. QED
      BY <3>4
  <2>2. QED
    BY <2>1 DEF Over
<1>6. F \subseteq items /\ F # {} /\ RowFragments(row) = F /\ row \in Seq(CellIn(items))
  <2>1. CellIn(F) \subseteq CellIn(items)
    BY <1>1, <1>4 DEF CellIn
  <2>2. row \in Seq(CellIn(F))
    BY DEF IsLine
  <2>3. row \in Seq(CellIn(items))
    BY <2>1, <2>2
  <2>4. QED
    BY <1>1, <1>4, <2>3 DEF IsLine
<1>7. /\ ls \in Seq(Seq(CellIn(items))) /\ Len(ls) \in Nat /\ DOMAIN ls = 1 .. Len(ls)
      /\ ns \in Seq(Seq(CellIn(items))) /\ DOMAIN ns = 1 .. n
      /\ ns[n] = row /\ \A k \in DOMAIN ls : ns[k] = ls[k]
  <2>1. ls \in Seq(Seq(CellIn(items)))
    BY DEF LinesIn
  <2> DEFINE T == Seq(CellIn(items))
  <2>2. ls \in Seq(T) /\ row \in T
    BY <1>6, <2>1
  <2> HIDE DEF T
  <2>3. QED
    BY <2>2 DEF T
<1>8. /\ n \in DOMAIN ns /\ On(ns, n) = F
      /\ \A k \in DOMAIN ls : k \in DOMAIN ns /\ k < n /\ On(ns, k) = On(ls, k)
      /\ \A k \in DOMAIN ns : k = n \/ k \in DOMAIN ls
      /\ \A k \in DOMAIN ns : ~(n < k)
  <2>1. \A k \in DOMAIN ns : k = n \/ k \in DOMAIN ls
    BY <1>7
  <2>2. \A k \in DOMAIN ls : k \in DOMAIN ns /\ k < n
    BY <1>7
  <2>3. n \in DOMAIN ns /\ \A k \in DOMAIN ns : ~(n < k)
    BY <1>7
  <2> HIDE DEF ns, n
  <2>4. QED
    BY <1>6, <1>7, <2>1, <2>2, <2>3 DEF On
<1> HIDE DEF ns, n
<1>9. \A k \in DOMAIN ls : /\ IsLine(ls[k], On(ls, k)) /\ On(ls, k) \subseteq items /\ Over(On(ls, k), r)
  BY DEF LinesIn
<1>10. \A k \in DOMAIN ns : IsLine(ns[k], On(ns, k)) /\ On(ns, k) \subseteq items /\ Over(On(ns, k), r \ F)
  <2>1. ASSUME NEW k \in DOMAIN ns
        PROVE  IsLine(ns[k], On(ns, k)) /\ On(ns, k) \subseteq items /\ Over(On(ns, k), r \ F)
    <3>1. CASE k = n
      BY <1>5, <1>6, <1>7, <1>8, <3>1
    <3>2. CASE k \in DOMAIN ls
      <4>1. ns[k] = ls[k] /\ On(ns, k) = On(ls, k)
        BY <1>7, <1>8, <3>2
      <4>2. Over(On(ls, k), r \ F)
        BY <1>9, <3>2 DEF Over
      <4>3. QED
        BY <1>9, <3>2, <4>1, <4>2
    <3>3. QED
      BY <1>8, <3>1, <3>2
  <2>2. QED
    BY <2>1
<1>11. \A f \in items : f \in r \ F \/ \E k \in DOMAIN ns : f \in On(ns, k)
  <2>1. \A f \in items : f \in r \/ \E k \in DOMAIN ls : f \in On(ls, k)
    BY DEF LinesIn
  <2>2. QED
    BY <1>8, <2>1
<1>12. \A k, m \in DOMAIN ns : k < m => Over(On(ns, k), On(ns, m))
  <2>1. ASSUME NEW k \in DOMAIN ns, NEW m \in DOMAIN ns, k < m PROVE Over(On(ns, k), On(ns, m))
    <3>1. k \in DOMAIN ls /\ On(ns, k) = On(ls, k)
      BY <1>8, <2>1
    <3>2. CASE m = n
      BY <1>4, <1>8, <1>9, <3>1, <3>2 DEF Over
    <3>3. CASE m \in DOMAIN ls
      <4>1. Over(On(ls, k), On(ls, m))
        BY <2>1, <3>1, <3>3 DEF LinesIn
      <4>2. QED
        BY <1>8, <3>1, <3>3, <4>1
    <3>4. QED
      BY <1>8, <3>2, <3>3
  <2>2. QED
    BY <2>1
<1>13. ASSUME Apart(items) PROVE \A k \in DOMAIN ns : \A i \in On(ns, k) : Line(items, i) = On(ns, k)
  <2>1. \A k \in DOMAIN ls : \A i \in On(ls, k) : Line(items, i) = On(ls, k)
    BY <1>13 DEF LinesIn
  <2>2. \A i \in items : i \in Line(items, i)
    BY <1>1, <1>3 DEF Line
  <2>3. F \subseteq Line(items, first)
    <3>1. ASSUME NEW j \in F PROVE j \in Line(items, first)
      <4>1. j \in items /\ j.y \in Int /\ first.y \in Int /\ first.y <= j.y
        BY <1>1, <1>2, <1>4
      <4>2. first.y - j.y \in Int /\ first.y - j.y <= 0
        BY <4>1
      <4>3. yThreshold(items, first.y - j.y) /\ yThreshold(items, j.y - first.y)
        BY <4>2, Thresholds
      <4>4. QED
        BY <4>1, <4>3 DEF Line
    <3>2. QED
      BY <3>1
  <2>4. Line(items, first) \subseteq F
    <3>1. ASSUME NEW j \in Line(items, first) PROVE j \in F
      <4>1. j \in items /\ yThreshold(items, j.y - first.y)
        BY DEF Line
      <4>2. CASE j \in r
        BY <4>1, <4>2
      <4>3. CASE j \notin r
        <5>1. PICK k \in DOMAIN ls : j \in On(ls, k)
          BY <4>1, <4>3 DEF LinesIn
        <5>2. Line(items, first) = Line(items, j)
          <6>1. first \in items /\ j \in items /\ j \in Line(items, first)
            BY <1>1, <4>1
          <6>2. QED
            BY <1>13, <6>1 DEF Apart
        <5>3. first \in On(ls, k)
          BY <1>1, <2>1, <2>2, <5>1, <5>2
        <5>4. first.y < first.y /\ first.y \in Int
          BY <1>1, <1>9, <5>3 DEF Over
        <5>5. QED
          BY <5>4
      <4>4. QED
        BY <4>2, <4>3
    <3>2. QED
      BY <3>1
  <2>5. \A i \in F : Line(items, i) = F
    BY <1>1, <1>4, <1>13, <2>3, <2>4 DEF Apart
  <2>6. QED
    BY <1>8, <2>1, <2>5
<1>14. r \ F \subseteq items
  BY <1>1
<1>15. LinesIn(items, r \ F, ns)
  BY <1>7, <1>10, <1>11, <1>12, <1>13, <1>14 DEF LinesIn
<1>16. QED
  BY <1>15 DEF ns

(* Lines that keep apart are the lines of the page, and what InTable says of  *)
(* a fragment is what InRun says of its line.                                 *)
LEMMA RunsAreTables ==
    ASSUME NEW items, items \subseteq Fragment, NEW ls, LinesIn(items, {}, ls), Apart(items)
    PROVE  InRuns(ls, Len(ls)) = {i \in items : InTable(items, i)}
<1>1. /\ ls \in Seq(Seq(CellIn(items))) /\ Len(ls) \in Nat /\ DOMAIN ls = 1 .. Len(ls)
      /\ \A k \in DOMAIN ls : IsLine(ls[k], On(ls, k)) /\ On(ls, k) \subseteq items
      /\ \A f \in items : \E k \in DOMAIN ls : f \in On(ls, k)
      /\ \A k, m \in DOMAIN ls : k < m => Over(On(ls, k), On(ls, m))
      /\ \A k \in DOMAIN ls : \A i \in On(ls, k) : Line(items, i) = On(ls, k)
  <2>1. ls \in Seq(Seq(CellIn(items)))
    BY DEF LinesIn
  <2>2. Len(ls) \in Nat /\ DOMAIN ls = 1 .. Len(ls)
    BY <2>1
  <2>3. QED
    BY <2>1, <2>2 DEF LinesIn
<1>2. \A i \in items : i.y \in Int
  BY DEF Fragment
<1>3. \A k \in DOMAIN ls : On(ls, k) # {} /\ Len(ls[k]) = Cardinality(On(ls, k))
  BY <1>1 DEF IsLine
<1>4. \A k, m \in DOMAIN ls : k = m \/ k < m \/ m < k
  BY <1>1
<1>5. ASSUME NEW k \in DOMAIN ls, NEW i \in On(ls, k), NEW m \in DOMAIN ls, NEW j \in On(ls, m)
      PROVE  j.y > i.y /\ j \notin On(ls, k) <=> k < m
  <2>1. i.y \in Int /\ j.y \in Int
    BY <1>1, <1>2
  <2>2. CASE k < m
    <3>1. i.y < j.y
      BY <1>1, <2>2 DEF Over
    <3>2. j \notin On(ls, k)
      BY <1>1, <2>1, <2>2 DEF Over
    <3>3. QED
      BY <2>1, <2>2, <3>1, <3>2
  <2>3. CASE m < k
    <3>1. j.y < i.y /\ ~(k < m)
      BY <1>1, <2>3 DEF Over
    <3>2. QED
      BY <2>1, <3>1
  <2>4. CASE k = m
    <3>1. ~(k < m)
      BY <1>1, <2>4
    <3>2. QED
      BY <2>4, <3>1
  <2>5. QED
    BY <1>4, <2>2, <2>3, <2>4
<1>6. ASSUME NEW k \in DOMAIN ls, NEW i \in On(ls, k), NEW m \in DOMAIN ls, NEW j \in On(ls, m)
      PROVE  j \in NextLine(items, i) <=> m = k + 1
  <2> DEFINE below == {h \in items \ On(ls, k) : h.y > i.y}
  <2>1. Line(items, i) = On(ls, k) /\ i \in items /\ j \in items
    BY <1>1
  <2>2. NextLine(items, i) = {h \in below : \A q \in below : Line(items, q) = Line(items, h) \/ q.y > h.y}
    BY <2>1 DEF NextLine
  <2>3. \A n \in DOMAIN ls : \A h \in On(ls, n) : h \in below <=> k < n
    BY <1>1, <1>5
  <2> HIDE DEF below
  <2>4. below \subseteq items
    BY DEF below
  <2>5. CASE m = k + 1
    <3>1. k < m /\ \A n \in DOMAIN ls : k < n => n = m \/ m < n
      BY <1>1, <2>5
    <3>2. j \in below
      BY <2>3, <3>1
    <3>3. ASSUME NEW q \in below PROVE Line(items, q) = Line(items, j) \/ q.y > j.y
      <4>1. PICK n \in DOMAIN ls : q \in On(ls, n)
        BY <1>1, <2>4
      <4>2. n = m \/ m < n
        BY <2>3, <3>1, <4>1
      <4>3. CASE n = m
        BY <1>1, <4>1, <4>3
      <4>4. CASE m < n
        <5>1. j.y < q.y /\ j.y \in Int /\ q.y \in Int
          BY <1>1, <1>2, <2>4, <4>1, <4>4 DEF Over
        <5>2. QED
          BY <5>1
      <4>5. QED
        BY <4>2, <4>3, <4>4
    <3>4. QED
      BY <2>2, <2>5, <3>2, <3>3
  <2>6. ASSUME j \in NextLine(items, i), m # k + 1 PROVE FALSE
    <3>1. j \in below /\ k < m
      BY <2>2, <2>3, <2>6
    <3>2. k + 1 \in DOMAIN ls /\ k + 1 < m /\ k < k + 1
      BY <1>1, <2>6, <3>1
    <3>3. PICK n \in DOMAIN ls : n = k + 1 /\ n < m /\ k < n
      BY <3>2
    <3>4. PICK q : q \in On(ls, n)
      BY <1>3
    <3>5. q \in below /\ Line(items, q) = On(ls, n) /\ Line(items, j) = On(ls, m)
      BY <1>1, <2>3, <3>3, <3>4
    <3>6. q.y < j.y /\ q.y \in Int /\ j.y \in Int
      BY <1>1, <1>2, <2>1, <2>4, <3>3, <3>4, <3>5 DEF Over
    <3>7. Line(items, q) = Line(items, j)
      <4>1. Line(items, q) = Line(items, j) \/ q.y > j.y
        BY <2>2, <2>6, <3>5
      <4>2. ~(q.y > j.y)
        BY <3>6
      <4>3. QED
        BY <4>1, <4>2
    <3>8. q \in On(ls, m)
      BY <3>4, <3>5, <3>7
    <3>9. q.y < q.y
      BY <1>1, <3>3, <3>4, <3>8 DEF Over
    <3>10. QED
      BY <3>6, <3>9
  <2>7. QED
    BY <2>5, <2>6
<1>7. ASSUME NEW k \in DOMAIN ls, NEW i \in On(ls, k) PROVE InTable(items, i) <=> InRun(ls, k)
  <2>1. Cardinality(Line(items, i)) = Len(ls[k])
    BY <1>1, <1>3
  <2>2. \A m \in DOMAIN ls : \A j \in On(ls, m) :
            /\ Cardinality(Line(items, j)) = Len(ls[m])
            /\ i \in NextLine(items, j) \/ j \in NextLine(items, i) <=> k = m + 1 \/ m = k + 1
    BY <1>1, <1>3, <1>6
  <2>3. \A m \in DOMAIN ls : \E j \in items : j \in On(ls, m)
    BY <1>1, <1>3
  <2>4. ASSUME InTable(items, i) PROVE InRun(ls, k)
    <3>1. PICK j \in items : /\ i \in NextLine(items, j) \/ j \in NextLine(items, i)
                             /\ Cardinality(Line(items, j)) >= 2
      BY <2>4 DEF InTable
    <3>2. PICK m \in DOMAIN ls : j \in On(ls, m)
      BY <1>1
    <3>3. (k = m + 1 \/ m = k + 1) /\ Len(ls[m]) >= 2
      BY <2>2, <3>1, <3>2
    <3>4. Len(ls[k]) >= 2
      BY <2>1, <2>4 DEF InTable
    <3>5. QED
      BY <3>3, <3>4 DEF InRun, IsMulti
  <2>5. ASSUME InRun(ls, k) PROVE InTable(items, i)
    <3>1. PICK m \in DOMAIN ls : (m = k + 1 \/ k = m + 1) /\ Len(ls[m]) >= 2
      BY <2>5 DEF InRun, IsMulti
    <3>2. PICK j \in items : j \in On(ls, m)
      BY <2>3
    <3>3. /\ i \in NextLine(items, j) \/ j \in NextLine(items, i)
          /\ Cardinality(Line(items, j)) >= 2
      BY <2>2, <3>1, <3>2
    <3>4. Cardinality(Line(items, i)) >= 2
      BY <2>1, <2>5 DEF InRun, IsMulti
    <3>5. QED
      BY <3>3, <3>4 DEF InTable
  <2>6. QED
    BY <2>4, <2>5
<1>8. \A k \in DOMAIN ls : k <= Len(ls)
  BY <1>1
<1>9. QED
  BY <1>1, <1>7, <1>8 DEF InRuns

LEMMA EmptyRows == ASSUME NEW items, NEW ls, NEW n PROVE RowsIn(items, <<>>, ls, n)
<1>1. <<>> \in Seq(Seq(CellIn(items))) /\ DOMAIN <<>> = {}
  OBVIOUS
<1>2. QED
  BY <1>1 DEF RowsIn

(* A line looked at is below the rows taken and above the lines to come.      *)
LEMMA RowTaken ==
    ASSUME NEW items, items \subseteq Fragment, NEW r, NEW ls, LinesIn(items, r, ls), NEW n \in DOMAIN ls,
           NEW c, RowsIn(items, c, ls, n)
    PROVE  RowsIn(items, Append(c, ls[n]), ls, n + 1)
<1>1. /\ ls \in Seq(Seq(CellIn(items))) /\ n \in Int /\ DOMAIN ls \subseteq Int
      /\ ls[n] \in Seq(CellIn(items))
  <2>1. ls \in Seq(Seq(CellIn(items)))
    BY DEF LinesIn
  <2>2. DOMAIN ls \subseteq Int
    BY <2>1
  <2>3. ls[n] \in Seq(CellIn(items))
    BY <2>1
  <2>4. QED
    BY <2>1, <2>2, <2>3
<1>2. ASSUME NEW m \in DOMAIN ls, n < m PROVE Over(ToSet(ls[n]), ToSet(ls[m]))
  <2>1. /\ \A k \in DOMAIN ls[n] : \E f \in On(ls, n) : ls[n][k].y = f.y
        /\ \A k \in DOMAIN ls[m] : \E f \in On(ls, m) : ls[m][k].y = f.y
    BY DEF LinesIn, IsLine
  <2>2. /\ \A a \in ToSet(ls[n]) : \E f \in On(ls, n) : a.y = f.y
        /\ \A a \in ToSet(ls[m]) : \E f \in On(ls, m) : a.y = f.y
    BY <2>1 DEF ToSet
  <2>3. Over(On(ls, n), On(ls, m))
    BY <1>2 DEF LinesIn
  <2>4. ASSUME NEW a \in ToSet(ls[n]), NEW b \in ToSet(ls[m]) PROVE a.y < b.y
    <3>1. PICK f \in On(ls, n) : a.y = f.y
      BY <2>2
    <3>2. PICK g \in On(ls, m) : b.y = g.y
      BY <2>2
    <3>3. f.y < g.y
      BY <2>3 DEF Over
    <3>4. QED
      BY <3>1, <3>2, <3>3
  <2>5. QED
    BY <2>4 DEF Over
<1> DEFINE d == Append(c, ls[n])
           T == Seq(CellIn(items))
           z == Len(c) + 1
<1>3. /\ d \in Seq(T) /\ z \in DOMAIN d /\ d[z] = ls[n]
      /\ \A k \in DOMAIN d : k = z \/ (k \in DOMAIN c /\ d[k] = c[k])
      /\ \A k \in DOMAIN d : ~(z < k)
  <2>1. c \in Seq(T) /\ ls[n] \in T
    BY <1>1 DEF RowsIn
  <2> HIDE DEF T
  <2>2. QED
    BY <2>1
<1>4. /\ \A k \in DOMAIN c : Sorted(c[k])
      /\ \A k \in DOMAIN c, m \in DOMAIN ls : n <= m => Over(ToSet(c[k]), ToSet(ls[m]))
      /\ \A k, m \in DOMAIN c : k < m => Over(ToSet(c[k]), ToSet(c[m]))
  BY DEF RowsIn
<1>5. Sorted(ls[n]) /\ n <= n
  BY <1>1 DEF LinesIn, IsLine
<1> HIDE DEF d, z, T
<1>6. \A k \in DOMAIN d : Sorted(d[k])
  BY <1>3, <1>4, <1>5
<1>7. \A k, m \in DOMAIN d : k < m => Over(ToSet(d[k]), ToSet(d[m]))
  <2>1. ASSUME NEW k \in DOMAIN d, NEW m \in DOMAIN d, k < m PROVE Over(ToSet(d[k]), ToSet(d[m]))
    <3>1. k \in DOMAIN c /\ d[k] = c[k]
      BY <1>3, <2>1
    <3>2. CASE m = z
      BY <1>3, <1>4, <1>5, <3>1, <3>2
    <3>3. CASE m \in DOMAIN c /\ d[m] = c[m]
      BY <1>4, <2>1, <3>1, <3>3
    <3>4. QED
      BY <1>3, <3>2, <3>3
  <2>2. QED
    BY <2>1
<1>8. \A k \in DOMAIN d, m \in DOMAIN ls : n + 1 <= m => Over(ToSet(d[k]), ToSet(ls[m]))
  <2>1. ASSUME NEW k \in DOMAIN d, NEW m \in DOMAIN ls, n + 1 <= m PROVE Over(ToSet(d[k]), ToSet(ls[m]))
    <3>1. n < m /\ n <= m
      BY <1>1, <2>1
    <3>2. QED
      BY <1>2, <1>3, <1>4, <3>1
  <2>2. QED
    BY <2>1
<1>9. QED
  BY <1>3, <1>6, <1>7, <1>8 DEF RowsIn, d, T

(* A line that wraps leaves every cell of the row it goes into where it is.   *)
LEMMA RowWrapped ==
    ASSUME NEW items, NEW ls, ls \in Seq(Seq(CellIn(items))), NEW n \in DOMAIN ls, NEW c, RowsIn(items, c, ls, n),
           c # <<>>, NEW k, NEW w \in CellIn(items)
    PROVE  RowsIn(items, [c EXCEPT ![Len(c)] = Into(c[Len(c)], k, w)], ls, n + 1)
<1> DEFINE z == Len(c)
           row == c[z]
           new == Into(row, k, w)
           d == [c EXCEPT ![z] = new]
           T == Seq(CellIn(items))
<1>1. c \in Seq(T) /\ z \in DOMAIN c /\ row \in T /\ DOMAIN c \subseteq Int /\ DOMAIN ls \subseteq Int /\ n \in Int
  <2>1. c \in Seq(T)
    BY DEF RowsIn
  <2> HIDE DEF T
  <2>2. z \in DOMAIN c /\ DOMAIN c \subseteq Int /\ row \in T
    BY <2>1
  <2>3. DOMAIN ls \subseteq Int
    OBVIOUS
  <2>4. QED
    BY <2>1, <2>2, <2>3
<1>2. /\ new \in T /\ Len(new) = Len(row) /\ DOMAIN new = DOMAIN row
      /\ \A j \in DOMAIN row : new[j].x = row[j].x /\ new[j].y = row[j].y
  <2>1. row \in Seq(CellIn(items)) /\ Len(row) \in Nat /\ DOMAIN row = 1 .. Len(row)
    BY <1>1
  <2> HIDE DEF row, z
  <2>2. new = [j \in DOMAIN row |-> IF j = k THEN [text |-> row[k].text \cup w.text,
                                                    x |-> row[k].x, y |-> row[k].y, w |-> row[k].w]
                                     ELSE row[j]]
    BY DEF Into
  <2>3. ASSUME NEW j \in DOMAIN row
        PROVE  new[j] \in CellIn(items) /\ new[j].x = row[j].x /\ new[j].y = row[j].y
    <3>1. row[j] \in CellIn(items)
      BY <2>1
    <3>2. CASE j = k
      <4>1. new[j] = [text |-> row[j].text \cup w.text, x |-> row[j].x, y |-> row[j].y, w |-> row[j].w]
        BY <2>2, <3>2
      <4> HIDE DEF new
      <4>2. row[j].text \cup w.text \subseteq items /\ row[j].x \in Int /\ row[j].y \in Int /\ row[j].w \in Nat
        BY <3>1 DEF CellIn
      <4>3. QED
        BY <4>1, <4>2 DEF CellIn
    <3>3. CASE j # k
      BY <2>2, <3>1, <3>3
    <3>4. QED
      BY <3>2, <3>3
  <2>4. DOMAIN new = 1 .. Len(row) /\ new = [j \in 1 .. Len(row) |-> new[j]]
    BY <2>1, <2>2
  <2> HIDE DEF new
  <2>5. new \in [1 .. Len(row) -> CellIn(items)]
    BY <2>1, <2>3, <2>4
  <2>6. new \in Seq(CellIn(items)) /\ Len(new) = Len(row)
    <3>1. \A S : \A m \in Nat : \A f \in [1 .. m -> S] : f \in Seq(S) /\ Len(f) = m
      OBVIOUS
    <3>2. QED
      BY <2>1, <2>5, <3>1, Zenon
  <2>7. QED
    BY <2>1, <2>3, <2>4, <2>6
<1> HIDE DEF new
<1>3. /\ d \in Seq(T) /\ DOMAIN d = DOMAIN c /\ d[z] = new
      /\ \A j \in DOMAIN c : j # z => d[j] = c[j]
  <2> HIDE DEF T, z
  <2>1. QED
    BY <1>1, <1>2
<1>4. \A j \in DOMAIN d : Sorted(d[j])
  <2>1. Sorted(row)
    BY <1>1 DEF RowsIn
  <2>2. Sorted(new)
    <3>1. Len(row) \in Nat /\ DOMAIN row = 1 .. Len(row)
      BY <1>1
    <3> HIDE DEF row, z
    <3>2. \A j \in 2 .. Len(row) : j \in DOMAIN row /\ j - 1 \in DOMAIN row
      BY <3>1
    <3>3. QED
      BY <1>2, <2>1, <3>2 DEF Sorted
  <2> HIDE DEF d, row, z
  <2>3. \A j \in DOMAIN c : Sorted(c[j])
    BY DEF RowsIn
  <2>4. QED
    BY <1>3, <2>2, <2>3
<1>5. \A j \in DOMAIN d : \A a \in ToSet(d[j]) : \E b \in ToSet(c[j]) : a.y = b.y
  <2>1. \A a \in ToSet(new) : \E b \in ToSet(row) : a.y = b.y
    <3> HIDE DEF row
    <3>1. QED
      BY <1>2 DEF ToSet
  <2>2. \A j \in DOMAIN c : \A a \in ToSet(c[j]) : \E b \in ToSet(c[j]) : a.y = b.y
    OBVIOUS
  <2> HIDE DEF d, z
  <2>3. ASSUME NEW j \in DOMAIN d PROVE \A a \in ToSet(d[j]) : \E b \in ToSet(c[j]) : a.y = b.y
    <3>1. CASE j = z
      BY <1>3, <2>1, <3>1
    <3>2. CASE j # z
      BY <1>3, <2>2, <3>2
    <3>3. QED
      BY <3>1, <3>2
  <2>4. QED
    BY <2>3
<1>6. \A j, m \in DOMAIN c : j < m => Over(ToSet(c[j]), ToSet(c[m]))
  BY DEF RowsIn
<1>7. \A j \in DOMAIN c, m \in DOMAIN ls : n + 1 <= m => Over(ToSet(c[j]), ToSet(ls[m]))
  <2>1. \A m \in DOMAIN ls : n + 1 <= m => n <= m
    BY <1>1
  <2>2. QED
    BY <2>1 DEF RowsIn
<1> HIDE DEF d, z, row, T
<1>8. \A j, m \in DOMAIN d : j < m => Over(ToSet(d[j]), ToSet(d[m]))
  BY <1>3, <1>5, <1>6 DEF Over
<1>9. \A j \in DOMAIN d, m \in DOMAIN ls : n + 1 <= m => Over(ToSet(d[j]), ToSet(ls[m]))
  BY <1>3, <1>5, <1>7 DEF Over
<1>10. QED
  BY <1>3, <1>4, <1>8, <1>9 DEF RowsIn, d, z, row, new, T

(* A run that ends is a table when it has two rows, and only then.            *)
EndOfRun(ls, b, n, e) ==
    /\ DOMAIN ls \subseteq Nat \ {0} /\ b \in Nat /\ n \in Nat /\ e = b + n + 1
    /\ \A k \in 1 .. n : b + k \in DOMAIN ls /\ IsMulti(ls[b + k])
    /\ b = 0 \/ ~IsMulti(ls[b])
    /\ e \in DOMAIN ls => ~IsMulti(ls[e])
LEMMA RunEnds ==
    ASSUME NEW ls, NEW b, NEW n, NEW e, EndOfRun(ls, b, n, e)
    PROVE  /\ n < 2 => InRuns(ls, e) = InRuns(ls, b)
           /\ n >= 2 => InRuns(ls, e) = InRuns(ls, b) \cup RunOf(ls, b, n)
<1> USE DEF EndOfRun
<1>1. ASSUME NEW m \in DOMAIN ls PROVE m <= e /\ InRun(ls, m) <=> (m <= b /\ InRun(ls, m)) \/ (n >= 2 /\ \E k \in 1 .. n : m = b + k)
  <2>1. m \in Int /\ e \in Int /\ m # 0
    OBVIOUS
  <2>2. CASE m <= b
    <3>1. m <= e /\ \A k \in 1 .. n : m # b + k
      BY <2>1, <2>2
    <3>2. QED
      BY <2>2, <3>1
  <2>3. CASE b < m /\ m < e
    <3>1. m - b \in 1 .. n /\ m = b + (m - b)
      BY <2>1, <2>3
    <3>2. PICK k \in 1 .. n : m = b + k
      BY <3>1
    <3>3. IsMulti(ls[m]) /\ m <= e /\ ~(m <= b)
      BY <2>1, <2>3, <3>2
    <3>4. CASE n >= 2
      <4>1. \E j \in 1 .. n : b + j = m + 1 \/ m = (b + j) + 1
        <5>1. k + 1 \in 1 .. n \/ k - 1 \in 1 .. n
          BY <3>4
        <5>2. CASE k + 1 \in 1 .. n
          <6>1. b + (k + 1) = m + 1
            BY <3>2
          <6>2. QED
            BY <5>2, <6>1
        <5>3. CASE k - 1 \in 1 .. n
          <6>1. m = (b + (k - 1)) + 1
            BY <3>2
          <6>2. QED
            BY <5>3, <6>1
        <5>4. QED
          BY <5>1, <5>2, <5>3
      <4>2. InRun(ls, m)
        BY <3>3, <4>1 DEF InRun
      <4>3. QED
        BY <3>2, <3>3, <3>4, <4>2
    <3>5. CASE ~(n >= 2)
      <4>1. m = b + 1 /\ e = m + 1
        BY <2>1, <3>1, <3>5
      <4>2. ASSUME NEW j \in DOMAIN ls, j = m + 1 \/ m = j + 1 PROVE ~IsMulti(ls[j])
        <5>1. j = e \/ (j = b /\ b # 0)
          BY <4>1, <4>2
        <5>2. QED
          BY <5>1
      <4>3. ~InRun(ls, m)
        BY <4>2 DEF InRun
      <4>4. QED
        BY <3>5, <4>3
    <3>6. QED
      BY <3>4, <3>5
  <2>4. CASE m = e
    <3>1. ~IsMulti(ls[m]) /\ ~(\E k \in 1 .. n : m = b + k)
      BY <2>4
    <3>2. QED
      BY <3>1 DEF InRun
  <2>5. CASE e < m
    <3>1. ~(m <= e) /\ ~(m <= b) /\ ~(\E k \in 1 .. n : m = b + k)
      BY <2>1, <2>5
    <3>2. QED
      BY <3>1
  <2>6. m <= b \/ (b < m /\ m < e) \/ m = e \/ e < m
    BY <2>1
  <2>7. QED
    BY <2>2, <2>3, <2>4, <2>5, <2>6
<1>2. ASSUME n < 2 PROVE InRuns(ls, e) = InRuns(ls, b)
  <2>1. ~(n >= 2)
    BY <1>2
  <2>2. {m \in DOMAIN ls : m <= e /\ InRun(ls, m)} = {m \in DOMAIN ls : m <= b /\ InRun(ls, m)}
    BY <1>1, <2>1
  <2>3. QED
    BY <2>2 DEF InRuns
<1>3. ASSUME n >= 2 PROVE InRuns(ls, e) = InRuns(ls, b) \cup RunOf(ls, b, n)
  <2> DEFINE A == {m \in DOMAIN ls : m <= e /\ InRun(ls, m)}
             B == {m \in DOMAIN ls : m <= b /\ InRun(ls, m)}
             C == {b + k : k \in 1 .. n}
  <2>1. \A m : m \in A <=> m \in B \/ m \in C
    BY <1>1, <1>3
  <2>2. RunOf(ls, b, n) = UNION {On(ls, m) : m \in C}
    BY DEF RunOf
  <2>3. InRuns(ls, e) = UNION {On(ls, m) : m \in A} /\ InRuns(ls, b) = UNION {On(ls, m) : m \in B}
    BY DEF InRuns
  <2> HIDE DEF A, B, C
  <2>4. QED
    BY <2>1, <2>2, <2>3
<1>4. QED
  BY <1>2, <1>3

LEMMA DocIsRight ==
    ASSUME doc \in Documents
    PROVE  /\ Len(doc.pages) \in Nat /\ DOMAIN doc.pages = 1 .. Len(doc.pages)
           /\ \A p \in DOMAIN doc.pages :
                 /\ doc.pages[p].items \subseteq Fragment /\ IsFiniteSet(doc.pages[p].items)
                 /\ doc.pages[p].boxes \in Seq(BBox) /\ Len(doc.pages[p].boxes) \in Nat
                 /\ DOMAIN doc.pages[p].boxes = 1 .. Len(doc.pages[p].boxes)
<1> DEFINE P == [items : SUBSET Fragment, boxes : Seq(BBox)]
<1>1. doc.pages \in Seq(P) /\ \A p \in DOMAIN doc.pages : IsFiniteSet(doc.pages[p].items)
  BY DocAssumption
<1>2. \A q \in P : q.items \subseteq Fragment /\ q.boxes \in Seq(BBox)
  OBVIOUS
<1>3. \A s \in Seq(BBox) : Len(s) \in Nat /\ DOMAIN s = 1 .. Len(s)
  OBVIOUS
<1> HIDE DEF P
<1>4. Len(doc.pages) \in Nat /\ DOMAIN doc.pages = 1 .. Len(doc.pages) /\ \A p \in DOMAIN doc.pages : doc.pages[p] \in P
  BY <1>1
<1>5. QED
  BY <1>1, <1>2, <1>3, <1>4

LEMMA ItemsAre ==
    ASSUME DocTypes, page \in DOMAIN doc.pages
    PROVE  Items \subseteq Fragment /\ IsFiniteSet(Items) /\ Items \subseteq Page.items /\ (~Boxed => Items = Page.items)
<1>1. Page.items \subseteq Fragment /\ IsFiniteSet(Page.items)
  BY DocIsRight DEF DocTypes, Page
<1>2. Items \subseteq Page.items /\ (~Boxed => Items = Page.items)
  BY DEF Items, itemsInBBox
<1>3. QED
  BY <1>1, <1>2, FS_Subset

LEMMA SamePart ==
    ASSUME UNCHANGED <<doc, page, box>>
    PROVE  Page' = Page /\ (Boxed' <=> Boxed) /\ Items' = Items
BY DEF Page, Boxed, Items

(* What a step that finds no table and stays in its part has to keep.         *)
LEMMA SameTables ==
    ASSUME DocInv, UNCHANGED <<doc, page, box, tables, tableIdx>>, dpc # "rows" \/ dpc' = "rows"
    PROVE  TablesAreGrids' /\ AddressesTaken' /\ PagesSettled'
<1>1. Boxed' <=> Boxed
  BY SamePart
<1>2. TablesAreGrids'
  BY DEF DocInv, TablesAreGrids, KeepApart
<1>3. AddressesTaken'
  BY <1>1 DEF DocInv, AddressesTaken, AddressTaken
<1>4. PagesSettled'
  BY DEF DocInv, PagesSettled, Settled
<1>5. QED
  BY <1>2, <1>3, <1>4

LEMMA HandleKeeps == ASSUME DocInv, FastPath \/ Liteparse \/ LastPage PROVE DocInv'
<1>1. /\ UNCHANGED <<doc, page, box, tables, tableIdx>> /\ dpc' # "rows" /\ dpc # "rows"
  BY DEF FastPath, Liteparse, LastPage, reading
<1>2. Boxed' <=> Boxed
  BY <1>1, SamePart
<1>3. DocTypes'
  <2>1. Page' = Page
    BY <1>1, SamePart
  <2>2. CASE FastPath
    BY <1>1, <1>2, <2>1, <2>2 DEF DocInv, DocTypes, FastPath
  <2>3. CASE Liteparse
    BY <1>1, <1>2, <2>1, <2>3 DEF DocInv, DocTypes, Liteparse
  <2>4. CASE LastPage
    BY <1>1, <1>2, <2>1, <2>4 DEF DocInv, DocTypes, LastPage
  <2>5. QED
    BY <2>2, <2>3, <2>4
<1>4. QED
  BY <1>1, <1>3, SameTables DEF DocInv

LEMMA StartPartKeeps == ASSUME DocInv, StartPart PROVE DocInv'
<1>1. /\ UNCHANGED <<doc, method, page, box, tables>> /\ dpc = "page" /\ dpc' = "rows"
      /\ rest' = Items /\ lines' = <<>> /\ lineNo' = 1 /\ cur' = <<>> /\ tableIdx' = 0
      /\ page <= Len(doc.pages)
  BY DEF StartPart
<1>2. Page' = Page /\ (Boxed' <=> Boxed) /\ Items' = Items
  BY <1>1, SamePart
<1>3. page \in DOMAIN doc.pages
  BY <1>1, DocIsRight DEF DocInv, DocTypes
<1>4. DocTypes'
  BY <1>1, <1>2, <1>3 DEF DocInv, DocTypes
<1>5. LinesIn(Items, Items, <<>>)
  <2>1. <<>> \in Seq(Seq(CellIn(Items))) /\ DOMAIN <<>> = {}
    OBVIOUS
  <2>2. QED
    BY <2>1 DEF LinesIn
<1>6. RowsSoFar'
  <2>1. Len(<<>>) = 0 /\ DOMAIN <<>> = {}
    OBVIOUS
  <2>2. Before' = lineNo' - 1 - Len(cur')
    BY DEF Before
  <2>3. Before' = 0
    <3>1. \A n, m : n = 1 /\ m = 0 => n - 1 - m = 0
      OBVIOUS
    <3>2. Len(cur') = 0 /\ lineNo' = 1
      BY <1>1, <2>1, Zenon
    <3>3. QED
      BY <2>2, <3>1, <3>2, Zenon
  <2>4. QED
    BY <1>1, <2>1, <2>3 DEF RowsSoFar
<1>7. ~Boxed => Tabled(tables, page) = InRuns(<<>>, Before')
  <2>1. InRuns(<<>>, Before') = {}
    BY DEF InRuns
  <2>2. ~Boxed => \A t \in tables : t.page # page
    BY <1>1 DEF DocInv, AddressesTaken, AddressTaken
  <2>3. QED
    BY <2>1, <2>2 DEF Tabled
<1>8. TablesAreGrids'
  BY <1>1 DEF DocInv, TablesAreGrids, KeepApart
<1>9. AddressesTaken'
  BY <1>1, <1>2 DEF DocInv, AddressesTaken, AddressTaken
<1>10. PagesSettled'
  BY <1>1 DEF DocInv, PagesSettled, Settled
<1>11. QED
  <2>1. PartSoFar'
    <3>1. RowsIn(Items, <<>>, <<>>, 1)
      BY EmptyRows
    <3>2. QED
      BY <1>1, <1>2, <1>5, <1>6, <3>1 DEF PartSoFar
  <2>2. ~Boxed' => RunsSoFar'
    BY <1>1, <1>2, <1>7 DEF RunsSoFar
  <2>3. QED
    BY <1>4, <1>8, <1>9, <1>10, <2>1, <2>2 DEF DocInv

LEMMA EmptyPageKeeps == ASSUME DocInv, EmptyPage PROVE DocInv'
<1>1. /\ UNCHANGED <<doc, method, tables, tableIdx>> /\ dpc = "page" /\ dpc' = "page"
      /\ page' = page + 1 /\ box' = 1 /\ page <= Len(doc.pages) /\ Page.items = {} /\ page \in Nat
      /\ doc \in Documents
  BY DEF EmptyPage, NextPage, reading, DocInv, DocTypes
<1>2. page \in DOMAIN doc.pages
  BY <1>1, DocIsRight DEF DocInv, DocTypes
<1>3. DocTypes'
  <2>1. page' \in DOMAIN doc.pages /\ Boxed' => 1 \in DOMAIN Page'.boxes
    <3>1. ASSUME NEW p \in DOMAIN doc.pages, doc.pages[p].boxes # <<>> PROVE 1 \in DOMAIN doc.pages[p].boxes
      <4>1. doc.pages[p].boxes \in Seq(BBox)
        BY <1>1, DocIsRight
      <4>2. QED
        BY <3>1, <4>1
    <3>2. QED
      BY <1>1, <3>1 DEF Page, Boxed
  <2>2. page' \in Nat \ {0} /\ box' \in Nat \ {0}
    BY <1>1
  <2>3. QED
    BY <1>1, <2>1, <2>2 DEF DocInv, DocTypes
<1>4. TablesAreGrids'
  BY <1>1 DEF DocInv, TablesAreGrids, KeepApart
<1>5. AddressesTaken'
  <2>1. \A t \in tables : t.page <= page' /\ t.page # page'
    <3>1. \A t \in tables : t.page \in DOMAIN doc.pages /\ t.page <= page
      BY DEF DocInv, AddressesTaken, AddressTaken
    <3>2. \A p \in DOMAIN doc.pages : p <= page => p <= page' /\ p # page'
      BY <1>1, DocIsRight
    <3>3. QED
      BY <3>1, <3>2
  <2>2. QED
    BY <1>1, <2>1 DEF DocInv, AddressesTaken, AddressTaken
<1>6. PagesSettled'
  <2>1. Settled(page)
    <3>1. doc.pages[page].boxes = <<>> => \A t \in tables : t.page # page
      BY <1>1 DEF DocInv, AddressesTaken, AddressTaken, Boxed, Page
    <3>2. doc.pages[page].items = {}
      BY <1>1 DEF Page
    <3>3. QED
      BY <3>1, <3>2 DEF Settled, Tabled
  <2>2. \A p \in DOMAIN doc.pages : p < page' => p < page \/ p = page
    BY <1>1, DocIsRight
  <2>3. QED
    BY <1>1, <2>1, <2>2 DEF DocInv, PagesSettled, Settled
<1>7. QED
  BY <1>1, <1>3, <1>4, <1>5, <1>6 DEF DocInv

LEMMA BucketRowKeeps == ASSUME DocInv, BucketRow PROVE DocInv'
<1>1. /\ UNCHANGED <<doc, method, page, box, tables, tableIdx, lineNo, cur>> /\ dpc = "rows" /\ dpc' = "rows"
      /\ DocTypes /\ page \in DOMAIN doc.pages
      /\ LinesIn(Items, rest, lines) /\ RowsIn(Items, cur, lines, lineNo) /\ RowsSoFar
  BY DEF BucketRow, DocInv, DocTypes, PartSoFar
<1>2. Page' = Page /\ (Boxed' <=> Boxed) /\ Items' = Items
  BY <1>1, SamePart
<1>3. Items \subseteq Fragment /\ IsFiniteSet(Items)
  BY <1>1, ItemsAre
<1>4. PICK first \in rest :
         /\ \A i \in rest : ~above(i, first)
         /\ rest' = rest \ LineFrom(first)
         /\ \E s \in Ranked(LineFrom(first), leftOf) : lines' = Append(lines, Cells(s))
  BY DEF BucketRow
<1>5. PICK F : F = LineFrom(first)
  OBVIOUS
<1>6. F \subseteq Items /\ F # {} /\ F = {j \in rest : yThreshold(Items, j.y - first.y)}
  <2>1. F = {j \in rest : yThreshold(Items, j.y - first.y)} /\ rest \subseteq Items
    BY <1>1, <1>5 DEF LineFrom, LinesIn
  <2>2. first.y \in Int
    BY <1>3, <2>1 DEF Fragment
  <2>3. first.y - first.y \in Int /\ first.y - first.y <= 0
    BY <2>2
  <2>4. yThreshold(Items, first.y - first.y)
    BY <1>3, <2>3, Thresholds
  <2>5. QED
    BY <2>1, <2>4
<1>7. PICK s \in [1 .. Cardinality(F) -> F] :
         /\ lines' = Append(lines, Cells(s))
         /\ \A i, j \in DOMAIN s : i < j => s[i] # s[j] /\ ~leftOf(s[j], s[i])
  BY <1>4, <1>5 DEF Ranked
<1>8. PICK row : row = Cells(s)
  OBVIOUS
<1>9. IsLine(row, F)
  <2>1. F \subseteq Fragment /\ IsFiniteSet(F)
    BY <1>3, <1>6, FS_Subset
  <2>2. QED
    BY <1>6, <1>7, <1>8, <2>1, CellsInLine
<1>10. rest' = rest \ F /\ lines' = Append(lines, row)
  BY <1>4, <1>5, <1>7, <1>8
<1>11. LinesIn(Items, rest', lines')
  <2>1. LinesIn(Items, rest \ F, Append(lines, row))
    BY <1>1, <1>3, <1>4, <1>6, <1>9, LineAdded
  <2>2. QED
    BY <1>10, <2>1
<1>12. lineNo = 1 /\ cur = <<>> /\ Len(lines') \in Nat
  <2>1. rest # {}
    OBVIOUS
  <2>2. lines' \in Seq(Seq(CellIn(Items)))
    BY <1>11 DEF LinesIn
  <2>3. QED
    BY <1>1, <2>1, <2>2 DEF RowsSoFar
<1>13. Before = 0 /\ Before' = 0
  <2>1. Before = lineNo - 1 - Len(cur) /\ Before' = lineNo' - 1 - Len(cur') /\ Len(<<>>) = 0
    BY DEF Before
  <2>2. \A n, m : n = 1 /\ m = 0 => n - 1 - m = 0
    OBVIOUS
  <2>3. Len(cur) = 0 /\ lineNo = 1 /\ Len(cur') = 0 /\ lineNo' = 1
    BY <1>1, <1>12, <2>1, Zenon
  <2>4. QED
    BY <2>1, <2>2, <2>3, Zenon
<1>14. RowsSoFar'
  <2>1. DOMAIN <<>> = {}
    OBVIOUS
  <2>2. QED
    BY <1>1, <1>12, <1>13, <2>1 DEF RowsSoFar
<1>15. InRuns(lines, 0) = {} /\ InRuns(lines', 0) = {}
  <2>1. \A n \in Nat : \A k \in 1 .. n : ~(k <= 0)
    OBVIOUS
  <2>2. lines \in Seq(Seq(CellIn(Items))) /\ lines' \in Seq(Seq(CellIn(Items)))
    BY <1>1, <1>11 DEF LinesIn
  <2>3. (\A k \in DOMAIN lines : ~(k <= 0)) /\ (\A k \in DOMAIN lines' : ~(k <= 0))
    BY <2>1, <2>2
  <2>4. QED
    BY <2>3 DEF InRuns
<1>16. ~Boxed => Tabled(tables, page) = InRuns(lines', 0)
  BY <1>1, <1>13, <1>15 DEF DocInv, RunsSoFar
<1>17. DocTypes'
  BY <1>1, <1>2 DEF DocTypes
<1>18. RowsIn(Items, cur, lines', lineNo)
  BY <1>12, EmptyRows
<1>19. QED
  <2>1. PartSoFar'
    BY <1>1, <1>2, <1>11, <1>14, <1>18 DEF PartSoFar
  <2>2. ~Boxed' => RunsSoFar'
    BY <1>1, <1>2, <1>13, <1>16 DEF RunsSoFar
  <2>3. QED
    BY <1>1, <1>17, <2>1, <2>2, SameTables DEF DocInv

(* What holds while a line is looked at.                                      *)
LEMMA AtALine ==
    ASSUME DocInv, dpc = "rows"
    PROVE  /\ DocTypes /\ page \in DOMAIN doc.pages /\ tableIdx \in Nat /\ lineNo \in Nat \ {0} /\ page \in Nat
           /\ LinesIn(Items, rest, lines) /\ RowsIn(Items, cur, lines, lineNo) /\ RowsSoFar
           /\ lines \in Seq(Seq(CellIn(Items))) /\ Len(lines) \in Nat /\ DOMAIN lines = 1 .. Len(lines)
           /\ cur \in Seq(Seq(CellIn(Items))) /\ Len(cur) \in Nat /\ DOMAIN cur = 1 .. Len(cur)
           /\ Items \subseteq Fragment
<1>1. DocTypes /\ page \in DOMAIN doc.pages /\ tableIdx \in Nat /\ lineNo \in Nat \ {0} /\ page \in Nat
  BY DEF DocInv, DocTypes
<1>2. LinesIn(Items, rest, lines) /\ RowsIn(Items, cur, lines, lineNo) /\ RowsSoFar
  BY DEF DocInv, PartSoFar
<1>3. lines \in Seq(Seq(CellIn(Items))) /\ cur \in Seq(Seq(CellIn(Items)))
  BY <1>2 DEF LinesIn, RowsIn
<1>4. /\ Len(lines) \in Nat /\ DOMAIN lines = 1 .. Len(lines)
      /\ Len(cur) \in Nat /\ DOMAIN cur = 1 .. Len(cur)
  BY <1>3
<1>5. Items \subseteq Fragment
  BY <1>1, ItemsAre
<1>6. QED
  BY <1>1, <1>2, <1>3, <1>4, <1>5

LEMMA MergeRowKeeps == ASSUME DocInv, MergeRow PROVE DocInv'
<1>1. /\ UNCHANGED <<doc, method, page, box, rest, lines, tableIdx, tables>> /\ dpc = "rows" /\ dpc' = "rows"
      /\ rest = {} /\ lineNo <= Len(lines) /\ Boxed /\ lineNo' = lineNo + 1
  BY DEF MergeRow, Looking
<1>2. Page' = Page /\ (Boxed' <=> Boxed) /\ Items' = Items
  BY <1>1, SamePart
<1>3. lineNo \in DOMAIN lines /\ lineNo' <= Len(lines) + 1 /\ lineNo' \in Nat \ {0}
  BY <1>1, AtALine
<1>4. RowsIn(Items, cur', lines, lineNo + 1)
  <2>1. CASE Wraps
    <3>1. PICK k : cur' = [cur EXCEPT ![Len(cur)] = Into(cur[Len(cur)], k, ThisRow[1])]
      BY <2>1 DEF MergeRow
    <3>2. ThisRow[1] \in CellIn(Items)
      <4>1. lines[lineNo] \in Seq(CellIn(Items)) /\ Len(lines[lineNo]) = 1
        BY <1>1, <1>3, <2>1, AtALine DEF Wraps, ThisRow
      <4>2. QED
        BY <4>1 DEF ThisRow
    <3>3. PICK w \in CellIn(Items) : w = ThisRow[1]
      BY <3>2
    <3>4. cur # <<>>
      BY <2>1 DEF Wraps
    <3>5. RowsIn(Items, [cur EXCEPT ![Len(cur)] = Into(cur[Len(cur)], k, w)], lines, lineNo + 1)
      BY <1>1, <1>3, <3>4, AtALine, RowWrapped
    <3>6. QED
      BY <3>1, <3>3, <3>5
  <2>2. CASE ~Wraps
    <3>1. cur' = Append(cur, lines[lineNo])
      BY <2>2 DEF MergeRow, ThisRow
    <3>2. RowsIn(Items, Append(cur, lines[lineNo]), lines, lineNo + 1)
      BY <1>1, <1>3, AtALine, RowTaken
    <3>3. QED
      BY <3>1, <3>2
  <2>3. QED
    BY <2>1, <2>2
<1>5. PartSoFar'
  <2>1. LinesIn(Items, rest, lines)
    BY <1>1, AtALine
  <2>2. RowsSoFar'
    BY <1>1, <1>2, <1>3 DEF RowsSoFar
  <2>3. QED
    BY <1>1, <1>2, <1>4, <2>1, <2>2 DEF PartSoFar
<1>6. DocTypes'
  BY <1>1, <1>2, <1>3 DEF DocInv, DocTypes
<1>7. QED
  BY <1>1, <1>2, <1>5, <1>6, SameTables DEF DocInv

LEMMA TableAdded ==
    ASSUME TablesAreGrids, doc' = doc, NEW t, tables' = tables \cup {t}, IsGrid(t), \A u \in tables : KeepApart(u, t)
    PROVE  TablesAreGrids'
<1>1. \A u \in tables : KeepApart(t, u)
  BY DEF KeepApart
<1>2. \A u, v \in tables : u # v => KeepApart(u, v)
  BY DEF TablesAreGrids
<1>3. \A u, v \in tables' : u # v => KeepApart(u, v)
  BY <1>1, <1>2
<1>4. \A u, v \in tables' : u # v => KeepApart(u, v)'
  BY <1>3 DEF KeepApart
<1>5. \A u \in tables' : IsGrid(u)
  BY DEF TablesAreGrids
<1>6. QED
  BY <1>4, <1>5 DEF TablesAreGrids

(* flush at the end of a run: the run is a table when it has two rows, and no *)
(* fragment of it is in a table yet.                                          *)
LEMMA FlushFinds ==
    ASSUME DocInv, dpc = "rows", ~Boxed, rest = {}, flush, doc' = doc,
           lineNo \in DOMAIN lines => ~IsMulti(lines[lineNo])
    PROVE  /\ TablesAreGrids' /\ tableIdx' \in Nat
           /\ Tabled(tables', page) = InRuns(lines, lineNo)
           /\ \A p : p # page => Tabled(tables', p) = Tabled(tables, p)
           /\ \A t \in tables : t.page = page => t.n < tableIdx'
           /\ \A t \in tables' : t \in tables \/ (t.page = page /\ t.n \in Nat /\ t.n < tableIdx')
<1> DEFINE n == Len(cur)
           t == [page |-> page, n |-> tableIdx, rows |-> cur]
<1>1. /\ page \in DOMAIN doc.pages /\ tableIdx \in Nat /\ lineNo \in Nat \ {0}
      /\ DOMAIN lines = 1 .. Len(lines) /\ Len(lines) \in Nat /\ n \in Nat /\ DOMAIN cur = 1 .. n
  BY AtALine
<1>2. /\ Before \in Nat /\ lineNo <= Len(lines) + 1 /\ Before = lineNo - 1 - n
      /\ \A k \in 1 .. n : cur[k] = lines[Before + k] /\ IsMulti(cur[k])
      /\ Before = 0 \/ ~IsMulti(lines[Before])
  BY <1>1, AtALine DEF RowsSoFar, Before
<1>3. lineNo = Before + n + 1 /\ \A k \in 1 .. n : Before + k \in DOMAIN lines /\ Before < Before + k
  <2> HIDE DEF n
  <2>1. PICK l, b, m, z \in Nat : l = lineNo /\ b = Before /\ m = n /\ z = Len(lines)
    BY <1>1, <1>2
  <2>2. b = l - 1 - m /\ l <= z + 1
    BY <1>2, <2>1
  <2>3. l = b + m + 1 /\ \A k \in 1 .. m : b + k \in 1 .. z /\ b < b + k
    BY <2>2
  <2>4. QED
    BY <1>1, <2>1, <2>3
<1>4. /\ n < 2 => InRuns(lines, lineNo) = InRuns(lines, Before)
      /\ n >= 2 => InRuns(lines, lineNo) = InRuns(lines, Before) \cup RunOf(lines, Before, n)
  <2>1. DOMAIN lines \subseteq Nat \ {0} /\ \A k \in 1 .. n : Before + k \in DOMAIN lines /\ IsMulti(lines[Before + k])
    BY <1>1, <1>2, <1>3
  <2>2. EndOfRun(lines, Before, n, lineNo)
    BY <1>1, <1>2, <1>3, <2>1 DEF EndOfRun
  <2> HIDE DEF n
  <2>3. QED
    BY <2>2, RunEnds
<1>5. Tabled(tables, page) = InRuns(lines, Before)
  BY DEF DocInv, RunsSoFar
<1>6. \A u \in tables : u.page = page => u.n < tableIdx /\ u.n \in Nat
  BY DEF DocInv, AddressesTaken, AddressTaken
<1>7. CASE n < 2
  <2>1. tables' = tables /\ tableIdx' = tableIdx
    BY <1>7 DEF flush
  <2>2. TablesAreGrids'
    BY <2>1 DEF DocInv, TablesAreGrids, KeepApart
  <2>3. QED
    BY <1>1, <1>4, <1>5, <1>6, <1>7, <2>1, <2>2
<1>8. CASE ~(n < 2)
  <2>1. tables' = tables \cup {t} /\ tableIdx' = tableIdx + 1 /\ n >= 2
    BY <1>1, <1>8 DEF flush
  <2>2. t.page = page /\ t.n = tableIdx /\ t.rows = cur
    OBVIOUS
  <2> HIDE DEF t
  <2>3. Fragments(t) = RunOf(lines, Before, n)
    <3>1. Fragments(t) = UNION {RowFragments(cur[k]) : k \in 1 .. n}
      BY <1>1, <2>2 DEF Fragments
    <3>2. \A k \in 1 .. n : RowFragments(cur[k]) = On(lines, Before + k)
      BY <1>2 DEF On
    <3>3. QED
      BY <3>1, <3>2 DEF RunOf
  <2>4. IsGrid(t)
    <3>1. \A r \in DOMAIN cur : IsMulti(cur[r]) /\ Sorted(cur[r])
      BY <1>1, <1>2, AtALine DEF RowsIn
    <3>2. ASSUME NEW r \in DOMAIN cur, r > 1 PROVE Over(ToSet(cur[r - 1]), ToSet(cur[r]))
      <4>1. r - 1 \in DOMAIN cur /\ r - 1 < r
        BY <1>1, <3>2
      <4>2. RowsIn(Items, cur, lines, lineNo)
        BY AtALine
      <4>3. QED
        BY <4>1, <4>2 DEF RowsIn
    <3>3. Len(cur) >= 2
      BY <2>1
    <3>4. QED
      BY <2>2, <3>1, <3>2, <3>3 DEF IsGrid, Sorted, Over
  <2>5. Fragments(t) \cap Tabled(tables, page) = {}
    <3>1. ASSUME NEW f \in RunOf(lines, Before, n), f \in InRuns(lines, Before) PROVE FALSE
      <4>1. PICK k \in 1 .. n : f \in On(lines, Before + k)
        BY DEF RunOf
      <4>2. PICK m \in DOMAIN lines : m <= Before /\ f \in On(lines, m)
        BY <3>1 DEF InRuns
      <4>3. PICK q \in DOMAIN lines : q = Before + k
        BY <1>3
      <4>4. m < q
        BY <1>1, <1>2, <4>2, <4>3
      <4>5. Over(On(lines, m), On(lines, q)) /\ On(lines, m) \subseteq Items
        BY <4>4, AtALine DEF LinesIn
      <4>6. f.y < f.y /\ f.y \in Int
        BY <4>1, <4>2, <4>3, <4>5, AtALine DEF Over, Fragment
      <4>7. QED
        BY <4>6
    <3>2. QED
      BY <1>5, <2>3, <3>1
  <2>6. \A u \in tables : KeepApart(u, t)
    <3>1. ASSUME NEW u \in tables, u.page = page PROVE u.n # t.n /\ Fragments(u) \cap Fragments(t) = {}
      <4>1. u.n < tableIdx /\ u.n \in Nat
        BY <1>6, <3>1
      <4>2. u.n # tableIdx
        BY <1>1, <4>1
      <4>3. Fragments(u) \subseteq Tabled(tables, page)
        BY <3>1 DEF Tabled
      <4>4. QED
        BY <2>2, <2>5, <4>2, <4>3
    <3>2. QED
      BY <2>2, <3>1 DEF KeepApart
  <2>7. TablesAreGrids'
    <3>1. TablesAreGrids
      BY DEF DocInv
    <3>2. QED
      BY <2>1, <2>4, <2>6, <3>1, TableAdded
  <2>8. Tabled(tables', page) = Tabled(tables, page) \cup Fragments(t)
    BY <2>1, <2>2 DEF Tabled
  <2>9. \A p : p # page => Tabled(tables', p) = Tabled(tables, p)
    BY <2>1, <2>2 DEF Tabled
  <2>10. Tabled(tables', page) = InRuns(lines, lineNo)
    BY <1>4, <1>5, <2>1, <2>3, <2>8
  <2>11. tableIdx' \in Nat /\ tableIdx < tableIdx' /\ \A i \in Nat : i < tableIdx => i < tableIdx'
    <3>1. \A i, j \in Nat : j + 1 \in Nat /\ j < j + 1 /\ (i < j => i < j + 1)
      OBVIOUS
    <3>2. QED
      BY <1>1, <2>1, <3>1
  <2>12. QED
    BY <1>1, <1>6, <2>1, <2>2, <2>7, <2>9, <2>10, <2>11
<1>9. QED
  BY <1>7, <1>8

LEMMA TakeRowKeeps == ASSUME DocInv, TakeRow PROVE DocInv'
<1>1. /\ UNCHANGED <<doc, method, page, box, rest, lines>> /\ dpc = "rows" /\ dpc' = "rows"
      /\ rest = {} /\ lineNo <= Len(lines) /\ ~Boxed /\ lineNo' = lineNo + 1
  BY DEF TakeRow, Looking
<1>2. Page' = Page /\ (Boxed' <=> Boxed) /\ Items' = Items
  BY <1>1, SamePart
<1>3. lineNo \in DOMAIN lines /\ lineNo' <= Len(lines) + 1 /\ lineNo' \in Nat \ {0}
  BY <1>1, AtALine
<1>4. LinesIn(Items, rest, lines)
  BY <1>1, AtALine
<1>5. Before = lineNo - 1 - Len(cur) /\ Before \in Nat
  BY <1>1, AtALine DEF Before, RowsSoFar
<1>6. CASE IsMulti(ThisRow)
  <2>1. cur' = Append(cur, lines[lineNo]) /\ UNCHANGED <<tables, tableIdx>> /\ IsMulti(lines[lineNo])
    BY <1>6 DEF TakeRow, ThisRow
  <2>2. RowsIn(Items, cur', lines, lineNo + 1)
    <3>1. RowsIn(Items, Append(cur, lines[lineNo]), lines, lineNo + 1)
      BY <1>1, <1>3, AtALine, RowTaken
    <3>2. QED
      BY <2>1, <3>1
  <2>3. /\ Len(cur') = Len(cur) + 1 /\ DOMAIN cur' = 1 .. Len(cur) + 1 /\ Len(cur) \in Nat
        /\ cur'[Len(cur) + 1] = lines[lineNo] /\ \A k \in 1 .. Len(cur) : cur'[k] = cur[k]
    <3> DEFINE T == Seq(CellIn(Items))
               d == Append(cur, lines[lineNo])
    <3>1. cur \in Seq(T) /\ lines[lineNo] \in T /\ Len(cur) \in Nat
      BY <1>1, <1>3, AtALine
    <3> HIDE DEF T
    <3>2. /\ Len(d) = Len(cur) + 1 /\ DOMAIN d = 1 .. Len(cur) + 1
          /\ d[Len(cur) + 1] = lines[lineNo] /\ \A k \in 1 .. Len(cur) : d[k] = cur[k]
      BY <3>1
    <3> HIDE DEF d
    <3>3. cur' = d
      BY <2>1 DEF d
    <3>4. QED
      BY <3>1, <3>2, <3>3
  <2>4. Before' = Before
    <3>1. \A a, b \in Nat : (a + 1) - 1 - (b + 1) = a - 1 - b
      OBVIOUS
    <3>2. Before' = lineNo' - 1 - Len(cur')
      BY DEF Before
    <3>3. lineNo \in Nat /\ Len(cur) \in Nat
      BY <1>1, AtALine
    <3>4. Before' = (lineNo + 1) - 1 - (Len(cur) + 1)
      BY <1>1, <2>3, <3>2
    <3>5. QED
      BY <1>5, <3>1, <3>3, <3>4
  <2>5. lineNo = Before + (Len(cur) + 1)
    <3>1. \A a, b \in Nat : a = (a - 1 - b) + (b + 1)
      OBVIOUS
    <3>2. lineNo \in Nat /\ Len(cur) \in Nat
      BY <1>1, AtALine
    <3>3. QED
      BY <1>5, <3>1, <3>2, Zenon
  <2>6. RowsSoFar'
    <3>1. \A k \in DOMAIN cur' : cur'[k] = lines[Before + k] /\ IsMulti(cur'[k])
      <4>1. \A k \in 1 .. Len(cur) : cur[k] = lines[Before + k] /\ IsMulti(cur[k])
        BY <1>1, AtALine DEF RowsSoFar
      <4>2. \A k \in DOMAIN cur' : k \in 1 .. Len(cur) \/ k = Len(cur) + 1
        BY <2>3
      <4>3. cur'[Len(cur) + 1] = lines[Before + (Len(cur) + 1)] /\ IsMulti(cur'[Len(cur) + 1])
        BY <2>1, <2>3, <2>5
      <4>4. QED
        BY <2>3, <4>1, <4>2, <4>3
    <3>2. Before = 0 \/ ~IsMulti(lines[Before])
      BY <1>1, AtALine DEF RowsSoFar
    <3>3. QED
      BY <1>1, <1>2, <1>3, <1>5, <2>4, <3>1, <3>2 DEF RowsSoFar
  <2>7. PartSoFar'
    BY <1>1, <1>2, <1>4, <2>2, <2>6 DEF PartSoFar
  <2>8. RunsSoFar'
    BY <1>1, <2>1, <2>4 DEF DocInv, RunsSoFar
  <2>9. DocTypes'
    BY <1>1, <1>2, <1>3, <2>1 DEF DocInv, DocTypes
  <2>10. QED
    BY <1>1, <2>1, <2>7, <2>8, <2>9, SameTables DEF DocInv
<1>7. CASE ~IsMulti(ThisRow)
  <2>1. flush /\ cur' = <<>> /\ ~IsMulti(lines[lineNo])
    BY <1>7 DEF TakeRow, ThisRow
  <2>2. /\ TablesAreGrids' /\ tableIdx' \in Nat
        /\ Tabled(tables', page) = InRuns(lines, lineNo)
        /\ \A p : p # page => Tabled(tables', p) = Tabled(tables, p)
        /\ \A t \in tables : t.page = page => t.n < tableIdx'
        /\ \A t \in tables' : t \in tables \/ (t.page = page /\ t.n \in Nat /\ t.n < tableIdx')
    BY <1>1, <2>1, FlushFinds
  <2>3. Before' = lineNo
    <3>1. \A a \in Nat : (a + 1) - 1 - 0 = a
      OBVIOUS
    <3>2. Before' = lineNo' - 1 - Len(cur') /\ Len(<<>>) = 0
      BY DEF Before
    <3>3. lineNo \in Nat
      BY <1>1, AtALine
    <3>4. QED
      BY <1>1, <2>1, <3>1, <3>2, <3>3, Zenon
  <2>4. RowsSoFar'
    <3>1. DOMAIN <<>> = {} /\ lineNo \in Nat
      BY <1>1, AtALine
    <3>2. QED
      BY <1>1, <1>2, <1>3, <2>1, <2>3, <3>1 DEF RowsSoFar
  <2>5. PartSoFar'
    <3>1. RowsIn(Items, <<>>, lines, lineNo + 1)
      BY EmptyRows
    <3>2. QED
      BY <1>1, <1>2, <1>4, <2>1, <2>4, <3>1 DEF PartSoFar
  <2>6. RunsSoFar'
    BY <1>1, <2>2, <2>3 DEF RunsSoFar
  <2>7. DocTypes'
    BY <1>1, <1>2, <1>3, <2>2 DEF DocInv, DocTypes
  <2>8. AddressesTaken'
    <3>1. page <= page /\ doc.pages[page].boxes = <<>> /\ page \in DOMAIN doc.pages
      BY <1>1, AtALine DEF Boxed, Page
    <3>2. ASSUME NEW t \in tables' PROVE AddressTaken(t)'
      <4>1. CASE t \in tables
        BY <1>1, <1>2, <2>2, <4>1 DEF DocInv, AddressesTaken, AddressTaken
      <4>2. CASE t.page = page /\ t.n \in Nat /\ t.n < tableIdx'
        BY <1>1, <1>2, <3>1, <4>2 DEF AddressTaken
      <4>3. QED
        BY <2>2, <4>1, <4>2
    <3>3. QED
      BY <3>2 DEF AddressesTaken
  <2>9. PagesSettled'
    <3>1. \A p \in DOMAIN doc.pages : p < page => p # page /\ Settled(p)
      BY <1>1, AtALine, DocIsRight DEF DocInv, PagesSettled, DocTypes
    <3>2. QED
      BY <1>1, <2>2, <3>1 DEF PagesSettled, Settled
  <2>10. QED
    BY <1>1, <2>2, <2>5, <2>6, <2>7, <2>8, <2>9 DEF DocInv
<1>8. QED
  BY <1>6, <1>7

LEMMA PageTurns ==
    ASSUME DocTypes, page \in DOMAIN doc.pages, doc' = doc, method' = method, method = "liteparse" => dpc = "rows", NextPage
    PROVE  DocTypes' /\ \A p \in DOMAIN doc.pages : (p < page' => p < page \/ p = page) /\ (p <= page => p <= page' /\ p # page')
<1>1. dpc' = "page" /\ page' = page + 1 /\ box' = 1 /\ page \in Nat /\ doc \in Documents
  BY DEF NextPage, DocTypes
<1>2. page' \in DOMAIN doc.pages /\ Boxed' => 1 \in DOMAIN Page'.boxes
  <2>1. ASSUME NEW p \in DOMAIN doc.pages, doc.pages[p].boxes # <<>> PROVE 1 \in DOMAIN doc.pages[p].boxes
    <3>1. doc.pages[p].boxes \in Seq(BBox)
      BY <1>1, DocIsRight
    <3>2. QED
      BY <2>1, <3>1
  <2>2. QED
    BY <1>1, <2>1 DEF Page, Boxed
<1>3. page' \in Nat \ {0} /\ box' \in Nat \ {0}
  BY <1>1
<1>4. DocTypes'
  BY <1>1, <1>2, <1>3 DEF DocTypes
<1>5. \A p \in DOMAIN doc.pages : (p < page' => p < page \/ p = page) /\ (p <= page => p <= page' /\ p # page')
  BY <1>1, DocIsRight
<1>6. QED
  BY <1>4, <1>5

LEMMA EndOfPageKeeps == ASSUME DocInv, EndOfPage PROVE DocInv'
<1>1. /\ UNCHANGED <<doc, method, rest, lines, lineNo, cur>> /\ dpc = "rows" /\ dpc' = "page"
      /\ rest = {} /\ lineNo > Len(lines) /\ ~Boxed /\ flush /\ NextPage
  BY DEF EndOfPage, NextPage
<1>2. DocTypes /\ page \in DOMAIN doc.pages /\ page \in Nat
  BY <1>1, AtALine
<1>3. /\ DocTypes'
      /\ \A p \in DOMAIN doc.pages : (p < page' => p < page \/ p = page) /\ (p <= page => p <= page' /\ p # page')
  BY <1>1, <1>2, PageTurns
<1>4. lineNo \notin DOMAIN lines /\ Len(lines) \in Nat /\ lineNo = Len(lines) + 1
  BY <1>1, AtALine DEF RowsSoFar
<1>5. /\ TablesAreGrids'
      /\ Tabled(tables', page) = InRuns(lines, lineNo)
      /\ \A p : p # page => Tabled(tables', p) = Tabled(tables, p)
      /\ \A t \in tables' : t \in tables \/ (t.page = page /\ t.n \in Nat)
  BY <1>1, <1>4, FlushFinds
<1>6. InRuns(lines, lineNo) = InRuns(lines, Len(lines))
  <2>1. \A m \in DOMAIN lines : m <= lineNo /\ m <= Len(lines)
    BY <1>1, <1>4, AtALine
  <2>2. QED
    BY <2>1 DEF InRuns
<1>7. AddressesTaken'
  <2>1. doc.pages[page].boxes = <<>> /\ page <= page
    BY <1>1, <1>2 DEF Boxed, Page
  <2>2. ASSUME NEW t \in tables' PROVE AddressTaken(t)'
    <3>1. CASE t \in tables
      <4>1. AddressTaken(t)
        BY <3>1 DEF DocInv, AddressesTaken
      <4>2. t.page <= page' /\ t.page # page'
        BY <1>3, <4>1 DEF AddressTaken
      <4>3. QED
        BY <1>1, <4>1, <4>2 DEF AddressTaken
    <3>2. CASE t.page = page /\ t.n \in Nat
      <4>1. t.page <= page' /\ t.page # page'
        BY <1>2, <1>3, <2>1, <3>2
      <4>2. QED
        BY <1>1, <1>2, <2>1, <3>2, <4>1 DEF AddressTaken
    <3>3. QED
      BY <1>5, <3>1, <3>2
  <2>3. QED
    BY <2>2 DEF AddressesTaken
<1>8. PagesSettled'
  <2>1. \A p \in DOMAIN doc.pages : p < page => p # page /\ Settled(p)
    BY <1>2, DocIsRight DEF DocInv, PagesSettled, DocTypes
  <2>2. ASSUME Apart(doc.pages[page].items)
        PROVE  Tabled(tables', page) = {i \in doc.pages[page].items : InTable(doc.pages[page].items, i)}
    <3>1. Items = doc.pages[page].items /\ Items \subseteq Fragment
      BY <1>1, <1>2, ItemsAre DEF Page
    <3>2. LinesIn(Items, {}, lines) /\ Apart(Items)
      BY <1>1, <2>2, <3>1, AtALine
    <3>3. InRuns(lines, Len(lines)) = {i \in Items : InTable(Items, i)}
      BY <3>1, <3>2, RunsAreTables
    <3>4. QED
      BY <1>5, <1>6, <3>1, <3>3
  <2>3. ASSUME NEW p \in DOMAIN doc.pages, p < page' PROVE Settled(p)'
    <3>1. CASE p < page
      BY <1>1, <1>5, <2>1, <3>1 DEF Settled
    <3>2. CASE p = page
      BY <1>1, <2>2, <3>2 DEF Settled
    <3>3. QED
      BY <1>3, <2>3, <3>1, <3>2
  <2>4. QED
    BY <1>1, <2>3 DEF PagesSettled
<1>9. QED
  BY <1>1, <1>3, <1>5, <1>7, <1>8 DEF DocInv

(* What rowsToTable makes of the rows of a box is a grid of fragments in it.  *)
LEMMA BoxIsGrid ==
    ASSUME DocInv, dpc = "rows", Boxed, NEW o \in [1 .. Cardinality(Core) -> Core],
           \A i, j \in DOMAIN o : i < j => o[i] # o[j] /\ ~(o[j] < o[i]), Len(o) >= 2
    PROVE  IsGrid(rowsToTable(o)) /\ Fragments(rowsToTable(o)) \subseteq Items
<1>1. /\ cur \in Seq(Seq(CellIn(Items))) /\ Len(cur) \in Nat /\ DOMAIN cur = 1 .. Len(cur)
      /\ RowsIn(Items, cur, lines, lineNo)
  BY AtALine
<1>2. Core \subseteq DOMAIN cur /\ IsFiniteSet(Core) /\ \A k \in Core : IsMulti(cur[k]) /\ k \in Nat
  <2>1. \A n \in Nat : IsFiniteSet(1 .. n)
    BY FS_Interval
  <2>2. Core \subseteq DOMAIN cur /\ IsFiniteSet(DOMAIN cur)
    BY <1>1, <2>1 DEF Core
  <2>3. IsFiniteSet(Core)
    BY <2>2, FS_Subset
  <2>4. QED
    BY <1>1, <2>2, <2>3 DEF Core
<1>4. PICK s \in [1 .. Cardinality(Core) -> Core] : s = o /\ \A i, j \in DOMAIN s : i < j => s[i] # s[j] /\ ~(s[j] < s[i])
  OBVIOUS
<1>5. s \in Seq(Core) /\ Len(s) = Cardinality(Core) /\ Cardinality(Core) \in Nat /\ DOMAIN s = 1 .. Cardinality(Core)
  <2>1. \A i, j \in DOMAIN s : i < j => s[i] # s[j]
    BY <1>4
  <2>2. QED
    BY <1>2, <2>1, AllListed
<1> DEFINE t == rowsToTable(o)
           rows == [k \in DOMAIN s |-> cur[s[k]]]
<1>6. t.rows = rows /\ DOMAIN rows = DOMAIN s
  BY <1>4 DEF rowsToTable
<1>7. \A k \in DOMAIN s : rows[k] = cur[s[k]] /\ s[k] \in Core
  BY <1>5
<1>8. rows \in Seq(Seq(CellIn(Items))) /\ Len(rows) >= 2
  <2> DEFINE T == Seq(CellIn(Items))
  <2>1. cur \in Seq(T)
    BY <1>1
  <2> HIDE DEF T
  <2>2. \A k \in Core : cur[k] \in T
    BY <1>2, <2>1
  <2>3. DOMAIN s = 1 .. Len(s) /\ Len(s) \in Nat /\ Len(s) >= 2
    BY <1>4, <1>5
  <2>4. rows \in [1 .. Len(s) -> T]
    BY <1>7, <2>2, <2>3
  <2> HIDE DEF rows
  <2>5. \A n \in Nat : \A f \in [1 .. n -> T] : f \in Seq(T) /\ Len(f) = n
    OBVIOUS
  <2>6. rows \in Seq(T) /\ Len(rows) = Len(s)
    BY <2>3, <2>4, <2>5, Zenon
  <2>7. QED
    BY <2>3, <2>6 DEF T
<1> HIDE DEF t, rows
<1>9. \A k \in DOMAIN rows : IsMulti(rows[k]) /\ Sorted(rows[k])
  BY <1>1, <1>2, <1>6, <1>7 DEF RowsIn
<1>10. ASSUME NEW r \in DOMAIN rows, r > 1 PROVE Over(ToSet(rows[r - 1]), ToSet(rows[r]))
  <2>1. r \in DOMAIN s /\ r - 1 \in DOMAIN s /\ r - 1 < r
    BY <1>5, <1>6, <1>10
  <2>2. s[r] \in Core /\ s[r - 1] \in Core /\ s[r] \in Nat /\ s[r - 1] \in Nat
    BY <1>2, <1>7, <2>1
  <2>3. s[r - 1] # s[r] /\ ~(s[r] < s[r - 1])
    BY <1>4, <2>1
  <2>4. s[r - 1] < s[r] /\ s[r] \in DOMAIN cur /\ s[r - 1] \in DOMAIN cur
    BY <1>2, <2>2, <2>3
  <2>5. Over(ToSet(cur[s[r - 1]]), ToSet(cur[s[r]]))
    BY <1>1, <2>4 DEF RowsIn
  <2>6. QED
    BY <1>7, <2>1, <2>5
<1>11. IsGrid(t)
  BY <1>6, <1>8, <1>9, <1>10 DEF IsGrid, Sorted, Over
<1>12. Fragments(t) \subseteq Items
  <2>1. ASSUME NEW r \in DOMAIN rows PROVE RowFragments(rows[r]) \subseteq Items
    <3>1. rows[r] \in Seq(CellIn(Items))
      BY <1>8
    <3>2. \A k \in DOMAIN rows[r] : rows[r][k] \in CellIn(Items)
      BY <3>1
    <3>3. \A c \in CellIn(Items) : c.text \subseteq Items
      BY DEF CellIn
    <3>4. QED
      BY <3>2, <3>3 DEF RowFragments
  <2>2. QED
    BY <1>6, <2>1 DEF Fragments
<1>13. QED
  BY <1>11, <1>12 DEF t

LEMMA EndOfBoxKeeps == ASSUME DocInv, EndOfBox PROVE DocInv'
<1>1. /\ UNCHANGED <<doc, method, tableIdx>> /\ dpc = "rows" /\ Boxed /\ NextPart
  BY DEF EndOfBox, reading
<1>2. dpc' = "page"
  BY <1>1 DEF NextPart, NextPage
<1>3. PICK o \in [1 .. Cardinality(Core) -> Core] :
         /\ tables' = IF Len(o) < 2 THEN tables ELSE tables \cup {rowsToTable(o)}
         /\ \A i, j \in DOMAIN o : i < j => o[i] # o[j] /\ ~(o[j] < o[i])
  BY DEF EndOfBox, Ranked
<1>4. DocTypes /\ page \in DOMAIN doc.pages /\ page \in Nat /\ box \in Nat \ {0} /\ doc \in Documents
  BY <1>1, AtALine DEF DocTypes
<1>5. /\ box \in DOMAIN Page.boxes /\ DOMAIN Page.boxes = 1 .. Len(Page.boxes) /\ Len(Page.boxes) \in Nat
      /\ Page.boxes \in Seq(BBox) /\ Page.boxes # <<>>
  BY <1>1, <1>4, DocIsRight DEF DocTypes, Page, Boxed
<1>6. PICK t : t = rowsToTable(o)
  OBVIOUS
<1>7. t.page = page /\ t.n = box - 1 /\ t.n \in Nat /\ t.n + 1 = box
  <2>1. t.page = page /\ t.n = box - 1
    BY <1>6 DEF rowsToTable
  <2>2. \A b \in Nat \ {0} : b - 1 \in Nat /\ (b - 1) + 1 = b
    OBVIOUS
  <2>3. QED
    BY <1>4, <2>1, <2>2
<1>8. ASSUME ~(Len(o) < 2) PROVE /\ IsGrid(t) /\ Fragments(t) \subseteq Items
                                /\ tables' = tables \cup {t}
  <2>1. Len(o) >= 2
    <3>1. Core \subseteq DOMAIN cur /\ IsFiniteSet(Core)
      <4>1. \A n \in Nat : IsFiniteSet(1 .. n)
        BY FS_Interval
      <4>2. Core \subseteq DOMAIN cur /\ IsFiniteSet(DOMAIN cur)
        BY <1>1, <4>1, AtALine DEF Core
      <4>3. QED
        BY <4>2, FS_Subset
    <3>2. Cardinality(Core) \in Nat
      BY <3>1, FS_CardinalityType
    <3>4. \A S : \A n \in Nat : \A f \in [1 .. n -> S] : Len(f) \in Nat
      OBVIOUS
    <3>5. Len(o) \in Nat
      BY <3>2, <3>4, Zenon
    <3>6. QED
      BY <1>8, <3>5
  <2>2. QED
    BY <1>1, <1>3, <1>6, <1>8, <2>1, BoxIsGrid
<1>9. Items = itemsInBBox(doc.pages[page].items, doc.pages[page].boxes[box])
  BY <1>1 DEF Items, Page
<1>10. \A u \in tables : /\ AddressTaken(u)
                         /\ u.page = page => u.n + 1 < box /\ u.n \in Nat
  BY <1>1 DEF DocInv, AddressesTaken, AddressTaken
<1>11. TablesAreGrids'
  <2>1. TablesAreGrids
    BY DEF DocInv
  <2>2. CASE Len(o) < 2
    BY <1>1, <1>3, <2>1, <2>2 DEF TablesAreGrids, KeepApart
  <2>3. CASE ~(Len(o) < 2)
    <3>1. ASSUME NEW u \in tables, u.page = page PROVE KeepApart(u, t)
      <4>1. PICK a \in DOMAIN doc.pages[page].boxes : a = u.n + 1 /\ a < box
        BY <1>5, <1>10, <3>1 DEF AddressTaken, Page
      <4>2. u.n # t.n /\ a # box
        BY <1>5, <1>7, <4>1 DEF Page
      <4>3. Fragments(u) \subseteq itemsInBBox(doc.pages[page].items, doc.pages[page].boxes[a])
        BY <1>5, <1>10, <3>1, <4>1 DEF AddressTaken, Page
      <4>4. CASE Fragments(u) \cap Fragments(t) = {}
        BY <1>7, <3>1, <4>2, <4>4 DEF KeepApart
      <4>5. CASE Fragments(u) \cap Fragments(t) # {}
        <5>1. PICK f : f \in Fragments(u) /\ f \in Fragments(t)
          BY <4>5
        <5>2. /\ f \in itemsInBBox(doc.pages[page].items, doc.pages[page].boxes[a])
              /\ f \in itemsInBBox(doc.pages[page].items, doc.pages[page].boxes[box])
          BY <1>8, <1>9, <2>3, <4>3, <5>1
        <5>3. PICK b, c : b = doc.pages[page].boxes[a] /\ c = doc.pages[page].boxes[box]
          OBVIOUS
        <5>4. b \in BBox /\ c \in BBox
          <6>1. doc.pages[page].boxes \in Seq(BBox) /\ box \in DOMAIN doc.pages[page].boxes
            BY <1>5 DEF Page
          <6>2. QED
            BY <5>3, <6>1
        <5>5. /\ f.x \in Int /\ f.y \in Int /\ b.x \in Int /\ b.y \in Int /\ b.w \in Int /\ b.h \in Int
              /\ c.x \in Int /\ c.y \in Int /\ c.w \in Int /\ c.h \in Int
          <6>1. \A i \in Fragment : i.x \in Int /\ i.y \in Int
            BY DEF Fragment
          <6>2. \A i \in BBox : i.x \in Int /\ i.y \in Int /\ i.w \in Int /\ i.h \in Int
            BY DEF BBox
          <6>3. doc.pages[page].items \subseteq Fragment /\ f \in doc.pages[page].items
            BY <1>4, <5>2, DocIsRight DEF itemsInBBox
          <6>4. QED
            BY <5>4, <6>1, <6>2, <6>3
        <5>6. /\ f.x >= b.x /\ f.x < b.x + b.w /\ f.y >= b.y /\ f.y < b.y + b.h
              /\ f.x >= c.x /\ f.x < c.x + c.w /\ f.y >= c.y /\ f.y < c.y + c.h
          BY <5>2, <5>3 DEF itemsInBBox
        <5>7. \A p, q, r, v, w \in Int : p >= q /\ p < q + r /\ p >= v /\ p < v + w => q < v + w /\ v < q + r
          OBVIOUS
        <5>8. Overlap(b, c)
          BY <5>5, <5>6, <5>7 DEF Overlap
        <5>9. box \in DOMAIN doc.pages[page].boxes
          BY <1>5 DEF Page
        <5>10. QED
          BY <1>7, <3>1, <4>1, <4>2, <5>3, <5>8, <5>9 DEF KeepApart
      <4>6. QED
        BY <4>4, <4>5
    <3>2. \A u \in tables : KeepApart(u, t)
      BY <1>7, <3>1 DEF KeepApart
    <3>3. QED
      BY <1>1, <1>8, <2>1, <2>3, <3>2, TableAdded
  <2>4. QED
    BY <2>2, <2>3
<1>12. \A u \in tables' : u \in tables \/ (u = t /\ Fragments(t) \subseteq Items)
  BY <1>3, <1>8
<1>13. /\ t.page \in DOMAIN doc.pages /\ t.page <= page /\ t.n \in Nat
       /\ t.n + 1 \in DOMAIN doc.pages[t.page].boxes
       /\ Items = itemsInBBox(doc.pages[t.page].items, doc.pages[t.page].boxes[t.n + 1])
  BY <1>4, <1>5, <1>7, <1>9 DEF Page
<1>14. \A p : p # page => Tabled(tables', p) = Tabled(tables, p)
  <2>1. \A p : p # page => {u \in tables' : u.page = p} = {u \in tables : u.page = p}
    BY <1>3, <1>7, <1>8
  <2>2. QED
    BY <2>1 DEF Tabled
<1>15. \A p \in DOMAIN doc.pages : p < page => p # page /\ Settled(p)
  BY <1>4, DocIsRight DEF DocInv, PagesSettled
<1>16. CASE box < Len(Page.boxes)
  <2>1. page' = page /\ box' = box + 1
    BY <1>1, <1>16 DEF NextPart
  <2>2. Page' = Page /\ (Boxed' <=> Boxed)
    BY <1>1, <2>1 DEF Page, Boxed
  <2>3. box + 1 \in DOMAIN Page.boxes /\ box + 1 \in Nat \ {0} /\ box < box + 1 /\ \A i \in Nat : i < box => i < box + 1
    BY <1>4, <1>5, <1>16
  <2>4. DocTypes'
    BY <1>1, <1>2, <1>4, <2>1, <2>2, <2>3 DEF DocTypes
  <2>5. AddressesTaken'
    <3>1. ASSUME NEW u \in tables' PROVE AddressTaken(u)'
      <4>1. CASE u \in tables
        <5>1. u.page = page => u.n + 1 < box + 1
          <6>1. \A i \in Nat : i + 1 < box => i + 1 < box + 1
            BY <1>4
          <6>2. QED
            BY <1>10, <4>1, <6>1
        <5>2. QED
          BY <1>1, <1>10, <2>1, <2>2, <4>1, <5>1 DEF AddressTaken
      <4>2. CASE u = t /\ Fragments(t) \subseteq Items
        BY <1>1, <1>7, <1>13, <2>1, <2>2, <2>3, <4>2 DEF AddressTaken
      <4>3. QED
        BY <1>12, <4>1, <4>2
    <3>2. QED
      BY <3>1 DEF AddressesTaken
  <2>6. PagesSettled'
    BY <1>1, <1>14, <1>15, <2>1 DEF PagesSettled, Settled
  <2>7. QED
    BY <1>2, <1>11, <2>4, <2>5, <2>6 DEF DocInv
<1>17. CASE ~(box < Len(Page.boxes))
  <2>1. NextPage
    BY <1>1, <1>17 DEF NextPart
  <2>2. /\ DocTypes'
        /\ \A p \in DOMAIN doc.pages : (p < page' => p < page \/ p = page) /\ (p <= page => p <= page' /\ p # page')
    BY <1>1, <1>4, <2>1, PageTurns
  <2>3. AddressesTaken'
    <3>1. ASSUME NEW u \in tables' PROVE AddressTaken(u)'
      <4>1. CASE u \in tables
        <5>1. u.page <= page' /\ u.page # page'
          BY <1>10, <2>2, <4>1 DEF AddressTaken
        <5>2. QED
          BY <1>1, <1>10, <4>1, <5>1 DEF AddressTaken
      <4>2. CASE u = t /\ Fragments(t) \subseteq Items
        <5>1. t.page <= page' /\ t.page # page'
          BY <1>13, <2>2
        <5>2. QED
          BY <1>1, <1>13, <4>2, <5>1 DEF AddressTaken
      <4>3. QED
        BY <1>12, <4>1, <4>2
    <3>2. QED
      BY <3>1 DEF AddressesTaken
  <2>4. PagesSettled'
    <3>1. ASSUME NEW p \in DOMAIN doc.pages, p < page' PROVE Settled(p)'
      BY <1>1, <1>5, <1>14, <1>15, <2>2, <3>1 DEF Settled, Page
    <3>2. QED
      BY <1>1, <3>1 DEF PagesSettled
  <2>5. QED
    BY <1>2, <1>11, <2>2, <2>3, <2>4 DEF DocInv
<1>18. QED
  BY <1>16, <1>17

LEMMA DocStep == ASSUME DocInv, [DocNext]_docVars PROVE DocInv'
<1>1. CASE UNCHANGED docVars
  <2>1. UNCHANGED <<doc, dpc, method, page, box, rest, lines, lineNo, cur, tableIdx, tables>>
    BY <1>1 DEF docVars, reading
  <2>2. Page' = Page /\ (Boxed' <=> Boxed) /\ Items' = Items
    BY <2>1, SamePart
  <2>3. DocTypes'
    BY <2>1, <2>2 DEF DocInv, DocTypes
  <2>4. Before' = Before
    BY <2>1 DEF Before
  <2>5. dpc = "rows" => PartSoFar'
    BY <2>1, <2>2, <2>4 DEF DocInv, PartSoFar, RowsSoFar
  <2>6. dpc = "rows" /\ ~Boxed => RunsSoFar'
    BY <2>1, <2>4 DEF DocInv, RunsSoFar
  <2>7. dpc # "rows" \/ dpc' = "rows"
    BY <2>1
  <2>8. QED
    BY <2>1, <2>2, <2>3, <2>5, <2>6, <2>7, SameTables DEF DocInv
<1>2. CASE DocNext
  BY <1>2, HandleKeeps, StartPartKeeps, EmptyPageKeeps, BucketRowKeeps, MergeRowKeeps, TakeRowKeeps,
     EndOfPageKeeps, EndOfBoxKeeps DEF DocNext, Reconstruct
<1>3. QED
  BY <1>1, <1>2

(* The tables ReconstructTables finds are grids that keep apart, and on a     *)
(* page without boxes whose lines keep apart no cell of one is left out.      *)
THEOREM DocTablesWhole == DocInit /\ [][DocNext]_docVars => []TablesAreWhole
<1>1. DocInit => DocInv
  <2> SUFFICES ASSUME DocInit PROVE DocInv
    OBVIOUS
  <2>1. /\ doc \in Documents /\ dpc = "fast" /\ method = "none" /\ page = 1 /\ box = 1 /\ tables = {}
    BY DEF DocInit
  <2>2. DocTypes
    <3>1. page \in DOMAIN doc.pages /\ Boxed => 1 \in DOMAIN Page.boxes
      <4>1. ASSUME NEW p \in DOMAIN doc.pages, doc.pages[p].boxes # <<>> PROVE 1 \in DOMAIN doc.pages[p].boxes
        <5>1. doc.pages[p].boxes \in Seq(BBox)
          BY <2>1, DocIsRight
        <5>2. QED
          BY <4>1, <5>1
      <4>2. QED
        BY <4>1 DEF Boxed, Page
    <3>2. QED
      BY <2>1, <3>1 DEF DocTypes
  <2>3. \A p \in DOMAIN doc.pages : ~(p < 1)
    BY <2>1, DocIsRight
  <2>4. QED
    BY <2>1, <2>2, <2>3 DEF DocInv, TablesAreGrids, AddressesTaken, PagesSettled
<1>2. DocInv /\ [DocNext]_docVars => DocInv'
  BY DocStep
<1>3. DocInv => TablesAreWhole
  <2> SUFFICES ASSUME DocInv PROVE TablesAreWhole
    OBVIOUS
  <2>1. TablesAreRuns
    <3>1. ASSUME dpc = "done", method = "liteparse", NEW p \in DOMAIN doc.pages PROVE Settled(p)
      <4>1. doc \in Documents /\ page > Len(doc.pages) /\ page \in Nat
        BY <3>1 DEF DocInv, DocTypes
      <4>2. p < page
        BY <4>1, DocIsRight
      <4>3. QED
        BY <4>2 DEF DocInv, PagesSettled
    <3>2. QED
      BY <3>1 DEF TablesAreRuns, Settled, Tabled, OnPage
  <2>2. QED
    BY <2>1 DEF DocInv, TablesAreWhole
<1>4. QED
  BY <1>1, <1>2, <1>3, PTL
=============================================================================
