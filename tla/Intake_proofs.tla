---------------------------- MODULE Intake_proofs ---------------------------
(***************************************************************************)
(* Proofs about the programs that bring mail in: MailWatch posts a message *)
(* again only after a fault or a crash, EtlRunner loses no more than a     *)
(* failed run had in its first channel and its workers, an import of       *)
(* ArchiveImport that reports success has left every letter, once, the     *)
(* Incubator saves few letters twice, a cycle of BrowserSync without an    *)
(* error has brought in every entry, and CorpusWatch does not take a       *)
(* change for one it has seen.                                             *)
(***************************************************************************)
EXTENDS MailWatch, EtlRunner, ArchiveImport, Incubator, BrowserSync, CorpusWatch,
        Lists_proofs, FiniteSetTheorems, TLAPS

-----------------------------------------------------------------------------
(* MailWatch. *)

WatchTypes ==
    /\ taken \subseteq Msgs /\ saved \subseteq Msgs /\ found \subseteq Msgs
    /\ repeats \in Nat /\ faults \in Nat /\ crashes \in Nat

(* While leafs are pushed the state in memory is the one on disk, except for *)
(* the message that was just taken.                                          *)
Pushing ==
    /\ pc \in {"push", "mark"} => state = saved
    /\ pc = "mark" => cur \in taken /\ cur \notin saved

(* Every message that was taken and is not in the state file may be posted   *)
(* again; a fault or a crash has been paid for it, but for the one that is   *)
(* just being marked.                                                        *)
Unmarked == taken \ saved
Marking == IF pc = "mark" THEN 1 ELSE 0
RepeatsPaid == repeats + Cardinality(Unmarked) <= faults + crashes + Marking

WatchInv == WatchTypes /\ Pushing /\ RepeatsPaid

LEMMA UnmarkedCount ==
    ASSUME WatchTypes
    PROVE  /\ IsFiniteSet(Unmarked) /\ Cardinality(Unmarked) \in Nat
           /\ \A m : Cardinality(Unmarked \cup {m}) =
                  IF m \in Unmarked THEN Cardinality(Unmarked) ELSE Cardinality(Unmarked) + 1
           /\ \A m : Cardinality(Unmarked \ {m}) =
                  IF m \in Unmarked THEN Cardinality(Unmarked) - 1 ELSE Cardinality(Unmarked)
<1>1. IsFiniteSet(Msgs)
  BY WatchAssumption, FS_Interval DEF Msgs
<1>2. IsFiniteSet(Unmarked)
  BY <1>1, FS_Subset DEF WatchTypes, Unmarked
<1>3. QED
  BY <1>2, FS_CardinalityType, FS_AddElement, FS_RemoveElement

LEMMA WatchInit == Init => WatchInv
<1>1. Init => Unmarked = {} /\ Cardinality({}) = 0
  BY FS_EmptySet DEF Init, Unmarked
<1>2. QED
  BY <1>1 DEF Init, WatchInv, WatchTypes, Pushing, RepeatsPaid, Marking

(* Steps that leave the brain and the state file alone. *)
LEMMA AsideKeeps ==
    ASSUME WatchInv, UNCHANGED <<taken, repeats, saved>>,
           found' \subseteq Msgs, faults' \in Nat, crashes' \in Nat, faults + crashes <= faults' + crashes',
           \/ pc' \notin {"push", "mark"}
           \/ pc' = "push" /\ state' = saved,
           pc = "mark" => faults + crashes + 1 <= faults' + crashes'
    PROVE  WatchInv'
<1>1. WatchTypes' /\ Pushing'
  BY DEF WatchInv, WatchTypes, Pushing
<1>2. RepeatsPaid'
  <2>1. Cardinality(Unmarked)' = Cardinality(Unmarked) /\ repeats' = repeats
    BY DEF Unmarked
  <2>2. Marking' = 0 /\ Marking \in {0, 1} /\ (Marking = 1 => pc = "mark")
    BY DEF Marking
  <2>3. /\ Cardinality(Unmarked) \in Nat /\ {repeats, faults, crashes} \subseteq Nat
        /\ repeats + Cardinality(Unmarked) <= faults + crashes + Marking
    BY UnmarkedCount DEF WatchInv, WatchTypes, RepeatsPaid
  <2>4. \A p, u, f, c, g, d \in Nat : \A m \in {0, 1} :
            p + u <= f + c + m /\ f + c <= g + d /\ (m = 1 => f + c + 1 <= g + d) => p + u <= g + d + 0
    OBVIOUS
  <2>5. QED
    BY <2>1, <2>2, <2>3, <2>4 DEF RepeatsPaid
<1>3. QED
  BY <1>1, <1>2 DEF WatchInv

LEMMA PostKeeps == ASSUME WatchInv, Post PROVE WatchInv'
<1>1. cur \in Msgs /\ cur \notin saved /\ state = saved /\ pc = "push"
  BY DEF WatchInv, WatchTypes, Pushing, Post
<1>2. CASE UNCHANGED brainHas /\ pc' = "wait"
  BY <1>1, <1>2, AsideKeeps DEF Post, WatchInv, WatchTypes, Fault, brainHas
<1>3. CASE Taken(cur) /\ pc' \in {"mark", "wait"} /\ faults' + (IF pc' = "mark" THEN 1 ELSE 0) = faults + 1
  <2>1. Unmarked' = Unmarked \cup {cur} /\ repeats' = IF cur \in Unmarked THEN repeats + 1 ELSE repeats
    BY <1>1, <1>3 DEF Post, Taken, Unmarked
  <2>2. Pushing'
    BY <1>1, <1>3 DEF Post, Taken, Pushing
  <2>3. WatchTypes'
    BY <1>1, <1>3 DEF Post, Taken, WatchInv, WatchTypes, Fault
  <2>4. RepeatsPaid'
    <3>1. Marking = 0 /\ Marking' \in {0, 1} /\ faults' + Marking' = faults + 1
      BY <1>1, <1>3 DEF Marking
    <3>2. Cardinality(Unmarked)' = Cardinality(Unmarked) + IF cur \in Unmarked THEN 0 ELSE 1
      BY <2>1, UnmarkedCount DEF WatchInv
    <3>3. crashes' = crashes
      BY DEF Post
    <3>4. repeats' + Cardinality(Unmarked)' = repeats + Cardinality(Unmarked) + 1
      BY <2>1, <3>2, UnmarkedCount DEF WatchInv, WatchTypes
    <3>5. QED
      <4>1. /\ Cardinality(Unmarked) \in Nat /\ {repeats, faults, crashes, faults'} \subseteq Nat
            /\ repeats + Cardinality(Unmarked) <= faults + crashes
        BY <2>3, <3>1, UnmarkedCount DEF WatchInv, WatchTypes, RepeatsPaid
      <4>2. QED
        BY <3>1, <3>3, <3>4, <4>1 DEF RepeatsPaid
  <2>5. QED
    BY <2>2, <2>3, <2>4 DEF WatchInv
<1>4. QED
  BY <1>2, <1>3 DEF Post, Fault, WatchInv, WatchTypes

LEMMA MarkKeeps == ASSUME WatchInv, Mark PROVE WatchInv'
<1>1. cur \in taken /\ cur \notin saved /\ cur \in Msgs /\ state = saved /\ pc = "mark"
  BY DEF Mark, WatchInv, WatchTypes, Pushing
<1>2. CASE saved' = state' /\ pc' = "push" /\ UNCHANGED faults
  <2>1. Unmarked' = Unmarked \ {cur} /\ cur \in Unmarked
    BY <1>1, <1>2 DEF Mark, brainHas, Unmarked
  <2>2. WatchTypes' /\ Pushing'
    BY <1>1, <1>2 DEF Mark, WatchInv, WatchTypes, Pushing, brainHas
  <2>3. RepeatsPaid'
    <3>1. Marking = 1 /\ Marking' = 0
      BY <1>1, <1>2 DEF Marking
    <3>2. Cardinality(Unmarked)' = Cardinality(Unmarked) - 1
      BY <2>1, UnmarkedCount DEF WatchInv
    <3>3. UNCHANGED <<repeats, faults, crashes>>
      BY <1>2 DEF Mark, brainHas
    <3>4. QED
      BY <3>1, <3>2, <3>3, UnmarkedCount DEF WatchInv, WatchTypes, RepeatsPaid
  <2>4. QED
    BY <2>2, <2>3 DEF WatchInv
<1>3. CASE Fault /\ pc' = "wait" /\ UNCHANGED saved
  BY <1>1, <1>3, AsideKeeps DEF Mark, Fault, WatchInv, WatchTypes, brainHas
<1>4. QED
  BY <1>2, <1>3 DEF Mark

LEMMA WatchStep == ASSUME WatchInv, Next PROVE WatchInv'
<1>1. CASE Wake \/ Sync
  BY <1>1, AsideKeeps DEF Wake, Sync, Fault, WatchInv, WatchTypes, brainHas
<1>2. CASE ConvertSkip \/ ConvertBody \/ BodyWritten \/ AttsDone \/ \E a \in Atts : ConvertAtt(a)
  BY <1>2, AsideKeeps
     DEF ConvertSkip, ConvertBody, BodyWritten, AttsDone, ConvertAtt, Fault, WatchInv, WatchTypes, brainHas
<1>3. CASE ConvertEnd
  BY <1>3, AsideKeeps DEF ConvertEnd, WatchInv, WatchTypes, brainHas
<1>4. CASE PushSkip \/ PushEnd
  BY <1>4, AsideKeeps DEF PushSkip, PushEnd, WatchInv, WatchTypes, Pushing, brainHas
<1>5. CASE \E m \in Msgs : Arrive(m)
  <2>1. PICK m \in Msgs : Arrive(m)
    BY <1>5
  <2>2. UNCHANGED <<taken, repeats, saved, state, pc, cur, found, faults, crashes>>
    BY <2>1 DEF Arrive, brainHas
  <2>3. QED
    BY <2>2 DEF WatchInv, WatchTypes, Pushing, RepeatsPaid, Unmarked, Marking
<1>6. CASE Crash
  BY <1>6, AsideKeeps DEF Crash, WatchInv, WatchTypes, brainHas
<1>7. QED
  BY <1>1, <1>2, <1>3, <1>4, <1>5, <1>6, PostKeeps, MarkKeeps DEF Next, Cycle

(* The loop posts a message the brain has taken again at most once for every *)
(* fault and every crash, because the state file is saved after each message *)
(* and before the next one is posted (watch.go, PushNewLeafs).               *)
THEOREM RepostsCostAFault == Spec => []RepostsAreBounded
<1>1. Init => WatchInv
  BY WatchInit
<1>2. WatchInv /\ [Next]_vars => WatchInv'
  <2>1. WatchInv /\ UNCHANGED vars => WatchInv'
    BY DEF WatchInv, WatchTypes, Pushing, RepeatsPaid, Unmarked, Marking, vars, brainHas
  <2>2. QED
    BY <2>1, WatchStep
<1>3. WatchInv => RepostsAreBounded
  <2> SUFFICES ASSUME WatchInv PROVE RepostsAreBounded
    OBVIOUS
  <2>1. Marking \in {0, 1} /\ (Marking = 1 => Cardinality(Unmarked) # 0)
    BY UnmarkedCount, FS_EmptySet DEF WatchInv, Pushing, Marking, Unmarked
  <2>2. QED
    BY <2>1, UnmarkedCount DEF WatchInv, WatchTypes, RepeatsPaid, RepostsAreBounded
<1>4. QED
  BY <1>1, <1>2, <1>3, PTL DEF Spec

-----------------------------------------------------------------------------
(* EtlRunner. *)

Busy == {w \in EtlWorkers : work[w].at \in {"check", "body", "parts"}}
EtlTypes ==
    /\ inq \in Seq(Letters) /\ Len(inq) <= Buffer
    /\ batch \subseteq WalkFiles(files)
    /\ DOMAIN work = EtlWorkers /\ work = [w \in EtlWorkers |-> work[w]]
    /\ \A w \in Busy : work[w].blob \in Letters
    /\ \A b \in Letters : b.dir \in DOMAIN bodies
    /\ failedRuns \in Nat /\ cancelled \in BOOLEAN

(* Unless the run is cancelled a worker leaves only when nothing is left to  *)
(* take and nothing more comes.                                              *)
LeftGone == {w \in EtlWorkers : work[w].at = "gone"}
LeavesLast == ~cancelled /\ LeftGone # {} => inq = <<>> /\ epc = "done"

(* A letter is lost that the seen-set lists without its being under way, or  *)
(* whose directory holds a body nobody is completing, because the handler     *)
(* leaves such a directory alone.                                             *)
AtParts == {w \in EtlWorkers : work[w].at = "parts"}
Completed == {work[w].blob.bytes : w \in AtParts}
Bytes == {b.bytes : b \in Letters}
Spoiled(x) == \E b \in Letters : b.bytes = x /\ bodies[b.dir] # "none"
Dropped(x) == x \in checkpoint \cup eseen /\ x \notin InPipeline
Lost == {x \in checkpoint \cup eseen \cup Bytes :
            Alone(x) /\ x \notin converted /\ x \notin Completed /\ (Spoiled(x) \/ Dropped(x))}

(* A failed run has lost what its first channel and its workers held; the    *)
(* run that is failing, so far, what the workers that have left held.        *)
Capacity == Buffer + Cardinality(EtlWorkers)
LostSoFar == IF cancelled THEN Cardinality(LeftGone) ELSE 0
LossIsPaid == IsFiniteSet(Lost) /\ Cardinality(Lost) <= Capacity * failedRuns + LostSoFar

EtlInv == EtlTypes /\ LeavesLast /\ LossIsPaid

LEMMA LettersStay ==
    ASSUME UNCHANGED files
    PROVE  /\ Letters' = Letters /\ Bytes' = Bytes /\ WalkFiles(files)' = WalkFiles(files)
           /\ \A x : Alone(x)' <=> Alone(x)
BY DEF Letters, Bytes, Alone, WalkFiles, Reached, addFile

LEMMA LostFrame ==
    ASSUME UNCHANGED <<checkpoint, eseen, converted, inq, work, bodies, files>>
    PROVE  Lost' = Lost /\ LeftGone' = LeftGone
<1>1. /\ InPipeline' = InPipeline /\ LeftGone' = LeftGone /\ Completed' = Completed /\ Letters' = Letters
      /\ Bytes' = Bytes /\ \A x : Alone(x)' <=> Alone(x)
  BY LettersStay DEF InPipeline, LeftGone, Completed, AtParts
<1>2. \A x : (Spoiled(x)' <=> Spoiled(x)) /\ (Dropped(x)' <=> Dropped(x))
  BY <1>1 DEF Spoiled, Dropped
<1>3. QED
  BY <1>1, <1>2 DEF Lost

LEMMA LeftCount ==
    ASSUME EtlTypes
    PROVE  /\ IsFiniteSet(LeftGone) /\ Cardinality(LeftGone) \in Nat
           /\ Cardinality(EtlWorkers) \in Nat /\ Cardinality(LeftGone) <= Cardinality(EtlWorkers)
           /\ Capacity \in Nat /\ LostSoFar \in Nat
<1>1. LeftGone \subseteq EtlWorkers /\ IsFiniteSet(EtlWorkers)
  BY EtlAssumption DEF LeftGone
<1>2. /\ IsFiniteSet(LeftGone) /\ Cardinality(LeftGone) \in Nat
      /\ Cardinality(EtlWorkers) \in Nat /\ Cardinality(LeftGone) <= Cardinality(EtlWorkers)
  BY <1>1, FS_Subset, FS_CardinalityType
<1>3. QED
  BY <1>2, EtlAssumption DEF Capacity, LostSoFar

(* The messages in the first channel, and those the workers are at. *)
InQueue == {inq[i].bytes : i \in DOMAIN inq}
InHands == {work[w].blob.bytes : w \in Busy}

LEMMA PipelineParts == InPipeline = InQueue \cup InHands /\ (InPipeline = InQueue \cup InHands)'
BY DEF InPipeline, InQueue, InHands, Busy


LEMMA QueueCount ==
    ASSUME EtlTypes
    PROVE  IsFiniteSet(InQueue) /\ Cardinality(InQueue) \in Nat /\ Cardinality(InQueue) <= Buffer
<1>1. DOMAIN inq = 1 .. Len(inq) /\ Len(inq) \in Nat
  BY DEF EtlTypes
<1> DEFINE f == [i \in 1 .. Len(inq) |-> inq[i].bytes]
<1>2. IsFiniteSet(1 .. Len(inq)) /\ Cardinality(1 .. Len(inq)) = Len(inq)
  <2>1. \A n \in Nat : IsFiniteSet(1 .. n) /\ Cardinality(1 .. n) = n
    BY FS_Interval
  <2>2. QED
    BY <1>1, <2>1
<1>3. f \in Surjection(1 .. Len(inq), InQueue)
  BY <1>1 DEF Surjection, InQueue
<1> HIDE DEF f
<1>4. IsFiniteSet(InQueue) /\ Cardinality(InQueue) <= Cardinality(1 .. Len(inq))
  BY <1>2, <1>3, FS_Surjection
<1>5. Cardinality(InQueue) \in Nat
  BY <1>4, FS_CardinalityType
<1>6. QED
  BY <1>1, <1>2, <1>4, <1>5, EtlAssumption DEF EtlTypes

LEMMA HandsCount ==
    ASSUME EtlTypes
    PROVE  /\ IsFiniteSet(InHands) /\ Cardinality(InHands) \in Nat
           /\ Cardinality(InHands) + Cardinality(LeftGone) <= Cardinality(EtlWorkers)
<1> DEFINE g == [w \in Busy |-> work[w].blob.bytes]
<1>1. IsFiniteSet(EtlWorkers) /\ Busy \subseteq EtlWorkers /\ LeftGone \subseteq EtlWorkers
  BY EtlAssumption DEF Busy, LeftGone
<1>2. IsFiniteSet(Busy) /\ Cardinality(Busy) \in Nat
  BY <1>1, FS_Subset, FS_CardinalityType
<1>3. g \in Surjection(Busy, InHands)
  BY DEF Surjection, InHands
<1> HIDE DEF g
<1>4. IsFiniteSet(InHands) /\ Cardinality(InHands) <= Cardinality(Busy)
  BY <1>2, <1>3, FS_Surjection
<1>5. Cardinality(InHands) \in Nat
  BY <1>4, FS_CardinalityType
<1>6. Cardinality(Busy \cup LeftGone) = Cardinality(Busy) + Cardinality(LeftGone)
  <2>1. Cardinality(Busy \cap LeftGone) = 0
    <3>1. Busy \cap LeftGone = {}
      BY DEF Busy, LeftGone
    <3>2. QED
      BY <3>1, FS_EmptySet
  <2>2. IsFiniteSet(LeftGone) /\ Cardinality(LeftGone) \in Nat
    BY LeftCount
  <2>3. Cardinality(Busy \cup LeftGone) = Cardinality(Busy) + Cardinality(LeftGone) - Cardinality(Busy \cap LeftGone)
    BY <1>2, <2>2, FS_Union
  <2>4. QED
    BY <1>2, <2>1, <2>2, <2>3
<1>7. Cardinality(Busy \cup LeftGone) <= Cardinality(EtlWorkers)
  BY <1>1, FS_Subset
<1>8. QED
  BY <1>2, <1>4, <1>5, <1>6, <1>7, LeftCount

(* A step that loses nothing. *)
LEMMA LostStays ==
    ASSUME EtlInv, EtlTypes', Lost' \subseteq Lost, failedRuns' = failedRuns,
           cancelled => cancelled', LeftGone \subseteq LeftGone'
    PROVE  LossIsPaid'
<1>1. IsFiniteSet(Lost') /\ Cardinality(Lost)' \in Nat /\ Cardinality(Lost)' <= Cardinality(Lost)
  BY FS_Subset, FS_CardinalityType DEF EtlInv, LossIsPaid
<1>2. IsFiniteSet(LeftGone') /\ Cardinality(LeftGone)' \in Nat
  BY EtlAssumption, FS_Subset, FS_CardinalityType DEF LeftGone
<1>3. Cardinality(LeftGone) <= Cardinality(LeftGone)'
  BY <1>2, FS_Subset
<1>4. LostSoFar' \in Nat /\ LostSoFar \in Nat /\ LostSoFar <= LostSoFar'
  BY <1>2, <1>3, LeftCount DEF LostSoFar, EtlInv, EtlTypes
<1>5. Cardinality(Lost) \in Nat /\ Cardinality(Lost) <= Capacity * failedRuns + LostSoFar
  BY FS_CardinalityType DEF EtlInv, LossIsPaid
<1>6. Capacity \in Nat /\ failedRuns \in Nat /\ Capacity' = Capacity
  BY LeftCount DEF EtlInv, EtlTypes, Capacity
<1>7. \A a, b, c, d, k \in Nat : a <= b /\ b <= k + c /\ c <= d => a <= k + d
  OBVIOUS
<1>8. Capacity * failedRuns \in Nat /\ Capacity' * failedRuns' = Capacity * failedRuns
  BY <1>6
<1>9. QED
  BY <1>1, <1>4, <1>5, <1>7, <1>8 DEF LossIsPaid

(* A worker leaves with an error and loses the message it was at. *)
LEMMA LostOne ==
    ASSUME EtlInv, NEW w \in EtlWorkers, NEW x, w \notin LeftGone, LeftGone' = LeftGone \cup {w},
           Lost' \subseteq Lost \cup {x}, failedRuns' = failedRuns, cancelled'
    PROVE  LossIsPaid'
<1>1. /\ IsFiniteSet(Lost \cup {x}) /\ Cardinality(Lost \cup {x}) \in Nat
      /\ Cardinality(Lost) \in Nat /\ Cardinality(Lost \cup {x}) <= Cardinality(Lost) + 1
  <2>1. IsFiniteSet(Lost) /\ Cardinality(Lost) \in Nat
    BY FS_CardinalityType DEF EtlInv, LossIsPaid
  <2>2. /\ IsFiniteSet(Lost \cup {x})
        /\ Cardinality(Lost \cup {x}) = IF x \in Lost THEN Cardinality(Lost) ELSE Cardinality(Lost) + 1
    BY <2>1, FS_AddElement
  <2>3. QED
    BY <2>1, <2>2
<1>2. IsFiniteSet(Lost') /\ Cardinality(Lost)' \in Nat /\ Cardinality(Lost)' <= Cardinality(Lost \cup {x})
  BY <1>1, FS_Subset, FS_CardinalityType
<1>3. Cardinality(LeftGone)' = Cardinality(LeftGone) + 1 /\ Cardinality(LeftGone) \in Nat
  BY LeftCount, FS_AddElement DEF EtlInv
<1>4. LostSoFar' = Cardinality(LeftGone) + 1 /\ LostSoFar <= Cardinality(LeftGone) /\ LostSoFar \in Nat
  BY <1>3, LeftCount DEF LostSoFar, EtlInv
<1>5. Cardinality(Lost) <= Capacity * failedRuns + LostSoFar
  BY DEF EtlInv, LossIsPaid
<1>6. Capacity \in Nat /\ failedRuns \in Nat /\ Capacity' = Capacity
  BY LeftCount DEF EtlInv, EtlTypes, Capacity
<1>7. \A a, b, c, l, g, k \in Nat : a <= b /\ b <= c + 1 /\ c <= k + l /\ l <= g => a <= k + (g + 1)
  OBVIOUS
<1>8. Capacity * failedRuns \in Nat /\ Capacity' * failedRuns' = Capacity * failedRuns
  BY <1>6
<1>9. Cardinality(Lost)' <= Capacity * failedRuns + (Cardinality(LeftGone) + 1)
  BY <1>1, <1>2, <1>3, <1>4, <1>5, <1>7, <1>8
<1>10. QED
  BY <1>2, <1>4, <1>8, <1>9 DEF LossIsPaid

(* A run ends without success and loses what was still in its channel or in  *)
(* the hands of its workers.                                                 *)
LEMMA LostRun ==
    ASSUME EtlInv, NEW D, IsFiniteSet(D), Cardinality(D) + LostSoFar <= Capacity,
           Lost' \subseteq Lost \cup D, failedRuns' = failedRuns + 1, cancelled' = FALSE
    PROVE  LossIsPaid'
<1>1. /\ IsFiniteSet(Lost \cup D) /\ Cardinality(Lost \cup D) \in Nat
      /\ Cardinality(Lost) \in Nat /\ Cardinality(D) \in Nat
      /\ Cardinality(Lost \cup D) <= Cardinality(Lost) + Cardinality(D)
  <2>1. IsFiniteSet(Lost)
    BY DEF EtlInv, LossIsPaid
  <2>2. QED
    BY <2>1, UnionCount
<1>2. IsFiniteSet(Lost') /\ Cardinality(Lost)' \in Nat /\ Cardinality(Lost)' <= Cardinality(Lost \cup D)
  BY <1>1, FS_Subset, FS_CardinalityType
<1>3. LostSoFar' = 0 /\ LostSoFar \in Nat
  BY LeftCount DEF LostSoFar, EtlInv
<1>4. Cardinality(Lost) <= Capacity * failedRuns + LostSoFar
  BY DEF EtlInv, LossIsPaid
<1>5. Capacity \in Nat /\ failedRuns \in Nat /\ Capacity' = Capacity
  BY LeftCount DEF EtlInv, EtlTypes, Capacity
<1>6. \A a, b, c, d, l, m, k \in Nat : a <= b /\ b <= c + d /\ c <= k + l /\ d + l <= m => a <= (k + m) + 0
  OBVIOUS
<1>7. Capacity * failedRuns \in Nat /\ Capacity' * failedRuns' = Capacity * failedRuns + Capacity
  BY <1>5
<1>8. Cardinality(Lost)' <= (Capacity * failedRuns + Capacity) + 0
  BY <1>1, <1>2, <1>3, <1>4, <1>5, <1>6, <1>7
<1>9. QED
  BY <1>2, <1>3, <1>7, <1>8 DEF LossIsPaid

LEMMA EtlBegins == EtlInit => EtlInv
<1> SUFFICES ASSUME EtlInit PROVE EtlInv
  OBVIOUS
<1>1. inq = <<>> /\ Len(inq) = 0 /\ <<>> \in Seq(Letters)
  BY DEF EtlInit
<1>2. EtlTypes
  <2>1. DOMAIN work = EtlWorkers /\ work = [w \in EtlWorkers |-> work[w]] /\ Busy = {}
    BY DEF EtlInit, AllIdle, Busy
  <2>2. \A b \in Letters : b.dir \in DOMAIN bodies
    BY DEF EtlInit, Letters, WalkFiles
  <2>3. cancelled \in BOOLEAN /\ failedRuns \in Nat /\ batch = {}
    BY DEF EtlInit
  <2>4. QED
    BY <1>1, <2>1, <2>2, <2>3, EtlAssumption DEF EtlTypes
<1>3. LeftGone = {} /\ Lost = {}
  <2>1. \A x : ~Spoiled(x)
    BY DEF EtlInit, Spoiled, Letters, WalkFiles
  <2>2. QED
    BY <2>1 DEF EtlInit, AllIdle, LeftGone, Lost, Dropped
<1>4. LossIsPaid
  BY <1>2, <1>3, LeftCount, FS_EmptySet DEF LossIsPaid, EtlTypes, EtlInit, LostSoFar
<1>5. QED
  BY <1>2, <1>3, <1>4 DEF EtlInv, LeavesLast

(* The producer and the load stage: what enters the seen-set enters the       *)
(* channel in the same step.                                                  *)
LEMMA ProducerKeeps ==
    ASSUME EtlInv, EtlRun \/ Fetch \/ SkipSeen \/ EndBatch \/ Load \/ EtlSignal
    PROVE  EtlInv'
<1>1. /\ UNCHANGED <<converted, inq, work, bodies, files, failedRuns>> /\ cancelled' \in BOOLEAN
      /\ checkpoint' \cup eseen' \subseteq checkpoint \cup eseen
      /\ cancelled => cancelled'
      /\ epc = "done" => epc' = "done"
  BY DEF EtlRun, Fetch, SkipSeen, EndBatch, Load, EtlSignal, saveCheckpoint, pipeline, ends, EtlFault, EtlInv, EtlTypes
<1>2. Lost' \subseteq Lost /\ LeftGone' = LeftGone
  <2>1. /\ InPipeline' = InPipeline /\ LeftGone' = LeftGone /\ Completed' = Completed /\ Letters' = Letters
        /\ Bytes' = Bytes /\ \A x : Alone(x)' <=> Alone(x)
    BY <1>1, LettersStay DEF InPipeline, LeftGone, Completed, AtParts
  <2>2. \A x : (Spoiled(x)' <=> Spoiled(x)) /\ (Dropped(x)' => Dropped(x))
    BY <1>1, <2>1 DEF Spoiled, Dropped
  <2>3. QED
    BY <1>1, <2>1, <2>2 DEF Lost
<1>3. EtlTypes'
  <2>1. Letters' = Letters /\ WalkFiles(files)' = WalkFiles(files) /\ Busy' = Busy
    BY <1>1, LettersStay DEF Busy
  <2>2. batch' \subseteq batch \cup WalkFiles(files)
    BY DEF EtlRun, Fetch, SkipSeen, EndBatch, Load, EtlSignal, pipeline
  <2>3. QED
    BY <1>1, <2>1, <2>2 DEF EtlInv, EtlTypes
<1>4. LeavesLast'
  BY <1>1, <1>2 DEF EtlInv, EtlTypes, LeavesLast
<1>5. QED
  BY <1>1, <1>2, <1>3, <1>4, LostStays DEF EtlInv

LEMMA EmitKeeps == ASSUME EtlInv, Emit PROVE EtlInv'
<1>1. PICK i \in batch : Unseen(i) /\ Hand(i)
  BY DEF Emit
<1> DEFINE h == files[i]
<1>2. h \in Letters /\ inq \in Seq(Letters)
  BY DEF EtlInv, EtlTypes, Letters
<1>3. /\ inq' \in Seq(Letters) /\ Len(inq') = Len(inq) + 1 /\ Len(inq) \in Nat
      /\ \A k \in 1 .. Len(inq) : inq'[k] = inq[k]
      /\ inq'[Len(inq) + 1] = h /\ DOMAIN inq' = 1 .. Len(inq) + 1 /\ DOMAIN inq = 1 .. Len(inq)
  BY <1>1, <1>2 DEF Hand
<1>4. UNCHANGED <<files, work, bodies, converted, checkpoint, failedRuns, cancelled>> /\ eseen' = eseen \cup {h.bytes}
  BY <1>1 DEF Emit, ends, Hand
<1>5. /\ LeftGone' = LeftGone /\ Busy' = Busy /\ InHands' = InHands /\ Completed' = Completed
      /\ Letters' = Letters /\ Bytes' = Bytes /\ WalkFiles(files)' = WalkFiles(files)
      /\ \A x : Alone(x)' <=> Alone(x)
  BY <1>4, LettersStay DEF LeftGone, Busy, InHands, Completed, AtParts
<1>6. EtlTypes'
  <2>1. batch' \subseteq batch /\ Len(inq) < Buffer
    BY <1>1 DEF Hand, Emit
  <2>2. QED
    BY <1>3, <1>4, <1>5, <2>1, EtlAssumption DEF EtlInv, EtlTypes
<1>7. InQueue \subseteq InQueue' /\ h.bytes \in InQueue'
  BY <1>3 DEF InQueue
<1>8. Lost' \subseteq Lost
  <2>1. InPipeline \subseteq InPipeline' /\ h.bytes \in InPipeline' /\ h.bytes \in Bytes
    BY <1>2, <1>5, <1>7, PipelineParts DEF Bytes
  <2> HIDE DEF h
  <2>2. \A x : (Spoiled(x)' <=> Spoiled(x)) /\ (Dropped(x)' => Dropped(x))
    BY <1>4, <1>5, <2>1 DEF Spoiled, Dropped
  <2>3. QED
    BY <1>4, <1>5, <2>1, <2>2 DEF Lost
<1>9. LeavesLast'
  BY <1>1, <1>4, <1>5 DEF Unseen, EtlInv, LeavesLast
<1>10. QED
  BY <1>4, <1>5, <1>6, <1>8, <1>9, LostStays DEF EtlInv

LEMMA TakeKeeps == ASSUME EtlInv, NEW w \in EtlWorkers, Take(w) PROVE EtlInv'
<1>1. inq \in Seq(Letters)
  BY DEF EtlInv, EtlTypes
<1>2. /\ inq' \in Seq(Letters) /\ Len(inq') = Len(inq) - 1 /\ Len(inq) \in Nat
      /\ \A i \in 1 .. Len(inq) - 1 : inq'[i] = inq[i + 1]
      /\ DOMAIN inq = 1 .. Len(inq) /\ DOMAIN inq' = 1 .. Len(inq) - 1
      /\ inq[1] \in Letters
  BY <1>1 DEF Take
<1>3. /\ work'[w].at = "check" /\ work'[w].blob = inq[1] /\ work[w].at = "idle"
      /\ \A v \in EtlWorkers \ {w} : work'[v] = work[v]
      /\ DOMAIN work' = EtlWorkers /\ work' = [v \in EtlWorkers |-> work'[v]]
  <2>1. Head(inq) = inq[1]
    BY <1>1 DEF Take
  <2>2. QED
    BY <2>1 DEF Take, Put1, EtlInv, EtlTypes
<1>4. UNCHANGED <<files, bodies, converted, checkpoint, eseen, failedRuns, cancelled, batch>>
  BY DEF Take, ends
<1>5. /\ LeftGone' = LeftGone /\ AtParts' = AtParts /\ Busy' = Busy \cup {w}
      /\ Letters' = Letters /\ Bytes' = Bytes /\ WalkFiles(files)' = WalkFiles(files)
      /\ \A x : Alone(x)' <=> Alone(x)
  BY <1>3, <1>4, LettersStay DEF LeftGone, AtParts, Busy
<1>6. EtlTypes'
  <2>1. \A v \in Busy' : work'[v].blob \in Letters
    BY <1>2, <1>3, <1>5 DEF EtlInv, EtlTypes, Busy
  <2>2. Len(inq') <= Buffer
    BY <1>2, EtlAssumption DEF EtlInv, EtlTypes
  <2>3. QED
    BY <1>2, <1>3, <1>4, <1>5, <2>1, <2>2 DEF EtlInv, EtlTypes
<1>7. InQueue \subseteq InQueue' \cup {inq[1].bytes}
  <2> SUFFICES ASSUME NEW i \in 1 .. Len(inq), i # 1 PROVE inq[i].bytes \in InQueue'
    BY <1>2 DEF InQueue
  <2>1. i - 1 \in 1 .. Len(inq) - 1 /\ inq'[i - 1] = inq[i]
    BY <1>2
  <2>2. QED
    BY <1>2, <2>1 DEF InQueue
<1>8. InHands \cup {inq[1].bytes} \subseteq InHands' /\ Completed' = Completed
  <2>1. Busy \subseteq Busy' /\ w \in Busy' /\ w \notin Busy /\ w \notin AtParts
    BY <1>3 DEF Busy, AtParts
  <2>2. \A v \in Busy \cup AtParts : work'[v].blob.bytes = work[v].blob.bytes
    BY <1>3, <2>1 DEF Busy, AtParts
  <2>3. QED
    BY <1>3, <1>5, <2>1, <2>2 DEF InHands, Completed
<1>9. Lost' \subseteq Lost
  <2>1. InPipeline \subseteq InPipeline'
    BY <1>7, <1>8, PipelineParts
  <2>2. \A x : (Spoiled(x)' <=> Spoiled(x)) /\ (Dropped(x)' => Dropped(x))
    BY <1>4, <1>5, <2>1 DEF Spoiled, Dropped
  <2>3. QED
    BY <1>4, <1>5, <1>8, <2>2 DEF Lost
<1>10. LeavesLast'
  BY <1>5 DEF Take, EtlInv, LeavesLast
<1>11. QED
  BY <1>4, <1>5, <1>6, <1>9, <1>10, LostStays DEF EtlInv

(* A worker turns to its next step, or leaves, and only its own letter       *)
(* changes hands.                                                            *)
LEMMA HandsMove ==
    ASSUME EtlTypes, NEW w \in EtlWorkers, NEW at, NEW b, Put1(w, at, b), UNCHANGED inq
    PROVE  LET x == work[w].blob.bytes IN
           /\ work'[w].at = at /\ work'[w].blob = b
           /\ \A v \in EtlWorkers \ {w} : work'[v] = work[v]
           /\ DOMAIN work' = EtlWorkers /\ work' = [v \in EtlWorkers |-> work'[v]]
           /\ InPipeline \subseteq InPipeline' \cup (IF w \in Busy THEN {x} ELSE {})
           /\ Completed \subseteq Completed' \cup (IF w \in AtParts THEN {x} ELSE {})
           /\ b = work[w].blob /\ at \in {"check", "body", "parts"} => InPipeline \subseteq InPipeline'
           /\ at = "parts" => b.bytes \in Completed'
<1>1. /\ work'[w].at = at /\ work'[w].blob = b
      /\ \A v \in EtlWorkers \ {w} : work'[v] = work[v]
      /\ DOMAIN work' = EtlWorkers /\ work' = [v \in EtlWorkers |-> work'[v]]
  BY DEF Put1, EtlTypes
<1>2. InQueue' = InQueue
  BY DEF InQueue
<1>3. InHands \subseteq InHands' \cup (IF w \in Busy THEN {work[w].blob.bytes} ELSE {})
  <2> SUFFICES ASSUME NEW v \in Busy, v # w PROVE work[v].blob.bytes \in InHands'
    BY DEF InHands
  <2>1. v \in Busy' /\ work'[v] = work[v]
    BY <1>1 DEF Busy
  <2>2. QED
    BY <2>1 DEF InHands
<1>4. Completed \subseteq Completed' \cup (IF w \in AtParts THEN {work[w].blob.bytes} ELSE {})
  <2> SUFFICES ASSUME NEW v \in AtParts, v # w PROVE work[v].blob.bytes \in Completed'
    BY DEF Completed
  <2>1. v \in AtParts' /\ work'[v] = work[v]
    BY <1>1 DEF AtParts
  <2>2. QED
    BY <2>1 DEF Completed
<1>5. b = work[w].blob /\ at \in {"check", "body", "parts"} => InHands \subseteq InHands'
  <2>1. b = work[w].blob /\ at \in {"check", "body", "parts"} => work[w].blob.bytes \in InHands'
    BY <1>1 DEF InHands, Busy
  <2>2. QED
    BY <1>3, <2>1
<1>6. at = "parts" => b.bytes \in Completed'
  BY <1>1 DEF Completed, AtParts
<1>7. QED
  BY <1>1, <1>2, <1>3, <1>4, <1>5, <1>6, PipelineParts

(* What a worker does next, for the stages that take nothing. *)
LEMMA PutKeeps ==
    ASSUME EtlInv, NEW w \in EtlWorkers, NEW at, NEW b, Put1(w, at, b),
           UNCHANGED <<files, batch, inq, failedRuns>>, epc' = epc,
           DOMAIN bodies' = DOMAIN bodies, cancelled' \in BOOLEAN, cancelled => cancelled',
           work[w].at # "gone",
           at \in {"check", "body", "parts"} => b \in Letters,
           at = "gone" => \/ cancelled'
                          \/ inq = <<>> /\ epc = "done",
           \/ Lost' \subseteq Lost
           \/ Lost' \subseteq Lost \cup {work[w].blob.bytes} /\ at = "gone" /\ cancelled'
    PROVE  EtlInv'
<1>1. /\ work'[w].at = at /\ work'[w].blob = b
      /\ \A v \in EtlWorkers \ {w} : work'[v] = work[v]
      /\ DOMAIN work' = EtlWorkers /\ work' = [v \in EtlWorkers |-> work'[v]]
  BY HandsMove DEF EtlInv
<1>2. EtlTypes'
  <2>1. Letters' = Letters /\ WalkFiles(files)' = WalkFiles(files)
    BY LettersStay
  <2>2. \A v \in Busy' : work'[v].blob \in Letters
    BY <1>1 DEF Busy, EtlInv, EtlTypes
  <2>3. QED
    BY <1>1, <2>1, <2>2 DEF EtlInv, EtlTypes
<1>3. LeftGone' = LeftGone \cup (IF at = "gone" THEN {w} ELSE {}) /\ w \notin LeftGone
  BY <1>1 DEF LeftGone
<1>4. LeavesLast'
  BY <1>3 DEF EtlInv, LeavesLast
<1>5. CASE Lost' \subseteq Lost \cup {work[w].blob.bytes} /\ at = "gone" /\ cancelled'
  <2>1. LeftGone' = LeftGone \cup {w}
    BY <1>3, <1>5
  <2>2. LossIsPaid'
    BY <1>3, <1>5, <2>1, LostOne
  <2>3. QED
    BY <1>2, <1>4, <2>2 DEF EtlInv
<1>6. CASE Lost' \subseteq Lost
  BY <1>2, <1>3, <1>4, <1>6, LostStays DEF EtlInv
<1>7. QED
  BY <1>5, <1>6

(* Which letters a step of a worker can lose, if it touches no body: its own, *)
(* when it drops it unfinished.                                               *)
LEMMA DropsItsOwn ==
    ASSUME EtlInv, NEW w \in EtlWorkers, NEW at, NEW b, Put1(w, at, b),
           UNCHANGED <<files, inq, checkpoint, eseen, bodies>>, converted \subseteq converted'
    PROVE  /\ Lost' \subseteq Lost \cup {work[w].blob.bytes}
           /\ \/ w \notin Busy
              \/ b = work[w].blob /\ at \in {"check", "body"} /\ work[w].at = "check"
              \/ work[w].blob.bytes \in converted'
              \/ w \notin AtParts /\ Spoiled(work[w].blob.bytes)
              => Lost' \subseteq Lost
<1> DEFINE x == work[w].blob.bytes
<1>1. /\ Letters' = Letters /\ Bytes' = Bytes /\ \A y : Alone(y)' <=> Alone(y)
  BY LettersStay
<1>2. \A y : Spoiled(y)' <=> Spoiled(y)
  BY <1>1 DEF Spoiled
<1>3. /\ InPipeline \subseteq InPipeline' \cup (IF w \in Busy THEN {x} ELSE {})
      /\ Completed \subseteq Completed' \cup (IF w \in AtParts THEN {x} ELSE {})
      /\ b = work[w].blob /\ at \in {"check", "body", "parts"} => InPipeline \subseteq InPipeline'
  BY HandsMove DEF EtlInv
<1>4. AtParts \subseteq Busy
  BY DEF AtParts, Busy
<1>5. work[w].at = "check" => w \notin AtParts
  BY DEF AtParts
<1> HIDE DEF x
<1>6. \A y \in Lost' : y # x => y \in Lost
  BY <1>1, <1>2, <1>3 DEF Lost, Dropped
<1>7. w \notin Busy \/ (b = work[w].blob /\ at \in {"check", "body"} /\ work[w].at = "check") => Lost' \subseteq Lost
  BY <1>1, <1>2, <1>3, <1>4, <1>5 DEF Lost, Dropped
<1>8. x \in converted' => x \notin Lost'
  BY DEF Lost
<1>9. w \notin AtParts /\ Spoiled(x) /\ x \in Lost' => x \in Lost
  BY <1>1, <1>2, <1>3 DEF Lost
<1>10. QED
  BY <1>6, <1>7, <1>8, <1>9 DEF x

(* Writing a body spoils the directory of that letter and of no other that is *)
(* alone in its own.                                                          *)
LEMMA SpoilsItsOwn ==
    ASSUME EtlInv, NEW w \in Busy, NEW new, UNCHANGED files,
           bodies' = [bodies EXCEPT ![work[w].blob.dir] = new]
    PROVE  \A y : Alone(y) /\ Spoiled(y)' => y = work[w].blob.bytes \/ Spoiled(y)
<1> DEFINE b == work[w].blob
<1>1. b \in Letters /\ Letters' = Letters /\ \A c \in Letters : c.dir \in DOMAIN bodies
  BY LettersStay DEF EtlInv, EtlTypes, Busy
<1> SUFFICES ASSUME NEW y, Alone(y), Spoiled(y)', y # b.bytes PROVE Spoiled(y)
  OBVIOUS
<1>2. PICK c \in Letters : c.bytes = y /\ bodies'[c.dir] # "none"
  BY <1>1 DEF Spoiled
<1>3. c.dir # b.dir
  BY <1>1, <1>2 DEF Alone
<1>4. bodies'[c.dir] = bodies[c.dir]
  BY <1>1, <1>3
<1>5. QED
  BY <1>2, <1>4 DEF Spoiled

LEMMA WriteBodyKeeps == ASSUME EtlInv, NEW w \in EtlWorkers, WriteBody(w) PROVE EtlInv'
<1> DEFINE b == work[w].blob
           x == b.bytes
<1>1. /\ UNCHANGED <<files, batch, inq, checkpoint, eseen, failedRuns, epc, converted>> /\ work[w].at = "body"
      /\ \/ Put1(w, "gone", Nothing0) /\ cancelled' = TRUE
         \/ Put1(w, "parts", b) /\ UNCHANGED cancelled
  BY DEF WriteBody, rest, ends, HandlerFails
<1>2. /\ w \in Busy /\ w \notin AtParts /\ b \in Letters /\ cancelled \in BOOLEAN
      /\ Letters' = Letters /\ Bytes' = Bytes /\ \A y : Alone(y)' <=> Alone(y)
  BY <1>1, LettersStay DEF Busy, AtParts, EtlInv, EtlTypes
<1>3. bodies' = bodies \/ \E new : bodies' = [bodies EXCEPT ![b.dir] = new]
  BY DEF WriteBody
<1>4. DOMAIN bodies' = DOMAIN bodies /\ \A y : Alone(y) /\ Spoiled(y)' => y = x \/ Spoiled(y)
  <2>1. CASE bodies' = bodies
    BY <1>2, <2>1 DEF Spoiled
  <2>2. CASE \E new : bodies' = [bodies EXCEPT ![b.dir] = new]
    <3>1. PICK new : bodies' = [bodies EXCEPT ![b.dir] = new]
      BY <2>2
    <3>2. QED
      BY <1>1, <1>2, <3>1, SpoilsItsOwn
  <2>3. QED
    BY <1>3, <2>1, <2>2
<1>5. ASSUME NEW at, NEW c, Put1(w, at, c)
      PROVE  /\ InPipeline \subseteq InPipeline' \cup {x} /\ Completed \subseteq Completed'
             /\ at = "parts" => c.bytes \in Completed'
  BY <1>1, <1>2, <1>5, HandsMove DEF EtlInv
<1> HIDE DEF x
<1>6. ASSUME NEW at, NEW c, Put1(w, at, c) PROVE \A y \in Lost' : y # x => y \in Lost
  <2>1. InPipeline \subseteq InPipeline' \cup {x} /\ Completed \subseteq Completed'
    BY <1>5, <1>6
  <2>2. QED
    BY <1>1, <1>2, <1>4, <2>1 DEF Lost, Dropped
<1>7. CASE Put1(w, "gone", Nothing0) /\ cancelled' = TRUE
  <2>1. Lost' \subseteq Lost \cup {x}
    BY <1>6, <1>7
  <2>2. QED
    BY <1>1, <1>2, <1>4, <1>7, <2>1, PutKeeps DEF x
<1>8. CASE Put1(w, "parts", b) /\ UNCHANGED cancelled
  <2>1. x \notin Lost'
    BY <1>5, <1>8 DEF Lost, x
  <2>2. Lost' \subseteq Lost
    BY <1>6, <1>8, <2>1
  <2>3. QED
    BY <1>1, <1>2, <1>4, <1>8, <2>2, PutKeeps
<1>9. QED
  BY <1>1, <1>7, <1>8

LEMMA WorkerKeeps ==
    ASSUME EtlInv, NEW w \in EtlWorkers,
           Leave(w) \/ Decode(w) \/ WriteBody(w) \/ WriteAttachments(w) \/ Send(w)
    PROVE  EtlInv'
<1> DEFINE b == work[w].blob
<1>1. cancelled \in BOOLEAN /\ (w \in Busy => b \in Letters)
  BY DEF EtlInv, EtlTypes
<1>2. CASE Leave(w)
  <2>1. /\ UNCHANGED <<files, batch, inq, checkpoint, eseen, bodies, converted, failedRuns, epc, cancelled>>
        /\ Put1(w, "gone", Nothing0) /\ w \notin Busy
    BY <1>2 DEF Leave, ends, Busy
  <2>2. Lost' \subseteq Lost
    BY <2>1, DropsItsOwn
  <2>3. QED
    BY <1>1, <1>2, <2>1, <2>2, PutKeeps DEF Leave
<1>3. CASE Decode(w)
  <2>1. /\ UNCHANGED <<files, batch, inq, checkpoint, eseen, bodies, converted, failedRuns, epc>>
        /\ work[w].at = "check" /\ w \in Busy /\ w \notin AtParts
    BY <1>3 DEF Decode, HandlerFails, HandlerEnds, rest, ends, Busy, AtParts
  <2>2. CASE Put1(w, "gone", Nothing0) /\ cancelled' = TRUE
    <3>1. Lost' \subseteq Lost \cup {b.bytes}
      BY <2>1, <2>2, DropsItsOwn
    <3>2. QED
      BY <1>1, <2>1, <2>2, <3>1, PutKeeps
  <2>3. CASE Put1(w, "send", b) /\ UNCHANGED cancelled /\ bodies[b.dir] # "none"
    <3>1. Spoiled(b.bytes)
      BY <1>1, <2>1, <2>3 DEF Spoiled
    <3>2. Lost' \subseteq Lost
      BY <2>1, <2>3, <3>1, DropsItsOwn
    <3>3. QED
      BY <1>1, <2>1, <2>3, <3>2, PutKeeps
  <2>4. CASE Put1(w, "body", b) /\ UNCHANGED cancelled
    <3>1. Lost' \subseteq Lost
      BY <2>1, <2>4, DropsItsOwn
    <3>2. QED
      BY <1>1, <2>1, <2>4, <3>1, PutKeeps
  <2>5. QED
    BY <1>3, <2>2, <2>3, <2>4 DEF Decode, HandlerFails, HandlerEnds
<1>4. CASE WriteBody(w)
  BY <1>4, WriteBodyKeeps
<1>5. CASE WriteAttachments(w)
  <2>1. /\ UNCHANGED <<files, batch, inq, checkpoint, eseen, bodies, failedRuns, epc>> /\ work[w].at = "parts"
        /\ converted \subseteq converted'
    BY <1>5 DEF WriteAttachments, HandlerFails, rest, ends
  <2>2. CASE Put1(w, "gone", Nothing0) /\ cancelled' = TRUE
    <3>1. Lost' \subseteq Lost \cup {b.bytes}
      BY <2>1, <2>2, DropsItsOwn
    <3>2. QED
      BY <1>1, <2>1, <2>2, <3>1, PutKeeps
  <2>3. CASE Put1(w, "send", b) /\ UNCHANGED cancelled /\ b.bytes \in converted'
    <3>1. Lost' \subseteq Lost
      BY <2>1, <2>3, DropsItsOwn
    <3>2. QED
      BY <1>1, <2>1, <2>3, <3>1, PutKeeps
  <2>4. QED
    BY <1>5, <2>2, <2>3 DEF WriteAttachments, HandlerFails, HandlerEnds
<1>6. CASE Send(w)
  <2>1. /\ UNCHANGED <<files, batch, inq, checkpoint, eseen, bodies, converted, failedRuns, epc, cancelled>>
        /\ work[w].at = "send" /\ w \notin Busy
    BY <1>6 DEF Send, ends, Busy
  <2>2. PICK at \in {"idle", "gone"} : Put1(w, at, Nothing0) /\ (at = "gone" => cancelled)
    BY <1>6 DEF Send
  <2>3. Lost' \subseteq Lost
    BY <2>1, <2>2, DropsItsOwn
  <2>4. QED
    BY <1>1, <2>1, <2>2, <2>3, PutKeeps
<1>7. QED
  BY <1>2, <1>3, <1>4, <1>5, <1>6

LEMMA ResetTypes ==
    ASSUME EtlInv, Reset, failedRuns' \in Nat, UNCHANGED files, DOMAIN bodies' = DOMAIN bodies
    PROVE  EtlTypes' /\ LeavesLast' /\ Busy' = {} /\ AtParts' = {} /\ inq' = <<>>
<1>1. inq' = <<>> /\ Len(inq') = 0 /\ <<>> \in Seq(Letters) /\ Letters' = Letters
  BY LettersStay DEF Reset
<1>2. Busy' = {} /\ AtParts' = {} /\ LeftGone' = {}
  BY DEF Reset, AllIdle, Busy, AtParts, LeftGone
<1>3. DOMAIN work' = EtlWorkers /\ work' = [w \in EtlWorkers |-> work'[w]]
  BY DEF Reset, AllIdle
<1>4. cancelled' \in BOOLEAN /\ batch' = {}
  BY DEF Reset
<1>5. EtlTypes'
  BY <1>1, <1>2, <1>3, <1>4, EtlAssumption DEF EtlInv, EtlTypes
<1>6. QED
  BY <1>1, <1>2, <1>5 DEF LeavesLast

(* A run that is over keeps of its seen-set what is in the checkpoint. *)
LEMMA LostAtTheEnd ==
    ASSUME EtlInv, Reset, UNCHANGED <<files, checkpoint, converted>>, DOMAIN bodies' = DOMAIN bodies,
           failedRuns' \in Nat,
           NEW D, InPipeline \subseteq D, \A x : Alone(x) /\ Spoiled(x)' => Spoiled(x) \/ x \in D
    PROVE  Lost' \subseteq Lost \cup D
<1>1. Busy' = {} /\ AtParts' = {} /\ inq' = <<>>
  BY ResetTypes
<1>2. Completed \subseteq InPipeline
  BY DEF Completed, AtParts, InPipeline
<1>3. Bytes' = Bytes /\ (\A x : Alone(x)' <=> Alone(x)) /\ eseen' = {}
  BY LettersStay DEF Reset
<1>4. \A x \in Lost' : Alone(x) /\ x \notin converted /\ x \in checkpoint \cup Bytes /\ (Spoiled(x)' \/ x \in checkpoint)
  BY <1>3 DEF Lost, Dropped
<1>5. QED
  BY <1>2, <1>4 DEF Lost, Dropped

LEMMA EtlEndKeeps == ASSUME EtlInv, EtlEnd PROVE EtlInv'
<1>1. EtlTypes' /\ LeavesLast'
  BY ResetTypes DEF EtlEnd, ends, EtlInv, EtlTypes
<1>2. LeftGone = EtlWorkers /\ InHands = {}
  BY DEF EtlEnd, Gone, LeftGone, InHands, Busy
<1>3. Lost' \subseteq Lost \cup InQueue
  <2>1. UNCHANGED <<files, checkpoint, converted, bodies>> /\ Reset /\ failedRuns' \in Nat
    BY DEF EtlEnd, ends, EtlInv, EtlTypes
  <2>2. InPipeline \subseteq InQueue /\ \A x : Spoiled(x)' <=> Spoiled(x)
    BY <1>2, <2>1, PipelineParts, LettersStay DEF Spoiled
  <2>3. QED
    BY <2>1, <2>2, LostAtTheEnd
<1>4. CASE cancelled
  <2>1. LostSoFar = Cardinality(EtlWorkers)
    BY <1>2, <1>4 DEF LostSoFar
  <2>2. Cardinality(InQueue) + LostSoFar <= Capacity /\ IsFiniteSet(InQueue)
    BY <2>1, QueueCount, LeftCount, EtlAssumption DEF Capacity, EtlInv
  <2>3. failedRuns' = failedRuns + 1 /\ cancelled' = FALSE
    BY <1>4 DEF EtlEnd, Reset
  <2>4. LossIsPaid'
    BY <1>3, <2>2, <2>3, LostRun
  <2>5. QED
    BY <1>1, <2>4 DEF EtlInv
<1>5. CASE ~cancelled
  <2>1. inq = <<>>
    BY <1>2, <1>5, EtlAssumption DEF EtlInv, LeavesLast
  <2>2. Lost' \subseteq Lost
    BY <1>3, <2>1 DEF InQueue
  <2>3. LostSoFar = 0 /\ LostSoFar' = 0 /\ failedRuns' = failedRuns
    BY <1>5 DEF EtlEnd, Reset, LostSoFar, EtlInv, EtlTypes
  <2>4. IsFiniteSet(Lost') /\ Cardinality(Lost)' \in Nat /\ Cardinality(Lost)' <= Cardinality(Lost) /\ Cardinality(Lost) \in Nat
    BY <2>2, FS_Subset, FS_CardinalityType DEF EtlInv, LossIsPaid
  <2>5. Capacity \in Nat /\ failedRuns \in Nat /\ Capacity' = Capacity /\ Capacity * failedRuns \in Nat
    BY LeftCount DEF EtlInv, EtlTypes, Capacity
  <2>6. Cardinality(Lost) <= Capacity * failedRuns + 0
    BY <2>3 DEF EtlInv, LossIsPaid
  <2>7. \A a, b, k \in Nat : a <= b /\ b <= k + 0 => a <= k + 0
    OBVIOUS
  <2>8. Cardinality(Lost)' <= Capacity * failedRuns + 0
    BY <2>4, <2>5, <2>6, <2>7
  <2>9. LossIsPaid'
    BY <2>3, <2>4, <2>5, <2>8 DEF LossIsPaid
  <2>10. QED
    BY <1>1, <2>9 DEF EtlInv
<1>6. QED
  BY <1>4, <1>5

LEMMA EtlKilledKeeps == ASSUME EtlInv, EtlKilled PROVE EtlInv'
<1> DEFINE D == InQueue \cup InHands
           writing == {work[w].blob.dir : w \in {v \in EtlWorkers : work[v].at = "body"}}
<1>1. UNCHANGED <<files, checkpoint, converted>> /\ Reset /\ failedRuns' = failedRuns + 1 /\ cancelled' = FALSE
  BY DEF EtlKilled, ends, Reset
<1>2. /\ DOMAIN bodies' = DOMAIN bodies
      /\ \A d \in DOMAIN bodies : d \notin writing => bodies'[d] = bodies[d]
  BY DEF EtlKilled
<1>3. EtlTypes' /\ LeavesLast' /\ failedRuns' \in Nat
  BY <1>1, <1>2, ResetTypes DEF EtlInv, EtlTypes
<1>4. \A x : Alone(x) /\ Spoiled(x)' => Spoiled(x) \/ x \in D
  <2> SUFFICES ASSUME NEW x, Alone(x), Spoiled(x)' PROVE Spoiled(x) \/ x \in InHands
    OBVIOUS
  <2>1. Letters' = Letters /\ \A c \in Letters : c.dir \in DOMAIN bodies
    BY <1>1, LettersStay DEF EtlInv, EtlTypes
  <2>2. PICK c \in Letters : c.bytes = x /\ bodies'[c.dir] # "none"
    BY <2>1 DEF Spoiled
  <2>3. CASE c.dir \notin writing
    BY <1>2, <2>1, <2>2, <2>3 DEF Spoiled
  <2>4. CASE c.dir \in writing
    <3>1. PICK w \in EtlWorkers : work[w].at = "body" /\ work[w].blob.dir = c.dir
      BY <2>4
    <3>2. w \in Busy /\ work[w].blob \in Letters
      BY <3>1 DEF Busy, EtlInv, EtlTypes
    <3>3. work[w].blob.bytes = x
      BY <2>2, <3>1, <3>2 DEF Alone
    <3>4. QED
      BY <3>2, <3>3 DEF InHands
  <2>5. QED
    BY <2>3, <2>4
<1>5. IsFiniteSet(D) /\ Cardinality(D) + LostSoFar <= Capacity
  <2>1. EtlTypes
    BY DEF EtlInv
  <2>2. /\ IsFiniteSet(D) /\ Cardinality(D) \in Nat
        /\ Cardinality(D) <= Cardinality(InQueue) + Cardinality(InHands)
    BY <2>1, QueueCount, HandsCount, UnionCount
  <2>3. LostSoFar \in Nat /\ LostSoFar <= Cardinality(LeftGone) /\ Cardinality(LeftGone) \in Nat
    BY <2>1, LeftCount DEF LostSoFar
  <2>4. QED
    BY <2>1, <2>2, <2>3, QueueCount, HandsCount, LeftCount, EtlAssumption DEF Capacity
<1>6. InPipeline \subseteq D
  BY PipelineParts
<1> HIDE DEF D
<1>7. Lost' \subseteq Lost \cup D
  BY <1>1, <1>2, <1>3, <1>4, <1>6, LostAtTheEnd
<1>8. LossIsPaid'
  BY <1>1, <1>5, <1>7, LostRun
<1>9. QED
  BY <1>3, <1>8 DEF EtlInv

LEMMA EtlStays == ASSUME EtlInv, UNCHANGED etlVars PROVE EtlInv'
<1>1. UNCHANGED <<files, batch, bodies, checkpoint, eseen, converted, inq, work, failedRuns, cancelled, epc>>
  BY DEF etlVars
<1>2. Lost' = Lost /\ LeftGone' = LeftGone
  BY <1>1, LostFrame
<1>3. EtlTypes' /\ LeavesLast'
  <2>1. Letters' = Letters /\ WalkFiles(files)' = WalkFiles(files) /\ Busy' = Busy
    BY <1>1, LettersStay DEF Busy
  <2>2. QED
    BY <1>1, <1>2, <2>1 DEF EtlInv, EtlTypes, LeavesLast
<1>4. QED
  BY <1>1, <1>2, <1>3, LostStays DEF EtlInv

LEMMA EtlSteps == ASSUME EtlInv, [EtlNext]_etlVars PROVE EtlInv'
<1>1. CASE EtlRun \/ Fetch \/ SkipSeen \/ EndBatch \/ Load \/ EtlSignal
  BY <1>1, ProducerKeeps
<1>2. CASE Emit \/ EtlEnd \/ EtlKilled
  BY <1>2, EmitKeeps, EtlEndKeeps, EtlKilledKeeps
<1>3. CASE \E w \in EtlWorkers : Stage(w)
  BY <1>3, TakeKeeps, WorkerKeeps DEF Stage
<1>4. QED
  BY <1>1, <1>2, <1>3, EtlStays DEF EtlNext, EtlStep

(* The seen-set lists a letter when it enters the channel, and a handler       *)
(* leaves a directory with a message.md alone, so a run that fails loses the   *)
(* letters that were under way for good; of those with a directory of their    *)
(* own it is never more than one run's first channel and workers hold, however *)
(* often the program runs and whatever fails (sync.go, Sync; pipeline.go, Run; *)
(* mailconv.go, FromEMLFile).                                                  *)
THEOREM LossOfFailedRuns == EtlInit /\ [][EtlNext]_etlVars => []LossIsBounded
<1>1. EtlInit => EtlInv
  BY EtlBegins
<1>2. EtlInv /\ [EtlNext]_etlVars => EtlInv'
  BY EtlSteps
<1>3. EtlInv => LossIsBounded
  <2> SUFFICES ASSUME EtlInv PROVE LossIsBounded
    OBVIOUS
  <2> DEFINE listed == {x \in (checkpoint \cup eseen) \ (converted \cup InPipeline) : Alone(x)}
  <2>1. Capacity \in Nat /\ failedRuns \in Nat /\ IsFiniteSet(Lost) /\ Cardinality(Lost) \in Nat
    BY LeftCount, FS_CardinalityType DEF EtlInv, EtlTypes, LossIsPaid
  <2>2. LostSoFar \in Nat /\ LostSoFar <= Capacity * (IF cancelled THEN 1 ELSE 0)
    BY LeftCount, EtlAssumption DEF EtlInv, EtlTypes, LostSoFar, Capacity
  <2>3. Capacity * (failedRuns + IF cancelled THEN 1 ELSE 0) = Capacity * failedRuns + Capacity * (IF cancelled THEN 1 ELSE 0)
    BY <2>1
  <2>4. Cardinality(Lost) <= Capacity * (failedRuns + IF cancelled THEN 1 ELSE 0)
    BY <2>1, <2>2, <2>3 DEF EtlInv, LossIsPaid
  <2>5. listed \subseteq Lost
    <3>1. Completed \subseteq InPipeline
      BY DEF Completed, AtParts, InPipeline
    <3>2. QED
      BY <3>1 DEF Lost, Dropped
  <2>6. IsFiniteSet(listed) /\ Cardinality(listed) \in Nat /\ Cardinality(listed) <= Cardinality(Lost)
    BY <2>1, <2>5, FS_Subset, FS_CardinalityType
  <2> HIDE DEF listed
  <2>7. Cardinality(listed) <= Capacity * (failedRuns + IF cancelled THEN 1 ELSE 0)
    <3>1. Capacity * (failedRuns + IF cancelled THEN 1 ELSE 0) \in Nat
      BY <2>1
    <3>2. QED
      BY <2>1, <2>4, <2>6, <3>1
  <2>8. QED
    BY <2>7 DEF LossIsBounded, listed, Capacity
<1>4. QED
  BY <1>1, <1>2, <1>3, PTL

(* Where the stages of a run are; the load stage returns before the last     *)
(* worker only if the run is cancelled.                                      *)
Positions ==
    /\ epc \in {"idle", "fetch", "emit", "done"}
    /\ \A w \in EtlWorkers : work[w].at \in {"idle", "check", "body", "parts", "send", "gone"}
LoaderLast == epc # "idle" /\ ~loader => cancelled \/ Gone
StageInv == EtlInv /\ Positions /\ LoaderLast

LEMMA StagesBegin == EtlInit => StageInv
BY EtlBegins DEF EtlInit, StageInv, Positions, LoaderLast, AllIdle

LEMMA StagesKeep == ASSUME StageInv, EtlNext, EtlInv' PROVE StageInv'
<1> USE DEF StageInv, Positions, LoaderLast
<1>1. CASE EtlRun \/ Fetch \/ SkipSeen \/ Emit \/ EndBatch \/ Load \/ EtlSignal
  <2>1. UNCHANGED work
    BY <1>1 DEF EtlRun, Fetch, SkipSeen, Emit, EndBatch, Load, EtlSignal, pipeline
  <2>2. epc' \in {"idle", "fetch", "emit", "done"}
    BY <1>1 DEF EtlRun, Fetch, SkipSeen, Emit, EndBatch, Load, EtlSignal
  <2>3. (cancelled => cancelled') /\ (epc = "idle" => epc' = "idle" \/ loader')
    BY <1>1 DEF EtlRun, Fetch, SkipSeen, Emit, EndBatch, Load, EtlSignal, saveCheckpoint, Unseen, EtlInv, EtlTypes
  <2>4. ~loader' /\ epc' # "idle" => ~loader \/ cancelled' \/ Gone
    BY <1>1 DEF EtlRun, Fetch, SkipSeen, Emit, EndBatch, Load, EtlSignal, pipeline
  <2>5. LoaderLast'
    BY <1>1, <2>1, <2>3, <2>4 DEF EtlRun, Gone
  <2>6. QED
    BY <2>1, <2>2, <2>5
<1>2. CASE EtlEnd \/ EtlKilled
  BY <1>2 DEF EtlEnd, EtlKilled, Reset, AllIdle
<1>3. ASSUME NEW w \in EtlWorkers, Stage(w) PROVE StageInv'
  <2>1. UNCHANGED <<epc, loader>> /\ (cancelled => cancelled')
    BY <1>3 DEF Stage, Take, Leave, Decode, WriteBody, WriteAttachments, Send, HandlerFails, HandlerEnds, rest,
                EtlInv, EtlTypes
  <2>2. PICK at \in {"idle", "check", "body", "parts", "send", "gone"} : \E b : Put1(w, at, b)
    BY <1>3 DEF Stage, Take, Leave, Decode, WriteBody, WriteAttachments, Send, HandlerFails, HandlerEnds
  <2>3. work'[w].at = at /\ \A v \in EtlWorkers \ {w} : work'[v] = work[v]
    BY <2>2 DEF Put1, EtlInv, EtlTypes
  <2>4. work[w].at # "gone"
    BY <1>3 DEF Stage, Take, Leave, Decode, WriteBody, WriteAttachments, Send
  <2>5. ~Gone
    BY <2>4 DEF Gone
  <2>6. QED
    BY <2>1, <2>3, <2>5
<1>4. QED
  BY <1>1, <1>2, <1>3 DEF EtlNext, EtlStep

(* Whoever waits in a run waits for somebody: a producer in front of a full   *)
(* channel for the workers, who have not left, they for the load stage, which *)
(* is there until the last of them has gone or the run is cancelled, and a    *)
(* cancelled run makes nobody wait (pipeline.go, Run).                        *)
LEMMA SomebodyIsReady == ASSUME StageInv, epc # "idle" PROVE SomeStageReady
<1> SUFFICES ASSUME ~ProducerReady, ~LoaderReady, ~RunOver, \A w \in EtlWorkers : ~WorkerReady(w) PROVE FALSE
  BY DEF SomeStageReady
<1>1. Len(<<>>) = 0 /\ 0 < Buffer
  BY EtlAssumption
<1>2. inq # <<>> \/ epc = "done"
  BY <1>1 DEF ProducerReady, StageInv, Positions
<1>3. \A w \in EtlWorkers : work[w].at \in {"send", "gone"}
  BY <1>2 DEF WorkerReady, StageInv, Positions
<1>4. CASE \E w \in EtlWorkers : work[w].at = "send"
  <2>1. ~cancelled /\ outq # <<>>
    BY <1>1, <1>4 DEF WorkerReady
  <2>2. ~Gone
    BY <1>4 DEF Gone
  <2>3. QED
    BY <2>1, <2>2 DEF LoaderReady, StageInv, LoaderLast
<1>5. CASE Gone
  <2>1. ~loader /\ epc # "done"
    BY <1>5 DEF LoaderReady, RunOver
  <2>2. LeftGone # {} /\ ~cancelled
    BY <1>5, <2>1, EtlAssumption DEF ProducerReady, LeftGone, Gone, StageInv, Positions
  <2>3. QED
    BY <2>1, <2>2 DEF StageInv, EtlInv, LeavesLast
<1>6. QED
  BY <1>3, <1>4, <1>5 DEF Gone

(* The first half of PipelineNeverStuck, for any number of workers and any    *)
(* size of the channels: as long as a run has not ended one of its stages is  *)
(* ready.  That a ready stage has a step is ENABLED and checked by TLC.       *)
THEOREM SomeStageIsReady == EtlInit /\ [][EtlNext]_etlVars => [](epc # "idle" => SomeStageReady)
<1>1. EtlInit => StageInv
  BY StagesBegin
<1>2. StageInv /\ [EtlNext]_etlVars => StageInv'
  <2> SUFFICES ASSUME StageInv, [EtlNext]_etlVars PROVE StageInv'
    OBVIOUS
  <2>1. EtlInv'
    BY EtlSteps DEF StageInv
  <2>2. CASE UNCHANGED etlVars
    BY <2>1, <2>2 DEF StageInv, Positions, LoaderLast, Gone, etlVars
  <2>3. QED
    BY <2>1, <2>2, StagesKeep
<1>3. StageInv => (epc # "idle" => SomeStageReady)
  BY SomebodyIsReady
<1>4. QED
  BY <1>1, <1>2, <1>3, PTL

-----------------------------------------------------------------------------
(* ArchiveImport. *)

FromMbox == {[seg |-> "mbox", l |-> l] : l \in Range(mbox)}
Places == {t \in Archived \cup FromMbox : ~skipPolicyDir(t.l)}
StagingTypes ==
    /\ IsFiniteSet(DOMAIN staging)
    /\ \A g \in DOMAIN staging : /\ IsFiniteSet(staging[g])
                                 /\ \A l \in staging[g] : [seg |-> g, l |-> l] \in Archived
ArchiveTypes ==
    /\ sources \in ArchiveConfigs /\ mbox \in Mailboxes
    /\ apc \in {"idle", "extract", "copy", "split", "convert"}
    /\ src \in Nat \ {0} /\ todo \in Seq(Places)
    /\ DOMAIN emls \subseteq Places /\ IsFiniteSet(DOMAIN emls)
    /\ apc \in {"extract", "copy"} => program = "pst"
    /\ apc = "split" => program # "pst"
    /\ clean => apc = "idle"
    /\ StagingTypes

(* What has been extracted lies in its directory until the next source of    *)
(* that directory.                                                           *)
LastBefore(i, n) == i < n /\ \A j \in DOMAIN sources : j < n /\ sources[j].seg = sources[i].seg => j <= i
Extracted(n) ==
    \A i \in DOMAIN sources : LastBefore(i, n) =>
        sources[i].seg \in DOMAIN staging /\ staging[sources[i].seg] = Range(sources[i].letters)
Extracting == apc = "extract" => Extracted(src)
Copying == apc = "copy" => \A t \in Needed : t \in DOMAIN emls \cup ToSet(todo)
Converting ==
    apc = "convert" /\ program = "pst" =>
        \A t \in Needed : t \in DOMAIN emls /\ (fails \/ t \in DOMAIN markdown \cup ToSet(todo))
Finished == clean /\ program = "pst" => \A t \in Needed : t \in DOMAIN markdown \cap DOMAIN emls
ArchiveInv == ArchiveTypes /\ Extracting /\ Copying /\ Converting /\ Finished

LEMMA SourceFacts ==
    ASSUME ArchiveTypes
    PROVE  /\ sources \in Seq(Range(sources)) /\ IsFiniteSet(Range(mbox))
           /\ \A i \in DOMAIN sources : sources[i].seg # "mbox" /\ IsFiniteSet(Range(sources[i].letters))
<1>1. mbox \in Seq(Range(mbox)) /\ sources \in Seq(Range(sources))
  BY ArchiveAssumption DEF ArchiveTypes
<1>2. \A i \in DOMAIN sources : sources[i].seg # "mbox" /\ sources[i].letters \in Seq(Range(sources[i].letters))
  BY ArchiveAssumption DEF ArchiveTypes
<1>3. QED
  BY <1>1, <1>2, RangeIsFinite

LEMMA PlacesStay ==
    ASSUME UNCHANGED <<sources, mbox>>
    PROVE  Places' = Places /\ Needed' = Needed /\ Archived' = Archived /\ FromMbox' = FromMbox
BY DEF Places, Needed, Archived, FromMbox, Place, LastOf, skipPolicyDir

LEMMA ArchiveBegins == ArchiveInit => ArchiveInv
<1> SUFFICES ASSUME ArchiveInit PROVE ArchiveInv
  OBVIOUS
<1>1. DOMAIN staging = {} /\ DOMAIN emls = {}
  BY DEF ArchiveInit
<1>2. QED
  BY <1>1, FS_EmptySet, NothingInIt
  DEF ArchiveInit, ArchiveInv, ArchiveTypes, StagingTypes, Extracting, Copying, Converting, Finished

(* A program that ends, whatever stopped it, leaves nothing to do.            *)
LEMMA EndKeeps ==
    ASSUME ArchiveInv, UNCHANGED <<sources, mbox, src, program>>, ArchiveEnds, ~clean',
           DOMAIN emls' \subseteq Places, IsFiniteSet(DOMAIN emls'), StagingTypes'
    PROVE  ArchiveInv'
BY PlacesStay, NothingInIt
DEF ArchiveInv, ArchiveTypes, Extracting, Copying, Converting, Finished, ArchiveEnds

(* A run begins.                                                              *)
LEMMA ImportPSTKeeps == ASSUME ArchiveInv, ImportPST PROVE ArchiveInv'
<1>1. UNCHANGED <<sources, mbox, staging, todo, emls>> /\ apc' = "extract" /\ src' = 1 /\ program' = "pst" /\ ~clean'
  BY DEF ImportPST, ArchiveRun, disk
<1>2. ArchiveTypes'
  BY <1>1, PlacesStay DEF ArchiveInv, ArchiveTypes, StagingTypes
<1>3. Extracted(1)'
  <2>1. DOMAIN sources \subseteq Nat \ {0}
    BY SourceFacts DEF ArchiveInv
  <2>2. QED
    BY <1>1, <2>1 DEF Extracted, LastBefore
<1>4. QED
  BY <1>1, <1>2, <1>3 DEF ArchiveInv, Extracting, Copying, Converting, Finished

LEMMA OtherRunKeeps ==
    ASSUME ArchiveInv, ConvertMbox \/ \E force \in BOOLEAN : MailImport(force)
    PROVE  ArchiveInv'
<1>1. /\ UNCHANGED <<sources, mbox, src, staging, emls>> /\ ~clean' /\ program' # "pst"
      /\ apc' \in {"split", "convert"}
  BY DEF ConvertMbox, MailImport, ArchiveRun, disk
<1>2. todo' \in Seq(Places)
  <2>1. CASE ConvertMbox
    <3> DEFINE S == {[seg |-> "mbox", l |-> l] : l \in SplitMboxDir(mbox)}
    <3>1. S \subseteq Places /\ IsFiniteSet(S)
      <4>1. S \subseteq Places
        BY DEF Places, FromMbox, SplitMboxDir
      <4>2. IsFiniteSet(SplitMboxDir(mbox))
        BY SourceFacts, FS_Subset DEF ArchiveInv, SplitMboxDir
      <4>3. [l \in SplitMboxDir(mbox) |-> [seg |-> "mbox", l |-> l]] \in Surjection(SplitMboxDir(mbox), S)
        BY DEF Surjection
      <4>4. QED
        BY <4>1, <4>2, <4>3, FS_Surjection
    <3>2. todo' = SetToSeq(S)
      BY <2>1 DEF ConvertMbox
    <3> HIDE DEF S
    <3>3. QED
      BY <3>1, <3>2, ListedOnce
  <2>2. CASE \E force \in BOOLEAN : MailImport(force)
    <3>1. IsFiniteSet(Of("mbox", DOMAIN emls)) /\ Of("mbox", DOMAIN emls) \subseteq Places
      BY FS_Subset DEF ArchiveInv, ArchiveTypes, Of
    <3>2. todo' = SetToSeq(Of("mbox", DOMAIN emls))
      BY <2>2 DEF MailImport
    <3>3. QED
      BY <3>1, <3>2, ListedOnce
  <2>3. QED
    BY <2>1, <2>2
<1>3. ArchiveTypes'
  BY <1>1, <1>2, PlacesStay DEF ArchiveInv, ArchiveTypes, StagingTypes
<1>4. QED
  BY <1>1, <1>3 DEF ArchiveInv, Extracting, Copying, Converting, Finished

LEMMA StagingKeeps ==
    ASSUME ArchiveInv, src \in DOMAIN sources, NEW some \in SUBSET Range(sources[src].letters),
           staging' = Write(staging, sources[src].seg, some), UNCHANGED sources
    PROVE  StagingTypes'
<1>1. IsFiniteSet(DOMAIN staging \cup {sources[src].seg}) /\ DOMAIN staging' = DOMAIN staging \cup {sources[src].seg}
  BY FS_AddElement DEF ArchiveInv, ArchiveTypes, StagingTypes, Write
<1>2. IsFiniteSet(some) /\ \A l \in some : [seg |-> sources[src].seg, l |-> l] \in Archived
  <2>1. IsFiniteSet(some)
    BY SourceFacts, FS_Subset DEF ArchiveInv
  <2>2. \A l \in some : Place(src, l) \in Archived
    BY DEF Archived
  <2>3. QED
    BY <2>1, <2>2 DEF Place
<1>3. Archived' = Archived
  BY DEF Archived, Place
<1>4. \A g \in DOMAIN staging' : staging'[g] = IF g = sources[src].seg THEN some ELSE staging[g]
  BY <1>1 DEF Write
<1>5. QED
  BY <1>1, <1>2, <1>3, <1>4 DEF ArchiveInv, ArchiveTypes, StagingTypes

LEMMA ReadPSTKeeps == ASSUME ArchiveInv, ReadPST PROVE ArchiveInv'
<1>1. /\ UNCHANGED <<sources, mbox, emls, program, clean, markdown>> /\ apc = "extract" /\ program = "pst" /\ ~clean
      /\ src <= Len(sources)
  BY DEF ReadPST, disk, ArchiveInv, ArchiveTypes
<1>2. src \in DOMAIN sources /\ DOMAIN sources \subseteq Nat \ {0} /\ src \in Nat
  BY <1>1, SourceFacts DEF ArchiveInv, ArchiveTypes
<1>3. CASE /\ staging' = Write(staging, sources[src].seg, Range(sources[src].letters))
           /\ src' = src + 1 /\ UNCHANGED <<apc, todo>>
  <2>1. ArchiveTypes'
    BY <1>1, <1>2, <1>3, StagingKeeps, PlacesStay DEF ArchiveInv, ArchiveTypes
  <2>2. Extracted(src)'
    <3> SUFFICES ASSUME NEW i \in DOMAIN sources, LastBefore(i, src + 1)
                 PROVE  sources[i].seg \in DOMAIN staging' /\ staging'[sources[i].seg] = Range(sources[i].letters)
      BY <1>1, <1>2, <1>3 DEF Extracted, LastBefore
    <3>1. CASE i = src
      BY <1>3, <3>1 DEF Write
    <3>2. CASE i # src
      <4>1. i < src /\ src < src + 1 /\ ~(src <= i)
        BY <1>2, <3>2 DEF LastBefore
      <4>2. sources[src].seg # sources[i].seg
        BY <1>2, <4>1 DEF LastBefore
      <4>3. LastBefore(i, src)
        BY <1>2, <4>1 DEF LastBefore
      <4>4. sources[i].seg \in DOMAIN staging /\ staging[sources[i].seg] = Range(sources[i].letters)
        BY <1>1, <4>3 DEF ArchiveInv, Extracting, Extracted
      <4>5. QED
        BY <1>3, <4>2, <4>4 DEF Write
    <3>3. QED
      BY <3>1, <3>2
  <2>3. QED
    BY <1>1, <1>2, <1>3, <2>1, <2>2 DEF ArchiveInv, Extracting, Copying, Converting, Finished
<1>4. CASE /\ ArchiveEnds /\ UNCHANGED src
           /\ \E some \in {{}, Range(sources[src].letters)} : staging' = Write(staging, sources[src].seg, some)
  <2>1. StagingTypes'
    BY <1>1, <1>2, <1>4, StagingKeeps
  <2>2. QED
    BY <1>1, <1>4, <2>1, EndKeeps DEF ArchiveInv, ArchiveTypes
<1>5. QED
  BY <1>3, <1>4 DEF ReadPST

LEMMA ListStagingKeeps == ASSUME ArchiveInv, ListStaging PROVE ArchiveInv'
<1> DEFINE staged == UNION {{[seg |-> g, l |-> l] : l \in staging[g]} : g \in DOMAIN staging}
           S == {t \in staged : ~skipPolicyDir(t.l)}
<1>1. /\ UNCHANGED <<sources, mbox, src, staging, emls, program, clean>> /\ apc = "extract" /\ program = "pst" /\ ~clean
      /\ src > Len(sources) /\ apc' = "copy" /\ todo' = SetToSeq(S)
  BY DEF ListStaging, disk, ArchiveInv, ArchiveTypes
<1>2. S \subseteq Places
  BY DEF ArchiveInv, ArchiveTypes, StagingTypes, Places
<1>3. IsFiniteSet(S)
  <2> DEFINE Parts == {{[seg |-> g, l |-> l] : l \in staging[g]} : g \in DOMAIN staging}
  <2>1. IsFiniteSet(Parts)
    <3>1. [g \in DOMAIN staging |-> {[seg |-> g, l |-> l] : l \in staging[g]}] \in Surjection(DOMAIN staging, Parts)
      BY DEF Surjection
    <3>2. QED
      BY <3>1, FS_Surjection DEF ArchiveInv, ArchiveTypes, StagingTypes
  <2>2. ASSUME NEW P \in Parts PROVE IsFiniteSet(P)
    <3>1. PICK g \in DOMAIN staging : P = {[seg |-> g, l |-> l] : l \in staging[g]}
      OBVIOUS
    <3>2. [l \in staging[g] |-> [seg |-> g, l |-> l]] \in Surjection(staging[g], P)
      BY <3>1 DEF Surjection
    <3>3. QED
      BY <3>2, FS_Surjection DEF ArchiveInv, ArchiveTypes, StagingTypes
  <2>3. IsFiniteSet(UNION Parts)
    BY <2>1, <2>2, FS_UNION
  <2>4. S \subseteq UNION Parts
    OBVIOUS
  <2>5. QED
    BY <2>3, <2>4, FS_Subset
<1>4. \A t \in Needed : t \in S
  <2> SUFFICES ASSUME NEW t \in Needed PROVE t \in S
    OBVIOUS
  <2>1. PICK i \in DOMAIN sources : LastOf(i) /\ \E l \in Range(sources[i].letters) : t = Place(i, l)
    BY DEF Needed
  <2>2. DOMAIN sources = 1 .. Len(sources) /\ Len(sources) \in Nat /\ src \in Nat
    BY SourceFacts DEF ArchiveInv, ArchiveTypes
  <2>3. LastBefore(i, src)
    BY <1>1, <2>1, <2>2 DEF LastBefore, LastOf
  <2>4. sources[i].seg \in DOMAIN staging /\ staging[sources[i].seg] = Range(sources[i].letters)
    BY <1>1, <2>3 DEF ArchiveInv, Extracting, Extracted
  <2>5. ~skipPolicyDir(t.l)
    BY DEF Needed, Places
  <2>6. QED
    BY <2>1, <2>4, <2>5 DEF Place
<1> HIDE DEF S
<1>5. todo' \in Seq(Places) /\ ToSet(todo') = S
  BY <1>1, <1>2, <1>3, ListedOnce
<1>6. ArchiveTypes'
  BY <1>1, <1>5, PlacesStay DEF ArchiveInv, ArchiveTypes, StagingTypes
<1>7. QED
  BY <1>1, <1>4, <1>5, <1>6, PlacesStay DEF ArchiveInv, Extracting, Copying, Converting, Finished

(* A letter is copied or is there already.                                    *)
LEMMA CopyKeeps == ASSUME ArchiveInv, Copy \/ splitMboxToDir PROVE ArchiveInv'
<1>1. /\ UNCHANGED <<sources, mbox, src, staging, markdown, program, fails, clean>> /\ apc \in {"copy", "split"} /\ ~clean
      /\ todo # <<>> /\ WriteLetter(Head(todo)) /\ todo \in Seq(Places)
  BY DEF Copy, splitMboxToDir, CopyStep, ArchiveInv, ArchiveTypes
<1>2. Tail(todo) \in Seq(Places) /\ Head(todo) \in Places /\ ToSet(todo) = {Head(todo)} \cup ToSet(Tail(todo))
  BY <1>1, HeadAndTail
<1>3. /\ DOMAIN emls' \subseteq DOMAIN emls \cup {Head(todo)} /\ DOMAIN emls \subseteq DOMAIN emls'
      /\ (todo' = Tail(todo) /\ apc' = apc) => Head(todo) \in DOMAIN emls'
  BY <1>1 DEF WriteLetter, Write, ArchiveEnds
<1>4. DOMAIN emls' \subseteq Places /\ IsFiniteSet(DOMAIN emls')
  <2>1. IsFiniteSet(DOMAIN emls \cup {Head(todo)})
    BY FS_AddElement DEF ArchiveInv, ArchiveTypes
  <2>2. QED
    BY <1>2, <1>3, <2>1, FS_Subset DEF ArchiveInv, ArchiveTypes
<1>5. CASE todo' = Tail(todo) /\ UNCHANGED apc
  <2>1. ArchiveTypes'
    BY <1>1, <1>2, <1>4, <1>5, PlacesStay DEF ArchiveInv, ArchiveTypes, StagingTypes
  <2>2. Copying'
    BY <1>1, <1>2, <1>3, <1>5, PlacesStay DEF ArchiveInv, Copying
  <2>3. QED
    BY <1>1, <1>5, <2>1, <2>2 DEF ArchiveInv, Extracting, Converting, Finished
<1>6. CASE ArchiveEnds
  <2>1. StagingTypes'
    BY <1>1, PlacesStay DEF ArchiveInv, ArchiveTypes, StagingTypes
  <2>2. QED
    BY <1>1, <1>4, <1>6, <2>1, EndKeeps
<1>7. QED
  BY <1>1, <1>5, <1>6 DEF WriteLetter

LEMMA SyncedKeeps == ASSUME ArchiveInv, Synced PROVE ArchiveInv'
<1>1. /\ UNCHANGED <<sources, mbox, src, staging, emls, markdown, program, fails, clean>> /\ apc = "copy" /\ todo = <<>>
      /\ ~clean /\ program = "pst"
  BY DEF Synced, ArchiveInv, ArchiveTypes
<1>2. StagingTypes'
  BY <1>1, PlacesStay DEF ArchiveInv, ArchiveTypes, StagingTypes
<1>3. CASE apc' = "convert" /\ todo' = SetToSeq(Of("pst", DOMAIN emls))
  <2>1. IsFiniteSet(Of("pst", DOMAIN emls)) /\ Of("pst", DOMAIN emls) \subseteq Places
    BY FS_Subset DEF ArchiveInv, ArchiveTypes, Of
  <2>2. todo' \in Seq(Places) /\ ToSet(todo') = Of("pst", DOMAIN emls)
    BY <1>3, <2>1, ListedOnce
  <2>3. \A t \in Needed : t \in Of("pst", DOMAIN emls)
    <3>1. \A t \in Needed : t \in DOMAIN emls
      BY <1>1, NothingInIt DEF ArchiveInv, Copying
    <3>2. \A t \in Needed : t.seg # "mbox"
      BY SourceFacts DEF ArchiveInv, Needed, Place
    <3>3. QED
      BY <3>1, <3>2 DEF Of
  <2>4. ArchiveTypes'
    BY <1>1, <1>2, <1>3, <2>2, PlacesStay DEF ArchiveInv, ArchiveTypes
  <2>5. Converting'
    BY <1>1, <2>2, <2>3, PlacesStay DEF Converting, Of
  <2>6. QED
    BY <1>1, <1>3, <2>4, <2>5 DEF ArchiveInv, Extracting, Copying, Finished
<1>4. CASE ArchiveEnds
  BY <1>1, <1>2, <1>4, EndKeeps DEF ArchiveInv, ArchiveTypes
<1>5. QED
  BY <1>3, <1>4 DEF Synced

LEMMA ConvertKeeps == ASSUME ArchiveInv, Convert \/ ConvertFails PROVE ArchiveInv'
<1>1. /\ UNCHANGED <<sources, mbox, apc, src, staging, emls, program, clean>> /\ apc = "convert" /\ todo # <<>>
      /\ todo' = Tail(todo) /\ ~clean /\ todo \in Seq(Places)
  BY DEF Convert, ConvertFails, ConvertNext, ArchiveInv, ArchiveTypes
<1>2. Tail(todo) \in Seq(Places) /\ ToSet(todo) = {Head(todo)} \cup ToSet(Tail(todo))
  BY <1>1, HeadAndTail
<1>3. /\ fails \/ DOMAIN markdown \subseteq DOMAIN markdown' \/ fails' \/ program = "force"
      /\ fails => fails'
      /\ fails' \/ Head(todo) \in DOMAIN markdown' \/ program = "force"
  BY DEF Convert, ConvertFails, Converted, Write
<1>4. ArchiveTypes'
  BY <1>1, <1>2, PlacesStay DEF ArchiveInv, ArchiveTypes, StagingTypes
<1>5. Converting'
  BY <1>1, <1>2, <1>3, PlacesStay DEF ArchiveInv, Converting
<1>6. QED
  BY <1>1, <1>4, <1>5 DEF ArchiveInv, Extracting, Copying, Finished

LEMMA ConvertDoneKeeps == ASSUME ArchiveInv, ConvertDone PROVE ArchiveInv'
<1>1. /\ UNCHANGED <<sources, mbox, src, staging, emls, markdown, program, fails>> /\ apc = "convert" /\ todo = <<>>
      /\ apc' = "idle" /\ todo' = <<>> /\ clean' = ~fails
  BY DEF ConvertDone, ArchiveEnds, disk
<1>2. ArchiveTypes'
  BY <1>1, PlacesStay, NothingInIt DEF ArchiveInv, ArchiveTypes, StagingTypes
<1>3. Finished'
  BY <1>1, PlacesStay, NothingInIt DEF ArchiveInv, Converting, Finished
<1>4. QED
  BY <1>1, <1>2, <1>3 DEF ArchiveInv, Extracting, Copying, Converting

LEMMA StopKeeps == ASSUME ArchiveInv, SplitEnd \/ ArchiveKilled PROVE ArchiveInv'
<1>1. UNCHANGED <<sources, mbox, src, staging, emls, program, clean>> /\ ArchiveEnds /\ apc # "idle"
  BY DEF SplitEnd, ArchiveKilled, disk
<1>2. StagingTypes' /\ ~clean
  BY <1>1, PlacesStay DEF ArchiveInv, ArchiveTypes, StagingTypes
<1>3. QED
  BY <1>1, <1>2, EndKeeps DEF ArchiveInv, ArchiveTypes

LEMMA ArchiveStays == ASSUME ArchiveInv, UNCHANGED archiveVars PROVE ArchiveInv'
<1>1. UNCHANGED <<sources, mbox, apc, src, staging, todo, emls, markdown, program, fails, clean>>
  BY DEF archiveVars
<1>2. ArchiveTypes'
  BY <1>1, PlacesStay DEF ArchiveInv, ArchiveTypes, StagingTypes
<1>3. Extracting'
  BY <1>1 DEF ArchiveInv, Extracting, Extracted, LastBefore
<1>4. QED
  BY <1>1, <1>2, <1>3, PlacesStay DEF ArchiveInv, Copying, Converting, Finished

LEMMA ArchiveSteps == ASSUME ArchiveInv, [ArchiveNext]_archiveVars PROVE ArchiveInv'
<1>1. CASE ImportPST \/ ConvertMbox \/ \E force \in BOOLEAN : MailImport(force)
  BY <1>1, ImportPSTKeeps, OtherRunKeeps
<1>2. CASE ReadPST \/ ListStaging \/ Copy \/ splitMboxToDir \/ Synced
  BY <1>2, ReadPSTKeeps, ListStagingKeeps, CopyKeeps, SyncedKeeps
<1>3. CASE Convert \/ ConvertFails \/ ConvertDone \/ SplitEnd \/ ArchiveKilled
  BY <1>3, ConvertKeeps, ConvertDoneKeeps, StopKeeps
<1>4. QED
  BY <1>1, <1>2, <1>3, ArchiveStays DEF ArchiveNext

(* What is not whole: a letter, its body or its attachments.  Nothing that is *)
(* not in the corpus is converted.                                            *)
Damaged ==
    {t \in Places : \/ t \in DOMAIN emls /\ emls[t] # "whole"
                    \/ t \in DOMAIN markdown /\ (markdown[t] # "whole" \/ t \notin withParts)}
DamageIsPaid == afaults \in Nat /\ IsFiniteSet(Damaged) /\ Cardinality(Damaged) <= afaults
InCorpus == apc = "convert" => ToSet(todo) \subseteq DOMAIN emls
DamageInv == ArchiveInv /\ InCorpus /\ DamageIsPaid

LEMMA DamageGrows ==
    ASSUME DamageIsPaid, \/ Damaged' \subseteq Damaged /\ afaults' \in {afaults, afaults + 1}
                         \/ (\E t : Damaged' \subseteq Damaged \cup {t}) /\ afaults' = afaults + 1
    PROVE  DamageIsPaid'
<1>1. IsFiniteSet(Damaged) /\ Cardinality(Damaged) \in Nat /\ afaults \in Nat
  BY FS_CardinalityType DEF DamageIsPaid
<1>2. CASE Damaged' \subseteq Damaged /\ afaults' \in {afaults, afaults + 1}
  <2>1. IsFiniteSet(Damaged') /\ Cardinality(Damaged)' \in Nat /\ Cardinality(Damaged)' <= Cardinality(Damaged)
    BY <1>1, <1>2, FS_Subset, FS_CardinalityType
  <2>2. QED
    BY <1>1, <1>2, <2>1 DEF DamageIsPaid
<1>3. ASSUME NEW t, Damaged' \subseteq Damaged \cup {t}, afaults' = afaults + 1 PROVE DamageIsPaid'
  <2>1. /\ IsFiniteSet(Damaged \cup {t})
        /\ Cardinality(Damaged \cup {t}) \in {Cardinality(Damaged), Cardinality(Damaged) + 1}
    BY <1>1, FS_AddElement
  <2>2. /\ IsFiniteSet(Damaged') /\ Cardinality(Damaged)' \in Nat
        /\ Cardinality(Damaged)' <= Cardinality(Damaged \cup {t})
    BY <1>3, <2>1, FS_Subset, FS_CardinalityType
  <2>3. QED
    BY <1>1, <1>3, <2>1, <2>2 DEF DamageIsPaid
<1>4. QED
  BY <1>2, <1>3

(* Only what is written now can be damaged.                                   *)
LEMMA OnlyThisOne ==
    ASSUME UNCHANGED <<sources, mbox>>, NEW t,
           \A u : u # t => /\ u \in DOMAIN emls' => u \in DOMAIN emls /\ emls'[u] = emls[u]
                           /\ u \in DOMAIN markdown' => u \in DOMAIN markdown /\ markdown'[u] = markdown[u]
                           /\ u \in withParts => u \in withParts'
    PROVE  Damaged' \subseteq Damaged \cup {t}
BY PlacesStay DEF Damaged

LEMMA CutShortHurtsOne ==
    ASSUME UNCHANGED <<sources, mbox, emls>>, NEW t, CutShort(t)
    PROVE  Damaged' \subseteq Damaged \cup {t}
BY OnlyThisOne DEF CutShort, Write

LEMMA DamageSteps == ASSUME DamageInv, [ArchiveNext]_archiveVars PROVE DamageInv'
<1>1. ArchiveInv' /\ UNCHANGED <<sources, mbox>>
  BY ArchiveSteps DEF DamageInv, ArchiveNext, ImportPST, ConvertMbox, MailImport, ReadPST, ListStaging, Copy,
     splitMboxToDir, CopyStep, Synced, SplitEnd, Convert, ConvertFails, ConvertDone, ArchiveKilled, archiveVars
<1>2. ASSUME UNCHANGED <<emls, markdown, withParts>>, afaults' \in {afaults, afaults + 1}
      PROVE  DamageIsPaid'
  BY <1>1, <1>2, PlacesStay, DamageGrows DEF DamageInv, Damaged
<1>3. CASE \/ ImportPST \/ ConvertMbox \/ ReadPST \/ ListStaging \/ SplitEnd \/ ConvertDone
           \/ UNCHANGED archiveVars
  <2>1. UNCHANGED <<emls, markdown, withParts>> /\ afaults' \in {afaults, afaults + 1}
    BY <1>3 DEF ImportPST, ConvertMbox, ReadPST, ListStaging, SplitEnd, ConvertDone, disk, archiveVars, ArchiveFault
  <2>2. apc' # "convert" \/ UNCHANGED <<apc, todo>>
    BY <1>3 DEF ImportPST, ConvertMbox, ReadPST, ListStaging, SplitEnd, ConvertDone, ArchiveEnds, archiveVars,
       DamageInv, ArchiveInv, ArchiveTypes
  <2>3. QED
    BY <1>1, <1>2, <2>1, <2>2 DEF DamageInv, InCorpus
<1>4. CASE (\E force \in BOOLEAN : MailImport(force)) \/ Synced
  <2>1. UNCHANGED <<emls, markdown, withParts>> /\ afaults' \in {afaults, afaults + 1}
    BY <1>4 DEF MailImport, Synced, disk, ArchiveFault
  <2>2. apc' # "convert" \/ \E k : todo' = SetToSeq(Of(k, DOMAIN emls))
    BY <1>4 DEF MailImport, Synced, ArchiveEnds
  <2>3. \A k : ToSet(SetToSeq(Of(k, DOMAIN emls))) = Of(k, DOMAIN emls) /\ Of(k, DOMAIN emls) \subseteq DOMAIN emls
    <3> TAKE k
    <3>1. Of(k, DOMAIN emls) \subseteq DOMAIN emls
      BY DEF Of
    <3>2. IsFiniteSet(Of(k, DOMAIN emls))
      BY <3>1, FS_Subset DEF DamageInv, ArchiveInv, ArchiveTypes
    <3>3. QED
      BY <3>1, <3>2, ListedOnce
  <2>4. InCorpus'
    BY <2>1, <2>2, <2>3 DEF InCorpus
  <2>5. QED
    BY <1>1, <1>2, <2>1, <2>4 DEF DamageInv
<1>5. CASE Copy \/ splitMboxToDir
  <2> DEFINE t == Head(todo)
  <2>1. UNCHANGED <<markdown, withParts>> /\ apc' # "convert"
    BY <1>5 DEF Copy, splitMboxToDir, CopyStep, WriteLetter, ArchiveEnds
  <2>2. CASE UNCHANGED emls
    <3>1. afaults' \in {afaults, afaults + 1}
      BY <1>5 DEF Copy, splitMboxToDir, CopyStep, WriteLetter, ArchiveFault
    <3>2. QED
      BY <1>1, <1>2, <2>1, <2>2, <3>1 DEF DamageInv, InCorpus
  <2>3. CASE emls' = Write(emls, t, "whole") /\ UNCHANGED afaults
    <3>1. Damaged' \subseteq Damaged
      BY <1>1, <2>1, <2>3, PlacesStay DEF Damaged, Write
    <3>2. QED
      BY <1>1, <2>1, <2>3, <3>1, DamageGrows DEF DamageInv, InCorpus
  <2>4. CASE emls' = Write(emls, t, "torn") /\ afaults' = afaults + 1
    <3>1. Damaged' \subseteq Damaged \cup {t}
      BY <1>1, <2>1, <2>4, OnlyThisOne DEF Write
    <3> HIDE DEF t
    <3>2. QED
      BY <1>1, <2>1, <2>4, <3>1, DamageGrows DEF DamageInv, InCorpus
  <2>5. QED
    BY <1>5, <2>2, <2>3, <2>4 DEF Copy, splitMboxToDir, CopyStep, WriteLetter, ArchiveFault
<1>6. CASE Convert \/ ConvertFails
  <2> DEFINE t == Head(todo)
  <2>1. /\ UNCHANGED emls /\ apc' = apc /\ apc = "convert" /\ todo # <<>> /\ todo' = Tail(todo) /\ todo \in Seq(Places)
    BY <1>6 DEF Convert, ConvertFails, ConvertNext, DamageInv, ArchiveInv, ArchiveTypes
  <2>2. ToSet(todo) = {t} \cup ToSet(Tail(todo))
    BY <2>1, HeadAndTail
  <2>3. InCorpus' /\ t \in DOMAIN emls
    BY <2>1, <2>2 DEF DamageInv, InCorpus
  <2>4. CASE UNCHANGED <<markdown, withParts, afaults>>
    BY <1>1, <1>2, <2>1, <2>3, <2>4 DEF DamageInv
  <2>5. CASE markdown' = Write(markdown, t, emls[t]) /\ withParts' = withParts \cup {t} /\ UNCHANGED afaults
    <3> HIDE DEF t
    <3>1. Damaged' \subseteq Damaged
      BY <1>1, <2>1, <2>3, <2>5, PlacesStay DEF Damaged, Write
    <3>2. QED
      BY <1>1, <2>3, <2>5, <3>1, DamageGrows DEF DamageInv
  <2>6. CASE CutShort(t) /\ afaults' = afaults + 1
    <3> HIDE DEF t
    <3>1. Damaged' \subseteq Damaged \cup {t}
      BY <1>1, <2>1, <2>6, CutShortHurtsOne
    <3>2. QED
      BY <1>1, <2>3, <2>6, <3>1, DamageGrows DEF DamageInv
  <2>7. QED
    BY <1>6, <2>4, <2>5, <2>6 DEF Convert, ConvertFails, ArchiveFault
<1>7. CASE ArchiveKilled
  <2> DEFINE t == Head(todo)
  <2>1. UNCHANGED emls /\ apc' = "idle" /\ afaults' = afaults + 1
    BY <1>7 DEF ArchiveKilled, ArchiveEnds, ArchiveFault
  <2>2. CASE UNCHANGED <<markdown, withParts>>
    BY <1>1, <1>2, <2>1, <2>2 DEF DamageInv, InCorpus
  <2>3. CASE CutShort(t)
    <3> HIDE DEF t
    <3>1. Damaged' \subseteq Damaged \cup {t}
      BY <1>1, <2>1, <2>3, CutShortHurtsOne
    <3>2. QED
      BY <1>1, <2>1, <3>1, DamageGrows DEF DamageInv, InCorpus
  <2>4. QED
    BY <1>7, <2>2, <2>3 DEF ArchiveKilled
<1>8. QED
  BY <1>3, <1>4, <1>5, <1>6, <1>7 DEF ArchiveNext

(* An import of archives that ends with 0 has put every letter it had to into *)
(* the corpus and has its markdown, whatever runs failed before and wherever  *)
(* they stopped, and no more letters than there were faults are not whole;    *)
(* the corpus holds nothing else.  Letters it had to bring are those of the   *)
(* folders the policy allows, and of sources whose labels give one directory  *)
(* the last one's (pst.go, Fetch and ImportPST; mailconv.go, FromEML).        *)
THEOREM ImportsLeaveEveryLetter == ArchiveInit /\ [][ArchiveNext]_archiveVars => []ArchiveIsExact
<1>1. ArchiveInit => DamageInv
  <2> SUFFICES ASSUME ArchiveInit PROVE DamageInv
    OBVIOUS
  <2>1. Damaged = {} /\ afaults = 0 /\ apc = "idle"
    BY DEF ArchiveInit, Damaged
  <2>2. QED
    BY <2>1, ArchiveBegins, FS_EmptySet DEF DamageInv, DamageIsPaid, InCorpus
<1>2. DamageInv /\ [ArchiveNext]_archiveVars => DamageInv'
  BY DamageSteps
<1>3. DamageInv => ArchiveIsExact
  <2> SUFFICES ASSUME DamageInv PROVE ArchiveIsExact
    OBVIOUS
  <2>1. OneCopyPerLetter
    BY DEF DamageInv, ArchiveInv, ArchiveTypes, Places, FromMbox, OneCopyPerLetter, Of
  <2>2. CleanImportIsComplete
    <3> DEFINE broken == {t \in Needed : ~Whole(t)}
    <3> SUFFICES ASSUME clean, program = "pst"
                 PROVE  Needed \subseteq DOMAIN markdown \cap DOMAIN emls /\ Cardinality(broken) <= afaults
      BY DEF CleanImportIsComplete
    <3>1. Needed \subseteq DOMAIN markdown \cap DOMAIN emls
      BY DEF DamageInv, ArchiveInv, Finished
    <3>2. broken \subseteq Damaged
      BY <3>1 DEF Damaged, Whole, Needed, Places
    <3> HIDE DEF broken
    <3>3. Cardinality(broken) \in Nat /\ Cardinality(broken) <= Cardinality(Damaged) /\ Cardinality(Damaged) \in Nat
      BY <3>2, FS_Subset, FS_CardinalityType DEF DamageInv, DamageIsPaid
    <3>4. QED
      BY <3>1, <3>3 DEF DamageInv, DamageIsPaid
  <2>3. QED
    BY <2>1, <2>2 DEF ArchiveIsExact
<1>4. QED
  BY <1>1, <1>2, <1>3, PTL

-----------------------------------------------------------------------------
(* Incubator. *)

Running == ipc \in {"next", "record"}
OthersKnown == \A i \in DOMAIN imports : Root(i).skipState = DOMAIN imports \ {i}

IncubatorTypes ==
    /\ imports \in Imports /\ ipc \in {"idle", "open", "next", "record"} /\ imp \in DOMAIN imports
    /\ IsFiniteSet(stored) /\ \A c \in stored : c.imp \in DOMAIN imports /\ c.uid \in Nat /\ c.uid < Cardinality(stored)
    /\ DOMAIN manifest = DOMAIN imports /\ IsFiniteSet(mem) /\ \A i \in DOMAIN imports : IsFiniteSet(manifest[i])
    /\ ifaults \in Nat

(* What the program goes by in memory.                                       *)
InMemory ==
    /\ ipc = "record" => ~icmd.dry
    /\ Running /\ ~icmd.force => (icmd.dry => mem = manifest[imp])
    /\ Running /\ icmd.force => mem \subseteq inRun
    /\ Running /\ OthersKnown => \A j \in DOMAIN imports \ {imp} : manifest[j] \subseteq other

(* Less than Every letters are in the manifest in memory alone.              *)
Unwritten == mem \ manifest[imp]
FewUnwritten == Running /\ ~icmd.dry => Cardinality(Unwritten) <= (Cardinality(mem) % Every)

(* A forced run that writes finds the mailboxes of the imports to come empty. *)
Emptied ==
    icmd.force /\ ~icmd.dry /\ ipc # "idle" =>
        \A c \in stored : c.imp < imp \/ (Running /\ c.imp = imp)

(* Letters that are in a mailbox and that no import would pass over.          *)
Listing(i) == IF Running /\ i = imp /\ ~icmd.dry THEN mem ELSE manifest[i]
Listed(k) == \E c \in stored : c.key = k /\ k \in Listing(c.imp)
Unlisted == {k \in StoredKeys : ~Listed(k)}
Pending == IF ipc = "record" THEN 1 ELSE 0
DuplicatesPaid ==
    ~forgot /\ OthersKnown =>
        Cardinality(stored) + Cardinality(Unlisted) <= Cardinality(StoredKeys) + Every * ifaults + Pending
JustSaved ==
    ipc = "record" => /\ Holds(imp, Key(Head(window)))
                      /\ ~forgot /\ OthersKnown => Key(Head(window)) \in Unlisted

ListsAreStored ==
    /\ ListedIsStored
    /\ Running /\ (icmd.force \/ imp \notin emptied) => \A k \in mem : Holds(imp, k)

IncubatorInv ==
    /\ IncubatorTypes /\ InMemory /\ FewUnwritten /\ Emptied
    /\ DuplicatesPaid /\ JustSaved /\ ListsAreStored

-----------------------------------------------------------------------------
LEMMA Quotient ==
    ASSUME NEW n \in Nat, NEW e \in Nat, e > 0
    PROVE  \E q \in Nat : n = q * e + (n % e)
BY SMTT(30)

LEMMA Remainder ==
    ASSUME NEW n \in Nat, NEW e \in Nat \ {0}
    PROVE  n % e \in Nat /\ n % e < e /\ ((n + 1) % e = 0 \/ (n + 1) % e = (n % e) + 1)
<1>1. n % e \in Nat /\ n % e < e
  OBVIOUS
<1>9. e \in Nat /\ e > 0
  OBVIOUS
<1>2. PICK q \in Nat : n = q * e + (n % e)
  BY <1>9, Quotient
<1>3. \A m, k, r \in Nat : r < e /\ m = k * e + r => m % e = r
  BY SMTT(30)
<1>8. \A k \in Nat : k * e \in Nat
  OBVIOUS
<1> DEFINE r == n % e
<1>4. r \in Nat /\ r < e /\ n = q * e + r /\ q * e \in Nat
  BY <1>8, <1>1, <1>2
<1> HIDE DEF r
<1>5. CASE r + 1 < e
  <2>1. n + 1 = q * e + (r + 1)
    BY <1>4
  <2>2. (n + 1) % e = r + 1
    BY <1>3, <1>4, <1>5, <2>1
  <2>3. QED
    BY <1>1, <2>2 DEF r
<1>6. CASE r + 1 = e
  <2>1. (q + 1) * e = q * e + e
    OBVIOUS
  <2>2. n + 1 = (q + 1) * e + 0
    BY <1>4, <1>6, <2>1
  <2>3. (n + 1) % e = 0
    <3>1. 0 \in Nat /\ 0 < e /\ q + 1 \in Nat /\ n + 1 \in Nat
      OBVIOUS
    <3>2. QED
      BY <1>3, <2>2, <3>1
  <2>4. QED
    BY <1>1, <2>3
<1>7. QED
  BY <1>4, <1>5, <1>6

LEMMA Payment ==
    /\ \A e \in Nat \ {0}, f \in Nat : e * f \in Nat /\ e * (f + 1) = e * f + e
    /\ \A a, b, c, d \in Nat : a <= b /\ b <= c => a <= c
OBVIOUS

LEMMA OrderOfImports ==
    ASSUME IncubatorTypes
    PROVE  /\ Len(imports) \in Nat \ {0} /\ DOMAIN imports = 1 .. Len(imports)
           /\ 1 \in DOMAIN imports /\ imp \in Nat
           /\ imp # Len(imports) => imp + 1 \in DOMAIN imports
<1>1. imports \in Seq(Range(imports)) /\ imports # <<>>
  BY IncubatorAssumption DEF IncubatorTypes
<1>2. QED
  BY <1>1 DEF IncubatorTypes

LEMMA KeysAreFinite ==
    ASSUME IsFiniteSet(stored)
    PROVE  IsFiniteSet(StoredKeys) /\ IsFiniteSet(Unlisted)
           /\ Cardinality(StoredKeys) \in Nat /\ Cardinality(Unlisted) \in Nat /\ Cardinality(stored) \in Nat
<1>1. [c \in stored |-> c.key] \in Surjection(stored, StoredKeys)
  BY DEF Surjection, StoredKeys
<1>2. IsFiniteSet(StoredKeys)
  BY <1>1, FS_Surjection
<1>3. IsFiniteSet(Unlisted)
  BY <1>2, FS_Subset DEF Unlisted
<1>4. QED
  BY <1>2, <1>3, FS_CardinalityType

(* A copy is added to the mailbox.                                           *)
LEMMA StoreAdds ==
    ASSUME IncubatorTypes, NEW l, Store(l)
    PROVE  /\ IsFiniteSet(stored') /\ Cardinality(stored') = Cardinality(stored) + 1
           /\ StoredKeys' = StoredKeys \cup {Key(l)}
           /\ \A c \in stored' : c.uid \in Nat /\ c.uid < Cardinality(stored')
           /\ \A c \in stored' : c \in stored \/ (c.imp = imp /\ c.key = Key(l))
           /\ \E c \in stored' : c.imp = imp /\ c.key = Key(l)
           /\ stored \subseteq stored'
<1> DEFINE new == [imp |-> imp, key |-> Key(l), box |-> MailboxOf(imp, l), uid |-> Cardinality(stored)]
<1>1. stored' = stored \cup {new} /\ new.uid = Cardinality(stored) /\ new.imp = imp /\ new.key = Key(l)
  BY DEF Store
<1>2. Cardinality(stored) \in Nat
  BY FS_CardinalityType DEF IncubatorTypes
<1>3. new \notin stored
  BY <1>1, <1>2 DEF IncubatorTypes
<1> HIDE DEF new
<1>4. IsFiniteSet(stored') /\ Cardinality(stored') = Cardinality(stored) + 1
  BY <1>1, <1>3, FS_AddElement DEF IncubatorTypes
<1>5. StoredKeys' = StoredKeys \cup {Key(l)}
  BY <1>1 DEF StoredKeys
<1>6. \A c \in stored' : c.uid \in Nat /\ c.uid < Cardinality(stored')
  <2>1. \A a, b \in Nat : a < b => a < b + 1
    OBVIOUS
  <2>2. Cardinality(stored) < Cardinality(stored) + 1
    BY <1>2
  <2>3. QED
    BY <1>1, <1>2, <1>4, <2>1, <2>2 DEF IncubatorTypes
<1>7. QED
  BY <1>1, <1>4, <1>5, <1>6

LEMMA IncubatorBegins == IncubatorInit => IncubatorInv
<1> SUFFICES ASSUME IncubatorInit PROVE IncubatorInv
  OBVIOUS
<1>1. StoredKeys = {} /\ Unlisted = {} /\ Cardinality({}) = 0 /\ IsFiniteSet({})
  BY FS_EmptySet DEF IncubatorInit, StoredKeys, Unlisted
<1>2. 1 \in DOMAIN imports
  <2>1. imports \in Seq(Range(imports)) /\ imports # <<>>
    BY IncubatorAssumption DEF IncubatorInit
  <2>2. QED
    BY <2>1
<1>3. IncubatorTypes
  BY <1>1, <1>2 DEF IncubatorInit, IncubatorTypes
<1>4. DuplicatesPaid
  BY <1>1, IncubatorAssumption, Payment DEF IncubatorInit, DuplicatesPaid, Pending
<1>5. QED
  BY <1>3, <1>4
  DEF IncubatorInit, IncubatorInv, InMemory, FewUnwritten, Emptied, JustSaved, ListsAreStored, ListedIsStored, Running

(* The lists and the mailboxes stay, and no letter is under way.              *)
LEMMA SameLists ==
    ASSUME IncubatorInv, IncubatorTypes', UNCHANGED <<imports, stored, ifaults>>, forgot => forgot',
           ipc # "record", ipc' # "record", \A i \in DOMAIN imports : \A c \in stored : c.imp = i => Listing(i)' = Listing(i)
    PROVE  DuplicatesPaid' /\ JustSaved'
<1>1. StoredKeys' = StoredKeys
  BY DEF StoredKeys
<1>2. \A k : Listed(k)' <=> Listed(k)
  BY DEF Listed, IncubatorInv, IncubatorTypes
<1>3. Unlisted' = Unlisted
  BY <1>1, <1>2 DEF Unlisted
<1>4. QED
  BY <1>1, <1>3 DEF IncubatorInv, DuplicatesPaid, JustSaved, Pending, OthersKnown, Root

LEMMA IncubatorRunKeeps ==
    ASSUME IncubatorInv, NEW o \in IncubatorCommands, IncubatorRun(o) PROVE IncubatorInv'
<1>1. /\ UNCHANGED <<imports, forgot, manifest, mem, ifaults>> /\ ipc = "idle" /\ ipc' = "open" /\ imp' = 1 /\ icmd' = o
  BY DEF IncubatorRun
<1>2. 1 \in DOMAIN imports /\ \A i \in DOMAIN imports : Listing(i)' = Listing(i)
  BY <1>1, OrderOfImports DEF IncubatorInv, Listing, Running
<1>3. CASE o.force /\ ~o.dry
  <2>1. stored' = {} /\ emptied' = DOMAIN imports
    BY <1>3 DEF IncubatorRun
  <2>2. StoredKeys' = {} /\ Unlisted' = {} /\ Cardinality({}) = 0 /\ IsFiniteSet({})
    BY <2>1, FS_EmptySet DEF StoredKeys, Unlisted
  <2>3. IncubatorTypes'
    BY <1>1, <1>2, <2>1, <2>2 DEF IncubatorInv, IncubatorTypes
  <2>4. DuplicatesPaid'
    BY <1>1, <2>1, <2>2, IncubatorAssumption, Payment DEF IncubatorInv, IncubatorTypes, DuplicatesPaid, Pending
  <2>5. QED
    BY <1>1, <2>1, <2>3, <2>4
    DEF IncubatorInv, InMemory, FewUnwritten, Emptied, JustSaved, ListsAreStored, ListedIsStored, Running
<1>4. CASE ~(o.force /\ ~o.dry)
  <2>1. UNCHANGED <<stored, emptied>>
    BY <1>4 DEF IncubatorRun
  <2>2. IncubatorTypes'
    BY <1>1, <1>2, <2>1 DEF IncubatorInv, IncubatorTypes
  <2>3. DuplicatesPaid' /\ JustSaved'
    BY <1>1, <1>2, <2>1, <2>2, SameLists
  <2>4. ListsAreStored'
    BY <1>1, <2>1 DEF IncubatorInv, ListsAreStored, ListedIsStored, Holds, Running
  <2>5. QED
    BY <1>1, <1>4, <2>2, <2>3, <2>4 DEF IncubatorInv, InMemory, FewUnwritten, Emptied, Running
<1>5. QED
  BY <1>3, <1>4

(* An import ends, the manifest written or not.                               *)
LEMMA NextImportTypes ==
    ASSUME IncubatorTypes, NEW m, IsFiniteSet(m), NextImport(m)
    PROVE  /\ imports' = imports /\ imp' \in DOMAIN imports /\ ipc' \in {"idle", "open"} /\ ~Running'
           /\ DOMAIN manifest' = DOMAIN imports /\ \A i \in DOMAIN imports : IsFiniteSet(manifest'[i])
           /\ \A i \in DOMAIN imports : manifest'[i] = IF i = imp THEN m ELSE manifest[i]
           /\ mem' = mem /\ icmd' = icmd /\ (ipc' = "open" => imp < imp')
<1>1. manifest' = [manifest EXCEPT ![imp] = m] /\ UNCHANGED <<imports, icmd, mem>>
  BY DEF NextImport
<1>2. imp' \in DOMAIN imports /\ ipc' \in {"idle", "open"} /\ (ipc' = "open" => imp < imp')
  BY OrderOfImports DEF NextImport, IncubatorTypes
<1>3. QED
  BY <1>1, <1>2 DEF IncubatorTypes, Running

LEMMA OpenImportKeeps == ASSUME IncubatorInv, OpenImport PROVE IncubatorInv'
<1>1. UNCHANGED <<imports, icmd, stored, emptied, forgot, ifaults>> /\ ipc = "open" /\ ~Running
  BY DEF OpenImport, NextImport, Running
<1>2. CASE NextImport(manifest[imp])
  <2>1. IsFiniteSet(manifest[imp])
    BY DEF IncubatorInv, IncubatorTypes
  <2>2. /\ imp' \in DOMAIN imports /\ ipc' \in {"idle", "open"} /\ ~Running' /\ (ipc' = "open" => imp < imp')
        /\ DOMAIN manifest' = DOMAIN imports /\ (\A i \in DOMAIN imports : manifest'[i] = manifest[i]) /\ mem' = mem
    BY <1>2, <2>1, NextImportTypes DEF IncubatorInv
  <2>3. IncubatorTypes'
    BY <1>1, <2>2 DEF IncubatorInv, IncubatorTypes
  <2>4. DuplicatesPaid' /\ JustSaved'
    BY <1>1, <2>2, <2>3, SameLists DEF Listing
  <2>5. Emptied'
    <3>1. imp \in Nat /\ imp' \in Nat /\ \A c \in stored : c.imp \in Nat
      BY <2>2, OrderOfImports DEF IncubatorInv, IncubatorTypes
    <3>2. QED
      BY <1>1, <2>2, <3>1 DEF IncubatorInv, Emptied
  <2>6. ListsAreStored'
    BY <1>1, <2>2 DEF IncubatorInv, ListsAreStored, ListedIsStored, Holds
  <2>7. QED
    BY <2>2, <2>3, <2>4, <2>5, <2>6 DEF IncubatorInv, InMemory, FewUnwritten, Running
<1>3. CASE /\ ipc' = "next" /\ mem' = IF icmd.force THEN {} ELSE manifest[imp]
           /\ other' = UNION {manifest[j] : j \in Root(imp).skipState}
           /\ inRun' = {} /\ UNCHANGED <<imp, manifest>>
  <2>1. IncubatorTypes'
    BY <1>1, <1>3, FS_EmptySet DEF IncubatorInv, IncubatorTypes
  <2>2. InMemory'
    <3>1. OthersKnown' => \A j \in DOMAIN imports \ {imp} : manifest[j] \subseteq other'
      BY <1>1, <1>3 DEF OthersKnown, Root, IncubatorInv, IncubatorTypes
    <3>2. QED
      BY <1>1, <1>3, <3>1 DEF InMemory, Running
  <2>3. FewUnwritten'
    <3>1. mem' \ manifest[imp] = {}
      BY <1>3
    <3>2. Cardinality(mem') \in Nat
      BY <2>1, FS_CardinalityType DEF IncubatorTypes
    <3>3. Cardinality(mem') % Every \in Nat /\ Cardinality({}) = 0
      BY <3>2, Remainder, IncubatorAssumption, FS_EmptySet
    <3>4. QED
      BY <1>3, <3>1, <3>3 DEF FewUnwritten, Unwritten
  <2>4. DuplicatesPaid' /\ JustSaved'
    <3>1. ASSUME NEW i \in DOMAIN imports, NEW c \in stored, c.imp = i PROVE Listing(i)' = Listing(i)
      <4>1. CASE i = imp /\ icmd.force /\ ~icmd.dry
        <5>1. c.imp \in Nat /\ imp \in Nat /\ c.imp < imp
          BY <1>1, <3>1, <4>1, OrderOfImports DEF IncubatorInv, IncubatorTypes, Emptied
        <5>2. QED
          BY <3>1, <4>1, <5>1
      <4>2. CASE ~(i = imp /\ icmd.force /\ ~icmd.dry)
        BY <1>1, <1>3, <4>2 DEF Listing
      <4>3. QED
        BY <4>1, <4>2
    <3>2. QED
      BY <1>1, <1>3, <2>1, <3>1, SameLists
  <2>5. Emptied' /\ ListsAreStored'
    BY <1>1, <1>3 DEF IncubatorInv, IncubatorTypes, Emptied, ListsAreStored, ListedIsStored, Holds, Running
  <2>6. QED
    BY <2>1, <2>2, <2>3, <2>4, <2>5 DEF IncubatorInv
<1>4. QED
  BY <1>2, <1>3 DEF OpenImport

(* The letter is passed over, or the server refuses it.                       *)
LEMMA PassKeeps == ASSUME IncubatorInv, PassOver \/ Rejected PROVE IncubatorInv'
<1>1. /\ UNCHANGED <<imports, icmd, ipc, imp, stored, manifest, mem, other, emptied, forgot, ifaults>>
      /\ ipc = "next" /\ inRun \subseteq inRun'
  BY DEF PassOver, Rejected, Look, ToSave
<1>2. IncubatorTypes'
  BY <1>1 DEF IncubatorInv, IncubatorTypes
<1>3. DuplicatesPaid' /\ JustSaved'
  BY <1>1, <1>2, SameLists DEF Listing, Running
<1>4. InMemory'
  BY <1>1 DEF IncubatorInv, InMemory, Running, OthersKnown, Root
<1>5. FewUnwritten' /\ Emptied' /\ ListsAreStored'
  BY <1>1 DEF IncubatorInv, FewUnwritten, Unwritten, Emptied, ListsAreStored, ListedIsStored, Holds, Running
<1>6. QED
  BY <1>2, <1>3, <1>4, <1>5 DEF IncubatorInv

(* A letter that is saved is in no list, so a copy of it that is there was    *)
(* counted as unlisted.                                                       *)
LEMMA SavePays ==
    ASSUME IncubatorInv, ToSave, Store(Head(window)), UNCHANGED imports,
           \A i \in DOMAIN imports : Listing(i)' = Listing(i),
           ~forgot, OthersKnown
    PROVE  /\ Cardinality(stored') + Cardinality(Unlisted') <= Cardinality(StoredKeys') + Every * ifaults + 1
           /\ Key(Head(window)) \in Unlisted'
<1>15. PICK k : k = Key(Head(window))
  OBVIOUS
<1>1. /\ IsFiniteSet(stored') /\ Cardinality(stored') = Cardinality(stored) + 1 /\ StoredKeys' = StoredKeys \cup {k}
      /\ stored \subseteq stored' /\ \A c \in stored' : c \in stored \/ (c.imp = imp /\ c.key = k)
  BY <1>15, StoreAdds DEF IncubatorInv
<1>2. ipc = "next" /\ ~icmd.dry /\ ~PassedOver(Head(window))
  BY DEF ToSave, Look
<1>3. \A j \in DOMAIN imports : k \notin Listing(j)
  <2>1. k \notin mem
    BY <1>2, <1>15 DEF IncubatorInv, InMemory, PassedOver, Running
  <2>2. \A j \in DOMAIN imports \ {imp} : k \notin manifest[j]
    BY <1>2, <1>15 DEF IncubatorInv, InMemory, PassedOver, Running
  <2>3. QED
    BY <1>2, <2>1, <2>2 DEF Listing, Running
<1>4. \A c \in stored : c.imp \in DOMAIN imports
  BY DEF IncubatorInv, IncubatorTypes
<1>5. imp \in DOMAIN imports
  BY DEF IncubatorInv, IncubatorTypes
<1>6. Unlisted' = Unlisted \cup {k}
  <2>1. ~Listed(k)
    BY <1>3, <1>4 DEF Listed
  <2>2. ~Listed(k)'
    BY <1>1, <1>3, <1>4, <1>5 DEF Listed
  <2>3. \A o : o # k => (Listed(o)' <=> Listed(o))
    BY <1>1, <1>4, <1>5 DEF Listed
  <2>4. QED
    BY <1>1, <2>1, <2>2, <2>3 DEF Unlisted
<1>7. k \in StoredKeys => k \in Unlisted
  BY <1>3, <1>4 DEF Unlisted, Listed
<1>8. IsFiniteSet(StoredKeys) /\ IsFiniteSet(Unlisted) /\ Cardinality(StoredKeys) \in Nat
      /\ Cardinality(Unlisted) \in Nat /\ Cardinality(stored) \in Nat /\ Unlisted \subseteq StoredKeys
  BY KeysAreFinite DEF IncubatorInv, IncubatorTypes, Unlisted
<1>9. Cardinality(stored) + Cardinality(Unlisted) <= Cardinality(StoredKeys) + Every * ifaults
  BY <1>2, <1>8, IncubatorAssumption, Payment DEF IncubatorInv, IncubatorTypes, DuplicatesPaid, Pending
<1>10. Every * ifaults \in Nat
  BY IncubatorAssumption, Payment DEF IncubatorInv, IncubatorTypes
<1>11. \A a, b, d, e \in Nat : a + b <= d + e => (a + 1) + b <= d + e + 1 /\ (a + 1) + (b + 1) <= (d + 1) + e + 1
  OBVIOUS
<1>16. k \in Unlisted'
  BY <1>6
<1>12. CASE k \in StoredKeys
  <2>1. Unlisted' = Unlisted /\ StoredKeys' = StoredKeys
    BY <1>1, <1>6, <1>7, <1>12
  <2>2. QED
    BY <1>1, <1>8, <1>9, <1>10, <1>11, <1>15, <1>16, <2>1
<1>13. CASE k \notin StoredKeys
  <2>1. Cardinality(Unlisted') = Cardinality(Unlisted) + 1 /\ Cardinality(StoredKeys') = Cardinality(StoredKeys) + 1
    BY <1>1, <1>6, <1>8, <1>13, FS_AddElement
  <2>2. QED
    BY <1>1, <1>8, <1>9, <1>10, <1>11, <1>15, <1>16, <2>1
<1>14. QED
  BY <1>12, <1>13

LEMMA DoveadmSaveKeeps == ASSUME IncubatorInv, DoveadmSave PROVE IncubatorInv'
<1>1. /\ UNCHANGED <<imports, icmd, imp, manifest, mem, other, window, inRun, emptied, forgot, ifaults>>
      /\ ToSave /\ Store(Head(window)) /\ ipc = "next" /\ ipc' = "record" /\ ~icmd.dry
  BY DEF DoveadmSave, ToSave, Look
<1>2. /\ IsFiniteSet(stored') /\ stored \subseteq stored' /\ (\A c \in stored' : c.uid \in Nat /\ c.uid < Cardinality(stored'))
      /\ (\A c \in stored' : c \in stored \/ (c.imp = imp /\ c.key = Key(Head(window))))
      /\ \E c \in stored' : c.imp = imp /\ c.key = Key(Head(window))
  BY <1>1, StoreAdds DEF IncubatorInv
<1>3. IncubatorTypes'
  BY <1>1, <1>2 DEF IncubatorInv, IncubatorTypes
<1>4. \A i \in DOMAIN imports : Listing(i)' = Listing(i)
  BY <1>1 DEF Listing, Running
<1>5. DuplicatesPaid'
  BY <1>1, <1>4, SavePays DEF DuplicatesPaid, Pending, OthersKnown, Root
<1>6. JustSaved'
  <2>1. ~forgot' /\ OthersKnown' => Key(Head(window)) \in Unlisted'
    BY <1>1, <1>4, SavePays DEF OthersKnown, Root
  <2>2. Holds(imp, Key(Head(window)))'
    BY <1>1, <1>2 DEF Holds
  <2>3. QED
    BY <1>1, <2>1, <2>2 DEF JustSaved
<1>7. ListsAreStored'
  BY <1>1, <1>2 DEF IncubatorInv, ListsAreStored, ListedIsStored, Holds, Running
<1>8. InMemory' /\ FewUnwritten' /\ Emptied'
  BY <1>1, <1>2 DEF IncubatorInv, InMemory, FewUnwritten, Unwritten, Emptied, Running, OthersKnown, Root
<1>9. QED
  BY <1>3, <1>5, <1>6, <1>7, <1>8 DEF IncubatorInv

LEMMA RecordKeeps == ASSUME IncubatorInv, Record PROVE IncubatorInv'
<1>11. PICK k : k = Key(Head(window))
  OBVIOUS
<1>1. /\ UNCHANGED <<imports, icmd, imp, stored, other, ifaults, forgot>> /\ ipc = "record" /\ ipc' = "next"
      /\ mem' = mem \cup {k} /\ inRun' = inRun \cup {k} /\ ~icmd.dry
      /\ manifest' = IF Cardinality(mem') % Every = 0 THEN [manifest EXCEPT ![imp] = mem'] ELSE manifest
      /\ emptied \ {imp} \subseteq emptied'
      /\ emptied' = emptied \/ (icmd.force /\ Cardinality(mem') % Every = 0)
  BY <1>11 DEF Record, ManifestWritten, IncubatorInv, InMemory
<1>2. /\ IsFiniteSet(mem') /\ DOMAIN manifest' = DOMAIN imports /\ imp \in DOMAIN imports
      /\ \A i \in DOMAIN imports : i # imp => manifest'[i] = manifest[i]
      /\ manifest'[imp] = IF Cardinality(mem') % Every = 0 THEN mem' ELSE manifest[imp]
  BY <1>1, FS_AddElement DEF IncubatorInv, IncubatorTypes
<1>3. \A i \in DOMAIN imports : IsFiniteSet(manifest[i])
  BY DEF IncubatorInv, IncubatorTypes
<1>4. IncubatorTypes'
  <2>1. \A i \in DOMAIN imports : IsFiniteSet(manifest'[i])
    BY <1>2, <1>3
  <2>2. QED
    BY <1>1, <1>2, <2>1 DEF IncubatorInv, IncubatorTypes
<1>5. InMemory'
  BY <1>1, <1>2 DEF IncubatorInv, InMemory, Running, OthersKnown, Root
<1>6. FewUnwritten'
  <2>1. CASE Cardinality(mem') % Every = 0
    <3>1. Unwritten' = {} /\ Cardinality({}) = 0
      BY <1>1, <1>2, <2>1, FS_EmptySet DEF Unwritten
    <3>2. QED
      BY <2>1, <3>1 DEF FewUnwritten
  <2>2. CASE Cardinality(mem') % Every # 0
    <3>1. Unwritten' = mem' \ manifest[imp] /\ IsFiniteSet(Unwritten)
      BY <1>1, <1>2, <2>2, FS_Subset DEF Unwritten, IncubatorInv, IncubatorTypes
    <3>2. Cardinality(Unwritten) \in Nat /\ Cardinality(mem) \in Nat /\ Cardinality(Unwritten) <= (Cardinality(mem) % Every)
      BY <1>1, <3>1, FS_CardinalityType DEF IncubatorInv, IncubatorTypes, FewUnwritten, Running
    <3>3. CASE k \in mem
      BY <1>1, <3>1, <3>2, <3>3 DEF FewUnwritten, Unwritten
    <3>4. CASE k \notin mem
      <4>1. Cardinality(mem') = Cardinality(mem) + 1
        BY <1>1, <3>4, FS_AddElement DEF IncubatorInv, IncubatorTypes
      <4>2. Cardinality(mem') % Every = (Cardinality(mem) % Every) + 1
        BY <2>2, <3>2, <4>1, Remainder, IncubatorAssumption
      <4>3. IsFiniteSet(Unwritten \cup {k}) /\ Cardinality(Unwritten \cup {k}) <= Cardinality(Unwritten) + 1
        <5>1. Cardinality(Unwritten) <= Cardinality(Unwritten) + 1
          BY <3>2
        <5>2. Cardinality(Unwritten) + 1 <= Cardinality(Unwritten) + 1
          BY <3>2
        <5>3. QED
          BY <3>1, <5>1, <5>2, FS_AddElement
      <4>4. Unwritten' \subseteq Unwritten \cup {k}
        BY <1>1, <3>1 DEF Unwritten
      <4>5. Cardinality(Unwritten') \in Nat /\ Cardinality(Unwritten') <= Cardinality(Unwritten \cup {k})
        BY <4>3, <4>4, FS_Subset, FS_CardinalityType
      <4>6. Cardinality(mem) % Every \in Nat
        BY <3>2, Remainder, IncubatorAssumption
      <4>7. Cardinality(Unwritten \cup {k}) \in Nat
        BY <4>3, FS_CardinalityType
      <4>8. \A a, b, c, d \in Nat : a <= b /\ b <= c + 1 /\ c <= d => a <= d + 1
        OBVIOUS
      <4>9. QED
        BY <3>2, <4>2, <4>3, <4>5, <4>6, <4>7, <4>8 DEF FewUnwritten
    <3>5. QED
      BY <3>3, <3>4
  <2>3. QED
    BY <2>1, <2>2
<1>7. DuplicatesPaid' /\ JustSaved'
  <2> SUFFICES ASSUME ~forgot, OthersKnown PROVE DuplicatesPaid'
    BY <1>1 DEF DuplicatesPaid, JustSaved, OthersKnown, Root
  <2>1. k \in Unlisted /\ Holds(imp, k)
    BY <1>1, <1>11 DEF IncubatorInv, JustSaved
  <2>2. \A i \in DOMAIN imports : Listing(i)' = IF i = imp THEN Listing(i) \cup {k} ELSE Listing(i)
    BY <1>1, <1>2 DEF Listing, Running
  <2>3. StoredKeys' = StoredKeys /\ imp \in DOMAIN imports /\ \A c \in stored : c.imp \in DOMAIN imports
    BY <1>1 DEF StoredKeys, IncubatorInv, IncubatorTypes
  <2>4. Listed(k)'
    BY <1>1, <2>1, <2>2 DEF Listed, Holds, IncubatorInv, IncubatorTypes
  <2>5. \A o : o # k => (Listed(o)' <=> Listed(o))
    BY <1>1, <2>2, <2>3 DEF Listed
  <2>6. Unlisted' = Unlisted \ {k}
    BY <2>3, <2>4, <2>5 DEF Unlisted
  <2>7. IsFiniteSet(Unlisted) /\ Cardinality(StoredKeys) \in Nat /\ Cardinality(Unlisted) \in Nat /\ Cardinality(stored) \in Nat
    BY KeysAreFinite DEF IncubatorInv, IncubatorTypes
  <2>8. Cardinality(Unlisted') = Cardinality(Unlisted) - 1
    BY <2>1, <2>6, <2>7, FS_RemoveElement
  <2>9. Cardinality(stored) + Cardinality(Unlisted) <= Cardinality(StoredKeys) + Every * ifaults + 1
    BY <1>1 DEF IncubatorInv, DuplicatesPaid, Pending
  <2>10. Every * ifaults \in Nat
    BY IncubatorAssumption, Payment DEF IncubatorInv, IncubatorTypes
  <2>11. \A a, b, d, e \in Nat : a + b <= d + e + 1 => a + (b - 1) <= d + e + 0
    OBVIOUS
  <2>12. QED
    BY <1>1, <2>3, <2>7, <2>8, <2>9, <2>10, <2>11 DEF DuplicatesPaid, Pending
<1>8. Emptied'
  BY <1>1 DEF IncubatorInv, Emptied, Running
<1>9. ListsAreStored'
  <2>1. Holds(imp, k) /\ \A i, o : Holds(i, o)' <=> Holds(i, o)
    BY <1>1, <1>11 DEF IncubatorInv, JustSaved, Holds
  <2>2. icmd.force \/ imp \notin emptied => \A o \in mem' : Holds(imp, o)
    BY <1>1, <2>1 DEF IncubatorInv, ListsAreStored, Running
  <2>3. icmd.force \/ imp \notin emptied' => \A o \in mem' : Holds(imp, o)
    BY <1>1, <2>2
  <2>4. ASSUME NEW i \in DOMAIN imports \ emptied' PROVE \A o \in manifest'[i] : Holds(i, o)
    <3>1. CASE i # imp
      BY <1>1, <1>2, <2>4, <3>1 DEF IncubatorInv, ListsAreStored, ListedIsStored
    <3>2. CASE i = imp /\ Cardinality(mem') % Every = 0
      BY <1>2, <2>3, <2>4, <3>2
    <3>3. CASE i = imp /\ Cardinality(mem') % Every # 0
      BY <1>1, <1>2, <2>4, <3>3 DEF IncubatorInv, ListsAreStored, ListedIsStored
    <3>4. QED
      BY <3>1, <3>2, <3>3
  <2>5. QED
    BY <1>1, <2>1, <2>3, <2>4 DEF ListsAreStored, ListedIsStored
<1>10. QED
  BY <1>4, <1>5, <1>6, <1>7, <1>8, <1>9 DEF IncubatorInv

(* A program that dies leaves less than Every letters in no list, and the one *)
(* just saved.                                                                *)
LEMMA FaultPays ==
    ASSUME IncubatorInv, UNCHANGED <<imports, stored, forgot>>, ~Running', ifaults' = ifaults + 1,
           \A i \in DOMAIN imports : manifest'[i] = manifest[i]
    PROVE  DuplicatesPaid'
<1> SUFFICES ASSUME ~forgot, OthersKnown PROVE DuplicatesPaid'
  BY DEF DuplicatesPaid, OthersKnown, Root
<1> DEFINE gone == IF Running /\ ~icmd.dry THEN Unwritten ELSE {}
<1>1. IsFiniteSet(gone) /\ Cardinality(gone) \in Nat /\ Cardinality(gone) + Pending <= Every
  <2>1. CASE Running /\ ~icmd.dry
    <3>1. IsFiniteSet(Unwritten) /\ Cardinality(mem) \in Nat
      BY FS_Subset, FS_CardinalityType DEF Unwritten, IncubatorInv, IncubatorTypes
    <3>2. Cardinality(Unwritten) \in Nat /\ Cardinality(Unwritten) <= (Cardinality(mem) % Every)
      BY <2>1, <3>1, FS_CardinalityType DEF IncubatorInv, FewUnwritten
    <3>3. Cardinality(mem) % Every \in Nat /\ Cardinality(mem) % Every < Every /\ Every \in Nat
      BY <3>1, Remainder, IncubatorAssumption
    <3>4. QED
      BY <2>1, <3>1, <3>2, <3>3 DEF Pending
  <2>2. CASE ~(Running /\ ~icmd.dry)
    BY <2>2, FS_EmptySet, IncubatorAssumption DEF Pending, Running, IncubatorInv, InMemory
  <2>3. QED
    BY <2>1, <2>2
<1>2. Unlisted' \subseteq Unlisted \cup gone
  <2> SUFFICES ASSUME NEW k \in Unlisted', k \notin Unlisted PROVE k \in gone
    OBVIOUS
  <2>1. k \in StoredKeys /\ Listed(k) /\ ~Listed(k)'
    BY DEF Unlisted, StoredKeys
  <2>2. PICK c \in stored : c.key = k /\ k \in Listing(c.imp)
    BY <2>1 DEF Listed
  <2>3. k \notin manifest[c.imp]
    BY <2>1, <2>2 DEF Listed, Listing, IncubatorInv, IncubatorTypes
  <2>4. QED
    BY <2>2, <2>3 DEF Listing, Unwritten
<1> HIDE DEF gone
<1>3. IsFiniteSet(Unlisted) /\ Cardinality(StoredKeys) \in Nat /\ Cardinality(Unlisted) \in Nat /\ Cardinality(stored) \in Nat
  BY KeysAreFinite DEF IncubatorInv, IncubatorTypes
<1>4. Cardinality(Unlisted') \in Nat /\ Cardinality(Unlisted') <= Cardinality(Unlisted) + Cardinality(gone)
  <2>1. /\ IsFiniteSet(Unlisted \cup gone)
        /\ Cardinality(Unlisted \cup gone) = Cardinality(Unlisted) + Cardinality(gone) - Cardinality(Unlisted \cap gone)
        /\ Cardinality(Unlisted \cap gone) \in Nat
    BY <1>1, <1>3, FS_Union, FS_Intersection, FS_CardinalityType
  <2>2. Cardinality(Unlisted') \in Nat /\ Cardinality(Unlisted') <= Cardinality(Unlisted \cup gone)
    BY <1>2, <2>1, FS_Subset, FS_CardinalityType
  <2>3. \A a, b, c, d \in Nat : d <= a + b - c => d <= a + b
    OBVIOUS
  <2>4. QED
    BY <1>1, <1>3, <2>1, <2>2, <2>3
<1>5. Cardinality(stored) + Cardinality(Unlisted) <= Cardinality(StoredKeys) + Every * ifaults + Pending
  BY DEF IncubatorInv, DuplicatesPaid
<1>6. Every * ifaults \in Nat /\ Every * (ifaults + 1) = Every * ifaults + Every /\ Every \in Nat /\ Pending \in Nat
  BY IncubatorAssumption, Payment DEF IncubatorInv, IncubatorTypes, Pending
<1>7. \A a, u, v, g, s, e, f, p \in Nat : a + u <= s + f + p /\ v <= u + g /\ g + p <= e => a + v <= s + (f + e) + 0
  OBVIOUS
<1>8. StoredKeys' = StoredKeys /\ Pending' = 0 /\ Cardinality(stored') = Cardinality(stored)
  BY DEF StoredKeys, Pending, Running
<1>9. Cardinality(stored) + Cardinality(Unlisted') <= Cardinality(StoredKeys) + (Every * ifaults + Every) + 0
  BY <1>1, <1>3, <1>4, <1>5, <1>6, <1>7
<1>10. QED
  BY <1>6, <1>8, <1>9 DEF DuplicatesPaid

LEMMA DiesKeeps == ASSUME IncubatorInv, FileFails \/ Killed PROVE IncubatorInv'
<1>1. /\ UNCHANGED <<imports, icmd, stored, mem, emptied, forgot>> /\ ifaults' = ifaults + 1 /\ ipc # "idle"
      /\ imp' \in DOMAIN imports /\ ipc' \in {"idle", "open"} /\ (ipc' = "open" => imp < imp')
      /\ DOMAIN manifest' = DOMAIN imports /\ \A i \in DOMAIN imports : manifest'[i] = manifest[i]
  <2>1. CASE FileFails
    <3>1. NextImport(manifest[imp]) /\ IsFiniteSet(manifest[imp]) /\ UNCHANGED <<stored, emptied, forgot>>
          /\ ifaults' = ifaults + 1 /\ ipc # "idle"
      BY <2>1 DEF FileFails, IncubatorFault, IncubatorInv, IncubatorTypes
    <3>2. QED
      BY <3>1, NextImportTypes DEF IncubatorInv
  <2>2. CASE Killed
    BY <2>2 DEF Killed, IncubatorFault, IncubatorInv, IncubatorTypes
  <2>3. QED
    BY <2>1, <2>2
<1>3. IncubatorTypes'
  BY <1>1 DEF IncubatorInv, IncubatorTypes
<1>4. DuplicatesPaid'
  BY <1>1, FaultPays DEF Running
<1>5. Emptied'
  <2>1. imp \in Nat /\ imp' \in Nat /\ \A c \in stored : c.imp \in Nat
    BY <1>1, OrderOfImports DEF IncubatorInv, IncubatorTypes
  <2>2. QED
    BY <1>1, <2>1 DEF IncubatorInv, Emptied
<1>6. ListsAreStored'
  BY <1>1 DEF IncubatorInv, ListsAreStored, ListedIsStored, Holds, Running
<1>7. QED
  BY <1>1, <1>3, <1>4, <1>5, <1>6 DEF IncubatorInv, InMemory, FewUnwritten, JustSaved, Running

(* The lists of an import that ends after its manifest was written.          *)
LEMMA WrittenLists ==
    ASSUME IncubatorInv, ipc = "next", ~icmd.dry, NextImport(mem), ManifestWritten({imp}), stored \subseteq stored'
    PROVE  ListsAreStored' /\ \A i \in DOMAIN imports : Listing(i)' = Listing(i)
<1>1. /\ imports' = imports /\ imp' \in DOMAIN imports /\ ipc' \in {"idle", "open"} /\ ~Running' /\ icmd' = icmd
      /\ \A i \in DOMAIN imports : manifest'[i] = IF i = imp THEN mem ELSE manifest[i]
  BY NextImportTypes DEF IncubatorInv, IncubatorTypes
<1>2. emptied' = IF icmd.force THEN emptied \ {imp} ELSE emptied
  BY DEF ManifestWritten
<1>3. \A i, k : Holds(i, k) => Holds(i, k)'
  BY DEF Holds
<1>4. icmd.force \/ imp \notin emptied => \A k \in mem : Holds(imp, k)
  BY DEF IncubatorInv, ListsAreStored, Running
<1>5. ListedIsStored'
  <2> SUFFICES ASSUME NEW i \in DOMAIN imports \ emptied', NEW k \in manifest'[i] PROVE Holds(i, k)
    BY <1>1, <1>3 DEF ListedIsStored
  <2>1. CASE i = imp
    BY <1>1, <1>2, <1>4, <2>1
  <2>2. CASE i # imp
    BY <1>1, <1>2, <2>2 DEF IncubatorInv, ListsAreStored, ListedIsStored
  <2>3. QED
    BY <2>1, <2>2
<1>6. QED
  BY <1>1, <1>5 DEF ListsAreStored, Listing, Running

LEMMA TransportFailsKeeps == ASSUME IncubatorInv, TransportFails PROVE IncubatorInv'
<1>1. /\ ToSave /\ ipc = "next" /\ ~icmd.dry /\ (Store(Head(window)) \/ UNCHANGED stored) /\ NextImport(mem)
      /\ ManifestWritten({imp}) /\ forgot' = forgot /\ ifaults' = ifaults + 1
  BY DEF TransportFails, ToSave, Look, IncubatorFault, ManifestWritten
<1>2. /\ imports' = imports /\ imp' \in DOMAIN imports /\ ipc' \in {"idle", "open"} /\ ~Running' /\ (ipc' = "open" => imp < imp')
      /\ DOMAIN manifest' = DOMAIN imports /\ (\A i \in DOMAIN imports : IsFiniteSet(manifest'[i]))
      /\ mem' = mem /\ icmd' = icmd
  BY <1>1, NextImportTypes DEF IncubatorInv, IncubatorTypes
<1>3. /\ IsFiniteSet(stored') /\ stored \subseteq stored' /\ (\A c \in stored' : c.uid \in Nat /\ c.uid < Cardinality(stored'))
      /\ \A c \in stored' : c \in stored \/ c.imp = imp
  BY <1>1, StoreAdds DEF IncubatorInv, IncubatorTypes
<1>4. IncubatorTypes'
  BY <1>1, <1>2, <1>3 DEF IncubatorInv, IncubatorTypes
<1>5. ListsAreStored' /\ \A i \in DOMAIN imports : Listing(i)' = Listing(i)
  BY <1>1, <1>3, WrittenLists
<1>6. DuplicatesPaid'
  <2> SUFFICES ASSUME ~forgot, OthersKnown PROVE DuplicatesPaid'
    BY <1>1, <1>2 DEF DuplicatesPaid, OthersKnown, Root
  <2>1. Cardinality(stored') + Cardinality(Unlisted') <= Cardinality(StoredKeys') + Every * ifaults + 1
    <3>1. CASE Store(Head(window))
      BY <1>1, <1>2, <1>5, <3>1, SavePays
    <3>2. CASE UNCHANGED stored
      <4>1. StoredKeys' = StoredKeys
        BY <3>2 DEF StoredKeys
      <4>2. \A k : Listed(k)' <=> Listed(k)
        BY <1>5, <3>2 DEF Listed, IncubatorInv, IncubatorTypes
      <4>3. Unlisted' = Unlisted
        BY <4>1, <4>2 DEF Unlisted
      <4>4. Cardinality(StoredKeys) \in Nat /\ Cardinality(Unlisted) \in Nat /\ Cardinality(stored) \in Nat
        BY KeysAreFinite DEF IncubatorInv, IncubatorTypes
      <4>5. Every * ifaults \in Nat
        BY IncubatorAssumption, Payment DEF IncubatorInv, IncubatorTypes
      <4>6. Cardinality(stored) + Cardinality(Unlisted) <= Cardinality(StoredKeys) + Every * ifaults + 0
        BY <1>1 DEF IncubatorInv, DuplicatesPaid, Pending
      <4>7. \A a, b, c, d \in Nat : a + b <= c + d + 0 => a + b <= c + d + 1
        OBVIOUS
      <4>8. QED
        BY <3>2, <4>1, <4>3, <4>4, <4>5, <4>6, <4>7
    <3>3. QED
      BY <1>1, <3>1, <3>2
  <2>2. Cardinality(StoredKeys') \in Nat /\ Cardinality(Unlisted') \in Nat /\ Cardinality(stored') \in Nat
    <3>1. IsFiniteSet(stored)' => (/\ Cardinality(StoredKeys) \in Nat /\ Cardinality(Unlisted) \in Nat /\ Cardinality(stored) \in Nat)'
      BY KeysAreFinite, PTL
    <3>2. QED
      BY <1>3, <3>1
  <2>3. Every * ifaults \in Nat /\ Every * (ifaults + 1) = Every * ifaults + Every /\ Every \in Nat \ {0}
    BY IncubatorAssumption, Payment DEF IncubatorInv, IncubatorTypes
  <2>4. \A a, b, c, d \in Nat, e \in Nat \ {0} : a + b <= c + d + 1 => a + b <= c + (d + e) + 0
    OBVIOUS
  <2>5. Cardinality(stored') + Cardinality(Unlisted') <= Cardinality(StoredKeys') + (Every * ifaults + Every) + 0
    BY <2>1, <2>2, <2>3, <2>4
  <2>6. Pending' = 0
    BY <1>2 DEF Pending
  <2>7. QED
    BY <1>1, <2>3, <2>5, <2>6 DEF DuplicatesPaid
<1>7. Emptied'
  <2>1. imp \in Nat /\ imp' \in Nat /\ \A c \in stored : c.imp \in Nat
    BY <1>2, OrderOfImports DEF IncubatorInv, IncubatorTypes
  <2>2. QED
    BY <1>1, <1>2, <1>3, <2>1 DEF IncubatorInv, Emptied
<1>8. QED
  BY <1>2, <1>4, <1>5, <1>6, <1>7 DEF IncubatorInv, InMemory, FewUnwritten, JustSaved, Running

LEMMA EndImportKeeps == ASSUME IncubatorInv, EndImport PROVE IncubatorInv'
<1> DEFINE m == IF icmd.dry THEN manifest[imp] ELSE mem
<1>1. NextImport(m) /\ UNCHANGED <<stored, ifaults, forgot>> /\ ipc = "next" /\ IsFiniteSet(m)
  BY DEF EndImport, ManifestWritten, IncubatorInv, IncubatorTypes
<1>2. /\ imports' = imports /\ imp' \in DOMAIN imports /\ ipc' \in {"idle", "open"} /\ ~Running' /\ (ipc' = "open" => imp < imp')
      /\ DOMAIN manifest' = DOMAIN imports /\ (\A i \in DOMAIN imports : IsFiniteSet(manifest'[i]))
      /\ (\A i \in DOMAIN imports : manifest'[i] = IF i = imp THEN m ELSE manifest[i])
      /\ mem' = mem /\ icmd' = icmd
  BY <1>1, NextImportTypes DEF IncubatorInv, IncubatorTypes
<1>3. IncubatorTypes'
  BY <1>1, <1>2 DEF IncubatorInv, IncubatorTypes
<1>4. ListsAreStored' /\ \A i \in DOMAIN imports : Listing(i)' = Listing(i)
  <2>1. CASE icmd.dry
    <3>1. emptied' = emptied /\ \A i \in DOMAIN imports : manifest'[i] = manifest[i]
      BY <1>2, <2>1 DEF EndImport
    <3>2. QED
      BY <1>1, <1>2, <2>1, <3>1 DEF IncubatorInv, ListsAreStored, ListedIsStored, Holds, Listing
  <2>2. CASE ~icmd.dry
    BY <1>1, <2>2, WrittenLists DEF EndImport
  <2>3. QED
    BY <2>1, <2>2
<1>5. DuplicatesPaid' /\ JustSaved'
  BY <1>1, <1>2, <1>3, <1>4, SameLists
<1>6. Emptied'
  <2>1. imp \in Nat /\ imp' \in Nat /\ \A c \in stored : c.imp \in Nat
    BY <1>2, OrderOfImports DEF IncubatorInv, IncubatorTypes
  <2>2. QED
    BY <1>1, <1>2, <2>1 DEF IncubatorInv, Emptied
<1>7. QED
  BY <1>2, <1>3, <1>4, <1>5, <1>6 DEF IncubatorInv, InMemory, FewUnwritten, Running

LEMMA InterruptedKeeps == ASSUME IncubatorInv, Interrupted PROVE IncubatorInv'
<1> DEFINE after == {j \in DOMAIN imports : j > imp /\ ~OptionsFail(j) /\ ~ScanFails(j) /\ Window(j) # <<>>}
<1>1. /\ UNCHANGED <<imports, icmd, imp, stored, mem, ifaults>> /\ ipc = "next" /\ ipc' = "idle"
      /\ manifest' = [j \in DOMAIN imports |-> IF j = imp THEN mem ELSE IF j \in after /\ icmd.force THEN {} ELSE manifest[j]]
      /\ emptied' = (IF icmd.force /\ ~icmd.dry THEN emptied \ (after \cup {imp}) ELSE emptied)
      /\ (forgot => forgot') /\ (icmd.force /\ icmd.dry => forgot')
  BY DEF Interrupted, Look
<1>2. \A j \in after : j \in DOMAIN imports /\ j > imp
  OBVIOUS
<1> HIDE DEF after
<1>3. IncubatorTypes'
  <2>1. IsFiniteSet({})
    BY FS_EmptySet
  <2>2. QED
    BY <1>1, <2>1 DEF IncubatorInv, IncubatorTypes
<1>4. DuplicatesPaid' /\ JustSaved'
  <2>1. CASE icmd.force /\ icmd.dry
    BY <1>1, <2>1 DEF DuplicatesPaid, JustSaved
  <2>2. CASE ~(icmd.force /\ icmd.dry)
    <3>1. ASSUME NEW i \in DOMAIN imports, NEW c \in stored, c.imp = i PROVE Listing(i)' = Listing(i)
      <4>1. CASE i = imp
        BY <1>1, <2>2, <4>1 DEF Listing, Running, IncubatorInv, InMemory
      <4>2. CASE i # imp /\ ~(i \in after /\ icmd.force)
        BY <1>1, <4>2 DEF Listing, Running
      <4>3. CASE i \in after /\ icmd.force
        <5>1. c.imp <= imp /\ c.imp \in Nat /\ imp \in Nat
          BY <1>1, <2>2, <4>3, OrderOfImports DEF IncubatorInv, IncubatorTypes, Emptied
        <5>2. QED
          BY <1>2, <3>1, <4>3, <5>1
      <4>4. QED
        BY <4>1, <4>2, <4>3
    <3>2. QED
      BY <1>1, <1>3, <3>1, SameLists
  <2>3. QED
    BY <2>1, <2>2
<1>5. ListsAreStored'
  <2> SUFFICES ASSUME NEW i \in DOMAIN imports \ emptied', NEW k \in manifest'[i] PROVE Holds(i, k)
    BY <1>1 DEF ListsAreStored, ListedIsStored, Holds, Running
  <2>1. CASE i = imp
    <3>1. icmd.force \/ imp \notin emptied
      BY <1>1, <2>1
    <3>2. QED
      BY <1>1, <2>1, <3>1 DEF IncubatorInv, ListsAreStored, Running
  <2>2. CASE i # imp
    <3>1. k \in manifest[i] /\ i \notin emptied
      BY <1>1, <2>2
    <3>2. QED
      BY <3>1 DEF IncubatorInv, ListsAreStored, ListedIsStored
  <2>3. QED
    BY <2>1, <2>2
<1>6. QED
  BY <1>1, <1>3, <1>4, <1>5 DEF IncubatorInv, InMemory, FewUnwritten, Emptied, Running

LEMMA IncubatorStays == ASSUME IncubatorInv, UNCHANGED incubatorVars PROVE IncubatorInv'
<1>1. UNCHANGED <<imports, icmd, ipc, imp, stored, manifest, mem, other, window, inRun, emptied, forgot, ifaults>>
  BY DEF incubatorVars
<1>2. IncubatorTypes' /\ InMemory' /\ FewUnwritten' /\ Emptied'
  BY <1>1 DEF IncubatorInv, IncubatorTypes, InMemory, FewUnwritten, Unwritten, Emptied, Running, OthersKnown, Root
<1>3. StoredKeys' = StoredKeys /\ (\A i : Listing(i)' = Listing(i)) /\ (OthersKnown' <=> OthersKnown) /\ Pending' = Pending
  BY <1>1 DEF StoredKeys, Listing, Running, OthersKnown, Root, Pending
<1>4. Unlisted' = Unlisted
  BY <1>1, <1>3 DEF Unlisted, Listed
<1>5. DuplicatesPaid' /\ JustSaved' /\ ListsAreStored'
  BY <1>1, <1>3, <1>4 DEF IncubatorInv, DuplicatesPaid, JustSaved, ListsAreStored, ListedIsStored, Holds, Running
<1>6. QED
  BY <1>2, <1>5 DEF IncubatorInv

(* Among imports that know of each other's manifests, and as long as no dry   *)
(* forced run has been interrupted, letters come twice only for runs that     *)
(* failed, at most Every for each; and a manifest lists nothing its mailbox   *)
(* does not have, wherever runs stopped, unless a forced run that emptied the *)
(* mailbox died before it wrote the manifest (run.go, Run; manifest.go,       *)
(* SaveManifest).                                                             *)
THEOREM FewComeTwice == IncubatorInit /\ [][IncubatorNext]_incubatorVars => []ManifestsAreTrue
<1>1. IncubatorInit => IncubatorInv
  BY IncubatorBegins
<1>2. IncubatorInv /\ [IncubatorNext]_incubatorVars => IncubatorInv'
  <2> SUFFICES ASSUME IncubatorInv, [IncubatorNext]_incubatorVars PROVE IncubatorInv'
    OBVIOUS
  <2>1. CASE OpenImport \/ PassOver \/ DoveadmSave \/ Rejected \/ Record
    BY <2>1, OpenImportKeeps, PassKeeps, DoveadmSaveKeeps, RecordKeeps
  <2>2. CASE TransportFails \/ FileFails \/ EndImport \/ Interrupted \/ Killed
    BY <2>2, TransportFailsKeeps, DiesKeeps, EndImportKeeps, InterruptedKeeps
  <2>3. CASE \E o \in IncubatorCommands : IncubatorRun(o)
    BY <2>3, IncubatorRunKeeps
  <2>4. QED
    BY <2>1, <2>2, <2>3, IncubatorStays DEF IncubatorNext
<1>3. IncubatorInv => ManifestsAreTrue
  <2> SUFFICES ASSUME IncubatorInv PROVE ManifestsAreTrue
    OBVIOUS
  <2>1. DuplicatesAreBounded
    <3> SUFFICES ASSUME ~forgot, OthersKnown PROVE Cardinality(stored) - Cardinality(StoredKeys) <= Every * ifaults
      BY DEF DuplicatesAreBounded, OthersKnown
    <3>1. Cardinality(StoredKeys) \in Nat /\ Cardinality(Unlisted) \in Nat /\ Cardinality(stored) \in Nat
      BY KeysAreFinite DEF IncubatorInv, IncubatorTypes
    <3>2. Every * ifaults \in Nat
      BY IncubatorAssumption, Payment DEF IncubatorInv, IncubatorTypes
    <3>3. Cardinality(stored) + Cardinality(Unlisted) <= Cardinality(StoredKeys) + Every * ifaults + Pending
      BY DEF IncubatorInv, DuplicatesPaid
    <3>4. Pending = 0 \/ (Pending = 1 /\ Cardinality(Unlisted) >= 1)
      <4>1. ipc = "record" => Unlisted # {}
        BY DEF IncubatorInv, JustSaved
      <4>2. Cardinality(Unlisted) = 0 <=> Unlisted = {}
        BY KeysAreFinite, FS_EmptySet DEF IncubatorInv, IncubatorTypes
      <4>3. QED
        BY <3>1, <4>1, <4>2 DEF Pending
    <3>5. \A a, b, c, d, p \in Nat : a + b <= c + d + p /\ (p = 0 \/ (p = 1 /\ b >= 1)) => a - c <= d
      OBVIOUS
    <3>6. QED
      BY <3>1, <3>2, <3>3, <3>4, <3>5
  <2>2. QED
    BY <2>1 DEF IncubatorInv, ListsAreStored, ManifestsAreTrue
<1>4. QED
  BY <1>1, <1>2, <1>3, PTL

-----------------------------------------------------------------------------
(* BrowserSync. *)

IsFile(f) == f = [dir |-> f.dir, base |-> f.base, owner |-> f.owner, title |-> f.title, rows |-> f.rows,
                  counters |-> f.counters, readable |-> f.readable, parses |-> f.parses]
InCycle == bpc \in {"probe", "load", "push"}

BrowserTypes ==
    /\ bpc \in {"off", "probe", "load", "push", "wait", "gone"}
    /\ capture \in Seq(Range(capture)) /\ \A i \in DOMAIN capture : IsFile(capture[i])
    /\ unread \in Seq(DOMAIN capture)
    /\ bpc = "push" => unread = <<>>
    /\ report = [skipped |-> report.skipped, ingested |-> report.ingested, err |-> report.err, over |-> report.over]

(* A file that was not rewritten since the cycle began is still to be read,   *)
(* or its leafs are in the payload.                                           *)
Loading ==
    InCycle => \A i \in same \cap DOMAIN capture :
        sourceFromPath(capture[i]) => i \in ToSet(unread) \/ convert(capture[i]) \subseteq payload

BrowserInv == BrowserTypes /\ Loading

(* What a step that ends a cycle promises, the step of OkCycleIsComplete.     *)
OkEnd ==
    ~report.over /\ report'.over /\ ~report'.err =>
        \A i \in same \cap DOMAIN capture :
            sourceFromPath(capture[i]) => convert(capture[i]) \subseteq browsed'

LEMMA Reading ==
    ASSUME BrowserTypes, Loading, InCycle, unread = <<>>, NEW i \in same \cap DOMAIN capture, sourceFromPath(capture[i])
    PROVE  convert(capture[i]) \subseteq payload
BY NothingInIt DEF Loading

LEMMA BeginCycleKeeps == ASSUME BrowserInv, BeginCycle PROVE BrowserInv' /\ OkEnd
<1> USE DEF BrowserInv, BeginCycle
<1>1. unread' \in Seq(DOMAIN capture) /\ ToSet(unread') = DOMAIN capture
  <2>1. \A s \in Seq(Range(capture)) : [i \in DOMAIN s |-> i] \in Seq(DOMAIN s)
    OBVIOUS
  <2>2. unread' = [i \in DOMAIN capture |-> i]
    OBVIOUS
  <2>3. unread' \in Seq(DOMAIN capture)
    BY <2>1, <2>2 DEF BrowserTypes
  <2>4. DOMAIN unread' = DOMAIN capture /\ \A i \in DOMAIN capture : unread'[i] = i
    BY <2>2
  <2>5. QED
    BY <2>3, <2>4 DEF ToSet
<1>2. BrowserTypes'
  BY <1>1 DEF BrowserTypes, NoReport
<1>3. Loading'
  BY <1>1 DEF Loading
<1>4. ~report'.over
  BY DEF NoReport
<1>5. QED
  BY <1>2, <1>3, <1>4 DEF OkEnd

(* A cycle that ends leaves nothing behind, and only its report.              *)
LEMMA EndingKeeps ==
    ASSUME BrowserInv, NEW failed \in BOOLEAN, NEW n, ending(failed, n), UNCHANGED <<capture, same>>
    PROVE  BrowserInv' /\ report'.err = failed
<1>1. bpc' \in {"off", "gone", "wait"} /\ unread' = <<>>
  BY DEF ending, run
<1>2. report' = [report EXCEPT !.err = failed, !.ingested = n, !.over = TRUE]
  BY DEF ending
<1>3. report' = [skipped |-> report.skipped, ingested |-> n, err |-> failed, over |-> TRUE]
  BY <1>2 DEF BrowserInv, BrowserTypes
<1>4. BrowserTypes'
  BY <1>1, <1>3, NothingInIt DEF BrowserInv, BrowserTypes
<1>5. QED
  BY <1>1, <1>3, <1>4 DEF BrowserInv, Loading, InCycle

LEMMA ExtractKeeps == ASSUME BrowserInv, Extract PROVE BrowserInv' /\ OkEnd
<1> USE DEF BrowserInv, Extract, world
<1>1. report' = [report EXCEPT !.skipped = ~browserUp]
  OBVIOUS
<1>2. report' = [skipped |-> ~browserUp, ingested |-> report.ingested, err |-> report.err, over |-> report.over]
  BY <1>1 DEF BrowserTypes
<1>3. BrowserTypes'
  BY <1>2 DEF BrowserTypes
<1>4. Loading'
  BY DEF Loading, InCycle
<1>5. QED
  BY <1>2, <1>3, <1>4 DEF OkEnd

LEMMA LoadFileKeeps == ASSUME BrowserInv, LoadFile PROVE BrowserInv' /\ OkEnd
<1>1. CASE ending(TRUE, 0)
  BY <1>1, EndingKeeps DEF LoadFile, world, OkEnd
<1>2. CASE ~ending(TRUE, 0)
  <2>1. PICK h : h = Head(unread)
    OBVIOUS
  <2>2. /\ unread' = Tail(unread) /\ UNCHANGED <<bpc, report, capture, same>>
        /\ payload' = payload \cup (IF sourceFromPath(capture[h]) THEN convert(capture[h]) ELSE {})
        /\ bpc = "load" /\ unread # <<>>
    BY <1>2, <2>1 DEF LoadFile, world
  <2>3. Tail(unread) \in Seq(DOMAIN capture) /\ ToSet(unread) = {h} \cup ToSet(Tail(unread))
    BY <2>1, <2>2, HeadAndTail DEF BrowserInv, BrowserTypes
  <2>4. BrowserTypes'
    BY <2>2, <2>3 DEF BrowserInv, BrowserTypes
  <2>5. ASSUME NEW i \in same \cap DOMAIN capture, sourceFromPath(capture[i])
        PROVE  i \in ToSet(unread') \/ convert(capture[i]) \subseteq payload'
    BY <2>2, <2>3, <2>5 DEF BrowserInv, Loading, InCycle
  <2>6. Loading'
    BY <2>2, <2>5 DEF Loading, sourceFromPath
  <2>7. QED
    BY <2>2, <2>4, <2>6 DEF BrowserInv, OkEnd
<1>3. QED
  BY <1>1, <1>2

LEMMA LoadedKeeps == ASSUME BrowserInv, Loaded PROVE BrowserInv' /\ OkEnd
<1>1. UNCHANGED <<capture, same, browsed>> /\ bpc = "load" /\ unread = <<>>
  BY DEF Loaded, world
<1>2. \A i \in same \cap DOMAIN capture : sourceFromPath(capture[i]) => convert(capture[i]) \subseteq payload
  BY <1>1, Reading DEF BrowserInv, InCycle
<1>3. CASE payload = {}
  <2>1. ending(FALSE, 0)
    BY <1>3 DEF Loaded
  <2>2. BrowserInv'
    BY <1>1, <2>1, EndingKeeps
  <2>3. QED
    BY <1>2, <1>3, <2>2 DEF OkEnd
<1>4. CASE payload # {}
  <2>1. bpc' = "push" /\ UNCHANGED <<unread, payload, report>>
    BY <1>4 DEF Loaded
  <2>2. BrowserTypes'
    BY <1>1, <2>1 DEF BrowserInv, BrowserTypes
  <2>3. Loading'
    BY <1>1, <1>2, <2>1 DEF Loading, sourceFromPath
  <2>4. QED
    BY <2>1, <2>2, <2>3 DEF BrowserInv, OkEnd
<1>5. QED
  BY <1>3, <1>4

LEMMA PushKeeps ==
    ASSUME BrowserInv, NEW a \in {"ok", "down", "refused", "timeout"}, Push(a) PROVE BrowserInv' /\ OkEnd
<1>1. UNCHANGED <<capture, same>> /\ bpc = "push" /\ unread = <<>> /\ (a = "ok" => browsed' = browsed \cup payload)
  BY DEF Push, world, BrowserInv, BrowserTypes
<1>2. PICK failed, n : ending(failed, n) /\ failed = (a # "ok")
  BY DEF Push
<1>3. failed \in BOOLEAN
  BY <1>2
<1>4. BrowserInv' /\ report'.err = failed
  BY <1>1, <1>2, <1>3, EndingKeeps
<1>5. \A i \in same \cap DOMAIN capture : sourceFromPath(capture[i]) => convert(capture[i]) \subseteq payload
  BY <1>1, Reading DEF BrowserInv, InCycle
<1>6. CASE a = "ok"
  BY <1>1, <1>4, <1>5, <1>6 DEF OkEnd
<1>7. CASE a # "ok"
  BY <1>2, <1>4, <1>7 DEF OkEnd
<1>8. QED
  BY <1>6, <1>7

(* The files change around a cycle: one that is rewritten leaves `same`.      *)
LEMMA RewriteKeeps == ASSUME BrowserInv, Rewrite \/ Rewritten PROVE BrowserInv' /\ OkEnd
<1>1. PICK i, f : i \in DOMAIN capture /\ capture' = [capture EXCEPT ![i] = f] /\ same' = same \ {i} /\ IsFile(f)
  <2>1. CASE Rewrite
    <3>1. PICK i \in DOMAIN capture : capture' = [capture EXCEPT ![i].parses = FALSE] /\ same' = same \ {i}
      BY <2>1 DEF Rewrite
    <3>2. PICK f : f = [capture[i] EXCEPT !.parses = FALSE]
      OBVIOUS
    <3>3. capture' = [capture EXCEPT ![i] = f]
      BY <3>1, <3>2
    <3>4. IsFile(capture[i])
      BY DEF BrowserInv, BrowserTypes
    <3>5. IsFile(f)
      BY <3>2, <3>4 DEF IsFile
    <3>6. QED
      BY <3>1, <3>3, <3>5
  <2>2. CASE Rewritten
    <3>1. PICK i \in DOMAIN capture, new \in Captures :
              i \in DOMAIN new /\ capture' = [capture EXCEPT ![i] = new[i]] /\ same' = same \ {i}
      BY <2>2 DEF Rewritten
    <3>2. new[i] \in Range(new)
      BY <3>1 DEF Range
    <3>3. IsFile(new[i])
      BY <3>2, BrowserAssumption DEF IsFile
    <3>4. QED
      BY <3>1, <3>3
  <2>3. QED
    BY <2>1, <2>2
<1>2. UNCHANGED <<bpc, unread, payload, report>>
  BY DEF Rewrite, Rewritten
<1>3. /\ DOMAIN capture' = DOMAIN capture /\ capture' \in Seq(Range(capture'))
      /\ \A j \in DOMAIN capture : capture'[j] = IF j = i THEN f ELSE capture[j]
  BY <1>1, ReplaceOne DEF BrowserInv, BrowserTypes
<1>4. BrowserTypes'
  BY <1>1, <1>2, <1>3 DEF BrowserInv, BrowserTypes
<1>5. \A j \in same' \cap DOMAIN capture' : j \in same \cap DOMAIN capture /\ capture'[j] = capture[j]
  BY <1>1, <1>3
<1>6. Loading'
  BY <1>2, <1>5 DEF BrowserInv, Loading, InCycle, sourceFromPath
<1>7. QED
  BY <1>2, <1>4, <1>6 DEF BrowserInv, OkEnd

(* A file that can be read again has the leafs it had.                        *)
LEMMA RepairKeeps == ASSUME BrowserInv, Repair PROVE BrowserInv' /\ OkEnd
<1>1. PICK i \in DOMAIN capture : capture' = [capture EXCEPT ![i].readable = TRUE]
  BY DEF Repair
<1>2. PICK f : f = [capture[i] EXCEPT !.readable = TRUE]
  OBVIOUS
<1>3. capture' = [capture EXCEPT ![i] = f]
  BY <1>1, <1>2
<1>4. UNCHANGED <<bpc, unread, payload, report, same>>
  BY DEF Repair
<1>5. IsFile(capture[i])
  BY DEF BrowserInv, BrowserTypes
<1>6. IsFile(f) /\ f.dir = capture[i].dir /\ f.base = capture[i].base /\ f.owner = capture[i].owner
      /\ f.title = capture[i].title /\ f.rows = capture[i].rows /\ f.counters = capture[i].counters
      /\ f.parses = capture[i].parses
  BY <1>2, <1>5 DEF IsFile
<1>7. /\ DOMAIN capture' = DOMAIN capture /\ capture' \in Seq(Range(capture'))
      /\ \A j \in DOMAIN capture : capture'[j] = IF j = i THEN f ELSE capture[j]
  BY <1>3, ReplaceOne DEF BrowserInv, BrowserTypes
<1>8. (sourceFromPath(f) <=> sourceFromPath(capture[i])) /\ convert(f) = convert(capture[i])
  BY <1>6 DEF sourceFromPath, convert, convertGmail, convertLinkedinConnections, convertLinkedinProfile,
              convertDjinniDashboard, convertDjinniMessages, convertDjinniApplications, convertDjinniProfile,
              Entries, Named
<1>9. BrowserTypes'
  BY <1>3, <1>4, <1>6, <1>7 DEF BrowserInv, BrowserTypes
<1>10. \A j \in DOMAIN capture : /\ sourceFromPath(capture'[j]) <=> sourceFromPath(capture[j])
                                 /\ convert(capture'[j]) = convert(capture[j])
  BY <1>7, <1>8
<1>11. Loading'
  BY <1>4, <1>7, <1>10 DEF BrowserInv, Loading, InCycle
<1>12. QED
  BY <1>4, <1>9, <1>11 DEF BrowserInv, OkEnd

(* The brain comes and goes, and a signal ends the program.                   *)
LEMMA AroundKeeps ==
    ASSUME BrowserInv, BrainCatchesUp \/ BrainStops \/ Rebuild \/ BrainStarts \/ Stop \/ UNCHANGED browserVars
    PROVE  BrowserInv' /\ OkEnd
<1>1. /\ UNCHANGED <<capture, same, report>>
      /\ UNCHANGED <<bpc, unread, payload>> \/ (bpc' \in {"off", "gone"} /\ unread' = <<>>)
  BY DEF BrainCatchesUp, BrainStops, Rebuild, BrainStarts, Stop, browserVars, world
<1>2. BrowserTypes'
  BY <1>1, NothingInIt DEF BrowserInv, BrowserTypes
<1>3. Loading'
  BY <1>1 DEF BrowserInv, Loading, InCycle, sourceFromPath
<1>4. QED
  BY <1>1, <1>2, <1>3 DEF BrowserInv, OkEnd

LEMMA BrowserStepKeeps == ASSUME BrowserInv, [BrowserNext]_browserVars PROVE BrowserInv' /\ OkEnd
BY BeginCycleKeeps, ExtractKeeps, LoadFileKeeps, LoadedKeeps, PushKeeps, RewriteKeeps, RepairKeeps, AroundKeeps
   DEF BrowserNext, BrowserStep

LEMMA BrowserBegins == BrowserInit => BrowserInv
<1> SUFFICES ASSUME BrowserInit PROVE BrowserInv
  OBVIOUS
<1>1. capture \in Captures
  BY DEF BrowserInit
<1>2. capture \in Seq(Range(capture)) /\ \A i \in DOMAIN capture : capture[i] \in Range(capture)
  BY <1>1, BrowserAssumption DEF Range
<1>3. \A i \in DOMAIN capture : IsFile(capture[i])
  BY <1>1, <1>2, BrowserAssumption DEF IsFile
<1>4. BrowserTypes
  BY <1>2, <1>3, NothingInIt DEF BrowserTypes, BrowserInit, NoReport
<1>5. QED
  BY <1>4 DEF BrowserInv, Loading, InCycle, BrowserInit

(* A cycle of bin/cron/browser-sync that reports no error has brought a leaf  *)
(* into the brain for every entry of every file that nobody rewrote while it  *)
(* ran: runOnce of run.go loads all of them and posts them in one request.    *)
THEOREM OkCyclesAreComplete == BrowserInit /\ [][BrowserNext]_browserVars => OkCycleIsComplete
<1>1. BrowserInv /\ [BrowserNext]_browserVars => BrowserInv' /\
        [~report.over /\ report'.over /\ ~report'.err =>
            \A i \in same \cap DOMAIN capture :
                sourceFromPath(capture[i]) => convert(capture[i]) \subseteq browsed']_browserVars
  BY BrowserStepKeeps DEF OkEnd
<1>2. QED
  BY <1>1, BrowserBegins, PTL DEF OkCycleIsComplete

-----------------------------------------------------------------------------
(* CorpusWatch: the stamp remembered is the version of the last run, or none, *)
(* and a version never comes back.                                            *)
WatcherInv ==
    /\ version \in Nat /\ begun \in Nat /\ begun <= version
    /\ lastStamp \in {0, begun}

LEMMA WatcherStepKeeps == ASSUME WatcherInv, [WatcherNext]_watcherVars PROVE WatcherInv'
<1>1. CASE Touch
  BY <1>1 DEF WatcherInv, Touch
<1>2. CASE Poll
  BY <1>2 DEF WatcherInv, Poll, Stamp
<1>3. CASE reindex \/ Sleep \/ Restarted
  BY <1>3 DEF WatcherInv, reindex, Sleep, Restarted
<1>4. CASE UNCHANGED watcherVars
  BY <1>4 DEF WatcherInv, watcherVars
<1>5. QED
  BY <1>1, <1>2, <1>3, <1>4 DEF WatcherNext, WatcherStep

(* The corpus watch (bin/brain/watch) never takes a change for one it has seen: *)
(* whatever arrives between polls, under a run or around a restart is ahead of  *)
(* the stamp it compares with.  The safety half of EveryChangeIsTried.          *)
THEOREM WatchSeesChanges == WatcherInit /\ [][WatcherNext]_watcherVars => []ChangesStayAhead
<1>1. WatcherInit => WatcherInv
  BY DEF WatcherInit, WatcherInv
<1>2. WatcherInv /\ [WatcherNext]_watcherVars => WatcherInv'
  BY WatcherStepKeeps
<1>3. WatcherInv => ChangesStayAhead
  BY DEF WatcherInv, ChangesStayAhead, Stamp
<1>4. QED
  BY <1>1, <1>2, <1>3, PTL
=============================================================================
