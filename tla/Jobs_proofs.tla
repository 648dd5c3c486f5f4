---------------------------- MODULE Jobs_proofs ----------------------------
(***************************************************************************)
(* Proofs about the programs that run over the database and come to an     *)
(* end: StackWave starts what it stopped, FactAudit numbers its cards and  *)
(* decides what the sources decide, FactStore shows only facts that have   *)
(* their evidence, ChatFlow empties no file, imports every chat and adds   *)
(* nothing twice, HybridSearch leaves out nothing that is better, and what *)
(* NetworkExport writes into the CRM is true, whole and written once.      *)
(***************************************************************************)
EXTENDS StackWave, FactAudit, FactStore, ChatFlow, HybridSearch, NetworkExport, Lists_proofs,
        FiniteSetTheorems, WellFoundedInduction, TLAPS

-----------------------------------------------------------------------------
(* StackWave. *)

WaveTypes ==
    /\ wstage \in {"start", "quiesce", "wait", "steps", "restart", "done", "killed"}
    /\ container \in BOOLEAN /\ cStopped \in BOOLEAN /\ stoppedAny \in BOOLEAN /\ mishap \in BOOLEAN

Serving == [container |-> container, api |-> api, daemon |-> daemon]

(* Until the wave has told somebody to stop, everything is as it was and will  *)
(* stay so; from then on what it has to put back follows from what it remembers. *)
Untouched ==
    /\ ~stoppedAny \/ wstage = "quiesce" =>
          Serving = servedBefore /\ api \in {"up", "down"} /\ daemon \in {"up", "down"}
    /\ wstage \in {"start", "quiesce"} => ~cStopped
    /\ wstage = "start" => ~stoppedAny
    /\ wstage \in {"quiesce", "wait"} => stoppedAny
    /\ ~stoppedAny => ~cStopped
Remembered ==
    /\ servedBefore.container \in BOOLEAN
    /\ stoppedAny /\ wstage \in {"wait", "steps", "restart"} /\ ~mishap =>
          (servedBefore.container <=> container \/ cStopped) /\ ~(container /\ cStopped)
    /\ wstage = "done" /\ ~mishap => container = servedBefore.container

WaveInv == WaveTypes /\ Untouched /\ Remembered

LEMMA WaveStays ==
    ASSUME WaveInv, UNCHANGED <<wstage, container, locals, servedBefore, cStopped, stoppedAny, mishap>>
    PROVE  WaveInv'
BY DEF WaveInv, WaveTypes, Untouched, Remembered, Serving, locals

LEMMA WaveStep == ASSUME WaveInv, WaveNext PROVE WaveInv'
<1> USE DEF WaveInv, WaveTypes, Untouched, Remembered, Serving, locals, memory, plan
<1>1. CASE WaveStart
  <2>1. /\ wstage = "start" /\ UNCHANGED <<servedBefore, container, api, daemon, cStopped, mishap>>
        /\ stoppedAny' \in BOOLEAN /\ wstage' = IF stoppedAny' THEN "quiesce" ELSE "steps"
    BY <1>1 DEF WaveStart, NeedWrite
  <2>2. QED
    BY <2>1
<1>2. CASE StopBrain
  <2>1. /\ UNCHANGED <<stoppedAny, servedBefore>> /\ wstage = "quiesce" /\ wstage' = "wait"
        /\ servedBefore.container = container /\ ~cStopped /\ stoppedAny
    BY <1>2 DEF StopBrain
  <2>2. \/ ~container' /\ container' \in BOOLEAN /\ cStopped' = container /\ mishap' = mishap
        \/ container /\ container' \in BOOLEAN /\ mishap' = ~container' /\ cStopped' = cStopped
    BY <1>2 DEF StopBrain
  <2>3. QED
    BY <2>1, <2>2
<1>3. CASE LocalGone
  <2>1. /\ UNCHANGED <<stoppedAny, servedBefore, wstage, container, cStopped, mishap>>
        /\ api = "dying" \/ daemon = "dying"
    BY <1>3 DEF LocalGone
  <2>2. stoppedAny /\ wstage # "quiesce"
    BY <2>1
  <2>3. QED
    BY <2>1, <2>2
<1>4. CASE WaitReleased
  BY <1>4 DEF WaitReleased
<1>5. CASE StepLeft \/ RunCommand
  <2>1. /\ wstage = "steps" /\ wstage' \in {"steps", "restart"}
        /\ UNCHANGED <<servedBefore, container, api, daemon, cStopped, stoppedAny, mishap>>
    BY <1>5 DEF StepLeft, RunCommand, NextStep
  <2>2. QED
    BY <2>1
<1>6. CASE RestartBrain
  <2>1. wstage = "restart" /\ wstage' = "done" /\ UNCHANGED <<servedBefore, api, daemon, cStopped, stoppedAny>>
    BY <1>6 DEF RestartBrain
  <2>2. CASE stoppedAny /\ cStopped /\ container' = TRUE /\ mishap' = mishap
    BY <2>1, <2>2
  <2>3. CASE stoppedAny /\ cStopped /\ mishap' = TRUE /\ container' = container
    BY <2>1, <2>3
  <2>4. CASE ~(stoppedAny /\ cStopped) /\ container' = container /\ mishap' = mishap
    BY <2>1, <2>4
  <2>5. QED
    BY <1>6, <2>2, <2>3, <2>4 DEF RestartBrain
<1>7. CASE WaveKilled
  BY <1>7 DEF WaveKilled
<1>8. QED
  BY <1>1, <1>2, <1>3, <1>4, <1>5, <1>6, <1>7 DEF WaveNext

(* Whatever is asked for and whichever commands fail, a wave that ends has the *)
(* container running if and only if it ran before, unless the start failed or  *)
(* a failed stop stopped it all the same; a wave that stopped nobody leaves    *)
(* all of them alone (sync.go, quiesceBrain and restartBrain).                 *)
THEOREM WaveLeavesNoTrace == WaveSpec => []WaveRestores
<1>1. WaveInit => WaveInv
  <2> SUFFICES ASSUME WaveInit PROVE WaveInv
    OBVIOUS
  <2>1. /\ container \in BOOLEAN /\ api \in {"up", "down"} /\ daemon \in {"up", "down"}
        /\ wstage = "start" /\ cStopped = FALSE /\ stoppedAny = FALSE /\ mishap = FALSE
        /\ servedBefore = Serving
    BY DEF WaveInit, Serving
  <2>2. servedBefore.container = container
    BY <2>1 DEF Serving
  <2>3. QED
    BY <2>1, <2>2 DEF WaveInv, WaveTypes, Untouched, Remembered
<1>2. WaveInv /\ [WaveNext]_waveVars => WaveInv'
  <2>1. WaveInv /\ UNCHANGED waveVars => WaveInv'
    BY WaveStays DEF waveVars, memory, plan
  <2>2. QED
    BY <2>1, WaveStep
<1>3. WaveInv => WaveRestores
  BY DEF WaveInv, Untouched, Remembered, WaveRestores, Serving
<1>4. QED
  BY <1>1, <1>2, <1>3, PTL DEF WaveSpec

-----------------------------------------------------------------------------
(* FactAudit: the numbers of the cards. *)

(* Cards with numbers, no two of them equal. *)
Numbered(cards) ==
    /\ \E T : cards \in Seq(T)
    /\ \E b \in Nat : \A i \in DOMAIN cards : cards[i].id \in Nat /\ cards[i].id <= b
    /\ \A i, j \in DOMAIN cards : cards[i].id = cards[j].id => i = j

Readers == DOMAIN wread = Writers /\ \A w \in Writers : Numbered(wread[w])
CardInv == Numbered(sot) /\ Readers

Less == {p \in Nat \X Nat : p[1] < p[2]}

(* A bounded set of numbers has a largest one. *)
LEMMA Largest ==
    ASSUME NEW S \in SUBSET Nat, S # {}, NEW b \in Nat, \A n \in S : n <= b
    PROVE  \E m \in S : \A n \in S : n <= m
<1> DEFINE U == {k \in Nat : \A n \in S : n <= k}
<1>1. IsWellFoundedOn(Less, Nat)
  BY NatLessThanWellFounded DEF OpToRel, Less
<1>2. PICK k \in U : \A j \in SetLessThan(k, Less, Nat) : j \notin U
  <2>1. b \in U /\ U \subseteq Nat
    OBVIOUS
  <2> HIDE DEF U
  <2>2. QED
    BY <1>1, <2>1, WFMin DEF SetLessThan
<1>3. k \in Nat /\ \A j \in Nat : j < k => j \notin U
  BY <1>2 DEF SetLessThan, Less
<1>4. k \in S
  <2> SUFFICES ASSUME k \notin S PROVE FALSE
    OBVIOUS
  <2>1. PICK n \in S : TRUE
    OBVIOUS
  <2>2. n < k /\ n \in Nat /\ \A x \in S : x <= k /\ x # k
    BY <1>2, <2>1
  <2>3. k - 1 \in Nat /\ k - 1 < k /\ k - 1 \in U
    BY <1>3, <2>2
  <2>4. QED
    BY <1>3, <2>3
<1>5. QED
  BY <1>2, <1>4

LEMMA NextIsNew ==
    ASSUME NEW cards, Numbered(cards)
    PROVE  /\ NextAuditID(AuditIds(cards)) \in Nat
           /\ \A i \in DOMAIN cards : cards[i].id < NextAuditID(AuditIds(cards))
<1> DEFINE ids == AuditIds(cards)
           top == CHOOSE m \in ids \cap Nat : \A n \in ids \cap Nat : n <= m
<1>1. PICK b \in Nat : \A i \in DOMAIN cards : cards[i].id \in Nat /\ cards[i].id <= b
  BY DEF Numbered
<1>2. ids \in SUBSET Nat /\ ids \cap Nat = ids /\ \A n \in ids : n <= b
  BY <1>1 DEF AuditIds
<1>3. \A i \in DOMAIN cards : cards[i].id \in ids
  BY DEF AuditIds
<1>4. NextAuditID(ids) = 1 + IF ids \cap Nat = {} THEN 0 ELSE top
  BY DEF NextAuditID
<1> HIDE DEF ids
<1>5. ids # {} => top \in ids \cap Nat /\ \A n \in ids \cap Nat : n <= top
  <2> SUFFICES ASSUME ids # {} PROVE \E m \in ids \cap Nat : \A n \in ids \cap Nat : n <= m
    OBVIOUS
  <2>1. \E m \in ids : \A n \in ids : n <= m
    BY <1>1, <1>2, Largest
  <2>2. QED
    BY <1>2, <2>1
<1> HIDE DEF top
<1>6. QED
  BY <1>2, <1>3, <1>4, <1>5 DEF ids

LEMMA NumberedAppend ==
    ASSUME NEW cards, Numbered(cards), NEW c, c.id = NextAuditID(AuditIds(cards))
    PROVE  Numbered(Append(cards, c))
<1> DEFINE more == Append(cards, c)
<1>1. PICK T : cards \in Seq(T)
  BY DEF Numbered
<1>2. PICK b \in Nat : \A i \in DOMAIN cards : cards[i].id \in Nat /\ cards[i].id <= b
  BY DEF Numbered
<1>3. c.id \in Nat /\ \A i \in DOMAIN cards : cards[i].id < c.id
  BY NextIsNew
<1>4. more \in Seq(T \cup {c})
  <2>1. cards \in Seq(T \cup {c}) /\ c \in T \cup {c}
    BY <1>1
  <2>2. QED
    BY <2>1
<1>5. /\ DOMAIN cards = 1 .. Len(cards) /\ Len(cards) \in Nat
      /\ DOMAIN more = 1 .. Len(cards) + 1
      /\ \A i \in 1 .. Len(cards) : more[i] = cards[i]
      /\ more[Len(cards) + 1] = c
  BY <1>1, <1>4
<1> HIDE DEF more
<1>6. \A i \in DOMAIN more : more[i].id \in Nat /\ more[i].id <= c.id
  BY <1>2, <1>3, <1>5
<1>7. \A i, j \in DOMAIN more : more[i].id = more[j].id => i = j
  <2>1. \A i \in DOMAIN cards : more[i].id # more[Len(cards) + 1].id
    BY <1>2, <1>3, <1>5
  <2>2. \A i, j \in DOMAIN cards : more[i].id = more[j].id => i = j
    BY <1>5 DEF Numbered
  <2>3. QED
    BY <1>5, <2>1, <2>2
<1>8. QED
  BY <1>3, <1>4, <1>6, <1>7 DEF Numbered, more

LEMMA NumberedRemove ==
    ASSUME NEW cards, Numbered(cards), NEW k \in DOMAIN cards
    PROVE  Numbered(RemoveAt(cards, k))
<1> DEFINE less == RemoveAt(cards, k)
           at(i) == IF i < k THEN i ELSE i + 1
<1>1. PICK T : cards \in Seq(T)
  BY DEF Numbered
<1>2. PICK b \in Nat : \A i \in DOMAIN cards : cards[i].id \in Nat /\ cards[i].id <= b
  BY DEF Numbered
<1>3. /\ less \in Seq(T) /\ DOMAIN less = 1 .. Len(cards) - 1
      /\ \A i \in 1 .. Len(cards) - 1 : less[i] = cards[at(i)]
      /\ DOMAIN cards = 1 .. Len(cards) /\ Len(cards) \in Nat
  <2>1. k \in 1 .. Len(cards) /\ Len(cards) \in Nat
    BY <1>1
  <2> DEFINE front == SubSeq(cards, 1, k - 1)
             back == SubSeq(cards, k + 1, Len(cards))
  <2>2. /\ front \in Seq(T) /\ Len(front) = k - 1
        /\ \A i \in 1 .. k - 1 : front[i] = cards[i]
    BY <1>1, <2>1
  <2>3. /\ back \in Seq(T) /\ Len(back) = Len(cards) - k
        /\ \A i \in 1 .. Len(cards) - k : back[i] = cards[k + i]
    BY <1>1, <2>1
  <2>4. \A u, z \in Seq(T) :
           /\ u \o z \in Seq(T) /\ DOMAIN (u \o z) = 1 .. Len(u) + Len(z)
           /\ \A i \in 1 .. Len(u) + Len(z) : (u \o z)[i] = IF i <= Len(u) THEN u[i] ELSE z[i - Len(u)]
    OBVIOUS
  <2>5. less = front \o back
    BY DEF RemoveAt
  <2> HIDE DEF less, front, back
  <2>6. Len(front) + Len(back) = Len(cards) - 1
    BY <2>1, <2>2, <2>3
  <2>7. /\ less \in Seq(T) /\ DOMAIN less = 1 .. Len(front) + Len(back)
        /\ \A i \in 1 .. Len(front) + Len(back) :
              less[i] = IF i <= Len(front) THEN front[i] ELSE back[i - Len(front)]
    BY <2>2, <2>3, <2>4, <2>5
  <2>8. ASSUME NEW i \in 1 .. Len(cards) - 1 PROVE less[i] = cards[at(i)]
    <3>1. less[i] = IF i <= k - 1 THEN front[i] ELSE back[i - (k - 1)]
      <4>1. less[i] = IF i <= Len(front) THEN front[i] ELSE back[i - Len(front)]
        BY <2>6, <2>7
      <4>2. Len(front) = k - 1
        BY <2>2
      <4>3. QED
        BY <4>1, <4>2
    <3>2. CASE i <= k - 1
      BY <2>1, <2>2, <3>1, <3>2
    <3>3. CASE ~(i <= k - 1)
      <4> DEFINE j == i - (k - 1)
      <4>1. j \in 1 .. Len(cards) - k /\ k + j = i + 1 /\ at(i) = i + 1
        BY <2>1, <3>3
      <4>2. less[i] = back[j]
        BY <3>1, <3>3
      <4> HIDE DEF j
      <4>3. QED
        BY <2>3, <4>1, <4>2
    <3>4. QED
      BY <3>2, <3>3
  <2>9. QED
    BY <1>1, <2>1, <2>6, <2>7, <2>8
<1> HIDE DEF less
<1>4. \A i \in DOMAIN less : at(i) \in DOMAIN cards
  BY <1>3
<1>5. \A i \in DOMAIN less : less[i].id \in Nat /\ less[i].id <= b
  BY <1>2, <1>3, <1>4
<1>6. \A i, j \in DOMAIN less : less[i].id = less[j].id => i = j
  <2> SUFFICES ASSUME NEW i \in DOMAIN less, NEW j \in DOMAIN less, less[i].id = less[j].id PROVE i = j
    OBVIOUS
  <2>1. at(i) = at(j)
    BY <1>3, <1>4 DEF Numbered
  <2>2. QED
    BY <1>3, <2>1
<1>7. QED
  BY <1>3, <1>5, <1>6 DEF Numbered, less

LEMMA NumberedNone == Numbered(<<>>)
<1>1. <<>> \in Seq({}) /\ DOMAIN <<>> = {} /\ 0 \in Nat
  OBVIOUS
<1>2. QED
  BY <1>1 DEF Numbered

LEMMA AuditStep == ASSUME CardInv, AuditNext PROVE CardInv'
<1>1. CASE EditSoT
  <2>1. Numbered(sot')
    <3>1. CASE sot' = <<>>
      BY <3>1, NumberedNone
    <3>2. CASE \E i \in DOMAIN sot : sot' = RemoveAt(sot, i)
      BY <3>2, NumberedRemove DEF CardInv
    <3>3. QED
      BY <1>1, <3>1, <3>2 DEF EditSoT
  <2>2. Readers'
    BY <1>1 DEF EditSoT, CardInv, Readers
  <2>3. QED
    BY <2>1, <2>2 DEF CardInv, Numbered
<1>2. ASSUME NEW w \in Writers, Truncate(w) \/ WriterDies(w) PROVE CardInv'
  <2>1. sot' = sot /\ wread' = wread
    BY <1>2 DEF Truncate, WriterDies
  <2>2. QED
    BY <2>1 DEF CardInv, Readers, Numbered
<1>3. ASSUME NEW w \in Writers, Fill(w) PROVE CardInv'
  <2>1. Numbered(sot')
    BY <1>3, NumberedAppend DEF Fill, CardInv, Readers
  <2>2. Readers'
    BY <1>3 DEF Fill, CardInv, Readers
  <2>3. QED
    BY <2>1, <2>2 DEF CardInv, Numbered
<1>4. ASSUME NEW w \in Writers, NEW c \in Cards, ReadSoT(w, c) PROVE CardInv'
  <2>1. sot' = sot /\ wread' = [wread EXCEPT ![w] = sot]
    BY <1>4 DEF ReadSoT
  <2>2. DOMAIN wread' = Writers /\ \A v \in Writers : wread'[v] = IF v = w THEN sot ELSE wread[v]
    BY <2>1 DEF CardInv, Readers
  <2>3. Readers'
    BY <2>2 DEF CardInv, Readers
  <2>4. QED
    BY <2>1, <2>3 DEF CardInv, Numbered
<1>5. QED
  BY <1>1, <1>2, <1>3, <1>4 DEF AuditNext

(* However many processes append cards at once, die while they write or are   *)
(* overtaken by edits of the file, a file that is not left empty or mixed of   *)
(* two writes never holds two cards of one number (auditcard.go, NextAuditID  *)
(* and AppendAuditCard).                                                      *)
THEOREM CardNumbersUnique == AuditInit /\ [][AuditNext]_auditVars => []AuditIdsUnique
<1>1. AuditInit => CardInv
  BY NumberedNone DEF AuditInit, CardInv, Readers
<1>2. CardInv /\ [AuditNext]_auditVars => CardInv'
  <2>1. CardInv /\ UNCHANGED auditVars => CardInv'
    BY DEF CardInv, Readers, Numbered, auditVars
  <2>2. QED
    BY <2>1, AuditStep
<1>3. CardInv => AuditIdsUnique
  BY DEF CardInv, Numbered, AuditIdsUnique
<1>4. QED
  BY <1>1, <1>2, <1>3, PTL
-----------------------------------------------------------------------------
(* FactAudit: the audits, for every input. *)

LEMMA TwoOrMore ==
    ASSUME NEW S, IsFiniteSet(S)
    PROVE  Cardinality(S) \in Nat /\ (Cardinality(S) >= 2 <=> \E x, y \in S : x # y)
<1>1. Cardinality(S) \in Nat
  BY FS_CardinalityType
<1>2. ASSUME NEW x \in S, NEW y \in S, x # y PROVE Cardinality(S) >= 2
  <2>1. Cardinality({x, y}) = 2 /\ IsFiniteSet({x, y})
    <3>1. IsFiniteSet({x}) /\ Cardinality({x}) = 1
      BY FS_Singleton
    <3>2. {x, y} = {x} \cup {y} /\ y \notin {x}
      BY <1>2
    <3>3. QED
      BY <3>1, <3>2, FS_AddElement
  <2>2. Cardinality({x, y}) <= Cardinality(S)
    BY FS_Subset
  <2>3. QED
    BY <1>1, <2>1, <2>2
<1>3. ASSUME Cardinality(S) >= 2 PROVE \E x, y \in S : x # y
  <2>1. S # {}
    BY <1>3, FS_EmptySet
  <2>2. PICK x \in S : TRUE
    BY <2>1
  <2>3. Cardinality(S \ {x}) = Cardinality(S) - 1
    BY <2>2, FS_RemoveElement
  <2>4. S \ {x} # {}
    BY <1>1, <1>3, <2>3, FS_EmptySet
  <2>5. QED
    BY <2>2, <2>4
<1>4. QED
  BY <1>1, <1>2, <1>3

LEMMA Counts ==
    ASSUME NEW ss \in Seq(EvidenceSource)
    PROVE  /\ Independent(ss) \in Nat /\ FreshN(ss) \in Nat /\ StrongN(ss) \in Nat
           /\ FirstHand(ss) => Independent(ss) >= 2 /\ FreshN(ss) >= 2 /\ StrongN(ss) >= 2
<1> DEFINE key(i) == IF ss[i].id = "" THEN <<ss[i].kind, i>> ELSE <<ss[i].id>>
           keys == {key(i) : i \in DOMAIN ss}
           fresh == {i \in DOMAIN ss : ~ss[i].stale}
           strong == {i \in DOMAIN ss : ss[i].kind \in {"runtime", "config"}}
           good == {i \in DOMAIN ss : ~ss[i].stale /\ ss[i].kind \in {"runtime", "config"}}
           names == {ss[i].id : i \in good}
<1>1. DOMAIN ss = 1 .. Len(ss) /\ Len(ss) \in Nat /\ IsFiniteSet(DOMAIN ss)
  <2>1. DOMAIN ss = 1 .. Len(ss) /\ Len(ss) \in Nat
    OBVIOUS
  <2>2. \A n \in Nat : IsFiniteSet(1 .. n)
    BY FS_Interval
  <2>3. QED
    BY <2>1, <2>2
<1>2. IsFiniteSet(fresh) /\ IsFiniteSet(strong) /\ IsFiniteSet(good)
  BY <1>1, FS_Subset
<1>3. IsFiniteSet(keys) /\ IsFiniteSet(names)
  <2>1. [i \in DOMAIN ss |-> key(i)] \in Surjection(DOMAIN ss, keys)
    BY DEF Surjection
  <2>2. [i \in good |-> ss[i].id] \in Surjection(good, names)
    BY DEF Surjection
  <2> HIDE DEF keys, names, good
  <2>3. QED
    BY <1>1, <1>2, <2>1, <2>2, FS_Surjection
<1>4. /\ Independent(ss) = Cardinality(keys) /\ FreshN(ss) = Cardinality(fresh)
      /\ StrongN(ss) = Cardinality(strong) /\ FirstHand(ss) = (Cardinality(names) >= 2)
  BY DEF Independent, FreshN, StrongN, FirstHand
<1>5. ASSUME FirstHand(ss) PROVE Cardinality(keys) >= 2 /\ Cardinality(fresh) >= 2 /\ Cardinality(strong) >= 2
  <2>1. \E x, y \in names : x # y
    <3>1. Cardinality(names) >= 2 /\ IsFiniteSet(names)
      BY <1>3, <1>4, <1>5
    <3> HIDE DEF names
    <3>2. QED
      BY <3>1, TwoOrMore
  <2>2. PICK i \in good, j \in good : ss[i].id # ss[j].id
    BY <2>1
  <2>3. key(i) \in keys /\ key(j) \in keys /\ key(i) # key(j)
    <3>1. key(i) \in keys /\ key(j) \in keys
      BY <2>2
    <3>2. \A u, v, x : <<u, v>> # <<x>>
      OBVIOUS
    <3>3. \A u, v, x, y : (<<u, v>> = <<x, y>> => v = y) /\ (<<u>> = <<x>> => u = x)
      OBVIOUS
    <3>4. key(i) # key(j)
      BY <2>2, <3>2, <3>3
    <3>5. QED
      BY <3>1, <3>4
  <2>4. i # j /\ {i, j} \subseteq fresh /\ {i, j} \subseteq strong
    BY <2>2
  <2> HIDE DEF keys, fresh, strong
  <2>5. QED
    BY <1>2, <1>3, <2>3, <2>4, TwoOrMore
<1> HIDE DEF keys, fresh, strong, names, good
<1>6. Cardinality(keys) \in Nat /\ Cardinality(fresh) \in Nat /\ Cardinality(strong) \in Nat
  BY <1>2, <1>3, FS_CardinalityType
<1>7. QED
  BY <1>4, <1>5, <1>6

LEMMA Ties == claim \in Claims => TiesStayOpen
<1> SUFFICES ASSUME claim \in Claims PROVE TiesStayOpen
  OBVIOUS
<1> DEFINE r == Adjudicate(claim)
<1>1. claim.yes \in Seq(EvidenceSource) /\ claim.no \in Seq(EvidenceSource)
  BY AuditAssumption
<1>2. /\ {Independent(claim.yes), FreshN(claim.yes), StrongN(claim.yes)} \subseteq Nat
      /\ {Independent(claim.no), FreshN(claim.no), StrongN(claim.no)} \subseteq Nat
  BY <1>1, Counts
<1>3. FirstHand(claim.yes) /\ FirstHand(claim.no) => r.conf = "hypothesis"
  <2> SUFFICES ASSUME FirstHand(claim.yes), FirstHand(claim.no) PROVE r.conf = "hypothesis"
    OBVIOUS
  <2>1. /\ Independent(claim.yes) >= 2 /\ FreshN(claim.yes) >= 2 /\ StrongN(claim.yes) >= 2
        /\ Independent(claim.no) >= 2 /\ FreshN(claim.no) >= 2 /\ StrongN(claim.no) >= 2
    BY <1>1, Counts
  <2>2. \A k \in Nat : k >= 2 => ~(k < 2)
    OBVIOUS
  <2>3. /\ ~(Independent(claim.yes) < 2) /\ ~(FreshN(claim.yes) < 2) /\ ~(StrongN(claim.yes) < 2)
        /\ ~(Independent(claim.no) < 2) /\ ~(FreshN(claim.no) < 2) /\ ~(StrongN(claim.no) < 2)
    BY <1>2, <2>1, <2>2
  <2>4. QED
    BY <2>3 DEF Adjudicate, Out
<1>4. r.winner = "yes" => Independent(claim.yes) >= 2
  BY <1>2 DEF Adjudicate, Out
<1>5. r.winner = "no" => Independent(claim.no) >= 2
  BY <1>2 DEF Adjudicate, Out
<1>6. QED
  BY <1>3, <1>4, <1>5 DEF TiesStayOpen

(* Every row is about a time that was: it does not end before it begins.      *)
WholeSpans == \A fs \in FactRows : \A f \in fs : f.from = NoDay \/ f.to = NoDay \/ f.from <= f.to

Spanned(f) == /\ f.from = NoDay \/ (f.from \in Int /\ f.from \in Days)
              /\ f.to = NoDay \/ (f.to \in Int /\ f.to \in Days)
Whole(f) == Spanned(f) /\ (f.from = NoDay \/ f.to = NoDay \/ f.from <= f.to)

(* Two intervals that are not apart have a day in common.                     *)
LEMMA CommonDay ==
    ASSUME NEW a, NEW b, Whole(a), Whole(b), IntervalsOverlap(a, b)
    PROVE  \E day \in Days : ActiveAt(a, day) /\ ActiveAt(b, day)
<1>1. Days # {} /\ NoDay \notin Days
  BY AuditAssumption
<1>2. CASE a.from # NoDay /\ (b.from = NoDay \/ b.from <= a.from)
  <2>1. a.from \in Days /\ ActiveAt(a, a.from) /\ ActiveAt(b, a.from)
    BY <1>1, <1>2 DEF ActiveAt, IntervalsOverlap, Whole, Spanned
  <2>2. QED
    BY <2>1
<1>3. CASE b.from # NoDay /\ (a.from = NoDay \/ a.from <= b.from)
  <2>1. b.from \in Days /\ ActiveAt(a, b.from) /\ ActiveAt(b, b.from)
    BY <1>1, <1>3 DEF ActiveAt, IntervalsOverlap, Whole, Spanned
  <2>2. QED
    BY <2>1
<1>4. CASE a.from = NoDay /\ b.from = NoDay
  <2>1. CASE a.to # NoDay /\ (b.to = NoDay \/ a.to <= b.to)
    <3>1. a.to \in Days /\ ActiveAt(a, a.to) /\ ActiveAt(b, a.to)
      BY <1>1, <1>4, <2>1 DEF ActiveAt, Whole, Spanned
    <3>2. QED
      BY <3>1
  <2>2. CASE b.to # NoDay /\ (a.to = NoDay \/ b.to <= a.to)
    <3>1. b.to \in Days /\ ActiveAt(a, b.to) /\ ActiveAt(b, b.to)
      BY <1>1, <1>4, <2>2 DEF ActiveAt, Whole, Spanned
    <3>2. QED
      BY <3>1
  <2>3. CASE a.to = NoDay /\ b.to = NoDay
    BY <1>1, <1>4, <2>3 DEF ActiveAt
  <2>4. QED
    BY <2>1, <2>2, <2>3 DEF Whole, Spanned
<1>5. QED
  BY <1>2, <1>3, <1>4 DEF Whole, Spanned

LEMMA MeetingDays ==
    ASSUME NEW a, NEW b, NEW day \in Int, Spanned(a), Spanned(b), ActiveAt(a, day), ActiveAt(b, day)
    PROVE  IntervalsOverlap(a, b)
BY DEF ActiveAt, IntervalsOverlap, Spanned

LEMMA Clashes == ASSUME WholeSpans, rows \in FactRows PROVE ContradictionsFound
<1> DEFINE crisp == {f \in rows : Crisp(f) /\ HasURL(f)}
           group(f) == {g \in crisp : CanonicalURL(g) = CanonicalURL(f) /\ g.attr = f.attr}
           clash(f) == \E a, b \in group(f) : ~a.neg /\ b.neg /\ IntervalsOverlap(a, b)
           ids(f) == {g.id : g \in group(f)}
           found == {p.ids : p \in {q \in CheckFormal(rows) : q.rule = "contradiction"}}
           opposite(a, b) == /\ Crisp(a) /\ Crisp(b) /\ HasURL(a) /\ HasURL(b)
                             /\ CanonicalURL(a) = CanonicalURL(b)
                             /\ a.attr = b.attr /\ a.neg # b.neg
                             /\ \E day \in Days : ActiveAt(a, day) /\ ActiveAt(b, day)
<1>1. Days \subseteq Int /\ \A f \in rows : f.neg \in BOOLEAN /\ Whole(f)
  BY AuditAssumption DEF WholeSpans, Whole, Spanned
<1>2. found = {ids(f) : f \in {g \in crisp : clash(g)}}
  <2>1. \A q \in CheckURLIdentity(rows) \cup CheckExcludedMiddle(rows) : q.rule # "contradiction"
    <3>1. \A q \in CheckURLIdentity(rows) : \E i : q = Problem("identity", i, "weaken")
      BY DEF CheckURLIdentity
    <3>2. \A q \in CheckExcludedMiddle(rows) : \E i : q = Problem("excluded middle", i, "weaken")
      BY DEF CheckExcludedMiddle
    <3>3. \A r, i, v : Problem(r, i, v).rule = r
      BY DEF Problem
    <3> SUFFICES ASSUME NEW q \in CheckURLIdentity(rows) \cup CheckExcludedMiddle(rows) PROVE q.rule # "contradiction"
      OBVIOUS
    <3>4. CASE q \in CheckURLIdentity(rows)
      <4>1. PICK i : q = Problem("identity", i, "weaken")
        BY <3>1, <3>4
      <4>2. q.rule = "identity"
        BY <3>3, <4>1
      <4>3. QED
        BY <4>2
    <3>5. CASE q \in CheckExcludedMiddle(rows)
      <4>1. PICK i : q = Problem("excluded middle", i, "weaken")
        BY <3>2, <3>5
      <4>2. q.rule = "excluded middle"
        BY <3>3, <4>1
      <4>3. QED
        BY <4>2
    <3>6. QED
      BY <3>4, <3>5
  <2>2. CheckURLContradiction(rows) = {Problem("contradiction", ids(f), "reject") : f \in {g \in crisp : clash(g)}}
    BY DEF CheckURLContradiction
  <2>3. \A f : Problem("contradiction", ids(f), "reject").rule = "contradiction" /\ Problem("contradiction", ids(f), "reject").ids = ids(f)
    BY DEF Problem
  <2> HIDE DEF ids, clash, crisp
  <2>4. QED
    BY <2>1, <2>2, <2>3 DEF CheckFormal
<1>3. ASSUME NEW a \in rows, NEW b \in rows, opposite(a, b) PROVE \E x \in found : {a.id, b.id} \subseteq x
  <2>1. a \in group(a) /\ b \in group(a) /\ a \in crisp
    BY <1>3
  <2>2. IntervalsOverlap(a, b) /\ IntervalsOverlap(b, a)
    BY <1>1, <1>3, MeetingDays DEF Whole
  <2>3. clash(a)
    BY <1>1, <1>3, <2>1, <2>2
  <2>4. ids(a) \in found /\ {a.id, b.id} \subseteq ids(a)
    BY <1>2, <2>1, <2>3
  <2>5. QED
    BY <2>4
<1>4. ASSUME NEW x \in found PROVE \E a, b \in rows : {a.id, b.id} \subseteq x /\ opposite(a, b)
  <2>1. PICK f \in crisp : clash(f) /\ x = ids(f)
    BY <1>2
  <2>2. PICK a \in group(f), b \in group(f) : ~a.neg /\ b.neg /\ IntervalsOverlap(a, b)
    BY <2>1
  <2>3. a \in rows /\ b \in rows /\ {a.id, b.id} \subseteq x
    BY <2>1, <2>2
  <2>4. \E day \in Days : ActiveAt(a, day) /\ ActiveAt(b, day)
    BY <1>1, <2>2, <2>3, CommonDay
  <2>5. opposite(a, b)
    BY <2>2, <2>4
  <2>6. QED
    BY <2>3, <2>5
<1>5. QED
  BY <1>3, <1>4 DEF ContradictionsFound

(* For every set of facts none of which ends before it begins and every       *)
(* claim, the formal audit reports every two rows that contradict each other, *)
(* and no group without such two; the adjudication names no winner with fewer *)
(* than two sources, of whatever kind, and leaves a claim open that has two    *)
(* fresh first-hand sources on each side (formal.go, CheckURLContradiction;   *)
(* contradict.go, Adjudicate).                                                *)
THEOREM AuditsDecideRightly ==
    ASSUME WholeSpans
    PROVE  AuditInit /\ [][AuditNext]_auditVars => []AuditsDecide
<1> DEFINE Given == rows \in FactRows /\ claim \in Claims
<1>1. AuditInit => Given
  BY DEF AuditInit
<1>2. Given /\ [AuditNext]_auditVars => Given'
  BY DEF AuditNext, EditSoT, Truncate, Fill, WriterDies, ReadSoT, auditVars
<1>3. Given => AuditsDecide
  BY Ties, Clashes DEF AuditsDecide
<1> HIDE DEF Given
<1>4. QED
  BY <1>1, <1>2, <1>3, PTL
-----------------------------------------------------------------------------
(* FactStore. *)

Listed(source) == \E names : source.yes \in Seq(names) /\ source.no \in Seq(names)

(* What a leaf needs to be shown as a fact.                                   *)
Evidenced(source) == SourceCount(source) >= 2

FactTypes ==
    /\ world \in Worlds /\ \A v \in Worlds : running \subseteq DOMAIN v.dir
    /\ \A id \in DOMAIN leafs : Listed(id.source)

(* A row of the database has no empty column.                                 *)
RowsFull == \A id \in DOMAIN leafs : leafs[id].conf # "" /\ leafs[id].how # "" /\ leafs[id].loc # ""

RowsEvidenced ==
    \A id \in DOMAIN leafs \ byHand : leafs[id].root = "facts" => Evidenced(id.source)

(* What is still to be written would not spoil that.                          *)
Writable(l, entered) ==
    Listed(l.id.source) /\ (l.row.root = "facts" => l.id \in entered \/ Evidenced(l.id.source))
Pending == \A l \in toWrite : Writable(l, byHand)

FactInv == FactTypes /\ RowsFull /\ RowsEvidenced /\ Pending

LEMMA PairListed == ASSUME NEW a, NEW b PROVE Listed(Pair(a, b))
<1>1. Pair(a, b).yes = <<a, b>> /\ Pair(a, b).no = <<>>
  BY DEF Pair
<1>2. <<a, b>> \in Seq({a, b}) /\ <<>> \in Seq({a, b})
  OBVIOUS
<1>3. QED
  BY <1>1, <1>2 DEF Listed

LEMMA RecordListed == ASSUME NEW l \in LeafRecord PROVE Listed(l.id.source)
<1>1. l.id.source.yes \in Seq(STRING) /\ l.id.source.no \in Seq(STRING)
  BY DEF LeafRecord, LeafSource
<1>2. QED
  BY <1>1 DEF Listed

(* Two different names are two sources.                                       *)
LEMMA PairCounts ==
    ASSUME NEW a, NEW b, a # b
    PROVE  SourceCount(Pair(a, b)) >= 2
<1>1. Parts(Pair(a, b)) = {<<a>>, <<b>>}
  <2>1. Pair(a, b).no = <<>> /\ Pair(a, b).yes = <<a, b>>
    BY DEF Pair
  <2>2. DOMAIN <<a, b>> = {1, 2} /\ <<a, b>>[1] = a /\ <<a, b>>[2] = b
    OBVIOUS
  <2>3. {<< <<a, b>>[i] >> : i \in DOMAIN <<a, b>>} = {<<a>>, <<b>>}
    BY <2>2
  <2>4. QED
    BY <2>1, <2>3 DEF Parts
<1>2. <<a>> # <<b>> /\ IsFiniteSet({<<a>>, <<b>>})
  <2>1. IsFiniteSet({<<a>>}) /\ {<<a>>, <<b>>} = {<<a>>} \cup {<<b>>}
    BY FS_Singleton
  <2>2. QED
    BY <2>1, FS_AddElement
<1>3. QED
  BY <1>1, <1>2, TwoOrMore DEF SourceCount

(* A list of names has no more members than places.                           *)
LEMMA FewPieces ==
    ASSUME NEW S, NEW q \in Seq(S)
    PROVE  LET pieces == {<<q[i]>> : i \in DOMAIN q} IN
           IsFiniteSet(pieces) /\ Cardinality(pieces) \in Nat /\ Cardinality(pieces) <= Len(q)
<1> DEFINE pieces == {<<q[i]>> : i \in DOMAIN q}
<1>1. DOMAIN q = 1 .. Len(q) /\ Len(q) \in Nat
  OBVIOUS
<1>2. IsFiniteSet(DOMAIN q) /\ Cardinality(DOMAIN q) = Len(q)
  <2>1. \A n \in Nat : IsFiniteSet(1 .. n) /\ Cardinality(1 .. n) = n
    BY FS_Interval
  <2>2. QED
    BY <1>1, <2>1
<1>3. [i \in DOMAIN q |-> <<q[i]>>] \in Surjection(DOMAIN q, pieces)
  BY DEF Surjection
<1> HIDE DEF pieces
<1>4. IsFiniteSet(pieces) /\ Cardinality(pieces) <= Cardinality(DOMAIN q)
  BY <1>2, <1>3, FS_Surjection
<1>5. Cardinality(pieces) \in Nat
  BY <1>4, FS_CardinalityType
<1>6. QED
  BY <1>2, <1>4, <1>5 DEF pieces

LEMMA ShortTail ==
    ASSUME NEW S, NEW q \in Seq(S), q # <<>>, Len(q) < 2
    PROVE  DOMAIN Tail(q) = {}
<1>1. Len(q) \in Nat \ {0}
  OBVIOUS
<1>2. DOMAIN Tail(q) = 1 .. Len(q) - 1
  OBVIOUS
<1>3. QED
  BY <1>1, <1>2

(* Two sources are named in two places on one side.                           *)
LEMMA CountedIsListed ==
    ASSUME NEW source, Listed(source), SourceCount(source) >= 2
    PROVE  /\ Len(source.yes) \in Nat /\ Len(source.no) \in Nat
           /\ Len(source.yes) >= 2 \/ Len(source.no) >= 2
           /\ source.no = <<>> => Len(source.yes) >= 2
<1>1. PICK S : source.yes \in Seq(S) /\ source.no \in Seq(S)
  BY DEF Listed
<1>2. Len(source.yes) \in Nat /\ Len(source.no) \in Nat
  BY <1>1
<1>3. CASE source.no = <<>>
  <2>1. Cardinality({<<source.yes[i]>> : i \in DOMAIN source.yes}) <= Len(source.yes)
        /\ Cardinality({<<source.yes[i]>> : i \in DOMAIN source.yes}) \in Nat
    BY <1>1, FewPieces
  <2>2. SourceCount(source) = Cardinality({<<source.yes[i]>> : i \in DOMAIN source.yes})
    BY <1>3 DEF SourceCount, Parts
  <2>3. QED
    BY <1>2, <2>1, <2>2
<1>4. CASE source.no # <<>>
  <2> SUFFICES ASSUME Len(source.yes) < 2, Len(source.no) < 2 PROVE FALSE
    BY <1>2, <1>4
  <2> DEFINE front == Front(source.yes)
             tail == Tail(source.no)
  <2>1. DOMAIN front = {}
    <3>1. front = SubSeq(source.yes, 1, Len(source.yes) - 1) /\ Len(source.yes) - 1 < 1
      BY <1>2 DEF Front
    <3>2. Len(front) = 0 /\ front \in Seq(S)
      BY <1>1, <1>2, <3>1
    <3>3. QED
      BY <3>2
  <2>2. DOMAIN tail = {}
    BY <1>1, <1>4, ShortTail
  <2>3. Parts(source) = {<<Last(source.yes), Head(source.no)>>}
    <3> HIDE DEF front, tail
    <3>1. {<<front[i]>> : i \in DOMAIN front} = {} /\ {<<tail[i]>> : i \in DOMAIN tail} = {}
      BY <2>1, <2>2
    <3>2. QED
      BY <1>4, <3>1 DEF Parts, front, tail
  <2>4. Cardinality(Parts(source)) = 1
    BY <2>3, FS_Singleton
  <2>5. QED
    BY <2>4 DEF SourceCount
<1>5. QED
  BY <1>2, <1>3, <1>4

LEMMA ComposeFound ==
    ASSUME FactTypes, NEW n \in DOMAIN world.dir, Declaring(n) # {}
    PROVE  ComposeOf(n).base # "docker ps"
<1>1. /\ Declaring(n) \subseteq Nat /\ Declaring(n) \subseteq DOMAIN world.dir[n]
      /\ \A i \in DOMAIN world.dir[n] : world.dir[n][i].base # "docker ps"
  BY FactAssumption DEF FactTypes, Declaring
<1>2. \E i \in Declaring(n) : \A j \in Declaring(n) : i <= j
  <2>1. IsWellFoundedOn(Less, Nat)
    BY NatLessThanWellFounded DEF OpToRel, Less
  <2>2. PICK i \in Declaring(n) : \A j \in Declaring(n) : ~(<<j, i>> \in Less)
    BY <1>1, <2>1, WFMin
  <2>3. ASSUME NEW j \in Declaring(n) PROVE i <= j
    <3>1. i \in Nat /\ j \in Nat /\ ~(j < i)
      BY <1>1, <2>2 DEF Less
    <3>2. QED
      BY <3>1
  <2>4. QED
    BY <2>3
<1>3. (CHOOSE i \in Declaring(n) : \A j \in Declaring(n) : i <= j) \in Declaring(n)
  BY <1>2
<1>4. QED
  BY <1>1, <1>3 DEF ComposeOf

(* What the tools find rests on two sources.                                  *)
LEMMA FoundIsEvidenced ==
    ASSUME FactTypes, NEW names, names \subseteq DOMAIN world.dir, NEW l \in BuildFacts(names) \cup CRMAssocFacts
    PROVE  \E text, a, b, type, how : a # b /\ l = Fact(text, a, b, type, how)
<1>1. CASE l \in PairedFacts(names)
  <2>1. PICK n \in names : Declaring(n) # {} /\ l = Fact(<<"declared", n, ComposeOf(n).base>>, "docker ps", ComposeOf(n).base, "fact", "facts/extract")
    BY <1>1 DEF PairedFacts
  <2>2. QED
    BY <2>1, ComposeFound
<1>2. CASE l \in ComposeFacts(names)
  <2>1. PICK n \in names : /\ n \in UNION {f.services : f \in ToSet(world.composes)}
                           /\ l = Fact(<<"in compose", n>>, "docker ps", world.composes[1].base, "fact", "facts/extract")
    BY <1>2 DEF ComposeFacts
  <2>2. DOMAIN world.composes # {}
    BY <2>1 DEF ToSet
  <2>3. world.composes[1].base # "docker ps"
    <3>1. /\ DOMAIN world.composes = 1 .. Len(world.composes) /\ Len(world.composes) \in Nat
          /\ \A i \in DOMAIN world.composes : world.composes[i].base # "docker ps"
      BY FactAssumption DEF FactTypes
    <3>2. 1 \in DOMAIN world.composes
      <4>1. \A k \in Nat : 1 .. k # {} => 1 \in 1 .. k
        OBVIOUS
      <4>2. QED
        BY <2>2, <3>1, <4>1
    <3>3. QED
      BY <3>1, <3>2
  <2>4. QED
    BY <2>1, <2>3
<1>3. CASE l \in HostFacts
  BY <1>3 DEF HostFacts
<1>4. CASE l \in KnownFacts(names)
  BY <1>4 DEF KnownFacts
<1>5. CASE l \in CRMAssocFacts
  <2>1. CASE \E o \in ToSet(world.orgs) : l \in {Associated(p, o.label) : p \in PersonsOf(MatchedCompany(o)[1])}
    <3>1. PICK o, p : l = Associated(p, o.label)
      BY <2>1
    <3>2. QED
      BY <3>1 DEF Associated
  <2>2. CASE \E pr \in world.projects :
               l \in {Associated(c, pr.title) : c \in {d \in pr.companies : MatchCompanyName(d, OrgLabels) # <<>>}}
    <3>1. PICK pr, c : l = Associated(c, pr.title)
      BY <2>2
    <3>2. QED
      BY <3>1 DEF Associated
  <2> DEFINE people == UNION {{Associated(p, o.label) : p \in PersonsOf(MatchedCompany(o)[1])} :
                                o \in {q \in ToSet(world.orgs) : MatchedCompany(q) # <<>>}}
               firms == UNION {{Associated(c, pr.title) : c \in {d \in pr.companies : MatchCompanyName(d, OrgLabels) # <<>>}} :
                               pr \in world.projects}
  <2>4. CRMAssocFacts = people \cup firms
    BY DEF CRMAssocFacts
  <2>5. CASE l \in people
    BY ONLY <2>1, <2>5, Zenon
  <2>6. CASE l \in firms
    BY ONLY <2>2, <2>6, Zenon
  <2>7. l \in people \/ l \in firms
    <3>1. HIDE DEF people, firms
    <3>2. QED
      BY <1>5, <2>4
  <2>8. QED
    BY <2>5, <2>6, <2>7
<1>6. QED
  BY <1>1, <1>2, <1>3, <1>4, <1>5 DEF BuildFacts

LEMMA FoundIsWritable ==
    ASSUME FactTypes, NEW names, names \subseteq DOMAIN world.dir, NEW l \in BuildFacts(names) \cup CRMAssocFacts,
           NEW entered
    PROVE  Writable(l, entered)
<1>1. PICK text, a, b, type, how : a # b /\ l = Fact(text, a, b, type, how)
  BY FoundIsEvidenced
<1>2. l.id.source = Pair(a, b)
  BY <1>1 DEF Fact, Leaf
<1>3. QED
  BY <1>1, <1>2, PairListed, PairCounts DEF Writable, Evidenced

LEMMA RowFull ==
    ASSUME NEW l
    PROVE  /\ StoredRow(l).conf # "" /\ StoredRow(l).how # "" /\ StoredRow(l).loc # ""
           /\ StoredRow(l).root = "facts" => l.row.root = "facts"
BY DEF StoredRow, Or

(* One leaf is written.                                                       *)
LEMMA UpsertKeeps ==
    ASSUME FactInv, NEW l, leafs' = UpsertRow(leafs, l), byHand \subseteq byHand', Writable(l, byHand'),
           UNCHANGED <<world, running>>, toWrite' \subseteq toWrite
    PROVE  FactInv'
<1>1. /\ DOMAIN leafs' = DOMAIN leafs \cup {l.id}
      /\ leafs'[l.id] = StoredRow(l) /\ \A id \in DOMAIN leafs \ {l.id} : leafs'[id] = leafs[id]
  BY DEF UpsertRow
<1>2. FactTypes'
  BY <1>1 DEF FactInv, FactTypes, Writable
<1>3. RowsFull'
  BY <1>1, RowFull DEF FactInv, RowsFull
<1>4. RowsEvidenced'
  BY <1>1, RowFull DEF FactInv, RowsEvidenced, Writable
<1>5. Pending'
  BY DEF FactInv, Pending, Writable
<1>6. QED
  BY <1>2, <1>3, <1>4, <1>5 DEF FactInv

LEMMA PromotedIsEvidenced ==
    ASSUME FactInv, NEW l \in PromoteEligible(InfoRows)
    PROVE  Listed(l.id.source) /\ Evidenced(l.id.source)
<1>1. PICK m \in InfoRows : SourceCount(m.id.source) >= 2 /\ l.id = m.id
  <2>1. PICK m \in InfoRows :
            /\ SourceCount(m.id.source) >= 2
            /\ l = [id |-> m.id,
                    row |-> [root |-> "facts", conf |-> m.row.conf, loc |-> m.row.loc,
                             how |-> IF m.row.how \in {"", "kb/index"} THEN "facts/promote" ELSE m.row.how]]
    BY DEF PromoteEligible
  <2>2. l.id = m.id
    BY <2>1
  <2>3. QED
    BY <2>1, <2>2
<1>2. PICK id \in DOMAIN leafs : m.id.source = id.source
  <2>1. PICK id \in DOMAIN leafs :
            m = Leaf(id.text, id.source, "", id.type, leafs[id].root, leafs[id].conf, leafs[id].how, leafs[id].loc)
    BY <1>1 DEF InfoRows
  <2>2. m.id.source = id.source
    BY <2>1 DEF Leaf
  <2>3. QED
    BY <2>2
<1>3. QED
  BY <1>1, <1>2 DEF FactInv, FactTypes, Evidenced

LEMMA PromoteKeeps == ASSUME FactInv, Promote PROVE FactInv'
<1>1. UNCHANGED <<world, running, toWrite, byHand>>
  BY DEF Promote
<1>2. CASE UNCHANGED leafs
  BY <1>1, <1>2 DEF FactInv, FactTypes, RowsFull, RowsEvidenced, Pending
<1>3. CASE leafs' \in AddRows(leafs, PromoteEligible(InfoRows))
  <2>1. PICK s \in Survivors(PromoteEligible(InfoRows)) :
            leafs' = [id \in DOMAIN leafs \cup {l.id : l \in s} |->
                        IF \E l \in s : l.id = id THEN StoredRow(CHOOSE l \in s : l.id = id) ELSE leafs[id]]
    BY <1>3 DEF AddRows
  <2>2. \A l \in s : Listed(l.id.source) /\ Evidenced(l.id.source)
    BY PromotedIsEvidenced DEF Survivors
  <2>3. ASSUME NEW id \in DOMAIN leafs'
        PROVE  \/ id \in DOMAIN leafs /\ leafs'[id] = leafs[id]
               \/ \E l \in s : id = l.id /\ leafs'[id] = StoredRow(l)
    BY <2>1
  <2>4. FactTypes'
    BY <1>1, <2>2, <2>3 DEF FactInv, FactTypes
  <2>5. RowsFull'
    <3> SUFFICES ASSUME NEW id \in DOMAIN leafs'
                 PROVE  leafs'[id].conf # "" /\ leafs'[id].how # "" /\ leafs'[id].loc # ""
      BY DEF RowsFull
    <3>1. CASE id \in DOMAIN leafs /\ leafs'[id] = leafs[id]
      BY <3>1 DEF FactInv, RowsFull
    <3>2. CASE \E l \in s : leafs'[id] = StoredRow(l)
      BY <3>2, RowFull
    <3>3. QED
      BY <2>3, <3>1, <3>2
  <2>6. RowsEvidenced'
    BY <1>1, <2>2, <2>3 DEF FactInv, RowsEvidenced
  <2>7. QED
    BY <1>1, <2>4, <2>5, <2>6 DEF FactInv, Pending
<1>4. QED
  BY <1>2, <1>3 DEF Promote

LEMMA RebuildKeeps == ASSUME FactInv, NEW json \in SUBSET JsonFacts, Rebuild(json) PROVE FactInv'
<1> DEFINE entered == {[l EXCEPT !.row.root = "facts", !.row.conf = "confirmed", !.id.type = "fact"] : l \in json}
<1>1. /\ leafs' = <<>> /\ UNCHANGED <<world, running>>
      /\ toWrite' = InfoLeafs \cup BuildFacts(world.running) \cup entered
      /\ byHand' = {l.id : l \in entered}
  BY DEF Rebuild
<1>2. DOMAIN leafs' = {}
  <2>1. DOMAIN <<>> = {}
    OBVIOUS
  <2>2. QED
    BY <1>1, <2>1
<1>3. FactTypes' /\ RowsFull' /\ RowsEvidenced'
  BY <1>1, <1>2 DEF FactInv, FactTypes, RowsFull, RowsEvidenced
<1>4. ASSUME NEW l \in toWrite' PROVE Writable(l, byHand')
  <2>1. CASE l \in InfoLeafs
    BY <2>1, FactAssumption, RecordListed DEF Writable
  <2>2. CASE l \in BuildFacts(world.running)
    <3>1. world.running \subseteq DOMAIN world.dir
      BY FactAssumption DEF FactInv, FactTypes
    <3>2. QED
      BY <2>2, <3>1, FoundIsWritable DEF FactInv
  <2>3. CASE l \in entered
    <3>1. PICK j \in json : l = [j EXCEPT !.row.root = "facts", !.row.conf = "confirmed", !.id.type = "fact"]
      BY <2>3
    <3>2. j \in LeafRecord
      BY FactAssumption
    <3>3. l.id.source = j.id.source
      BY <3>1, <3>2 DEF LeafRecord
    <3>4. QED
      BY <1>1, <2>3, <3>2, <3>3, RecordListed DEF Writable
  <2>4. QED
    BY <1>1, <2>1, <2>2, <2>3
<1>5. Pending'
  BY <1>4 DEF Pending
<1>6. QED
  BY <1>3, <1>5 DEF FactInv

LEMMA FactStep == ASSUME FactInv, FactNext PROVE FactInv'
<1>1. CASE WorldChanges
  BY <1>1 DEF WorldChanges, FactInv, FactTypes, RowsFull, RowsEvidenced, Pending
<1>2. CASE DockerPS
  <2>1. running' = world.running /\ UNCHANGED <<world, leafs, toWrite, byHand>>
    BY <1>2 DEF DockerPS
  <2>2. FactTypes'
    BY <2>1, FactAssumption DEF FactInv, FactTypes
  <2>3. QED
    BY <2>1, <2>2 DEF FactInv, RowsFull, RowsEvidenced, Pending
<1>3. CASE Extract \/ ProveCRM
  <2>1. UNCHANGED <<world, leafs, running, byHand>> /\ toWrite' \subseteq BuildFacts(running) \cup CRMAssocFacts
    BY <1>3 DEF Extract, ProveCRM
  <2>2. running \subseteq DOMAIN world.dir
    BY DEF FactInv, FactTypes
  <2>3. \A l \in toWrite' : Writable(l, byHand)
    BY <2>1, <2>2, FoundIsWritable DEF FactInv
  <2>4. QED
    BY <2>1, <2>3 DEF FactInv, FactTypes, RowsFull, RowsEvidenced, Pending
<1>4. CASE WriteFact
  <2>1. UNCHANGED <<world, running, byHand>>
    BY <1>4 DEF WriteFact
  <2>2. CASE UNCHANGED <<leafs, toWrite>>
    BY <2>1, <2>2 DEF FactInv, FactTypes, RowsFull, RowsEvidenced, Pending
  <2>3. CASE \E l \in toWrite : leafs' = UpsertRow(leafs, l) /\ toWrite' = toWrite \ {l}
    <3>1. PICK l \in toWrite : leafs' = UpsertRow(leafs, l) /\ toWrite' = toWrite \ {l}
      BY <2>3
    <3>2. Writable(l, byHand')
      BY <2>1, <3>1 DEF FactInv, Pending
    <3>3. QED
      BY <2>1, <3>1, <3>2, UpsertKeeps
  <2>4. QED
    BY <1>4, <2>2, <2>3 DEF WriteFact
<1>5. CASE FactToolDies
  BY <1>5 DEF FactToolDies, FactInv, FactTypes, RowsFull, RowsEvidenced, Pending
<1>6. CASE \E l \in ClientLeafs : ClientAdds(l)
  <2>1. PICK l \in ClientLeafs : ClientAdds(l)
    BY <1>6
  <2>2. /\ leafs' = UpsertRow(leafs, l) /\ UNCHANGED <<world, running, toWrite>>
        /\ byHand \subseteq byHand' /\ (l.row.root = "facts" => l.id \in byHand')
    BY <2>1 DEF ClientAdds
  <2>3. Writable(l, byHand')
    BY <2>2, FactAssumption, RecordListed DEF Writable
  <2>4. QED
    BY <2>2, <2>3, UpsertKeeps
<1>7. QED
  BY <1>1, <1>2, <1>3, <1>4, <1>5, <1>6, PromoteKeeps, RebuildKeeps DEF FactNext

(* Whatever the programs find, in whichever order they run, die and start     *)
(* anew while containers and documents change, a leaf clients are shown as a  *)
(* confirmed fact names two sources, and the evidence audit has nothing       *)
(* against it, unless it was entered as a fact by hand, but that a claim with *)
(* sources on both sides, which facts/promote lets pass, is shown as          *)
(* confirmed (promotefacts.go, PromoteEligible; extract.go, buildFacts).      *)
THEOREM FactsRestOnTwoSources == FactInit /\ [][FactNext]_factVars => []FactsAreEvidenced
<1>1. FactInit => FactInv
  <2>1. FactInit => DOMAIN leafs = {}
    <3>1. DOMAIN <<>> = {}
      OBVIOUS
    <3>2. QED
      BY <3>1 DEF FactInit
  <2>2. QED
    BY <2>1 DEF FactInit, FactInv, FactTypes, RowsFull, RowsEvidenced, Pending
<1>2. FactInv /\ [FactNext]_factVars => FactInv'
  <2>1. FactInv /\ UNCHANGED factVars => FactInv'
    BY DEF FactInv, FactTypes, RowsFull, RowsEvidenced, Pending, factVars
  <2>2. QED
    BY <2>1, FactStep
<1>3. FactInv => FactsAreEvidenced
  <2> SUFFICES ASSUME FactInv, NEW id \in DOMAIN leafs \ byHand, Gate(leafs[id])
               PROVE  /\ Cardinality(Parts(id.source)) >= 2
                      /\ CheckFactRow(id, leafs[id]) = IF id.source.no = <<>> THEN {} ELSE {"vs"}
    BY DEF FactsAreEvidenced
  <2>1. SourceCount(id.source) >= 2 /\ Listed(id.source)
    BY DEF Gate, FactInv, FactTypes, RowsEvidenced, Evidenced
  <2>2. /\ Len(id.source.yes) \in Nat /\ Len(id.source.no) \in Nat
        /\ Len(id.source.yes) >= 2 \/ Len(id.source.no) >= 2
    BY <2>1, CountedIsListed
  <2>3. leafs[id].conf = "confirmed" /\ leafs[id].how # "" /\ leafs[id].loc # ""
    BY DEF Gate, FactInv, RowsFull
  <2>4. CheckFactRow(id, leafs[id]) = IF id.source.no = <<>> THEN {} ELSE {"vs"}
    <3>1. ~(Len(id.source.yes) < 2 /\ Len(id.source.no) < 2)
      BY <2>2
    <3>2. CASE id.source.no = <<>>
      BY <2>3, <3>1, <3>2 DEF CheckFactRow
    <3>3. CASE id.source.no # <<>>
      BY <2>3, <3>1, <3>3 DEF CheckFactRow
    <3>4. QED
      BY <3>2, <3>3
  <2>5. QED
    BY <2>1, <2>4 DEF SourceCount
<1>4. QED
  BY <1>1, <1>2, <1>3, PTL

-----------------------------------------------------------------------------
(* ChatFlow. *)

OnChat == {"create", "fetch", "got", "write"}   \* the first chat of the queue is being done

ChatTypes ==
    /\ queue \in Seq(Chats)
    /\ sent = [c \in Chats |-> sent[c]]
    /\ \A c \in Chats : sent[c] \in Nat /\ sent[c] <= Len(MsgsOf[c])
    /\ jsonl = [c \in Chats |-> jsonl[c]]
    /\ \A c \in Chats : jsonl[c] = NoFile \/ jsonl[c] \subseteq 1 .. sent[c]
    /\ prog \in {"none", "telegram", "linkedin", "whatsapp", "import", "facts", "apply"}
    /\ step \in OnChat \cup {"idle", "next", "import", "imported", "facts", "apply", "adding"}
    /\ step \in OnChat => queue # <<>>
    /\ step \in OnChat \cup {"next"} => prog \in {"telegram", "linkedin", "whatsapp"}
    /\ step \in OnChat \cup {"next"} => \A c \in ToSet(queue) : PlatformOf[c] = prog
    /\ step = "create" => prog \in {"telegram", "whatsapp"}
    /\ step \in {"fetch", "got"} => prog \in {"telegram", "linkedin"}
    /\ step \in {"got", "write"} /\ answer # Failed => answer \subseteq 1 .. sent[Head(queue)]
    /\ step = "write" => answer # Failed

(* Only the file that is open is empty, or one that was when a program was     *)
(* killed or a write failed; LinkedIn opens its file when it has something to  *)
(* write.                                                                     *)
Open == step = "write" \/ (step \in {"fetch", "got"} /\ prog = "telegram")
Worthwhile ==
    /\ step = "create" /\ prog = "whatsapp" => WholeHistory(Head(queue)) # {}
    /\ step = "write" /\ answer = {} => prog = "telegram" /\ Head(queue) \in failedSync
EmptyFiles ==
    \A c \in Chats : jsonl[c] = {} =>
        \/ c \in cut
        \/ PlatformOf[c] = "telegram" /\ c \in failedSync
        \/ Open /\ c = Head(queue)

SyncInv == ChatTypes /\ Worthwhile /\ EmptyFiles

LEMMA ChatsHaveMessages == \A c \in Chats : Len(MsgsOf[c]) \in Nat /\ 1 <= Len(MsgsOf[c])
<1>1. \A S : \A s \in Seq(S) : Len(s) \in Nat /\ (s # <<>> => 1 <= Len(s))
  OBVIOUS
<1>2. QED
  BY <1>1, ChatAssumption

LEMMA ChatBegins == ChatInit => SyncInv
<1> SUFFICES ASSUME ChatInit PROVE SyncInv
  OBVIOUS
<1> USE DEF ChatInit
<1>2. ChatTypes
  BY ChatsHaveMessages, NothingInIt DEF ChatTypes, OnChat, NoFile
<1>3. QED
  BY <1>2 DEF SyncInv, Worthwhile, EmptyFiles, NoFile

LEMMA MessageSentKeeps == ASSUME SyncInv, NEW c \in Chats, MessageSent(c) PROVE SyncInv'
<1> USE DEF SyncInv, MessageSent, syncVars, applyVars
<1>1. /\ \A d \in Chats : sent[d] \in Nat /\ sent[d] <= sent'[d] /\ sent'[d] \in Nat /\ sent'[d] <= Len(MsgsOf[d])
      /\ sent' = [d \in Chats |-> sent'[d]]
  <2>1. \A d \in Chats : sent'[d] = IF d = c THEN sent[c] + 1 ELSE sent[d]
    BY DEF ChatTypes
  <2>2. sent' = [d \in Chats |-> sent'[d]]
    BY DEF ChatTypes
  <2>3. \A d \in Chats : sent[d] \in Nat /\ sent[d] <= Len(MsgsOf[d]) /\ Len(MsgsOf[d]) \in Nat
    BY ChatsHaveMessages DEF ChatTypes
  <2>4. QED
    BY <2>1, <2>2, <2>3
<1>2. \A d \in Chats : 1 .. sent[d] \subseteq 1 .. sent'[d] /\ WholeHistory(d) \subseteq WholeHistory(d)'
  <2>1. \A d \in Chats : 1 .. sent[d] \subseteq 1 .. sent'[d]
    BY <1>1
  <2>2. QED
    BY <2>1 DEF WholeHistory, Kept, Msg
<1>3. queue # <<>> => Head(queue) \in Chats
  BY HeadAndTail DEF ChatTypes
<1>4. ChatTypes'
  BY <1>1, <1>2, <1>3 DEF ChatTypes, OnChat
<1>5. Worthwhile'
  <2>1. step = "create" => queue # <<>>
    BY DEF ChatTypes, OnChat
  <2>2. QED
    BY <1>2, <1>3, <2>1 DEF Worthwhile
<1>6. QED
  BY <1>4, <1>5 DEF EmptyFiles, Open

LEMMA ChatStartKeeps ==
    ASSUME SyncInv, NEW p \in {"telegram", "linkedin", "whatsapp", "import", "facts", "apply"}, ChatStart(p)
    PROVE  SyncInv'
<1> USE DEF SyncInv, ChatStart
<1> DEFINE mine == {c \in Chats : IF p = "import" THEN PlatformOf[c] # "linkedin" ELSE PlatformOf[c] = p}
<1>1. IsFiniteSet(mine)
  BY ChatAssumption, FS_Subset
<1>2. queue' \in Seq(mine) /\ ToSet(queue') = mine
  BY <1>1, ListedOnce
<1>3. queue' \in Seq(Chats)
  BY <1>2
<1>4. step' \in {"idle", "next", "import", "facts", "apply"} /\ (step' = "next" => Tool(p))
  BY DEF Tool
<1>5. ChatTypes'
  BY <1>2, <1>3, <1>4 DEF ChatTypes, OnChat, Tool
<1>6. QED
  BY <1>4, <1>5 DEF Worthwhile, EmptyFiles, Open

LEMMA NextChatKeeps == ASSUME SyncInv, NextChat PROVE SyncInv'
<1> USE DEF SyncInv, NextChat, applyVars
<1>1. queue # <<>> => Tail(queue) \in Seq(Chats) /\ ToSet(Tail(queue)) \subseteq ToSet(queue) /\ Head(queue) \in ToSet(queue)
  BY HeadAndTail DEF ChatTypes
<1>2. queue' \in Seq(Chats) /\ ToSet(queue') \subseteq ToSet(queue)
  BY <1>1 DEF ChatTypes
<1>3. WholeHistory(Head(queue))' = WholeHistory(Head(queue))' /\ \A c : WholeHistory(c)' = WholeHistory(c)
  BY DEF WholeHistory, Kept, Msg
<1>4. ChatTypes'
  BY <1>2 DEF ChatTypes, OnChat
<1>5. QED
  BY <1>3, <1>4 DEF Worthwhile, EmptyFiles, Open

LEMMA CreateKeeps == ASSUME SyncInv, Create PROVE SyncInv'
<1> USE DEF SyncInv, Create, applyVars
<1>1. queue # <<>> /\ Head(queue) \in Chats
  BY HeadAndTail DEF ChatTypes, OnChat
<1>2. WholeHistory(Head(queue)) \subseteq 1 .. sent[Head(queue)]
  BY DEF WholeHistory, Kept
<1>3. WholeHistory(Head(queue)) # Failed
  <2>1. sent[Head(queue)] \in Nat
    BY <1>1 DEF ChatTypes
  <2>2. -1 \notin 1 .. sent[Head(queue)]
    BY <2>1
  <2>3. QED
    BY <1>2, <2>2 DEF Failed
<1>4. ChatTypes'
  BY <1>1, <1>2, <1>3 DEF ChatTypes, OnChat
<1>5. QED
  BY <1>1, <1>4 DEF Worthwhile, EmptyFiles, Open, ChatTypes

LEMMA FetchKeeps == ASSUME SyncInv, Fetch PROVE SyncInv'
<1> USE DEF SyncInv, Fetch, applyVars
<1>1. queue # <<>> /\ Head(queue) \in Chats
  BY HeadAndTail DEF ChatTypes, OnChat
<1>2. Kept(Head(queue), Window(Head(queue))) \subseteq 1 .. sent[Head(queue)]
  BY DEF Window, Kept
<1>3. ChatTypes'
  BY <1>1, <1>2 DEF ChatTypes, OnChat
<1>4. QED
  BY <1>1, <1>3 DEF Worthwhile, EmptyFiles, Open, ChatTypes

LEMMA GotKeeps == ASSUME SyncInv, Got PROVE SyncInv'
<1> USE DEF SyncInv, Got, applyVars, Skip
<1>1. queue # <<>> /\ Head(queue) \in Chats /\ Tail(queue) \in Seq(Chats)
      /\ Head(queue) \in ToSet(queue) /\ ToSet(Tail(queue)) \subseteq ToSet(queue)
  BY HeadAndTail DEF ChatTypes, OnChat
<1>2. ChatTypes'
  BY <1>1 DEF ChatTypes, OnChat
<1>3. PlatformOf[Head(queue)] = prog /\ prog \in {"telegram", "linkedin"}
  BY <1>1 DEF ChatTypes, OnChat
<1>4. CASE step' = "next"
  BY <1>1, <1>2, <1>3, <1>4 DEF Worthwhile, EmptyFiles, Open, ChatTypes
<1>5. CASE step' # "next"
  BY <1>1, <1>2, <1>3, <1>5 DEF Worthwhile, EmptyFiles, Open, ChatTypes
<1>6. QED
  BY <1>4, <1>5

LEMMA WriteChatKeeps == ASSUME SyncInv, WriteChat PROVE SyncInv'
<1> USE DEF SyncInv, WriteChat, applyVars
<1>1. queue # <<>> /\ Head(queue) \in Chats /\ Tail(queue) \in Seq(Chats)
      /\ Head(queue) \in ToSet(queue) /\ ToSet(Tail(queue)) \subseteq ToSet(queue)
  BY HeadAndTail DEF ChatTypes, OnChat
<1>2. step' \in {"idle", "next"} /\ UNCHANGED <<sent, prog, answer, failedSync>> /\ queue' = Tail(queue)
  OBVIOUS
<1>3. PICK some \in SUBSET answer : /\ jsonl' = [jsonl EXCEPT ![Head(queue)] = some]
                                    /\ (some = answer /\ cut' = cut \ {Head(queue)}) \/ cut' = cut \cup {Head(queue)}
  OBVIOUS
<1>4. ChatTypes'
  BY <1>1, <1>2, <1>3 DEF ChatTypes, OnChat
<1>5. PlatformOf[Head(queue)] = prog
  BY <1>1 DEF ChatTypes, OnChat
<1>6. \A c \in Chats : jsonl'[c] = IF c = Head(queue) THEN some ELSE jsonl[c]
  BY <1>3 DEF ChatTypes
<1>7. CASE cut' = cut \cup {Head(queue)}
  BY <1>1, <1>2, <1>4, <1>6, <1>7 DEF Worthwhile, EmptyFiles, Open
<1>8. CASE some = answer /\ cut' = cut \ {Head(queue)}
  BY <1>1, <1>2, <1>4, <1>5, <1>6, <1>8 DEF Worthwhile, EmptyFiles, Open
<1>9. QED
  BY <1>3, <1>7, <1>8

LEMMA ImportKeeps == ASSUME SyncInv, Import PROVE SyncInv'
<1> USE DEF SyncInv, Import, applyVars
<1>1. queue' \in Seq(Chats) /\ step' \in {"import", "imported"}
  <2>1. queue \in Seq(Chats) /\ (queue # <<>> => Tail(queue) \in Seq(Chats))
    BY HeadAndTail DEF ChatTypes
  <2>2. CASE queue = <<>>
    BY <2>1, <2>2
  <2>3. CASE queue # <<>>
    BY <2>1, <2>3
  <2>4. QED
    BY <2>2, <2>3
<1>2. UNCHANGED <<sent, jsonl, prog, answer, cut, failedSync>>
  OBVIOUS
<1>3. ChatTypes'
  BY <1>1, <1>2 DEF ChatTypes, OnChat
<1>4. QED
  BY <1>1, <1>2, <1>3 DEF Worthwhile, EmptyFiles, Open

LEMMA KilledKeeps == ASSUME SyncInv, Killed PROVE SyncInv'
<1> USE DEF SyncInv, Killed, syncVars, applyVars
<1>1. ChatTypes'
  BY DEF ChatTypes, OnChat
<1>2. QED
  BY <1>1 DEF Worthwhile, EmptyFiles, Open

(* The deadline and the steps of import, facts and apply leave the files alone. *)
LEMMA OtherChatStepKeeps ==
    ASSUME SyncInv, Deadline \/ ImportEnds \/ Facts \/ Apply \/ Add \/ Applied \/ UNCHANGED chatVars
    PROVE  SyncInv'
<1>1. /\ UNCHANGED <<sent, jsonl, prog, queue, answer, cut, failedSync>>
      /\ step' = step \/ step' \in {"idle", "adding"}
  BY DEF Deadline, ImportEnds, Facts, Apply, Add, Applied, chatVars, syncVars
<1>2. ChatTypes'
  BY <1>1 DEF SyncInv, ChatTypes, OnChat
<1>3. \A c : WholeHistory(c)' = WholeHistory(c)
  BY <1>1 DEF WholeHistory, Kept, Msg
<1>4. CASE step' = step
  BY <1>1, <1>2, <1>3, <1>4 DEF SyncInv, Worthwhile, EmptyFiles, Open
<1>5. CASE step' # step
  <2>1. ~Open
    BY <1>1, <1>5 DEF Open, Deadline, ImportEnds, Facts, Apply, Add, Applied, chatVars
  <2>2. QED
    BY <1>1, <1>2, <1>5, <2>1 DEF SyncInv, Worthwhile, EmptyFiles, Open
<1>6. QED
  BY <1>4, <1>5

LEMMA SyncStepKeeps == ASSUME SyncInv, [ChatNext]_chatVars PROVE SyncInv'
BY MessageSentKeeps, ChatStartKeeps, NextChatKeeps, CreateKeeps, FetchKeeps, GotKeeps, WriteChatKeeps, ImportKeeps,
   KilledKeeps, OtherChatStepKeeps DEF ChatNext

LEMMA ChatsStaySynced == ChatInit /\ [][ChatNext]_chatVars => []SyncInv
BY ChatBegins, SyncStepKeeps, PTL

(* A sync that fails to fetch never leaves an empty file where messages were, *)
(* but for Telegram: Sync of chat/linkedin.go keeps the file it has when      *)
(* nothing parses, RunSyncWhatsApp only truncates what it is about to fill.   *)
(* A sync killed, or unable to write, while the file is open may.             *)
THEOREM NoFileIsEmptied == ChatInit /\ [][ChatNext]_chatVars => []SyncedStaysSynced
<1>1. SyncInv => SyncedStaysSynced
  BY DEF SyncInv, EmptyFiles, Open, SyncedStaysSynced
<1>2. QED
  BY <1>1, ChatsStaySynced, PTL

-----------------------------------------------------------------------------
(* ChatFlow: what an import puts into the corpus. *)

Imported(c) ==
    \E name \in NamesOf(c) : /\ MdFile(c, name) \in DOMAIN md
                             /\ md[MdFile(c, name)] = [chat |-> c, msgs |-> jsonl[c]]
SharesName(c) ==
    \E o \in Chats \ {c} : HasMessages(o) /\ PlatformOf[o] = PlatformOf[c] /\ NamesOf(o) \cap NamesOf(c) # {}

(* A chat waits, has its file, or shares the name of its file.                *)
Importing ==
    /\ step = "imported" => queue = <<>>
    /\ step \in {"import", "imported"} /\ ~missed =>
         \A c \in Chats : HasMessages(c) /\ PlatformOf[c] # "linkedin" =>
             c \in ToSet(queue) \/ Imported(c) \/ SharesName(c)

LEMMA SameNames ==
    ASSUME UNCHANGED jsonl
    PROVE  \A c : (HasMessages(c)' <=> HasMessages(c)) /\ NamesOf(c)' = NamesOf(c) /\ (SharesName(c)' <=> SharesName(c))
BY DEF HasMessages, SharesName, NamesOf, Senders, Said, Msg

LEMMA SameImports ==
    ASSUME UNCHANGED <<jsonl, md>>
    PROVE  \A c : (HasMessages(c)' <=> HasMessages(c)) /\ (Imported(c)' <=> Imported(c)) /\ (SharesName(c)' <=> SharesName(c))
BY SameNames DEF Imported, MdFile

LEMMA ImportingGoesOn ==
    ASSUME UNCHANGED <<jsonl, md, queue, missed, step>>, Importing PROVE Importing'
<1>1. \A c : (HasMessages(c)' <=> HasMessages(c)) /\ (Imported(c)' <=> Imported(c)) /\ (SharesName(c)' <=> SharesName(c))
  BY SameImports
<1>2. QED
  BY <1>1 DEF Importing

LEMMA ImportWrites ==
    ASSUME SyncInv, Importing, Import, queue # <<>> PROVE Importing'
<1> USE DEF Import
<1>0. PICK c : c = Head(queue)
  OBVIOUS
<1>1. ToSet(queue) = {c} \cup ToSet(Tail(queue)) /\ queue' = Tail(queue) /\ step' = "import" /\ jsonl' = jsonl /\ c \in Chats
  BY <1>0, HeadAndTail DEF SyncInv, ChatTypes
<1>2. \A d : (HasMessages(d)' <=> HasMessages(d)) /\ NamesOf(d)' = NamesOf(d) /\ (SharesName(d)' <=> SharesName(d))
  BY <1>1, SameNames
<1>3. CASE ~HasMessages(c) /\ UNCHANGED <<md, missed>>
  <2>1. \A d : Imported(d)' <=> Imported(d)
    BY <1>1, <1>3, SameImports
  <2>2. QED
    BY <1>1, <1>2, <1>3, <2>1 DEF Importing
<1>4. CASE missed' = TRUE
  BY <1>1, <1>4 DEF Importing
<1>5. ASSUME HasMessages(c), missed' = missed, NEW name \in NamesOf(c),
             WriteMd(MdFile(c, name), [chat |-> c, msgs |-> jsonl[c]])
      PROVE  Importing'
  <2>1. Imported(c)'
    BY <1>1, <1>2, <1>5 DEF Imported, WriteMd, MdFile
  <2>2. ASSUME NEW d \in Chats, d # c, Imported(d) PROVE Imported(d)' \/ SharesName(d)'
    <3>1. PICK n \in NamesOf(d) : MdFile(d, n) \in DOMAIN md /\ md[MdFile(d, n)] = [chat |-> d, msgs |-> jsonl[d]]
      BY <2>2 DEF Imported
    <3>2. CASE MdFile(d, n) = MdFile(c, name)
      <4>1. PlatformOf[d] = PlatformOf[c] /\ n = name
        BY <3>2 DEF MdFile
      <4>2. SharesName(d)
        BY <1>1, <1>5, <2>2, <3>1, <4>1 DEF SharesName
      <4>3. QED
        BY <1>2, <4>2
    <3>3. CASE MdFile(d, n) # MdFile(c, name)
      BY <1>1, <1>2, <1>5, <3>1, <3>3 DEF Imported, WriteMd, MdFile
    <3>4. QED
      BY <3>2, <3>3
  <2>3. QED
    BY <1>1, <1>2, <1>5, <2>1, <2>2 DEF Importing
<1>6. QED
  BY <1>0, <1>3, <1>4, <1>5

LEMMA ImportingKeeps ==
    ASSUME SyncInv, Importing, [ChatNext]_chatVars PROVE Importing'
<1>1. CASE Import
  <2>1. CASE queue = <<>>
    <3>1. step' = "imported" /\ UNCHANGED <<jsonl, md, queue, missed>> /\ step = "import"
      BY <1>1, <2>1 DEF Import
    <3>2. \A c : (HasMessages(c)' <=> HasMessages(c)) /\ (Imported(c)' <=> Imported(c)) /\ (SharesName(c)' <=> SharesName(c))
      BY <3>1, SameImports
    <3>3. QED
      BY <2>1, <3>1, <3>2 DEF Importing
  <2>2. QED
    BY <1>1, <2>1, ImportWrites
<1>2. ASSUME NEW p \in {"telegram", "linkedin", "whatsapp", "import", "facts", "apply"}, ChatStart(p)
      PROVE  Importing'
  <2>1. CASE p = "import"
    <3> DEFINE mine == {c \in Chats : PlatformOf[c] # "linkedin"}
    <3>1. IsFiniteSet(mine)
      BY ChatAssumption, FS_Subset
    <3>2. ToSet(SetToSeq(mine)) = mine
      BY <3>1, ListedOnce
    <3>3. queue' = SetToSeq(mine) /\ step' = "import"
      BY <1>2, <2>1 DEF ChatStart, Tool
    <3>4. QED
      BY <3>2, <3>3 DEF Importing
  <2>2. CASE p # "import"
    <3>1. step' \notin {"import", "imported"}
      BY <1>2, <2>2 DEF ChatStart, Tool
    <3>2. QED
      BY <3>1 DEF Importing
  <2>3. QED
    BY <2>1, <2>2
<1>3. CASE \/ NextChat \/ Create \/ Fetch \/ Got \/ WriteChat
           \/ ImportEnds \/ Facts \/ Apply \/ Add \/ Applied \/ Killed
  <2>1. step' \notin {"import", "imported"}
    BY <1>3 DEF NextChat, Create, Fetch, Got, Skip, WriteChat, ImportEnds, Facts, Apply, Add, Applied, Killed
  <2>2. QED
    BY <2>1 DEF Importing
<1>4. CASE Deadline \/ (\E c \in Chats : MessageSent(c)) \/ UNCHANGED chatVars
  <2>1. UNCHANGED <<jsonl, md, queue, missed, step>>
    BY <1>4 DEF Deadline, MessageSent, chatVars, syncVars, applyVars
  <2>2. QED
    BY <2>1, ImportingGoesOn
<1>5. QED
  BY <1>1, <1>2, <1>3, <1>4 DEF ChatNext

(* After RunImport of chat/import.go without a failed write every chat with    *)
(* messages has its markdown file, complete, unless another chat of the same   *)
(* platform goes by the same name: readJSONL names a file by the sender.      *)
THEOREM ImportsLoseNoChat == ChatInit /\ [][ChatNext]_chatVars => []ImportKeepsChats
<1>1. ChatInit => Importing
  BY DEF ChatInit, Importing
<1>2. Importing => ImportKeepsChats
  <2> SUFFICES ASSUME Importing, step = "imported", ~missed, NEW c \in Chats, HasMessages(c), PlatformOf[c] # "linkedin"
               PROVE  \/ \E f \in DOMAIN md : md[f] = [chat |-> c, msgs |-> jsonl[c]]
                      \/ \E o \in Chats \ {c} : /\ HasMessages(o) /\ PlatformOf[o] = PlatformOf[c]
                                                /\ NamesOf(o) \cap NamesOf(c) # {}
    BY DEF ImportKeepsChats
  <2>1. Imported(c) \/ SharesName(c)
    BY NothingInIt DEF Importing
  <2>2. QED
    BY <2>1 DEF Imported, SharesName
<1>3. QED
  BY <1>1, <1>2, ChatsStaySynced, ImportingKeeps, PTL

-----------------------------------------------------------------------------
(* ChatFlow: what an apply has put into the CRM. *)

(* Every fact belongs to someone the CRM can be searched for.                 *)
FactsNamed ==
    /\ crm = [k \in Contacts |-> crm[k]]
    /\ \A f \in factsFile : f.name \in DOMAIN FirstWord

FoundFor(f) == SearchContact(f, {})
Settled(k, f) == k = NoContact \/ Has(k, f) \/ FoundByAddress(k, f)

(* Until an add fails, what is not in the CRM is still to be added; addresses *)
(* added on the way may lead a search to another contact.                     *)
Applying ==
    /\ settled => \A f \in Searches : Settled(FoundFor(f), f)
    /\ step = "adding" => \A r \in todo : r.k \in Contacts /\ r.f.type \in {"phone", "email"}
    /\ step = "adding" /\ ~missed =>
         \A f \in Searches : Settled(FoundFor(f), f) \/ [k |-> FoundFor(f), f |-> f] \in todo
    /\ step = "adding" /\ ~missed /\ settled => \A r \in todo : FoundByAddress(r.k, r.f)

LEMMA FactsAreNamed == ASSUME SyncInv, FactsNamed, Facts PROVE FactsNamed'
<1>1. ASSUME NEW c \in Chats, HasMessages(c), NEW f \in FactsOf(c) PROVE f.name \in DOMAIN FirstWord
  <2>1. PICK n \in jsonl[c] : f \in {[name |-> name, type |-> g.type, value |-> g.value] : name \in FirstSender(c, n), g \in Msg(c, n).facts}
    BY <1>1 DEF FactsOf
  <2>2. f.name \in FirstSender(c, n)
    BY <2>1
  <2>3. jsonl[c] \subseteq DOMAIN MsgsOf[c]
    <3>1. jsonl[c] \subseteq 1 .. sent[c] /\ sent[c] \in Nat /\ sent[c] <= Len(MsgsOf[c])
      BY <1>1 DEF SyncInv, ChatTypes, HasMessages
    <3>2. \A S : \A s \in Seq(S) : DOMAIN s = 1 .. Len(s) /\ Len(s) \in Nat
      OBVIOUS
    <3>3. DOMAIN MsgsOf[c] = 1 .. Len(MsgsOf[c]) /\ Len(MsgsOf[c]) \in Nat
      BY <3>2, ChatAssumption
    <3>4. QED
      BY <3>1, <3>3
  <2>4. \A j \in jsonl[c] : Msg(c, j).from \in DOMAIN FirstWord
    <3>1. \A j \in jsonl[c] : Msg(c, j) \in ToSet(MsgsOf[c])
      BY <2>3 DEF Msg, ToSet
    <3>2. QED
      BY <3>1, ChatAssumption
  <2>5. QED
    BY <2>2, <2>4, ChatAssumption DEF FirstSender
<1> DEFINE all == UNION {FactsOf(c) : c \in {d \in Chats : PlatformOf[d] = "telegram" /\ HasMessages(d)}}
<1>2. factsFile' = factsFile \/ factsFile' = all
  BY DEF Facts
<1>3. UNCHANGED crm
  BY DEF Facts
<1>4. QED
  BY <1>1, <1>2, <1>3 DEF FactsNamed

LEMMA SearchesNamed ==
    ASSUME FactsNamed, NEW f \in Searches
    PROVE  f.type \in {"phone", "email"} /\ f.name \in DOMAIN FirstWord
<1>1. PICK t \in {"phone", "email"} : f \in DedupeFacts({g \in factsFile : g.type = t})
  BY DEF Searches, OfType
<1>2. PICK g \in factsFile : g.type = t /\ f = [name |-> g.name, type |-> g.type, value |-> NormalizePhone(g.value)]
  BY <1>1 DEF DedupeFacts
<1>3. QED
  BY <1>2 DEF FactsNamed

LEMMA SameStored ==
    ASSUME UNCHANGED <<factsFile, crm>>
    PROVE  /\ Searches' = Searches /\ \A f : FoundFor(f)' = FoundFor(f)
           /\ \A k, f : (Settled(k, f)' <=> Settled(k, f)) /\ (FoundByAddress(k, f)' <=> FoundByAddress(k, f))
<1>1. Searches' = Searches
  BY DEF Searches, OfType, DedupeFacts, NormalizePhone
<1>2. \A q : Pushed(q)' = Pushed(q)
  BY DEF Pushed
<1>3. \A q : SearchByQuery(q)' = SearchByQuery(q)
  <2>1. \A q : Matches(q)' = Matches(q)
    BY <1>2 DEF Matches
  <2>2. \A q : First(Matches(q))' = First(Matches(q))
    BY <2>1 DEF First
  <2>3. \A q : First(ListedFor[q])' = First(ListedFor[q])
    BY DEF First
  <2>4. QED
    BY <1>2, <2>1, <2>2, <2>3 DEF SearchByQuery
<1>4. \A f : FoundFor(f)' = FoundFor(f)
  BY <1>3 DEF FoundFor, SearchContact
<1>5. \A k, f : (FoundByAddress(k, f)' <=> FoundByAddress(k, f)) /\ (Has(k, f)' <=> Has(k, f))
  BY <1>2 DEF FoundByAddress, Has
<1>6. QED
  BY <1>1, <1>4, <1>5 DEF Settled

(* Who comes first is one of them, and comes before the others.               *)
LEMMA FirstIsOne ==
    ASSUME NEW ks \in SUBSET Nat, ks # {}
    PROVE  First(ks) \in ks /\ \A j \in ks : First(ks) <= j
<1>1. IsWellFoundedOn(Less, Nat)
  BY NatLessThanWellFounded DEF OpToRel, Less
<1>2. PICK k \in ks : \A j \in ks : ~(<<j, k>> \in Less)
  BY <1>1, WFMin
<1>3. ASSUME NEW j \in ks PROVE k <= j
  <2>1. k \in Nat /\ j \in Nat /\ ~(j < k)
    BY <1>2 DEF Less
  <2>2. QED
    BY <2>1
<1>4. QED
  BY <1>3 DEF First

(* Whoever a search finds is a contact.                                       *)
LEMMA FoundIsContact ==
    ASSUME NEW q, ListedFor[q] \subseteq Contacts
    PROVE  SearchByQuery(q) \in Contacts \cup {NoContact} /\ Matches(q) \subseteq Nat /\ Matches(q) \subseteq Contacts
<1>1. /\ Pushed(q) \subseteq Contacts /\ Contacts \subseteq Nat
      /\ Matches(q) \subseteq Contacts
  BY ChatAssumption DEF Pushed, Matches
<1>2. Matches(q) # {} => First(Matches(q)) \in Contacts
  BY <1>1, FirstIsOne
<1>3. ListedFor[q] # {} => First(ListedFor[q]) \in Contacts
  BY <1>1, FirstIsOne
<1>4. Matches(q) = {} => Pushed(q) = {}
  BY DEF Matches
<1>5. QED
  BY <1>1, <1>2, <1>3, <1>4 DEF SearchByQuery

(* An address added to a contact leads a search there or changes nothing.     *)
LEMMA QueryShifts ==
    ASSUME FactsNamed, NEW k \in Contacts, NEW d, crm' = [crm EXCEPT ![k] = @ \cup {d}],
           NEW q, ListedFor[q] \subseteq Contacts
    PROVE  /\ Pushed(q) \subseteq Pushed(q)'
           /\ \/ SearchByQuery(q)' = SearchByQuery(q)
              \/ SearchByQuery(q)' = k /\ k \in Pushed(q)' /\ k \notin ListedFor[q] \cap Matching[q]
<1>1. Pushed(q) \subseteq Pushed(q)' /\ Pushed(q)' \subseteq Pushed(q) \cup {k}
  <2>1. \A j \in Contacts : crm[j] \subseteq crm'[j] /\ (j # k => crm'[j] = crm[j])
    BY DEF FactsNamed
  <2>2. QED
    BY <2>1 DEF Pushed
<1>2. CASE Pushed(q)' = Pushed(q)
  BY <1>2 DEF SearchByQuery, Matches, First
<1>3. CASE k \in ListedFor[q] \cap Matching[q]
  <2>1. Matches(q)' = Matches(q) /\ Matches(q) # {}
    BY <1>1, <1>3 DEF Matches
  <2>2. SearchByQuery(q)' = SearchByQuery(q)
    BY <1>3, <2>1 DEF SearchByQuery, First
  <2>3. QED
    BY <1>1, <2>2
<1>4. CASE k \in Pushed(q)' /\ k \notin Pushed(q) /\ k \notin ListedFor[q] \cap Matching[q]
  <2> DEFINE old == Matches(q)
             new == old \cup {k}
  <2>1. Matches(q)' = new
    BY <1>1, <1>4 DEF Matches
  <2>2. SearchByQuery(q)' = First(new)
    BY <1>4, <2>1 DEF SearchByQuery, First
  <2>3. old # {} => SearchByQuery(q) = First(old)
    BY DEF SearchByQuery, Matches
  <2>4. old \subseteq Nat /\ k \in Nat
    BY FoundIsContact, ChatAssumption
  <2> HIDE DEF old
  <2>5. First(new) \in new /\ \A j \in new : First(new) <= j
    BY <2>4, FirstIsOne
  <2>6. CASE First(new) = k
    BY <1>1, <1>4, <2>2, <2>6
  <2>7. CASE First(new) \in old
    <3>1. First(old) \in old /\ \A j \in old : First(old) <= j
      BY <2>4, <2>7, FirstIsOne
    <3>2. First(old) <= First(new) /\ First(new) <= First(old) /\ First(old) \in Nat /\ First(new) \in Nat
      BY <2>4, <2>5, <2>7, <3>1
    <3>3. First(old) = First(new)
      BY <3>2
    <3>4. QED
      BY <1>1, <2>2, <2>3, <2>7, <3>3
  <2>8. QED
    BY <2>5, <2>6, <2>7
<1>5. QED
  BY <1>1, <1>2, <1>3, <1>4

(* What is settled stays so when something is added.                          *)
LEMMA AddShifts ==
    ASSUME FactsNamed, NEW k \in Contacts, NEW d, crm' = [crm EXCEPT ![k] = @ \cup {d}],
           NEW f, f.name \in DOMAIN FirstWord
    PROVE  /\ FoundFor(f)' = FoundFor(f) \/ FoundByAddress(FoundFor(f), f)'
           /\ \A j \in Contacts : /\ Has(j, f) => Has(j, f)'
                                  /\ FoundByAddress(j, f) => FoundByAddress(j, f)'
<1> DEFINE name == f.name
           word == FirstWord[name]
<1>1. ListedFor[name] \subseteq Contacts /\ ListedFor[word] \subseteq Contacts
  BY ChatAssumption
<1>2. FoundFor(f) = IF SearchByQuery(name) # NoContact \/ word = name THEN SearchByQuery(name) ELSE SearchByQuery(word)
  BY DEF FoundFor, SearchContact
<1>3. FoundFor(f)' = IF SearchByQuery(name)' # NoContact \/ word = name THEN SearchByQuery(name)' ELSE SearchByQuery(word)'
  BY DEF FoundFor, SearchContact
<1>4. \A q \in {name, word} :
         /\ Pushed(q) \subseteq Pushed(q)'
         /\ \/ SearchByQuery(q)' = SearchByQuery(q)
            \/ SearchByQuery(q)' = k /\ k \in Pushed(q)' /\ k \notin ListedFor[q] \cap Matching[q]
  BY <1>1, QueryShifts
<1>5. k # NoContact
  BY ChatAssumption
<1>6. \A j \in Contacts : crm[j] \subseteq crm'[j]
  BY DEF FactsNamed
<1>7. \A j \in Contacts : Has(j, f) => Has(j, f)'
  BY <1>6 DEF Has
<1>8. \A j : FoundByAddress(j, f) => FoundByAddress(j, f)'
  BY <1>4 DEF FoundByAddress
<1>9. \A q \in {name, word} : k \in Pushed(q)' /\ k \notin ListedFor[q] \cap Matching[q] => FoundByAddress(k, f)'
  BY DEF FoundByAddress
<1>10. FoundFor(f)' = FoundFor(f) \/ (FoundFor(f)' = k /\ FoundByAddress(k, f)')
  BY <1>2, <1>3, <1>4, <1>5, <1>9
<1>11. FoundFor(f)' = k /\ FoundByAddress(k, f)' => FoundByAddress(FoundFor(f), f)'
  BY DEF FoundByAddress
<1>12. QED
  BY <1>7, <1>8, <1>10, <1>11

LEMMA FoundInCrm ==
    ASSUME NEW f, f.name \in DOMAIN FirstWord, NEW lost
    PROVE  SearchContact(f, lost) \in Contacts \cup {NoContact}
<1>1. ListedFor[f.name] \subseteq Contacts /\ ListedFor[FirstWord[f.name]] \subseteq Contacts
  BY ChatAssumption
<1>2. SearchByQuery(f.name) \in Contacts \cup {NoContact} /\ SearchByQuery(FirstWord[f.name]) \in Contacts \cup {NoContact}
  BY <1>1, FoundIsContact
<1>3. QED
  BY <1>2 DEF SearchContact

LEMMA ApplyKeeps == ASSUME FactsNamed, Applying, Apply PROVE FactsNamed' /\ Applying'
<1>1. UNCHANGED <<factsFile, crm, settled>> /\ step' \in {"idle", "adding"}
  BY DEF Apply
<1>2. /\ Searches' = Searches /\ \A f : FoundFor(f)' = FoundFor(f)
      /\ \A k, f : (Settled(k, f)' <=> Settled(k, f)) /\ (FoundByAddress(k, f)' <=> FoundByAddress(k, f))
  BY <1>1, SameStored
<1>3. FactsNamed'
  BY <1>1 DEF FactsNamed
<1>4. settled' => \A f \in Searches' : Settled(FoundFor(f), f)'
  <2>1. settled => \A f \in Searches : Settled(FoundFor(f), f)
    BY DEF Applying
  <2>2. \A f : Settled(FoundFor(f), f)' <=> Settled(FoundFor(f), f)
    BY <1>1, <1>2 DEF Settled, Has
  <2>3. QED
    BY <1>1, <1>2, <2>1, <2>2
<1>5. CASE step' = "idle"
  BY <1>1, <1>2, <1>3, <1>4, <1>5 DEF Applying
<1>6. CASE step' = "adding"
  <2>1. PICK lost : /\ missed' = (lost # {})
                    /\ todo' = {r \in {[k |-> SearchContact(f, lost), f |-> f] : f \in Searches} :
                                  r.k # NoContact /\ ~Has(r.k, r.f)}
    BY <1>6 DEF Apply
  <2>2. ASSUME NEW r \in todo' PROVE r.k \in Contacts /\ r.f \in Searches /\ r.f.type \in {"phone", "email"}
    <3>1. PICK f \in Searches : r = [k |-> SearchContact(f, lost), f |-> f] /\ r.k # NoContact
      BY <2>1
    <3>2. r.f = f /\ r.k = SearchContact(f, lost)
      BY <3>1
    <3>3. QED
      BY <3>1, <3>2, SearchesNamed, FoundInCrm
  <2>3. ASSUME ~missed'
        PROVE  \A f \in Searches : Settled(FoundFor(f), f) \/ [k |-> FoundFor(f), f |-> f] \in todo'
    <3>1. lost = {}
      BY <2>1, <2>3
    <3>2. \A f \in Searches : SearchContact(f, lost) = FoundFor(f)
      BY <3>1 DEF FoundFor
    <3>3. QED
      BY <2>1, <3>2 DEF Settled
  <2>4. ASSUME ~missed', settled, NEW r \in todo' PROVE FoundByAddress(r.k, r.f)
    <3>1. lost = {}
      BY <2>1, <2>4
    <3>2. PICK f \in Searches : r = [k |-> FoundFor(f), f |-> f] /\ r.k # NoContact /\ ~Has(r.k, r.f)
      BY <2>1, <3>1 DEF FoundFor
    <3>3. r.k = FoundFor(f) /\ r.f = f
      BY <3>2
    <3>4. Settled(FoundFor(f), f)
      BY <2>4 DEF Applying
    <3>5. QED
      BY <3>2, <3>3, <3>4 DEF Settled
  <2>5. \A f : Settled(FoundFor(f), f)' <=> Settled(FoundFor(f), f)
    BY <1>1, <1>2 DEF Settled, Has
  <2>6. \A f : [k |-> FoundFor(f), f |-> f]' = [k |-> FoundFor(f), f |-> f]
    BY <1>2
  <2>7. \A f \in Searches : ~missed' => Settled(FoundFor(f), f)' \/ [k |-> FoundFor(f), f |-> f]' \in todo'
    BY <2>3, <2>5, <2>6
  <2>8. \A r \in todo' : ~missed' /\ settled' => FoundByAddress(r.k, r.f)'
    BY <1>1, <1>2, <2>4
  <2>9. QED
    BY <1>2, <1>3, <1>4, <2>2, <2>7, <2>8 DEF Applying
<1>7. QED
  BY <1>1, <1>5, <1>6

LEMMA AddKeeps == ASSUME FactsNamed, Applying, Add PROVE FactsNamed' /\ Applying'
<1> USE DEF Add
<1>1. step = "adding" /\ UNCHANGED <<factsFile, step, settled>>
  OBVIOUS
<1>2. Searches' = Searches
  BY <1>1 DEF Searches, OfType, DedupeFacts, NormalizePhone
<1>3. PICK r \in todo : /\ todo' = todo \ {r}
                        /\ \/ crm' = [crm EXCEPT ![r.k] = @ \cup {<<r.f.type, r.f.value>>}] /\ missed' = missed
                           \/ missed' = TRUE /\ UNCHANGED crm
  OBVIOUS
<1>4. r.k \in Contacts /\ r.f.type \in {"phone", "email"} /\ \A o \in todo' : o \in todo
  BY <1>1, <1>3 DEF Applying
<1> HIDE DEF Add
<1>5. CASE missed' = TRUE /\ UNCHANGED crm
  <2>1. \A f : Settled(FoundFor(f), f)' <=> Settled(FoundFor(f), f)
    BY <1>1, <1>5, SameStored DEF Settled, Has
  <2>2. settled' => \A f \in Searches' : Settled(FoundFor(f), f)'
    BY <1>1, <1>2, <2>1 DEF Applying
  <2>3. QED
    BY <1>1, <1>4, <1>5, <2>2 DEF Applying, FactsNamed
<1>6. CASE crm' = [crm EXCEPT ![r.k] = @ \cup {<<r.f.type, r.f.value>>}] /\ missed' = missed
  <2>1. FactsNamed'
    BY <1>1, <1>6 DEF FactsNamed
  <2>2. ASSUME NEW f \in Searches, Settled(FoundFor(f), f) PROVE Settled(FoundFor(f), f)'
    <3>1. f.name \in DOMAIN FirstWord
      BY SearchesNamed
    <3>2. FoundFor(f) \in Contacts \cup {NoContact}
      BY <3>1, FoundInCrm DEF FoundFor
    <3>3. /\ FoundFor(f)' = FoundFor(f) \/ FoundByAddress(FoundFor(f), f)'
          /\ \A j \in Contacts : /\ Has(j, f) => Has(j, f)'
                                 /\ FoundByAddress(j, f) => FoundByAddress(j, f)'
      BY <1>4, <1>6, <3>1, AddShifts
    <3>4. CASE FoundByAddress(FoundFor(f), f)'
      BY <3>4 DEF Settled
    <3>5. CASE FoundFor(f)' = FoundFor(f)
      BY <2>2, <3>2, <3>3, <3>5 DEF Settled, Has, FoundByAddress
    <3>6. QED
      BY <3>3, <3>4, <3>5
  <2>3. ASSUME ~missed', NEW f \in Searches
        PROVE  Settled(FoundFor(f), f)' \/ [k |-> FoundFor(f), f |-> f]' \in todo'
    <3>1. Settled(FoundFor(f), f) \/ [k |-> FoundFor(f), f |-> f] \in todo
      BY <1>1, <1>6, <2>3 DEF Applying
    <3>2. CASE [k |-> FoundFor(f), f |-> f] \in todo
      <4>1. f.name \in DOMAIN FirstWord
        BY SearchesNamed
      <4>2. FoundFor(f)' = FoundFor(f) \/ FoundByAddress(FoundFor(f), f)'
        BY <1>4, <1>6, <4>1, AddShifts
      <4>3. CASE FoundByAddress(FoundFor(f), f)'
        BY <4>3 DEF Settled
      <4>4. CASE FoundFor(f)' = FoundFor(f) /\ [k |-> FoundFor(f), f |-> f] # r
        BY <1>3, <3>2, <4>4
      <4>5. CASE FoundFor(f)' = FoundFor(f) /\ [k |-> FoundFor(f), f |-> f] = r
        <5>1. r.k = FoundFor(f) /\ r.f = f
          BY <4>5
        <5>2. <<f.type, f.value>> \in crm'[r.k]
          BY <1>4, <1>6, <5>1 DEF FactsNamed
        <5>3. <<f.type, f.value>>[1] = f.type
          OBVIOUS
        <5>4. Has(r.k, f)'
          BY <1>4, <5>1, <5>2, <5>3 DEF Has
        <5>5. Has(FoundFor(f), f)'
          BY <4>5, <5>1, <5>4 DEF Has
        <5>6. QED
          BY <5>5 DEF Settled
      <4>6. QED
        BY <4>2, <4>3, <4>4, <4>5
    <3>3. QED
      BY <2>2, <3>1, <3>2
  <2>4. ASSUME ~missed', settled', NEW o \in todo' PROVE FoundByAddress(o.k, o.f)'
    <3>1. FoundByAddress(o.k, o.f)
      BY <1>1, <1>4, <1>6, <2>4 DEF Applying
    <3>2. \A q : Pushed(q) \subseteq Pushed(q)'
      <4>1. \A j \in Contacts : crm[j] \subseteq crm'[j]
        BY <1>6 DEF FactsNamed
      <4>2. QED
        BY <4>1 DEF Pushed
    <3>3. QED
      BY <3>1, <3>2 DEF FoundByAddress
  <2>5. settled' => \A f \in Searches' : Settled(FoundFor(f), f)'
    BY <1>1, <1>2, <2>2 DEF Applying
  <2>6. \A o \in todo' : o.k \in Contacts /\ o.f.type \in {"phone", "email"}
    BY <1>1, <1>4 DEF Applying
  <2>7. QED
    BY <1>2, <2>1, <2>3, <2>4, <2>5, <2>6 DEF Applying
<1>7. QED
  BY <1>3, <1>5, <1>6

LEMMA FactsKeep == ASSUME SyncInv, FactsNamed, Applying, Facts PROVE Applying'
<1>1. step' = "idle" /\ crm' = crm /\ (settled' => settled /\ factsFile' = factsFile)
  BY DEF Facts
<1>2. factsFile' = factsFile => Searches' = Searches /\ \A f : Settled(FoundFor(f), f)' <=> Settled(FoundFor(f), f)
  BY <1>1, SameStored DEF Settled, Has
<1>3. QED
  BY <1>1, <1>2 DEF Applying

LEMMA ApplyingKeeps ==
    ASSUME SyncInv, FactsNamed, Applying, [ChatNext]_chatVars PROVE FactsNamed' /\ Applying'
<1>1. CASE Facts
  BY <1>1, FactsAreNamed, FactsKeep
<1>2. CASE Apply \/ Add
  BY <1>2, ApplyKeeps, AddKeeps
<1>3. CASE ~Facts /\ ~Apply /\ ~Add
  <2>1. /\ UNCHANGED <<factsFile, crm>>
        /\ step' = "adding" => step = "adding" /\ UNCHANGED <<missed, todo, settled>>
        /\ settled' => settled \/ (step = "adding" /\ todo = {} /\ ~missed)
    <3>1. CASE \E p \in {"telegram", "linkedin", "whatsapp", "import", "facts", "apply"} : ChatStart(p)
      BY <3>1 DEF ChatStart, Tool
    <3>2. CASE (\E c \in Chats : MessageSent(c)) \/ Deadline \/ ImportEnds \/ Killed \/ UNCHANGED chatVars
      BY <3>2 DEF MessageSent, Deadline, ImportEnds, Killed, chatVars, syncVars, applyVars
    <3>3. CASE NextChat \/ Create \/ Fetch \/ Got \/ WriteChat \/ Import
      BY <3>3 DEF NextChat, Create, Fetch, Got, Skip, WriteChat, Import, applyVars
    <3>4. CASE Applied
      <4>1. settled' <=> settled \/ ~missed
        BY <3>4 DEF Applied
      <4>2. QED
        BY <3>4, <4>1 DEF Applied
    <3>5. QED
      BY <1>3, <3>1, <3>2, <3>3, <3>4 DEF ChatNext
  <2>2. /\ Searches' = Searches /\ \A f : FoundFor(f)' = FoundFor(f)
        /\ \A k, f : FoundByAddress(k, f)' <=> FoundByAddress(k, f)
        /\ \A f : Settled(FoundFor(f), f)' <=> Settled(FoundFor(f), f)
    BY <2>1, SameStored DEF Settled, Has
  <2>3. FactsNamed'
    BY <2>1 DEF FactsNamed
  <2>4. settled' => \A f \in Searches : Settled(FoundFor(f), f)
    BY <2>1 DEF Applying
  <2>5. step' = "adding" => settled' = settled /\ missed' = missed /\ todo' = todo /\ step = "adding"
    BY <2>1
  <2>6. \A f : [k |-> FoundFor(f), f |-> f]' = [k |-> FoundFor(f), f |-> f]
    BY <2>2
  <2>7. step' = "adding" /\ ~missed' =>
          \A f \in Searches : Settled(FoundFor(f), f)' \/ [k |-> FoundFor(f), f |-> f]' \in todo'
    BY <2>2, <2>5, <2>6 DEF Applying
  <2>8. step' = "adding" /\ ~missed' /\ settled' => \A r \in todo' : FoundByAddress(r.k, r.f)'
    BY <2>2, <2>5 DEF Applying
  <2>9. step' = "adding" => \A r \in todo' : r.k \in Contacts /\ r.f.type \in {"phone", "email"}
    BY <2>5 DEF Applying
  <2>10. QED
    BY <2>2, <2>3, <2>4, <2>7, <2>8, <2>9 DEF Applying
<1>4. QED
  BY <1>1, <1>2, <1>3

(* Once a run of RunApply of chat/apply.go over the same facts has searched    *)
(* and added without a failure, another one that searches without a failure   *)
(* adds something only to a contact that an address pushed to it has made the  *)
(* search find.                                                               *)
THEOREM ApplyingTwiceAddsNothing == ChatInit /\ [][ChatNext]_chatVars => []ApplySettles
<1>1. ChatInit => FactsNamed /\ Applying
  BY DEF ChatInit, FactsNamed, Applying, NoFacts
<1>2. Applying => ApplySettles
  BY DEF Applying, ApplySettles
<1>3. QED
  BY <1>1, <1>2, ChatsStaySynced, ApplyingKeeps, PTL

-----------------------------------------------------------------------------
(* HybridSearch. *)

SearchTypes ==
    /\ held \in Brains /\ ask \in Asks
    /\ spc \in {"text", "vector", "rank", "done", "failed"}

(* The lists are rankings of the matches, cut at three times the limit.       *)
Candidates ==
    /\ spc \in {"vector", "rank", "done"} => fts \in queryFTS(3 * ask.limit)
    /\ spc \in {"rank", "done"} => vec \in queryVector(3 * ask.limit) \cup {<<>>}
Answered == spc = "done" => results \in RankAndFilterSort(fts, vec)

SearchInv == SearchTypes /\ Candidates /\ Answered

LEMMA SearchStep == ASSUME SearchInv, [SearchNext]_searchVars PROVE SearchInv'
<1>1. SearchTypes'
  BY DEF SearchInv, SearchTypes, SearchNext, SearchText, SearchVector, Answer, searchVars
<1>2. UNCHANGED <<held, ask>>
  BY DEF SearchNext, SearchText, SearchVector, Answer, searchVars
<1>3. /\ \A n : queryFTS(n)' = queryFTS(n) /\ queryVector(n)' = queryVector(n)
      /\ \A f, v : RankAndFilterSort(f, v)' = RankAndFilterSort(f, v)
  BY <1>2 DEF queryFTS, queryVector, TextMatches, Neighbours, Scanned, Indexed, RankAndFilterSort,
              Passes, FilterRoot, FilterRepo, FilterAsOf, ActiveAsOf, ByDate, earlier, Ranked, Hybrid, Cut
<1>4. Candidates'
  BY <1>2, <1>3 DEF SearchInv, Candidates, SearchNext, SearchText, SearchVector, Answer, searchVars
<1>5. Answered'
  BY <1>2, <1>3 DEF SearchInv, Answered, SearchNext, SearchText, SearchVector, Answer, searchVars
<1>6. QED
  BY <1>1, <1>4, <1>5 DEF SearchInv

(* What a cut leaves, and nothing is cut from a list that is short enough.    *)
LEMMA CutFacts ==
    ASSUME NEW S, NEW s \in Seq(S), NEW n \in Nat
    PROVE  /\ Len(s) <= n => Cut(s, n) = s
           /\ Len(s) > n => Len(Cut(s, n)) = n
           /\ DOMAIN Cut(s, n) \subseteq DOMAIN s
           /\ \A i \in DOMAIN s : i <= n => i \in DOMAIN Cut(s, n)
           /\ \A i \in DOMAIN Cut(s, n) : Cut(s, n)[i] = s[i] /\ i <= n
<1>1. Len(s) \in Nat /\ DOMAIN s = 1 .. Len(s)
  OBVIOUS
<1>2. \A m \in 0 .. Len(s) : /\ Len(SubSeq(s, 1, m)) = m /\ DOMAIN SubSeq(s, 1, m) = 1 .. m
                             /\ \A i \in 1 .. m : SubSeq(s, 1, m)[i] = s[i]
                             /\ m = Len(s) => SubSeq(s, 1, m) = s
  OBVIOUS
<1>3. Len(s) \in 0 .. Len(s) /\ (n <= Len(s) => n \in 0 .. Len(s)) /\ (Len(s) < n \/ n <= Len(s))
  BY <1>1
<1>4. CASE Len(s) < n
  <2>1. Cut(s, n) = SubSeq(s, 1, Len(s))
    BY <1>4 DEF Cut
  <2>2. Cut(s, n) = s
    BY <1>2, <1>3, <2>1
  <2>3. ~(Len(s) > n) /\ \A i \in 1 .. Len(s) : i <= n
    BY <1>1, <1>4
  <2>4. QED
    BY <1>1, <2>2, <2>3
<1>5. CASE n <= Len(s)
  <2>0. \A x, y \in Nat : y <= x => ~(x < y) /\ (x <= y => y = x)
    OBVIOUS
  <2>1. ~(Len(s) < n)
    BY <1>1, <1>5, <2>0
  <2>2. Cut(s, n) = SubSeq(s, 1, n)
    BY <1>1, <1>5, <2>1 DEF Cut
  <2>3. Len(s) <= n => n = Len(s)
    BY <1>1, <1>5, <2>0
  <2>4. 1 .. n \subseteq 1 .. Len(s) /\ \A i \in 1 .. Len(s) : i <= n => i \in 1 .. n
    BY <1>1, <1>5
  <2>5. /\ Len(Cut(s, n)) = n /\ DOMAIN Cut(s, n) = 1 .. n /\ \A i \in 1 .. n : Cut(s, n)[i] = s[i]
        /\ n = Len(s) => Cut(s, n) = s
    BY <1>2, <1>3, <1>5, <2>2
  <2>6. \A i \in 1 .. n : i <= n
    OBVIOUS
  <2>7. QED
    BY <1>1, <2>3, <2>4, <2>5, <2>6
<1>6. QED
  BY <1>3, <1>4, <1>5

LEMMA RankIsInt ==
    ASSUME NEW S, NEW s \in Seq(S), NEW l PROVE score(s, l) \in Int
<1>1. DOMAIN s \subseteq Nat
  OBVIOUS
<1>2. CASE \E r \in DOMAIN s : s[r] = l
  <2>1. PICK r \in Nat : r = (CHOOSE k \in DOMAIN s : s[k] = l)
    BY <1>1, <1>2
  <2>2. score(s, l) = 2000000000 \div (60 + r)
    BY <1>2, <2>1 DEF score, One, rrfK
  <2>3. \A k \in Nat : 2000000000 \div (60 + k) \in Int
    OBVIOUS
  <2>4. QED
    BY <2>2, <2>3
<1>3. CASE ~\E r \in DOMAIN s : s[r] = l
  BY <1>3 DEF score
<1>4. QED
  BY <1>2, <1>3

(* Two leafs never come at the same place of the fused ranking.               *)
LEMMA OneIsHigher ==
    ASSUME SearchTypes, NEW f \in Seq(held), NEW v \in Seq(held), NEW a \in held, NEW b \in held, a # b,
           ~higher(f, v, b, a)
    PROVE  higher(f, v, a, b)
<1>1. a.id \in Int /\ b.id \in Int /\ a.id # b.id
  BY SearchAssumption DEF SearchTypes
<1>2. score(f, a) \in Int /\ score(f, b) \in Int /\ score(v, a) \in Int /\ score(v, b) \in Int
  BY RankIsInt
<1>3. fused(f, v, a) \in Int /\ fused(f, v, b) \in Int
  BY <1>2 DEF fused
<1>4. \A x, y, i, j \in Int : i # j /\ ~(y > x \/ (y = x /\ j < i)) => x > y \/ (x = y /\ i < j)
  OBVIOUS
<1>5. QED
  BY <1>1, <1>3, <1>4 DEF higher

(* Among the leafs that pass, the answer is a beginning of their order: h is   *)
(* the fused ranking, d the order of the leafs that pass it.                   *)
LEMMA BestOfLists ==
    ASSUME SearchTypes, NEW f \in Seq(held), NEW v \in Seq(held), NEW P,
           P = {l \in Found(f, v) : Passes(l)},
           NEW h \in [1 .. Cardinality(Found(f, v)) -> Found(f, v)],
           \A i, j \in DOMAIN h : i < j => h[i] # h[j] /\ ~higher(f, v, h[j], h[i]),
           NEW d \in [1 .. Cardinality(P) -> P],
           \A i, j \in DOMAIN d : i < j => d[i] # d[j] /\ ~ByDate(h, d[j], d[i]),
           NEW r, r = Cut(d, ask.limit)
    PROVE  /\ \A l \in ToSet(r) : Passes(l)
           /\ \A l \in Found(f, v) : Passes(l) /\ l \notin ToSet(r) =>
                 Len(r) = ask.limit /\ \A g \in ToSet(r) :
                    IF ask.sort # "" /\ (earlier(g, l) \/ earlier(l, g)) THEN earlier(g, l) ELSE higher(f, v, g, l)
<1>1. Found(f, v) \subseteq held /\ IsFiniteSet(Found(f, v)) /\ P \subseteq Found(f, v) /\ IsFiniteSet(P)
  <2>1. ToSet(f) \subseteq held /\ ToSet(v) \subseteq held
    <3>1. \A S : \A s \in Seq(S) : \A i \in DOMAIN s : s[i] \in S
      OBVIOUS
    <3>2. QED
      BY <3>1 DEF ToSet
  <2>2. IsFiniteSet(held)
    BY SearchAssumption DEF SearchTypes
  <2>3. QED
    BY <2>1, <2>2, FS_Subset DEF Found
<1>2. /\ d \in Seq(P) /\ ToSet(d) = P /\ DOMAIN d = 1 .. Len(d) /\ Len(d) \in Nat
  BY <1>1, AllListed
<1>3. ToSet(h) = Found(f, v) /\ DOMAIN h \subseteq Nat
  <2>1. ToSet(h) = Found(f, v) /\ DOMAIN h = 1 .. Cardinality(Found(f, v)) /\ Cardinality(Found(f, v)) \in Nat
    BY <1>1, AllListed
  <2>2. \A n \in Nat : 1 .. n \subseteq Nat
    OBVIOUS
  <2>3. QED
    BY <2>1, <2>2
<1>4. ask.limit \in Nat
  BY SearchAssumption DEF SearchTypes
<1>5. /\ Len(d) <= ask.limit => r = d
      /\ Len(d) > ask.limit => Len(r) = ask.limit
      /\ DOMAIN r \subseteq DOMAIN d
      /\ \A i \in DOMAIN d : i <= ask.limit => i \in DOMAIN r
      /\ \A i \in DOMAIN r : r[i] = d[i] /\ i <= ask.limit
  <2>1. d \in Seq(P) /\ ask.limit \in Nat
    BY <1>2, <1>4
  <2>2. r = Cut(d, ask.limit)
    OBVIOUS
  <2>3. /\ Len(d) <= ask.limit => Cut(d, ask.limit) = d
        /\ Len(d) > ask.limit => Len(Cut(d, ask.limit)) = ask.limit
        /\ DOMAIN Cut(d, ask.limit) \subseteq DOMAIN d
        /\ \A i \in DOMAIN d : i <= ask.limit => i \in DOMAIN Cut(d, ask.limit)
        /\ \A i \in DOMAIN Cut(d, ask.limit) : Cut(d, ask.limit)[i] = d[i] /\ i <= ask.limit
    BY <2>1, CutFacts, Zenon
  <2>4. QED
    BY <2>2, <2>3
<1>6. ToSet(r) \subseteq P
  <2>1. \A i \in DOMAIN r : i \in DOMAIN d /\ r[i] = d[i]
    BY <1>5
  <2>2. \A i \in DOMAIN d : d[i] \in P
    BY <1>2 DEF ToSet
  <2>3. \A i \in DOMAIN r : r[i] \in P
    BY <2>1, <2>2
  <2>4. QED
    BY <2>3, Zenon DEF ToSet
<1>7. ASSUME NEW l \in Found(f, v), Passes(l), l \notin ToSet(r), NEW g \in ToSet(r)
       PROVE  IF ask.sort # "" /\ (earlier(g, l) \/ earlier(l, g)) THEN earlier(g, l) ELSE higher(f, v, g, l)
  <2>1. l \in P
    BY <1>7
  <2>2. PICK k \in DOMAIN d : d[k] = l
    BY <1>2, <2>1 DEF ToSet
  <2>3. PICK i \in DOMAIN r : r[i] = g
    BY DEF ToSet
  <2>4. i \in DOMAIN d /\ d[i] = g /\ i <= ask.limit
    BY <1>5, <2>3
  <2>5. k \notin DOMAIN r
    BY <1>5, <1>7, <2>2 DEF ToSet
  <2>6. i < k
    <3>1. i \in Nat /\ k \in Nat
      BY <1>2, <2>2, <2>4
    <3>2. ~(k <= ask.limit)
      BY <1>5, <2>2, <2>5
    <3>3. \A x, y, z \in Nat : x <= z /\ ~(y <= z) => x < y
      OBVIOUS
    <3>4. QED
      BY <1>4, <2>4, <3>1, <3>2, <3>3
  <2>7. g # l /\ ~ByDate(h, l, g)
    BY <2>2, <2>4, <2>6
  <2>8. g \in Found(f, v)
    BY <1>1, <1>6
  <2>9. pos(h, g) \in DOMAIN h /\ h[pos(h, g)] = g /\ pos(h, l) \in DOMAIN h /\ h[pos(h, l)] = l
    BY <1>3, <1>7, <2>8 DEF pos, ToSet
  <2>10. ASSUME ~(pos(h, l) < pos(h, g)) PROVE higher(f, v, g, l)
    <3>1. pos(h, g) < pos(h, l)
      <4>1. pos(h, g) \in Nat /\ pos(h, l) \in Nat /\ pos(h, g) # pos(h, l)
        BY <1>3, <2>7, <2>9
      <4>2. \A x, y \in Nat : x # y /\ ~(y < x) => x < y
        OBVIOUS
      <4>3. QED
        BY <2>10, <4>1, <4>2
    <3>2. ~higher(f, v, l, g)
      BY <2>9, <3>1
    <3>3. QED
      BY <1>1, <2>7, <2>8, <3>2, OneIsHigher
  <2>11. QED
    BY <2>7, <2>10 DEF ByDate
<1>8. ASSUME NEW l \in Found(f, v), Passes(l), l \notin ToSet(r) PROVE Len(r) = ask.limit
  <2>1. l \in ToSet(d)
    BY <1>2, <1>8
  <2>2. ~(Len(d) <= ask.limit)
    BY <1>5, <1>8, <2>1
  <2>3. \A x, y \in Nat : ~(x <= y) => x > y
    OBVIOUS
  <2>4. QED
    BY <1>2, <1>4, <1>5, <2>2, <2>3
<1>9. QED
  BY <1>6, <1>7, <1>8

LEMMA AnswerIsBest ==
    ASSUME SearchTypes, NEW f \in Seq(held), NEW v \in Seq(held), NEW r \in RankAndFilterSort(f, v)
    PROVE  /\ \A l \in ToSet(r) : Passes(l)
           /\ \A l \in Found(f, v) : Passes(l) /\ l \notin ToSet(r) =>
                 Len(r) = ask.limit /\ \A g \in ToSet(r) :
                    IF ask.sort # "" /\ (earlier(g, l) \/ earlier(l, g)) THEN earlier(g, l) ELSE higher(f, v, g, l)
<1> DEFINE P == {l \in Found(f, v) : Passes(l)}
<1>1. \E h \in [1 .. Cardinality(Found(f, v)) -> Found(f, v)], d \in [1 .. Cardinality(P) -> P] :
        /\ \A i, j \in DOMAIN h : i < j => h[i] # h[j] /\ ~higher(f, v, h[j], h[i])
        /\ \A i, j \in DOMAIN d : i < j => d[i] # d[j] /\ ~ByDate(h, d[j], d[i])
        /\ r = Cut(d, ask.limit)
  BY DEF RankAndFilterSort, Hybrid, Ranked
<1>2. QED
  BY <1>1, BestOfLists

(* The lists the answer was made from are whole when the matches fit.         *)
LEMMA ListsAreWhole ==
    ASSUME SearchInv, spc = "done", Cardinality(TextMatches) <= 3 * ask.limit, Cardinality(Neighbours) <= 3 * ask.limit
    PROVE  /\ fts \in Seq(held) /\ vec \in Seq(held)
           /\ ToSet(fts) = TextMatches /\ ToSet(vec) = IF vec = <<>> THEN {} ELSE Neighbours
<1>1. IsFiniteSet(held) /\ ask.limit \in Nat /\ 3 * ask.limit \in Nat
  BY SearchAssumption DEF SearchInv, SearchTypes
<1>2. TextMatches \subseteq held /\ IsFiniteSet(TextMatches)
  BY <1>1, FS_Subset DEF TextMatches
<1>3. Neighbours \subseteq held /\ IsFiniteSet(Neighbours)
  BY <1>1, FS_Subset DEF Neighbours, Indexed, Scanned
<1>4. ToSet(fts) = TextMatches /\ fts \in Seq(TextMatches)
  <2>1. PICK s \in [1 .. Cardinality(TextMatches) -> TextMatches] :
            fts = Cut(s, 3 * ask.limit) /\ \A i, j \in DOMAIN s : i < j => s[i] # s[j]
    BY DEF SearchInv, Candidates, queryFTS, Ranked
  <2>2. s \in Seq(TextMatches) /\ ToSet(s) = TextMatches /\ Len(s) = Cardinality(TextMatches)
    BY <1>2, <2>1, AllListed
  <2>3. fts = s
    BY <1>1, <2>1, <2>2, CutFacts
  <2>4. QED
    BY <2>2, <2>3
<1>5. vec = <<>> \/ (ToSet(vec) = Neighbours /\ vec \in Seq(Neighbours))
  <2>1. CASE vec # <<>>
    <3>1. PICK s \in [1 .. Cardinality(Neighbours) -> Neighbours] :
              vec = Cut(s, 3 * ask.limit) /\ \A i, j \in DOMAIN s : i < j => s[i] # s[j]
      BY <2>1 DEF SearchInv, Candidates, queryVector, Ranked
    <3>2. s \in Seq(Neighbours) /\ ToSet(s) = Neighbours /\ Len(s) = Cardinality(Neighbours)
      BY <1>3, <3>1, AllListed
    <3>3. vec = s
      BY <1>1, <3>1, <3>2, CutFacts
    <3>4. QED
      BY <3>2, <3>3
  <2>2. QED
    BY <2>1
<1>6. fts \in Seq(held) /\ vec \in Seq(held)
  <2>1. \A S : S \subseteq held => \A s \in Seq(S) : s \in Seq(held)
    OBVIOUS
  <2>2. QED
    BY <1>2, <1>3, <1>4, <1>5, <2>1, NothingInIt
<1>7. QED
  BY <1>4, <1>5, <1>6, NothingInIt

(* A search of brain/search.go whose matches fit into three times the limit   *)
(* answers with the best of those that pass the filters, in the order of the  *)
(* dates or of RankAndFilterSort in rank/rank.go.                             *)
THEOREM AnswersAreTheBest == SearchInit /\ [][SearchNext]_searchVars => []NothingBetterIsLeftOut
<1>1. SearchInit => SearchInv
  BY DEF SearchInit, SearchInv, SearchTypes, Candidates, Answered
<1>2. SearchInv => NothingBetterIsLeftOut
  <2> SUFFICES ASSUME SearchInv, spc = "done", Cardinality(TextMatches) <= 3 * ask.limit,
                      Cardinality(Neighbours) <= 3 * ask.limit
               PROVE  /\ \A l \in ToSet(results) : Passes(l)
                      /\ \A l \in TextMatches \cup (IF vec = <<>> THEN {} ELSE Neighbours) :
                            Passes(l) /\ l \notin ToSet(results) =>
                               Len(results) = ask.limit /\ \A h \in ToSet(results) : Before(h, l)
    BY DEF NothingBetterIsLeftOut
  <2>1. fts \in Seq(held) /\ vec \in Seq(held)
        /\ Found(fts, vec) = TextMatches \cup (IF vec = <<>> THEN {} ELSE Neighbours)
    BY ListsAreWhole DEF Found
  <2>2. results \in RankAndFilterSort(fts, vec)
    BY DEF SearchInv, Answered
  <2>3. QED
    BY <2>1, <2>2, AnswerIsBest DEF SearchInv, Before
<1>3. QED
  BY <1>1, <1>2, SearchStep, PTL

-----------------------------------------------------------------------------
(* NetworkExport. *)

Completing == npc \in {"backfill tag", "complete", "add tag", "add about"}
Grouping == npc \in {"company", "member", "link"}
Updating == npc \in {"add tag", "add about", "link"}

NetTypes ==
    /\ made \in Exports /\ planned = Exported(made.graph, made.cmd)
    /\ ccmd \in CrmCommands /\ book \in Seq(ContactsOf(Companies)) /\ asRead \in ContactsOf(Companies)
    /\ contactID \in Nat /\ DOMAIN typed \subseteq DOMAIN book /\ unclean \in Nat

(* The queue: each person once, and nobody while no step is under way.        *)
Queued ==
    /\ npc \in {"idle", "run", "backfill", "companies"} \/ Creating \/ Completing \/ Grouping
    /\ persons \in Seq(planned) /\ \A i, j \in DOMAIN persons : i < j => persons[i] # persons[j]
    /\ npc \in {"idle", "run", "backfill", "companies"} => persons = <<>>
    /\ npc \in {"email", "label", "rollback"} \/ Completing \/ Grouping => persons # <<>>
    /\ Grouping => ToSet(persons) \subseteq CompanyBoxes
    /\ npc = "backfill" \/ Completing => ccmd.backfill
    /\ npc = "companies" \/ Grouping => ccmd.companies
    /\ npc = "companies" => CompanyBoxes # {}
    /\ npc # "idle" => planned # {}

(* Who is still to be created is not in the CRM but by somebody's hand; an edit *)
(* of the contact being created is known to have crossed.                     *)
Unknown(Q) == \A q \in Q : \A k \in DOMAIN book \ cameBetween : book[k].email # q
Fresh ==
    /\ npc \in {"tag", "create", "email"} => Unknown(ToSet(persons))
    /\ npc \in {"label", "rollback"} => Unknown(ToSet(Tail(persons)))
    /\ npc \in {"email", "label", "rollback"} =>
          contactID \in DOMAIN book /\ (contactID \in DOMAIN typed => contactID \in crossed)
    /\ npc = "email" => book[contactID].email = NoOne
    /\ npc = "label" => book[contactID].email = Head(persons)

(* What the tool read and is about to write back: it knows of every edit that *)
(* was not made since.                                                        *)
ReadBefore ==
    Updating =>
        /\ Head(persons) \in DOMAIN emailIndex.of /\ contactID = emailIndex.of[Head(persons)]
        /\ contactID \in DOMAIN typed \ crossed =>
              asRead.name = "hand" /\ asRead.about = "hand" /\ asRead.last = book[contactID].last
        /\ asRead.about # "none" => book[contactID].about # "none"
        /\ npc = "add about" => asRead.about = "none"

(* Contacts without address or tag that were created here, and those that     *)
(* become so again when a name is written back.                               *)
Loose(k) ==
    /\ book[k].email = NoOne \/ ~book[k].tag
    /\ book[k].name = "link" \/ (Updating /\ k = contactID /\ asRead.name = "link")
LooseOnes == {k \in DOMAIN book : Loose(k) /\ ~BeingCreated(k)}
FewLoose == Cardinality(LooseOnes) <= unclean

HasContact(q) == \E k \in DOMAIN book : book[k].email = q
Entry(q) == CHOOSE k \in Holders(q) : TRUE

(* What the index of the addresses says is true while it is used.             *)
IndexIsTrue ==
    Completing \/ Grouping =>
        /\ \A q \in DOMAIN emailIndex.of : q # NoOne /\ HasContact(q) /\ emailIndex.of[q] = Entry(q)
        /\ emailIndex.tagged \subseteq {k \in DOMAIN book : book[k].tag}

Complete(q) == HasContact(q) /\ book[Entry(q)].tag /\ book[Entry(q)].about # "none"
Linked(q) == HasContact(q) /\ CompanyOf[q] \in companyBook /\ book[Entry(q)].company = CompanyOf[q]
AllToDo == ccmd.write /\ ccmd.limit = 0

(* As long as nothing has failed, a step has left what it is not still to do. *)
NothingSkipped ==
    ~anyFailed /\ AllToDo =>
        /\ Creating => \A q \in planned : q \in ToSet(persons) \/ HasContact(q)
        /\ npc \in {"backfill", "companies"} \/ Completing \/ Grouping => \A q \in planned : HasContact(q)
        /\ Completing \/ Grouping => \A q \in planned : q \in DOMAIN emailIndex.of
        /\ Completing => \A q \in planned : q \in ToSet(persons) \/ Complete(q)
        /\ npc = "add about" => book[contactID].tag
        /\ (npc = "companies" \/ Grouping) /\ ccmd.backfill => \A q \in planned : Complete(q)
        /\ Grouping => \A q \in CompanyBoxes : q \in ToSet(persons) \/ Linked(q)
        /\ npc \in {"member", "link"} => CompanyOf[Head(persons)] \in companyBook

(* Once it has ended well everything is as it should be, and no later run of  *)
(* the command comes to a step that writes.                                   *)
AllDone ==
    /\ AllToDo /\ \A q \in planned : HasContact(q)
    /\ ccmd.backfill => \A q \in planned : Complete(q)
    /\ ccmd.companies => \A q \in CompanyBoxes : Linked(q)
NothingToWrite ==
    /\ rewrote = 0
    /\ imported => /\ AllDone /\ ~Creating /\ ~Updating
                   /\ Completing => \A q \in planned : emailIndex.of[q] \in emailIndex.tagged

NetInv ==
    /\ NetTypes /\ Queued /\ Fresh /\ ReadBefore /\ FewLoose /\ IndexIsTrue /\ NothingSkipped
    /\ NothingToWrite /\ OnePerAddress /\ HandsKept

(* An order of a set is a list of all its members, each of them once.         *)
LEMMA OrderLists ==
    ASSUME NEW S, IsFiniteSet(S), NEW s, s \in InOrder(S) \/ s \in GroupCompanyLinks(S)
    PROVE  s \in Seq(S) /\ ToSet(s) = S /\ \A i, j \in DOMAIN s : i < j => s[i] # s[j]
<1>1. s \in [1 .. Cardinality(S) -> S] /\ \A i, j \in DOMAIN s : i < j => s[i] # s[j]
  BY DEF InOrder, GroupCompanyLinks, Ranked
<1>2. QED
  BY <1>1, AllListed

LEMMA RestOfQueue ==
    ASSUME NEW S, NEW s \in Seq(S), s # <<>>, \A i, j \in DOMAIN s : i < j => s[i] # s[j]
    PROVE  /\ Tail(s) \in Seq(S) /\ Head(s) \in S /\ Head(s) \in ToSet(s)
           /\ ToSet(s) = {Head(s)} \cup ToSet(Tail(s)) /\ Head(s) \notin ToSet(Tail(s))
           /\ \A i, j \in DOMAIN Tail(s) : i < j => Tail(s)[i] # Tail(s)[j]
           /\ Len(s) = 1 => Tail(s) = <<>>
           /\ Len(s) > 1 <=> Len(s) # 1
           /\ Len(s) # 1 => Tail(s) # <<>> /\ Head(Tail(s)) = s[2]
<1>1. Len(s) \in Nat \ {0} /\ DOMAIN s = 1 .. Len(s) /\ Head(s) = s[1]
  OBVIOUS
<1>2. Len(Tail(s)) = Len(s) - 1 /\ DOMAIN Tail(s) = 1 .. Len(s) - 1
      /\ \A i \in 1 .. Len(s) - 1 : Tail(s)[i] = s[i + 1]
  OBVIOUS
<1>3. \A n \in Nat \ {0} : /\ \A i \in 1 .. n - 1 : i + 1 \in 1 .. n /\ 1 < i + 1 /\ 1 \in 1 .. n
                           /\ \A i, j \in 1 .. n - 1 : i < j => i + 1 < j + 1
                           /\ n # 1 => n - 1 # 0 /\ 1 \in 1 .. n - 1 /\ 1 + 1 = 2
                           /\ n > 1 <=> n # 1
                           /\ n = 1 => n - 1 = 0
  OBVIOUS
<1>4. Tail(s) \in Seq(S) /\ Head(s) \in S /\ ToSet(s) = {Head(s)} \cup ToSet(Tail(s))
  BY HeadAndTail
<1>5. \A i \in DOMAIN Tail(s) : Tail(s)[i] # Head(s)
  BY <1>1, <1>2, <1>3
<1>6. Head(s) \notin ToSet(Tail(s))
  BY <1>5 DEF ToSet
<1>7. \A i, j \in DOMAIN Tail(s) : i < j => Tail(s)[i] # Tail(s)[j]
  BY <1>1, <1>2, <1>3
<1>8. Len(s) = 1 => Tail(s) = <<>>
  <2>1. \A t \in Seq(S) : Len(t) = 0 => t = <<>>
    OBVIOUS
  <2>2. QED
    BY <1>1, <1>2, <1>3, <1>4, <2>1
<1>9. Len(s) > 1 <=> Len(s) # 1
  BY <1>1, <1>3
<1>10. Len(s) # 1 => Tail(s) # <<>> /\ Head(Tail(s)) = s[2]
  <2>1. SUFFICES ASSUME Len(s) # 1 PROVE Tail(s) # <<>> /\ Head(Tail(s)) = s[2]
    OBVIOUS
  <2>2. Len(Tail(s)) # 0 /\ Tail(s)[1] = s[2]
    BY <1>1, <1>2, <1>3, <2>1
  <2>3. \A t \in Seq(S) : Len(t) # 0 => t # <<>> /\ Head(t) = t[1]
    OBVIOUS
  <2>4. QED
    BY <1>4, <2>2, <2>3
<1>11. QED
  BY <1>4, <1>6, <1>7, <1>8, <1>9, <1>10

(* Who is planned has an address, and deserves it.                            *)
LEMMA TwoOfMany ==
    ASSUME NEW S, IsFiniteSet(S), Cardinality(S) >= 2 PROVE \E a, b \in S : a # b
<1>1. SUFFICES ASSUME \A a, b \in S : a = b PROVE FALSE
  OBVIOUS
<1>2. CASE S = {}
  BY <1>2, FS_EmptySet
<1>3. CASE S # {}
  <2>1. PICK a \in S : TRUE
    BY <1>3
  <2>2. S = {a}
    BY <1>1, <2>1
  <2>3. QED
    BY <2>2, FS_Singleton
<1>4. QED
  BY <1>2, <1>3

LEMMA ExportedIsEarned ==
    ASSUME NEW g \in Graphs, NEW c \in NetCommands, NEW q \in Exported(g, c)
    PROVE  q \in DOMAIN KindOf /\ Earned(g, c, q)
<1> DEFINE L == {m \in g.letters : inPeriod(m.day, c)}
           C == {k \in g.commits : inPeriod(k.day, c)}
<1>1. PICK l : l \in BuildLinks(g, c) /\ l.verdict = "accept" /\ l.kind # "service" /\ q = l.person
  BY DEF Exported
<1>2. PICK p \in DOMAIN KindOf \ {Target} : l = LinkTo(g, c, p)
  BY <1>1 DEF BuildLinks
<1>3. q = p /\ KindOf[q] # "service"
      /\ verdict(Cardinality(Direct(L, q)), Cardinality(Replies(L, g.letters, q)), Projects(C, q)) = "accept"
  BY <1>1, <1>2 DEF LinkTo
<1>4. CASE Cardinality(Direct(L, q)) >= 2
  <2>1. IsFiniteSet(Direct(L, q))
    BY FS_Subset, NetAssumption DEF Direct
  <2>2. PICK m, n \in Direct(L, q) : m # n
    BY <1>4, <2>1, TwoOfMany
  <2>3. \A d \in Direct(L, q) :
           d \in L /\ \E a, b \in {q, Target} : a # b /\ d.from = a /\ b \in d.to \cup d.cc \cup d.bcc
    BY <1>2, <1>3 DEF Direct, recipientRole
  <2>4. QED
    BY <1>2, <1>3, <2>2, <2>3 DEF Earned
<1>5. CASE Cardinality(Replies(L, g.letters, q)) >= 1
  <2>1. Replies(L, g.letters, q) # {}
    BY <1>5, FS_EmptySet
  <2>2. PICK m \in L, o \in g.letters : m.parent = o.id /\ {m.from, o.from} = {Target, q}
    BY <2>1 DEF Replies
  <2>3. m.from # o.from /\ {m.from, o.from} \subseteq {q, Target}
    BY <1>2, <1>3, <2>2
  <2>4. QED
    BY <1>2, <1>3, <2>2, <2>3 DEF Earned
<1>6. CASE Projects(C, q) # {}
  <2>1. PICK a, b \in C : a.repo = b.repo /\ a.who = q /\ b.who = Target
    BY <1>6 DEF Projects
  <2>2. QED
    BY <1>2, <1>3, <2>1 DEF Earned
<1>7. QED
  BY <1>2, <1>3, <1>4, <1>5, <1>6 DEF verdict

LEMMA PlannedAreKnown ==
    ASSUME NetTypes
    PROVE  /\ IsFiniteSet(planned) /\ PlanIsEarned
           /\ \A q \in planned : q \in Nat /\ q # NoOne /\ q \in DOMAIN CompanyOf
<1>1. made.graph \in Graphs /\ made.cmd \in NetCommands /\ planned = Exported(made.graph, made.cmd)
  BY DEF NetTypes, Exports
<1>2. planned \subseteq DOMAIN KindOf /\ \A q \in planned : Earned(made.graph, made.cmd, q)
  BY <1>1, ExportedIsEarned
<1>3. PlanIsEarned
  BY <1>1, <1>2 DEF PlanIsEarned, EarnedBy, NetTypes
<1>4. QED
  BY <1>2, <1>3, NetAssumption, FS_Subset

LEMMA BookIsTyped ==
    ASSUME NetTypes
    PROVE  /\ DOMAIN book = 1 .. Len(book) /\ Len(book) \in Nat
           /\ \A k \in DOMAIN book : book[k] \in ContactsOf(Companies)
<1>1. \A C : \A b \in Seq(C) : DOMAIN b = 1 .. Len(b) /\ Len(b) \in Nat /\ \A k \in DOMAIN b : b[k] \in C
  OBVIOUS
<1>2. QED
  BY <1>1 DEF NetTypes

-----------------------------------------------------------------------------
(* What most steps leave: the contacts, with their addresses, and all that    *)
(* makes them complete.                                                       *)
BookKept ==
    /\ DOMAIN book' = DOMAIN book /\ companyBook \subseteq companyBook' /\ UNCHANGED <<planned, ccmd>>
    /\ cameBetween \subseteq cameBetween'
    /\ \A k \in DOMAIN book :
          /\ book'[k].email = book[k].email
          /\ book[k].tag => book'[k].tag
          /\ book[k].about # "none" => book'[k].about # "none"
          /\ book'[k].company \in {book[k].company, CompanyOf[book[k].email]}

LEMMA EntryIs ==
    ASSUME NEW q, HasContact(q)
    PROVE  Entry(q) \in DOMAIN book /\ book[Entry(q)].email = q
<1>1. \E k \in Holders(q) : TRUE
  BY DEF HasContact, Holders
<1>2. Entry(q) \in Holders(q)
  BY <1>1 DEF Entry
<1>3. QED
  BY <1>2 DEF Holders

LEMMA KeptMeans ==
    ASSUME BookKept
    PROVE  /\ \A q : HasContact(q) <=> HasContact(q)'
           /\ \A q : Entry(q)' = Entry(q)
           /\ \A q : (Complete(q) => Complete(q)') /\ (Linked(q) => Linked(q)')
           /\ \A Q : Unknown(Q) => Unknown(Q)'
           /\ OnePerAddress => OnePerAddress'
           /\ AllDone => AllDone'
<1>1. \A q : HasContact(q) <=> HasContact(q)'
  BY DEF BookKept, HasContact
<1>2. ASSUME NEW q PROVE Entry(q)' = Entry(q)
  <2>1. Holders(q)' = Holders(q)
    BY DEF BookKept, Holders
  <2>2. QED
    BY <2>1 DEF Entry
<1>3. ASSUME NEW q, Complete(q) PROVE Complete(q)'
  <2>1. HasContact(q) /\ Entry(q) \in DOMAIN book
    BY <1>3, EntryIs DEF Complete
  <2>2. book'[Entry(q)].tag /\ book'[Entry(q)].about # "none"
    BY <1>3, <2>1 DEF BookKept, Complete
  <2>3. QED
    BY <1>1, <1>2, <2>1, <2>2 DEF Complete
<1>4. ASSUME NEW q, Linked(q) PROVE Linked(q)'
  <2>1. HasContact(q) /\ Entry(q) \in DOMAIN book /\ book[Entry(q)].email = q
    BY <1>4, EntryIs DEF Linked
  <2>2. CompanyOf[q] \in companyBook' /\ book'[Entry(q)].company = CompanyOf[q]
    BY <1>4, <2>1 DEF BookKept, Linked
  <2>3. QED
    BY <1>1, <1>2, <2>1, <2>2 DEF Linked
<1>5. \A Q : Unknown(Q) => Unknown(Q)'
  BY DEF BookKept, Unknown
<1>6. OnePerAddress => OnePerAddress'
  BY DEF BookKept, OnePerAddress
<1>7. AllDone => AllDone'
  BY <1>1, <1>3, <1>4 DEF BookKept, AllDone, AllToDo, CompanyBoxes
<1>8. QED
  BY <1>1, <1>2, <1>3, <1>4, <1>5, <1>6, <1>7

LEMMA LooseAreFinite == ASSUME NetTypes PROVE IsFiniteSet(LooseOnes) /\ Cardinality(LooseOnes) \in Nat
<1>1. \A n \in Nat : IsFiniteSet(1 .. n)
  BY FS_Interval
<1>2. QED
  BY <1>1, BookIsTyped, FS_Subset, FS_CardinalityType DEF LooseOnes

LEMMA NoMoreLoose ==
    ASSUME NetTypes, FewLoose, LooseOnes' \subseteq LooseOnes, unclean' \in Nat, unclean <= unclean'
    PROVE  FewLoose'
<1>1. Cardinality(LooseOnes') <= Cardinality(LooseOnes) /\ Cardinality(LooseOnes') \in Nat
  BY LooseAreFinite, FS_Subset, FS_CardinalityType
<1>2. \A a, b, c, d \in Nat : a <= b /\ b <= c /\ c <= d => a <= d
  OBVIOUS
<1>3. QED
  BY <1>1, <1>2, LooseAreFinite DEF FewLoose, NetTypes

LEMMA OneMoreLoose ==
    ASSUME NetTypes, FewLoose, NEW k, LooseOnes' \subseteq LooseOnes \cup {k}, unclean' = unclean + 1
    PROVE  FewLoose'
<1>1. IsFiniteSet({k}) /\ Cardinality({k}) = 1
  BY FS_Singleton
<1>2. IsFiniteSet(LooseOnes \cup {k}) /\ Cardinality(LooseOnes \cup {k}) <= Cardinality(LooseOnes) + 1
      /\ Cardinality(LooseOnes \cup {k}) \in Nat
  BY <1>1, LooseAreFinite, UnionCount
<1>3. Cardinality(LooseOnes') <= Cardinality(LooseOnes \cup {k}) /\ Cardinality(LooseOnes') \in Nat
  BY <1>2, FS_Subset, FS_CardinalityType
<1>4. \A a, b, c, d \in Nat : a <= b /\ b <= c + 1 /\ c <= d => a <= d + 1
  OBVIOUS
<1>5. QED
  BY <1>2, <1>3, <1>4, LooseAreFinite DEF FewLoose, NetTypes

(* A step of the import is over: nobody is left in the queue.                 *)
LEMMA StepIsOver ==
    ASSUME NetInv, NetTypes', UNCHANGED <<planned, ccmd>>, persons' = <<>>, npc' \in {"idle", "backfill", "companies"},
           FewLoose', OnePerAddress', HandsKept', rewrote' = 0, imported' => AllDone',
           npc' # "idle" => planned # {} /\ \A q \in planned : AllToDo => HasContact(q)',
           npc' = "backfill" => ccmd.backfill,
           npc' = "companies" => ccmd.companies /\ CompanyBoxes # {} /\ (AllToDo /\ ccmd.backfill => \A q \in planned : Complete(q)')
    PROVE  NetInv'
<1>1. ~Creating' /\ ~Completing' /\ ~Grouping' /\ ~Updating'
  BY DEF Creating, Completing, Grouping, Updating
<1>2. Queued'
  <2>1. DOMAIN <<>> = {} /\ \A S : <<>> \in Seq(S)
    OBVIOUS
  <2>2. CompanyBoxes' = CompanyBoxes
    BY DEF CompanyBoxes
  <2>3. QED
    BY <1>1, <2>1, <2>2 DEF Queued
<1>3. Fresh' /\ ReadBefore' /\ IndexIsTrue'
  BY <1>1 DEF Fresh, ReadBefore, IndexIsTrue
<1>4. NothingSkipped'
  BY <1>1 DEF NothingSkipped, AllToDo
<1>5. NothingToWrite'
  BY <1>1 DEF NothingToWrite
<1>6. QED
  BY <1>2, <1>3, <1>4, <1>5 DEF NetInv

LEMMA BackfillIsOver ==
    ASSUME NetInv, NetTypes', UNCHANGED <<planned, ccmd>>, planned # {}, FewLoose', OnePerAddress', HandsKept',
           rewrote' = 0, AllDone => AllDone', NEW ok, AfterBackfill(ok),
           ok /\ AllToDo => \A q \in planned : HasContact(q)' /\ (ccmd.backfill => Complete(q)')
    PROVE  NetInv'
<1>1. CASE ok /\ ccmd.companies /\ CompanyBoxes # {}
  <2>1. npc' = "companies" /\ persons' = <<>> /\ imported' = imported
    BY <1>1 DEF AfterBackfill, GoTo
  <2>2. imported' => AllDone'
    BY <2>1 DEF NetInv, NothingToWrite
  <2>3. QED
    BY <1>1, <2>1, <2>2, StepIsOver
<1>2. CASE ~(ok /\ ccmd.companies /\ CompanyBoxes # {})
  <2>1. npc' = "idle" /\ persons' = <<>> /\ (imported' => imported \/ (ok /\ AllToDo))
    BY <1>2 DEF AfterBackfill, RunOver, AllToDo
  <2>2. ok /\ AllToDo => AllDone'
    BY <1>2 DEF AllDone, AllToDo, CompanyBoxes
  <2>3. imported' => AllDone'
    BY <2>1, <2>2 DEF NetInv, NothingToWrite
  <2>4. QED
    BY <2>1, <2>3, StepIsOver
<1>3. QED
  BY <1>1, <1>2

LEMMA RunIsOver ==
    ASSUME NetInv, NetTypes', UNCHANGED <<planned, ccmd>>, planned # {}, FewLoose', OnePerAddress', HandsKept',
           rewrote' = 0, AllDone => AllDone', NEW ok, AfterRun(ok),
           ok /\ AllToDo => \A q \in planned : HasContact(q)'
    PROVE  NetInv'
<1>1. CASE ok /\ ccmd.backfill
  <2>1. npc' = "backfill" /\ persons' = <<>> /\ imported' = imported
    BY <1>1 DEF AfterRun, GoTo
  <2>2. imported' => AllDone'
    BY <2>1 DEF NetInv, NothingToWrite
  <2>3. QED
    BY <1>1, <2>1, <2>2, StepIsOver
<1>2. CASE ~(ok /\ ccmd.backfill)
  BY <1>2, BackfillIsOver DEF AfterRun
<1>3. QED
  BY <1>1, <1>2

LEMMA ImportFails ==
    ASSUME NetInv, NetTypes', UNCHANGED <<planned, ccmd>>, planned # {}, FewLoose', OnePerAddress', HandsKept',
           rewrote' = 0, AllDone => AllDone', RunOver(FALSE)
    PROVE  NetInv'
<1>1. npc' = "idle" /\ persons' = <<>> /\ (imported' => imported)
  BY DEF RunOver
<1>2. imported' => AllDone'
  BY <1>1 DEF NetInv, NothingToWrite
<1>3. QED
  BY <1>1, <1>2, StepIsOver

(* A step that changes nothing of the CRM and of what is remembered of it.    *)
LookedOnly == UNCHANGED <<made, planned, ccmd, typed, crossed, cameBetween, edits, book, companyBook, unclean, rewrote>>

LEMMA LookingKeeps ==
    ASSUME NetInv, LookedOnly
    PROVE  /\ BookKept /\ OnePerAddress' /\ HandsKept' /\ rewrote' = 0
           /\ UNCHANGED <<planned, ccmd>> /\ UNCHANGED <<typed, crossed, cameBetween>>
           /\ asRead' \in ContactsOf(Companies) /\ contactID' \in Nat => NetTypes'
<1>1. BookKept
  BY DEF LookedOnly, BookKept
<1>2. QED
  BY <1>1 DEF LookedOnly, NetInv, NetTypes, HandsKept, OnePerAddress, NothingToWrite

(* Nothing becomes loose while nothing is being created or written back.      *)
LEMMA LookingLoosens ==
    ASSUME NetInv, LookedOnly, npc \notin {"email", "label", "rollback"}, ~Updating' \/ UNCHANGED <<npc, contactID, asRead>>
    PROVE  FewLoose'
<1>1. LooseOnes' \subseteq LooseOnes
  BY DEF LookedOnly, LooseOnes, Loose, BeingCreated, Updating
<1>2. unclean \in Nat /\ unclean' = unclean /\ unclean <= unclean
  BY DEF NetInv, NetTypes, LookedOnly
<1>3. QED
  BY <1>1, <1>2, NoMoreLoose DEF NetInv

-----------------------------------------------------------------------------
LEMMA MakeManifestKeeps == ASSUME NetInv, MakeManifest PROVE NetInv'
<1> USE DEF NetInv
<1>1. npc = "idle" /\ npc' = "idle" /\ persons = <<>> /\ persons' = <<>> /\ imported' = FALSE
      /\ UNCHANGED <<book, typed, crossed, cameBetween, unclean, rewrote, ccmd, contactID, asRead>>
  BY DEF MakeManifest, Free, Queued, runVars, contactVars, handVars
<1>2. ~Creating' /\ ~Completing' /\ ~Grouping' /\ ~Updating' /\ ~Updating
  BY <1>1 DEF Creating, Completing, Grouping, Updating
<1>3. NetTypes'
  BY <1>1 DEF NetTypes, MakeManifest, Manifests
<1>4. Queued'
  <2>1. DOMAIN <<>> = {} /\ \A S : <<>> \in Seq(S)
    OBVIOUS
  <2>2. QED
    BY <1>1, <1>2, <2>1 DEF Queued
<1>5. Fresh' /\ ReadBefore' /\ IndexIsTrue' /\ NothingSkipped'
  BY <1>1, <1>2 DEF Fresh, ReadBefore, IndexIsTrue, NothingSkipped
<1>6. OnePerAddress' /\ HandsKept' /\ NothingToWrite'
  BY <1>1 DEF OnePerAddress, HandsKept, NothingToWrite
<1>7. FewLoose'
  <2>1. LooseOnes' = LooseOnes
    BY <1>1, <1>2 DEF LooseOnes, Loose, BeingCreated
  <2>2. QED
    BY <1>1, <2>1 DEF FewLoose
<1>8. QED
  BY <1>3, <1>4, <1>5, <1>6, <1>7

LEMMA StartImportKeeps == ASSUME NetInv, StartImport PROVE NetInv'
<1> USE DEF NetInv
<1>1. npc = "idle" /\ npc' = "run" /\ persons = <<>> /\ persons' = <<>> /\ planned # {} /\ ccmd' \in CrmCommands
      /\ (imported' => imported /\ ccmd' = ccmd)
      /\ UNCHANGED <<made, planned, book, companyBook, typed, crossed, cameBetween, unclean, rewrote, contactID, asRead>>
  BY DEF StartImport, Free, Queued, contactVars, handVars
<1>2. ~Creating' /\ ~Completing' /\ ~Grouping' /\ ~Updating' /\ ~Updating
  BY <1>1 DEF Creating, Completing, Grouping, Updating
<1>3. NetTypes'
  BY <1>1 DEF NetTypes
<1>4. Queued'
  <2>1. DOMAIN <<>> = {} /\ \A S : <<>> \in Seq(S)
    OBVIOUS
  <2>2. QED
    BY <1>1, <1>2, <2>1 DEF Queued
<1>5. Fresh' /\ ReadBefore' /\ IndexIsTrue' /\ NothingSkipped'
  BY <1>1, <1>2 DEF Fresh, ReadBefore, IndexIsTrue, NothingSkipped
<1>6. OnePerAddress' /\ HandsKept'
  BY <1>1 DEF OnePerAddress, HandsKept
<1>7. NothingToWrite'
  <2>1. rewrote' = 0
    BY <1>1 DEF NothingToWrite
  <2>2. ASSUME imported' PROVE AllDone'
    <3>1. AllDone /\ ccmd' = ccmd
      BY <1>1, <2>2 DEF NothingToWrite
    <3>2. BookKept
      BY <1>1, <3>1 DEF BookKept
    <3>3. QED
      BY <3>1, <3>2, KeptMeans
  <2>3. QED
    BY <1>2, <2>1, <2>2 DEF NothingToWrite
<1>8. FewLoose'
  <2>1. LooseOnes' = LooseOnes
    BY <1>1, <1>2 DEF LooseOnes, Loose, BeingCreated
  <2>2. QED
    BY <1>1, <2>1 DEF FewLoose
<1>9. QED
  BY <1>3, <1>4, <1>5, <1>6, <1>7, <1>8

LEMMA IndexContactsKeeps == ASSUME NetInv, NEW r, IndexContacts(r) PROVE NetInv'
<1> DEFINE fresh == planned \ DOMAIN BuildContactEmailIndex
<1>1. npc = "run" /\ LookedOnly /\ UNCHANGED <<contactID, asRead, anyFailed, emailIndex>> /\ planned # {}
  BY DEF IndexContacts, LookedOnly, outside, manifestVars, handVars, contactVars, NetInv, Queued
<1>2. BookKept /\ OnePerAddress' /\ HandsKept' /\ rewrote' = 0 /\ UNCHANGED <<planned, ccmd>> /\ NetTypes'
  BY <1>1, LookingKeeps DEF NetInv, NetTypes
<1>3. AllDone => AllDone'
  BY <1>2, KeptMeans
<1>4. \A q \in planned : q \notin DOMAIN BuildContactEmailIndex <=> ~HasContact(q)
  BY PlannedAreKnown DEF BuildContactEmailIndex, HasContact, NetInv
<1>5. ~Updating' => FewLoose'
  BY <1>1, LookingLoosens
<1>6. CASE r # "ok"
  <2>1. RunOver(FALSE)
    BY <1>6 DEF IndexContacts
  <2>2. ~Updating'
    BY <2>1 DEF RunOver, Updating
  <2>3. QED
    BY <1>1, <1>2, <1>3, <1>5, <2>1, <2>2, ImportFails
<1>7. CASE r = "ok" /\ (~ccmd.write \/ fresh = {})
  <2>1. AfterRun(TRUE)
    BY <1>7 DEF IndexContacts
  <2>2. ~Updating'
    BY <2>1 DEF AfterRun, AfterBackfill, GoTo, RunOver, Updating
  <2>3. AllToDo => \A q \in planned : HasContact(q)'
    BY <1>2, <1>4, <1>7, KeptMeans DEF AllToDo
  <2>4. QED
    BY <1>1, <1>2, <1>3, <1>5, <2>1, <2>2, <2>3, RunIsOver
<1>8. CASE r = "ok" /\ ~(~ccmd.write \/ fresh = {})
  <2>1. PICK left \in InOrder(fresh) : GoTo("tag", left)
    BY <1>8 DEF IndexContacts
  <2>2. npc' = "tag" /\ persons' = left /\ imported' = imported
    BY <2>1 DEF GoTo
  <2>3. /\ left \in Seq(fresh) /\ ToSet(left) = fresh
        /\ \A i, j \in DOMAIN left : i < j => left[i] # left[j]
    BY <2>1, PlannedAreKnown, FS_Subset, OrderLists DEF NetInv
  <2>4. ~Updating' /\ ~Completing' /\ ~Grouping' /\ Creating'
    BY <2>2 DEF Updating, Completing, Grouping, Creating
  <2>5. Queued'
    <3>1. fresh \subseteq planned => Seq(fresh) \subseteq Seq(planned)
      OBVIOUS
    <3>2. QED
      BY <1>1, <1>2, <2>2, <2>3, <2>4, <3>1 DEF Queued
  <2>6. Fresh'
    <3>1. Unknown(ToSet(left))
      BY <1>4, <2>3 DEF Unknown, HasContact
    <3>2. QED
      BY <1>2, <2>2, <3>1, KeptMeans DEF Fresh
  <2>7. ReadBefore' /\ IndexIsTrue'
    BY <2>4 DEF ReadBefore, IndexIsTrue
  <2>8. NothingSkipped'
    <3>1. \A q \in planned' : q \in ToSet(persons') \/ HasContact(q)'
      BY <1>2, <1>4, <2>2, <2>3, KeptMeans
    <3>2. QED
      BY <2>2, <2>4, <3>1 DEF NothingSkipped
  <2>9. NothingToWrite'
    <3>1. ~imported
      BY <1>4, <1>8 DEF NetInv, NothingToWrite, AllDone
    <3>2. QED
      BY <1>2, <2>2, <3>1 DEF NothingToWrite
  <2>10. QED
    BY <1>2, <1>5, <2>4, <2>5, <2>6, <2>7, <2>8, <2>9 DEF NetInv
<1>9. QED
  BY <1>6, <1>7, <1>8

LEMMA CreateContactTagKeeps == ASSUME NetInv, NEW r, CreateContactTag(r) PROVE NetInv'
<1> USE DEF NetInv
<1>1. npc \in {"tag", "backfill tag"} /\ LookedOnly /\ UNCHANGED <<contactID, asRead, anyFailed, emailIndex>>
      /\ planned # {}
  BY DEF CreateContactTag, LookedOnly, outside, manifestVars, handVars, contactVars, Queued
<1>2. BookKept /\ OnePerAddress' /\ HandsKept' /\ rewrote' = 0 /\ UNCHANGED <<planned, ccmd>> /\ NetTypes'
  BY <1>1, LookingKeeps DEF NetTypes
<1>3. ~Updating' => FewLoose'
  BY <1>1, LookingLoosens
<1>4. CASE r # "ok"
  <2>1. RunOver(FALSE)
    BY <1>4 DEF CreateContactTag
  <2>2. ~Updating'
    BY <2>1 DEF RunOver, Updating
  <2>3. QED
    BY <1>1, <1>2, <1>3, <2>1, <2>2, KeptMeans, ImportFails
<1>5. CASE r = "ok"
  <2>1. npc' = (IF npc = "tag" THEN "create" ELSE "complete") /\ UNCHANGED <<persons, imported>>
    BY <1>5 DEF CreateContactTag, GoTo
  <2>2. ~Updating' /\ ~Updating /\ ~Grouping' /\ ~Grouping /\ (Creating' <=> Creating) /\ (Completing' <=> Completing)
        /\ npc' \notin {"idle", "run", "backfill", "companies", "email", "label", "rollback", "add about", "member", "link"}
        /\ (npc' \in {"tag", "create", "email"} => npc = "tag") /\ (Completing => ~Creating)
    BY <1>1, <2>1 DEF Updating, Grouping, Creating, Completing
  <2>3. Queued'
    BY <1>1, <1>2, <2>1, <2>2 DEF Queued
  <2>4. Fresh'
    BY <1>1, <1>2, <2>1, <2>2, KeptMeans DEF Fresh
  <2>5. ReadBefore' /\ IndexIsTrue'
    BY <1>1, <1>2, <2>2, KeptMeans DEF ReadBefore, IndexIsTrue, LookedOnly
  <2>6. NothingSkipped'
    BY <1>1, <1>2, <2>1, <2>2, KeptMeans DEF NothingSkipped, AllToDo
  <2>7. NothingToWrite'
    BY <1>1, <1>2, <2>1, <2>2, KeptMeans DEF NothingToWrite
  <2>8. QED
    BY <1>2, <1>3, <2>2, <2>3, <2>4, <2>5, <2>6, <2>7
<1>6. QED
  BY <1>4, <1>5

LEMMA RunEndsKeeps == ASSUME NetInv, RunEnds PROVE NetInv'
<1> USE DEF NetInv
<1>1. npc = "create" /\ LookedOnly /\ UNCHANGED <<contactID, asRead>> /\ planned # {}
  BY DEF RunEnds, LookedOnly, outside, manifestVars, handVars, contactVars, Queued
<1>2. BookKept /\ OnePerAddress' /\ HandsKept' /\ rewrote' = 0 /\ UNCHANGED <<planned, ccmd>> /\ NetTypes'
  BY <1>1, LookingKeeps DEF NetTypes
<1>3. AfterRun(~anyFailed) /\ (persons = <<>> \/ ccmd.limit > 0)
  BY DEF RunEnds
<1>4. ~Updating'
  BY <1>3 DEF AfterRun, AfterBackfill, GoTo, RunOver, Updating
<1>5. ASSUME ~anyFailed, AllToDo PROVE \A q \in planned : HasContact(q)'
  <2>1. persons = <<>>
    BY <1>3, <1>5 DEF AllToDo
  <2>2. \A q \in planned : HasContact(q)
    BY <1>1, <1>5, <2>1, NothingInIt DEF NothingSkipped, Creating
  <2>3. QED
    BY <1>2, <2>2, KeptMeans
<1>6. FewLoose'
  BY <1>1, <1>4, LookingLoosens
<1>7. QED
  BY <1>1, <1>2, <1>3, <1>5, <1>6, KeptMeans, RunIsOver

(* While contacts are being created nothing has been imported before, and     *)
(* nothing is written back.                                                   *)
LEMMA CreationStays ==
    ASSUME NetInv, Creating
    PROVE  ~imported /\ ~Updating /\ ~Completing /\ ~Grouping /\ rewrote = 0 /\ persons \in Seq(planned)
           /\ \A r : Writes(r) => rewrote' = 0
  BY DEF NetInv, NothingToWrite, Queued, Creating, Updating, Completing, Grouping, Writes

(* What a step of the creation has to show for itself.                        *)
LEMMA CreatedSo ==
    ASSUME NetInv, Creating, Creating', NetTypes', UNCHANGED <<planned, ccmd, imported>>, rewrote' = 0,
           persons' = persons \/ (persons # <<>> /\ persons' = Tail(persons)),
           npc' \in {"email", "label", "rollback"} => persons' # <<>>,
           Fresh', FewLoose', OnePerAddress', HandsKept',
           ~anyFailed' /\ AllToDo => \A q \in planned : q \in ToSet(persons') \/ HasContact(q)'
    PROVE  NetInv'
<1>1. ~Updating' /\ ~Completing' /\ ~Grouping' /\ npc' \notin {"idle", "run", "backfill", "companies", "add about", "member", "link"}
  BY DEF Creating, Updating, Completing, Grouping
<1>2. persons \in Seq(planned) /\ ~imported /\ npc # "idle"
  BY CreationStays DEF Creating
<1>3. Queued'
  <2>1. persons' \in Seq(planned) /\ \A i, j \in DOMAIN persons' : i < j => persons'[i] # persons'[j]
    <3>1. \A i, j \in DOMAIN persons : i < j => persons[i] # persons[j]
      BY DEF NetInv, Queued
    <3>2. CASE persons' = persons
      BY <1>2, <3>1, <3>2
    <3>3. CASE persons # <<>> /\ persons' = Tail(persons)
      BY <1>2, <3>1, <3>3, RestOfQueue
    <3>4. QED
      BY <3>2, <3>3
  <2>2. planned' # {}
    BY <1>2 DEF NetInv, Queued
  <2>3. QED
    BY <1>1, <2>1, <2>2 DEF Queued
<1>4. ReadBefore' /\ IndexIsTrue'
  BY <1>1 DEF ReadBefore, IndexIsTrue
<1>5. NothingSkipped'
  BY <1>1 DEF NothingSkipped, AllToDo
<1>6. NothingToWrite'
  BY <1>1, <1>2 DEF NothingToWrite
<1>7. QED
  BY <1>3, <1>4, <1>5, <1>6 DEF NetInv

LEMMA Replaced ==
    ASSUME NEW C, NEW b \in Seq(C), NEW k \in DOMAIN b, NEW f \in C
    PROVE  /\ [b EXCEPT ![k] = f] \in Seq(C) /\ DOMAIN [b EXCEPT ![k] = f] = DOMAIN b
           /\ \A j \in DOMAIN b : [b EXCEPT ![k] = f][j] = IF j = k THEN f ELSE b[j]
  OBVIOUS

LEMMA Appended ==
    ASSUME NEW S, NEW s \in Seq(S), NEW e \in S
    PROVE  /\ Append(s, e) \in Seq(S) /\ DOMAIN Append(s, e) = DOMAIN s \cup {Len(s) + 1}
           /\ Len(Append(s, e)) = Len(s) + 1 /\ Len(s) + 1 \notin DOMAIN s /\ Len(s) + 1 \in Nat
           /\ Append(s, e)[Len(s) + 1] = e /\ \A k \in DOMAIN s : Append(s, e)[k] = s[k]
  OBVIOUS

LEMMA CreatePersonKeeps == ASSUME NetInv, NEW r, CreatePerson(r) PROVE NetInv'
<1> DEFINE new == Len(book) + 1
<1>0. PICK made1 : made1 = NewContact(Head(persons))
  OBVIOUS
<1>1. npc = "create" /\ Creating /\ persons # <<>> /\ contactID' = new /\ rewrote' = 0
      /\ UNCHANGED <<made, planned, ccmd, typed, crossed, cameBetween, asRead, emailIndex, companyBook>>
  BY CreationStays DEF CreatePerson, outside, manifestVars, handVars, Creating
<1>2. book' = (IF Takes(r) THEN Append(book, made1) ELSE book) /\ unclean' = IF r = "lost" THEN unclean + 1 ELSE unclean
  BY <1>0 DEF CreatePerson, Mishap
<1>3. /\ r = "ok" => npc' = "email" /\ persons' = persons /\ (anyFailed' <=> anyFailed)
      /\ r # "ok" => npc' = "create" /\ persons' = Tail(persons) /\ anyFailed'
      /\ imported' = imported
  BY DEF CreatePerson, GoTo, Fails
<1>4. r \in {"ok", "refused", "lost"}
  BY DEF CreatePerson, Writes, Call
<1>5. book \in Seq(ContactsOf(Companies)) /\ made1 \in ContactsOf(Companies) /\ made1.email = NoOne
  BY <1>0 DEF NetInv, NetTypes, NewContact, Contact, ContactsOf, Companies, LastNames, NoOne
<1>6. /\ book' \in Seq(ContactsOf(Companies)) /\ new \in Nat /\ new \notin DOMAIN book
      /\ Takes(r) => DOMAIN book' = DOMAIN book \cup {new} /\ Len(book') = new /\ book'[new] = made1
      /\ ~Takes(r) => book' = book
      /\ \A k \in DOMAIN book : k \in DOMAIN book' /\ book'[k] = book[k]
      /\ DOMAIN book' \subseteq DOMAIN book \cup {new}
      /\ \A k \in DOMAIN book' : k \notin DOMAIN book => k = new /\ book'[k] = made1
  BY <1>2, <1>5, Appended
<1>7. NetTypes'
  <2>1. DOMAIN typed \subseteq DOMAIN book /\ unclean' \in Nat
    BY <1>2 DEF NetInv, NetTypes
  <2>2. QED
    BY <1>1, <1>6, <2>1 DEF NetInv, NetTypes
<1>8. Unknown(ToSet(persons)) /\ ToSet(Tail(persons)) \subseteq ToSet(persons) /\ \A q \in ToSet(persons) : q # NoOne
  <2>1. ToSet(persons) \subseteq planned
    <3>1. \A S : \A s \in Seq(S) : \A i \in DOMAIN s : s[i] \in S
      OBVIOUS
    <3>2. QED
      BY <1>1, <3>1, CreationStays DEF ToSet
  <2>2. QED
    BY <1>1, <2>1, PlannedAreKnown, CreationStays, RestOfQueue DEF NetInv, Fresh, Queued
<1>9. \A q \in ToSet(persons') : \A k \in DOMAIN book' \ cameBetween' : book'[k].email # q
  <2>1. ToSet(persons') \subseteq ToSet(persons)
    BY <1>3, <1>4, <1>8
  <2>2. \A q \in ToSet(persons) : \A k \in DOMAIN book' \ cameBetween' : book'[k].email # q
    BY <1>1, <1>5, <1>6, <1>8 DEF Unknown
  <2>3. QED
    BY <2>1, <2>2
<1>10. Fresh'
  <2>1. Unknown(ToSet(persons))'
    BY <1>9 DEF Unknown
  <2>2. CASE r = "ok"
    <3>1. npc' = "email" /\ contactID' \in DOMAIN book' /\ book'[contactID'].email = NoOne
      BY <1>1, <1>3, <1>5, <1>6, <2>2 DEF Takes
    <3>2. contactID' \notin DOMAIN typed'
      BY <1>1, <1>6 DEF NetInv, NetTypes
    <3>3. QED
      BY <2>1, <3>1, <3>2 DEF Fresh
  <2>3. CASE r # "ok"
    <3>1. npc' = "create"
      BY <1>3, <2>3
    <3>2. QED
      BY <2>1, <3>1 DEF Fresh
  <2>4. QED
    BY <2>2, <2>3
<1>11. Creating' /\ ~Updating' /\ ~Updating
  BY <1>1, <1>3 DEF Creating, Updating
<1>12. FewLoose'
  <2>1. \A k \in DOMAIN book : (Loose(k) <=> Loose(k)') /\ ~BeingCreated(k)
    BY <1>1, <1>6, <1>11 DEF Loose, BeingCreated
  <2>2. CASE r = "ok"
    <3>1. \A k : k = new => BeingCreated(k)'
      BY <1>1, <1>3, <2>2 DEF BeingCreated
    <3>2. LooseOnes' \subseteq LooseOnes
      BY <1>6, <2>1, <3>1 DEF LooseOnes
    <3>3. unclean' = unclean /\ unclean \in Nat /\ unclean <= unclean
      BY <1>2, <2>2 DEF NetInv, NetTypes
    <3>4. QED
      BY <3>2, <3>3, NoMoreLoose DEF NetInv
  <2>3. CASE r = "refused"
    <3>1. LooseOnes' \subseteq LooseOnes
      BY <1>6, <2>1, <2>3 DEF LooseOnes, Takes
    <3>2. unclean' = unclean /\ unclean \in Nat /\ unclean <= unclean
      BY <1>2, <2>3 DEF NetInv, NetTypes
    <3>3. QED
      BY <3>1, <3>2, NoMoreLoose DEF NetInv
  <2>4. CASE r = "lost"
    <3>1. LooseOnes' \subseteq LooseOnes \cup {new}
      BY <1>6, <2>1 DEF LooseOnes
    <3>2. QED
      BY <1>2, <2>4, <3>1, OneMoreLoose DEF NetInv
  <2>5. QED
    BY <1>4, <2>2, <2>3, <2>4
<1>13. OnePerAddress'
  BY <1>1, <1>5, <1>6 DEF NetInv, OnePerAddress
<1>14. HandsKept'
  BY <1>1, <1>6 DEF NetInv, HandsKept, NetTypes
<1>15. ASSUME ~anyFailed', AllToDo PROVE \A q \in planned : q \in ToSet(persons') \/ HasContact(q)'
  <2>1. persons' = persons /\ ~anyFailed
    BY <1>3, <1>15
  <2>2. \A q \in planned : q \in ToSet(persons) \/ HasContact(q)
    BY <1>1, <1>15, <2>1 DEF NetInv, NothingSkipped
  <2>3. \A q : HasContact(q) => HasContact(q)'
    BY <1>6 DEF HasContact
  <2>4. QED
    BY <2>1, <2>2, <2>3
<1>16. npc' \in {"email", "label", "rollback"} => persons' # <<>>
  BY <1>1, <1>3
<1>17. QED
  BY <1>1, <1>3, <1>7, <1>10, <1>11, <1>12, <1>13, <1>14, <1>15, <1>16, CreatedSo

LEMMA AddContactInfoKeeps == ASSUME NetInv, NEW r, AddContactInfo(r) PROVE NetInv'
<1> DEFINE k == contactID
           q == Head(persons)
<1>1. npc = "email" /\ Creating /\ persons # <<>> /\ rewrote' = 0
      /\ UNCHANGED <<made, planned, ccmd, typed, crossed, cameBetween, asRead, contactID, emailIndex, companyBook, unclean,
                     anyFailed, persons, imported>>
      /\ npc' \in {"label", "rollback"} /\ (npc' = "label" <=> r = "ok")
  BY CreationStays DEF AddContactInfo, outside, manifestVars, handVars, contactVars, Creating, GoTo, NetInv, Queued
<1>2. k \in DOMAIN book /\ (k \in DOMAIN typed => k \in crossed) /\ book[k].email = NoOne /\ Unknown(ToSet(persons))
  BY <1>1 DEF NetInv, Fresh
<1>3. /\ persons \in Seq(planned) /\ q \in planned /\ q \in ToSet(persons) /\ q \notin ToSet(Tail(persons))
      /\ ToSet(Tail(persons)) \subseteq ToSet(persons)
  BY <1>1, CreationStays, RestOfQueue DEF NetInv, Queued
<1>4. \A p \in planned : p \in Nat /\ p # NoOne
  BY PlannedAreKnown DEF NetInv
<1>5. PICK f : f = [book[k] EXCEPT !.email = q]
  OBVIOUS
<1>6. book[k] \in ContactsOf(Companies)
  BY <1>2, BookIsTyped DEF NetInv
<1>7. /\ f \in ContactsOf(Companies) /\ f.email = q
      /\ f.name = book[k].name /\ f.last = book[k].last /\ f.about = book[k].about /\ f.tag = book[k].tag /\ f.company = book[k].company
  BY <1>3, <1>4, <1>5, <1>6 DEF ContactsOf
<1>8. book' = (IF Takes(r) THEN [book EXCEPT ![k] = f] ELSE book)
  BY <1>5 DEF AddContactInfo
<1>9. /\ book' \in Seq(ContactsOf(Companies)) /\ DOMAIN book' = DOMAIN book
      /\ Takes(r) => book'[k] = f
      /\ ~Takes(r) => book'[k] = book[k]
      /\ \A j \in DOMAIN book : j # k => book'[j] = book[j]
  <2>1. \A C : \A b \in Seq(C), c \in C : \A i \in DOMAIN b :
           [b EXCEPT ![i] = c] \in Seq(C)
    OBVIOUS
  <2>2. book \in Seq(ContactsOf(Companies))
    BY DEF NetInv, NetTypes
  <2>3. QED
    BY <1>2, <1>7, <1>8, <2>1, <2>2
<1>10. NetTypes'
  BY <1>1, <1>9 DEF NetInv, NetTypes
<1>11. r = "ok" => Takes(r)
  BY DEF Takes
<1>12. \A p \in ToSet(Tail(persons)) : \A j \in DOMAIN book' \ cameBetween' : book'[j].email # p
  <2>1. \A p \in ToSet(Tail(persons)) : \A j \in DOMAIN book \ cameBetween : book[j].email # p /\ p # q
    BY <1>2, <1>3 DEF Unknown
  <2>2. QED
    BY <1>1, <1>2, <1>7, <1>9, <2>1
<1>13. Fresh'
  <2>1. Unknown(ToSet(Tail(persons)))'
    BY <1>1, <1>12 DEF Unknown
  <2>2. npc' = "label" => book'[contactID'].email = Head(persons')
    BY <1>1, <1>7, <1>9, <1>11
  <2>3. contactID' \in DOMAIN book' /\ (contactID' \in DOMAIN typed' => contactID' \in crossed')
    BY <1>1, <1>2, <1>9
  <2>4. npc' \notin {"tag", "create", "email"}
    BY <1>1
  <2>5. QED
    BY <2>1, <2>2, <2>3, <2>4 DEF Fresh
<1>14. Creating' /\ ~Updating' /\ ~Updating
  BY <1>1 DEF Creating, Updating
<1>15. FewLoose'
  <2>1. \A j \in DOMAIN book : j # k => (Loose(j) <=> Loose(j)')
    BY <1>9, <1>14 DEF Loose
  <2>2. \A j : (BeingCreated(j) <=> j = k) /\ (BeingCreated(j)' <=> j = k)
    BY <1>1 DEF BeingCreated
  <2>3. LooseOnes' \subseteq LooseOnes
    BY <1>9, <2>1, <2>2 DEF LooseOnes
  <2>4. unclean' = unclean /\ unclean \in Nat /\ unclean <= unclean
    BY <1>1 DEF NetInv, NetTypes
  <2>5. QED
    BY <2>3, <2>4, NoMoreLoose DEF NetInv
<1>16. OnePerAddress'
  <2>1. \A j \in DOMAIN book \ cameBetween : j # k => book'[j].email = book[j].email /\ book[j].email # q
    BY <1>2, <1>3, <1>9 DEF Unknown
  <2>2. book'[k].email \in {q, NoOne}
    BY <1>2, <1>7, <1>9
  <2>3. \A i, j \in DOMAIN book \ cameBetween : book[i].email = book[j].email /\ book[i].email # NoOne => i = j
    BY DEF NetInv, OnePerAddress
  <2>4. QED
    BY <1>1, <1>9, <2>1, <2>2, <2>3 DEF OnePerAddress
<1>17. HandsKept'
  BY <1>1, <1>2, <1>9 DEF NetInv, HandsKept, NetTypes
<1>18. ASSUME ~anyFailed', AllToDo PROVE \A p \in planned : p \in ToSet(persons') \/ HasContact(p)'
  <2>1. \A p \in planned : p \in ToSet(persons) \/ HasContact(p)
    BY <1>1, <1>18 DEF NetInv, NothingSkipped
  <2>2. \A p \in planned : HasContact(p) => HasContact(p)'
    BY <1>2, <1>4, <1>9 DEF HasContact
  <2>3. QED
    BY <1>1, <2>1, <2>2
<1>19. QED
  BY <1>1, <1>10, <1>13, <1>14, <1>15, <1>16, <1>17, <1>18, CreatedSo

LEMMA AddContactTagKeeps == ASSUME NetInv, NEW r, AddContactTag(r) PROVE NetInv'
<1> DEFINE k == contactID
<1>1. npc = "label" /\ Creating /\ persons # <<>> /\ rewrote' = 0
      /\ UNCHANGED <<made, planned, ccmd, typed, crossed, cameBetween, asRead, contactID, emailIndex, companyBook, unclean,
                     anyFailed, imported>>
  BY CreationStays DEF AddContactTag, outside, manifestVars, handVars, contactVars, Creating, GoTo, NetInv, Queued
<1>2. /\ r = "ok" => npc' = "create" /\ persons' = Tail(persons) /\ Takes(r)
      /\ r # "ok" => npc' = "rollback" /\ persons' = persons
  BY DEF AddContactTag, GoTo, Takes
<1>3. k \in DOMAIN book /\ (k \in DOMAIN typed => k \in crossed) /\ book[k].email = Head(persons) /\ Unknown(ToSet(Tail(persons)))
  BY <1>1 DEF NetInv, Fresh
<1>4. /\ persons \in Seq(planned) /\ Head(persons) \in planned
      /\ ToSet(persons) = {Head(persons)} \cup ToSet(Tail(persons))
  BY <1>1, CreationStays, RestOfQueue DEF NetInv, Queued
<1>5. \A p \in planned : p \in Nat /\ p # NoOne
  BY PlannedAreKnown DEF NetInv
<1>6. PICK f : f = [book[k] EXCEPT !.tag = TRUE]
  OBVIOUS
<1>7. /\ f \in ContactsOf(Companies) /\ f.tag /\ f.email = book[k].email
      /\ f.name = book[k].name /\ f.last = book[k].last /\ f.about = book[k].about /\ f.company = book[k].company
  <2>1. book[k] \in ContactsOf(Companies)
    BY <1>3, BookIsTyped DEF NetInv
  <2>2. QED
    BY <1>6, <2>1 DEF ContactsOf
<1>8. book' = (IF Takes(r) THEN [book EXCEPT ![k] = f] ELSE book)
  BY <1>6 DEF AddContactTag
<1>9. /\ book' \in Seq(ContactsOf(Companies)) /\ DOMAIN book' = DOMAIN book
      /\ Takes(r) => book'[k] = f
      /\ ~Takes(r) => book'[k] = book[k]
      /\ \A j \in DOMAIN book : j # k => book'[j] = book[j]
  <2>1. \A C : \A b \in Seq(C), c \in C : \A i \in DOMAIN b :
           [b EXCEPT ![i] = c] \in Seq(C)
    OBVIOUS
  <2>2. book \in Seq(ContactsOf(Companies))
    BY DEF NetInv, NetTypes
  <2>3. QED
    BY <1>3, <1>7, <1>8, <2>1, <2>2
<1>10. NetTypes'
  BY <1>1, <1>9 DEF NetInv, NetTypes
<1>11. BookKept
  BY <1>1, <1>7, <1>9 DEF BookKept
<1>12. Creating' /\ ~Updating' /\ ~Updating
  BY <1>1, <1>2 DEF Creating, Updating
<1>13. Fresh'
  <2>1. \A p \in ToSet(Tail(persons)) : \A j \in DOMAIN book' \ cameBetween' : book'[j].email # p
    BY <1>1, <1>3, <1>11 DEF BookKept, Unknown
  <2>2. CASE r = "ok"
    <3>1. Unknown(ToSet(persons))'
      BY <1>2, <2>1, <2>2 DEF Unknown
    <3>2. QED
      BY <1>2, <2>2, <3>1 DEF Fresh
  <2>3. CASE r # "ok"
    <3>1. Unknown(ToSet(Tail(persons)))'
      BY <1>2, <2>1, <2>3 DEF Unknown
    <3>2. contactID' \in DOMAIN book' /\ (contactID' \in DOMAIN typed' => contactID' \in crossed')
      BY <1>1, <1>3, <1>9
    <3>3. QED
      BY <1>2, <2>3, <3>1, <3>2 DEF Fresh
  <2>4. QED
    BY <2>2, <2>3
<1>14. FewLoose'
  <2>1. \A j \in DOMAIN book : j # k => (Loose(j) <=> Loose(j)')
    BY <1>9, <1>12 DEF Loose
  <2>2. \A j : BeingCreated(j) <=> j = k
    BY <1>1 DEF BeingCreated
  <2>3. LooseOnes' \subseteq LooseOnes
    <3>1. ASSUME NEW j \in DOMAIN book', Loose(j)', ~BeingCreated(j)' PROVE j \in LooseOnes
      <4>1. j # k
        <5>1. \A i : i = k => BeingCreated(i)' \/ ~Loose(i)'
          BY <1>1, <1>2, <1>3, <1>4, <1>5, <1>7, <1>9 DEF BeingCreated, Loose
        <5>2. QED
          BY <3>1, <5>1
      <4>2. QED
        BY <1>9, <2>1, <2>2, <3>1, <4>1 DEF LooseOnes
    <3>2. QED
      BY <3>1 DEF LooseOnes
  <2>4. unclean' = unclean /\ unclean \in Nat /\ unclean <= unclean
    BY <1>1 DEF NetInv, NetTypes
  <2>5. QED
    BY <2>3, <2>4, NoMoreLoose DEF NetInv
<1>15. OnePerAddress'
  BY <1>11, KeptMeans DEF NetInv
<1>16. HandsKept'
  BY <1>1, <1>3, <1>9 DEF NetInv, HandsKept, NetTypes
<1>17. ASSUME ~anyFailed', AllToDo PROVE \A p \in planned : p \in ToSet(persons') \/ HasContact(p)'
  <2>1. \A p \in planned : p \in ToSet(persons) \/ HasContact(p)
    BY <1>1, <1>17 DEF NetInv, NothingSkipped
  <2>2. HasContact(Head(persons))
    BY <1>3 DEF HasContact
  <2>3. QED
    BY <1>2, <1>4, <1>11, <2>1, <2>2, KeptMeans
<1>18. QED
  BY <1>1, <1>2, <1>10, <1>12, <1>13, <1>14, <1>15, <1>16, <1>17, CreatedSo DEF BookKept

LEMMA DeleteContactKeeps == ASSUME NetInv, NEW r, DeleteContact(r) PROVE NetInv'
<1> DEFINE k == contactID
<1>1. npc = "rollback" /\ Creating /\ persons # <<>> /\ rewrote' = 0 /\ npc' = "create" /\ persons' = Tail(persons)
      /\ anyFailed' /\ UNCHANGED <<made, planned, ccmd, typed, crossed, cameBetween, asRead, contactID, emailIndex, companyBook,
                                   imported>>
  BY CreationStays DEF DeleteContact, outside, manifestVars, handVars, contactVars, Creating, GoTo, Fails, NetInv, Queued
<1>2. k \in DOMAIN book /\ (k \in DOMAIN typed => k \in crossed) /\ Unknown(ToSet(Tail(persons)))
  BY <1>1 DEF NetInv, Fresh
<1>3. PICK f : f = Deleted
  OBVIOUS
<1>4. /\ book' \in Seq(ContactsOf(Companies)) /\ DOMAIN book' = DOMAIN book
      /\ Takes(r) => book'[k] = f
      /\ \A j \in DOMAIN book : book'[j] # book[j] => j = k /\ Takes(r)
      /\ unclean' = IF Takes(r) THEN unclean ELSE unclean + 1
      /\ f.name = "gone" /\ f.email = NoOne
  <2>1. f \in ContactsOf(Companies) /\ f.name = "gone" /\ f.email = NoOne
    BY <1>3 DEF Deleted, Contact, ContactsOf, Companies, LastNames, NoOne
  <2>2. book' = (IF Takes(r) THEN [book EXCEPT ![k] = f] ELSE book)
        /\ unclean' = IF Takes(r) THEN unclean ELSE unclean + 1
    BY <1>3 DEF DeleteContact, Mishap
  <2>3. book \in Seq(ContactsOf(Companies)) /\ k \in Nat
    BY DEF NetInv, NetTypes
  <2>4. PICK g : g = [book EXCEPT ![k] = f]
    OBVIOUS
  <2>5. /\ g \in Seq(ContactsOf(Companies)) /\ DOMAIN g = DOMAIN book
        /\ \A j \in DOMAIN book : g[j] = IF j = k THEN f ELSE book[j]
    BY <1>2, <2>1, <2>3, <2>4, Replaced
  <2>6. QED
    BY <1>2, <2>1, <2>2, <2>3, <2>4, <2>5
<1>5. NetTypes'
  BY <1>1, <1>4 DEF NetInv, NetTypes
<1>6. Creating' /\ ~Updating' /\ ~Updating
  BY <1>1 DEF Creating, Updating
<1>7. Fresh'
  <2>1. Unknown(ToSet(persons))'
    <3>1. \A q \in ToSet(Tail(persons)) : q # NoOne
      <4>1. ToSet(Tail(persons)) \subseteq planned
        <5>1. \A S : \A t \in Seq(S) : \A i \in DOMAIN t : t[i] \in S
          OBVIOUS
        <5>2. Tail(persons) \in Seq(planned)
          BY <1>1, CreationStays, RestOfQueue DEF NetInv, Queued
        <5>3. QED
          BY <5>1, <5>2 DEF ToSet
      <4>2. QED
        BY <4>1, PlannedAreKnown DEF NetInv
    <3>2. \A q \in ToSet(Tail(persons)) : \A j \in DOMAIN book' \ cameBetween' : book'[j].email # q
      BY <1>1, <1>2, <1>4, <3>1 DEF Unknown
    <3>3. QED
      BY <1>1, <3>2 DEF Unknown
  <2>2. QED
    BY <1>1, <2>1 DEF Fresh
<1>8. FewLoose'
  <2>1. \A j \in DOMAIN book' : Loose(j)' => Loose(j) /\ ~(j = k /\ Takes(r))
    BY <1>4, <1>6 DEF Loose
  <2>2. \A j : BeingCreated(j) <=> j = k
    BY <1>1 DEF BeingCreated
  <2>3. CASE Takes(r)
    <3>1. LooseOnes' \subseteq LooseOnes
      BY <1>4, <2>1, <2>2, <2>3 DEF LooseOnes
    <3>2. unclean' = unclean /\ unclean \in Nat /\ unclean <= unclean
      BY <1>4, <2>3 DEF NetInv, NetTypes
    <3>3. QED
      BY <3>1, <3>2, NoMoreLoose DEF NetInv
  <2>4. CASE ~Takes(r)
    <3>1. LooseOnes' \subseteq LooseOnes \cup {k}
      BY <1>4, <2>1, <2>2 DEF LooseOnes
    <3>2. QED
      BY <1>4, <2>4, <3>1, OneMoreLoose DEF NetInv
  <2>5. QED
    BY <2>3, <2>4
<1>9. OnePerAddress'
  BY <1>1, <1>4 DEF NetInv, OnePerAddress
<1>10. HandsKept'
  BY <1>1, <1>2, <1>4 DEF NetInv, HandsKept, NetTypes
<1>11. npc' \notin {"email", "label", "rollback"}
  BY <1>1
<1>12. QED
  BY <1>1, <1>5, <1>6, <1>7, <1>8, <1>9, <1>10, <1>11, CreatedSo

-----------------------------------------------------------------------------
LEMMA IndexIsBuilt ==
    /\ \A q \in DOMAIN BuildContactEmailIndex :
          q # NoOne /\ HasContact(q) /\ BuildContactEmailIndex[q] = Entry(q)
    /\ \A q : HasContact(q) /\ q # NoOne => q \in DOMAIN BuildContactEmailIndex
<1>1. DOMAIN BuildContactEmailIndex = {book[k].email : k \in DOMAIN book} \ {NoOne}
  BY DEF BuildContactEmailIndex
<1>2. ASSUME NEW q \in DOMAIN BuildContactEmailIndex
      PROVE  HasContact(q) /\ BuildContactEmailIndex[q] = Entry(q)
  BY <1>1, <1>2 DEF BuildContactEmailIndex, HasContact, Entry
<1>3. QED
  BY <1>1, <1>2 DEF HasContact

LEMMA IndexForBackfillKeeps == ASSUME NetInv, NEW r, IndexForBackfill(r) PROVE NetInv'
<1>1. npc = "backfill" /\ ccmd.backfill /\ LookedOnly /\ UNCHANGED <<contactID, asRead, anyFailed>> /\ planned # {}
  BY DEF IndexForBackfill, LookedOnly, outside, manifestVars, handVars, NetInv, Queued
<1>2. BookKept /\ OnePerAddress' /\ HandsKept' /\ rewrote' = 0 /\ UNCHANGED <<planned, ccmd>> /\ NetTypes'
  BY <1>1, LookingKeeps DEF NetInv, NetTypes
<1>3. ~Updating' => FewLoose'
  BY <1>1, LookingLoosens
<1>4. CASE r # "ok"
  <2>1. RunOver(FALSE)
    BY <1>4 DEF IndexForBackfill
  <2>2. ~Updating'
    BY <2>1 DEF RunOver, Updating
  <2>3. QED
    BY <1>1, <1>2, <1>3, <2>1, <2>2, KeptMeans, ImportFails
<1>5. CASE r = "ok"
  <2>1. PICK left \in InOrder(planned) : GoTo(IF ccmd.write THEN "backfill tag" ELSE "complete", left)
    BY <1>5 DEF IndexForBackfill
  <2>2. npc' \in {"backfill tag", "complete"} /\ persons' = left /\ imported' = imported
    BY <2>1 DEF GoTo
  <2>3. left \in Seq(planned) /\ ToSet(left) = planned /\ \A i, j \in DOMAIN left : i < j => left[i] # left[j]
    BY PlannedAreKnown, OrderLists DEF NetInv
  <2>4. left # <<>>
    BY <1>1, <2>3, NothingInIt
  <2>5. ~Creating' /\ ~Updating' /\ ~Grouping' /\ Completing'
    BY <2>2 DEF Creating, Updating, Grouping, Completing
  <2>6. Queued'
    BY <1>1, <1>2, <2>2, <2>3, <2>4, <2>5 DEF Queued
  <2>7. Fresh' /\ ReadBefore'
    BY <2>2, <2>5 DEF Fresh, ReadBefore
  <2>8. /\ emailIndex'.of = BuildContactEmailIndex
        /\ emailIndex'.tagged \subseteq {k \in DOMAIN book : book[k].tag}
        /\ ccmd.write => emailIndex'.tagged = {k \in DOMAIN book : book[k].tag}
    <3>1. PICK tags \in {contactIDsByTag} \cup (IF ccmd.write THEN {} ELSE {{}}) :
              emailIndex' = [of |-> BuildContactEmailIndex, tagged |-> tags]
      BY DEF IndexForBackfill
    <3>2. tags = contactIDsByTag \/ (~ccmd.write /\ tags = {})
      OBVIOUS
    <3>3. QED
      BY <3>1, <3>2 DEF contactIDsByTag
  <2>9. IndexIsTrue'
    BY <1>1, <1>2, <2>8, IndexIsBuilt, KeptMeans DEF IndexIsTrue, LookedOnly
  <2>10. NothingSkipped'
    <3>1. \A q \in planned : HasContact(q) => q \in DOMAIN emailIndex'.of
      BY <2>8, IndexIsBuilt, PlannedAreKnown DEF NetInv
    <3>2. QED
      BY <1>1, <1>2, <2>2, <2>3, <2>5, <3>1, KeptMeans DEF NetInv, NothingSkipped, AllToDo
  <2>11. NothingToWrite'
    <3>1. imported' => AllDone'
      BY <1>2, <2>2, KeptMeans DEF NetInv, NothingToWrite
    <3>2. ASSUME imported', NEW q \in planned PROVE emailIndex'.of[q] \in emailIndex'.tagged
      <4>1. ccmd.write /\ HasContact(q) /\ Complete(q)
        BY <1>1, <2>2, <3>2 DEF NetInv, NothingToWrite, AllDone, AllToDo
      <4>2. q \in DOMAIN BuildContactEmailIndex /\ Entry(q) \in DOMAIN book
        BY <4>1, IndexIsBuilt, EntryIs, PlannedAreKnown DEF NetInv
      <4>3. QED
        BY <2>8, <4>1, <4>2, IndexIsBuilt DEF Complete
    <3>3. QED
      BY <1>2, <2>5, <3>1, <3>2 DEF NothingToWrite
  <2>12. QED
    BY <1>2, <1>3, <2>5, <2>6, <2>7, <2>9, <2>10, <2>11 DEF NetInv
<1>6. QED
  BY <1>4, <1>5

(* The person that comes first in the queue is done.                          *)
LEMMA PersonDone ==
    ASSUME NetInv, npc \in {"complete", "add tag", "add about"}, NetTypes', BookKept, UNCHANGED emailIndex,
           FewLoose', HandsKept', rewrote' = 0, NEW ok, NextPerson("complete", ok), anyFailed => anyFailed',
           ok => ~anyFailed', NEW q, q = Head(persons), AllToDo /\ ~anyFailed' => Complete(q)'
    PROVE  NetInv'
<1>1. persons \in Seq(planned) /\ persons # <<>> /\ planned # {} /\ Completing /\ ccmd.backfill
      /\ \A i, j \in DOMAIN persons : i < j => persons[i] # persons[j]
  BY DEF NetInv, Queued, Completing
<1>2. UNCHANGED <<planned, ccmd>> /\ OnePerAddress'
  BY KeptMeans DEF BookKept, NetInv
<1>3. ToSet(persons) = {q} \cup ToSet(Tail(persons))
  BY <1>1, RestOfQueue
<1>4. ASSUME AllToDo, ~anyFailed'
      PROVE  \A p \in planned : HasContact(p)' /\ (p \in ToSet(Tail(persons)) \/ Complete(p)')
  <2>1. \A p \in planned : HasContact(p) /\ (p \in ToSet(persons) \/ Complete(p))
    BY <1>1, <1>4 DEF NetInv, NothingSkipped
  <2>2. QED
    BY <1>3, <1>4, <2>1, KeptMeans
<1>5. CASE Len(persons) > 1
  <2>1. npc' = "complete" /\ persons' = Tail(persons) /\ imported' = imported
    BY <1>5 DEF NextPerson, GoTo
  <2>2. ~Creating' /\ ~Updating' /\ ~Grouping' /\ Completing'
    BY <2>1 DEF Creating, Updating, Grouping, Completing
  <2>3. Queued'
    <3>1. Len(persons) # 1
      BY <1>1, <1>5, RestOfQueue
    <3>2. QED
      BY <1>1, <1>2, <2>1, <2>2, <3>1, RestOfQueue DEF Queued
  <2>4. Fresh' /\ ReadBefore'
    BY <2>1, <2>2 DEF Fresh, ReadBefore
  <2>5. IndexIsTrue'
    BY <1>1, <2>2, KeptMeans DEF NetInv, IndexIsTrue, BookKept
  <2>6. NothingSkipped'
    <3>1. AllToDo /\ ~anyFailed => \A p \in planned : p \in DOMAIN emailIndex.of
      BY <1>1 DEF NetInv, NothingSkipped
    <3>2. QED
      BY <1>2, <1>4, <2>1, <2>2, <3>1 DEF NothingSkipped, AllToDo
  <2>7. NothingToWrite'
    BY <1>1, <1>2, <2>1, <2>2, KeptMeans DEF NetInv, NothingToWrite
  <2>8. QED
    BY <1>2, <2>2, <2>3, <2>4, <2>5, <2>6, <2>7 DEF NetInv
<1>6. CASE ~(Len(persons) > 1)
  <2>1. AfterBackfill(ok)
    BY <1>6 DEF NextPerson
  <2>2. Tail(persons) = <<>>
    BY <1>1, <1>6, RestOfQueue
  <2>3. ok /\ AllToDo => \A p \in planned : HasContact(p)' /\ (ccmd.backfill => Complete(p)')
    BY <1>4, <2>2, NothingInIt
  <2>4. AllDone => AllDone'
    BY KeptMeans
  <2>5. QED
    BY <1>1, <1>2, <2>1, <2>3, <2>4, BackfillIsOver
<1>7. QED
  BY <1>5, <1>6

LEMMA GetForBackfillKeeps == ASSUME NetInv, NEW r, GetForBackfill(r) PROVE NetInv'
<1>1. PICK q : q = Head(persons)
  OBVIOUS
<1>2. PICK k : k = emailIndex.of[q]
  OBVIOUS
<1>3. PICK changes : changes = (IF k \in emailIndex.tagged THEN {} ELSE {"tag"})
                                  \cup (IF book[k].about = "none" THEN {"about"} ELSE {})
  OBVIOUS
<1>4. npc = "complete" /\ Completing /\ LookedOnly /\ UNCHANGED emailIndex /\ ccmd.backfill
      /\ persons \in Seq(planned) /\ persons # <<>> /\ planned # {}
      /\ \A i, j \in DOMAIN persons : i < j => persons[i] # persons[j]
  BY DEF GetForBackfill, LookedOnly, outside, manifestVars, handVars, NetInv, Queued, Completing
<1>5. BookKept /\ OnePerAddress' /\ HandsKept' /\ rewrote' = 0 /\ UNCHANGED <<planned, ccmd, typed, crossed, cameBetween>>
      /\ (asRead' \in ContactsOf(Companies) /\ contactID' \in Nat => NetTypes')
  BY <1>4, LookingKeeps
<1>6. ~Updating' => FewLoose'
  BY <1>4, LookingLoosens
<1>7. q \in planned
  BY <1>1, <1>4, RestOfQueue
<1>8. ~anyFailed /\ AllToDo => q \in DOMAIN emailIndex.of
  BY <1>4, <1>7 DEF NetInv, NothingSkipped
<1>9. ~Updating'
      => \A ok : NextPerson("complete", ok) /\ NetTypes' /\ (anyFailed => anyFailed') /\ (ok => ~anyFailed')
                 /\ (AllToDo /\ ~anyFailed' => Complete(q)') => NetInv'
  BY <1>1, <1>4, <1>5, <1>6, PersonDone
<1>10. \A ok : NextPerson("complete", ok) => ~Updating'
  BY DEF NextPerson, AfterBackfill, GoTo, RunOver, Updating
<1>11. CASE q \notin DOMAIN emailIndex.of
  <2>1. NextPerson("complete", ~anyFailed) /\ UNCHANGED <<asRead, contactID, anyFailed>>
    BY <1>1, <1>11 DEF GetForBackfill
  <2>2. NetTypes'
    BY <1>5, <2>1 DEF NetInv, NetTypes
  <2>3. QED
    BY <1>8, <1>9, <1>10, <1>11, <2>1, <2>2
<1>12. CASE q \in DOMAIN emailIndex.of
  <2>1. contactID' = k /\ asRead' = book[k] /\ (anyFailed' <=> anyFailed \/ r # "ok")
    BY <1>1, <1>2, <1>12 DEF GetForBackfill, Fails
  <2>2. k \in DOMAIN book /\ book[k].email = q /\ q # NoOne
    BY <1>2, <1>4, <1>12, EntryIs DEF NetInv, IndexIsTrue
  <2>3. NetTypes'
    BY <1>5, <2>1, <2>2, BookIsTyped DEF NetInv
  <2>4. HasContact(q) /\ k = Entry(q)
    BY <1>2, <1>4, <1>12 DEF NetInv, IndexIsTrue
  <2>5. k \in emailIndex.tagged => book[k].tag
    BY <1>4 DEF NetInv, IndexIsTrue
  <2>6. CASE r # "ok" \/ changes = {} \/ ~ccmd.write
    <3>1. NextPerson("complete", ~anyFailed')
      BY <1>1, <1>2, <1>3, <1>12, <2>6 DEF GetForBackfill
    <3>2. ASSUME AllToDo, ~anyFailed' PROVE Complete(q)'
      <4>1. k \in emailIndex.tagged /\ book[k].about # "none"
        BY <1>3, <2>1, <2>6, <3>2 DEF AllToDo
      <4>2. Complete(q)
        BY <2>4, <2>5, <4>1 DEF Complete
      <4>3. QED
        BY <1>5, <4>2, KeptMeans
    <3>3. QED
      BY <1>9, <1>10, <2>1, <2>3, <3>1, <3>2
  <2>7. CASE r = "ok" /\ changes # {} /\ ccmd.write
    <3>1. /\ npc' = (IF "tag" \in changes THEN "add tag" ELSE "add about")
          /\ persons' = persons /\ imported' = imported /\ (anyFailed' <=> anyFailed)
      BY <1>1, <1>2, <1>3, <1>12, <2>1, <2>7 DEF GetForBackfill, GoTo
    <3>2. ~Creating' /\ Updating' /\ ~Grouping' /\ Completing' /\ ~Updating
      BY <1>4, <3>1 DEF Creating, Updating, Grouping, Completing
    <3>3. ("tag" \in changes <=> k \notin emailIndex.tagged) /\ (npc' = "add about" => book[k].about = "none")
      BY <1>3, <2>7, <3>1
    <3>4. Queued'
      BY <1>4, <1>5, <3>1, <3>2 DEF Queued
    <3>5. Fresh'
      BY <3>1 DEF Fresh
    <3>6. ReadBefore'
      <4>1. k \in DOMAIN typed \ crossed => book[k].name = "hand" /\ book[k].about = "hand"
        BY DEF NetInv, HandsKept
      <4>2. UNCHANGED <<book, typed, crossed>>
        BY <1>4 DEF LookedOnly
      <4>3. QED
        BY <1>1, <1>2, <1>4, <1>12, <2>1, <3>1, <3>3, <4>1, <4>2 DEF ReadBefore
    <3>7. FewLoose'
      <4>1. \A j \in DOMAIN book : Loose(j)' => Loose(j)
        BY <1>4, <2>1 DEF Loose, LookedOnly
      <4>2. \A j : ~BeingCreated(j) /\ ~BeingCreated(j)'
        BY <1>4, <3>1 DEF BeingCreated
      <4>3. LooseOnes' \subseteq LooseOnes
        BY <1>5, <4>1, <4>2 DEF LooseOnes, BookKept
      <4>4. unclean' = unclean /\ unclean \in Nat /\ unclean <= unclean
        BY <1>4 DEF NetInv, NetTypes, LookedOnly
      <4>5. QED
        BY <4>3, <4>4, NoMoreLoose DEF NetInv
    <3>8. IndexIsTrue'
      BY <1>4, <1>5, <3>2, KeptMeans DEF NetInv, IndexIsTrue, LookedOnly
    <3>9. NothingSkipped'
      <4>1. npc' = "add about" => book'[contactID'].tag
        BY <1>4, <2>1, <2>5, <3>1, <3>3 DEF LookedOnly
      <4>2. QED
        BY <1>4, <1>5, <3>1, <3>2, <4>1, KeptMeans DEF NetInv, NothingSkipped, AllToDo
    <3>10. NothingToWrite'
      <4>1. ASSUME imported PROVE FALSE
        <5>1. k \in emailIndex.tagged /\ Complete(q)
          BY <1>2, <1>4, <1>7, <4>1 DEF NetInv, NothingToWrite, AllDone
        <5>2. QED
          BY <1>3, <2>4, <2>7, <5>1 DEF Complete
      <4>2. QED
        BY <1>5, <3>1, <4>1 DEF NothingToWrite
    <3>11. QED
      BY <1>5, <2>3, <3>4, <3>5, <3>6, <3>7, <3>8, <3>9, <3>10 DEF NetInv
  <2>8. QED
    BY <2>6, <2>7
<1>13. QED
  BY <1>11, <1>12

-----------------------------------------------------------------------------
(* One contact is written back under the name that was read.                  *)
LEMMA Updated ==
    ASSUME NetTypes, NEW k \in DOMAIN book, NEW last \in LastNames, NEW about \in {"none", "summary"}, NEW company \in Companies,
           NEW b, b = UpdatePerson(k, last, about, company)
    PROVE  /\ b \in Seq(ContactsOf(Companies)) /\ DOMAIN b = DOMAIN book
           /\ \A j \in DOMAIN book : j # k => b[j] = book[j]
           /\ b[k].email = book[k].email /\ b[k].name = asRead.name /\ b[k].last = last /\ b[k].tag = book[k].tag
           /\ b[k].about = (IF about # "none" THEN about ELSE book[k].about)
           /\ b[k].company = (IF company # NoCompany THEN company ELSE book[k].company)
<1>1. PICK f : f = [email |-> book[k].email, name |-> asRead.name, last |-> last,
                    about |-> IF about # "none" THEN about ELSE book[k].about, tag |-> book[k].tag,
                    company |-> IF company # NoCompany THEN company ELSE book[k].company]
  OBVIOUS
<1>2. book[k] \in ContactsOf(Companies) /\ asRead \in ContactsOf(Companies) /\ book \in Seq(ContactsOf(Companies))
  BY BookIsTyped DEF NetTypes
<1>3. f \in ContactsOf(Companies)
  BY <1>1, <1>2 DEF ContactsOf
<1>4. b = [book EXCEPT ![k] = f]
  BY <1>1 DEF UpdatePerson
<1>5. /\ f.email = book[k].email /\ f.name = asRead.name /\ f.last = last /\ f.tag = book[k].tag
      /\ f.about = (IF about # "none" THEN about ELSE book[k].about)
      /\ f.company = (IF company # NoCompany THEN company ELSE book[k].company)
  BY <1>1
<1>6. /\ b \in Seq(ContactsOf(Companies)) /\ DOMAIN b = DOMAIN book
      /\ \A j \in DOMAIN book : b[j] = IF j = k THEN f ELSE book[j]
  <2>1. PICK g : g = [book EXCEPT ![k] = f]
    OBVIOUS
  <2>2. k \in Nat
    BY BookIsTyped
  <2>3. /\ g \in Seq(ContactsOf(Companies)) /\ DOMAIN g = DOMAIN book
        /\ \A j \in DOMAIN book : g[j] = IF j = k THEN f ELSE book[j]
    BY <1>2, <1>3, <2>1, <2>2, Replaced
  <2>4. QED
    BY <1>4, <2>1, <2>3
<1>7. b[k] = f
  BY <1>6
<1>8. QED
  BY <1>5, <1>6, <1>7

(* What is read and not yet written back.                                     *)
LEMMA UpdatingFacts ==
    ASSUME NetInv, Updating, NEW k, k = contactID, NEW q, q = Head(persons)
    PROVE  /\ ~imported /\ rewrote = 0 /\ (\A r : Writes(r) => rewrote' = 0) /\ ~Creating
           /\ persons \in Seq(planned) /\ persons # <<>> /\ q \in planned /\ planned # {}
           /\ k \in DOMAIN book /\ book[k].email = q /\ q # NoOne /\ HasContact(q) /\ k = Entry(q)
           /\ k = emailIndex.of[q] /\ q \in DOMAIN emailIndex.of /\ book \in Seq(ContactsOf(Companies)) /\ k \in Nat
<1>1. ~imported /\ rewrote = 0 /\ (\A r : Writes(r) => rewrote' = 0) /\ ~Creating
      /\ persons \in Seq(planned) /\ persons # <<>> /\ planned # {}
  BY DEF NetInv, NothingToWrite, Queued, Updating, Creating, Completing, Grouping, Writes
<1>2. q \in planned
  <2>1. \A S : \A s \in Seq(S) : s # <<>> => Head(s) \in S
    OBVIOUS
  <2>2. QED
    BY <1>1, <2>1
<1>3. k = emailIndex.of[q] /\ q \in DOMAIN emailIndex.of
  BY DEF NetInv, ReadBefore
<1>4. q # NoOne /\ HasContact(q) /\ k = Entry(q)
  BY <1>3 DEF NetInv, IndexIsTrue, Updating, Completing, Grouping
<1>5. k \in DOMAIN book /\ book[k].email = q
  BY <1>4, EntryIs
<1>6. QED
  BY <1>1, <1>2, <1>3, <1>4, <1>5 DEF NetInv, NetTypes

(* A contact that is written back does not become loose.                      *)
LEMMA WritingLoosens ==
    ASSUME NetInv, Updating, NEW k, k = contactID, DOMAIN book' = DOMAIN book, \A j \in DOMAIN book : j # k => book'[j] = book[j],
           book'[k].email = book[k].email, book[k].tag => book'[k].tag, k \in DOMAIN book,
           book'[k].name \in {book[k].name, asRead.name}, UNCHANGED <<asRead, contactID, unclean>>
    PROVE  FewLoose'
<1>1. \A j \in DOMAIN book : Loose(j)' => Loose(j)
  BY DEF Loose
<1>2. \A j : ~BeingCreated(j)
  BY DEF BeingCreated, Updating
<1>3. LooseOnes' \subseteq LooseOnes
  BY <1>1, <1>2 DEF LooseOnes
<1>4. unclean' = unclean /\ unclean \in Nat /\ unclean <= unclean
  BY DEF NetInv, NetTypes
<1>5. QED
  BY <1>3, <1>4, NoMoreLoose DEF NetInv

LEMMA BackfillTagKeeps == ASSUME NetInv, NEW r, BackfillTag(r) PROVE NetInv'
<1>1. PICK q, k : q = Head(persons) /\ k = contactID
  OBVIOUS
<1>2. npc = "add tag" /\ Updating /\ rewrote' = 0 /\ (anyFailed' <=> anyFailed \/ r # "ok")
      /\ UNCHANGED <<made, planned, ccmd, typed, crossed, cameBetween, companyBook, unclean, asRead, contactID, emailIndex>>
  BY <1>1, UpdatingFacts DEF BackfillTag, outside, manifestVars, handVars, contactVars, Updating, Fails
<1>3. /\ ~imported /\ ~Creating /\ persons \in Seq(planned) /\ persons # <<>> /\ q \in planned /\ planned # {}
      /\ k \in DOMAIN book /\ book[k].email = q /\ q # NoOne /\ HasContact(q) /\ k = Entry(q)
      /\ k = emailIndex.of[q] /\ q \in DOMAIN emailIndex.of /\ book \in Seq(ContactsOf(Companies)) /\ k \in Nat
  BY <1>1, <1>2, UpdatingFacts
<1>4. PICK f : f = [book[k] EXCEPT !.tag = TRUE]
  OBVIOUS
<1>5. f \in ContactsOf(Companies) /\ f.tag /\ f.email = book[k].email /\ f.name = book[k].name /\ f.last = book[k].last
      /\ f.about = book[k].about /\ f.company = book[k].company
  <2>1. book[k] \in ContactsOf(Companies)
    BY <1>3, BookIsTyped DEF NetInv
  <2>2. QED
    BY <1>4, <2>1 DEF ContactsOf
<1>6. book' = IF Takes(r) THEN [book EXCEPT ![k] = f] ELSE book
  BY <1>1, <1>4 DEF BackfillTag
<1>7. /\ book' \in Seq(ContactsOf(Companies)) /\ DOMAIN book' = DOMAIN book
      /\ \A j \in DOMAIN book : j # k => book'[j] = book[j]
      /\ book'[k].email = book[k].email /\ book'[k].name = book[k].name /\ book'[k].last = book[k].last
      /\ book'[k].about = book[k].about
      /\ book'[k].company = book[k].company /\ (book[k].tag => book'[k].tag) /\ (Takes(r) => book'[k].tag)
  BY <1>3, <1>5, <1>6, Replaced
<1>8. BookKept
  BY <1>2, <1>7 DEF BookKept
<1>9. NetTypes'
  BY <1>2, <1>7 DEF NetInv, NetTypes
<1>10. HandsKept'
  <2>1. \A j \in DOMAIN book : /\ book'[j].name = book[j].name /\ book'[j].last = book[j].last
                               /\ book'[j].about = book[j].about /\ book'[j].company = book[j].company
    <3>1. SUFFICES ASSUME NEW j \in DOMAIN book
                   PROVE  /\ book'[j].name = book[j].name /\ book'[j].last = book[j].last
                          /\ book'[j].about = book[j].about /\ book'[j].company = book[j].company
      OBVIOUS
    <3>2. CASE j = k
      BY <1>7, <3>2
    <3>3. CASE j # k
      BY <1>7, <3>3
    <3>4. QED
      BY <3>2, <3>3
  <2>2. typed' = typed /\ crossed' = crossed /\ DOMAIN typed \subseteq DOMAIN book /\ HandsKept
    BY <1>2 DEF NetInv, NetTypes
  <2>3. QED
    BY <2>1, <2>2 DEF HandsKept
<1>11. FewLoose'
  BY <1>1, <1>2, <1>3, <1>7, WritingLoosens
<1>12. r = "ok" => Takes(r)
  BY DEF Takes
<1>13. CASE asRead.about = "none"
  <2>1. npc' = "add about" /\ UNCHANGED <<persons, imported>>
    BY <1>13 DEF BackfillTag, GoTo
  <2>2. ~Creating' /\ Updating' /\ ~Grouping' /\ Completing' /\ Completing
    BY <1>2, <2>1 DEF Creating, Updating, Grouping, Completing
  <2>3. Queued'
    BY <1>2, <1>3, <2>1, <2>2 DEF NetInv, Queued
  <2>4. Fresh'
    BY <2>1 DEF Fresh
  <2>5. ReadBefore'
    BY <1>1, <1>2, <1>3, <1>7, <1>13, <2>1 DEF NetInv, ReadBefore
  <2>6. IndexIsTrue'
    BY <1>2, <1>8, <2>2, KeptMeans DEF NetInv, IndexIsTrue, BookKept
  <2>7. NothingSkipped'
    BY <1>1, <1>2, <1>7, <1>8, <1>12, <2>1, <2>2, KeptMeans DEF NetInv, NothingSkipped, AllToDo
  <2>8. NothingToWrite'
    BY <1>2, <1>3, <2>1 DEF NothingToWrite
  <2>9. QED
    BY <1>8, <1>9, <1>10, <1>11, <2>3, <2>4, <2>5, <2>6, <2>7, <2>8, KeptMeans DEF NetInv
<1>14. CASE asRead.about # "none"
  <2>1. NextPerson("complete", ~anyFailed')
    BY <1>14 DEF BackfillTag
  <2>2. ASSUME ~anyFailed' PROVE Complete(q)'
    <3>1. book'[k].tag /\ book'[k].about # "none"
      BY <1>1, <1>2, <1>7, <1>12, <1>14, <2>2 DEF NetInv, ReadBefore
    <3>2. QED
      BY <1>3, <1>8, <3>1, KeptMeans DEF Complete
  <2>3. QED
    BY <1>1, <1>2, <1>8, <1>9, <1>10, <1>11, <2>1, <2>2, PersonDone
<1>15. QED
  BY <1>13, <1>14

LEMMA BackfillAboutKeeps == ASSUME NetInv, NEW r, BackfillAbout(r) PROVE NetInv'
<1>1. PICK q, k, l : q = Head(persons) /\ k = contactID /\ l = asRead.last
  OBVIOUS
<1>2. npc = "add about" /\ Updating /\ rewrote' = 0 /\ (anyFailed' <=> anyFailed \/ r # "ok")
      /\ UNCHANGED <<made, planned, ccmd, typed, crossed, cameBetween, companyBook, unclean, asRead, contactID, emailIndex>>
  BY <1>1, UpdatingFacts DEF BackfillAbout, outside, manifestVars, handVars, contactVars, Updating, Fails
<1>3. /\ k \in DOMAIN book /\ book[k].email = q /\ q \in planned /\ book \in Seq(ContactsOf(Companies))
      /\ HasContact(q) /\ k = Entry(q)
  BY <1>1, <1>2, UpdatingFacts
<1>4. asRead.about = "none" /\ k \notin DOMAIN typed \ crossed
  BY <1>1, <1>2 DEF NetInv, ReadBefore
<1>5. book' = IF Takes(r) THEN UpdatePerson(k, l, "summary", NoCompany) ELSE book
  BY <1>1 DEF BackfillAbout
<1>6. /\ book' \in Seq(ContactsOf(Companies)) /\ DOMAIN book' = DOMAIN book
      /\ \A j \in DOMAIN book : j # k => book'[j] = book[j]
      /\ book'[k].email = book[k].email /\ book'[k].name \in {book[k].name, asRead.name}
      /\ (book[k].about # "none" => book'[k].about # "none") /\ (Takes(r) => book'[k].about # "none")
      /\ book'[k].company = book[k].company /\ (book'[k].tag <=> book[k].tag)
  <2>1. CASE Takes(r)
    <3>1. NoCompany \in Companies /\ "summary" \in {"none", "summary"} /\ "summary" # "none"
      BY DEF Companies
    <3>2. PICK b : b = UpdatePerson(k, l, "summary", NoCompany)
      OBVIOUS
    <3>3. NetTypes /\ book' = b
      BY <1>5, <2>1, <3>2 DEF NetInv
    <3>4. /\ b \in Seq(ContactsOf(Companies)) /\ DOMAIN b = DOMAIN book
          /\ \A j \in DOMAIN book : j # k => b[j] = book[j]
          /\ b[k].email = book[k].email /\ b[k].name = asRead.name /\ b[k].tag = book[k].tag
          /\ b[k].about = "summary" /\ b[k].company = book[k].company
      <4>1. NetTypes /\ k \in DOMAIN book /\ l \in LastNames /\ NoCompany \in Companies /\ "summary" \in {"none", "summary"}
        BY <1>1, <1>3, <3>1, <3>3 DEF NetTypes, ContactsOf
      <4>2. /\ b \in Seq(ContactsOf(Companies)) /\ DOMAIN b = DOMAIN book
            /\ \A j \in DOMAIN book : j # k => b[j] = book[j]
            /\ b[k].email = book[k].email /\ b[k].name = asRead.name /\ b[k].tag = book[k].tag
            /\ b[k].about = (IF "summary" # "none" THEN "summary" ELSE book[k].about)
            /\ b[k].company = (IF NoCompany # NoCompany THEN NoCompany ELSE book[k].company)
        BY <3>2, <4>1, Updated
      <4>3. QED
        BY <3>1, <4>2
    <3>5. QED
      BY <2>1, <3>3, <3>4
  <2>2. CASE ~Takes(r)
    BY <1>3, <1>5, <2>2
  <2>3. QED
    BY <2>1, <2>2
<1>7. BookKept
  BY <1>2, <1>6 DEF BookKept
<1>8. NetTypes'
  BY <1>2, <1>6 DEF NetInv, NetTypes
<1>9. HandsKept'
  <2>1. \A j \in DOMAIN typed \ crossed : j \in DOMAIN book /\ j # k /\ book'[j] = book[j]
    BY <1>4, <1>6 DEF NetInv, NetTypes
  <2>2. QED
    BY <1>2, <2>1 DEF NetInv, HandsKept
<1>10. FewLoose'
  BY <1>1, <1>2, <1>3, <1>6, WritingLoosens
<1>11. NextPerson("complete", ~anyFailed')
  BY DEF BackfillAbout
<1>12. ASSUME AllToDo, ~anyFailed' PROVE Complete(q)'
  <2>1. Takes(r) /\ ~anyFailed
    BY <1>2, <1>12 DEF Takes
  <2>2. book[k].tag
    BY <1>1, <1>2, <1>12, <2>1 DEF NetInv, NothingSkipped
  <2>3. QED
    BY <1>3, <1>6, <1>7, <2>1, <2>2, KeptMeans DEF Complete
<1>13. QED
  BY <1>1, <1>2, <1>7, <1>8, <1>9, <1>10, <1>11, <1>12, PersonDone

-----------------------------------------------------------------------------
LEMMA BoxesArePlanned ==
    ASSUME NetTypes
    PROVE  /\ IsFiniteSet(CompanyBoxes) /\ CompanyBoxes \subseteq planned
           /\ \A S \in SUBSET CompanyBoxes : IsFiniteSet(S) /\ Seq(S) \subseteq Seq(planned)
<1>1. IsFiniteSet(planned) /\ CompanyBoxes \subseteq planned
  BY PlannedAreKnown DEF CompanyBoxes
<1>2. \A S, T : S \subseteq T => Seq(S) \subseteq Seq(T)
  OBVIOUS
<1>3. QED
  BY <1>1, <1>2, FS_Subset

LEMMA IndexForCompaniesKeeps == ASSUME NetInv, NEW r, IndexForCompanies(r) PROVE NetInv'
<1>1. npc = "companies" /\ ccmd.companies /\ CompanyBoxes # {} /\ LookedOnly /\ UNCHANGED <<contactID, asRead, anyFailed>>
      /\ planned # {}
  BY DEF IndexForCompanies, LookedOnly, outside, manifestVars, handVars, NetInv, Queued
<1>2. BookKept /\ OnePerAddress' /\ HandsKept' /\ rewrote' = 0 /\ UNCHANGED <<planned, ccmd>> /\ NetTypes'
  BY <1>1, LookingKeeps DEF NetInv, NetTypes
<1>3. ~Updating' => FewLoose'
  BY <1>1, LookingLoosens
<1>4. CASE r # "ok"
  <2>1. RunOver(FALSE)
    BY <1>4 DEF IndexForCompanies
  <2>2. ~Updating'
    BY <2>1 DEF RunOver, Updating
  <2>3. QED
    BY <1>1, <1>2, <1>3, <2>1, <2>2, KeptMeans, ImportFails
<1>5. CASE r = "ok"
  <2>1. PICK left \in GroupCompanyLinks(CompanyBoxes) : GoTo("company", left)
    BY <1>5 DEF IndexForCompanies
  <2>2. npc' = "company" /\ persons' = left /\ imported' = imported
    BY <2>1 DEF GoTo
  <2>3. /\ left \in Seq(CompanyBoxes) /\ ToSet(left) = CompanyBoxes
        /\ \A i, j \in DOMAIN left : i < j => left[i] # left[j]
    BY BoxesArePlanned, OrderLists DEF NetInv
  <2>4. left # <<>> /\ left \in Seq(planned)
    BY <1>1, <2>3, NothingInIt, BoxesArePlanned DEF NetInv
  <2>5. ~Creating' /\ ~Updating' /\ Grouping' /\ ~Completing'
    BY <2>2 DEF Creating, Updating, Grouping, Completing
  <2>6. CompanyBoxes' = CompanyBoxes
    BY <1>2 DEF CompanyBoxes
  <2>7. Queued'
    BY <1>1, <1>2, <2>2, <2>3, <2>4, <2>5, <2>6 DEF Queued
  <2>8. Fresh' /\ ReadBefore'
    BY <2>2, <2>5 DEF Fresh, ReadBefore
  <2>9. emailIndex'.of = BuildContactEmailIndex /\ emailIndex'.tagged = {}
    BY DEF IndexForCompanies
  <2>10. IndexIsTrue' /\ NothingSkipped'
    <3>1. IndexIsTrue'
      BY <1>2, <2>9, IndexIsBuilt, KeptMeans DEF IndexIsTrue
    <3>2. \A q \in planned : HasContact(q) => q \in DOMAIN emailIndex'.of
      BY <2>9, IndexIsBuilt, PlannedAreKnown DEF NetInv
    <3>3. NothingSkipped'
      BY <1>1, <1>2, <2>2, <2>3, <2>5, <2>6, <3>2, KeptMeans DEF NetInv, NothingSkipped, AllToDo
    <3>4. QED
      BY <3>1, <3>3
  <2>11. NothingToWrite'
    BY <1>2, <2>2, <2>5, KeptMeans DEF NetInv, NothingToWrite
  <2>12. QED
    BY <1>2, <1>3, <2>5, <2>7, <2>8, <2>10, <2>11 DEF NetInv
<1>6. QED
  BY <1>4, <1>5

(* What the queue of a group holds.                                           *)
LEMMA GroupFacts ==
    ASSUME NetInv, Grouping, NEW q, q = Head(persons)
    PROVE  /\ persons \in Seq(planned) /\ persons # <<>> /\ planned # {} /\ ccmd.companies
           /\ \A i, j \in DOMAIN persons : i < j => persons[i] # persons[j]
           /\ q \in CompanyBoxes /\ q \in planned /\ ToSet(persons) \subseteq CompanyBoxes
           /\ CompanyOf[q] # NoCompany /\ CompanyOf[q] \in Companies /\ ~Creating /\ ~Completing
<1>1. /\ persons \in Seq(planned) /\ persons # <<>> /\ planned # {} /\ ccmd.companies
      /\ \A i, j \in DOMAIN persons : i < j => persons[i] # persons[j]
      /\ ToSet(persons) \subseteq CompanyBoxes /\ ~Creating /\ ~Completing
  BY DEF NetInv, Queued, Grouping, Creating, Completing
<1>2. q \in ToSet(persons) /\ q \in planned
  BY <1>1, RestOfQueue
<1>3. q \in CompanyBoxes /\ CompanyOf[q] # NoCompany
  BY <1>1, <1>2 DEF CompanyBoxes
<1>4. CompanyOf[q] \in Companies
  BY <1>2, PlannedAreKnown DEF NetInv, Companies
<1>5. QED
  BY <1>1, <1>2, <1>3, <1>4

(* A step within the groups leaves the boxes that it is not still to do.      *)
LEMMA GroupedSo ==
    ASSUME NetInv, Grouping, npc' \in {"company", "member", "link"}, NetTypes', BookKept, UNCHANGED <<emailIndex, imported>>,
           NEW left, persons' = left, left \in Seq(planned), left # <<>>, ToSet(left) \subseteq CompanyBoxes,
           \A i, j \in DOMAIN left : i < j => left[i] # left[j],
           FewLoose', HandsKept', ReadBefore', rewrote' = 0, npc' = "link" => ~imported, anyFailed => anyFailed',
           ~anyFailed' /\ AllToDo => \A q \in CompanyBoxes : q \in ToSet(left) \/ Linked(q)',
           ~anyFailed' /\ AllToDo /\ npc' # "company" => CompanyOf[Head(left)] \in companyBook'
    PROVE  NetInv'
<1>1. ~Creating' /\ Grouping' /\ ~Completing' /\ (Updating' <=> npc' = "link")
  BY DEF Creating, Updating, Grouping, Completing
<1>2. UNCHANGED <<planned, ccmd>> /\ OnePerAddress' /\ CompanyBoxes' = CompanyBoxes
  BY KeptMeans DEF BookKept, NetInv, CompanyBoxes
<1>3. planned # {} /\ ccmd.companies
  BY GroupFacts
<1>4. Queued'
  BY <1>1, <1>2, <1>3 DEF Queued
<1>5. Fresh'
  BY DEF Fresh
<1>6. IndexIsTrue'
  BY <1>1, KeptMeans DEF NetInv, IndexIsTrue, BookKept
<1>7. NothingSkipped'
  <2>1. ~anyFailed /\ AllToDo =>
           \A q \in planned : HasContact(q) /\ q \in DOMAIN emailIndex.of /\ (ccmd.backfill => Complete(q))
    BY DEF NetInv, NothingSkipped
  <2>2. ~anyFailed /\ AllToDo => 
           \A q \in planned : HasContact(q)' /\ q \in DOMAIN emailIndex'.of /\ (ccmd.backfill => Complete(q)')
    BY <2>1, KeptMeans
  <2>3. QED
    BY <1>1, <1>2, <2>2 DEF NothingSkipped, AllToDo
<1>8. NothingToWrite'
  BY <1>1, KeptMeans DEF NetInv, NothingToWrite
<1>9. QED
  BY <1>2, <1>4, <1>5, <1>6, <1>7, <1>8 DEF NetInv

LEMMA LinkDone ==
    ASSUME NetInv, npc \in {"member", "link"}, NetTypes', BookKept, UNCHANGED emailIndex,
           FewLoose', HandsKept', rewrote' = 0, NEW ok, NextLink(ok), anyFailed => anyFailed',
           ok => ~anyFailed', NEW q, q = Head(persons), AllToDo /\ ~anyFailed' => Linked(q)'
    PROVE  NetInv'
<1>1. /\ persons \in Seq(planned) /\ persons # <<>> /\ planned # {} /\ Grouping /\ ccmd.companies
      /\ \A i, j \in DOMAIN persons : i < j => persons[i] # persons[j]
      /\ ToSet(persons) \subseteq CompanyBoxes
  BY GroupFacts DEF Grouping
<1>2. UNCHANGED <<planned, ccmd>> /\ OnePerAddress'
  BY KeptMeans DEF BookKept, NetInv
<1>3. ToSet(persons) = {q} \cup ToSet(Tail(persons)) /\ Tail(persons) \in Seq(planned)
      /\ \A i, j \in DOMAIN Tail(persons) : i < j => Tail(persons)[i] # Tail(persons)[j]
  BY <1>1, RestOfQueue
<1>4. ASSUME AllToDo, ~anyFailed'
      PROVE  /\ \A p \in CompanyBoxes : p \in ToSet(Tail(persons)) \/ Linked(p)'
             /\ \A p \in planned : HasContact(p)' /\ (ccmd.backfill => Complete(p)')
             /\ CompanyOf[q] \in companyBook'
  <2>1. /\ \A p \in CompanyBoxes : p \in ToSet(persons) \/ Linked(p)
        /\ \A p \in planned : HasContact(p) /\ (ccmd.backfill => Complete(p))
        /\ CompanyOf[q] \in companyBook
    BY <1>1, <1>4 DEF NetInv, NothingSkipped
  <2>2. companyBook \subseteq companyBook'
    BY DEF BookKept
  <2>3. QED
    BY <1>3, <1>4, <2>1, <2>2, KeptMeans
<1>5. CASE Len(persons) # 1
  <2>1. /\ npc' = (IF CompanyOf[persons[2]] = CompanyOf[q] THEN "member" ELSE "company")
        /\ persons' = Tail(persons) /\ imported' = imported
    BY <1>5 DEF NextLink, GoTo
  <2>2. Tail(persons) # <<>> /\ Head(Tail(persons)) = persons[2]
    BY <1>1, <1>5, RestOfQueue
  <2>3. ReadBefore'
    BY <2>1 DEF ReadBefore, Updating
  <2>4. ~anyFailed' /\ AllToDo /\ npc' # "company" => CompanyOf[Head(Tail(persons))] \in companyBook'
    BY <1>4, <2>1, <2>2
  <2>5. npc' \in {"company", "member", "link"} /\ npc' # "link" /\ ToSet(Tail(persons)) \subseteq CompanyBoxes
    BY <1>1, <1>3, <2>1
  <2>6. QED
    BY <1>1, <1>3, <1>4, <2>1, <2>2, <2>3, <2>4, <2>5, GroupedSo
<1>6. CASE Len(persons) = 1
  <2>1. RunOver(ok)
    BY <1>6 DEF NextLink
  <2>2. npc' = "idle" /\ persons' = <<>> /\ (imported' => imported \/ (ok /\ AllToDo))
    BY <2>1 DEF RunOver, AllToDo
  <2>3. Tail(persons) = <<>>
    BY <1>1, <1>6, RestOfQueue
  <2>4. ok /\ AllToDo => AllDone'
    <3>1. UNCHANGED <<CompanyBoxes, AllToDo>>
      BY <1>2 DEF CompanyBoxes, AllToDo
    <3>2. QED
      BY <1>2, <1>4, <2>3, <3>1, NothingInIt DEF AllDone
  <2>5. imported' => AllDone'
    BY <2>2, <2>4, KeptMeans DEF NetInv, NothingToWrite
  <2>6. QED
    BY <1>2, <2>2, <2>5, StepIsOver
<1>7. QED
  BY <1>5, <1>6

LEMMA FindCompanyKeeps == ASSUME NetInv, NEW r, FindCompany(r) PROVE NetInv'
<1>1. PICK q : q = Head(persons)
  OBVIOUS
<1>2. PICK others : others = {p \in ToSet(persons) : CompanyOf[p] # CompanyOf[q]}
  OBVIOUS
<1>3. npc = "company" /\ Grouping /\ (anyFailed' <=> anyFailed \/ r # "ok") /\ companyBook \subseteq companyBook'
      /\ UNCHANGED <<made, planned, ccmd, typed, crossed, cameBetween, asRead, contactID, emailIndex, book, unclean>>
  BY DEF FindCompany, outside, manifestVars, handVars, contactVars, Grouping, Fails
<1>4. /\ persons \in Seq(planned) /\ persons # <<>> /\ planned # {} /\ ccmd.companies
      /\ \A i, j \in DOMAIN persons : i < j => persons[i] # persons[j]
      /\ q \in CompanyBoxes /\ q \in planned /\ ToSet(persons) \subseteq CompanyBoxes
  BY <1>1, <1>3, GroupFacts
<1>5. BookKept
  BY <1>3 DEF BookKept
<1>6. NetTypes' /\ HandsKept' /\ OnePerAddress' /\ ~Updating
  BY <1>3 DEF NetInv, NetTypes, HandsKept, OnePerAddress, Updating
<1>7. rewrote' = 0
  <2>1. rewrote = 0 /\ (imported => ccmd.write /\ CompanyOf[q] \in companyBook)
    BY <1>4 DEF NetInv, NothingToWrite, AllDone, AllToDo, Linked
  <2>2. CASE CompanyOf[q] \in companyBook \/ ~ccmd.write
    BY <1>1, <2>1, <2>2 DEF FindCompany
  <2>3. CASE ~(CompanyOf[q] \in companyBook \/ ~ccmd.write)
    <3>1. ~imported /\ Writes(r)
      BY <1>1, <2>1, <2>3 DEF FindCompany
    <3>2. QED
      BY <2>1, <3>1 DEF Writes
  <2>4. QED
    BY <2>2, <2>3
<1>8. npc' \in {"idle", "company", "member"}
  BY <1>1, <1>2 DEF FindCompany, GoTo, RunOver
<1>9. FewLoose'
  <2>1. LooseOnes' = LooseOnes
    BY <1>3, <1>6, <1>8 DEF LooseOnes, Loose, BeingCreated, Updating
  <2>2. QED
    BY <1>3, <2>1 DEF FewLoose, NetInv
<1>10. ReadBefore'
  BY <1>8 DEF ReadBefore, Updating
<1>11. CASE r = "ok"
  <2>1. npc' = "member" /\ persons' = persons /\ imported' = imported
    BY <1>11 DEF FindCompany, GoTo
  <2>2. Takes(r) /\ (anyFailed' <=> anyFailed)
    BY <1>3, <1>11 DEF Takes
  <2>3. ASSUME AllToDo PROVE CompanyOf[q] \in companyBook'
    <3>1. ccmd.write
      BY <2>3 DEF AllToDo
    <3>2. QED
      BY <1>1, <1>3, <2>2, <3>1 DEF FindCompany
  <2>4. ASSUME ~anyFailed', AllToDo, NEW p \in CompanyBoxes PROVE p \in ToSet(persons) \/ Linked(p)'
    <3>1. p \in ToSet(persons) \/ Linked(p)
      BY <1>3, <2>2, <2>4 DEF NetInv, NothingSkipped
    <3>2. QED
      BY <1>5, <3>1, KeptMeans
  <2>5. QED
    BY <1>1, <1>3, <1>4, <1>5, <1>6, <1>7, <1>9, <1>10, <2>1, <2>2, <2>3, <2>4, GroupedSo
<1>12. CASE r # "ok" /\ others = {}
  <2>1. RunOver(FALSE)
    BY <1>1, <1>2, <1>12 DEF FindCompany
  <2>2. AllDone => AllDone'
    BY <1>5, KeptMeans
  <2>3. QED
    BY <1>3, <1>4, <1>6, <1>7, <1>9, <2>1, <2>2, ImportFails
<1>13. CASE r # "ok" /\ others # {}
  <2>1. PICK left \in GroupCompanyLinks(others) : GoTo("company", left)
    BY <1>1, <1>2, <1>13 DEF FindCompany
  <2>2. npc' = "company" /\ persons' = left /\ imported' = imported
    BY <2>1 DEF GoTo
  <2>3. others \in SUBSET CompanyBoxes
    BY <1>2, <1>4
  <2>4. IsFiniteSet(others) /\ Seq(others) \subseteq Seq(planned)
    BY <2>3, BoxesArePlanned DEF NetInv
  <2>5. left \in Seq(others) /\ ToSet(left) = others /\ \A i, j \in DOMAIN left : i < j => left[i] # left[j]
    BY <2>1, <2>4, OrderLists
  <2>6. left # <<>>
    BY <1>13, <2>5, NothingInIt
  <2>7. left \in Seq(planned) /\ ToSet(left) \subseteq CompanyBoxes /\ anyFailed'
    BY <1>3, <1>13, <2>3, <2>4, <2>5
  <2>8. QED
    BY <1>3, <1>5, <1>6, <1>7, <1>9, <1>10, <2>2, <2>5, <2>6, <2>7, GroupedSo
<1>14. QED
  BY <1>11, <1>12, <1>13

LEMMA GetForCompanyKeeps == ASSUME NetInv, NEW r, GetForCompany(r) PROVE NetInv'
<1>1. PICK q : q = Head(persons)
  OBVIOUS
<1>2. PICK k : k = emailIndex.of[q]
  OBVIOUS
<1>3. npc = "member" /\ Grouping /\ LookedOnly /\ UNCHANGED emailIndex
  BY DEF GetForCompany, LookedOnly, outside, manifestVars, handVars, Grouping
<1>4. /\ persons \in Seq(planned) /\ persons # <<>> /\ planned # {} /\ ccmd.companies
      /\ \A i, j \in DOMAIN persons : i < j => persons[i] # persons[j]
      /\ q \in CompanyBoxes /\ q \in planned /\ ToSet(persons) \subseteq CompanyBoxes
  BY <1>1, <1>3, GroupFacts
<1>5. BookKept /\ OnePerAddress' /\ HandsKept' /\ rewrote' = 0 /\ UNCHANGED <<planned, ccmd, typed, crossed, cameBetween>>
      /\ (asRead' \in ContactsOf(Companies) /\ contactID' \in Nat => NetTypes')
  BY <1>3, LookingKeeps
<1>6. ~Updating' => FewLoose'
  BY <1>3, LookingLoosens
<1>7. ASSUME ~anyFailed, AllToDo PROVE q \in DOMAIN emailIndex.of /\ CompanyOf[q] \in companyBook
  BY <1>1, <1>3, <1>4, <1>7 DEF NetInv, NothingSkipped
<1>8. ~Updating'
      => \A ok : NextLink(ok) /\ NetTypes' /\ (anyFailed => anyFailed') /\ (ok => ~anyFailed')
                 /\ (AllToDo /\ ~anyFailed' => Linked(q)') => NetInv'
  BY <1>1, <1>3, <1>5, <1>6, LinkDone
<1>9. \A ok : NextLink(ok) => ~Updating'
  BY DEF NextLink, GoTo, RunOver, Updating
<1>10. CASE q \notin DOMAIN emailIndex.of
  <2>1. NextLink(~anyFailed) /\ UNCHANGED <<asRead, contactID, anyFailed>>
    BY <1>1, <1>10 DEF GetForCompany
  <2>2. NetTypes'
    BY <1>5, <2>1 DEF NetInv, NetTypes
  <2>3. QED
    BY <1>7, <1>8, <1>9, <1>10, <2>1, <2>2
<1>11. CASE q \in DOMAIN emailIndex.of
  <2>1. contactID' = k /\ asRead' = book[k] /\ (anyFailed' <=> anyFailed \/ r # "ok")
    BY <1>1, <1>2, <1>11 DEF GetForCompany, Fails
  <2>2. k \in DOMAIN book /\ book[k].email = q /\ q # NoOne
    BY <1>2, <1>3, <1>11, EntryIs DEF NetInv, IndexIsTrue
  <2>3. NetTypes'
    BY <1>5, <2>1, <2>2, BookIsTyped DEF NetInv
  <2>4. HasContact(q) /\ k = Entry(q)
    BY <1>2, <1>3, <1>11 DEF NetInv, IndexIsTrue
  <2>5. CASE r # "ok" \/ ~ccmd.write \/ book[k].company = CompanyOf[q]
    <3>1. NextLink(~anyFailed')
      BY <1>1, <1>2, <1>11, <2>5 DEF GetForCompany
    <3>2. ASSUME AllToDo, ~anyFailed' PROVE Linked(q)'
      <4>1. book[k].company = CompanyOf[q] /\ CompanyOf[q] \in companyBook
        BY <1>7, <2>1, <2>5, <3>2 DEF AllToDo
      <4>2. Linked(q)
        BY <2>4, <4>1 DEF Linked
      <4>3. QED
        BY <1>5, <4>2, KeptMeans
    <3>3. QED
      BY <1>8, <1>9, <2>1, <2>3, <3>1, <3>2
  <2>6. CASE ~(r # "ok" \/ ~ccmd.write \/ book[k].company = CompanyOf[q])
    <3>1. npc' = "link" /\ persons' = persons /\ imported' = imported /\ (anyFailed' <=> anyFailed)
      BY <1>1, <1>2, <1>11, <2>1, <2>6 DEF GetForCompany, GoTo
    <3>2. ReadBefore'
      <4>1. k \in DOMAIN typed \ crossed => book[k].name = "hand" /\ book[k].about = "hand"
        BY DEF NetInv, HandsKept
      <4>2. UNCHANGED <<book, typed, crossed>>
        BY <1>3 DEF LookedOnly
      <4>3. QED
        BY <1>1, <1>2, <1>3, <1>11, <2>1, <3>1, <4>1, <4>2 DEF ReadBefore
    <3>3. FewLoose'
      <4>1. \A j \in DOMAIN book : Loose(j)' => Loose(j)
        BY <1>3, <2>1 DEF Loose, LookedOnly
      <4>2. \A j : ~BeingCreated(j) /\ ~BeingCreated(j)'
        BY <1>3, <3>1 DEF BeingCreated
      <4>3. LooseOnes' \subseteq LooseOnes
        BY <1>5, <4>1, <4>2 DEF LooseOnes, BookKept
      <4>4. unclean' = unclean /\ unclean \in Nat /\ unclean <= unclean
        BY <1>3 DEF NetInv, NetTypes, LookedOnly
      <4>5. QED
        BY <4>3, <4>4, NoMoreLoose DEF NetInv
    <3>4. ~imported
      <4>1. imported => Linked(q)
        BY <1>4 DEF NetInv, NothingToWrite, AllDone
      <4>2. QED
        BY <2>4, <2>6, <4>1 DEF Linked
    <3>5. ASSUME ~anyFailed', AllToDo, NEW p \in CompanyBoxes PROVE p \in ToSet(persons) \/ Linked(p)'
      <4>1. p \in ToSet(persons) \/ Linked(p)
        BY <1>3, <3>1, <3>5 DEF NetInv, NothingSkipped
      <4>2. QED
        BY <1>5, <4>1, KeptMeans
    <3>6. ~anyFailed' /\ AllToDo => CompanyOf[q] \in companyBook'
      BY <1>3, <1>7, <3>1 DEF LookedOnly
    <3>7. QED
      BY <1>1, <1>3, <1>4, <1>5, <2>3, <3>1, <3>2, <3>3, <3>4, <3>5, <3>6, GroupedSo
  <2>7. QED
    BY <2>5, <2>6
<1>12. QED
  BY <1>10, <1>11

LEMMA LinkCompanyKeeps == ASSUME NetInv, NEW r, LinkCompany(r) PROVE NetInv'
<1>1. PICK q, k : q = Head(persons) /\ k = contactID
  OBVIOUS
<1>2. npc = "link" /\ Updating /\ Grouping /\ rewrote' = 0 /\ (anyFailed' <=> anyFailed \/ r # "ok")
      /\ UNCHANGED <<made, planned, ccmd, typed, crossed, cameBetween, companyBook, unclean, asRead, contactID, emailIndex>>
  BY <1>1, UpdatingFacts DEF LinkCompany, outside, manifestVars, handVars, contactVars, Updating, Grouping, Fails
<1>3. /\ k \in DOMAIN book /\ book[k].email = q /\ q \in planned /\ book \in Seq(ContactsOf(Companies))
      /\ HasContact(q) /\ k = Entry(q)
  BY <1>1, <1>2, UpdatingFacts
<1>4. CompanyOf[q] # NoCompany /\ CompanyOf[q] \in Companies
  BY <1>1, <1>2, GroupFacts
<1>5. PICK l \in Printed(asRead.last) : book' = IF Takes(r) THEN UpdatePerson(k, l, "none", CompanyOf[q]) ELSE book
  BY <1>1 DEF LinkCompany
<1>6. /\ book' \in Seq(ContactsOf(Companies)) /\ DOMAIN book' = DOMAIN book
      /\ \A j \in DOMAIN book : j # k => book'[j] = book[j]
      /\ book'[k].email = book[k].email /\ book'[k].name \in {book[k].name, asRead.name}
      /\ book'[k].about = book[k].about /\ (book'[k].tag <=> book[k].tag)
      /\ book'[k].company = (IF Takes(r) THEN CompanyOf[q] ELSE book[k].company)
      /\ book'[k].last = (IF Takes(r) THEN l ELSE book[k].last)
  <2>1. CASE Takes(r)
    <3>1. PICK b, c : b = UpdatePerson(k, l, "none", CompanyOf[q]) /\ c = CompanyOf[q]
      OBVIOUS
    <3>2. NetTypes /\ book' = b /\ b = UpdatePerson(k, l, "none", c) /\ c \in Companies
          /\ "none" \in {"none", "summary"} /\ l \in LastNames
      BY <1>4, <1>5, <2>1, <3>1 DEF NetInv, NetTypes, ContactsOf, Printed, LastNames
    <3>3. /\ b \in Seq(ContactsOf(Companies)) /\ DOMAIN b = DOMAIN book
          /\ \A j \in DOMAIN book : j # k => b[j] = book[j]
          /\ b[k].email = book[k].email /\ b[k].name = asRead.name /\ b[k].last = l /\ b[k].tag = book[k].tag
          /\ b[k].about = (IF "none" # "none" THEN "none" ELSE book[k].about)
          /\ b[k].company = (IF c # NoCompany THEN c ELSE book[k].company)
      BY <1>3, <3>2, Updated
    <3>4. QED
      BY <1>4, <2>1, <3>1, <3>2, <3>3
  <2>2. CASE ~Takes(r)
    BY <1>3, <1>5, <2>2
  <2>3. QED
    BY <2>1, <2>2
<1>7. BookKept
  BY <1>2, <1>3, <1>6 DEF BookKept
<1>8. NetTypes'
  BY <1>2, <1>6 DEF NetInv, NetTypes
<1>9. HandsKept'
  <2>1. ASSUME NEW j \in DOMAIN typed \ crossed, j = k
        PROVE  /\ asRead.name = "hand" /\ book[k].name = "hand" /\ book[k].about = "hand" /\ l \in Printed(book[k].last)
               /\ \/ book[k].last = typed[k]
                  \/ typed[k] = "none" /\ book[k].last = "<nil>" /\ book[k].company # NoCompany
    BY <1>1, <1>2, <1>5, <2>1 DEF NetInv, ReadBefore, HandsKept
  <2>2. ASSUME NEW j \in DOMAIN typed \ crossed, j = k
        PROVE  \/ book'[k].last = typed[k]
               \/ typed[k] = "none" /\ book'[k].last = "<nil>" /\ book'[k].company # NoCompany
    BY <1>4, <1>6, <2>1, <2>2 DEF Printed
  <2>3. QED
    BY <1>2, <1>6, <2>1, <2>2 DEF NetInv, NetTypes, HandsKept
<1>10. FewLoose'
  BY <1>1, <1>2, <1>3, <1>6, WritingLoosens
<1>11. NextLink(~anyFailed')
  BY DEF LinkCompany
<1>12. ASSUME AllToDo, ~anyFailed' PROVE Linked(q)'
  <2>1. Takes(r) /\ ~anyFailed
    BY <1>2, <1>12 DEF Takes
  <2>2. CompanyOf[q] \in companyBook
    BY <1>1, <1>2, <1>12, <2>1 DEF NetInv, NothingSkipped
  <2>3. QED
    BY <1>2, <1>3, <1>6, <1>7, <2>1, <2>2, KeptMeans DEF Linked
<1>13. QED
  BY <1>1, <1>2, <1>7, <1>8, <1>9, <1>10, <1>11, <1>12, LinkDone

-----------------------------------------------------------------------------
LEMMA HandEditKeeps == ASSUME NetInv, HandEdit PROVE NetInv'
<1>1. PICK k \in DOMAIN book, last \in HandNames :
          /\ book' = [book EXCEPT ![k] = [book[k] EXCEPT !.name = "hand", !.last = last, !.about = "hand"]]
          /\ typed' = [j \in DOMAIN typed \cup {k} |-> IF j = k THEN last ELSE typed[j]]
          /\ crossed' = IF BeingCreated(k) \/ (npc \in {"add tag", "add about", "link"} /\ k = contactID)
                        THEN crossed \cup {k} ELSE crossed
  BY DEF HandEdit
<1>2. PICK f : f = [book[k] EXCEPT !.name = "hand", !.last = last, !.about = "hand"]
  OBVIOUS
<1>3. UNCHANGED <<made, planned, ccmd, companyBook, npc, persons, anyFailed, emailIndex, asRead, contactID, unclean,
                  rewrote, imported, cameBetween>>
  BY DEF HandEdit, manifestVars, runVars, contactVars
<1>4. book[k] \in ContactsOf(Companies) /\ book \in Seq(ContactsOf(Companies)) /\ k \in Nat
  BY BookIsTyped DEF NetInv, NetTypes
<1>5. f \in ContactsOf(Companies) /\ f.name = "hand" /\ f.last = last /\ f.about = "hand" /\ f.email = book[k].email
      /\ (f.tag <=> book[k].tag) /\ f.company = book[k].company
  BY <1>2, <1>4, NetAssumption DEF ContactsOf, LastNames
<1>6. /\ book' \in Seq(ContactsOf(Companies)) /\ DOMAIN book' = DOMAIN book
      /\ \A j \in DOMAIN book : j # k => book'[j] = book[j]
      /\ book'[k].email = book[k].email /\ book'[k].name = "hand" /\ book'[k].last = last /\ book'[k].about = "hand"
      /\ (book'[k].tag <=> book[k].tag) /\ book'[k].company = book[k].company
  <2>1. /\ book' \in Seq(ContactsOf(Companies)) /\ DOMAIN book' = DOMAIN book
        /\ \A j \in DOMAIN book : book'[j] = IF j = k THEN f ELSE book[j]
    <3>1. PICK g : g = [book EXCEPT ![k] = f]
      OBVIOUS
    <3>2. book' = g
      BY <1>1, <1>2, <3>1
    <3>3. /\ g \in Seq(ContactsOf(Companies)) /\ DOMAIN g = DOMAIN book
          /\ \A j \in DOMAIN book : g[j] = IF j = k THEN f ELSE book[j]
      BY <1>4, <1>5, <3>1, Replaced
    <3>4. QED
      BY <3>2, <3>3
  <2>2. book'[k] = f
    BY <2>1
  <2>3. QED
    BY <1>5, <2>1, <2>2
<1>7. BookKept
  BY <1>3, <1>6 DEF BookKept
<1>8. (Creating' <=> Creating) /\ (Completing' <=> Completing) /\ (Grouping' <=> Grouping) /\ (Updating' <=> Updating)
  BY <1>3 DEF Creating, Completing, Grouping, Updating
<1>9. NetTypes'
  BY <1>1, <1>3, <1>6 DEF NetInv, NetTypes
<1>10. Queued'
  <2>1. CompanyBoxes' = CompanyBoxes
    BY <1>3 DEF CompanyBoxes
  <2>2. QED
    BY <1>3, <1>8, <2>1 DEF NetInv, Queued
<1>11. Fresh'
  <2>1. \A Q : Unknown(Q) => Unknown(Q)'
    BY <1>7, KeptMeans
  <2>2. npc \in {"email", "label", "rollback"} =>
            /\ contactID \in DOMAIN book /\ book'[contactID].email = book[contactID].email
            /\ contactID \in DOMAIN typed' => contactID \in crossed'
    BY <1>1, <1>6 DEF NetInv, Fresh, BeingCreated
  <2>3. QED
    BY <1>3, <1>6, <2>1, <2>2 DEF NetInv, Fresh
<1>12. ReadBefore'
  <2>1. Updating /\ k = contactID => k \in crossed'
    BY <1>1 DEF Updating
  <2>2. Updating /\ k # contactID =>
           /\ contactID \in DOMAIN typed' \ crossed' => contactID \in DOMAIN typed \ crossed
           /\ book'[contactID].last = book[contactID].last
    BY <1>1, <1>6, UpdatingFacts
  <2>3. Updating /\ asRead.about # "none" => book'[contactID].about # "none"
    <3>1. Updating => contactID \in DOMAIN book
      BY UpdatingFacts
    <3>2. QED
      BY <1>6, <3>1 DEF NetInv, ReadBefore
  <2>4. QED
    BY <1>3, <1>8, <2>1, <2>2, <2>3 DEF NetInv, ReadBefore
<1>13. FewLoose'
  <2>1. \A j \in DOMAIN book : Loose(j)' => Loose(j)
    BY <1>3, <1>6, <1>8 DEF Loose
  <2>2. \A j : BeingCreated(j)' <=> BeingCreated(j)
    BY <1>3 DEF BeingCreated
  <2>3. LooseOnes' \subseteq LooseOnes
    BY <1>6, <2>1, <2>2 DEF LooseOnes
  <2>4. unclean' = unclean /\ unclean \in Nat /\ unclean <= unclean
    BY <1>3 DEF NetInv, NetTypes
  <2>5. QED
    BY <2>3, <2>4, NoMoreLoose DEF NetInv
<1>14. IndexIsTrue'
  BY <1>3, <1>7, <1>8, KeptMeans DEF NetInv, IndexIsTrue, BookKept
<1>15. NothingSkipped'
  <2>1. npc = "add about" => contactID \in DOMAIN book
    BY UpdatingFacts DEF Updating
  <2>2. npc = "add about" /\ book[contactID].tag => book'[contactID].tag
    BY <1>6, <2>1
  <2>3. CompanyBoxes' = CompanyBoxes /\ (AllToDo' <=> AllToDo)
    BY <1>3 DEF CompanyBoxes, AllToDo
  <2>4. QED
    BY <1>3, <1>7, <1>8, <2>2, <2>3, KeptMeans DEF NetInv, NothingSkipped
<1>16. NothingToWrite'
  BY <1>3, <1>7, <1>8, KeptMeans DEF NetInv, NothingToWrite
<1>17. HandsKept'
  <2>1. DOMAIN typed' = DOMAIN typed \cup {k} /\ typed'[k] = last /\ crossed \subseteq crossed'
        /\ \A j \in DOMAIN typed : j # k => typed'[j] = typed[j]
    BY <1>1
  <2>2. QED
    BY <1>6, <2>1 DEF NetInv, NetTypes, HandsKept
<1>18. QED
  BY <1>7, <1>9, <1>10, <1>11, <1>12, <1>13, <1>14, <1>15, <1>16, <1>17, KeptMeans DEF NetInv

LEMMA HandAddKeeps == ASSUME NetInv, HandAdd PROVE NetInv'
<1>1. PICK k, q, last :
          /\ k = Len(book) + 1 /\ q \in DOMAIN KindOf \ DOMAIN BuildContactEmailIndex /\ last \in {"given", "none"}
          /\ book' = Append(book, [Contact("hand", last, "hand") EXCEPT !.email = q])
          /\ typed' = [j \in DOMAIN typed \cup {k} |-> IF j = k THEN last ELSE typed[j]]
          /\ cameBetween' = IF Creating /\ q \in ToSet(persons) THEN cameBetween \cup {k} ELSE cameBetween
  BY NetAssumption DEF HandAdd
<1>2. PICK f : f = [Contact("hand", last, "hand") EXCEPT !.email = q]
  OBVIOUS
<1>3. UNCHANGED <<made, planned, ccmd, companyBook, npc, persons, anyFailed, emailIndex, asRead, contactID, unclean,
                  rewrote, imported, crossed>>
  BY DEF HandAdd, manifestVars, runVars, contactVars
<1>4. q # NoOne /\ q \in Nat /\ ~HasContact(q)
  BY <1>1, NetAssumption, IndexIsBuilt
<1>5. f \in ContactsOf(Companies) /\ f.name = "hand" /\ f.last = last /\ f.about = "hand" /\ f.email = q
  BY <1>1, <1>2, <1>4 DEF ContactsOf, Contact, LastNames, Companies
<1>6. /\ book' \in Seq(ContactsOf(Companies)) /\ k \notin DOMAIN book /\ DOMAIN book' = DOMAIN book \cup {k}
      /\ book'[k] = f /\ \A j \in DOMAIN book : book'[j] = book[j]
  <2>1. book \in Seq(ContactsOf(Companies))
    BY DEF NetInv, NetTypes
  <2>2. book' = Append(book, f)
    BY <1>1, <1>2
  <2>3. QED
    BY <1>1, <1>5, <2>1, <2>2, Appended
<1>7. (Creating' <=> Creating) /\ (Completing' <=> Completing) /\ (Grouping' <=> Grouping) /\ (Updating' <=> Updating)
      /\ CompanyBoxes' = CompanyBoxes /\ (AllToDo' <=> AllToDo) /\ \A j : BeingCreated(j)' <=> BeingCreated(j)
  BY <1>3 DEF Creating, Completing, Grouping, Updating, CompanyBoxes, AllToDo, BeingCreated
<1>8. ASSUME NEW p, HasContact(p) PROVE HasContact(p)' /\ Entry(p)' = Entry(p)
  <2>1. Holders(p)' = Holders(p)
    BY <1>4, <1>5, <1>6, <1>8 DEF Holders, HasContact
  <2>2. QED
    BY <1>6, <1>8, <2>1 DEF HasContact, Entry
<1>9. ASSUME NEW p PROVE (Complete(p) => Complete(p)') /\ (Linked(p) => Linked(p)')
  <2>1. HasContact(p) => HasContact(p)' /\ Entry(p)' = Entry(p) /\ book'[Entry(p)] = book[Entry(p)]
    BY <1>6, <1>8, EntryIs
  <2>2. QED
    BY <1>3, <2>1 DEF Complete, Linked
<1>10. NetTypes'
  BY <1>1, <1>3, <1>6 DEF NetInv, NetTypes
<1>11. Queued'
  BY <1>3, <1>7 DEF NetInv, Queued
<1>12. Fresh'
  <2>1. ASSUME NEW p \in ToSet(persons), Creating, NEW j \in DOMAIN book' \ cameBetween',
               \A i \in DOMAIN book \ cameBetween : book[i].email # p
        PROVE  book'[j].email # p
    BY <1>1, <1>5, <1>6, <2>1
  <2>2. persons # <<>> => ToSet(Tail(persons)) \subseteq ToSet(persons)
    BY RestOfQueue DEF NetInv, Queued
  <2>3. npc \in {"tag", "create", "email"} => Unknown(ToSet(persons))'
    BY <1>3, <2>1 DEF NetInv, Fresh, Creating, Unknown
  <2>4. npc \in {"label", "rollback"} => Unknown(ToSet(Tail(persons)))'
    <3>1. npc \in {"label", "rollback"} => ToSet(Tail(persons)) \subseteq ToSet(persons)
      BY <2>2 DEF NetInv, Queued
    <3>2. QED
      BY <1>3, <2>1, <3>1 DEF NetInv, Fresh, Creating, Unknown
  <2>5. npc \in {"email", "label", "rollback"} =>
           /\ contactID \in DOMAIN book' /\ book'[contactID] = book[contactID]
           /\ contactID \in DOMAIN typed' => contactID \in crossed'
    BY <1>1, <1>3, <1>6 DEF NetInv, Fresh
  <2>6. QED
    BY <1>3, <2>3, <2>4, <2>5 DEF NetInv, Fresh
<1>13. Updating => contactID \in DOMAIN book /\ contactID # k
  BY <1>6, UpdatingFacts
<1>14. ReadBefore'
  BY <1>1, <1>3, <1>6, <1>7, <1>13 DEF NetInv, ReadBefore
<1>15. FewLoose'
  <2>1. \A j \in DOMAIN book' : Loose(j)' => j \in DOMAIN book /\ Loose(j)
    BY <1>3, <1>5, <1>6, <1>7, <1>13 DEF Loose
  <2>2. LooseOnes' \subseteq LooseOnes
    BY <1>7, <2>1 DEF LooseOnes
  <2>3. unclean' = unclean /\ unclean \in Nat /\ unclean <= unclean
    BY <1>3 DEF NetInv, NetTypes
  <2>4. QED
    BY <2>2, <2>3, NoMoreLoose DEF NetInv
<1>16. IndexIsTrue'
  BY <1>3, <1>6, <1>7, <1>8 DEF NetInv, IndexIsTrue
<1>17. NothingSkipped'
  <2>1. npc = "add about" => contactID \in DOMAIN book /\ book'[contactID] = book[contactID]
    BY <1>6, <1>13 DEF Updating
  <2>2. QED
    BY <1>3, <1>7, <1>8, <1>9, <2>1 DEF NetInv, NothingSkipped
<1>18. NothingToWrite'
  <2>1. AllDone => AllDone'
    BY <1>3, <1>7, <1>8, <1>9 DEF AllDone
  <2>2. QED
    BY <1>3, <1>7, <2>1 DEF NetInv, NothingToWrite
<1>19. OnePerAddress'
  <2>1. \A j \in DOMAIN book : book'[j].email # q
    BY <1>4, <1>6 DEF HasContact
  <2>2. cameBetween \subseteq cameBetween'
    BY <1>1
  <2>3. QED
    BY <1>5, <1>6, <2>1, <2>2 DEF NetInv, OnePerAddress
<1>20. HandsKept'
  <2>1. DOMAIN typed' = DOMAIN typed \cup {k} /\ typed'[k] = last /\ crossed' = crossed
        /\ \A j \in DOMAIN typed : j # k => typed'[j] = typed[j]
    BY <1>1, <1>3
  <2>2. QED
    BY <1>5, <1>6, <2>1 DEF NetInv, NetTypes, HandsKept
<1>21. QED
  BY <1>10, <1>11, <1>12, <1>14, <1>15, <1>16, <1>17, <1>18, <1>19, <1>20 DEF NetInv

LEMMA ImportKilledKeeps == ASSUME NetInv, ImportKilled PROVE NetInv'
<1>1. npc # "idle" /\ npc' = "idle" /\ persons' = <<>> /\ unclean' = (IF BeingCreated(contactID) THEN unclean + 1 ELSE unclean)
      /\ UNCHANGED <<made, planned, ccmd, typed, crossed, cameBetween, asRead, contactID, book, companyBook, rewrote, imported>>
  BY DEF ImportKilled, Mishap, outside, manifestVars, handVars, contactVars
<1>2. unclean \in Nat /\ unclean' \in Nat /\ unclean <= unclean
  <2>1. \A n \in Nat : n + 1 \in Nat /\ n <= n
    OBVIOUS
  <2>2. QED
    BY <1>1, <2>1 DEF NetInv, NetTypes
<1>3. NetTypes' /\ HandsKept' /\ OnePerAddress' /\ rewrote' = 0
  BY <1>1, <1>2 DEF NetInv, NetTypes, HandsKept, OnePerAddress, NothingToWrite
<1>4. ~Updating' /\ \A j : ~BeingCreated(j)' /\ (BeingCreated(j) => j = contactID)
  BY <1>1 DEF Updating, BeingCreated
<1>5. FewLoose'
  <2>1. \A j \in DOMAIN book : Loose(j)' => Loose(j)
    BY <1>1, <1>4 DEF Loose
  <2>2. CASE BeingCreated(contactID)
    <3>1. LooseOnes' \subseteq LooseOnes \cup {contactID}
      BY <1>1, <1>4, <2>1 DEF LooseOnes
    <3>2. QED
      BY <1>1, <2>2, <3>1, OneMoreLoose DEF NetInv
  <2>3. CASE ~BeingCreated(contactID)
    <3>1. LooseOnes' \subseteq LooseOnes
      BY <1>1, <1>4, <2>1, <2>3 DEF LooseOnes
    <3>2. QED
      BY <1>1, <1>2, <2>3, <3>1, NoMoreLoose DEF NetInv
  <2>4. QED
    BY <2>2, <2>3
<1>6. imported' => AllDone'
  <2>1. BookKept
    BY <1>1 DEF BookKept
  <2>2. QED
    BY <1>1, <2>1, KeptMeans DEF NetInv, NothingToWrite
<1>7. QED
  BY <1>1, <1>3, <1>5, <1>6, StepIsOver

LEMMA NetStarts == NetInit => NetInv
<1> SUFFICES ASSUME NetInit PROVE NetInv
  OBVIOUS
<1> USE DEF NetInit
<1>1. ~Creating /\ ~Completing /\ ~Grouping /\ ~Updating /\ \A k : ~BeingCreated(k)
  BY DEF Creating, Completing, Grouping, Updating, BeingCreated
<1>2. /\ book \in Seq(ContactsOf(Companies)) /\ OnePerAddress
      /\ \A k \in DOMAIN book : book[k].name = "link" => book[k].email # NoOne /\ book[k].tag
  BY NetAssumption DEF OnePerAddress
<1>3. NetTypes
  <2>1. Deleted \in ContactsOf(Companies)
    BY DEF Deleted, Contact, ContactsOf, LastNames, Companies, NoOne, NoCompany
  <2>2. DOMAIN <<>> = {}
    OBVIOUS
  <2>3. QED
    BY <1>2, <2>1, <2>2 DEF NetTypes, Manifests
<1>4. Queued
  <2>1. DOMAIN <<>> = {} /\ \A S : <<>> \in Seq(S)
    OBVIOUS
  <2>2. QED
    BY <1>1, <2>1 DEF Queued
<1>5. FewLoose
  <2>1. LooseOnes = {}
    BY <1>1, <1>2 DEF LooseOnes, Loose
  <2>2. QED
    BY <2>1, FS_EmptySet DEF FewLoose
<1>6. HandsKept
  <2>1. DOMAIN <<>> = {}
    OBVIOUS
  <2>2. QED
    BY <2>1 DEF HandsKept
<1>7. QED
  BY <1>1, <1>2, <1>3, <1>4, <1>5, <1>6
     DEF NetInv, Fresh, ReadBefore, IndexIsTrue, NothingSkipped, NothingToWrite

(* However the runs of the tools end, and whoever works in the CRM meanwhile:  *)
(* the manifest names people the target deals with; no two contacts share an   *)
(* address, but where somebody made one while the tool was about to; contacts  *)
(* are left incomplete only by what could not be undone; what was written by   *)
(* hand stays, unless the tool was creating or updating the contact at that    *)
(* time, and but for an empty last name, which may become "<nil>"; and an      *)
(* import that has ended well finds nothing to write when it is repeated.      *)
THEOREM ContactsAreTrue == NetInit /\ [][NetNext]_netVars => []CrmIsTrue
<1>1. NetInit => NetInv
  BY NetStarts
<1>2. NetInv /\ [NetNext]_netVars => NetInv'
  <2> SUFFICES ASSUME NetInv, [NetNext]_netVars PROVE NetInv'
    OBVIOUS
  <2>1. CASE MakeManifest
    BY <2>1, MakeManifestKeeps
  <2>2. CASE StartImport
    BY <2>2, StartImportKeeps
  <2>3. CASE RunEnds
    BY <2>3, RunEndsKeeps
  <2>4. CASE HandEdit
    BY <2>4, HandEditKeeps
  <2>5. CASE HandAdd \/ ImportKilled
    BY <2>5, HandAddKeeps, ImportKilledKeeps
  <2>6. ASSUME NEW r, CrmCall(r) PROVE NetInv'
    BY <2>6, IndexContactsKeeps, CreateContactTagKeeps, CreatePersonKeeps, AddContactInfoKeeps, AddContactTagKeeps,
       DeleteContactKeeps, IndexForBackfillKeeps, GetForBackfillKeeps, BackfillTagKeeps, BackfillAboutKeeps,
       IndexForCompaniesKeeps, FindCompanyKeeps, GetForCompanyKeeps, LinkCompanyKeeps DEF CrmCall
  <2>7. CASE UNCHANGED netVars
    <3>1. UNCHANGED <<made, planned, ccmd, companyBook, npc, persons, anyFailed, emailIndex, asRead, contactID, unclean,
                      rewrote, imported, book, typed, crossed, cameBetween>>
      BY <2>7 DEF netVars, outside, manifestVars, handVars, runVars, contactVars
    <3>2. BookKept
      BY <3>1 DEF BookKept
    <3>3. (Creating' <=> Creating) /\ (Completing' <=> Completing) /\ (Grouping' <=> Grouping) /\ (Updating' <=> Updating)
          /\ CompanyBoxes' = CompanyBoxes /\ (AllToDo' <=> AllToDo)
      BY <3>1 DEF Creating, Completing, Grouping, Updating, CompanyBoxes, AllToDo
    <3>4. NetTypes' /\ Queued' /\ OnePerAddress' /\ HandsKept'
      BY <3>1, <3>3 DEF NetInv, NetTypes, Queued, OnePerAddress, HandsKept
    <3>5. Fresh' /\ ReadBefore'
      BY <3>1, <3>3 DEF NetInv, Fresh, ReadBefore, Unknown
    <3>6. FewLoose'
      BY <3>1, <3>3 DEF NetInv, FewLoose, LooseOnes, Loose, BeingCreated
    <3>7. IndexIsTrue'
      BY <3>1, <3>2, <3>3, KeptMeans DEF NetInv, IndexIsTrue
    <3>8. NothingSkipped' /\ NothingToWrite'
      BY <3>1, <3>2, <3>3, KeptMeans DEF NetInv, NothingSkipped, NothingToWrite
    <3>9. QED
      BY <3>4, <3>5, <3>6, <3>7, <3>8 DEF NetInv
  <2>8. QED
    BY <2>1, <2>2, <2>3, <2>4, <2>5, <2>6, <2>7 DEF NetNext
<1>3. NetInv => CrmIsTrue
  <2> SUFFICES ASSUME NetInv PROVE CrmIsTrue
    OBVIOUS
  <2>1. PlanIsEarned
    BY PlannedAreKnown DEF NetInv
  <2>2. RolledBack
    <3>1. {k \in DOMAIN book : Incomplete(k) /\ ~BeingCreated(k)} \subseteq LooseOnes
      BY DEF Incomplete, LooseOnes, Loose
    <3>2. /\ Cardinality({k \in DOMAIN book : Incomplete(k) /\ ~BeingCreated(k)}) <= Cardinality(LooseOnes)
          /\ Cardinality({k \in DOMAIN book : Incomplete(k) /\ ~BeingCreated(k)}) \in Nat
          /\ Cardinality(LooseOnes) \in Nat
      BY <3>1, LooseAreFinite, FS_Subset, FS_CardinalityType DEF NetInv
    <3>3. \A a, b, c \in Nat : a <= b /\ b <= c => a <= c
      OBVIOUS
    <3>4. QED
      BY <3>2, <3>3 DEF NetInv, FewLoose, NetTypes, RolledBack
  <2>3. QED
    BY <2>1, <2>2 DEF NetInv, NothingToWrite, CrmIsTrue
<1>4. QED
  BY <1>1, <1>2, <1>3, PTL
=============================================================================
