-------------------------- MODULE IndexSync_proofs --------------------------
(***************************************************************************)
(* Proofs about IndexSync: no binary opens the database under a running    *)
(* brain, and, without --rebuild, neither a successful cycle nor /stats    *)
(* tells of packs that are not imported.                                   *)
(***************************************************************************)
EXTENDS IndexSync, TLAPS

(* Types, as far as the arguments need them. *)
FreshFiles == [err : BOOLEAN, indexed : BOOLEAN, pack : [Sources -> Nat]]
SyncTypes ==
    /\ landed \in [Sources -> Nat] /\ leaf \in [Sources -> Nat]
    /\ graph \in [Chans -> Nat]
    /\ began \in [Sources -> Nat] /\ good \in [Sources -> Nat]
    /\ packs \in [Sources -> Nat]
    /\ fresh \in FreshFiles /\ fresh.pack \in [Sources -> Nat]
    /\ gator \in BOOLEAN /\ found \subseteq Sources /\ todo \subseteq Chans

(* Nothing is ahead of what has landed. *)
Behind ==
    /\ \A s \in Sources : leaf[s] <= landed[s] /\ began[s] <= landed[s] /\ packs[s] <= landed[s]
    /\ \A c \in Chans : graph[c] <= landed[c]

(* What there was when the cycle began has been discovered. *)
Discovered ==
    /\ pc \notin {"idle", "discover", "release"} => \A s \in Sources : began[s] > 0 => s \in found
    /\ pc = "nothing" => found = {}

(* What the steps behind the cycle have imported of it. *)
ImportedSoFar ==
    /\ pc \in {"docLeaf", "index", "graph", "ann", "finish"} /\ gator
         => \A c \in Chans : leaf[c] >= began[c]
    /\ pc \in {"index", "graph", "ann", "finish"} => \A d \in Docs : leaf[d] >= began[d]
    /\ pc \in {"graph", "ann", "finish"} => \A c \in Chans : leaf[c] >= began[c]
    /\ pc = "graph" /\ gator => \A c \in Chans \ todo : graph[c] >= began[c]
    /\ pc \in {"ann", "finish"} /\ gator => \A c \in Chans : graph[c] >= began[c]

(* In calm surroundings nothing lands during a cycle, and so nothing that    *)
(* the freshness file shows is missing.                                      *)
CalmCycles ==
    Calm => /\ pc # "idle" => landed = began
            /\ \A s \in Sources : leaf[s] >= fresh.pack[s]

SyncInv == SyncTypes /\ Behind /\ Discovered /\ ImportedSoFar /\ SuccessImports /\ CalmCycles

-----------------------------------------------------------------------------
(* The freshness file. *)

LEMMA SaveErrorType ==
    ASSUME fresh \in FreshFiles, SaveError
    PROVE  fresh' \in FreshFiles /\ fresh'.pack = fresh.pack
  BY DEF FreshFiles, SaveError

LEMMA SaveSuccessType ==
    ASSUME fresh \in FreshFiles, packs \in [Sources -> Nat], SaveSuccess
    PROVE  /\ fresh' \in FreshFiles /\ fresh'.pack \in [Sources -> Nat]
           /\ fresh'.pack = IF packs = None THEN fresh.pack ELSE packs
  BY DEF FreshFiles, SaveSuccess

LEMMA SyncInit == Init => SyncInv
  BY SyncAssumption DEF Init, None, FreshFiles, SyncInv, SyncTypes, Behind, Discovered, ImportedSoFar, SuccessImports, CalmCycles, Sources

-----------------------------------------------------------------------------
(* The steps. *)

LEMMA BeginKeeps ==
    ASSUME SyncInv, Begin, UNCHANGED setting
    PROVE  SyncInv'
<1>1. SyncTypes'
  BY DEF Begin, world, SyncInv, SyncTypes, setting
<1>2. Behind'
  BY DEF Begin, world, SyncInv, SyncTypes, Behind
<1>3. Discovered'
  BY DEF Begin, SyncInv, Discovered
<1>4. ImportedSoFar'
  BY DEF Begin, SyncInv, ImportedSoFar
<1>5. SuccessImports'
  BY DEF Begin, world, SyncInv, SuccessImports, setting
<1>6. CalmCycles'
  BY DEF Begin, world, SyncInv, CalmCycles, Calm, setting
<1> QED  BY <1>1, <1>2, <1>3, <1>4, <1>5, <1>6 DEF SyncInv

LEMMA DiscoverKeeps ==
    ASSUME SyncInv, Discover, UNCHANGED setting
    PROVE  SyncInv'
<1>0. fresh' \in FreshFiles /\ fresh'.pack = fresh.pack
  BY SaveErrorType DEF Discover, Fail, SyncInv, SyncTypes
<1>1. SyncTypes'
  BY <1>0 DEF Discover, world, SyncInv, SyncTypes, setting
<1>2. Behind'
  BY DEF Discover, world, SyncInv, SyncTypes, Behind
<1>3. Discovered'
  BY DEF Discover, SyncInv, SyncTypes, Behind, Discovered
<1>4. ImportedSoFar'
  BY DEF Discover, SyncInv, ImportedSoFar
<1>5. SuccessImports'
  BY DEF Discover, world, SyncInv, SuccessImports, setting
<1>6. CalmCycles'
  BY <1>0 DEF Discover, world, SyncInv, CalmCycles, Calm, setting
<1> QED  BY <1>1, <1>2, <1>3, <1>4, <1>5, <1>6 DEF SyncInv

LEMMA DecideKeeps ==
    ASSUME SyncInv, Decide, UNCHANGED setting
    PROVE  SyncInv'
<1>1. SyncTypes'
  BY DEF Decide, NewestPack, world, SyncInv, SyncTypes, setting
<1>2. Behind'
  BY DEF Decide, NewestPack, world, SyncInv, SyncTypes, Behind
<1>3. Discovered'
  BY DEF Decide, SyncInv, Discovered
<1>4. ImportedSoFar'
  BY DEF Decide, SyncInv, ImportedSoFar
<1>5. SuccessImports'
  BY DEF Decide, world, SyncInv, SuccessImports, setting
<1>6. CalmCycles'
  BY DEF Decide, world, SyncInv, CalmCycles, Calm, setting
<1> QED  BY <1>1, <1>2, <1>3, <1>4, <1>5, <1>6 DEF SyncInv

LEMMA NothingKeeps ==
    ASSUME SyncInv, Nothing, UNCHANGED setting
    PROVE  SyncInv'
<1>0. /\ fresh' \in FreshFiles /\ fresh'.pack \in [Sources -> Nat]
      /\ fresh'.pack = IF packs = None THEN fresh.pack ELSE packs
  BY SaveSuccessType DEF Nothing, SyncInv, SyncTypes
<1>1. SyncTypes'
  BY <1>0 DEF Nothing, world, SyncInv, SyncTypes, setting
<1>2. Behind'
  BY DEF Nothing, world, SyncInv, SyncTypes, Behind
<1>3. Discovered'
  BY DEF Nothing, SyncInv, Discovered
<1>4. ImportedSoFar'
  BY DEF Nothing, SyncInv, ImportedSoFar
<1>5. SuccessImports'
  BY DEF Nothing, world, SyncInv, SyncTypes, Discovered, SuccessImports, Sources
<1>6. CalmCycles'
  BY <1>0 DEF Nothing, world, SyncInv, SyncTypes, Behind, Discovered, CalmCycles, Calm, setting
<1> QED  BY <1>1, <1>2, <1>3, <1>4, <1>5, <1>6 DEF SyncInv

LEMMA SkippedKeeps ==
    ASSUME SyncInv, Skipped, UNCHANGED setting
    PROVE  SyncInv'
<1>1. SyncTypes'
  BY DEF Skipped, world, run, SyncInv, SyncTypes, setting
<1>2. Behind'
  BY DEF Skipped, world, run, SyncInv, SyncTypes, Behind
<1>3. Discovered'
  BY DEF Skipped, SyncInv, Discovered
<1>4. ImportedSoFar'
  BY DEF Skipped, SyncInv, ImportedSoFar
<1>5. SuccessImports'
  BY DEF Skipped, world, run, SyncInv, SuccessImports, setting
<1>6. CalmCycles'
  BY DEF Skipped, world, SyncInv, CalmCycles, Calm, setting
<1> QED  BY <1>1, <1>2, <1>3, <1>4, <1>5, <1>6 DEF SyncInv

LEMMA QuiesceKeeps ==
    ASSUME SyncInv, Quiesce, UNCHANGED setting
    PROVE  SyncInv'
<1>0. fresh' \in FreshFiles /\ fresh'.pack = fresh.pack
  BY SaveErrorType DEF Quiesce, SyncInv, SyncTypes
<1>1. SyncTypes'
  BY <1>0 DEF Quiesce, SyncInv, SyncTypes, setting
<1>2. Behind'
  BY DEF Quiesce, SyncInv, SyncTypes, Behind
<1>3. Discovered'
  BY DEF Quiesce, SyncInv, Discovered
<1>4. ImportedSoFar'
  BY DEF Quiesce, SyncInv, ImportedSoFar
<1>5. SuccessImports'
  BY DEF Quiesce, SyncInv, SuccessImports, setting
<1>6. CalmCycles'
  BY <1>0 DEF Quiesce, SyncInv, CalmCycles, Calm, setting
<1> QED  BY <1>1, <1>2, <1>3, <1>4, <1>5, <1>6 DEF SyncInv

LEMMA MailLeafKeeps ==
    ASSUME SyncInv, MailLeaf, UNCHANGED setting
    PROVE  SyncInv'
<1>0. fresh' \in FreshFiles /\ fresh'.pack = fresh.pack
  BY SaveErrorType DEF MailLeaf, StepFails, Fail, SyncInv, SyncTypes
<1>1. SyncTypes'
  BY <1>0 DEF MailLeaf, ImportLeafs, run, SyncInv, SyncTypes, setting
<1>2. Behind'
  BY DEF MailLeaf, ImportLeafs, run, SyncInv, SyncTypes, Behind
<1>3. Discovered'
  BY DEF MailLeaf, StepFails, run, SyncInv, Discovered
<1>4. ImportedSoFar'
  BY DEF MailLeaf, ImportLeafs, StepFails, run, SyncInv, SyncTypes, Behind, Discovered, ImportedSoFar, Sources, setting
<1>5. SuccessImports'
  BY DEF MailLeaf, ImportLeafs, run, SyncInv, SyncTypes, Behind, SuccessImports, setting
<1>6. CalmCycles'
  BY <1>0 DEF MailLeaf, ImportLeafs, run, SyncInv, SyncTypes, Behind, CalmCycles, Calm, setting
<1> QED  BY <1>1, <1>2, <1>3, <1>4, <1>5, <1>6 DEF SyncInv

LEMMA DocLeafKeeps ==
    ASSUME SyncInv, DocLeaf, UNCHANGED setting
    PROVE  SyncInv'
<1>0. fresh' \in FreshFiles /\ fresh'.pack = fresh.pack
  BY SaveErrorType DEF DocLeaf, StepFails, Fail, SyncInv, SyncTypes
<1>1. SyncTypes'
  BY <1>0 DEF DocLeaf, ImportLeafs, run, SyncInv, SyncTypes, setting
<1>2. Behind'
  BY DEF DocLeaf, ImportLeafs, run, SyncInv, SyncTypes, Behind
<1>3. Discovered'
  BY DEF DocLeaf, StepFails, run, SyncInv, Discovered
<1>4. ImportedSoFar'
  BY DEF DocLeaf, ImportLeafs, StepFails, run, SyncInv, SyncTypes, Behind, Discovered, ImportedSoFar, Sources, setting
<1>5. SuccessImports'
  BY DEF DocLeaf, ImportLeafs, run, SyncInv, SyncTypes, Behind, SuccessImports, setting
<1>6. CalmCycles'
  BY <1>0 DEF DocLeaf, ImportLeafs, run, SyncInv, SyncTypes, Behind, CalmCycles, Calm, setting
<1> QED  BY <1>1, <1>2, <1>3, <1>4, <1>5, <1>6 DEF SyncInv

LEMMA IndexKeeps ==
    ASSUME ~Rebuild, SyncInv, Index, UNCHANGED setting
    PROVE  SyncInv'
<1>0. fresh' \in FreshFiles /\ fresh'.pack = fresh.pack
  BY SaveErrorType DEF Index, StepFails, Fail, SyncInv, SyncTypes
<1>1. SyncTypes'
  BY <1>0 DEF Index, Kept, SyncInv, SyncTypes, setting
<1>2. Behind'
  BY DEF Index, Kept, SyncInv, SyncTypes, Behind
<1>3. Discovered'
  BY DEF Index, StepFails, SyncInv, Discovered
<1>4. ImportedSoFar'
  BY DEF Index, Kept, StepFails, SyncInv, SyncTypes, Behind, Discovered, ImportedSoFar, Sources, setting
<1>5. SuccessImports'
  BY DEF Index, Kept, SyncInv, SyncTypes, Behind, SuccessImports, setting
<1>6. CalmCycles'
  BY <1>0 DEF Index, Kept, SyncInv, SyncTypes, Behind, CalmCycles, Calm, setting
<1> QED  BY <1>1, <1>2, <1>3, <1>4, <1>5, <1>6 DEF SyncInv

LEMMA GraphKeeps ==
    ASSUME SyncInv, NEW c \in Chans, Graph(c), UNCHANGED setting
    PROVE  SyncInv'
<1>0. fresh' \in FreshFiles /\ fresh'.pack = fresh.pack
  BY SaveErrorType DEF Graph, StepFails, Fail, SyncInv, SyncTypes
<1>1. SyncTypes'
  BY <1>0 DEF Graph, SyncInv, SyncTypes, Sources, setting
<1>2. Behind'
  BY DEF Graph, SyncInv, SyncTypes, Behind, Sources
<1>3. Discovered'
  BY DEF Graph, StepFails, SyncInv, Discovered
<1>4. ImportedSoFar'
  BY DEF Graph, StepFails, SyncInv, SyncTypes, Behind, ImportedSoFar, Sources, setting
<1>5. SuccessImports'
  BY DEF Graph, SyncInv, SyncTypes, Behind, SuccessImports, Sources, setting
<1>6. CalmCycles'
  BY <1>0 DEF Graph, SyncInv, CalmCycles, Calm, setting
<1> QED  BY <1>1, <1>2, <1>3, <1>4, <1>5, <1>6 DEF SyncInv

LEMMA GraphDoneKeeps ==
    ASSUME SyncInv, GraphDone, UNCHANGED setting
    PROVE  SyncInv'
<1>1. SyncTypes'
  BY DEF GraphDone, world, run, SyncInv, SyncTypes, setting
<1>2. Behind'
  BY DEF GraphDone, world, run, SyncInv, SyncTypes, Behind
<1>3. Discovered'
  BY DEF GraphDone, run, SyncInv, Discovered
<1>4. ImportedSoFar'
  BY DEF GraphDone, world, run, SyncInv, ImportedSoFar, setting
<1>5. SuccessImports'
  BY DEF GraphDone, world, run, SyncInv, SuccessImports, setting
<1>6. CalmCycles'
  BY DEF GraphDone, world, run, SyncInv, CalmCycles, Calm, setting
<1> QED  BY <1>1, <1>2, <1>3, <1>4, <1>5, <1>6 DEF SyncInv

LEMMA AnnKeeps ==
    ASSUME SyncInv, Ann, UNCHANGED setting
    PROVE  SyncInv'
<1>0. fresh' \in FreshFiles /\ fresh'.pack = fresh.pack
  BY SaveErrorType DEF Ann, Fail, SyncInv, SyncTypes
<1>1. SyncTypes'
  BY <1>0 DEF Ann, run, SyncInv, SyncTypes, setting
<1>2. Behind'
  BY DEF Ann, run, SyncInv, SyncTypes, Behind
<1>3. Discovered'
  BY DEF Ann, run, SyncInv, Discovered
<1>4. ImportedSoFar'
  BY DEF Ann, run, SyncInv, ImportedSoFar, setting
<1>5. SuccessImports'
  BY DEF Ann, run, SyncInv, SuccessImports, setting
<1>6. CalmCycles'
  BY <1>0 DEF Ann, run, SyncInv, CalmCycles, Calm, setting
<1> QED  BY <1>1, <1>2, <1>3, <1>4, <1>5, <1>6 DEF SyncInv

LEMMA FinishKeeps ==
    ASSUME SyncInv, Finish, UNCHANGED setting
    PROVE  SyncInv'
<1>0. /\ fresh' \in FreshFiles /\ fresh'.pack \in [Sources -> Nat]
      /\ fresh'.pack = IF packs = None THEN fresh.pack ELSE packs
  BY SaveSuccessType DEF Finish, SyncInv, SyncTypes
<1>1. SyncTypes'
  BY <1>0 DEF Finish, world, SyncInv, SyncTypes, setting
<1>2. Behind'
  BY DEF Finish, world, SyncInv, SyncTypes, Behind
<1>3. Discovered'
  BY DEF Finish, SyncInv, Discovered
<1>4. ImportedSoFar'
  BY DEF Finish, SyncInv, ImportedSoFar
<1>5. SuccessImports'
  BY DEF Finish, world, SyncInv, ImportedSoFar, SuccessImports, Sources, setting
<1>6. CalmCycles'
  BY <1>0 DEF Finish, world, SyncInv, SyncTypes, Behind, ImportedSoFar, CalmCycles, Calm, Sources, setting
<1> QED  BY <1>1, <1>2, <1>3, <1>4, <1>5, <1>6 DEF SyncInv

LEMMA ReleaseKeeps ==
    ASSUME SyncInv, Release, UNCHANGED setting
    PROVE  SyncInv'
<1>1. SyncTypes'
  BY DEF Release, SyncInv, SyncTypes, setting
<1>2. Behind'
  BY DEF Release, SyncInv, SyncTypes, Behind
<1>3. Discovered'
  BY DEF Release, SyncInv, Discovered
<1>4. ImportedSoFar'
  BY DEF Release, SyncInv, ImportedSoFar
<1>5. SuccessImports'
  BY DEF Release, SyncInv, SuccessImports, setting
<1>6. CalmCycles'
  BY DEF Release, SyncInv, CalmCycles, Calm, setting
<1> QED  BY <1>1, <1>2, <1>3, <1>4, <1>5, <1>6 DEF SyncInv

LEMMA LandKeeps ==
    ASSUME SyncInv, NEW s \in Sources, Land(s), UNCHANGED setting
    PROVE  SyncInv'
<1>1. SyncTypes'
  BY DEF Land, run, SyncInv, SyncTypes, setting
<1>2. Behind'
  BY DEF Land, run, SyncInv, SyncTypes, Behind
<1>3. Discovered'
  BY DEF Land, run, SyncInv, Discovered
<1>4. ImportedSoFar'
  BY DEF Land, run, SyncInv, ImportedSoFar, setting
<1>5. SuccessImports'
  BY DEF Land, run, SyncInv, SuccessImports, setting
<1>6. CalmCycles'
  BY DEF Land, SyncInv, CalmCycles, Calm, setting
<1> QED  BY <1>1, <1>2, <1>3, <1>4, <1>5, <1>6 DEF SyncInv

LEMMA OtherWriteKeeps ==
    ASSUME SyncInv, OtherWrite, UNCHANGED setting
    PROVE  SyncInv'
<1>1. SyncTypes'
  BY DEF OtherWrite, run, SyncInv, SyncTypes, setting
<1>2. Behind'
  BY DEF OtherWrite, run, SyncInv, SyncTypes, Behind
<1>3. Discovered'
  BY DEF OtherWrite, run, SyncInv, Discovered
<1>4. ImportedSoFar'
  BY DEF OtherWrite, run, SyncInv, ImportedSoFar, setting
<1>5. SuccessImports'
  BY DEF OtherWrite, run, SyncInv, SuccessImports, setting
<1>6. CalmCycles'
  BY DEF OtherWrite, run, SyncInv, CalmCycles, Calm, setting
<1> QED  BY <1>1, <1>2, <1>3, <1>4, <1>5, <1>6 DEF SyncInv

LEMMA CrashKeeps ==
    ASSUME SyncInv, Crash, UNCHANGED setting
    PROVE  SyncInv'
<1>1. SyncTypes'
  BY DEF Crash, SyncInv, SyncTypes, setting
<1>2. Behind'
  BY DEF Crash, SyncInv, SyncTypes, Behind
<1>3. Discovered'
  BY DEF Crash, SyncInv, Discovered
<1>4. ImportedSoFar'
  BY DEF Crash, SyncInv, ImportedSoFar
<1>5. SuccessImports'
  BY DEF Crash, SyncInv, SuccessImports, setting
<1>6. CalmCycles'
  BY DEF Crash, SyncInv, CalmCycles, Calm, setting
<1> QED  BY <1>1, <1>2, <1>3, <1>4, <1>5, <1>6 DEF SyncInv

LEMMA StutterKeeps ==
    ASSUME SyncInv, UNCHANGED vars
    PROVE  SyncInv'
  BY DEF vars, world, run, setting, SyncInv, SyncTypes, Behind, Discovered, ImportedSoFar, SuccessImports, CalmCycles, Calm

LEMMA SyncStep == ~Rebuild /\ SyncInv /\ [Next]_vars => SyncInv'
<1> SUFFICES ASSUME ~Rebuild, SyncInv, [Next]_vars PROVE SyncInv'
  OBVIOUS
<1>1. CASE Cycle
  BY <1>1, BeginKeeps, DiscoverKeeps, DecideKeeps, NothingKeeps, SkippedKeeps, QuiesceKeeps,
     MailLeafKeeps, DocLeafKeeps, IndexKeeps, GraphKeeps, GraphDoneKeeps, AnnKeeps,
     FinishKeeps, ReleaseKeeps DEF Cycle, Step
<1>2. CASE World /\ UNCHANGED setting
  BY <1>2, LandKeeps, OtherWriteKeeps, CrashKeeps DEF World
<1>3. CASE UNCHANGED vars
  BY <1>3, StutterKeeps
<1> QED  BY <1>1, <1>2, <1>3 DEF Next

-----------------------------------------------------------------------------
(* Theorems. *)

\* Whatever fails, dies or writes the database meanwhile: while a binary of the
\* cycle runs, the brain container is down and its release is owed.
THEOREM StepsRunWhileStopped == Spec => []WritesWhileStopped
<1>1. Init => WritesWhileStopped
  BY DEF Init, WritesWhileStopped, Writing
<1>2. WritesWhileStopped /\ [Next]_vars => WritesWhileStopped'
  <2> SUFFICES ASSUME WritesWhileStopped, [Next]_vars PROVE WritesWhileStopped'
    OBVIOUS
  <2> USE DEF WritesWhileStopped, Writing
  <2>1. CASE Begin \/ Discover \/ Decide \/ Nothing \/ Skipped
    BY <2>1 DEF Begin, Discover, Decide, Nothing, Skipped
  <2>2. CASE Quiesce
    BY <2>2 DEF Quiesce
  <2>3. CASE MailLeaf \/ DocLeaf
    BY <2>3 DEF MailLeaf, DocLeaf, run
  <2>4. CASE Index
    BY <2>4 DEF Index
  <2>5. CASE \E c \in Chans : Graph(c)
    BY <2>5 DEF Graph
  <2>6. CASE GraphDone \/ Ann
    BY <2>6 DEF GraphDone, Ann, world, run
  <2>7. CASE Finish \/ Release
    BY <2>7 DEF Finish, Release
  <2>8. CASE World
    BY <2>8 DEF World, Land, OtherWrite, Crash, run
  <2>9. CASE UNCHANGED vars
    BY <2>9 DEF vars, world, run
  <2> QED  BY <2>1, <2>2, <2>3, <2>4, <2>5, <2>6, <2>7, <2>8, <2>9 DEF Next, Cycle, Step
<1> QED  BY <1>1, <1>2, PTL DEF Spec

\* Without --rebuild, whatever cycles fail, are skipped or die: what had landed
\* when a cycle that exits with 0 began is imported, and in calm surroundings a
\* /stats that is not stale shows no pack that is missing.
THEOREM ToldIsImported ==
    ASSUME ~Rebuild
    PROVE  Spec => []WhatIsToldIsImported
<1>1. Init => SyncInv
  BY SyncInit
<1>2. SyncInv /\ [Next]_vars => SyncInv'
  BY SyncStep
<1>3. SyncInv => WhatIsToldIsImported
  BY DEF SyncInv, CalmCycles, WhatIsToldIsImported, FreshIsImported
<1> QED  BY <1>1, <1>2, <1>3, PTL DEF Spec
=============================================================================
