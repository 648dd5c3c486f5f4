-------------------------- MODULE MailSync_proofs --------------------------
(***************************************************************************)
(* Proofs about MailSync: with flags that download whole messages, what a  *)
(* saved delta link covers is there, and torn or short of an attachment    *)
(* only where a fault has made it so, for any number of runs.              *)
(***************************************************************************)
EXTENDS MailSync, Lists_proofs, SequenceTheorems, WellFoundedInduction, TLAPS

(* The setups the argument is about: no dry runs and no limits, and no raw   *)
(* run where a source keeps a delta link (Microsoft 365 cannot give raw mail, *)
(* so such a run skips its messages and saves the link all the same).         *)
WholeRuns ==
    \A c \in Confs :
        /\ \A md \in c.modes : ~md.dry /\ md.limit = 0 /\ md.offset = 0
        /\ (\E i \in DOMAIN c.sources : c.sources[i] \in Delta) =>
              /\ \A md \in c.modes : ~md.raw
              /\ \A i \in DOMAIN c.sources : Kind[c.sources[i]] # "imap"

MailTypes ==
    /\ conf \in Confs
    /\ mail \in [AllFolders -> 0..MaxMail]
    /\ file \in [Msgs -> [Parts -> {"none", "torn", "ok"}]]
    /\ link \in [AllFolders -> Nat]
    /\ pc \in [Runs -> {"idle", "list", "work", "drain", "commit", "saving"}]
    /\ mode \in [Runs -> Flags]
    /\ at \in [Runs -> (Nat \ {0}) \X (Nat \ {0})]
    /\ ids \in [Runs -> Seq(Msgs)]
    /\ pending \in [Runs -> [AllFolders -> Nat]]
    /\ job \in [Runs -> [Msgs -> {"none", "todo", "done", "failed"} \cup Running]]
    /\ owed \in [Runs -> SUBSET Delta]

(* A run knows what has arrived, no more. *)
Known ==
    \A f \in AllFolders : link[f] <= mail[f] /\ \A r \in Runs : pending[r][f] <= mail[f]

HasDelta == \E i \in DOMAIN Sources : Sources[i] \in Delta
PlainRuns ==
    \A r \in Runs : pc[r] # "idle" =>
        /\ mode[r].limit = 0 /\ mode[r].offset = 0 /\ mode[r].dry = FALSE
        /\ HasDelta => mode[r].raw = FALSE

AtSource ==
    \A r \in Runs : pc[r] = "list" =>
        at[r][1] \in DOMAIN Sources /\ at[r][2] \in DOMAIN Folders[Sources[at[r][1]]]

Listed(r, m) == \E i \in DOMAIN ids[r] : ids[r][i] = m

(* What a run is to fetch, or fetches, belongs to its sources. *)
JobsConfigured ==
    \A r \in Runs : \A m \in Msgs : job[r][m] # "none" \/ Listed(r, m) =>
        \E i \in DOMAIN Sources : Sources[i] = SourceOf(m[1])
ListedHere ==
    \A r \in Runs :
        /\ pc[r] = "work" => ids[r] = <<>>
        /\ pc[r] = "list" => \A m \in Msgs : Listed(r, m) => SourceOf(m[1]) = Sources[at[r][1]]
        /\ pc[r] \in {"idle", "list"} => \A m \in Msgs : job[r][m] \in {"none", "todo"}

(* What is already written of a source that keeps a delta link. *)
JobsWritten ==
    \A r \in Runs : \A m \in Msgs :
        SourceOf(m[1]) \in Delta /\ job[r][m] \in {"write", "atts", "attWrite", "note", "done"}
            => Exists(m, Body)

(* The link to be saved covers no message but those that are written, listed *)
(* or handed to a worker, as soon as the source's listing has begun.         *)
Due(r, m) == Exists(m, Body) \/ Listed(r, m) \/ job[r][m] # "none"
Asked(r, s) ==
    \E j \in DOMAIN Sources : Sources[j] = s /\
        (pc[r] = "list" => j < at[r][1] \/ (j = at[r][1] /\ at[r][2] > 1))
Accounted ==
    \A r \in Runs : pc[r] \in {"list", "work"} =>
        \A m \in Msgs : SourceOf(m[1]) \in Delta /\ Asked(r, SourceOf(m[1])) =>
            (m[2] <= pending[r][m[1]] => Due(r, m))

(* What the links to be saved cover is written. *)
Committable ==
    \A r \in Runs :
        /\ pc[r] = "saving" => owed[r] # {}
        /\ pc[r] \in {"commit", "saving"} =>
              \A s \in owed[r] : \E i \in DOMAIN Sources : Sources[i] = s
        /\ pc[r] \in {"commit", "saving"} =>
              \A m \in Msgs : SourceOf(m[1]) \in owed[r] /\ m[2] <= pending[r][m[1]] => Exists(m, Body)

MailInv ==
    /\ MailTypes /\ Known /\ PlainRuns /\ AtSource /\ JobsConfigured /\ ListedHere
    /\ JobsWritten /\ Accounted /\ Committable /\ NonePassedOver

-----------------------------------------------------------------------------
(* Sources, their folders and the messages in them. *)

LEMMA FoldersApart ==
    ASSUME NEW s \in SourceSet, NEW f \in FoldersOf(s)
    PROVE  f \in AllFolders /\ SourceOf(f) = s
  BY MailAssumption DEF AllFolders, SourceOf

LEMMA FolderSource ==
    ASSUME NEW f \in AllFolders
    PROVE  SourceOf(f) \in SourceSet /\ f \in FoldersOf(SourceOf(f))
  BY DEF AllFolders, SourceOf

LEMMA FolderList ==
    ASSUME NEW s \in SourceSet
    PROVE  /\ Len(Folders[s]) \in Nat \ {0} /\ DOMAIN Folders[s] = 1..Len(Folders[s])
           /\ \A i \in DOMAIN Folders[s] : Folders[s][i] \in FoldersOf(s)
<1>1. Folders[s] \in Seq(FoldersOf(s)) /\ Folders[s] # <<>>
  BY MailAssumption
<1>2. QED
  BY <1>1, EmptySeq, LenProperties, ElementOfSeq

LEMMA MsgFacts ==
    ASSUME NEW m \in Msgs
    PROVE  /\ m = <<m[1], m[2]>> /\ m[1] \in AllFolders /\ m[2] \in 1..MaxMail
           /\ SourceOf(m[1]) \in SourceSet /\ m[1] \in FoldersOf(SourceOf(m[1]))
  BY FolderSource DEF Msgs

LEMMA SourceList ==
    ASSUME MailTypes
    PROVE  /\ Sources \in Seq(SourceSet) /\ Len(Sources) \in Nat \ {0}
           /\ DOMAIN Sources = 1..Len(Sources) /\ \A i \in DOMAIN Sources : Sources[i] \in SourceSet
<1>1. Sources \in Seq(SourceSet) /\ Sources # <<>>
  BY MailAssumption DEF MailTypes, Sources
<1>2. QED
  BY <1>1, EmptySeq, LenProperties, ElementOfSeq

(* Of the sources to be committed one comes first. *)
LEMMA NextIsOwed ==
    ASSUME MailTypes, NEW r \in Runs, owed[r] # {},
           \A s \in owed[r] : \E i \in DOMAIN Sources : Sources[i] = s
    PROVE  NextOwed(r) \in owed[r]
<1> DEFINE T == {Index(s) : s \in owed[r]}
<1> DEFINE Less == {p \in Nat \X Nat : p[1] < p[2]}
<1>0. IsWellFoundedOn(Less, Nat)
  BY NatLessThanWellFounded DEF OpToRel
<1>1. \A s \in owed[r] : Index(s) \in Nat
  BY SourceList DEF Index
<1>2. T \subseteq Nat /\ T # {}
  BY <1>1
<1>3. PICK i \in T : \A j \in T : ~ (<<j, i>> \in Less)
  <2> HIDE DEF Less, T
<2>1. QED BY <1>0, <1>2, WFMin
<1>4. \A j \in T : i <= j
  <2> SUFFICES ASSUME NEW j \in T PROVE i <= j
    OBVIOUS
  <2>1. i \in Nat /\ j \in Nat /\ <<j, i>> \notin Less
    <3> HIDE DEF Less, T
    <3>1. QED BY <1>2, <1>3
  <2>2. QED BY <2>1
<1>5. QED
  BY <1>4 DEF NextOwed

-----------------------------------------------------------------------------
(* The steps. *)

(* A step that takes nothing back leaves alone what is due and what is asked. *)
LEMMA AccountedStays ==
    ASSUME Accounted, conf' = conf,
           \A n \in Msgs : Exists(n, Body) => Exists(n, Body)',
           \A q \in Runs : pc'[q] \in {"list", "work"} =>
               /\ pc'[q] = pc[q] /\ at'[q] = at[q] /\ ids'[q] = ids[q] /\ pending'[q] = pending[q]
               /\ \A n \in Msgs : job[q][n] # "none" => job'[q][n] # "none"
    PROVE  Accounted'
<1> SUFFICES ASSUME NEW q \in Runs, (pc[q] \in {"list", "work"})', NEW n \in Msgs,
                    SourceOf(n[1]) \in Delta, Asked(q, SourceOf(n[1]))', (n[2] <= pending[q][n[1]])'
             PROVE  Due(q, n)'
  BY DEF Accounted
<1>1. Asked(q, SourceOf(n[1]))
  BY DEF Asked, Sources
<1>2. Due(q, n)
  BY <1>1 DEF Accounted
<1>3. QED
  BY <1>2 DEF Due, Listed

LEMMA JobsConfiguredStay ==
    ASSUME JobsConfigured, conf' = conf, ids' = ids,
           \A q \in Runs : \A n \in Msgs : job[q][n] = "none" => job'[q][n] = "none"
    PROVE  JobsConfigured'
  BY DEF JobsConfigured, Listed, Sources

LEMMA ArriveKeeps ==
    ASSUME MailInv, NEW f \in AllFolders, Arrive(f)
    PROVE  MailInv'
<1>1. MailTypes'
  <2>1. mail' \in [AllFolders -> 0..MaxMail]
    <3>1. mail[f] \in 0..MaxMail /\ mail[f] < conf.most /\ conf.most \in 0..MaxMail /\ MaxMail \in Nat
      BY MailAssumption DEF Arrive, MailInv, MailTypes
    <3>2. mail[f] + 1 \in 0..MaxMail
      BY <3>1
    <3>3. QED
      BY <3>2 DEF Arrive, MailInv, MailTypes
  <2>2. /\ conf' = conf /\ file' = file /\ link' = link /\ pc' = pc /\ mode' = mode /\ at' = at /\ ids' = ids
        /\ pending' = pending /\ job' = job /\ owed' = owed
    BY DEF Arrive, disk, listing, work
  <2>3. QED
    BY <2>1, <2>2 DEF MailInv, MailTypes
<1>2. Known'
  <2>1. /\ mail \in [AllFolders -> 0..MaxMail] /\ MaxMail \in Nat
        /\ link \in [AllFolders -> Nat] /\ pending \in [Runs -> [AllFolders -> Nat]]
    BY MailAssumption DEF MailInv, MailTypes
  <2>2. mail' = [mail EXCEPT ![f] = @ + 1] /\ link' = link /\ pending' = pending
    BY DEF Arrive, disk, listing
  <2>3. \A g \in AllFolders : mail[g] \in Nat /\ mail'[g] \in {mail[g], mail[g] + 1}
    BY <2>1, <2>2
  <2>4. \A n, a \in Nat : \A m \in {n, n + 1} : a <= n => a <= m
    OBVIOUS
  <2>5. \A g \in AllFolders : \A a \in Nat : a <= mail[g] => a <= mail'[g]
    BY <2>3, <2>4
  <2>6. QED
    BY <2>1, <2>2, <2>5 DEF MailInv, Known
<1>3. PlainRuns'
  BY MailAssumption DEF Arrive, MailInv, PlainRuns, HasDelta, Sources, listing
<1>4. AtSource'
  BY MailAssumption DEF Arrive, MailInv, AtSource, Sources, listing
<1>5. JobsConfigured'
  BY MailAssumption DEF Arrive, MailInv, JobsConfigured, Listed, Sources, disk, listing, work
<1>6. ListedHere'
  BY MailAssumption DEF Arrive, MailInv, ListedHere, Listed, Sources, vars, disk, listing, work, bounds
<1>7. JobsWritten'
  BY MailAssumption DEF Arrive, MailInv, JobsWritten, Exists, disk, work
<1>8. Accounted'
  BY AccountedStays DEF Arrive, MailInv, Exists, disk, listing, work
<1>9. Committable'
  BY MailAssumption DEF Arrive, MailInv, Committable, Exists, Sources, disk, listing
<1>10. NonePassedOver'
  BY MailAssumption DEF Arrive, MailInv, NonePassedOver, Covered, Exists, disk
<1>11. QED
  BY <1>1, <1>2, <1>3, <1>4, <1>5, <1>6, <1>7, <1>8, <1>9, <1>10 DEF MailInv

LEMMA BeginFailsKeeps ==
    ASSUME MailInv, NEW r \in Runs, BeginFails(r)
    PROVE  MailInv'
<1>1. MailTypes'
  BY DEF BeginFails, MailInv, MailTypes, disk, listing, work
<1>2. Known'
  BY DEF BeginFails, MailInv, Known, disk, listing
<1>3. PlainRuns'
  BY DEF BeginFails, MailInv, PlainRuns, HasDelta, Sources, listing
<1>4. AtSource'
  BY DEF BeginFails, MailInv, AtSource, Sources, listing
<1>5. JobsConfigured'
  BY DEF BeginFails, MailInv, JobsConfigured, Listed, Sources, listing, work
<1>6. ListedHere'
  BY DEF BeginFails, MailInv, ListedHere, Listed, Sources, listing, work
<1>7. JobsWritten'
  BY DEF BeginFails, MailInv, JobsWritten, Exists, disk, work
<1>8. Accounted'
  BY AccountedStays DEF BeginFails, MailInv, Exists, disk, listing, work
<1>9. Committable'
  BY DEF BeginFails, MailInv, Committable, Exists, Sources, disk, listing
<1>10. NonePassedOver'
  BY DEF BeginFails, MailInv, NonePassedOver, Covered, Exists, disk
<1>11. QED
  BY <1>1, <1>2, <1>3, <1>4, <1>5, <1>6, <1>7, <1>8, <1>9, <1>10 DEF MailInv

LEMMA ListFailsKeeps ==
    ASSUME MailInv, NEW r \in Runs, ListFails(r)
    PROVE  MailInv'
<1>1. MailTypes'
  BY DEF ListFails, NoJobs, MailInv, MailTypes, disk, listing
<1>2. Known'
  BY DEF ListFails, MailInv, Known, disk, listing
<1>3. PlainRuns'
  BY DEF ListFails, MailInv, PlainRuns, HasDelta, Sources, listing
<1>4. AtSource'
  BY DEF ListFails, MailInv, AtSource, Sources, listing
<1>5. JobsConfigured'
  BY DEF ListFails, NoJobs, MailInv, JobsConfigured, Listed, Sources, listing
<1>6. ListedHere'
  BY DEF ListFails, NoJobs, MailInv, ListedHere, Listed, Sources, listing
<1>7. JobsWritten'
  BY DEF ListFails, NoJobs, MailInv, JobsWritten, Exists, disk
<1>8. Accounted'
  BY AccountedStays DEF ListFails, MailInv, MailTypes, Exists, disk, listing
<1>9. Committable'
  BY DEF ListFails, MailInv, Committable, Exists, Sources, disk, listing
<1>10. NonePassedOver'
  BY DEF ListFails, MailInv, NonePassedOver, Covered, Exists, disk
<1>11. QED
  BY <1>1, <1>2, <1>3, <1>4, <1>5, <1>6, <1>7, <1>8, <1>9, <1>10 DEF MailInv

LEMMA JoinKeeps ==
    ASSUME MailInv, NEW r \in Runs, Join(r)
    PROVE  MailInv'
<1>1. MailTypes'
  BY DEF Join, MailInv, MailTypes, disk, listing, work
<1>2. Known'
  BY DEF Join, MailInv, Known, disk, listing
<1>3. PlainRuns'
  BY DEF Join, MailInv, PlainRuns, HasDelta, Sources, listing
<1>4. AtSource'
  BY DEF Join, MailInv, AtSource, Sources, listing
<1>5. JobsConfigured'
  BY JobsConfiguredStay DEF Join, MailInv, listing, work
<1>6. ListedHere'
  BY DEF Join, MailInv, ListedHere, Listed, Sources, listing, work
<1>7. JobsWritten'
  BY DEF Join, MailInv, JobsWritten, Exists, disk, work
<1>8. Accounted'
  BY AccountedStays DEF Join, MailInv, Exists, disk, listing, work
<1>9. Committable'
  <2> SUFFICES ASSUME pc'[r] = "commit"
               PROVE  /\ \A s \in owed'[r] : \E i \in DOMAIN Sources : Sources[i] = s
                      /\ \A m \in Msgs : SourceOf(m[1]) \in owed'[r] /\ m[2] <= pending[r][m[1]]
                             => Exists(m, Body)
    BY DEF Join, MailInv, Committable, Exists, Sources, disk, listing
  <2>1. \A s \in owed'[r] : s \in Delta /\ ~Failed(r)
                               /\ \E m \in Msgs : SourceOf(m[1]) = s /\ job[r][m] = "done"
    <3>1. owed \in [Runs -> SUBSET Delta]
      BY DEF MailInv, MailTypes
    <3>2. QED
      BY <3>1 DEF Join
  <2>2. \A s \in owed'[r] : \E i \in DOMAIN Sources : Sources[i] = s
    BY <2>1 DEF MailInv, JobsConfigured
  <2>3. ASSUME NEW m \in Msgs, SourceOf(m[1]) \in owed'[r], m[2] <= pending[r][m[1]]
        PROVE  Exists(m, Body)
    <3>1. Due(r, m)
      <4>1. Asked(r, SourceOf(m[1]))
        BY <2>2, <2>3 DEF Asked, Join
      <4>2. QED
        BY <2>1, <2>3, <4>1 DEF MailInv, Accounted, Join
    <3>2. ~Listed(r, m)
      BY DEF MailInv, ListedHere, Listed, Join
    <3>3. job[r][m] \in {"none", "done"}
      BY <2>1, <2>3 DEF Join, Failed
    <3>4. QED
      BY <2>1, <2>3, <3>1, <3>2, <3>3 DEF Due, MailInv, JobsWritten
  <2>4. QED
    BY <2>2, <2>3
<1>10. NonePassedOver'
  BY DEF Join, MailInv, NonePassedOver, Covered, Exists, disk
<1>11. QED
  BY <1>1, <1>2, <1>3, <1>4, <1>5, <1>6, <1>7, <1>8, <1>9, <1>10 DEF MailInv

LEMMA CommitBeginKeeps ==
    ASSUME MailInv, NEW r \in Runs, CommitBegin(r)
    PROVE  MailInv'
<1>1. MailTypes'
  BY DEF CommitBegin, MailInv, MailTypes, listing, work
<1>2. Known'
  BY DEF CommitBegin, MailInv, Known, listing
<1>3. PlainRuns'
  BY DEF CommitBegin, MailInv, PlainRuns, HasDelta, Sources, listing
<1>4. AtSource'
  BY DEF CommitBegin, MailInv, AtSource, Sources, listing
<1>5. JobsConfigured'
  BY DEF CommitBegin, MailInv, JobsConfigured, Listed, Sources, listing, work
<1>6. ListedHere'
  BY DEF CommitBegin, MailInv, ListedHere, Listed, Sources, listing, work
<1>7. JobsWritten'
  BY DEF CommitBegin, MailInv, JobsWritten, Exists, work
<1>8. Accounted'
  BY AccountedStays DEF CommitBegin, MailInv, Exists, listing, work
<1>9. Committable'
  BY DEF CommitBegin, MailInv, Committable, Exists, Sources, listing
<1>10. NonePassedOver'
  BY DEF CommitBegin, MailInv, NonePassedOver, Covered, Exists
<1>11. QED
  BY <1>1, <1>2, <1>3, <1>4, <1>5, <1>6, <1>7, <1>8, <1>9, <1>10 DEF MailInv

LEMMA CommitEndKeeps ==
    ASSUME MailInv, NEW r \in Runs, CommitEnd(r)
    PROVE  MailInv'
<1>1. MailTypes'
  <2>1. link' \in [AllFolders -> Nat]
    <3>1. CASE UNCHANGED link
      BY <3>1 DEF MailInv, MailTypes
    <3>2. CASE link' = [f \in AllFolders |-> IF f \in FoldersOf(NextOwed(r)) THEN pending[r][f] ELSE link[f]]
      <4>1. \A f \in AllFolders : pending[r][f] \in Nat /\ link[f] \in Nat
        BY DEF MailInv, MailTypes
      <4>2. QED
        BY <3>2, <4>1
    <3>3. QED
      BY <3>1, <3>2 DEF CommitEnd
  <2>2. owed' \in [Runs -> SUBSET Delta]
    BY DEF CommitEnd, MailInv, MailTypes
  <2>3. QED
    BY <2>1, <2>2 DEF CommitEnd, MailInv, MailTypes, listing, work
<1>2. Known'
  BY DEF CommitEnd, MailInv, Known, listing
<1>3. PlainRuns'
  BY DEF CommitEnd, MailInv, PlainRuns, HasDelta, Sources, listing
<1>4. AtSource'
  BY DEF CommitEnd, MailInv, AtSource, Sources, listing
<1>5. JobsConfigured'
  BY DEF CommitEnd, MailInv, JobsConfigured, Listed, Sources, listing, work
<1>6. ListedHere'
  BY DEF CommitEnd, MailInv, ListedHere, Listed, Sources, listing, work
<1>7. JobsWritten'
  BY DEF CommitEnd, MailInv, JobsWritten, Exists, work
<1>8. Accounted'
  BY AccountedStays DEF CommitEnd, MailInv, Exists, listing, work
<1>9. Committable'
  BY DEF CommitEnd, MailInv, Committable, Exists, Sources, MailTypes, listing
<1>10. NonePassedOver'
  <2> SUFFICES ASSUME NEW m \in Msgs, (link[m[1]] >= m[2])'
               PROVE  Exists(m, Body)
    BY DEF NonePassedOver, Covered, Exists, CommitEnd
  <2>1. NextOwed(r) \in owed[r] /\ NextOwed(r) \in SourceSet
    BY NextIsOwed DEF MailInv, Committable, CommitEnd, MailTypes, Delta
  <2>2. CASE m[1] \in FoldersOf(NextOwed(r)) /\ link'[m[1]] = pending[r][m[1]]
    BY <2>1, <2>2, FoldersApart, MsgFacts DEF MailInv, Committable, CommitEnd
  <2>3. CASE link'[m[1]] = link[m[1]]
    BY <2>3 DEF MailInv, NonePassedOver, Covered
  <2>4. QED
    BY <2>2, <2>3, MsgFacts DEF CommitEnd, MailInv
<1>11. QED
  BY <1>1, <1>2, <1>3, <1>4, <1>5, <1>6, <1>7, <1>8, <1>9, <1>10 DEF MailInv

LEMMA EndKeeps ==
    ASSUME MailInv, NEW r \in Runs, End(r)
    PROVE  MailInv'
<1>1. MailTypes'
  BY DEF End, NoJobs, MailInv, MailTypes, disk, listing
<1>2. Known'
  BY DEF End, MailInv, Known, disk, listing
<1>3. PlainRuns'
  BY DEF End, MailInv, PlainRuns, HasDelta, Sources, listing
<1>4. AtSource'
  BY DEF End, MailInv, AtSource, Sources, listing
<1>5. JobsConfigured'
  BY DEF End, NoJobs, MailInv, JobsConfigured, Listed, Sources, listing
<1>6. ListedHere'
  BY DEF End, NoJobs, MailInv, ListedHere, Listed, Sources, MailTypes, listing
<1>7. JobsWritten'
  BY DEF End, NoJobs, MailInv, JobsWritten, Exists, disk
<1>8. Accounted'
  BY AccountedStays DEF End, MailInv, Exists, disk, listing
<1>9. Committable'
  BY DEF End, MailInv, Committable, Exists, Sources, disk, listing
<1>10. NonePassedOver'
  BY DEF End, MailInv, NonePassedOver, Covered, Exists, disk
<1>11. QED
  BY <1>1, <1>2, <1>3, <1>4, <1>5, <1>6, <1>7, <1>8, <1>9, <1>10 DEF MailInv

LEMMA CancelKeeps ==
    ASSUME MailInv, NEW r \in Runs, Cancel(r)
    PROVE  MailInv'
<1>1. MailTypes'
  BY DEF Cancel, MailInv, MailTypes, disk, listing
<1>2. Known'
  BY DEF Cancel, MailInv, Known, disk, listing
<1>3. PlainRuns'
  BY DEF Cancel, MailInv, PlainRuns, HasDelta, Sources, listing
<1>4. AtSource'
  BY DEF Cancel, MailInv, AtSource, Sources, listing
<1>5. JobsConfigured'
  BY JobsConfiguredStay DEF Cancel, MailInv, listing
<1>6. ListedHere'
  BY DEF Cancel, MailInv, ListedHere, Listed, Sources, listing
<1>7. JobsWritten'
  BY DEF Cancel, MailInv, JobsWritten, Exists, disk
<1>8. Accounted'
  BY AccountedStays DEF Cancel, MailInv, MailTypes, Exists, disk, listing
<1>9. Committable'
  BY DEF Cancel, MailInv, Committable, Exists, Sources, disk, listing
<1>10. NonePassedOver'
  BY DEF Cancel, MailInv, NonePassedOver, Covered, Exists, disk
<1>11. QED
  BY <1>1, <1>2, <1>3, <1>4, <1>5, <1>6, <1>7, <1>8, <1>9, <1>10 DEF MailInv

LEMMA DrainedKeeps ==
    ASSUME MailInv, NEW r \in Runs, Drained(r)
    PROVE  MailInv'
<1>1. MailTypes'
  BY DEF Drained, NoJobs, MailInv, MailTypes, disk, listing
<1>2. Known'
  BY DEF Drained, MailInv, Known, disk, listing
<1>3. PlainRuns'
  BY DEF Drained, MailInv, PlainRuns, HasDelta, Sources, listing
<1>4. AtSource'
  BY DEF Drained, MailInv, AtSource, Sources, listing
<1>5. JobsConfigured'
  BY DEF Drained, NoJobs, MailInv, JobsConfigured, Listed, Sources, listing
<1>6. ListedHere'
  BY DEF Drained, NoJobs, MailInv, ListedHere, Listed, Sources, MailTypes, listing
<1>7. JobsWritten'
  BY DEF Drained, NoJobs, MailInv, JobsWritten, Exists, disk
<1>8. Accounted'
  BY AccountedStays DEF Drained, MailInv, Exists, disk, listing
<1>9. Committable'
  BY DEF Drained, MailInv, Committable, Exists, Sources, disk, listing
<1>10. NonePassedOver'
  BY DEF Drained, MailInv, NonePassedOver, Covered, Exists, disk
<1>11. QED
  BY <1>1, <1>2, <1>3, <1>4, <1>5, <1>6, <1>7, <1>8, <1>9, <1>10 DEF MailInv

LEMMA CrashKeeps ==
    ASSUME MailInv, NEW r \in Runs, Crash(r)
    PROVE  MailInv'
<1>1. MailTypes'
  BY DEF Crash, NoJobs, MailInv, MailTypes, disk, listing
<1>2. Known'
  BY DEF Crash, MailInv, Known, disk, listing
<1>3. PlainRuns'
  BY DEF Crash, MailInv, PlainRuns, HasDelta, Sources, listing
<1>4. AtSource'
  BY DEF Crash, MailInv, AtSource, Sources, listing
<1>5. JobsConfigured'
  BY DEF Crash, NoJobs, MailInv, JobsConfigured, Listed, Sources, listing
<1>6. ListedHere'
  BY DEF Crash, NoJobs, MailInv, ListedHere, Listed, Sources, MailTypes, listing
<1>7. JobsWritten'
  BY DEF Crash, NoJobs, MailInv, JobsWritten, Exists, disk
<1>8. Accounted'
  BY AccountedStays DEF Crash, MailInv, MailTypes, Exists, disk, listing
<1>9. Committable'
  BY DEF Crash, MailInv, Committable, Exists, Sources, MailTypes, disk, listing
<1>10. NonePassedOver'
  BY DEF Crash, MailInv, NonePassedOver, Covered, Exists, disk
<1>11. QED
  BY <1>1, <1>2, <1>3, <1>4, <1>5, <1>6, <1>7, <1>8, <1>9, <1>10 DEF MailInv

(* What the steps of a worker have in common. *)
LEMMA JobKeeps ==
    ASSUME MailInv, NEW r \in Runs, NEW m \in Msgs, NEW j \in {"done", "failed"} \cup Running,
           job[r][m] # "none", pc[r] \notin {"idle", "list"},
           job' = [job EXCEPT ![r][m] = j],
           file' \in [Msgs -> [Parts -> {"none", "torn", "ok"}]],
           \A n \in Msgs : Exists(n, Body) => Exists(n, Body)',
           SourceOf(m[1]) \in Delta /\ j \in {"write", "atts", "attWrite", "note", "done"}
               => Exists(m, Body)',
           UNCHANGED <<mail, link, pc, listing, owed>>
    PROVE  MailInv'
<1>1. MailTypes'
  BY DEF MailInv, MailTypes, listing
<1>2. Known'
  BY DEF MailInv, Known, listing
<1>3. PlainRuns'
  BY DEF MailInv, PlainRuns, HasDelta, Sources, listing
<1>4. AtSource'
  BY DEF MailInv, AtSource, Sources, listing
<1>5. JobsConfigured'
  BY DEF MailInv, JobsConfigured, Listed, Sources, listing
<1>6. ListedHere'
  BY DEF MailInv, ListedHere, Listed, Sources, listing
<1>7. JobsWritten'
  BY DEF MailInv, JobsWritten
<1>8. Accounted'
  BY AccountedStays DEF Running, MailInv, listing
<1>9. Committable'
  BY DEF MailInv, Committable, Sources, listing
<1>10. NonePassedOver'
  BY DEF MailInv, NonePassedOver, Covered
<1>11. QED
  BY <1>1, <1>2, <1>3, <1>4, <1>5, <1>6, <1>7, <1>8, <1>9, <1>10 DEF MailInv

(* The steps of a worker. *)

LEMMA PickKeeps ==
    ASSUME MailInv, NEW r \in Runs, NEW m \in Msgs, Pick(r, m)
    PROVE  MailInv'
<1> DEFINE there == Exists(m, Body) /\ ~mode[r].force
           raw == mode[r].raw /\ SourceOf(m[1]) \notin RawMailers
           j == IF mode[r].dry \/ raw \/ there THEN "done" ELSE "get"
<1>1. job' = [job EXCEPT ![r][m] = j] /\ j \in {"done", "failed"} \cup Running
  BY DEF Pick, SetJob, Running
<1>2. job[r][m] # "none" /\ pc[r] \notin {"idle", "list"}
  BY DEF Pick
<1>3. file' \in [Msgs -> [Parts -> {"none", "torn", "ok"}]]
  BY DEF Pick, MailInv, MailTypes, disk
<1>4. \A n \in Msgs : Exists(n, Body) => Exists(n, Body)'
  BY DEF Pick, Exists, disk
<1>5. SourceOf(m[1]) \in Delta /\ j \in {"write", "atts", "attWrite", "note", "done"} => Exists(m, Body)'
  <2>1. SourceOf(m[1]) \in Delta => HasDelta
    BY <1>2 DEF MailInv, JobsConfigured, HasDelta
  <2>2. mode[r].dry = FALSE /\ (HasDelta => mode[r].raw = FALSE)
    BY <1>2 DEF MailInv, PlainRuns
  <2>3. QED
    BY <2>1, <2>2 DEF Pick, Exists, disk
<1>6. UNCHANGED <<mail, link, pc, listing, owed>>
  BY DEF Pick, disk
<1>7. QED
  BY <1>1, <1>2, <1>3, <1>4, <1>5, <1>6, JobKeeps

LEMMA PutFile ==
    ASSUME MailTypes, NEW m \in Msgs, NEW p, NEW v \in {"torn", "ok"}, Put(m, p, v)
    PROVE  /\ file' \in [Msgs -> [Parts -> {"none", "torn", "ok"}]]
           /\ \A n \in Msgs : Exists(n, Body) => Exists(n, Body)'
           /\ p = Body => Exists(m, Body)'
<1>1. file' \in [Msgs -> [Parts -> {"none", "torn", "ok"}]]
  BY DEF MailTypes, Put
<1>2. Body \in Parts
  BY DEF Parts
<1>3. QED
  BY <1>1, <1>2 DEF Put, Exists

(* A step of a worker beyond its first: it puts a file, which is never taken *)
(* back, or gives up.                                                        *)
LEMMA WorkKeeps ==
    ASSUME MailInv, NEW r \in Runs, NEW m \in Msgs, NEW j \in {"done", "failed"} \cup Running,
           job[r][m] \in Running, job' = [job EXCEPT ![r][m] = j],
           file' = file \/ \E p, v : v \in {"torn", "ok"} /\ Put(m, p, v),
           job[r][m] # "get" \/ j = "failed" \/ Exists(m, Body)',
           UNCHANGED <<mail, link, pc, listing, owed>>
    PROVE  MailInv'
<1>1. job[r][m] # "none" /\ pc[r] \notin {"idle", "list"}
  BY DEF MailInv, ListedHere, Running
<1>2. file' \in [Msgs -> [Parts -> {"none", "torn", "ok"}]] /\ \A n \in Msgs : Exists(n, Body) => Exists(n, Body)'
  <2>1. CASE file' = file
    BY <2>1 DEF MailInv, MailTypes, Exists
  <2>2. CASE \E p, v : v \in {"torn", "ok"} /\ Put(m, p, v)
    BY <2>2, PutFile DEF MailInv
  <2>3. QED
    BY <2>1, <2>2
<1>3. SourceOf(m[1]) \in Delta /\ j \in {"write", "atts", "attWrite", "note", "done"} => Exists(m, Body)'
  BY <1>2 DEF MailInv, JobsWritten, Running
<1>4. QED
  BY <1>1, <1>2, <1>3, JobKeeps

LEMMA GetKeeps ==
    ASSUME MailInv, NEW r \in Runs, NEW m \in Msgs, Get(r, m)
    PROVE  MailInv'
<1>1. CASE Put(m, Body, "torn") /\ SetJob(r, m, "write")
  <2>1. Exists(m, Body)'
    BY <1>1, PutFile DEF MailInv
  <2>2. QED
    BY <1>1, <2>1, WorkKeeps DEF Get, SetJob, Running
<1>2. CASE Fails(r, m) /\ UNCHANGED file
  BY <1>2, WorkKeeps DEF Get, Fails, SetJob, Running
<1>3. QED
  BY <1>1, <1>2 DEF Get

LEMMA WriteBodyKeeps ==
    ASSUME MailInv, NEW r \in Runs, NEW m \in Msgs, WriteBody(r, m)
    PROVE  MailInv'
<1>1. CASE Put(m, Body, "ok") /\ SetJob(r, m, IF mode[r].raw THEN "done" ELSE "atts")
  BY <1>1, WorkKeeps DEF WriteBody, SetJob, Running
<1>2. CASE WriteFails(r, m) /\ UNCHANGED file
  BY <1>2, WorkKeeps DEF WriteBody, WriteFails, SetJob, Running
<1>3. QED
  BY <1>1, <1>2 DEF WriteBody

LEMMA DownloadKeeps ==
    ASSUME MailInv, NEW r \in Runs, NEW m \in Msgs, NEW a \in Atts, Download(r, m, a)
    PROVE  MailInv'
<1>1. CASE UNCHANGED <<file, job>>
  <2>1. job' = [job EXCEPT ![r][m] = "atts"]
    BY <1>1 DEF Download, MailInv, MailTypes
  <2>2. job[r][m] = "atts" /\ file' = file /\ UNCHANGED <<mail, link, pc, listing, owed>>
    BY <1>1 DEF Download
  <2>3. "atts" \in {"done", "failed"} \cup Running /\ job[r][m] \in Running
    BY <2>2 DEF Running
  <2>4. QED
    BY <2>1, <2>2, <2>3, WorkKeeps
<1>2. CASE Put(m, a, "torn") /\ SetJob(r, m, "attWrite")
  BY <1>2, WorkKeeps DEF Download, SetJob, Running
<1>3. CASE Fails(r, m) /\ UNCHANGED file
  BY <1>3, WorkKeeps DEF Download, Fails, SetJob, Running
<1>4. QED
  BY <1>1, <1>2, <1>3 DEF Download

LEMMA WriteAttKeeps ==
    ASSUME MailInv, NEW r \in Runs, NEW m \in Msgs, WriteAtt(r, m)
    PROVE  MailInv'
<1>1. CASE Put(m, att[r][m], "ok") /\ SetJob(r, m, IF \E n \in Notes : NoteOf[n] = att[r][m] THEN "note" ELSE "atts")
  BY <1>1, WorkKeeps DEF WriteAtt, SetJob, Running
<1>2. CASE WriteFails(r, m) /\ UNCHANGED file
  BY <1>2, WorkKeeps DEF WriteAtt, WriteFails, SetJob, Running
<1>3. QED
  BY <1>1, <1>2 DEF WriteAtt

LEMMA WriteNoteKeeps ==
    ASSUME MailInv, NEW r \in Runs, NEW m \in Msgs, NEW n \in Notes, WriteNote(r, m, n)
    PROVE  MailInv'
<1>1. CASE Put(m, n, "ok") /\ SetJob(r, m, "atts")
  BY <1>1, WorkKeeps DEF WriteNote, SetJob, Running
<1>2. CASE Put(m, n, "torn") /\ WriteFails(r, m)
  BY <1>2, WorkKeeps DEF WriteNote, WriteFails, SetJob, Running
<1>3. QED
  BY <1>1, <1>2 DEF WriteNote

LEMMA MessageDoneKeeps ==
    ASSUME MailInv, NEW r \in Runs, NEW m \in Msgs, MessageDone(r, m)
    PROVE  MailInv'
  BY WorkKeeps DEF MessageDone, SetJob, Running, disk

-----------------------------------------------------------------------------
(* The beginning of a run and its listing. *)

LEMMA MailInit == ASSUME Init PROVE MailInv
<1>1. conf.modes # {} /\ conf.modes \subseteq Flags
  BY MailAssumption DEF Init
<1>2. MailTypes
  <2>1. mode \in [Runs -> Flags]
    BY <1>1 DEF Init
  <2>2. QED
    BY <2>1, MailAssumption DEF Init, MailTypes, NoJobs
<1>3. Known /\ PlainRuns /\ AtSource /\ JobsConfigured /\ ListedHere /\ JobsWritten
  BY MsgFacts DEF Init, Known, PlainRuns, AtSource, JobsConfigured, Listed, ListedHere, JobsWritten, NoJobs
<1>4. Accounted /\ Committable
  BY DEF Init, Accounted, Committable
<1>5. NonePassedOver
  BY MsgFacts DEF Init, NonePassedOver, Covered
<1>6. QED
  BY <1>2, <1>3, <1>4, <1>5 DEF MailInv

LEMMA InEffectFlags ==
    ASSUME NEW md \in Flags
    PROVE  /\ InEffect(md) \in Flags /\ InEffect(md).limit = md.limit /\ InEffect(md).offset = md.offset
           /\ InEffect(md).dry = md.dry /\ InEffect(md).raw = (md.raw \/ Configured("imap"))
  BY DEF InEffect, Flags, Configured

LEMMA BeginKeeps ==
    ASSUME WholeRuns, MailInv, NEW r \in Runs, NEW md \in conf.modes, Begin(r, md)
    PROVE  MailInv'
<1>1. md \in Flags /\ conf \in Confs
  BY MailAssumption DEF MailInv, MailTypes
<1>2. ~md.dry /\ md.limit = 0 /\ md.offset = 0 /\ (HasDelta => ~md.raw /\ ~Configured("imap"))
  BY <1>1 DEF WholeRuns, HasDelta, Sources, Configured
<1>3. mode' = [mode EXCEPT ![r] = InEffect(md)]
  BY DEF Begin
<1>4. /\ InEffect(md) \in Flags /\ InEffect(md).limit = 0 /\ InEffect(md).offset = 0
      /\ InEffect(md).dry = FALSE /\ (HasDelta => InEffect(md).raw = FALSE)
  BY <1>1, <1>2, InEffectFlags DEF Flags
<1>5. MailTypes'
  <2>1. mode' \in [Runs -> Flags]
    BY <1>3, <1>4 DEF MailInv, MailTypes
  <2>2. QED
    BY <2>1 DEF Begin, NoJobs, MailInv, MailTypes, disk
<1>6. Known'
  BY DEF Begin, MailInv, Known, disk
<1>7. PlainRuns'
  <2> SUFFICES ASSUME NEW q \in Runs, pc'[q] # "idle"
               PROVE  (/\ mode[q].limit = 0 /\ mode[q].offset = 0 /\ mode[q].dry = FALSE
                       /\ HasDelta => mode[q].raw = FALSE)'
    BY DEF PlainRuns
  <2>1. HasDelta' = HasDelta
    BY DEF Begin, HasDelta, Sources
  <2>2. CASE q = r
    BY <1>3, <1>4, <2>1, <2>2 DEF MailInv, MailTypes
  <2>3. CASE q # r
    BY <1>3, <2>1, <2>3 DEF Begin, MailInv, PlainRuns
  <2>4. QED
    BY <2>2, <2>3
<1>8. AtSource'
  BY SourceList, FolderList DEF Begin, MailInv, AtSource, Sources, MailTypes
<1>9. JobsConfigured'
  <2> SUFFICES ASSUME NEW q \in Runs, NEW n \in Msgs, (job[q][n] # "none" \/ Listed(q, n))'
               PROVE  \E i \in DOMAIN Sources : Sources[i] = SourceOf(n[1])
    BY DEF JobsConfigured, Sources, Begin
  <2>1. q # r
    BY DEF Begin, NoJobs, Listed, MailInv, MailTypes
  <2>2. QED
    BY <2>1 DEF Begin, MailInv, JobsConfigured, Listed
<1>10. ListedHere'
  BY DEF Begin, NoJobs, MailInv, ListedHere, Listed, Sources, MailTypes
<1>11. JobsWritten'
  BY DEF Begin, NoJobs, MailInv, JobsWritten, Exists, disk
<1>12. Accounted'
  <2> SUFFICES ASSUME NEW q \in Runs, (pc[q] \in {"list", "work"})', NEW n \in Msgs,
                      SourceOf(n[1]) \in Delta, Asked(q, SourceOf(n[1]))', (n[2] <= pending[q][n[1]])'
               PROVE  Due(q, n)'
    BY DEF Accounted
  <2>1. q # r
    BY SourceList DEF Begin, Asked, MailInv, MailTypes, Sources
  <2>2. Asked(q, SourceOf(n[1])) /\ pc[q] \in {"list", "work"} /\ n[2] <= pending[q][n[1]]
    BY <2>1 DEF Begin, Asked, Sources, MailInv
  <2>3. Due(q, n)
    BY <2>2 DEF MailInv, Accounted
  <2>4. QED
    BY <2>1, <2>3 DEF Begin, Due, Listed, Exists, MailInv, disk
<1>13. Committable'
  BY DEF Begin, MailInv, Committable, Exists, Sources, disk
<1>14. NonePassedOver'
  BY DEF Begin, MailInv, NonePassedOver, Covered, Exists, disk
<1>15. QED
  BY <1>5, <1>6, <1>7, <1>8, <1>9, <1>10, <1>11, <1>12, <1>13, <1>14 DEF MailInv

(* Without limit and offset a source is listed as a whole, and what is listed *)
(* of a folder belongs to it.                                                 *)
LEMMA NewestOf ==
    ASSUME MailTypes, NEW f \in AllFolders, NEW n \in 0..mail[f]
    PROVE  Newest(f, n) \in Seq({f} \X (1..MaxMail))
<1>1. mail[f] \in 0..MaxMail /\ MaxMail \in Nat
  BY MailAssumption DEF MailTypes
<1>2. \A i \in 1..n : <<f, mail[f] + 1 - i>> \in {f} \X (1..MaxMail)
  BY <1>1
<1>3. n \in Nat
  BY <1>1
<1>4. QED
  BY <1>2, <1>3, IsASeq DEF Newest

LEMMA IdsOfWhole ==
    ASSUME MailTypes, NEW s \in SourceSet, NEW f \in FoldersOf(s), NEW from \in 0..mail[f],
           NEW md \in Flags, md.limit = 0, md.offset = 0
    PROVE  /\ IdsOf(md, s, f, from) \in Seq({f} \X (1..MaxMail))
           /\ s \in Delta => \A k \in 1..mail[f] : k > from =>
                 \E i \in DOMAIN IdsOf(md, s, f, from) : IdsOf(md, s, f, from)[i] = <<f, k>>
<1>1. f \in AllFolders /\ mail[f] \in 0..MaxMail /\ MaxMail \in Nat /\ Kind[s] \in Kinds
  BY FoldersApart, MailAssumption DEF MailTypes
<1>2. Ask(md) = 0
  BY DEF Ask
<1>3. OOIds(md, f) \in Seq({f} \X (1..MaxMail))
  <2>1. Capped(mail[f], Capped(OOPage, Ask(md))) \in 0..mail[f]
    BY <1>1, <1>2, MailAssumption DEF Capped
  <2>2. QED
    BY <1>1, <2>1, NewestOf DEF OOIds
<1>4. GmailIds(md, f) \in Seq({f} \X (1..MaxMail))
  <2>1. Capped(mail[f], Ask(md)) \in 0..mail[f]
    BY <1>1, <1>2 DEF Capped
  <2>2. QED
    BY <1>1, <2>1, NewestOf DEF GmailIds
<1>5. ImapIds(f) \in Seq({f} \X (1..MaxMail))
  <2>1. \A i \in 1..mail[f] : <<f, i>> \in {f} \X (1..MaxMail)
    BY <1>1
  <2>2. QED
    BY <1>1, <2>1, IsASeq DEF ImapIds
<1>6. DeltaIds(md, s, f, from) = [i \in 1..mail[f] - from |-> <<f, from + i>>]
  BY <1>2 DEF DeltaIds, Taken, Cut
<1>7. DeltaIds(md, s, f, from) \in Seq({f} \X (1..MaxMail))
  <2>1. mail[f] - from \in Nat
    BY <1>1
  <2>2. \A i \in 1..mail[f] - from : <<f, from + i>> \in {f} \X (1..MaxMail)
    BY <1>1
  <2>3. QED
    BY <1>6, <2>1, <2>2, IsASeq
<1>8. \A k \in 1..mail[f] : k > from =>
          \E i \in DOMAIN DeltaIds(md, s, f, from) : DeltaIds(md, s, f, from)[i] = <<f, k>>
  <2> SUFFICES ASSUME NEW k \in 1..mail[f], k > from
               PROVE  \E i \in DOMAIN DeltaIds(md, s, f, from) : DeltaIds(md, s, f, from)[i] = <<f, k>>
    OBVIOUS
  <2>1. k - from \in 1..mail[f] - from /\ from + (k - from) = k
    BY <1>1
  <2>2. QED
    BY <1>6, <2>1
<1>9. QED
  BY <1>1, <1>3, <1>4, <1>5, <1>7, <1>8 DEF IdsOf, Kinds, Delta

LEMMA WindowWhole ==
    ASSUME NEW S, NEW q \in Seq(S), NEW md \in Flags, md.limit = 0, md.offset = 0
    PROVE  Window(md, q) = q
<1>1. Len(q) \in Nat
  BY LenProperties
<1>2. Window(md, q) = SubSeq(q, 1, Len(q))
  BY <1>1 DEF Window
<1>3. QED
  BY <1>2, SubSeqFull

(* What a source's listing starts from is due, the delta file having been read. *)
LEMMA FromDue ==
    ASSUME MailInv, NEW r \in Runs, pc[r] = "list", NEW s \in SourceSet, s = Sources[at[r][1]],
           NEW f \in FoldersOf(s)
    PROVE  /\ From(r, s, f) \in 0..mail[f]
           /\ s \in Delta => \A k \in 1..MaxMail : k <= From(r, s, f) => Due(r, <<f, k>>)
<1>1. f \in AllFolders /\ SourceOf(f) = s /\ mail[f] \in Nat /\ link[f] \in Nat /\ pending[r][f] \in Nat
  BY FoldersApart, MailAssumption DEF MailInv, MailTypes
<1>2. From(r, s, f) \in 0..mail[f]
  BY <1>1 DEF From, MailInv, Known
<1>3. ASSUME s \in Delta, NEW k \in 1..MaxMail, k <= From(r, s, f)
      PROVE  Due(r, <<f, k>>)
  <2>1. <<f, k>> \in Msgs
    BY <1>1 DEF Msgs
  <2>2. CASE at[r][2] > 1
    <3>1. k <= pending[r][f]
      BY <1>3, <2>2 DEF From
    <3>2. Asked(r, s)
      BY <2>2 DEF MailInv, AtSource, Asked
    <3>3. QED
      BY <1>1, <1>3, <2>1, <3>1, <3>2 DEF MailInv, Accounted
  <2>3. CASE ~(at[r][2] > 1)
    <3>1. k <= link[f]
      BY <1>1, <1>3, <2>3 DEF From
    <3>2. QED
      BY <1>1, <2>1, <3>1 DEF MailInv, NonePassedOver, Covered, Due
  <2>4. QED
    BY <2>2, <2>3
<1>4. QED
  BY <1>2, <1>3

LEMMA ListFolderKeeps ==
    ASSUME MailInv, NEW r \in Runs, ListFolder(r)
    PROVE  MailInv'
<1> DEFINE i == at[r][1]
           s == Sources[i]
           f == Folders[s][at[r][2]]
           new == IdsOf(mode[r], s, f, From(r, s, f))
           got == ids[r] \o new
           in(n) == \E k \in DOMAIN got : got[k] = n
<1>1. /\ pc[r] = "list" /\ i \in DOMAIN Sources /\ s \in SourceSet /\ f \in FoldersOf(s)
      /\ f \in AllFolders /\ at[r][2] \in 1..Len(Folders[s]) /\ Len(Folders[s]) \in Nat
      /\ i \in 1..Len(Sources) /\ Len(Sources) \in Nat
  <2>1. pc[r] = "list"
    BY DEF ListFolder
  <2>2. i \in DOMAIN Sources /\ at[r][2] \in DOMAIN Folders[s]
    BY <2>1 DEF MailInv, AtSource
  <2>3. s \in SourceSet /\ i \in 1..Len(Sources) /\ Len(Sources) \in Nat
    BY <2>2, SourceList DEF MailInv
  <2>4. f \in FoldersOf(s) /\ at[r][2] \in 1..Len(Folders[s]) /\ Len(Folders[s]) \in Nat
    BY <2>2, <2>3, FolderList
  <2>5. QED
    BY <2>1, <2>2, <2>3, <2>4, FoldersApart
<1>2. mode[r] \in Flags /\ mode[r].limit = 0 /\ mode[r].offset = 0 /\ Ask(mode[r]) = 0
  BY <1>1 DEF MailInv, MailTypes, PlainRuns, Ask
<1>3. From(r, s, f) \in 0..mail[f]
  BY <1>1, FromDue
<1>4. /\ new \in Seq({f} \X (1..MaxMail))
      /\ s \in Delta => \A k \in 1..mail[f] : k > From(r, s, f) => \E x \in DOMAIN new : new[x] = <<f, k>>
  BY <1>1, <1>2, <1>3, IdsOfWhole DEF MailInv
<1>5. new \in Seq(Msgs) /\ got \in Seq(Msgs) /\ ids[r] \in Seq(Msgs)
  <2>1. {f} \X (1..MaxMail) \subseteq Msgs
    BY <1>1 DEF Msgs
  <2>2. new \in Seq(Msgs) /\ ids[r] \in Seq(Msgs)
    BY <1>4, <2>1, SeqMonotonic DEF MailInv, MailTypes
  <2>3. QED
    BY <2>2, ConcatProperties
<1>6. \A n \in Msgs : in(n) <=> Listed(r, n) \/ \E x \in DOMAIN new : new[x] = n
  <2>1. Range(got) = Range(ids[r]) \cup Range(new)
    <3> HIDE DEF new
    <3>1. QED
      BY <1>5, RangeConcatenation
  <2>2. QED
    BY <2>1 DEF Range, Listed
<1>7. \A n \in Msgs : in(n) => SourceOf(n[1]) = s
  <2>1. \A x \in DOMAIN new : new[x][1] = f
    <3> HIDE DEF new, f
    <3>1. QED
      BY <1>4, LenProperties, ElementOfSeq
  <2>2. SourceOf(f) = s
    BY <1>1, FoldersApart
  <2>3. \A n \in Msgs : Listed(r, n) => SourceOf(n[1]) = s
    BY <1>1 DEF MailInv, ListedHere
  <2>4. QED
    <3> HIDE DEF new, f
    <3>1. QED
      BY <1>6, <2>1, <2>2, <2>3
<1>8. Window(mode[r], got) = got
  BY <1>2, <1>5, WindowWhole
<1> HIDE DEF got
<1>9. /\ pending' \in [Runs -> [AllFolders -> Nat]]
      /\ \A q \in Runs : q # r => pending'[q] = pending[q]
      /\ \A g \in AllFolders : SourceOf(g) # s => pending'[r][g] = pending[r][g]
      /\ \A g \in FoldersOf(s) : pending'[r][g] = IF g = f /\ s \in Delta THEN mail[f] ELSE From(r, s, g)
      /\ \A g \in AllFolders : pending'[r][g] <= mail[g]
  <2> DEFINE new1(g) == IF g = f /\ s \in Delta THEN NextLink(mode[r], s, From(r, s, f), mail[f] - From(r, s, f))
                        ELSE IF g \in FoldersOf(s) THEN From(r, s, g) ELSE pending[r][g]
  <2>1. pending' = [pending EXCEPT ![r] = [g \in AllFolders |-> new1(g)]]
    BY DEF ListFolder, MailInv
  <2>2. NextLink(mode[r], s, From(r, s, f), mail[f] - From(r, s, f)) = mail[f]
    BY <1>1, <1>2, <1>3 DEF NextLink, Cut, MailInv, MailTypes
  <2>3. \A g \in FoldersOf(s) : g \in AllFolders /\ SourceOf(g) = s /\ From(r, s, g) \in 0..mail[g]
    BY <1>1, FromDue, FoldersApart
  <2>4. \A g \in AllFolders : mail[g] \in Nat /\ pending[r][g] \in 0..mail[g]
    BY MailAssumption DEF MailInv, MailTypes, Known
  <2>5. \A g \in AllFolders : new1(g) \in 0..mail[g]
    <3>1. \A g \in AllFolders : mail[g] \in 0..mail[g]
      BY <2>4
    <3>2. QED
      BY <2>2, <2>3, <2>4, <3>1
  <2>6. pending' \in [Runs -> [AllFolders -> Nat]] /\ \A q \in Runs : q # r => pending'[q] = pending[q]
    <3> DEFINE P == [g \in AllFolders |-> new1(g)]
    <3>1. P \in [AllFolders -> Nat]
      <4>1. \A n \in Nat : 0..n \subseteq Nat
        OBVIOUS
      <4>2. \A g \in AllFolders : new1(g) \in Nat
        BY <2>4, <2>5, <4>1
      <4> HIDE DEF new1
      <4>3. QED
        BY <4>2
    <3>2. pending' = [pending EXCEPT ![r] = P]
      BY <2>1
    <3> HIDE DEF P
    <3>3. QED
      BY <3>1, <3>2 DEF MailInv, MailTypes
  <2>7. \A g \in AllFolders : pending'[r][g] = new1(g)
    BY <2>1 DEF MailInv, MailTypes
  <2>8. \A g \in AllFolders : SourceOf(g) # s => g \notin FoldersOf(s)
    BY <2>3
  <2>9. QED
    <3>1. \A g \in AllFolders : SourceOf(g) # s => new1(g) = pending[r][g]
      BY <1>1, <2>8
    <3>2. \A g \in FoldersOf(s) : new1(g) = IF g = f /\ s \in Delta THEN mail[f] ELSE From(r, s, g)
      BY <2>2
    <3> HIDE DEF new1
    <3>3. \A g \in AllFolders : new1(g) <= mail[g]
      <4>1. \A n \in Nat : \A x \in 0..n : x <= n
        OBVIOUS
      <4>2. QED
        BY <2>4, <2>5, <4>1
    <3>4. QED
      BY <2>3, <2>6, <2>7, <3>1, <3>2, <3>3
<1>10. ASSUME NEW n \in Msgs, SourceOf(n[1]) = s, s \in Delta, n[2] <= pending'[r][n[1]]
       PROVE  Due(r, n) \/ in(n)
  <2>1. n = <<n[1], n[2]>> /\ n[1] \in FoldersOf(s) /\ n[2] \in 1..MaxMail /\ n[1] \in AllFolders
    BY <1>10, MsgFacts
  <2>2. CASE n[2] <= From(r, s, n[1])
    BY <1>1, <1>10, <2>1, <2>2, FromDue
  <2>3. CASE n[1] = f /\ ~(n[2] <= From(r, s, f))
    <3>1. n[2] \in 1..mail[f] /\ n[2] > From(r, s, f)
      <4>1. pending'[r][f] = mail[f]
        BY <1>1, <1>9, <1>10
      <4>2. mail[f] \in Nat
        <5>1. mail \in [AllFolders -> Nat]
          BY DEF MailInv, MailTypes
        <5>2. QED
          BY <1>1, <5>1
      <4>3. n[2] \in 1..MaxMail /\ MaxMail \in Nat /\ From(r, s, f) \in 0..mail[f]
        BY <1>3, <2>1, MailAssumption
      <4>4. n[2] <= mail[f] /\ ~(n[2] <= From(r, s, f))
        BY <1>10, <2>3, <4>1
      <4>5. \A a, m, p, b \in Int : a \in 1..m /\ p \in 0..b /\ a <= b /\ ~(a <= p) => a \in 1..b /\ a > p
        OBVIOUS
      <4>6. n[2] \in Int /\ MaxMail \in Int /\ From(r, s, f) \in Int /\ mail[f] \in Int
        BY <4>2, <4>3
      <4>7. QED
        BY <4>3, <4>4, <4>5, <4>6
    <3>2. \E x \in DOMAIN new : new[x] = <<f, n[2]>>
      BY <1>4, <1>10, <3>1
    <3>3. QED
      BY <1>6, <2>1, <2>3, <3>2
  <2>4. QED
    BY <1>9, <1>10, <2>1, <2>2, <2>3
<1>11. /\ pc' \in [Runs -> {"idle", "list", "work", "drain", "commit", "saving"}]
       /\ ids' \in [Runs -> Seq(Msgs)] /\ at' \in [Runs -> (Nat \ {0}) \X (Nat \ {0})]
       /\ job' \in [Runs -> [Msgs -> {"none", "todo", "done", "failed"} \cup Running]]
       /\ \A q \in Runs : q # r => pc'[q] = pc[q] /\ ids'[q] = ids[q] /\ at'[q] = at[q] /\ job'[q] = job[q]
       /\ UNCHANGED <<conf, mail, disk, mode, owed>>
       /\ \A n \in Msgs : in(n) => Listed(r, n)' \/ job'[r][n] = "todo"
       /\ \A n \in Msgs : Listed(r, n)' \/ job'[r][n] # job[r][n] => in(n)
       /\ \A n \in Msgs : job'[r][n] \in {job[r][n], "todo"}
       /\ \/ /\ pc'[r] = "list" /\ at[r][2] < Len(Folders[s]) /\ at'[r] = <<i, at[r][2] + 1>>
          \/ /\ pc'[r] = "list" /\ i < Len(Sources) /\ at'[r] = <<i + 1, 1>> /\ ids'[r] = <<>>
          \/ /\ pc'[r] = "work" /\ i = Len(Sources) /\ at'[r] = at[r] /\ ids'[r] = <<>>
  <2> DEFINE jobs == {got[k] : k \in DOMAIN got}
             lastFolder == at[r][2] = Len(Folders[s])
  <2>1. {Window(mode[r], got)[k] : k \in DOMAIN Window(mode[r], got)} = jobs
    BY <1>8
  <2>2. UNCHANGED <<conf, mail, disk, mode, owed>>
    BY DEF ListFolder
  <2>3. CASE ~lastFolder
    <3>1. /\ ids' = [ids EXCEPT ![r] = got] /\ at' = [at EXCEPT ![r] = <<i, at[r][2] + 1>>]
          /\ UNCHANGED <<pc, job>>
      <4>1. ~(Ask(mode[r]) > 0)
        BY <1>2
      <4>2. QED
        BY <2>3, <4>1 DEF ListFolder, got
    <3>2. ids'[r] = got /\ at'[r] = <<i, at[r][2] + 1>> /\ at[r][2] < Len(Folders[s])
      BY <1>1, <2>3, <3>1 DEF MailInv, MailTypes
    <3>3. ids' \in [Runs -> Seq(Msgs)]
      BY <1>5, <3>1 DEF MailInv, MailTypes
    <3>4. at' \in [Runs -> (Nat \ {0}) \X (Nat \ {0})]
      BY <1>1, <3>1 DEF MailInv, MailTypes
    <3>5. \A q \in Runs : q # r => ids'[q] = ids[q] /\ at'[q] = at[q]
      BY <3>1 DEF MailInv
    <3>6. \A n \in Msgs : Listed(r, n)' <=> in(n)
      BY <3>2 DEF Listed
    <3>7. QED
      BY <1>1, <2>2, <3>1, <3>2, <3>3, <3>4, <3>5, <3>6 DEF MailInv, MailTypes
  <2>4. CASE lastFolder
    <3>1. /\ ids' = [ids EXCEPT ![r] = <<>>]
          /\ job' = [job EXCEPT ![r] = [n \in Msgs |-> IF n \in jobs THEN "todo" ELSE job[r][n]]]
      BY <2>1, <2>4 DEF ListFolder, got, MailInv
    <3>2. ids' \in [Runs -> Seq(Msgs)] /\ ids'[r] = <<>> /\ \A q \in Runs : q # r => ids'[q] = ids[q]
      BY <3>1, EmptySeq DEF MailInv, MailTypes
    <3>3. /\ job' \in [Runs -> [Msgs -> {"none", "todo", "done", "failed"} \cup Running]]
          /\ \A q \in Runs : q # r => job'[q] = job[q]
          /\ \A n \in Msgs : job'[r][n] = IF in(n) THEN "todo" ELSE job[r][n]
      BY <3>1 DEF MailInv, MailTypes
    <3>4. /\ pc' \in [Runs -> {"idle", "list", "work", "drain", "commit", "saving"}]
          /\ at' \in [Runs -> (Nat \ {0}) \X (Nat \ {0})]
          /\ \A q \in Runs : q # r => pc'[q] = pc[q] /\ at'[q] = at[q]
          /\ \/ pc'[r] = "list" /\ i < Len(Sources) /\ at'[r] = <<i + 1, 1>>
             \/ pc'[r] = "work" /\ i = Len(Sources) /\ at'[r] = at[r]
      <4> DEFINE next == <<i + 1, 1>>
      <4>1. next \in (Nat \ {0}) \X (Nat \ {0})
        BY <1>1
      <4>2. /\ pc \in [Runs -> {"idle", "list", "work", "drain", "commit", "saving"}] /\ pc[r] = "list"
            /\ at \in [Runs -> (Nat \ {0}) \X (Nat \ {0})]
        BY <1>1 DEF MailInv, MailTypes
      <4>3. CASE i = Len(Sources) /\ pc' = [pc EXCEPT ![r] = "work"] /\ UNCHANGED at
        BY <4>2, <4>3
      <4>4. CASE i < Len(Sources) /\ at' = [at EXCEPT ![r] = next] /\ UNCHANGED pc
        <5> HIDE DEF next, i, s, f, new
        <5>1. /\ at' \in [Runs -> (Nat \ {0}) \X (Nat \ {0})] /\ at'[r] = next
              /\ \A q \in Runs : q # r => at'[q] = at[q]
          BY <4>1, <4>2, <4>4
        <5>2. QED
          BY <4>2, <4>4, <5>1 DEF next
      <4>5. \/ i = Len(Sources) /\ pc' = [pc EXCEPT ![r] = "work"] /\ UNCHANGED at
            \/ i # Len(Sources) /\ at' = [at EXCEPT ![r] = next] /\ UNCHANGED pc
        BY <2>4, Zenon DEF ListFolder
      <4>6. i \in 1..Len(Sources) /\ Len(Sources) \in Nat /\ (i # Len(Sources) => i < Len(Sources))
        BY <1>1
      <4>7. QED
        <5> HIDE DEF next, i
        <5>1. QED
          BY <4>3, <4>4, <4>5, <4>6 DEF next
    <3>5. \A n \in Msgs : ~Listed(r, n)'
      BY <3>2 DEF Listed
    <3>6. QED
      BY <2>2, <3>2, <3>3, <3>4, <3>5
  <2>5. QED
    BY <2>3, <2>4
<1>12. \A n \in Msgs : Due(r, n) \/ in(n) => Due(r, n)'
  BY <1>6, <1>11 DEF Due, Exists, disk
<1>13. /\ UNCHANGED <<conf, file, link, mode, owed>>
      /\ \A q \in Runs : q # r => /\ pc'[q] = pc[q] /\ ids'[q] = ids[q] /\ at'[q] = at[q]
                                  /\ job'[q] = job[q] /\ pending'[q] = pending[q]
  BY <1>9, <1>11 DEF disk
<1>14. MailTypes'
  BY <1>9, <1>11 DEF MailInv, MailTypes, disk
<1>15. Known'
  BY <1>9, <1>11 DEF MailInv, Known, disk
<1>16. PlainRuns'
  BY <1>1, <1>11 DEF MailInv, PlainRuns, HasDelta, Sources
<1>17. AtSource'
  <2> SUFFICES ASSUME NEW q \in Runs, pc'[q] = "list"
               PROVE  at'[q][1] \in DOMAIN Sources /\ at'[q][2] \in DOMAIN Folders[Sources[at'[q][1]]]
    BY <1>11 DEF AtSource, Sources
  <2>1. CASE q # r
    BY <1>11, <2>1 DEF MailInv, AtSource
  <2>2. CASE q = r /\ at'[r] = <<i, at[r][2] + 1>> /\ at[r][2] < Len(Folders[s])
    BY <1>1, <2>2, FolderList
  <2>3. CASE q = r /\ at'[r] = <<i + 1, 1>> /\ i < Len(Sources)
    BY <1>1, <2>3, SourceList, FolderList DEF MailInv
  <2>4. QED
    BY <1>11, <2>1, <2>2, <2>3
<1>18. JobsConfigured'
  <2> SUFFICES ASSUME NEW q \in Runs, NEW n \in Msgs, (job[q][n] # "none" \/ Listed(q, n))'
               PROVE  \E k \in DOMAIN Sources : Sources[k] = SourceOf(n[1])
    BY <1>11 DEF JobsConfigured, Sources
  <2>1. CASE q # r
    BY <1>13, <2>1 DEF MailInv, JobsConfigured, Listed
  <2>2. CASE q = r
    <3>1. job[r][n] # "none" \/ Listed(r, n) \/ in(n)
      BY <1>11, <2>2
    <3>2. CASE job[r][n] # "none" \/ Listed(r, n)
      BY <3>2 DEF MailInv, JobsConfigured
    <3>3. CASE in(n)
      BY <1>1, <1>7, <3>3
    <3>4. QED
      BY <3>1, <3>2, <3>3
  <2>3. QED
    BY <2>1, <2>2
<1>19. ListedHere'
  <2> SUFFICES ASSUME NEW q \in Runs
               PROVE  (/\ pc[q] = "work" => ids[q] = <<>>
                       /\ pc[q] = "list" => \A n \in Msgs : Listed(q, n) => SourceOf(n[1]) = Sources[at[q][1]]
                       /\ pc[q] \in {"idle", "list"} => \A n \in Msgs : job[q][n] \in {"none", "todo"})'
    BY DEF ListedHere
  <2>1. CASE q # r
    BY <1>13, <2>1 DEF MailInv, ListedHere, Listed, Sources
  <2>2. CASE q = r
    <3>1. \A n \in Msgs : job'[r][n] \in {"none", "todo"}
      BY <1>1, <1>11 DEF MailInv, ListedHere
    <3>2. pc'[r] = "work" => ids'[r] = <<>>
      BY <1>11
    <3>3. pc'[r] = "list" => \A n \in Msgs : Listed(r, n)' => SourceOf(n[1]) = Sources'[at'[r][1]]
      <4>1. CASE ids'[r] = <<>>
        BY <4>1 DEF Listed
      <4>2. CASE at'[r] = <<i, at[r][2] + 1>>
        BY <1>7, <1>11, <4>2 DEF Sources
      <4>3. QED
        BY <1>11, <4>1, <4>2
    <3>4. QED
      BY <2>2, <3>1, <3>2, <3>3
  <2>3. QED
    BY <2>1, <2>2
<1>20. JobsWritten'
  <2> SUFFICES ASSUME NEW q \in Runs, NEW n \in Msgs, SourceOf(n[1]) \in Delta,
                      job'[q][n] \in {"write", "atts", "attWrite", "note", "done"}
               PROVE  Exists(n, Body)
    BY <1>13 DEF JobsWritten, Exists
  <2>1. job'[q][n] = job[q][n]
    BY <1>11
  <2>2. QED
    BY <2>1 DEF MailInv, JobsWritten
<1>21. Accounted'
  <2> SUFFICES ASSUME NEW q \in Runs, (pc[q] \in {"list", "work"})', NEW n \in Msgs,
                      SourceOf(n[1]) \in Delta, Asked(q, SourceOf(n[1]))', (n[2] <= pending[q][n[1]])'
               PROVE  Due(q, n)'
    BY DEF Accounted
  <2>1. CASE q # r
    <3>1. Asked(q, SourceOf(n[1])) /\ n[2] <= pending[q][n[1]] /\ pc[q] \in {"list", "work"}
      BY <1>9, <1>11, <2>1 DEF Asked, Sources
    <3>2. Due(q, n)
      BY <3>1 DEF MailInv, Accounted
    <3>3. QED
      BY <1>11, <2>1, <3>2 DEF Due, Listed, Exists, disk
  <2>2. CASE q = r /\ SourceOf(n[1]) = s
    BY <1>10, <1>12, <2>2
  <2>3. CASE q = r /\ SourceOf(n[1]) # s
    <3>1. PICK j \in DOMAIN Sources : Sources[j] = SourceOf(n[1])
                 /\ (pc'[r] = "list" => j < at'[r][1] \/ (j = at'[r][1] /\ at'[r][2] > 1))
      BY <1>11, <2>3 DEF Asked, Sources
    <3>2. j # i /\ j \in 1..Len(Sources)
      BY <2>3, <3>1, SourceList DEF MailInv
    <3>3. j < i
      BY <1>1, <1>11, <3>1, <3>2
    <3>4. Asked(r, SourceOf(n[1]))
      BY <3>1, <3>3 DEF Asked
    <3>5. n[2] <= pending[r][n[1]]
      BY <1>9, <2>3, MsgFacts
    <3>6. QED
      BY <1>1, <1>12, <2>3, <3>4, <3>5 DEF MailInv, Accounted
  <2>4. QED
    BY <2>1, <2>2, <2>3
<1>22. Committable'
  <2> SUFFICES ASSUME NEW q \in Runs, pc'[q] \in {"commit", "saving"}
               PROVE  (/\ pc[q] = "saving" => owed[q] # {}
                       /\ \A t \in owed[q] : \E k \in DOMAIN Sources : Sources[k] = t
                       /\ \A m \in Msgs : SourceOf(m[1]) \in owed[q] /\ m[2] <= pending[q][m[1]]
                             => Exists(m, Body))'
    BY <1>11 DEF Committable
  <2>1. q # r
    BY <1>11
  <2>2. QED
    BY <1>13, <2>1 DEF MailInv, Committable, Exists, Sources
<1>23. NonePassedOver'
  BY <1>11 DEF MailInv, NonePassedOver, Covered, Exists, disk
<1>24. QED
  BY <1>14, <1>15, <1>16, <1>17, <1>18, <1>19, <1>20, <1>21, <1>22, <1>23 DEF MailInv

-----------------------------------------------------------------------------
(* The theorem. *)

LEMMA MailStutter == ASSUME MailInv, UNCHANGED vars PROVE MailInv'
<1>1. MailTypes' /\ Known' /\ PlainRuns' /\ AtSource'
  BY DEF MailInv, MailTypes, Known, PlainRuns, HasDelta, AtSource, Sources, vars, disk, listing, work, bounds
<1>2. JobsConfigured' /\ ListedHere' /\ JobsWritten'
  BY DEF MailInv, JobsConfigured, ListedHere, JobsWritten, Listed, Exists, Sources, vars, disk, listing, work, bounds
<1>3. Accounted'
  BY AccountedStays DEF MailInv, Exists, vars, disk, listing, work
<1>4. Committable' /\ NonePassedOver'
  BY DEF MailInv, Committable, NonePassedOver, Covered, Exists, Sources, vars, disk, listing, bounds
<1>5. QED
  BY <1>1, <1>2, <1>3, <1>4 DEF MailInv

LEMMA MailStep == ASSUME WholeRuns, MailInv, Next PROVE MailInv'
<1>1. ASSUME NEW f \in AllFolders, Arrive(f) PROVE MailInv'
  BY <1>1, ArriveKeeps
<1>2. ASSUME NEW r \in Runs, NEW md \in conf.modes, Begin(r, md) PROVE MailInv'
  BY <1>2, BeginKeeps
<1>3. ASSUME NEW r \in Runs, NEW m \in Msgs, Job(r, m) PROVE MailInv'
  BY <1>3, PickKeeps, GetKeeps, WriteBodyKeeps, DownloadKeeps, WriteAttKeeps, WriteNoteKeeps, MessageDoneKeeps DEF Job
<1>4. ASSUME NEW r \in Runs,
             ListFolder(r) \/ ListFails(r) \/ Join(r) \/ CommitBegin(r) \/ CommitEnd(r) \/ End(r)
             \/ Drained(r) \/ BeginFails(r) \/ Cancel(r) \/ Crash(r)
      PROVE  MailInv'
  BY <1>4, ListFolderKeeps, ListFailsKeeps, JoinKeeps, CommitBeginKeeps, CommitEndKeeps, EndKeeps,
     DrainedKeeps, BeginFailsKeeps, CancelKeeps, CrashKeeps
<1>5. QED
  BY <1>1, <1>2, <1>3, <1>4 DEF Next, Step

-----------------------------------------------------------------------------
(* What a saved link covers is whole, faults aside.  A message is covered long *)
(* before or long after it came to lack a file or to have a torn one, so the  *)
(* invariant counts all of them, and tells what the workers have in hand or    *)
(* still before them from what nobody will look at again.                      *)

(* What a worker has begun to write. *)
Handled == {"write", "atts", "attWrite", "note"}

Missing(m) == {a \in AttsOf(SourceOf(m[1])) : ~Exists(m, a)}

(* A file is torn and the worker that was to fill it is gone. *)
Writes(r, m, p) == (job[r][m] = "write" /\ p = Body) \/ (job[r][m] = "attWrite" /\ att[r][m] = p)
Orphaned(m) ==
    \E p \in {Body} \cup AttsOf(SourceOf(m[1])) :
        file[m][p] = "torn" /\ \A r \in Runs : ~Writes(r, m, p)

(* The messages that lack an attachment, and no worker has it still before it, *)
(* or have a torn file nobody fills.                                           *)
Unattended(m) == Exists(m, Body) /\ Missing(m) # {} /\ \A r \in Runs : job[r][m] \notin Handled
Loose == {m \in Msgs : SourceOf(m[1]) \in Delta /\ (Unattended(m) \/ Orphaned(m))}

GapTypes ==
    /\ left \in [Runs -> [Msgs -> SUBSET Atts]] /\ att \in [Runs -> [Msgs -> {Body} \cup Atts]]
    /\ faults \in Nat /\ writeFaults \in Nat /\ stops \in Nat

(* Only sources that keep a delta link have one. *)
LinksOfDelta == \A f \in AllFolders : SourceOf(f) \notin Delta => link[f] = 0

(* What is not there yet is left to whoever is at work on the message. *)
StillLeft ==
    \A r \in Runs : \A m \in Msgs :
        SourceOf(m[1]) \in Delta /\ job[r][m] \in {"atts", "attWrite", "note"} => Missing(m) \subseteq left[r][m]

(* A run works on as many messages as it has workers, and on none before or after. *)
PoolFits ==
    \A r \in Runs :
        /\ IsFiniteSet(Active(r)) /\ Cardinality(Active(r)) <= Workers
        /\ pc[r] \notin {"work", "drain"} => Active(r) = {}

Price == faults + writeFaults + Workers * stops
LoosePaid == IsFiniteSet(Loose) /\ Cardinality(Loose) <= Price

GapInv == GapTypes /\ LinksOfDelta /\ StillLeft /\ PoolFits /\ LoosePaid

LEMMA PriceIsNat == ASSUME GapTypes PROVE Price \in Nat
<1>1. faults \in Nat /\ writeFaults \in Nat /\ stops \in Nat /\ Workers \in Nat
  BY MailAssumption DEF GapTypes
<1>2. \A w, n \in Nat : w * n \in Nat
  OBVIOUS
<1>3. Workers * stops \in Nat
  BY <1>1, <1>2
<1>4. QED
  BY <1>1, <1>3 DEF Price

LEMMA Paid ==
    ASSUME GapInv, NEW D, IsFiniteSet(D), Loose' \subseteq Loose \cup D,
           Price' \in Nat, Price' >= Price + Cardinality(D)
    PROVE  LoosePaid'
<1>1. IsFiniteSet(Loose) /\ Cardinality(Loose) <= Price
  BY DEF GapInv, LoosePaid
<1>2. /\ IsFiniteSet(Loose \cup D) /\ Cardinality(Loose \cup D) \in Nat
      /\ Cardinality(Loose) \in Nat /\ Cardinality(D) \in Nat
      /\ Cardinality(Loose \cup D) <= Cardinality(Loose) + Cardinality(D)
  BY <1>1, UnionCount
<1>3. IsFiniteSet(Loose') /\ Cardinality(Loose') <= Cardinality(Loose \cup D) /\ Cardinality(Loose') \in Nat
  BY <1>2, FS_Subset, FS_CardinalityType
<1>4. Price \in Nat
  BY PriceIsNat DEF GapInv
<1>5. Cardinality(Loose') <= Price'
  BY <1>1, <1>2, <1>3, <1>4
<1>6. QED
  BY <1>3, <1>5 DEF LoosePaid

(* A fault pays for one message more, and for none if there is none. *)
LEMMA PricesRise ==
    ASSUME GapInv
    PROVE  /\ Fault \/ WriteFault => Price' \in Nat /\ Price' = Price + 1
           /\ UNCHANGED bounds => Price' \in Nat /\ Price' = Price
           /\ stops' = stops + 1 /\ UNCHANGED <<faults, writeFaults>> =>
                  Price' \in Nat /\ Price' = Price + Workers
<1>1. faults \in Nat /\ writeFaults \in Nat /\ stops \in Nat /\ Workers \in Nat
  BY MailAssumption DEF GapInv, GapTypes
<1>2. \A w, n \in Nat : w * n \in Nat /\ w * (n + 1) = w * n + w
  OBVIOUS
<1>3. Workers * stops \in Nat /\ Workers * (stops + 1) = Workers * stops + Workers
  BY <1>1, <1>2
<1>4. Fault \/ WriteFault => Price' \in Nat /\ Price' = Price + 1
  BY <1>1, <1>3 DEF Fault, WriteFault, Price
<1>5. UNCHANGED bounds => Price' \in Nat /\ Price' = Price
  BY <1>1, <1>3 DEF bounds, Price
<1>6. stops' = stops + 1 /\ UNCHANGED <<faults, writeFaults>> => Price' \in Nat /\ Price' = Price + Workers
  BY <1>1, <1>3 DEF Price
<1>7. QED
  BY <1>4, <1>5, <1>6
(* Steps that do not touch the work of any worker. *)
LEMMA QuietKeeps ==
    ASSUME MailInv, GapInv, UNCHANGED <<file, left, att>>,
           \A f \in AllFolders : SourceOf(f) \notin Delta => link'[f] = link[f],
           \A q \in Runs : \A n \in Msgs : job'[q][n] # job[q][n] => {job[q][n], job'[q][n]} \cap Running = {},
           \A q \in Runs : pc'[q] = pc[q] \/ pc'[q] \in {"work", "drain"} \/ Active(q) = {},
           UNCHANGED bounds \/ Fault \/ WriteFault \/ (stops' = stops + 1 /\ UNCHANGED <<faults, writeFaults>>)
    PROVE  GapInv'
<1>1. /\ \A q \in Runs : Active(q)' = Active(q)
      /\ \A n \in Msgs : Missing(n)' = Missing(n) /\ Exists(n, Body)' = Exists(n, Body)
  BY DEF Active, Missing, Exists
<1>2. \A q \in Runs : \A n \in Msgs : \A j \in Handled : job'[q][n] = j <=> job[q][n] = j
  BY DEF Running, Handled
<1>3. GapTypes'
  BY DEF GapInv, GapTypes, Fault, WriteFault, bounds
<1>4. LinksOfDelta'
  BY DEF GapInv, LinksOfDelta
<1>5. StillLeft'
  BY <1>1, <1>2 DEF GapInv, StillLeft, Handled
<1>6. PoolFits'
  BY <1>1 DEF GapInv, PoolFits
<1>7. LoosePaid'
  <2>1. Loose' = Loose
    <3>1. \A n \in Msgs : Unattended(n)' <=> Unattended(n)
      BY <1>1, <1>2 DEF Unattended
    <3>2. \A n \in Msgs : \A x : \A r \in Runs : Writes(r, n, x)' <=> Writes(r, n, x)
      BY <1>2 DEF Writes, Handled
    <3>3. \A n \in Msgs : Orphaned(n)' <=> Orphaned(n)
      BY <3>2 DEF Orphaned
    <3>4. QED
      BY <1>1, <3>1, <3>3 DEF Loose
  <2>2. Price' \in Nat /\ Price' >= Price
    BY PricesRise, PriceIsNat, MailAssumption DEF GapInv
  <2>3. Price \in Nat /\ IsFiniteSet({}) /\ Cardinality({}) = 0
    BY PriceIsNat, FS_EmptySet DEF GapInv
  <2>4. Price' >= Price + Cardinality({})
    BY <2>2, <2>3
  <2>5. QED
    BY <2>1, <2>2, <2>3, <2>4, Paid
<1>8. QED
  BY <1>3, <1>4, <1>5, <1>6, <1>7 DEF GapInv

LEMMA IdleRuns ==
    ASSUME MailInv, NEW r \in Runs, pc[r] \in {"idle", "list"}
    PROVE  \A n \in Msgs : job[r][n] \notin Running /\ "none" \notin Running /\ "todo" \notin Running
  BY DEF MailInv, ListedHere, Running

LEMMA AroundTheWork ==
    ASSUME MailInv, GapInv, NEW r \in Runs,
           BeginFails(r) \/ ListFails(r) \/ Join(r) \/ CommitBegin(r) \/ End(r) \/ Drained(r) \/ Cancel(r)
    PROVE  GapInv'
<1>1. /\ pc \in [Runs -> {"idle", "list", "work", "drain", "commit", "saving"}]
      /\ job \in [Runs -> [Msgs -> {"none", "todo", "done", "failed"} \cup Running]]
  BY DEF MailInv, MailTypes
<1>2. "none" \notin Running /\ "todo" \notin Running /\ "done" \notin Running /\ "failed" \notin Running
  BY DEF Running
<1>3. \A q \in Runs : Active(q) = {} => \A n \in Msgs : job[q][n] \notin Running
  BY DEF Active
<1>4. pc[r] \notin {"work", "drain"} => Active(r) = {}
  BY DEF GapInv, PoolFits
<1>5. CASE BeginFails(r)
  BY <1>5, QuietKeeps DEF BeginFails, LoginOO, ConnectIMAP, disk, work
<1>6. CASE ListFails(r)
  <2>1. Active(r) = {}
    BY <1>4, <1>6 DEF ListFails
  <2>2. \A n \in Msgs : job'[r][n] = "none"
    BY <1>1, <1>6 DEF ListFails, NoJobs
  <2>3. \A q \in Runs : q # r => pc'[q] = pc[q] /\ job'[q] = job[q]
    BY <1>1, <1>6 DEF ListFails
  <2>4. UNCHANGED bounds \/ Fault
    BY <1>6 DEF ListFails, RequestFails, GmailFails, M365Fails, OOFails, IMAPFails
  <2>5. UNCHANGED <<file, left, att, link>>
    BY <1>6 DEF ListFails, disk
  <2>6. QED
    BY <1>2, <1>3, <2>1, <2>2, <2>3, <2>4, <2>5, QuietKeeps
<1>7. CASE Join(r)
  <2>1. Active(r) = {}
    BY <1>2, <1>7 DEF Join, Active, Running
  <2>2. QED
    BY <1>1, <1>7, <2>1, QuietKeeps DEF Join, disk, work
<1>8. CASE CommitBegin(r)
  BY <1>1, <1>4, <1>8, QuietKeeps DEF CommitBegin, work
<1>9. CASE End(r) \/ Drained(r)
  <2>1. Active(r) = {}
    BY <1>4, <1>9 DEF End, Drained
  <2>2. \A n \in Msgs : job'[r][n] = "none"
    BY <1>1, <1>9 DEF End, Drained, NoJobs
  <2>3. \A q \in Runs : q # r => pc'[q] = pc[q] /\ job'[q] = job[q]
    BY <1>1, <1>9 DEF End, Drained
  <2>4. UNCHANGED <<file, left, att, link, bounds>>
    BY <1>9 DEF End, Drained, disk
  <2>5. QED
    BY <1>2, <1>3, <2>1, <2>2, <2>3, <2>4, QuietKeeps
<1>10. CASE Cancel(r)
  <2>1. \A n \in Msgs : job'[r][n] = IF job[r][n] = "todo" THEN "none" ELSE job[r][n]
    BY <1>1, <1>10 DEF Cancel
  <2>2. \A q \in Runs : q # r => job'[q] = job[q]
    BY <1>1, <1>10 DEF Cancel
  <2>3. \A q \in Runs : pc'[q] = pc[q] \/ pc'[q] = "drain"
    BY <1>1, <1>10 DEF Cancel
  <2>4. QED
    BY <1>2, <1>10, <2>1, <2>2, <2>3, QuietKeeps DEF Cancel, disk
<1>11. QED
  BY <1>5, <1>6, <1>7, <1>8, <1>9, <1>10
LEMMA BeforeTheWork ==
    ASSUME MailInv, GapInv, NEW r \in Runs, (\E md \in conf.modes : Begin(r, md)) \/ ListFolder(r)
    PROVE  GapInv'
<1>1. /\ pc \in [Runs -> {"idle", "list", "work", "drain", "commit", "saving"}]
      /\ job \in [Runs -> [Msgs -> {"none", "todo", "done", "failed"} \cup Running]]
  BY DEF MailInv, MailTypes
<1>2. pc[r] \in {"idle", "list"}
  BY DEF Begin, ListFolder
<1>3. \A n \in Msgs : job[r][n] \notin Running /\ "none" \notin Running /\ "todo" \notin Running
  BY <1>2, IdleRuns
<1>4. Active(r) = {}
  BY <1>3 DEF Active
<1>5. /\ \A q \in Runs : q # r => pc'[q] = pc[q] /\ job'[q] = job[q]
      /\ \A n \in Msgs : job'[r][n] \in {job[r][n], "none", "todo"}
      /\ UNCHANGED <<file, left, att, link, bounds>>
  <2>1. CASE \E md \in conf.modes : Begin(r, md)
    BY <1>1, <2>1 DEF Begin, NoJobs, disk
  <2>2. CASE ListFolder(r)
    <3>1. UNCHANGED <<file, left, att, link, bounds>>
      BY <2>2 DEF ListFolder, disk
    <3>2. pc' = pc \/ pc' = [pc EXCEPT ![r] = "work"]
      BY <2>2, Zenon DEF ListFolder
    <3>3. job' = job \/ \E S : job' = [job EXCEPT ![r] = [n \in Msgs |-> IF n \in S THEN "todo" ELSE job[r][n]]]
      BY <2>2, Zenon DEF ListFolder
    <3>4. QED
      BY <1>1, <3>1, <3>2, <3>3
  <2>3. QED
    BY <2>1, <2>2
<1>6. QED
  BY <1>3, <1>4, <1>5, QuietKeeps

LEMMA CommitEndPays ==
    ASSUME MailInv, GapInv, NEW r \in Runs, CommitEnd(r)
    PROVE  GapInv'
<1>1. pc \in [Runs -> {"idle", "list", "work", "drain", "commit", "saving"}] /\ pc[r] = "saving"
  BY DEF MailInv, MailTypes, CommitEnd
<1>2. Active(r) = {}
  BY <1>1 DEF GapInv, PoolFits
<1>3. NextOwed(r) \in Delta /\ NextOwed(r) \in SourceSet
  BY <1>1, NextIsOwed DEF MailInv, Committable, MailTypes, Delta
<1>4. \A f \in AllFolders : SourceOf(f) \notin Delta => link'[f] = link[f]
  <2>1. \A f \in AllFolders : SourceOf(f) \notin Delta => f \notin FoldersOf(NextOwed(r))
    BY <1>3, FoldersApart
  <2>2. QED
    BY <2>1 DEF CommitEnd
<1>5. UNCHANGED <<file, left, att, job>> /\ (UNCHANGED bounds \/ WriteFault)
  BY DEF CommitEnd, work
<1>6. \A q \in Runs : pc'[q] = pc[q] \/ Active(q) = {}
  BY <1>1, <1>2 DEF CommitEnd
<1>7. QED
  BY <1>4, <1>5, <1>6, QuietKeeps

(* A run that is killed leaves what its workers were at. *)
LEMMA CrashPays ==
    ASSUME MailInv, GapInv, NEW r \in Runs, Crash(r)
    PROVE  GapInv'
<1>1. /\ pc \in [Runs -> {"idle", "list", "work", "drain", "commit", "saving"}]
      /\ job \in [Runs -> [Msgs -> {"none", "todo", "done", "failed"} \cup Running]]
  BY DEF MailInv, MailTypes
<1>2. /\ UNCHANGED <<file, link, left, att, faults, writeFaults>> /\ stops' = stops + 1
      /\ \A q \in Runs : q # r => pc'[q] = pc[q] /\ job'[q] = job[q]
      /\ pc'[r] = "idle" /\ \A n \in Msgs : job'[r][n] = "none"
  BY <1>1 DEF Crash, NoJobs, disk
<1>3. /\ \A q \in Runs : q # r => Active(q)' = Active(q)
      /\ Active(r)' = {}
      /\ \A n \in Msgs : Missing(n)' = Missing(n) /\ Exists(n, Body)' = Exists(n, Body)
  BY <1>2 DEF Active, Missing, Exists, Running
<1>4. GapTypes'
  BY <1>2 DEF GapInv, GapTypes
<1>5. LinksOfDelta'
  BY <1>2 DEF GapInv, LinksOfDelta
<1>6. StillLeft'
  <2> SUFFICES ASSUME NEW q \in Runs, NEW n \in Msgs, SourceOf(n[1]) \in Delta,
                      job'[q][n] \in {"atts", "attWrite", "note"}
               PROVE  (Missing(n) \subseteq left[q][n])'
    BY DEF StillLeft
  <2>1. q # r
    BY <1>2
  <2>2. QED
    BY <1>2, <1>3, <2>1 DEF GapInv, StillLeft
<1>7. PoolFits'
  <2>1. IsFiniteSet({}) /\ Cardinality({}) = 0 /\ 0 <= Workers
    BY FS_EmptySet, MailAssumption
  <2>2. QED
    BY <1>2, <1>3, <2>1 DEF GapInv, PoolFits
<1>8. LoosePaid'
  <2>1. Loose' \subseteq Loose \cup Active(r)
    <3> SUFFICES ASSUME NEW n \in Loose', n \notin Active(r)
                 PROVE  n \in Loose
      OBVIOUS
    <3>1. n \in Msgs /\ job[r][n] \notin Running
      BY DEF Loose, Active
    <3>2. Unattended(n)' => Unattended(n)
      BY <1>2, <1>3, <3>1 DEF Unattended, Handled, Running
    <3>3. \A x : \A q \in Runs : Writes(q, n, x) => Writes(q, n, x)'
      BY <1>2, <3>1 DEF Writes, Running
    <3>4. Orphaned(n)' => Orphaned(n)
      BY <1>2, <3>3 DEF Orphaned
    <3>5. QED
      BY <1>3, <3>2, <3>4 DEF Loose
  <2>2. IsFiniteSet(Active(r)) /\ Cardinality(Active(r)) <= Workers /\ Cardinality(Active(r)) \in Nat
    BY FS_CardinalityType DEF GapInv, PoolFits
  <2>3. Price' \in Nat /\ Price' = Price + Workers /\ Price \in Nat /\ Workers \in Nat
    BY <1>2, PricesRise, PriceIsNat, MailAssumption DEF GapInv
  <2>4. Price' >= Price + Cardinality(Active(r))
    BY <2>2, <2>3
  <2>5. QED
    BY <2>1, <2>2, <2>3, <2>4, Paid
<1>9. QED
  BY <1>4, <1>5, <1>6, <1>7, <1>8 DEF GapInv

(* What the steps of a worker have in common: its message lacks nothing, has *)
(* the worker at it, was lacking before, or a fault pays.                    *)
LEMMA JobPays ==
    ASSUME MailInv, GapInv, NEW r \in Runs, NEW m \in Msgs, NEW j \in {"done", "failed"} \cup Running,
           pc' = pc, UNCHANGED link, pc[r] = "work" \/ job[r][m] \in Running,
           job[r][m] \in Running \/ Cardinality(Active(r)) < Workers,
           job' = [job EXCEPT ![r][m] = j],
           \A n \in Msgs : \A p : Exists(n, p) => Exists(n, p)',
           \A n \in Msgs : n # m => file'[n] = file[n],
           left' \in [Runs -> [Msgs -> SUBSET Atts]], att' \in [Runs -> [Msgs -> {Body} \cup Atts]],
           \A q \in Runs : \A n \in Msgs : q # r \/ n # m => left'[q][n] = left[q][n] /\ att'[q][n] = att[q][n],
           j \in {"atts", "attWrite", "note"} /\ SourceOf(m[1]) \in Delta => Missing(m)' \subseteq left'[r][m],
           Fault \/ WriteFault \/ (UNCHANGED bounds /\ (m \in Loose' => m \in Loose))
    PROVE  GapInv'
<1>1. /\ job \in [Runs -> [Msgs -> {"none", "todo", "done", "failed"} \cup Running]]
      /\ job'[r][m] = j
      /\ \A q \in Runs : \A n \in Msgs : q # r \/ n # m => job'[q][n] = job[q][n]
  BY DEF MailInv, MailTypes
<1>2. \A n \in Msgs : Missing(n)' \subseteq Missing(n)
  BY DEF Missing
<1>3. GapTypes'
  BY DEF GapInv, GapTypes, Fault, WriteFault, bounds
<1>4. LinksOfDelta'
  BY DEF GapInv, LinksOfDelta
<1>5. StillLeft'
  <2> SUFFICES ASSUME NEW q \in Runs, NEW n \in Msgs, SourceOf(n[1]) \in Delta,
                      job'[q][n] \in {"atts", "attWrite", "note"}
               PROVE  (Missing(n) \subseteq left[q][n])'
    BY DEF StillLeft
  <2>1. CASE q = r /\ n = m
    BY <1>1, <2>1
  <2>2. CASE q # r \/ n # m
    BY <1>1, <1>2, <2>2 DEF GapInv, StillLeft
  <2>3. QED
    BY <2>1, <2>2
<1>6. PoolFits'
  <2> SUFFICES ASSUME NEW q \in Runs
               PROVE  (/\ IsFiniteSet(Active(q)) /\ Cardinality(Active(q)) <= Workers
                       /\ pc[q] \notin {"work", "drain"} => Active(q) = {})'
    BY DEF PoolFits
  <2>1. IsFiniteSet(Active(q)) /\ Cardinality(Active(q)) <= Workers /\ Cardinality(Active(q)) \in Nat
    BY FS_CardinalityType DEF GapInv, PoolFits
  <2>2. CASE q # r
    <3>1. Active(q)' = Active(q)
      BY <1>1, <2>2 DEF Active
    <3>2. QED
      BY <2>1, <3>1 DEF GapInv, PoolFits
  <2>3. CASE q = r
    <3>1. Active(r)' \subseteq Active(r) \cup {m} /\ (m \in Active(r) => Active(r)' \subseteq Active(r))
      BY <1>1 DEF Active
    <3>2. pc[r] \in {"work", "drain"}
      BY DEF GapInv, PoolFits, Active
    <3>3. /\ IsFiniteSet(Active(r) \cup {m}) /\ Cardinality(Active(r) \cup {m}) <= Cardinality(Active(r)) + 1
          /\ Cardinality(Active(r) \cup {m}) \in Nat
      <4>1. IsFiniteSet({m}) /\ Cardinality({m}) = 1
        BY FS_Singleton
      <4>2. QED
        BY <2>1, <2>3, <4>1, UnionCount
    <3>4. IsFiniteSet(Active(r)') /\ Cardinality(Active(r)') \in Nat
      BY <3>1, <3>3, FS_Subset, FS_CardinalityType
    <3>5. CASE m \in Active(r)
      <4>1. Cardinality(Active(r)') <= Cardinality(Active(r))
        BY <2>1, <2>3, <3>1, <3>5, FS_Subset
      <4>2. QED
        BY <2>1, <2>3, <3>2, <3>4, <4>1, MailAssumption
    <3>6. CASE m \notin Active(r)
      <4>1. Cardinality(Active(r)) < Workers
        BY <3>6 DEF Active
      <4>2. Cardinality(Active(r)') <= Cardinality(Active(r) \cup {m})
        BY <3>1, <3>3, FS_Subset
      <4>3. QED
        BY <2>1, <2>3, <3>2, <3>3, <3>4, <4>1, <4>2, MailAssumption
    <3>7. QED
      BY <3>5, <3>6
  <2>4. QED
    BY <2>2, <2>3
<1>7. LoosePaid'
  <2>1. \A n \in Loose' : n = m \/ n \in Loose
    <3> SUFFICES ASSUME NEW n \in Loose', n # m
                 PROVE  n \in Loose
      OBVIOUS
    <3>1. n \in Msgs /\ SourceOf(n[1]) \in Delta /\ (Unattended(n)' \/ Orphaned(n)')
      BY DEF Loose
    <3>2. Unattended(n)' => Unattended(n)
      BY <1>1, <1>2, <3>1 DEF Unattended, Exists
    <3>3. \A x : \A q \in Runs : Writes(q, n, x)' <=> Writes(q, n, x)
      BY <1>1, <3>1 DEF Writes
    <3>4. file'[n] = file[n]
      BY <3>1
    <3>5. Orphaned(n)' => Orphaned(n)
      BY <3>3, <3>4 DEF Orphaned
    <3>6. QED
      BY <3>1, <3>2, <3>5 DEF Loose
  <2>2. Price \in Nat
    BY PriceIsNat DEF GapInv
  <2>3. CASE Fault \/ WriteFault
    <3>1. IsFiniteSet({m}) /\ Cardinality({m}) = 1
      BY FS_Singleton
    <3>2. Price' \in Nat /\ Price' = Price + 1
      BY <2>3, PricesRise
    <3>3. Price' >= Price + Cardinality({m}) /\ Loose' \subseteq Loose \cup {m}
      BY <2>1, <2>2, <3>1, <3>2
    <3>4. QED
      BY <3>1, <3>2, <3>3, Paid
  <2>4. CASE UNCHANGED bounds /\ (m \in Loose' => m \in Loose)
    <3>1. IsFiniteSet({}) /\ Cardinality({}) = 0
      BY FS_EmptySet
    <3>2. Price' \in Nat /\ Price' = Price
      BY <2>4, PricesRise
    <3>3. Price' >= Price + Cardinality({}) /\ Loose' \subseteq Loose \cup {}
      BY <2>1, <2>2, <2>4, <3>1, <3>2
    <3>4. QED
      BY <3>1, <3>2, <3>3, Paid
  <2>5. QED
    BY <2>3, <2>4
<1>8. QED
  BY <1>3, <1>4, <1>5, <1>6, <1>7 DEF GapInv
LEMMA PickPays ==
    ASSUME MailInv, GapInv, NEW r \in Runs, NEW m \in Msgs, Pick(r, m)
    PROVE  GapInv'
<1>1. PICK j \in {"done", "get"} : job' = [job EXCEPT ![r][m] = j]
  BY DEF Pick, SetJob
<1>2. UNCHANGED <<file, link, pc, left, att, bounds>> /\ pc[r] = "work" /\ Cardinality(Active(r)) < Workers
  BY DEF Pick, disk
<1>3. /\ \A n \in Msgs : \A p : Exists(n, p)' = Exists(n, p)
      /\ \A n \in Msgs : Missing(n)' = Missing(n)
  BY <1>2 DEF Exists, Missing
<1>4. m \in Loose' => m \in Loose
  <2>1. \A q \in Runs : q # r => job'[q] = job[q]
    BY <1>1 DEF MailInv, MailTypes
  <2>2. job[r][m] \notin Handled
    BY DEF Pick, Handled
  <2>3. Unattended(m)' => Unattended(m)
    BY <1>3, <2>1, <2>2 DEF Unattended
  <2>4. job'[r][m] = j
    BY <1>1 DEF MailInv, MailTypes
  <2>5. \A x : \A q \in Runs : Writes(q, m, x) => Writes(q, m, x)'
    BY <1>2, <2>1, <2>2 DEF Writes, Handled
  <2>6. Orphaned(m)' => Orphaned(m)
    BY <1>2, <2>5 DEF Orphaned
  <2>7. QED
    BY <1>3, <2>3, <2>6 DEF Loose
<1>5. /\ left' \in [Runs -> [Msgs -> SUBSET Atts]] /\ att' \in [Runs -> [Msgs -> {Body} \cup Atts]]
      /\ \A q \in Runs : \A n \in Msgs : left'[q][n] = left[q][n] /\ att'[q][n] = att[q][n]
  BY <1>2 DEF GapInv, GapTypes
<1>6. j \in {"done", "failed"} \cup Running /\ j \notin {"atts", "attWrite", "note"}
  BY DEF Running
<1>7. /\ \A n \in Msgs : n # m => file'[n] = file[n]
      /\ pc' = pc /\ UNCHANGED link /\ UNCHANGED bounds
  BY <1>2
<1>8. /\ \A q \in Runs : \A n \in Msgs : q # r \/ n # m => left'[q][n] = left[q][n] /\ att'[q][n] = att[q][n]
      /\ \A n \in Msgs : \A p : Exists(n, p) => Exists(n, p)'
  BY <1>3, <1>5
<1>9. /\ UNCHANGED bounds /\ (m \in Loose' => m \in Loose)
      /\ pc[r] = "work" \/ job[r][m] \in Running
      /\ job[r][m] \in Running \/ Cardinality(Active(r)) < Workers
  BY <1>2, <1>4, <1>7
<1>10. QED
  BY <1>1, <1>5, <1>6, <1>7, <1>8, <1>9, JobPays

(* A file put for a message is one more of its files, of nobody else's. *)
LEMMA PutKeepsFiles ==
    ASSUME MailInv, NEW m \in Msgs, NEW p, file' = file \/ \E v : v \in {"torn", "ok"} /\ Put(m, p, v)
    PROVE  /\ \A n \in Msgs : \A x : Exists(n, x) => Exists(n, x)'
           /\ \A n \in Msgs : n # m => file'[n] = file[n]
           /\ Missing(m)' \subseteq Missing(m)
           /\ file' # file /\ p \in Parts => p \notin Missing(m)'
<1>1. file \in [Msgs -> [Parts -> {"none", "torn", "ok"}]]
  BY DEF MailInv, MailTypes
<1>2. CASE file' = file
  BY <1>2 DEF Exists, Missing
<1>3. ASSUME NEW v \in {"torn", "ok"}, Put(m, p, v)
      PROVE  /\ \A n \in Msgs : n # m => file'[n] = file[n]
             /\ \A x : file'[m][x] = file[m][x] \/ file'[m][x] = v
             /\ p \in Parts => file'[m][p] = v
  <2>1. file' = [file EXCEPT ![m] = [file[m] EXCEPT ![p] = v]]
    BY <1>3 DEF Put
  <2>2. file'[m] = [file[m] EXCEPT ![p] = v] /\ \A n \in Msgs : n # m => file'[n] = file[n]
    BY <1>1, <2>1
  <2>3. file[m] \in [Parts -> {"none", "torn", "ok"}]
    BY <1>1
  <2>4. QED
    BY <2>2, <2>3
<1>4. CASE \E v : v \in {"torn", "ok"} /\ Put(m, p, v)
  <2>1. PICK v \in {"torn", "ok"} : Put(m, p, v)
    BY <1>4
  <2>2. v # "none"
    OBVIOUS
  <2>3. QED
    BY <1>3, <2>1, <2>2 DEF Exists, Missing
<1>5. QED
  BY <1>2, <1>4

(* A worker beyond its first step. *)
LEMMA WorkPays ==
    ASSUME MailInv, GapInv, NEW r \in Runs, NEW m \in Msgs, NEW j \in {"done", "failed"} \cup Running,
           job[r][m] \in Running, job' = [job EXCEPT ![r][m] = j], pc' = pc, UNCHANGED <<link, bounds>>,
           \E p : file' = file \/ \E v : v \in {"torn", "ok"} /\ Put(m, p, v),
           left' \in [Runs -> [Msgs -> SUBSET Atts]], att' \in [Runs -> [Msgs -> {Body} \cup Atts]],
           \A q \in Runs : \A n \in Msgs : q # r \/ n # m => left'[q][n] = left[q][n] /\ att'[q][n] = att[q][n],
           SourceOf(m[1]) \in Delta =>
               \/ j = "write"
               \/ j \in {"atts", "attWrite", "note"} /\ Missing(m)' \subseteq left'[r][m]
               \/ j = "done" /\ Missing(m)' = {},
           \A x \in {Body} \cup AttsOf(SourceOf(m[1])) : file'[m][x] = "torn" =>
               Writes(r, m, x)' \/ (file[m][x] = "torn" /\ ~Writes(r, m, x))
    PROVE  GapInv'
<1>1. /\ \A n \in Msgs : \A x : Exists(n, x) => Exists(n, x)'
      /\ \A n \in Msgs : n # m => file'[n] = file[n]
  BY PutKeepsFiles
<1>2. job'[r][m] = j
  BY DEF MailInv, MailTypes
<1>3. m \in Loose' => m \in Loose
  <2>1. SourceOf(m[1]) \in Delta => ~Unattended(m)'
    BY <1>2 DEF Unattended, Handled
  <2>2. \A q \in Runs : q # r => \A x : Writes(q, m, x)' <=> Writes(q, m, x)
    BY DEF Writes, MailInv, MailTypes
  <2>3. Orphaned(m)' => Orphaned(m)
    BY <2>2 DEF Orphaned
  <2>4. QED
    BY <2>1, <2>3 DEF Loose
<1>4. j \in {"atts", "attWrite", "note"} /\ SourceOf(m[1]) \in Delta => Missing(m)' \subseteq left'[r][m]
  OBVIOUS
<1>5. QED
  BY <1>1, <1>3, <1>4, JobPays

(* A worker that gives up. *)
LEMMA FailurePays ==
    ASSUME MailInv, GapInv, NEW r \in Runs, NEW m \in Msgs, job[r][m] \in Running,
           Fails(r, m) \/ WriteFails(r, m), pc' = pc, UNCHANGED link,
           \E p : file' = file \/ \E v : v \in {"torn", "ok"} /\ Put(m, p, v),
           left' \in [Runs -> [Msgs -> SUBSET Atts]], att' \in [Runs -> [Msgs -> {Body} \cup Atts]],
           \A q \in Runs : \A n \in Msgs : q # r \/ n # m => left'[q][n] = left[q][n] /\ att'[q][n] = att[q][n]
    PROVE  GapInv'
<1>1. /\ \A n \in Msgs : \A x : Exists(n, x) => Exists(n, x)'
      /\ \A n \in Msgs : n # m => file'[n] = file[n]
  BY PutKeepsFiles
<1>2. (Fault \/ WriteFault) /\ job' = [job EXCEPT ![r][m] = "failed"]
  BY DEF Fails, WriteFails, RequestFails, GmailFails, M365Fails, OOFails, IMAPFails, SetJob
<1>3. "failed" \in {"done", "failed"} \cup Running /\ "failed" \notin {"atts", "attWrite", "note"}
  OBVIOUS
<1>4. QED
  BY <1>1, <1>2, <1>3, JobPays

LEMMA AttachmentsOf == ASSUME NEW m \in Msgs PROVE AttsOf(SourceOf(m[1])) \subseteq Atts
<1>1. Kind[SourceOf(m[1])] \in Kinds
  BY MsgFacts, MailAssumption
<1>2. QED
  BY <1>1 DEF Kinds, AttsOf, AttsOfOO, AttsOfGmail, AttsOfM365, AttsOfIMAP

(* What a put changes, and a fault. *)
LEMMA OnePut ==
    ASSUME MailInv, NEW m \in Msgs, NEW p \in Parts, NEW v, Put(m, p, v)
    PROVE  file'[m][p] = v /\ \A x : x # p => file'[m][x] = file[m][x]
<1>1. file' = [file EXCEPT ![m] = [file[m] EXCEPT ![p] = v]]
  BY DEF Put
<1>2. file \in [Msgs -> [Parts -> {"none", "torn", "ok"}]]
  BY DEF MailInv, MailTypes
<1>3. file'[m] = [file[m] EXCEPT ![p] = v] /\ file[m] \in [Parts -> {"none", "torn", "ok"}]
  BY <1>1, <1>2
<1>4. QED
  BY <1>3

LEMMA FaultsCount == ASSUME GapInv PROVE Fault \/ WriteFault => ~UNCHANGED bounds
  BY DEF GapInv, GapTypes, Fault, WriteFault, bounds

LEMMA GetPays ==
    ASSUME MailInv, GapInv, NEW r \in Runs, NEW m \in Msgs, Get(r, m)
    PROVE  GapInv'
<1>1. /\ left' \in [Runs -> [Msgs -> SUBSET Atts]]
      /\ att' \in [Runs -> [Msgs -> {Body} \cup Atts]]
      /\ \A q \in Runs : \A n \in Msgs : q # r \/ n # m => left'[q][n] = left[q][n] /\ att'[q][n] = att[q][n]
  BY DEF GapInv, GapTypes, Get
<1>2. job[r][m] \in Running /\ pc' = pc /\ UNCHANGED link
  BY DEF Get, Running
<1>3. CASE Put(m, Body, "torn") /\ SetJob(r, m, "write") /\ UNCHANGED bounds
  <2>1. "write" \in {"done", "failed"} \cup Running /\ job' = [job EXCEPT ![r][m] = "write"]
    BY <1>3 DEF SetJob, Running
  <2>2. \E p : file' = file \/ \E v : v \in {"torn", "ok"} /\ Put(m, p, v)
    BY <1>3
  <2>3. QED
    <3>1. UNCHANGED <<link, bounds>>
      BY <1>2, <1>3
    <3> DEFINE j == "write"
    <3>2. j \in {"done", "failed"} \cup Running /\ job' = [job EXCEPT ![r][m] = j] /\ j = "write"
      BY <2>1
    <3>3. SourceOf(m[1]) \in Delta =>
            \/ j = "write"
            \/ j \in {"atts", "attWrite", "note"} /\ Missing(m)' \subseteq left'[r][m]
            \/ j = "done" /\ Missing(m)' = {}
      OBVIOUS
    <3> HIDE DEF j
    <3>4. \A x \in {Body} \cup AttsOf(SourceOf(m[1])) : file'[m][x] = "torn" =>
            Writes(r, m, x)' \/ (file[m][x] = "torn" /\ ~Writes(r, m, x))
      <4>1. \A x : x # Body => file'[m][x] = file[m][x]
        BY <1>3, OnePut DEF Parts
      <4>2. job[r][m] = "get" /\ job'[r][m] = "write"
        BY <2>1 DEF Get, MailInv, MailTypes
      <4>3. QED
        BY <4>1, <4>2 DEF Writes
    <3>5. QED
      BY <1>1, <1>2, <2>2, <3>1, <3>2, <3>3, <3>4, WorkPays
<1>4. CASE Fails(r, m) /\ UNCHANGED file
  BY <1>1, <1>2, <1>4, FailurePays
<1>5. QED
  BY <1>3, <1>4 DEF Get

LEMMA WriteBodyPays ==
    ASSUME MailInv, GapInv, NEW r \in Runs, NEW m \in Msgs, WriteBody(r, m)
    PROVE  GapInv'
<1> DEFINE j == IF mode[r].raw THEN "done" ELSE "atts"
           l == IF mode[r].raw THEN {} ELSE AttsOf(SourceOf(m[1]))
<1>1. left \in [Runs -> [Msgs -> SUBSET Atts]] /\ att \in [Runs -> [Msgs -> {Body} \cup Atts]] /\ att' = att
  BY DEF GapInv, GapTypes, WriteBody
<1>2. job[r][m] \in Running /\ pc' = pc /\ UNCHANGED link
  BY DEF WriteBody, Running
<1>3. CASE Put(m, Body, "ok") /\ SetJob(r, m, j) /\ left' = [left EXCEPT ![r][m] = l] /\ UNCHANGED bounds
  <2>1. j \in {"done", "failed"} \cup Running /\ l \in SUBSET Atts
    BY AttachmentsOf DEF Running
  <2>2. SourceOf(m[1]) \in Delta => j = "atts" /\ l = AttsOf(SourceOf(m[1]))
    <3>1. SourceOf(m[1]) \in Delta => HasDelta
      BY <1>2 DEF MailInv, JobsConfigured, HasDelta, Running
    <3>2. pc[r] # "idle"
      BY <1>2, IdleRuns
    <3>3. HasDelta => mode[r].raw = FALSE
      BY <3>2 DEF MailInv, PlainRuns
    <3>4. QED
      BY <3>1, <3>3
  <2> HIDE DEF j, l
  <2>3. /\ left' \in [Runs -> [Msgs -> SUBSET Atts]] /\ left'[r][m] = l
        /\ att' \in [Runs -> [Msgs -> {Body} \cup Atts]]
      /\ \A q \in Runs : \A n \in Msgs : q # r \/ n # m => left'[q][n] = left[q][n] /\ att'[q][n] = att[q][n]
    BY <1>1, <1>3, <2>1
  <2>4. SourceOf(m[1]) \in Delta => j = "atts" /\ Missing(m)' \subseteq left'[r][m]
    BY <2>2, <2>3 DEF Missing
  <2>5. job' = [job EXCEPT ![r][m] = j]
    BY <1>3 DEF SetJob
  <2>6. \E p : file' = file \/ \E v : v \in {"torn", "ok"} /\ Put(m, p, v)
    BY <1>3
  <2>7. UNCHANGED <<link, bounds>>
    BY <1>2, <1>3
  <2>8. SourceOf(m[1]) \in Delta => j \in {"atts", "attWrite", "note"} /\ Missing(m)' \subseteq left'[r][m]
    BY <2>4
  <2>9. \A x \in {Body} \cup AttsOf(SourceOf(m[1])) : file'[m][x] = "torn" =>
          Writes(r, m, x)' \/ (file[m][x] = "torn" /\ ~Writes(r, m, x))
    <3>1. file'[m][Body] = "ok" /\ \A x : x # Body => file'[m][x] = file[m][x]
      BY <1>3, OnePut DEF Parts
    <3>2. QED
      BY <3>1 DEF Writes, WriteBody
  <2>10. QED
    BY <1>2, <2>1, <2>3, <2>5, <2>6, <2>7, <2>8, <2>9, WorkPays
<1>4. CASE WriteFails(r, m) /\ UNCHANGED <<file, left>>
  BY <1>1, <1>2, <1>4, FailurePays
<1>5. QED
  BY <1>3, <1>4 DEF WriteBody

LEMMA DownloadPays ==
    ASSUME MailInv, GapInv, NEW r \in Runs, NEW m \in Msgs, NEW a \in Atts, Download(r, m, a)
    PROVE  GapInv'
<1>1. /\ left \in [Runs -> [Msgs -> SUBSET Atts]] /\ left' = [left EXCEPT ![r][m] = @ \ {a}]
      /\ att \in [Runs -> [Msgs -> {Body} \cup Atts]] /\ (att' = att \/ att' = [att EXCEPT ![r][m] = a])
  BY DEF GapInv, GapTypes, Download
<1>2. /\ left' \in [Runs -> [Msgs -> SUBSET Atts]] /\ left'[r][m] = left[r][m] \ {a}
      /\ att' \in [Runs -> [Msgs -> {Body} \cup Atts]]
      /\ \A q \in Runs : \A n \in Msgs : q # r \/ n # m => left'[q][n] = left[q][n] /\ att'[q][n] = att[q][n]
  <2>1. /\ left' \in [Runs -> [Msgs -> SUBSET Atts]] /\ left'[r][m] = left[r][m] \ {a}
        /\ \A q \in Runs : \A n \in Msgs : q # r \/ n # m => left'[q][n] = left[q][n]
    BY <1>1
  <2>2. CASE att' = att
    BY <1>1, <2>1, <2>2
  <2>3. CASE att' = [att EXCEPT ![r][m] = a]
    <3>1. /\ att' \in [Runs -> [Msgs -> {Body} \cup Atts]]
          /\ \A q \in Runs : \A n \in Msgs : q # r \/ n # m => att'[q][n] = att[q][n]
      BY <1>1, <2>3
    <3>2. QED
      BY <2>1, <3>1
  <2>4. QED
    BY <1>1, <2>2, <2>3
<1>3. job[r][m] = "atts" /\ job[r][m] \in Running /\ pc' = pc /\ UNCHANGED link
  BY DEF Download, Running
<1>4. SourceOf(m[1]) \in Delta => Missing(m) \subseteq left[r][m]
  BY <1>3 DEF GapInv, StillLeft
<1>5. CASE Exists(m, a) /\ UNCHANGED <<file, job, bounds>>
  <2>1. job' = [job EXCEPT ![r][m] = "atts"]
    BY <1>3, <1>5 DEF MailInv, MailTypes
  <2>2. Missing(m)' = Missing(m) /\ a \notin Missing(m)
    BY <1>5 DEF Missing, Exists
  <2>3. SourceOf(m[1]) \in Delta => Missing(m)' \subseteq left'[r][m]
    BY <1>2, <1>4, <2>2
  <2>4. "atts" \in {"done", "failed"} \cup Running
    BY DEF Running
  <2>5. \A x \in {Body} \cup AttsOf(SourceOf(m[1])) : file'[m][x] = "torn" =>
          Writes(r, m, x)' \/ (file[m][x] = "torn" /\ ~Writes(r, m, x))
    BY <1>3, <1>5 DEF Writes
  <2>6. QED
    BY <1>2, <1>3, <1>5, <2>1, <2>3, <2>4, <2>5, WorkPays
<1>6. CASE Put(m, a, "torn") /\ SetJob(r, m, "attWrite") /\ att' = [att EXCEPT ![r][m] = a] /\ UNCHANGED bounds
  <2>1. file'[m][a] = "torn"
    BY <1>6 DEF Put, MailInv, MailTypes, Parts
  <2>2. Missing(m)' \subseteq Missing(m)
    BY <1>6, PutKeepsFiles
  <2>3. a \notin Missing(m)'
    BY <2>1 DEF Missing, Exists
  <2>4. SourceOf(m[1]) \in Delta => Missing(m)' \subseteq left'[r][m]
    BY <1>2, <1>4, <2>2, <2>3
  <2>5. "attWrite" \in {"done", "failed"} \cup Running /\ job' = [job EXCEPT ![r][m] = "attWrite"]
    BY <1>6 DEF Running, SetJob
  <2>6. \E p : file' = file \/ \E v : v \in {"torn", "ok"} /\ Put(m, p, v)
    BY <1>6
  <2>7. \A x \in {Body} \cup AttsOf(SourceOf(m[1])) : file'[m][x] = "torn" =>
          Writes(r, m, x)' \/ (file[m][x] = "torn" /\ ~Writes(r, m, x))
    <3>1. \A x : x # a => file'[m][x] = file[m][x]
      BY <1>6, OnePut DEF Parts
    <3>2. att'[r][m] = a /\ job'[r][m] = "attWrite"
      BY <1>6, <2>5 DEF GapInv, GapTypes, MailInv, MailTypes
    <3>3. QED
      BY <1>3, <3>1, <3>2 DEF Writes
  <2>8. QED
    <3> DEFINE j == "attWrite"
    <3>1. /\ j \in {"done", "failed"} \cup Running /\ job' = [job EXCEPT ![r][m] = j]
          /\ UNCHANGED <<link, bounds>>
      BY <1>3, <1>6, <2>5
    <3>2. SourceOf(m[1]) \in Delta =>
            j \in {"atts", "attWrite", "note"} /\ Missing(m)' \subseteq left'[r][m]
      BY <2>4
    <3> HIDE DEF j
    <3>3. QED
      BY <1>2, <1>3, <2>6, <2>7, <3>1, <3>2, WorkPays
<1>7. CASE Fails(r, m) /\ UNCHANGED file
  BY <1>2, <1>3, <1>7, FailurePays
<1>8. QED
  BY <1>5, <1>6, <1>7 DEF Download

(* The steps that put a file which is not the message's body. *)
LEMMA PutPays ==
    ASSUME MailInv, GapInv, NEW r \in Runs, NEW m \in Msgs, NEW j \in {"atts", "note"},
           job[r][m] \in {"attWrite", "note"}, pc' = pc, UNCHANGED <<link, left, att>>,
           \A x \in {Body} \cup AttsOf(SourceOf(m[1])) : file'[m][x] = "torn" =>
               file[m][x] = "torn" /\ (UNCHANGED bounds => ~Writes(r, m, x)),
           file' = file \/ \E p, v : v \in {"torn", "ok"} /\ Put(m, p, v),
           (UNCHANGED bounds /\ SetJob(r, m, j)) \/ WriteFails(r, m)
    PROVE  GapInv'
<1>1. /\ left' \in [Runs -> [Msgs -> SUBSET Atts]] /\ att' \in [Runs -> [Msgs -> {Body} \cup Atts]]
      /\ \A q \in Runs : \A n \in Msgs : left'[q][n] = left[q][n] /\ att'[q][n] = att[q][n]
  BY DEF GapInv, GapTypes
<1>2. job[r][m] \in Running /\ j \in {"done", "failed"} \cup Running
  BY DEF Running
<1>3. \E p : file' = file \/ \E v : v \in {"torn", "ok"} /\ Put(m, p, v)
  OBVIOUS
<1>4. Missing(m)' \subseteq Missing(m)
  BY <1>3, PutKeepsFiles
<1>5. SourceOf(m[1]) \in Delta => Missing(m)' \subseteq left'[r][m]
  BY <1>1, <1>4 DEF GapInv, StillLeft
<1>6. CASE UNCHANGED bounds /\ SetJob(r, m, j)
  <2>1. job' = [job EXCEPT ![r][m] = j]
    BY <1>6 DEF SetJob
  <2>2. QED
    BY <1>1, <1>2, <1>3, <1>5, <1>6, <2>1, WorkPays
<1>7. CASE WriteFails(r, m)
  BY <1>1, <1>2, <1>3, <1>7, FailurePays
<1>8. QED
  BY <1>6, <1>7

LEMMA WriteAttPays ==
    ASSUME MailInv, GapInv, NEW r \in Runs, NEW m \in Msgs, WriteAtt(r, m)
    PROVE  GapInv'
<1> DEFINE j == IF \E n \in Notes : NoteOf[n] = att[r][m] THEN "note" ELSE "atts"
<1>1. j \in {"atts", "note"}
  OBVIOUS
<1>2. /\ job[r][m] \in {"attWrite", "note"} /\ pc' = pc /\ UNCHANGED <<link, left, att>>
      /\ file' = file \/ \E p, v : v \in {"torn", "ok"} /\ Put(m, p, v)
  BY DEF WriteAtt
<1>3. (UNCHANGED bounds /\ SetJob(r, m, j)) \/ WriteFails(r, m)
  BY DEF WriteAtt
<1>4. \A x \in {Body} \cup AttsOf(SourceOf(m[1])) : file'[m][x] = "torn" =>
        file[m][x] = "torn" /\ (UNCHANGED bounds => ~Writes(r, m, x))
  <2>1. CASE Put(m, att[r][m], "ok")
    <3>1. att[r][m] \in Parts
      BY DEF GapInv, GapTypes, Parts
    <3>2. QED
      BY <2>1, <3>1, OnePut DEF Writes, WriteAtt
  <2>2. CASE WriteFails(r, m) /\ UNCHANGED file
    BY <2>2, FaultsCount DEF WriteFails
  <2>3. QED
    BY <2>1, <2>2 DEF WriteAtt
<1> HIDE DEF j
<1>5. QED
  BY <1>1, <1>2, <1>3, <1>4, PutPays

LEMMA WriteNotePays ==
    ASSUME MailInv, GapInv, NEW r \in Runs, NEW m \in Msgs, NEW n \in Notes, WriteNote(r, m, n)
    PROVE  GapInv'
<1>1. \A x \in {Body} \cup AttsOf(SourceOf(m[1])) : file'[m][x] = file[m][x]
  <2>1. n \notin {Body} \cup AttsOf(SourceOf(m[1])) /\ n \in Parts
    BY AttachmentsOf, MailAssumption DEF Parts
  <2>2. QED
    BY <2>1, OnePut DEF WriteNote
<1>2. \A x : ~Writes(r, m, x)
  BY DEF WriteNote, Writes
<1>3. QED
  BY <1>1, <1>2, PutPays DEF WriteNote

LEMMA MessageDonePays ==
    ASSUME MailInv, GapInv, NEW r \in Runs, NEW m \in Msgs, MessageDone(r, m)
    PROVE  GapInv'
<1>1. /\ left' \in [Runs -> [Msgs -> SUBSET Atts]]
      /\ att' \in [Runs -> [Msgs -> {Body} \cup Atts]]
      /\ \A q \in Runs : \A n \in Msgs : q # r \/ n # m => left'[q][n] = left[q][n] /\ att'[q][n] = att[q][n]
  BY DEF GapInv, GapTypes, MessageDone
<1>2. /\ job[r][m] = "atts" /\ left[r][m] = {} /\ pc' = pc /\ UNCHANGED <<file, link, bounds>>
      /\ job' = [job EXCEPT ![r][m] = "done"]
  BY DEF MessageDone, SetJob, disk
<1>3. SourceOf(m[1]) \in Delta => Missing(m)' = {}
  BY <1>2 DEF GapInv, StillLeft, Missing, Exists
<1>4. job[r][m] \in Running /\ UNCHANGED <<link, bounds>>
  BY <1>2 DEF Running
<1> DEFINE j == "done"
<1>5. j \in {"done", "failed"} \cup Running /\ job' = [job EXCEPT ![r][m] = j] /\ j = "done"
  BY <1>2
<1>6. SourceOf(m[1]) \in Delta =>
        \/ j = "write"
        \/ j \in {"atts", "attWrite", "note"} /\ Missing(m)' \subseteq left'[r][m]
        \/ j = "done" /\ Missing(m)' = {}
  BY <1>3
<1> HIDE DEF j
<1>7. QED
  <2>1. \E p : file' = file \/ \E v : v \in {"torn", "ok"} /\ Put(m, p, v)
    BY <1>2
  <2>2. \A x \in {Body} \cup AttsOf(SourceOf(m[1])) : file'[m][x] = "torn" =>
          Writes(r, m, x)' \/ (file[m][x] = "torn" /\ ~Writes(r, m, x))
    BY <1>2 DEF Writes
  <2>3. QED
    BY <1>1, <1>2, <1>4, <1>5, <1>6, <2>1, <2>2, WorkPays

-----------------------------------------------------------------------------
LEMMA GapInit == ASSUME Init PROVE GapInv
<1>1. /\ \A r \in Runs : Active(r) = {}
      /\ Loose = {}
  <2>1. \A r \in Runs : Active(r) = {}
    BY DEF Init, Active, NoJobs, Running
  <2>2. \A m \in Msgs : \A p \in Parts : file[m][p] = "none"
    BY DEF Init
  <2>3. \A m \in Msgs : {Body} \cup AttsOf(SourceOf(m[1])) \subseteq Parts
    BY AttachmentsOf DEF Parts
  <2>4. \A m \in Msgs : ~Unattended(m) /\ ~Orphaned(m)
    BY <2>2, <2>3 DEF Unattended, Orphaned, Exists
  <2>5. QED
    BY <2>1, <2>4 DEF Loose
<1>2. IsFiniteSet({}) /\ Cardinality({}) = 0 /\ Workers \in Nat
  BY FS_EmptySet, MailAssumption
<1>3. GapTypes /\ LinksOfDelta /\ StillLeft
  BY DEF Init, GapTypes, LinksOfDelta, StillLeft, NoJobs
<1>4. PoolFits
  BY <1>1, <1>2 DEF PoolFits
<1>5. LoosePaid
  BY <1>1, <1>2, <1>3, PriceIsNat DEF LoosePaid
<1>6. QED
  BY <1>3, <1>4, <1>5 DEF GapInv

LEMMA GapStutter == ASSUME MailInv, GapInv, UNCHANGED <<file, link, pc, job, left, att, bounds>> PROVE GapInv'
  BY QuietKeeps

LEMMA GapStep == ASSUME MailInv, GapInv, [Next]_vars PROVE GapInv'
<1>1. ASSUME NEW f \in AllFolders, Arrive(f) PROVE GapInv'
  BY <1>1, GapStutter DEF Arrive, disk, work
<1>2. ASSUME NEW r \in Runs, NEW md \in conf.modes, Begin(r, md) PROVE GapInv'
  BY <1>2, BeforeTheWork
<1>3. ASSUME NEW r \in Runs, NEW m \in Msgs, Job(r, m) PROVE GapInv'
  BY <1>3, PickPays, GetPays, WriteBodyPays, DownloadPays, WriteAttPays, WriteNotePays, MessageDonePays DEF Job
<1>4. ASSUME NEW r \in Runs,
             ListFolder(r) \/ ListFails(r) \/ Join(r) \/ CommitBegin(r) \/ CommitEnd(r) \/ End(r)
             \/ Drained(r) \/ BeginFails(r) \/ Cancel(r) \/ Crash(r)
      PROVE  GapInv'
  BY <1>4, BeforeTheWork, AroundTheWork, CommitEndPays, CrashPays
<1>5. CASE UNCHANGED vars
  BY <1>5, GapStutter DEF vars, disk, work
<1>6. QED
  BY <1>1, <1>2, <1>3, <1>4, <1>5 DEF Next, Step

LEMMA GapsAreLoose == ASSUME MailInv, GapInv PROVE GapsCostAFault
<1>1. Gaps \subseteq Loose
  <2> SUFFICES ASSUME NEW m \in Gaps
               PROVE  m \in Loose
    OBVIOUS
  <2>1. /\ m \in Msgs /\ Covered(m) /\ Lacks(m) # {}
        /\ \A r \in Runs : job[r][m] \notin Running
    BY DEF Gaps, InHand
  <2>2. m[1] \in AllFolders /\ m[2] \in 1..MaxMail /\ link[m[1]] \in Nat
    BY <2>1, MsgFacts DEF MailInv, MailTypes
  <2>3. link[m[1]] # 0
    BY <2>1, <2>2 DEF Covered
  <2>4. SourceOf(m[1]) \in Delta
    BY <2>2, <2>3 DEF GapInv, LinksOfDelta
  <2>5. Exists(m, Body)
    BY <2>1 DEF MailInv, NonePassedOver
  <2>6. PICK p \in {Body} \cup AttsOf(SourceOf(m[1])) : file[m][p] # "ok"
    BY <2>1 DEF Lacks
  <2>7. p \in Parts /\ file[m][p] \in {"none", "torn"}
    BY <2>1, <2>6, AttachmentsOf DEF MailInv, MailTypes, Parts
  <2>8. CASE file[m][p] = "torn"
    <3>1. Orphaned(m)
      BY <2>1, <2>6, <2>8 DEF Orphaned, Writes, Running
    <3>2. QED
      BY <2>1, <2>4, <3>1 DEF Loose
  <2>9. CASE file[m][p] = "none"
    <3>1. p # Body /\ p \in Missing(m)
      BY <2>5, <2>6, <2>9 DEF Exists, Missing
    <3>2. Unattended(m)
      BY <2>1, <2>5, <3>1 DEF Unattended, Handled, Running
    <3>3. QED
      BY <2>1, <2>4, <3>2 DEF Loose
  <2>10. QED
    BY <2>7, <2>8, <2>9
<1>2. IsFiniteSet(Loose) /\ Cardinality(Loose) <= Price /\ Price \in Nat
  BY PriceIsNat DEF GapInv, LoosePaid
<1>3. Cardinality(Gaps) <= Cardinality(Loose) /\ Cardinality(Gaps) \in Nat /\ Cardinality(Loose) \in Nat
  BY <1>1, <1>2, FS_Subset, FS_CardinalityType
<1>4. Cardinality(Gaps) <= Price
  BY <1>2, <1>3
<1>5. QED
  BY <1>4 DEF GapsCostAFault, Price

(* Whatever number of runs share the directory: a saved link covers no message *)
(* of which there is nothing at all, and of those it covers the ones that lack *)
(* a file or have a torn one, while nobody is at work on them, are no more than *)
(* the requests and writes that failed and, for each run killed or cancelled,  *)
(* its workers (sync.go, processOne, where a message that exists is passed     *)
(* over, and Run).                                                             *)
THEOREM LinksCoverTheWork == ASSUME WholeRuns PROVE Spec => []LinksAreTrue
<1>1. Init => MailInv /\ GapInv
  BY MailInit, GapInit
<1>2. MailInv /\ GapInv /\ [Next]_vars => MailInv' /\ GapInv'
  BY MailStep, MailStutter, GapStep
<1>3. MailInv /\ GapInv => LinksAreTrue
  BY GapsAreLoose DEF MailInv, LinksAreTrue
<1>4. QED
  BY <1>1, <1>2, <1>3, PTL DEF Spec
=============================================================================
