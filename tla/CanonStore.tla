----------------------------- MODULE CanonStore -----------------------------
(***************************************************************************)
(* internal/canon: letters and chat messages become canonical messages, a  *)
(* JSON file each under <platform>/<thread>/<id>, with a manifest of what  *)
(* was written last for every id.  A wave writes all messages of a source, *)
(* one by one; the source changes between waves.                           *)
(*                                                                         *)
(* A name is the sequence of its parts with what stands between them: "/", *)
(* "\" and control characters all become "-" in a path.                    *)
(***************************************************************************)
EXTENDS Integers, FiniteSets, Sequences, SequencesExt

CONSTANTS
    Feeds,     \* histories of a source: the sequences of records it holds in turn
    MaxWaves, MaxCanonFaults

ASSUME CanonAssumption ==
    \A f \in Feeds : /\ Len(f) \in Nat \ {0} /\ DOMAIN f = 1 .. Len(f)
                     /\ \A i \in DOMAIN f : f[i] \in Seq(ToSet(f[i]))

VARIABLES
    feed, at,    \* the history, and where it stands
    canon,       \* the files: [path, torn, msg]
    manifest,    \* {[id, msg]}: the hash of a message stands for the message
    cpc,         \* "idle", "write", "file", "manifest"
    offered,     \* records the wave still has to write
    asked,       \* the messages it was given
    current,     \* the message being written
    wrote,       \* files the wave has written
    quiet,     \* the previous wave was clean, and nothing has happened since
    waves, canonFaults

canonVars == <<feed, at, canon, manifest, cpc, offered, asked, current, wrote, quiet, waves, canonFaults>>
sourceVars == <<feed, at>>

-----------------------------------------------------------------------------
(* Records become messages.                                                  *)

NoName == [parts |-> <<>>, sep |-> ""]
hashed(parts) == [parts |-> parts, sep |-> "sha256"]

firstRef(refs) == IF refs = <<>> THEN NoName ELSE Head(refs)
derivedID(e, body) == hashed(<<e.from, e.sent, body>>)

\* A letter belongs to the thread of its first reference, or to its own.
FromMail(e) ==
    LET body == IF e.text # "" THEN e.text ELSE e.html
    IN [id       |-> IF e.msgid # NoName THEN e.msgid ELSE derivedID(e, body),
        thread   |-> IF firstRef(e.refs) # NoName THEN firstRef(e.refs) ELSE e.msgid,
        platform |-> "mail", from |-> e.from, reply |-> firstRef(e.irt),
        sent |-> e.sent, body |-> body, atts |-> e.atts]

\* The time of a chat message is no part of its id.
chatID(c) == hashed(<<c.platform, Head(c.thread.parts), c.from, c.text>>)

FromChat(c) ==
    [id |-> chatID(c), thread |-> c.thread, platform |-> c.platform, from |-> c.from,
     reply |-> c.reply, sent |-> c.sent, body |-> c.text, atts |-> <<>>]

Canonical(r) == IF r.mail THEN FromMail(r) ELSE FromChat(r)

\* A record that does not parse, or whose time does not, is left out.
Messages(f) == {Canonical(r) : r \in {s \in ToSet(f) : s.ok}}

SafeSegment(name) == IF name.parts = <<>> THEN <<"-">> ELSE name.parts
messagePath(m) == <<m.platform, SafeSegment(m.thread), SafeSegment(m.id)>>

\* Read passes over files it cannot parse.
Read == {f.msg : f \in {g \in canon : ~g.torn}}

-----------------------------------------------------------------------------
(* One wave of Write calls.                                                  *)

NoMsg == [Canonical([mail |-> TRUE, from |-> "", sent |-> "", msgid |-> NoName, refs |-> <<>>,
                     irt |-> <<>>, text |-> "", html |-> "", atts |-> <<>>])
             EXCEPT !.platform = ""]

Recorded(m) == [id |-> m.id, msg |-> m] \in manifest
Record(m) == {e \in manifest : e.id # m.id} \cup {[id |-> m.id, msg |-> m]}
Replace(m, torn) ==
    {f \in canon : f.path # messagePath(m)} \cup {[path |-> messagePath(m), torn |-> torn, msg |-> m]}

BeginWave ==
    /\ cpc = "idle" /\ waves < MaxWaves /\ waves' = waves + 1
    /\ cpc' = "write" /\ offered' = feed[at] /\ asked' = Messages(feed[at]) /\ wrote' = 0
    /\ UNCHANGED <<sourceVars, canon, manifest, current, quiet, canonFaults>>

\* Mutant: the manifest is saved before the file is written.
WriteRecordFirst ==
    /\ cpc = "write" /\ offered # <<>>
    /\ LET m == Canonical(Head(offered))
       IN IF ~Head(offered).ok \/ Recorded(m) THEN offered' = Tail(offered) /\ UNCHANGED <<cpc, current, manifest>>
          ELSE cpc' = "file" /\ current' = m /\ manifest' = Record(m) /\ UNCHANGED offered
    /\ UNCHANGED <<sourceVars, canon, asked, wrote, quiet, waves, canonFaults>>

Write ==
    /\ cpc = "write" /\ offered # <<>>
    /\ LET m == Canonical(Head(offered))
       IN IF ~Head(offered).ok \/ Recorded(m) THEN offered' = Tail(offered) /\ UNCHANGED <<cpc, current>>
          ELSE cpc' = "file" /\ current' = m /\ UNCHANGED offered
    /\ UNCHANGED <<sourceVars, canon, manifest, asked, wrote, quiet, waves, canonFaults>>

WriteFile ==
    /\ cpc = "file" /\ cpc' = "manifest"
    /\ canon' = Replace(current, FALSE) /\ wrote' = wrote + 1
    /\ UNCHANGED <<sourceVars, manifest, offered, asked, current, quiet, waves, canonFaults>>

SaveManifest ==
    /\ cpc = "manifest" /\ cpc' = "write"
    /\ manifest' = Record(current)
    /\ offered' = Tail(offered) /\ current' = NoMsg
    /\ UNCHANGED <<sourceVars, canon, asked, wrote, quiet, waves, canonFaults>>

WaveEnds ==
    /\ cpc = "write" /\ offered = <<>> /\ cpc' = "idle"
    /\ asked' = {} /\ wrote' = 0 /\ quiet' = TRUE
    /\ UNCHANGED <<sourceVars, canon, manifest, offered, current, waves, canonFaults>>

\* A write fails, the wave is cancelled or the program dies: a file may be torn,
\* or written while the manifest is not.
WaveFails ==
    /\ cpc # "idle" /\ canonFaults < MaxCanonFaults /\ canonFaults' = canonFaults + 1
    /\ \/ UNCHANGED canon
       \/ cpc = "file" /\ canon' = Replace(current, TRUE)
    /\ cpc' = "idle" /\ offered' = <<>> /\ asked' = {} /\ current' = NoMsg /\ wrote' = 0
    /\ quiet' = FALSE
    /\ UNCHANGED <<sourceVars, manifest, waves>>

\* A manifest that is gone or does not parse counts as empty.
LoadManifestEmpty ==
    /\ cpc = "idle" /\ manifest # {} /\ canonFaults < MaxCanonFaults /\ canonFaults' = canonFaults + 1
    /\ manifest' = {} /\ quiet' = FALSE
    /\ UNCHANGED <<sourceVars, canon, cpc, offered, asked, current, wrote, waves>>

SourceChanges ==
    /\ cpc = "idle" /\ at < Len(feed) /\ at' = at + 1 /\ quiet' = FALSE
    /\ UNCHANGED <<feed, canon, manifest, cpc, offered, asked, current, wrote, waves, canonFaults>>

CanonInit ==
    /\ feed \in Feeds /\ at = 1 /\ canon = {} /\ manifest = {}
    /\ cpc = "idle" /\ offered = <<>> /\ asked = {} /\ current = NoMsg /\ wrote = 0
    /\ quiet = FALSE /\ waves = 0 /\ canonFaults = 0

CanonNext ==
    \/ BeginWave \/ Write \/ WriteFile \/ SaveManifest \/ WaveEnds
    \/ WaveFails \/ LoadManifestEmpty \/ SourceChanges

-----------------------------------------------------------------------------
Ever == UNION {Messages(feed[i]) : i \in DOMAIN feed}
AloneAtItsPath(m) ==
    /\ \A n \in Ever : n.id # m.id => messagePath(n) # messagePath(m)
    /\ \A n \in asked : n.id = m.id => n = m

(* A wave that ends without an error leaves every message it was given in a  *)
(* file that can be read, whatever earlier waves were cut short, unless the  *)
(* source ever has another message at that path.  (A message that returns to *)
(* an earlier body after a wave that failed is not covered: the manifest     *)
(* still holds that body, and the histories of a source contain none.)       *)
WaveIsStored ==
    cpc = "write" /\ offered = <<>> =>
        \A m \in asked : AloneAtItsPath(m) => m \in Read

(* A wave after a wave that ended well, over a source that has not changed,  *)
(* writes nothing, if the ids of the source are unique.  (Two equal texts of *)
(* one sender in a chat have one id, and every wave rewrites both.)          *)
IdleWaveIsQuiet ==
    quiet /\ (\A m, n \in asked : m.id = n.id => m = n) => wrote = 0

(* After a wave the store has the messages of the source that have an id and  *)
(* a path of their own, besides files it keeps from earlier, and it stays as  *)
(* it is until the source changes.                                            *)
CanonFollows == WaveIsStored /\ IdleWaveIsQuiet
=============================================================================
