----------------------------- MODULE BrowserSync -----------------------------
(***************************************************************************)
(* bin/cron/browser-sync: a cycle probes the browser, reads what was last  *)
(* captured from it under var/corpus, converts every entry to a leaf and   *)
(* posts all of them to the brain in one request.  It runs one cycle per   *)
(* tick of a systemd timer, or stays and repeats the cycle (--interval).   *)
(*                                                                         *)
(* A text is a tuple of its parts, and so is a source.                     *)
(***************************************************************************)
EXTENDS Integers, FiniteSets, Sequences, SequencesExt

CONSTANTS
    Captures,         \* corpora the browser may leave: sequences of files
    MaxBrowserEdits, MaxBrowserFaults

ASSUME BrowserAssumption ==
    \A c \in Captures : /\ c \in Seq(Range(c))
                        /\ \A f \in Range(c) : f = [dir |-> f.dir, base |-> f.base, owner |-> f.owner,
                               title |-> f.title, rows |-> f.rows, counters |-> f.counters,
                               readable |-> f.readable, parses |-> f.parses]

VARIABLES
    capture,    \* the files in the order of the walk
    browserUp,  \* the browser answers on its debug port
    brainUp,    \* somebody serves the brain
    browsed,    \* leafs of the brain's database
    late,       \* requests the brain still works on after the client has gone
    daemon,     \* [interval, skip]: how the program was started
    bpc,        \* "off", "probe", "load", "push", "wait" or "gone" for good
                \* (nothing starts a program again that was started by hand)
    unread, payload,   \* the walk: files to come, leafs of those read
    same,       \* files not rewritten since the cycle began
    report,     \* of the last cycle: [skipped, ingested, err, over]
    bedits, bfaults

browserVars == <<capture, browserUp, brainUp, browsed, late, daemon, bpc, unread, payload, same,
                 report, bedits, bfaults>>
world == <<capture, browserUp, brainUp, same>>

-----------------------------------------------------------------------------
(* LoadCorpus: one leaf per entry.  A file that does not parse, or of another *)
(* name, yields none; an entry without a name is passed over.                 *)

Or(a, b) == IF a # "" THEN a ELSE b
leaf(text, source, typ) ==
    [text |-> text, source |-> source, type |-> typ, root |-> "info", conf |-> "confirmed"]

Entries(f, part) == {r \in ToSet(f.rows) : r.part = part}
Named(f, part) == {r \in Entries(f, part) : r.name # ""}

convertGmail(f) ==
    {leaf(<<f.owner, Or(r.who, "unknown"), r.name>>,
          <<"gmail", Or(f.owner, "account"), Or(r.at, r.name)>>, "email") : r \in Entries(f, "emails")}

convertLinkedinConnections(f) ==
    {leaf(<<r.name, Or(r.who, "no headline")>>, <<"linkedin", "connection", r.name>>, "connection") :
        r \in Named(f, "connections")}

convertLinkedinProfile(f) ==
    IF f.owner = "" THEN {} ELSE
    {leaf(<<f.owner, f.title>>, <<"linkedin", "profile", f.owner>>, "profile")}
      \cup {leaf(<<r.name, Or(r.at, "?"), Or(r.who, "dates unknown")>>,
                 <<"linkedin", "experience", r.name, Or(r.at, "?")>>, "experience") :
               r \in Named(f, "experience")}
      \cup {leaf(<<r.name, Or(r.at, "?"), Or(r.who, "dates unknown")>>,
                 <<"linkedin", "education", r.name>>, "education") : r \in Named(f, "education")}

\* Counters that are all zero are no news.
convertDjinniDashboard(f) ==
    {leaf(<<r.name, Or(r.at, "?"), Or(r.who, "?")>>,
          <<"djinni", "recommended", r.name, Or(r.at, "?")>>, "job") : r \in Named(f, "jobs")}
      \cup {leaf(<<"stats", f.title>>, <<"djinni", "stats", "30d">>, "stats") : n \in f.counters \ {0}}

convertDjinniMessages(f) ==
    {leaf(<<Or(r.who, "?"), Or(r.at, "?"), r.name>>,
          <<"djinni", "inbox", r.name, Or(r.at, "?")>>, "message") : r \in Named(f, "threads")}

convertDjinniApplications(f) ==
    {leaf(<<Or(f.title, "application"), r.name, Or(r.at, "?"), Or(r.who, "?")>>,
          <<"djinni", Or(f.title, "application"), r.name, Or(r.at, "?")>>,
          Or(f.title, "application")) : r \in Named(f, "entries")}

convertDjinniProfile(f) ==
    IF f.owner = "" THEN {} ELSE
    {leaf(<<f.owner, Or(f.title, "?")>>, <<"djinni", "profile", f.owner>>, "profile")}
      \cup {leaf(<<r.name>>, <<"djinni", "profile", f.owner, "current_role">>, "profile") :
               r \in Named(f, "current_role")}
      \cup {leaf(<<"skills", f.rows>>, <<"djinni", "profile", f.owner, "skills">>, "profile") :
               r \in Entries(f, "skills")}

sourceFromPath(f) == f.dir \in {"gmail", "linkedin", "djinni"}

convert(f) ==
    CASE ~f.parses                                               -> {}
      [] f.dir = "gmail"                                         -> convertGmail(f)
      [] f.dir = "linkedin" /\ f.base = "connections"            -> convertLinkedinConnections(f)
      [] f.dir = "linkedin" /\ f.base = "profile"                -> convertLinkedinProfile(f)
      [] f.dir = "djinni"   /\ f.base = "applications"           -> convertDjinniApplications(f)
      [] f.dir = "djinni"   /\ f.base = "dashboard"              -> convertDjinniDashboard(f)
      [] f.dir = "djinni"   /\ f.base = "messages"               -> convertDjinniMessages(f)
      [] f.dir = "djinni"   /\ f.base = "profile"                -> convertDjinniProfile(f)
      [] OTHER                                                   -> {}

Convertible == UNION {convert(f) : f \in {g \in ToSet(capture) : sourceFromPath(g)}}

-----------------------------------------------------------------------------
(* One cycle.  The report of a cycle that is over stays until the next one.  *)

NoReport == [skipped |-> FALSE, ingested |-> 0, err |-> FALSE, over |-> FALSE]

\* The end of a cycle: with an error the program exits, and only the timer or
\* the service's Restart=on-failure starts it again; without one it waits for
\* the interval, or exits.
run(failed) ==
    /\ bpc' = IF ~daemon.interval THEN "off" ELSE IF failed THEN "gone" ELSE "wait"
    /\ unread' = <<>> /\ payload' = {}
ending(failed, n) == run(failed) /\ report' = [report EXCEPT !.err = failed, !.ingested = n, !.over = TRUE]

BeginCycle ==
    /\ bpc \in {"off", "wait"}
    /\ bpc' = IF daemon.skip THEN "load" ELSE "probe"
    /\ unread' = [i \in DOMAIN capture |-> i] /\ payload' = {}
    /\ same' = DOMAIN capture /\ report' = NoReport
    /\ UNCHANGED <<capture, browserUp, brainUp, browsed, late, daemon, bedits, bfaults>>

\* Mutant: it ends the cycle.
ExtractIsFatal ==
    /\ bpc = "probe"
    /\ IF browserUp THEN bpc' = "load" /\ UNCHANGED <<unread, payload, report>> ELSE ending(TRUE, 0)
    /\ UNCHANGED <<world, browsed, late, daemon, bedits, bfaults>>

\* A browser that is down is a note in the report.
Extract ==
    /\ bpc = "probe" /\ bpc' = "load"
    /\ report' = [report EXCEPT !.skipped = ~browserUp]
    /\ UNCHANGED <<world, browsed, late, daemon, unread, payload, bedits, bfaults>>

\* The walk reads file by file; one it cannot read ends the cycle.
LoadFile ==
    /\ bpc = "load" /\ unread # <<>>
    /\ LET f == capture[Head(unread)]
       IN IF sourceFromPath(f) /\ ~f.readable THEN ending(TRUE, 0)
          ELSE /\ unread' = Tail(unread)
               /\ payload' = payload \cup (IF sourceFromPath(f) THEN convert(f) ELSE {})
               /\ UNCHANGED <<bpc, report>>
    /\ UNCHANGED <<world, browsed, late, daemon, bedits, bfaults>>

Loaded ==
    /\ bpc = "load" /\ unread = <<>>
    /\ IF payload = {} THEN ending(FALSE, 0) ELSE bpc' = "push" /\ UNCHANGED <<unread, payload, report>>
    /\ UNCHANGED <<world, browsed, late, daemon, bedits, bfaults>>

\* Mutant: the status of the answer is not looked at.
PushNoStatus(answer) ==
    /\ bpc = "push"
    /\ answer = "down" <=> ~brainUp
    /\ browsed' = IF answer = "ok" THEN browsed \cup payload ELSE browsed
    /\ late' = IF answer = "timeout" THEN late \cup {payload} ELSE late
    /\ bfaults' = IF answer \in {"refused", "timeout"} THEN bfaults + 1 ELSE bfaults
    /\ bfaults' <= MaxBrowserFaults
    /\ ending(answer \in {"down", "timeout"}, Cardinality(payload))
    /\ UNCHANGED <<world, daemon, bedits>>

\* The brain writes all leafs in one transaction, or it is down, or refuses the
\* request; or the client gives up first and the brain goes on with the request.
Push(answer) ==
    /\ bpc = "push"
    /\ answer = "down" <=> ~brainUp
    /\ browsed' = IF answer = "ok" THEN browsed \cup payload ELSE browsed
    /\ late' = IF answer = "timeout" THEN late \cup {payload} ELSE late
    /\ bfaults' = IF answer \in {"refused", "timeout"} THEN bfaults + 1 ELSE bfaults
    /\ bfaults' <= MaxBrowserFaults
    /\ ending(answer # "ok", IF answer = "ok" THEN Cardinality(payload) ELSE 0)
    /\ UNCHANGED <<world, daemon, bedits>>

BrainCatchesUp ==
    /\ brainUp /\ \E p \in late : browsed' = browsed \cup p /\ late' = late \ {p}
    /\ UNCHANGED <<world, daemon, bpc, unread, payload, report, bedits, bfaults>>

-----------------------------------------------------------------------------
(* What happens around the daemon.                                           *)

\* The brain goes down; while nobody serves it, an index rebuild may remove its
\* database together with every leaf that came in over HTTP.
BrainStops ==
    /\ brainUp /\ bfaults < MaxBrowserFaults
    /\ brainUp' = FALSE /\ late' = {} /\ bfaults' = bfaults + 1
    /\ UNCHANGED <<capture, browserUp, same, browsed, daemon, bpc, unread, payload, report, bedits>>
Rebuild ==
    /\ ~brainUp /\ browsed # {} /\ browsed' = {}
    /\ UNCHANGED <<world, late, daemon, bpc, unread, payload, report, bedits, bfaults>>
BrainStarts ==
    /\ ~brainUp /\ brainUp' = TRUE
    /\ UNCHANGED <<capture, browserUp, same, browsed, late, daemon, bpc, unread, payload, report,
                   bedits, bfaults>>

\* A new capture is written into one file; for a while the file does not parse.
Rewrite ==
    /\ bedits < MaxBrowserEdits /\ bedits' = bedits + 1
    /\ \E i \in DOMAIN capture : /\ capture[i].parses
                                 /\ capture' = [capture EXCEPT ![i].parses = FALSE]
                                 /\ same' = same \ {i}
    /\ UNCHANGED <<browserUp, brainUp, browsed, late, daemon, bpc, unread, payload, report, bfaults>>
Rewritten ==
    /\ \E i \in DOMAIN capture, new \in Captures :
          /\ ~capture[i].parses /\ i \in DOMAIN new /\ new[i].parses
          /\ <<new[i].dir, new[i].base>> = <<capture[i].dir, capture[i].base>>
          /\ capture' = [capture EXCEPT ![i] = new[i]] /\ same' = same \ {i}
    /\ UNCHANGED <<browserUp, brainUp, browsed, late, daemon, bpc, unread, payload, report, bedits, bfaults>>

\* An unreadable file is made readable by hand.
Repair ==
    /\ \E i \in DOMAIN capture : /\ ~capture[i].readable
                                 /\ capture' = [capture EXCEPT ![i].readable = TRUE]
    /\ UNCHANGED <<browserUp, brainUp, same, browsed, late, daemon, bpc, unread, payload, report,
                   bedits, bfaults>>

\* SIGTERM cancels the request and ends the program without an error.
Stop ==
    /\ bpc \notin {"off", "gone"} /\ bfaults < MaxBrowserFaults /\ bfaults' = bfaults + 1
    /\ bpc' = (IF daemon.interval THEN "gone" ELSE "off") /\ unread' = <<>> /\ payload' = {}
    /\ late' = IF bpc = "push" /\ brainUp THEN late \cup {payload} ELSE late
    /\ UNCHANGED <<world, browsed, daemon, report, bedits>>

BrowserInit ==
    /\ capture \in Captures /\ browserUp \in BOOLEAN /\ brainUp = TRUE
    /\ browsed = {} /\ late = {}
    /\ daemon \in [interval : BOOLEAN, skip : BOOLEAN]
    /\ bpc = "off" /\ unread = <<>> /\ payload = {} /\ same = {} /\ report = NoReport
    /\ bedits = 0 /\ bfaults = 0

BrowserStep == Extract \/ LoadFile \/ Loaded \/ \E a \in {"ok", "down", "refused", "timeout"} : Push(a)

BrowserNext ==
    \/ BeginCycle \/ BrowserStep
    \/ BrainCatchesUp \/ BrainStops \/ Rebuild \/ BrainStarts
    \/ Rewrite \/ Rewritten \/ Repair \/ Stop

-----------------------------------------------------------------------------
(* What a cycle reports as done is done: when one is over without an error,  *)
(* the brain holds a leaf for every entry of every file that was not being   *)
(* rewritten meanwhile.  A rebuild removes them again.                       *)
OkCycleIsComplete ==
    [][~report.over /\ report'.over /\ ~report'.err =>
          \A i \in same \cap DOMAIN capture :
              sourceFromPath(capture[i]) => convert(capture[i]) \subseteq browsed']_browserVars

(* Started by the timer, the daemon brings every entry of the last capture   *)
(* into the brain, whether the browser is up or not, and again after a       *)
(* rebuild has removed it, unless the brain stays down or a file unreadable. *)
Hindered == ~brainUp \/ \E f \in ToSet(capture) : sourceFromPath(f) /\ ~f.readable
EventuallyPushed ==
    ~daemon.interval => []<>Hindered \/ <>[](Convertible \subseteq browsed)

=============================================================================
