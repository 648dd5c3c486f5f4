------------------------------ MODULE MCIntake ------------------------------
(* Values for model checking the programs that bring material in: mail from    *)
(* servers, archives and other mailboxes, pages from the browser.  A behaviour *)
(* belongs to one of them, its source; the variables of the others keep one    *)
(* initial value.                                                              *)
EXTENDS MailWatch, EtlRunner, ArchiveImport, Incubator, BrowserSync, CorpusWatch

VARIABLE source

-----------------------------------------------------------------------------
(* EtlRunner and ArchiveImport. *)

EmlAt(d, x, ok) == [dir |-> d, kind |-> "file", eml |-> TRUE, bytes |-> x, ok |-> ok]
MCCorpora == {<<EmlAt(1, "a", TRUE), EmlAt(2, "b", FALSE), EmlAt(3, "c", TRUE), EmlAt(4, "d", TRUE)>>,
  <<EmlAt(1, "a", TRUE), EmlAt(1, "f", TRUE), [EmlAt(1, "k", TRUE) EXCEPT !.kind = "linkdir"], EmlAt(1, "b", TRUE), [EmlAt(2, "c", TRUE) EXCEPT !.eml = FALSE], [EmlAt(2, "d", TRUE) EXCEPT !.kind = "inside"], [EmlAt(2, "e", TRUE) EXCEPT !.kind = "outside"]>>}

Mail(f, x, ok) == [folder |-> <<f>>, id |-> x, ok |-> ok]
MCArchiveConfigs == {
  <<[seg |-> "one", letters |-> <<Mail("in", "a", TRUE), Mail("sent", "a", TRUE), Mail("Trash", "b", TRUE)>>],
    [seg |-> "two", letters |-> <<Mail("in", "c", TRUE)>>]>>, <<[seg |-> "one", letters |-> <<Mail("in", "a", TRUE), Mail("in", "g", FALSE)>>]>>,
  <<[seg |-> "one", letters |-> <<Mail("in", "a", TRUE)>>], [seg |-> "one", letters |-> <<Mail("in", "c", TRUE)>>]>>}
MCMailboxes == {<<Mail("x", "d", TRUE), Mail("x", "e", TRUE), Mail("Trash", "f", TRUE)>>}
MCPolicyFolders == {<<"Trash">>}

-----------------------------------------------------------------------------
(* Incubator and BrowserSync. *)

Letter(k, from, to, big) == [mid |-> k, hash |-> k, from |-> {from}, to |-> {to}, dir |-> <<"Old", "0001">>, ok |-> TRUE, big |-> big]
Slice(letters, owner, strict, skip) == [letters |-> letters, owner |-> owner, strict |-> strict, skipFrom |-> {"shop"}, skipState |-> skip]
LongSlice == <<Letter("k1", "ann", "bob", FALSE), Letter("k0", "shop", "bob", FALSE), Letter("k2", "bob", "ann", TRUE),
        Letter("k1", "ann", "bob", FALSE), Letter("k3", "cid", "dan", FALSE), Letter("k4", "cid", "bob", FALSE)>>
ShortSlice == <<[Letter("k2", "bob", "ann", FALSE) EXCEPT !.dir = <<"0002">>], [Letter("k5", "bob", "ann", FALSE) EXCEPT !.mid = "none"], Letter("k5", "bob", "ann", FALSE)>>
MCImports == {<<Slice(LongSlice, "bob", FALSE, {2}), Slice(ShortSlice, "", FALSE, {1})>>,
              <<Slice(LongSlice, "bob", TRUE, {2}), Slice(LongSlice, "ann", TRUE, {1})>>,
              <<Slice(LongSlice, "", TRUE, {}), Slice(<<[Letter("k1", "ann", "bob", FALSE) EXCEPT !.ok = FALSE]>>, "", FALSE, {1})>>}
Cmd(l, fo, f, d) == [limit |-> l, folders |-> fo, force |-> f, dry |-> d]
MCIncubatorCommands == {Cmd(0, FALSE, FALSE, FALSE), Cmd(2, TRUE, FALSE, FALSE), Cmd(0, FALSE, TRUE, FALSE), Cmd(0, FALSE, TRUE, TRUE)}

Row(part, name, who, at) == [part |-> part, name |-> name, who |-> who, at |-> at]
Capture(dir, base, owner, title, rows, counters) ==
    [dir |-> dir, base |-> base, owner |-> owner, title |-> title, rows |-> rows,
     counters |-> counters, readable |-> TRUE, parses |-> TRUE]
MCCaptures ==
    {<<Capture("djinni", "dashboard", "", "week 1", <<Row("jobs", "dev", "", "acme"), Row("jobs", "", "", "x")>>, {0, 4}),
       Capture("gmail", "inbox", "me", "", <<Row("emails", "hello", "", "t1"), Row("emails", "", "ann", "")>>, {}),
       Capture("notes", "any", "", "", <<>>, {})>>,
     <<Capture("djinni", "dashboard", "", "week 2", <<>>, {0, 5}),
       [Capture("gmail", "inbox", "", "", <<Row("emails", "hello", "bob", "")>>, {}) EXCEPT !.readable = FALSE]>>,
     <<Capture("linkedin", "connections", "", "", <<Row("connections", "ann", "", ""), Row("connections", "", "x", "")>>, {}),
       Capture("linkedin", "profile", "me", "dev", <<Row("experience", "dev", "", "acme"), Row("education", "tu", "", "")>>, {})>>,
     <<Capture("djinni", "applications", "", "", <<Row("entries", "dev", "", "")>>, {}),
       Capture("djinni", "messages", "", "", <<Row("threads", "hi", "", "acme")>>, {}),
       Capture("djinni", "profile", "me", "", <<Row("current_role", "lead", "", ""), Row("skills", "go", "", "")>>, {})>>,
     <<Capture("djinni", "dashboard", "", "", <<>>, {0})>>}

-----------------------------------------------------------------------------
Some(S) == CHOOSE x \in S : TRUE

IntakeInit ==
    /\ source \in {"mail", "etl", "archive", "mailbox", "browser", "corpus"}
    /\ source # "etl" => files = Some(Corpora)
    /\ source # "archive" => sources = Some(ArchiveConfigs) /\ mbox = Some(Mailboxes)
    /\ source # "mailbox" => imports = Some(Imports) /\ icmd = Some(IncubatorCommands)
    /\ source # "browser" => /\ capture = Some(Captures) /\ browserUp = TRUE
                             /\ daemon = [interval |-> TRUE, skip |-> TRUE]
    /\ source # "corpus" => version = 0
    /\ Init /\ EtlInit /\ ArchiveInit /\ IncubatorInit /\ BrowserInit /\ WatcherInit

mailVars == <<vars, etlVars, archiveVars>>
pageVars == <<incubatorVars, browserVars, watcherVars>>
intakeVars == <<source, mailVars, pageVars>>

\* Only the program of the source moves.
IntakeNext ==
    \/ source = "mail" /\ Next /\ UNCHANGED <<source, etlVars, archiveVars, pageVars>>
    \/ source = "etl" /\ EtlNext /\ UNCHANGED <<source, vars, archiveVars, pageVars>>
    \/ source = "archive" /\ ArchiveNext /\ UNCHANGED <<source, vars, etlVars, pageVars>>
    \/ source = "mailbox" /\ IncubatorNext /\ UNCHANGED <<source, mailVars, browserVars, watcherVars>>
    \/ source = "browser" /\ BrowserNext /\ UNCHANGED <<source, mailVars, incubatorVars, watcherVars>>
    \/ source = "corpus" /\ WatcherNext /\ UNCHANGED <<source, mailVars, incubatorVars, browserVars>>

IntakeSpec ==
    /\ IntakeInit /\ [][IntakeNext]_intakeVars
    /\ WF_vars(source = "mail" /\ Cycle)
    /\ WF_browserVars(source = "browser" /\ BeginCycle)
    /\ WF_browserVars(source = "browser" /\ BrowserStep)
    /\ WF_watcherVars(source = "corpus" /\ WatcherStep)
=============================================================================
