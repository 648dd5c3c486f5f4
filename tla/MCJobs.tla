------------------------------- MODULE MCJobs -------------------------------
(* Values for model checking the programs that run over the database, the    *)
(* canon and the chats and come to an end.  A behaviour belongs to one of    *)
(* them, its scene; the variables of the others keep one initial value.      *)
EXTENDS CorpusWrite, GraphImport, ChatFlow, StackWave, FactStore, FactAudit,
        CanonStore, DocTables, NetworkExport, MCSearch

VARIABLE scene

-----------------------------------------------------------------------------
(* CorpusWrite and GraphImport. *)

File(kind, keys) == [kind |-> kind, leafs |-> keys, bad |-> FALSE, dir |-> FALSE]
Unlisted(kind) == [kind |-> kind, leafs |-> <<>>, bad |-> TRUE, dir |-> TRUE]
MCCorpora ==
    {<<File("docs", <<"a", "b">>), File("mail", <<"a", "z", "c">>)>>,
     <<File("docs", <<"a">>), File("git", <<"b", "b">>), File("gator", <<"c", "z">>)>>,
     <<File("docs", <<"a", "z">>), Unlisted("chats"), [File("gator", <<"b">>) EXCEPT !.bad = TRUE]>>}
MCCommands ==
    {[tool |-> "index", skip |-> FALSE, limit |-> 0, model |-> TRUE],
     [tool |-> "index", skip |-> FALSE, limit |-> 3, model |-> FALSE],
     [tool |-> "index", skip |-> TRUE, limit |-> 0, model |-> TRUE],
     [tool |-> "leaf", skip |-> TRUE, limit |-> 0, model |-> FALSE],
     [tool |-> "git", skip |-> FALSE, limit |-> 0, model |-> FALSE]}

Low(b) == [box |-> b, up |-> FALSE]
Upper(b) == [box |-> b, up |-> TRUE]
People == <<[role |-> "SENT", addr |-> Low("ann"), name |-> "Ann"],
            [role |-> "TO", addr |-> Upper("bob"), name |-> "Bob"],
            [role |-> "CC", addr |-> Low("bob"), name |-> "B."],
            [role |-> "BCC", addr |-> Low(NoBox), name |-> ""]>>
MailRow(id, ver, date, reply) ==
    [id |-> id, ver |-> ver, deleted |-> FALSE, ok |-> TRUE, date |-> date, reply |-> reply,
     people |-> People]
Hive(g, w) == [c \in {"gm", "wg"} |-> IF c = "gm" THEN g ELSE w]

\* The parent comes last, undated, in another channel, or is deleted; a cycle.
MCHives ==
    {Hive({MailRow("m2", 1, 2, "m1"), MailRow("m3", 1, 3, "m2")}, {MailRow("m1", 1, 1, NoId)}),
     Hive({MailRow("m1", 1, 0, NoId), MailRow("m2", 1, 2, "m1"), MailRow("m3", 1, 3, "m2"),
           MailRow(NoId, 1, 1, "m1")}, {}),
     Hive({MailRow("m1", 1, 1, "m3"), MailRow("m2", 1, 2, "m1"), MailRow("m3", 1, 0, "m2"),
           [MailRow("m1", 2, 1, "m2") EXCEPT !.ok = FALSE]},
          {MailRow("m3", 1, 1, "m3")}),
     Hive({MailRow("m1", 1, 1, "m3"), MailRow("m2", 1, 2, "m1"), MailRow("m3", 2, 3, "m2")},
          {MailRow("m1", 1, 1, NoId), [MailRow("m1", 2, 1, NoId) EXCEPT !.deleted = TRUE]})}

CommitRow(repo, d, addr, name) ==
    [repo |-> repo, sha |-> "s1", date |-> d, addr |-> addr, name |-> name]
MCHistories ==
    {<<[repo |-> "r1", bad |-> FALSE, commits |-> <<CommitRow("r1", 2, Upper("bob"), "bob"),
                                                   CommitRow("r1", 2, Upper("bob"), "again")>>],
       [repo |-> "r2", bad |-> TRUE, commits |-> <<>>]>>,
     <<[repo |-> "r1", bad |-> FALSE, commits |-> <<CommitRow("r1", 2, Low(NoBox), "anon")>>],
       [repo |-> "r2", bad |-> FALSE, commits |-> <<CommitRow("r2", 1, Low("ann"), "Ann")>>]>>}
MCGraphCommands ==
    {[tool |-> "mail", channel |-> c, commit |-> TRUE, skip |-> s] : c \in {"gm", "wg"}, s \in BOOLEAN}
      \cup {[tool |-> "mail", channel |-> "gm", commit |-> FALSE, skip |-> FALSE],
            [tool |-> "git", channel |-> "", commit |-> TRUE, skip |-> TRUE]}

-----------------------------------------------------------------------------
(* ChatFlow and StackWave. *)

MCChats == {"t1", "t2", "l1", "w1", "w2"}
MCPlatformOf ==
    [c \in MCChats |-> CASE c \in {"t1", "t2"} -> "telegram" [] c = "l1" -> "linkedin" [] OTHER -> "whatsapp"]
Says(who, text, out, facts) == [from |-> who, text |-> text, out |-> out, facts |-> facts]
Phone(n) == [type |-> "phone", value |-> [raw |-> n, digits |-> n]]
Email(e, digits) == [type |-> "email", value |-> [raw |-> e, digits |-> digits]]
MCMsgsOf ==
    [c \in MCChats |->
        CASE c = "t1" -> <<Says("ann lee", TRUE, FALSE, {Phone("1"), Phone("2"), Email("ann7", "7")}),
                         Says("me", TRUE, TRUE, {})>>
          [] c = "t2" -> <<Says("", TRUE, FALSE, {Email("ann@x", NoDigits)}),
                           Says("ann lee", TRUE, FALSE, {Email("lee", NoDigits)})>>
          [] c = "l1" -> <<Says("bob", TRUE, FALSE, {}), Says("bob", FALSE, FALSE, {})>>
          [] c = "w1" -> <<Says("ann lee", TRUE, FALSE, {})>>
          [] c = "w2" -> <<Says("ann lee", FALSE, FALSE, {})>>]
\* Once contact 1 has the address ann@x it is found as "ann", before contact 2.
MCFirstWord == [n \in {"", "ann", "ann lee", "me", "bob"} |-> IF n = "ann lee" THEN "ann" ELSE n]
MCListedFor == [q \in DOMAIN MCFirstWord |-> CASE q = "" -> 1 .. 3 [] q = "ann" -> 1 .. 2 [] OTHER -> {}]
MCMatching == [q \in DOMAIN MCFirstWord |-> CASE q = "" -> 1 .. 3 [] q = "ann" -> {2} [] OTHER -> {}]
MCWithin == [e \in {"7", "ann@x", "lee"} |-> IF e = "ann@x" THEN {"", "ann"} ELSE {""}]

Opt(chats, mail, contacts, git, dry, only) ==
    [chats |-> chats, mail |-> mail, contacts |-> contacts, git |-> git, dry |-> dry, only |-> only]
MCWaveOptions == {Opt(b, b, b, b, FALSE, {}) : b \in BOOLEAN} \cup
    {Opt(TRUE, FALSE, FALSE, FALSE, FALSE, {"mail", "chats"}), Opt(TRUE, TRUE, TRUE, TRUE, TRUE, {})}

-----------------------------------------------------------------------------
(* FactStore and FactAudit. *)

ComposeFile(base, services) == [base |-> base, services |-> services]
Company(name, staff) == [name |-> name, persons |-> staff]
Org(id, label) == [id |-> id, label |-> label]
MCWords == [n \in {"acme gmbh", "acme", "globex", "client one", "Globex AG", "o3"} |->
              CASE n = "acme gmbh" -> {"acme", "gmbh"} [] n = "acme" -> {"acme"}
                [] n = "globex" -> {"globex"} [] n = "client one" -> {"client"}
                [] n = "Globex AG" -> {"globex", "ag"} [] n = "o3" -> {"o3"}]
MCWorlds ==
    {[running |-> {"web", "db"}, ssh |-> {"web", "host"}, documented |-> {"host"},
      dir |-> [n \in {"web", "db"} |-> IF n = "web" THEN <<ComposeFile("compose.yaml", {"db"}), ComposeFile("compose.yml", {"web"})>> ELSE <<>>],
      composes |-> <<ComposeFile("compose.yaml", {"web"}), ComposeFile("other.yaml", {"db"})>>,
      orgs |-> <<Org("o1", "acme gmbh"), Org("o2", "client one"), Org("o3", "")>>,
      companies |-> <<Company("acme", {"alice"}), Company("client one", {"bob"})>>,
      projects |-> {[title |-> "rocket", companies |-> {"acme", "client one"}]}],
     [running |-> {"web"}, ssh |-> {}, documented |-> {"host"},
      dir |-> [n \in {"web", "db"} |-> <<ComposeFile("compose.yaml", {"web", "db"})>>],
      composes |-> <<ComposeFile("compose.yaml", {})>>,
      orgs |-> <<Org("o1", "globex")>>,
      companies |-> <<Company("acme", {"alice"}), Company("Globex AG", {})>>,
      projects |-> {}]}
Only(a) == [yes |-> <<a>>, no |-> <<>>]
MCInfoLeafs == {Leaf(<<"note">>, Only("docs"), "README.md", "seed", "info", "confirmed", "kb/index", "README.md")}
MCJsonFacts == {Leaf(<<"told">>, Only("chat"), "", "", "", "", "", "chat")}
MCClientLeafs ==
    {Leaf(<<"twice">>, Pair("git", "git"), "", "fact", "info", "", "", ""),
     Leaf(<<"once">>, Only("mail"), "", "fact", "facts", "hypothesis", "", ""),
     Leaf(<<"pair">>, Pair("git", "mail"), "m1", "fact", "info", "confirmed", "kb/index", ""),
     Leaf(<<"clash">>, [yes |-> <<"a", "b">>, no |-> <<"c", "d">>], "", "fact", "", "", "", ""),
     Leaf(<<"in compose", "web">>, Pair("docker ps", "compose.yaml"), "", "fact", "info", "partial", "", "")}

Card(what, premises, v) ==
    [claim |-> what, date |-> "today", counter |-> "none", premises |-> premises,
     inference |-> "deduction", verdict |-> v]
MCCards == {Card("c1", {"FACT-"}, "accept"), Card("c2", {"note"}, "accept"), Card("c3", {}, "weaken")}
Url(r, s) == [resource |-> r, spelling |-> s, ok |-> TRUE]
MCUrls == {Url("u", "u"), Url("u", "u?ref"), Url("v", "v"), Url("", ""), [resource |-> "", spelling |-> "ftp", ok |-> FALSE]}
Row(id, url, attr, neg, conf, from, to) ==
    [id |-> id, fact |-> TRUE, url |-> url, attr |-> attr, neg |-> neg, conf |-> conf, from |-> from, to |-> to]
MCDays == 1..3
Spans == {<<0, 0>>, <<0, 1>>, <<1, 2>>, <<2, 0>>, <<2, 2>>}
Yes == {Row(1, u, a, FALSE, c, e[1], e[2]) : u \in {Url("u", "u"), Url("v", "v")}, a \in {"open", ""},
                                             c \in {"", "partial"}, e \in Spans}
No == {Row(2, u, "open", TRUE, c, e[1], e[2]) : u \in MCUrls, c \in {"confirmed", "hypothesis"}, e \in Spans}
Other == {Row(3, Url("u", "u?ref"), "open", n, "", 3, 3) : n \in BOOLEAN}
MCFactRows == {{y, n, o} : y \in Yes, n \in No, o \in Other}
Src(id, kind, stale) == [id |-> id, kind |-> kind, stale |-> stale]
MCSources == {Src(i, k, s) : i \in {"a", "b", ""}, k \in {"runtime", "narrative"}, s \in BOOLEAN}
Lists == {<<a>> : a \in MCSources} \cup {<<Src("a", "runtime", s), b>> : s \in BOOLEAN, b \in MCSources} \cup
         {<<Src("c", "runtime", FALSE), a, Src("b", "config", FALSE)>> : a \in MCSources}
MCClaims == {[yes |-> y, no |-> n] : y \in Lists, n \in Lists}

-----------------------------------------------------------------------------
(* CanonStore and DocTables; the values of HybridSearch are in MCSearch. *)

Letter(id, refs, text) ==
    [mail |-> TRUE, ok |-> TRUE, from |-> "ann", sent |-> "d1", msgid |-> id, refs |-> refs,
     irt |-> refs, text |-> text, html |-> "html", atts |-> <<>>]
ChatLine(who, text, when) ==
    [mail |-> FALSE, ok |-> TRUE, platform |-> "telegram", thread |-> [parts |-> <<"c1">>, sep |-> ""],
     from |-> who, text |-> text, sent |-> when, reply |-> NoName]
IdA == [parts |-> <<"a", "b">>, sep |-> "/"]
IdB == [parts |-> <<"a", "b">>, sep |-> "-"]
IdC == [parts |-> <<"c">>, sep |-> ""]
MCFeeds ==
    {<< <<Letter(IdA, <<>>, "one"), Letter(IdC, <<IdA>>, "")>>,
        <<Letter(IdA, <<>>, "one"), [Letter(NoName, <<>>, "") EXCEPT !.html = "x"], Letter(IdC, <<IdA>>, "more")>> >>,
     << <<Letter(IdA, <<>>, "one"), Letter(IdB, <<IdA>>, "two"), [Letter(IdC, <<>>, "bad") EXCEPT !.ok = FALSE]>>,
        <<Letter(IdB, <<IdA>>, "three"), Letter(IdC, <<>>, "good")>> >>,
     << <<Letter(IdA, <<>>, "one"), Letter(IdC, <<>>, "two")>>, <<Letter(IdB, <<>>, "three")>>, <<Letter(IdA, <<>>, "one"), Letter(IdC, <<>>, "four")>> >>,
     << <<ChatLine("ann", "ok", "d1"), ChatLine("bob", "ok", "d2")>>,
        <<ChatLine("ann", "ok", "d1"), ChatLine("bob", "ok", "d2"), ChatLine("ann", "ok", "d3")>> >>}

Frag(no, x, y, font) == [no |-> no, x |-> x, y |-> y, w |-> 4, font |-> font]
FragmentsAt ==
    {Frag(1, 0, 0, 8), Frag(2, 9, 1, 8), Frag(3, 5, 2, 0), Frag(4, 0, 6, 8), Frag(5, 9, 7, 8),
     Frag(6, 2, 12, 8), Frag(7, 0, 18, 8), Frag(8, 9, 20, 2), Frag(9, 0, 24, 8), Frag(10, 0, 24, 8)}
BoxOf(x, y, w, h) == [x |-> x, y |-> y, w |-> w, h |-> h]
BoxChoices == {<<>>, <<BoxOf(0, 0, 20, 13), BoxOf(0, 13, 20, 20)>>, <<BoxOf(0, 0, 20, 22), BoxOf(0, 5, 20, 30)>>}
MCDocuments ==
    [fast : {"blank"}, lit : {"ok"},
     pages : {<<[items |-> i, boxes |-> b]>> :
                i \in {FragmentsAt \ out : out \in SUBSET {f \in FragmentsAt : f.no \notin {1, 10}}},
                b \in BoxChoices}]
      \cup [fast : {"text", "blank", "error"}, lit : {"ok", "error"},
            pages : {<<[items |-> {}, boxes |-> <<>>], [items |-> FragmentsAt, boxes |-> <<>>]>>}]

-----------------------------------------------------------------------------
(* NetworkExport: 2 is a person, 3 a role box, 4 a service, 5 a colleague, 6 *)
(* another role box of the company.                                          *)

MCKindOf ==
    [q \in 1..6 |-> CASE q \in {3, 6} -> "company" [] q = 4 -> "service" [] OTHER -> "person"]
MCCompanyOf == [q \in 1..6 |-> IF q \in {3, 6} THEN 1 ELSE NoCompany]
Wrote(id, day, from, to, cc, parent) ==
    [id |-> id, day |-> day, from |-> from, to |-> to, cc |-> cc, bcc |-> {5}, parent |-> parent]
MCGraphs ==
    {[letters |-> {Wrote("m1", 1, 1, {2}, {3}, ""), Wrote("m2", 2, 2, {1}, {6}, "m1"),
                   Wrote("m3", 0, 3, {}, {1}, "m0"), Wrote("m4", 2, 4, {1}, {}, ""),
                   Wrote("m5", 3, 4, {1, 6}, {}, "")},
      commits |-> {[repo |-> "r", day |-> d, who |-> q] : d \in {1, 3}, q \in {1, 5}}],
     [letters |-> {Wrote("m1", 1, 2, {3}, {1}, ""), Wrote("m2", 3, 6, {2}, {1}, ""),
                   Wrote("m3", 2, 1, {6}, {}, ""), Wrote("m4", 2, 0, {1}, {2}, "m1")},
      commits |-> {[repo |-> "r", day |-> 1, who |-> 1], [repo |-> "r", day |-> 3, who |-> 2]}]}
Export(project, since, until, limit, personOnly) ==
    [project |-> project, since |-> since, until |-> until, limit |-> limit, personOnly |-> personOnly]
MCNetCommands == {Export("", 0, 0, 0, FALSE), Export("r", 2, 0, 0, FALSE), Export("", 0, 2, 2, TRUE)}
Crm(write, all, limit) ==
    [write |-> write, backfill |-> all, companies |-> all, limit |-> limit]
MCCrmCommands == {Crm(TRUE, TRUE, 0), Crm(TRUE, FALSE, 1), Crm(FALSE, TRUE, 0)}
MCBooks ==
    {<<[Contact("hand", "given", "none") EXCEPT !.email = 2], Contact("hand", "none", "hand")>>}

-----------------------------------------------------------------------------
Some(S) == CHOOSE x \in S : TRUE

Scenes == {"corpus", "graph", "chats", "wave", "facts", "cards", "formal", "contradict",
           "canon", "pages", "network", "search"}

JobsInit ==
    /\ scene \in Scenes
    /\ scene # "corpus" => corpus = Some(Corpora) /\ cmd = Some(Commands)
    /\ scene # "graph" => hive = Some(Hives) /\ history = Some(Histories) /\ gcmd = Some(GraphCommands)
    /\ scene # "wave" => wopts = Some(WaveOptions) /\ container = FALSE /\ api = "down" /\ daemon = "down"
    /\ scene # "facts" => world = Some(Worlds)
    /\ scene # "formal" => rows = Some(FactRows)
    /\ scene # "contradict" => claim = Some(Claims)
    /\ scene # "canon" => feed = Some(Feeds)
    /\ scene # "pages" => doc = Some(Documents) /\ force = FALSE
    /\ scene # "network" => /\ made = [graph |-> Some(Graphs), cmd |-> Some(NetCommands)]
                            /\ book = Some(Books) /\ ccmd = Some(CrmCommands)
    /\ scene # "search" => held = Some(Brains) /\ ask = Some(Asks)
    /\ CorpusInit /\ GraphInit /\ ChatInit /\ WaveInit /\ FactInit /\ AuditInit
    /\ CanonInit /\ DocInit /\ NetInit /\ SearchInit

importVars == <<corpusVars, graphVars>>
talkVars == <<chatVars, waveVars>>
reasonVars == <<factVars, auditVars>>
paperVars == <<canonVars, docVars>>
outVars == <<netVars, searchVars>>
jobsVars == <<scene, importVars, talkVars, reasonVars, paperVars, outVars>>

\* Only the programs of the scene move.
JobsNext ==
    \/ scene = "corpus" /\ CorpusNext /\ UNCHANGED <<scene, graphVars, talkVars, reasonVars, paperVars, outVars>>
    \/ scene = "graph" /\ GraphNext /\ UNCHANGED <<scene, corpusVars, talkVars, reasonVars, paperVars, outVars>>
    \/ scene = "chats" /\ ChatNext /\ UNCHANGED <<scene, waveVars, importVars, reasonVars, paperVars, outVars>>
    \/ scene = "wave" /\ WaveNext /\ UNCHANGED <<scene, chatVars, importVars, reasonVars, paperVars, outVars>>
    \/ scene = "facts" /\ FactNext /\ UNCHANGED <<scene, auditVars, importVars, talkVars, paperVars, outVars>>
    \/ scene = "cards" /\ AuditNext /\ UNCHANGED <<scene, factVars, importVars, talkVars, paperVars, outVars>>
    \/ scene = "canon" /\ CanonNext /\ UNCHANGED <<scene, docVars, importVars, talkVars, reasonVars, outVars>>
    \/ scene = "pages" /\ DocNext /\ UNCHANGED <<scene, canonVars, importVars, talkVars, reasonVars, outVars>>
    \/ scene = "search" /\ SearchNext /\ UNCHANGED <<scene, netVars, importVars, talkVars, reasonVars, paperVars>>
    \/ scene = "network" /\ NetNext /\ UNCHANGED <<scene, searchVars, importVars, talkVars, reasonVars, paperVars>>
JobsSpec == JobsInit /\ [][JobsNext]_jobsVars
=============================================================================
