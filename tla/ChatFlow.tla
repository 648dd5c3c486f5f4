------------------------------ MODULE ChatFlow ------------------------------
(***************************************************************************)
(* The chat programs: sync telegram / linkedin / whatsapp writes one       *)
(* messages.jsonl per chat, import turns them into markdown, facts extracts *)
(* phones and addresses, apply pushes those to the OnlyOffice CRM.         *)
(*                                                                         *)
(* The platform holds, per chat, the messages MsgsOf[c] of which `sent[c]`  *)
(* have been sent so far.  A message is [from, out, text, facts]; a fact   *)
(* value is [raw, digits], what it is and the digits it contains.  A file   *)
(* of messages is the set of their numbers, for they are written in order.  *)
(***************************************************************************)
EXTENDS Integers, FiniteSets, Sequences, SequencesExt

CONSTANTS
    Chats,        \* ids of chats
    PlatformOf,   \* [Chats -> "telegram", "linkedin" or "whatsapp"]
    MsgsOf,       \* [Chats -> messages, oldest first]
    Limit,        \* --limit (100): the last messages of a chat that are fetched
    Contacts,     \* contacts of the CRM, numbered in the order it lists them
    FirstWord,    \* [chat names -> their first word]
    ListedFor,    \* [queries -> contacts the CRM lists for them, whatever is pushed]
    Matching,     \* [queries -> those of them the program takes for a match by name]
    Within,       \* [addresses -> the queries they contain]
    Self,         \* own addresses, never pushed
    Attempts,     \* callTool: 3
    MaxChatRuns, MaxChatFaults

NoFile == {-1}       \* messages.jsonl does not exist
Failed == {-1}       \* the server answered with an error
NoAnswer == {-2}
NoFacts == {}        \* chat-facts.json does not exist: it is never written empty
NoContact == 0
NoDigits == ""

ASSUME ChatAssumption ==
    /\ IsFiniteSet(Chats)
    /\ \A c \in Chats : /\ MsgsOf[c] \in Seq(ToSet(MsgsOf[c])) /\ MsgsOf[c] # <<>>
                        /\ \A m \in ToSet(MsgsOf[c]) : m.from \in DOMAIN FirstWord
    /\ Contacts \subseteq Nat \ {NoContact} /\ "" \in DOMAIN FirstWord
    /\ \A n \in DOMAIN FirstWord : ListedFor[n] \cup ListedFor[FirstWord[n]] \subseteq Contacts

VARIABLES
    sent,      \* messages sent so far, per chat
    jsonl,     \* messages.jsonl, per chat: NoFile or the numbers of its messages
    md,        \* messages.md, per platform and chat name: [chat, msgs]
    factsFile, \* chat-facts.json: a set of [name, type, value]
    crm,       \* data of every contact: pairs <<type, value>>
    prog, step,   \* the running program and its step
    queue,     \* chats it still has to do
    attempt,   \* callTool attempts made for the first of them
    second,    \* the LinkedIn server has been restarted for it
    answer,    \* the messages fetched for it, or Failed
    live,      \* the deadline of the run has not passed
    todo,      \* apply: the info-add calls left, [k, f] of a contact and a fact
    missed,    \* a file was not written, a search or an add failed
    settled,   \* an apply went through since the facts or the CRM changed
    failedSync,   \* chats whose last Telegram fetch failed or had nothing to show
    cut,       \* chats whose file was open when a program was killed or a write failed
    cruns, cfaults

syncVars == <<queue, attempt, second, answer, live>>
applyVars == <<todo, missed, settled>>
chatVars == <<sent, jsonl, md, factsFile, crm, prog, step, syncVars, applyVars,
              failedSync, cut, cruns, cfaults>>

Msg(c, n) == MsgsOf[c][n]
Tool(p) == p \in {"telegram", "linkedin", "whatsapp"}

\* What the platform returns: the last Limit messages.
Window(c) == {n \in 1 .. sent[c] : sent[c] - n < Limit}

\* Own Telegram messages and messages without text are left out.
Kept(c, w) == {n \in w : Msg(c, n).text /\ ~(PlatformOf[c] = "telegram" /\ Msg(c, n).out)}

-----------------------------------------------------------------------------
ChatInit ==
    /\ sent = [c \in Chats |-> 1]
    /\ jsonl = [c \in Chats |-> NoFile]
    /\ md = <<>> /\ factsFile = NoFacts
    /\ crm = [k \in Contacts |-> {}]
    /\ prog = "none" /\ step = "idle"
    /\ queue = <<>> /\ attempt = 0 /\ second = FALSE /\ answer = NoAnswer /\ live = TRUE
    /\ todo = {} /\ missed = FALSE /\ settled = FALSE
    /\ failedSync = {} /\ cut = {}
    /\ cruns = 0 /\ cfaults = 0

MessageSent(c) ==
    /\ sent[c] < Len(MsgsOf[c])
    /\ sent' = [sent EXCEPT ![c] = @ + 1]
    /\ UNCHANGED <<jsonl, md, factsFile, crm, prog, step, syncVars, applyVars, failedSync,
                   cut, cruns, cfaults>>

ChatFault == cfaults < MaxChatFaults /\ cfaults' = cfaults + 1

\* A program starts; without credentials or session files it skips (exit 3).
ChatStart(p) ==
    /\ step = "idle" /\ cruns < MaxChatRuns
    /\ cruns' = cruns + 1 /\ prog' = p
    /\ queue' = SetToSeq({c \in Chats : IF p = "import" THEN PlatformOf[c] # "linkedin" ELSE PlatformOf[c] = p})
    /\ step' \in (IF Tool(p) THEN {"next", "idle"} ELSE {p})
    /\ attempt' = 0 /\ second' = FALSE /\ answer' = NoAnswer /\ live' = TRUE
    /\ todo' = {} /\ missed' = FALSE
    /\ UNCHANGED <<sent, jsonl, md, factsFile, crm, settled, failedSync, cut, cfaults>>

\* The ten minutes are over: the context kills the server.
Deadline ==
    /\ Tool(prog) /\ prog # "whatsapp" /\ step # "idle" /\ live
    /\ ChatFault /\ live' = FALSE
    /\ UNCHANGED <<sent, jsonl, md, factsFile, crm, prog, step, queue, attempt, second, answer,
                   applyVars, failedSync, cut, cruns>>

WholeHistory(c) == Kept(c, 1 .. sent[c])

\* Telegram and WhatsApp create the file first, LinkedIn fetches first; a WhatsApp
\* chat without content gets no file.
NextChat ==
    /\ step = "next"
    /\ \/ queue = <<>> /\ step' = "idle" /\ UNCHANGED queue
       \/ /\ queue # <<>> /\ prog = "whatsapp" /\ WholeHistory(Head(queue)) = {}
          /\ queue' = Tail(queue) /\ UNCHANGED step
       \/ /\ queue # <<>> /\ ~(prog = "whatsapp" /\ WholeHistory(Head(queue)) = {})
          /\ step' = IF prog = "linkedin" THEN "fetch" ELSE "create"
          /\ UNCHANGED queue
    /\ attempt' = 0 /\ second' = FALSE /\ answer' = NoAnswer
    /\ UNCHANGED <<sent, jsonl, md, factsFile, crm, prog, live, applyVars, failedSync,
                   cut, cruns, cfaults>>

Create ==
    /\ step = "create"
    /\ jsonl' = [jsonl EXCEPT ![Head(queue)] = {}]
    /\ \/ prog = "telegram" /\ step' = "fetch" /\ UNCHANGED answer
       \/ prog = "whatsapp" /\ step' = "write" /\ answer' = WholeHistory(Head(queue))
    /\ UNCHANGED <<sent, md, factsFile, crm, prog, queue, attempt, second, live, applyVars,
                   failedSync, cut, cruns, cfaults>>

\* callTool of LinkedIn: a transient error is retried, three attempts in all; a
\* server that is wedged after that is restarted once.  GetHistory of Telegram
\* has one attempt.
Fetch ==
    /\ step = "fetch"
    /\ \/ /\ live /\ answer' = Kept(Head(queue), Window(Head(queue)))
          /\ step' = "got" /\ UNCHANGED <<attempt, second, cfaults>>
       \/ /\ live /\ prog = "linkedin" /\ ChatFault   \* rate limited: nothing parses
          /\ answer' = {} /\ step' = "got" /\ UNCHANGED <<attempt, second>>
       \/ /\ live /\ prog = "linkedin" /\ attempt + 1 < Attempts
          /\ attempt' = attempt + 1 /\ UNCHANGED <<answer, second, step, cfaults>>
       \/ /\ live /\ prog = "linkedin" /\ attempt + 1 = Attempts /\ ~second
          /\ attempt' = 0 /\ second' = TRUE /\ UNCHANGED <<answer, step, cfaults>>
       \/ /\ IF live THEN ChatFault ELSE UNCHANGED cfaults
          /\ answer' = Failed /\ step' = "got" /\ UNCHANGED <<attempt, second>>
    /\ UNCHANGED <<sent, jsonl, md, factsFile, crm, prog, queue, live, applyVars, failedSync,
                   cut, cruns>>

Skip == step' = "next" /\ queue' = Tail(queue)

\* Mutant: a rate-limited answer is written like any other.
GotAnything ==
    /\ step = "got"
    /\ LET c == Head(queue) IN
       \/ /\ answer = Failed /\ Skip /\ UNCHANGED jsonl
       \/ /\ answer # Failed
          /\ jsonl' = [jsonl EXCEPT ![c] = {}]
          /\ step' = "write" /\ UNCHANGED queue
    /\ failedSync' = failedSync
    /\ UNCHANGED <<sent, md, factsFile, crm, prog, attempt, second, answer, live, applyVars,
                   cut, cruns, cfaults>>

\* An error skips the chat; LinkedIn keeps its file when no message was parsed.
Got ==
    /\ step = "got"
    /\ LET c == Head(queue)
           none == prog = "linkedin" /\ answer = {} IN
       \/ /\ answer = Failed \/ none
          /\ Skip /\ UNCHANGED jsonl
          /\ failedSync' = IF prog = "telegram" THEN failedSync \cup {c} ELSE failedSync
       \/ /\ answer # Failed /\ ~none
          /\ jsonl' = [jsonl EXCEPT ![c] = {}]
          /\ step' = "write"
          /\ failedSync' = IF answer = {} THEN failedSync \cup {c} ELSE failedSync \ {c}
          /\ UNCHANGED queue
    /\ UNCHANGED <<sent, md, factsFile, crm, prog, attempt, second, answer, live, applyVars,
                   cut, cruns, cfaults>>

\* WhatsApp dumps hold the whole history; the others the window.  A message that
\* cannot be written is passed over.  LinkedIn stops at the deadline.
WriteChat ==
    /\ step = "write"
    /\ LET c == Head(queue) IN
       \/ jsonl' = [jsonl EXCEPT ![c] = answer] /\ cut' = cut \ {c} /\ UNCHANGED cfaults
       \/ /\ ChatFault /\ cut' = cut \cup {c}
          /\ \E some \in SUBSET answer : jsonl' = [jsonl EXCEPT ![c] = some]
    /\ queue' = Tail(queue)
    /\ step' = IF prog = "linkedin" /\ ~live THEN "idle" ELSE "next"
    /\ UNCHANGED <<sent, md, factsFile, crm, prog, attempt, second, answer, live, applyVars,
                   failedSync, cruns>>

-----------------------------------------------------------------------------
(* RunImport. *)

HasMessages(c) == jsonl[c] \notin {NoFile, {}}
Senders(c) == {Msg(c, n).from : n \in jsonl[c]} \ {"", "unknown"}
Said(c, who) == Cardinality({n \in jsonl[c] : Msg(c, n).from = who})

\* readJSONL: the most frequent sender; a tie goes by the order of a map.
NamesOf(c) == IF Senders(c) = {} THEN {c}
              ELSE {w \in Senders(c) : \A o \in Senders(c) : Said(c, o) <= Said(c, w)}

\* Mutant: the platform is left out of the path.
MdFileFlat(c, name) == name

MdFile(c, name) == <<PlatformOf[c], name>>

WriteMd(file, text) == md' = [f \in DOMAIN md \cup {file} |-> IF f = file THEN text ELSE md[f]]

Import ==
    /\ step = "import"
    /\ IF queue = <<>>
         THEN step' = "imported" /\ UNCHANGED <<md, queue, missed, cfaults>>
         ELSE LET c == Head(queue) IN
              /\ queue' = Tail(queue) /\ UNCHANGED step
              /\ \/ ~HasMessages(c) /\ UNCHANGED <<md, missed, cfaults>>
                 \/ /\ HasMessages(c)
                    /\ \E name \in NamesOf(c) : WriteMd(MdFile(c, name), [chat |-> c, msgs |-> jsonl[c]])
                    /\ UNCHANGED <<missed, cfaults>>
                 \/ HasMessages(c) /\ ChatFault /\ missed' = TRUE /\ UNCHANGED md
    /\ UNCHANGED <<sent, jsonl, factsFile, crm, prog, attempt, second, answer, live, todo,
                   settled, failedSync, cut, cruns>>

ImportEnds ==
    /\ step = "imported" /\ step' = "idle"
    /\ UNCHANGED <<sent, jsonl, md, factsFile, crm, prog, syncVars, applyVars, failedSync, cut,
                   cruns, cfaults>>

-----------------------------------------------------------------------------
(* RunFacts and RunApply. *)

\* extractFacts: the facts of a chat carry the first sender that is named.
FirstSender(c, n) ==
    LET named == {j \in jsonl[c] : j <= n /\ Msg(c, j).from # ""}
    IN IF named = {} THEN {""} ELSE {Msg(c, j).from : j \in {i \in named : \A o \in named : i <= o}}
FactsOf(c) ==
    UNION {{[name |-> name, type |-> f.type, value |-> f.value] : name \in FirstSender(c, n), f \in Msg(c, n).facts} :
           n \in jsonl[c]}

\* Telegram only; when nothing is found the old file stays.
Facts ==
    /\ step = "facts"
    /\ LET all == UNION {FactsOf(c) : c \in {d \in Chats : PlatformOf[d] = "telegram" /\ HasMessages(d)}}
       IN factsFile' = IF all = {} THEN factsFile ELSE all
    /\ settled' = (settled /\ factsFile' = factsFile)
    /\ step' = "idle"
    /\ UNCHANGED <<sent, jsonl, md, crm, prog, syncVars, todo, missed, failedSync, cut,
                   cruns, cfaults>>

\* normalizePhone keeps the digits of whatever has any, addresses included.
NormalizePhone(v) == IF v.digits # NoDigits THEN v.digits ELSE v.raw

DedupeFacts(fs) == {[name |-> f.name, type |-> f.type, value |-> NormalizePhone(f.value)] : f \in fs}

OfType(t) == DedupeFacts({f \in factsFile : f.type = t})

\* Mutant: an address is looked for among the phones.
HasPhone(k, f) == \E d \in crm[k] : d[1] = "phone"

\* A contact with any phone gets no other; an address is compared whole.
Has(k, f) == IF f.type = "phone" THEN \E d \in crm[k] : d[1] = "phone"
                                 ELSE <<"email", f.value>> \in crm[k]

Searches == OfType("phone") \cup {f \in OfType("email") : f.value \notin Self}

First(ks) == CHOOSE k \in ks : \A j \in ks : k <= j

\* Contacts that have an address with the query in it; apply adds such addresses.
Pushed(q) == {k \in Contacts : \E d \in crm[k] : d[1] = "email" /\ q \in Within[d[2]]}
Matches(q) == (ListedFor[q] \cap Matching[q]) \cup Pushed(q)

\* The first contact listed that matches; when none does, the first one listed.
SearchByQuery(q) ==
    IF ListedFor[q] \cup Pushed(q) = {} THEN NoContact
    ELSE First(IF Matches(q) = {} THEN ListedFor[q] ELSE Matches(q))

\* The full name, then its first word.  A failed search finds nobody.
SearchContact(f, lost) ==
    LET word == FirstWord[f.name]
        full == IF <<f, f.name>> \in lost THEN NoContact ELSE SearchByQuery(f.name) IN
    IF full # NoContact \/ word = f.name \/ <<f, word>> \in lost THEN full ELSE SearchByQuery(word)

LostSearches == IF cfaults < MaxChatFaults THEN {{s} : s \in Searches \X DOMAIN ListedFor} ELSE {}

\* Every search comes before the first add, so two chats that find one contact may
\* add it the same value.  A chat without a name matches whoever the CRM lists
\* first; when that search finds nobody the program panics on the first word of it.
Apply ==
    /\ step = "apply"
    /\ \/ factsFile = NoFacts /\ step' = "idle" /\ UNCHANGED <<todo, missed, cfaults>>
       \/ /\ factsFile # NoFacts
          /\ \E lost \in {{}} \cup LostSearches :
                LET found == {[k |-> SearchContact(f, lost), f |-> f] : f \in Searches}
                    panics == \E r \in found : r.k = NoContact /\ r.f.name = ""
                IN /\ todo' = IF panics THEN {} ELSE {r \in found : r.k # NoContact /\ ~Has(r.k, r.f)}
                   /\ missed' = (lost # {})
                   /\ cfaults' = cfaults + Cardinality(lost)
                   /\ step' = IF panics THEN "idle" ELSE "adding"
    /\ UNCHANGED <<sent, jsonl, md, factsFile, crm, prog, syncVars, settled, failedSync, cut, cruns>>

\* The phones come first.
Add ==
    /\ step = "adding"
    /\ \E r \in todo :
          /\ (\E o \in todo : o.f.type = "phone") => r.f.type = "phone"
          /\ \/ /\ crm' = [crm EXCEPT ![r.k] = @ \cup {<<r.f.type, r.f.value>>}]
                /\ UNCHANGED <<missed, cfaults>>
             \/ ChatFault /\ missed' = TRUE /\ UNCHANGED crm
          /\ todo' = todo \ {r}
    /\ UNCHANGED <<sent, jsonl, md, factsFile, prog, step, syncVars, settled, failedSync, cut, cruns>>

Applied ==
    /\ step = "adding" /\ todo = {}
    /\ settled' = (settled \/ ~missed)
    /\ step' = "idle"
    /\ UNCHANGED <<sent, jsonl, md, factsFile, crm, prog, syncVars, todo, missed, failedSync,
                   cut, cruns, cfaults>>

Killed ==
    /\ step # "idle" /\ ChatFault
    /\ step' = "idle"
    /\ cut' = IF step \in {"fetch", "got", "write"} /\ jsonl[Head(queue)] = {}
                 THEN cut \cup {Head(queue)} ELSE cut
    /\ UNCHANGED <<sent, jsonl, md, factsFile, crm, prog, syncVars, applyVars, failedSync, cruns>>

ChatNext ==
    \/ \E c \in Chats : MessageSent(c)
    \/ \E p \in {"telegram", "linkedin", "whatsapp", "import", "facts", "apply"} : ChatStart(p)
    \/ Deadline \/ NextChat \/ Create \/ Fetch \/ Got \/ WriteChat
    \/ Import \/ ImportEnds \/ Facts \/ Apply \/ Add \/ Applied \/ Killed

-----------------------------------------------------------------------------
(* Properties. *)

\* "Never clobber previously synced data with an empty file" (linkedin.go:358):
\* a file is empty only if a sync was killed while it was open or its messages
\* could not be written, and a Telegram file, besides, if its last fetch failed or
\* had nothing to show.
SyncedStaysSynced ==
    step = "idle" => \A c \in Chats :
        (jsonl[c] = {} /\ c \notin cut) =>
            PlatformOf[c] = "telegram" /\ c \in failedSync

\* After an import without failures every chat with messages is in the markdown
\* corpus, complete, unless another chat of its own platform has the same name.
ImportKeepsChats ==
    (step = "imported" /\ ~missed) => \A c \in Chats :
        (HasMessages(c) /\ PlatformOf[c] # "linkedin") =>
            \/ \E f \in DOMAIN md : md[f] = [chat |-> c, msgs |-> jsonl[c]]
            \/ \E o \in Chats \ {c} : /\ HasMessages(o) /\ PlatformOf[o] = PlatformOf[c]
                                      /\ NamesOf(o) \cap NamesOf(c) # {}

\* The contact was found by an address that was pushed to it, not by its name.
FoundByAddress(k, f) ==
    \E q \in {f.name, FirstWord[f.name]} : k \in Pushed(q) /\ k \notin ListedFor[q] \cap Matching[q]

\* Applying the same facts again adds nothing to the CRM, once a run over them
\* has found and stored everything it could, except to contacts the search did not
\* find before an apply gave them an address with the name of the chat in it.
ApplySettles ==
    settled /\ step = "adding" /\ ~missed => \A r \in todo : FoundByAddress(r.k, r.f)
=============================================================================
