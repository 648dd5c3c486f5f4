----------------------------- MODULE MCMailSync -----------------------------
(* Values for model checking MailSync: accounts of the four services, alone and *)
(* together, messages with a calendar attachment and an inline text.            *)
EXTENDS MailSync

MCKind == [s \in {"oo", "gm", "ms", "ms2", "im", "im2"} |->
    CASE s = "oo" -> "onlyoffice" [] s = "gm" -> "gmail"
      [] s \in {"ms", "ms2"} -> "m365" [] s \in {"im", "im2"} -> "imap"]
MCFolders == [s \in DOMAIN MCKind |->
    CASE s = "ms2" -> <<"ms2 inbox", "ms2 sent">> [] s = "oo" -> <<"oo inbox">>
      [] s = "gm" -> <<"gm all">> [] s = "ms" -> <<"ms inbox">>
      [] s = "im" -> <<"im inbox">> [] s = "im2" -> <<"im sent">>]
MCNoteOf == [n \in {"note"} |-> "ics"]

Plain == [raw |-> FALSE, dry |-> FALSE, force |-> FALSE, limit |-> 0, offset |-> 0]
Force == [Plain EXCEPT !.force = TRUE]
Dry == [Plain EXCEPT !.dry = TRUE]
Limited == [Plain EXCEPT !.limit = 1]
Conf(sources, runs, modes, most) ==
    [sources |-> sources, runs |-> runs, modes |-> modes, most |-> most]
One == {CHOOSE r \in Runs : TRUE}

AllConfs == {Conf(<<"gm", "ms">>, One, {Plain, Force}, 1), Conf(<<"oo">>, One, {Plain}, 2),
             Conf(<<"gm", "im">>, One, {Plain}, 1), Conf(<<"ms2">>, One, {Plain}, 1),
             Conf(<<"ms">>, One, {Plain}, 2), Conf(<<"ms">>, Runs, {Plain}, 1)}
GapConfs == {Conf(<<"ms">>, One, {Plain}, 1)}
FlagConfs == {Conf(<<"ms", "im">>, One, {Plain}, 1), Conf(<<"ms">>, One, {Dry, Limited}, 2)}
=============================================================================
