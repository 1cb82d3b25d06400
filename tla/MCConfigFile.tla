----------------------------- MODULE MCConfigFile -----------------------------
(* Instances of ConfigFile for TLC: files of up to three lines.              *)
EXTENDS ConfigFile

\* The last one is the port 6666 behind the range of an int (IntRange in the cfg).
NumberOf ==
    [w \in {"6666", "7000", "7000x", "65536", "-1", "1055242"} |->
        CASE w = "6666" -> 6666 [] w \in {"7000", "7000x"} -> 7000 [] w = "65536" -> 65536
          [] w = "-1" -> -1 [] w = "1055242" -> 1055242]

Defaults == [port |-> 6666, serverport |-> 6767, serverpassword |-> <<"hello world">>,
             nullclients |-> <<"yes">>]

Nullclients == [nullclients |-> {"no", "yes"}]

SecondNames == [userport |-> "port"]

OptionLines ==
    { <<>>, <<"#", " ", "port">>, <<" ", "port", " ", " ", "65536">>, <<"port">>,
      <<"serverport", " ", "no", " ">>, <<"serverport", " ", "-1">>,
      <<"port", " ", "7000x">>, <<"serverport", " ", "1055242">>,
      <<"port", " ", "7000", " ", "no">>,
      <<"serverpassword", " ", "pw", " ", "h2">>, <<"serverpassword">>,
      <<"nullclients", " ", "no">>, <<"nullclients", " ", "h1">>,
      <<"userport", " ", "6666">>, <<"serverloops", " ", "no">>, <<"motd", " ", "no">> }

ServerLines ==
    { <<"server", " ", "h1">>, <<"server", " ", "h1", " ">>,
      <<"server", " ", " ", "h1", " ", "65536">>,
      <<"server", " ", "h1", " ", "6666", " ", "pw">>,
      <<"server", " ", "h2", " ", "no", " ">>,
      <<"server", " ", "h2", " ", "6666">>,
      <<"server", " ", "h1", " ", " ">>,
      <<"server", " ", "h1", " ", " ", "7000", " ", "pw">>,
      <<"server", " ", "h1", " ", "7000x", " ", "pw">>,
      <<"server", " ", "h2", " ", "7000", " ", " ", "pw">>,
      <<"server", " ", "h2", " ", "1055242", " ", " ">> }

PlainLines == OptionLines \cup ServerLines

LongLines == {l \in PlainLines : Len(l) > 4}

PlainTexts == [1..1 -> PlainLines] \cup [1..2 -> PlainLines] \cup [1..3 -> LongLines]

=============================================================================
