----------------------------- MODULE MCCtlConsole -----------------------------
(* Instances of CtlConsole for TLC: keywords of two letters, lines of one to *)
(* four bytes.                                                               *)
EXTENDS CtlConsole

AllBytes == {"e", "c", "x", "h", "p", "s", "t", "o", "nl"}

EchoWord == <<"e", "c">>
HelpWord == <<"h", "p">>
ExitWord == <<"e", "x">>
StopWord == <<"s", "t">>
Text     == <<"o">>

AllLines ==
    { <<"e", "c", "o", "nl">>, <<"h", "p", "nl">>, <<"e", "x", "nl">>,
      <<"s", "t", "nl">>, <<"e", "nl">>, <<"nl">> }
=============================================================================
