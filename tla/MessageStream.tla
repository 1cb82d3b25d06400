----------------------------- MODULE MessageStream -----------------------------
(***************************************************************************)
(* What the input of a chat or server-to-server connection promises: the   *)
(* messages the peer has sent are processed in order, each once, whatever  *)
(* the pieces they arrive in.                                              *)
(***************************************************************************)
EXTENDS Naturals, Sequences, SequencesExt

VARIABLES
    sent,     \* the messages the peer has sent
    handled   \* the ones that have been processed

vars == <<sent, handled>>

Init == sent = <<>> /\ handled = <<>>

Send == Len(sent') > Len(sent) /\ IsPrefix(sent, sent') /\ UNCHANGED handled

Handle ==
    /\ Len(handled) < Len(sent)
    /\ handled' = Append(handled, sent[Len(handled) + 1])
    /\ UNCHANGED sent

Next == Send \/ Handle

Spec == Init /\ [][Next]_vars
=============================================================================
