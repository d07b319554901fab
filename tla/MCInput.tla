------------------------------ MODULE MCInput -------------------------------
(* A send of two parts of text, an attachment that types one, a resize, a  *)
(* signal whose name comes after its mode.  What all four may do together  *)
(* is too much to look at: two of them, or the three that are no send.     *)
EXTENDS Input

MCMode == [send |-> "input", attach |-> "attach", resize |-> "resize", signal |-> "signal"]

MCClient == DOMAIN MCMode

MCGroups == {{"send", "attach"}, {"send", "resize"}, {"attach", "resize", "signal"}}

MCParts == [send |-> 3, attach |-> 2, resize |-> 1, signal |-> 2]
=============================================================================
