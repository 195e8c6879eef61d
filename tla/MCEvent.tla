------------------------------- MODULE MCEvent -------------------------------
(* Event with one event to wait for.                                         *)
EXTENDS Event

CONSTANTS e1

OneEvent == {<<e1>>}
==============================================================================
