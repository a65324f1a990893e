------------------------------- MODULE MCOutbox -------------------------------
(***************************************************************************)
(* Two server processes on an event with two handlers and one with none.   *)
(***************************************************************************)
EXTENDS Outbox, TLC

CONSTANTS e1, e2, h1, h2, p1, p2

TwoEvents == {e1, e2}
TwoHandlers == {h1, h2}
TwoProcesses == {p1, p2}
SecondUnhandled == e1 :> {h1, h2} @@ e2 :> {}
=============================================================================
