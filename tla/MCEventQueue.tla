---------------------------- MODULE MCEventQueue ----------------------------
(* Small instances of EventQueue for TLC. *)
EXTENDS EventQueue

CONSTANTS d1, d2, e1, e2, e3

\* Two terminals, every eventId names one event.
DistinctIds == {<<d1, e1>>, <<d1, e2>>, <<d2, e3>>}

\* One event per terminal.
TwoEvents == {<<d1, e1>>, <<d2, e2>>}

\* The same user at the same second on both terminals: one hash, two events.
SharedId == {<<d1, e1>>, <<d2, e1>>}
=============================================================================
