-------------------------- MODULE MCTerminalReads ---------------------------
(***************************************************************************)
(* TerminalReads for TLC: two terminals, one of which makes four records,  *)
(* and three people.                                                       *)
(***************************************************************************)
EXTENDS TerminalReads

CONSTANTS t1, t2, a, b, c

\* A run reads events or people: the two together add no step to either.
MCWorkloads == {{"events"}, {"people"}}

\* Records 2 and 3 have the same eventId: the same user in the same second.
MCIdOf == <<"e1", "e2", "e2", "e3">>

MCUsersOn == (t1 :> <<a, b, c>>) @@ (t2 :> <<b>>)
MCCardsOn == (t1 :> <<c, a>>) @@ (t2 :> <<>>)
MCExact == [s \in Source |-> IF s = "accessUser" THEN {b} ELSE {a}]
MCSources == <<"accessUser", "accessCard">>
=============================================================================
