---------------------------- MODULE MCPushIngest ----------------------------
(* A small instance of PushIngest for TLC. *)
EXTENDS PushIngest, TLC

CONSTANTS d1, d2, e1, e2, e3, u1, u2, w1, w2

\* Of the first terminal an access event and one of another code; of the second an
\* access event.
Makers == (e1 :> d1 @@ e2 :> d1 @@ e3 :> d2)

\* Both terminals were given one user name, each its own password.
Creds == (d1 :> [name |-> u1, pw |-> w1] @@ d2 :> [name |-> u1, pw |-> w2])

Settings(n, p) == [st |-> "valid", name |-> n, pw |-> p, wants |-> TRUE]
Gone == [st |-> "none", name |-> u1, pw |-> w1, wants |-> FALSE]

\* Device 1 is always assigned and wants events; device 2 is unassigned, has the same
\* user name, has another one and wants no events, or has settings that do not parse.
LeaseSet ==
    {(d1 :> Settings(u1, w1) @@ d2 :> second) :
        second \in {Gone, Settings(u1, w2), [Settings(u2, w2) EXCEPT !.wants = FALSE],
                    [Gone EXCEPT !.st = "unparsable"]}}
=============================================================================
