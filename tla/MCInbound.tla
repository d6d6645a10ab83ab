----------------------------- MODULE MCInbound -----------------------------
(* A user who pauses, asks in free text to resume and answers the decision;   *)
(* the free text comes without an id of the platform.                        *)
EXTENDS Inbound

CONSTANTS u1, u2

Text(user, command, free, named, number) ==
    [user |-> user, command |-> command, free |-> free, named |-> named, number |-> number]

MCMessages == {Text(u1, "pause", FALSE, TRUE, 1),
               Text(u1, "resume", TRUE, FALSE, 2),
               Text(u1, "decision", FALSE, TRUE, 3),
               Text(u1, "bind", FALSE, TRUE, 4),
               Text(u1, "interaction", FALSE, TRUE, 5)}

=============================================================================
