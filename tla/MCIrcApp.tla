------------------------------ MODULE MCIrcApp ------------------------------
(* Instances of IrcApp for TLC.                                            *)
EXTENDS IrcApp, SequencesExt

Line(l, n, kind) == [k \in 1..n |-> [line |-> l, first |-> k = 1,
                                     nl |-> k = n, kind |-> kind]]

(* Two lines for the login, then a PING longer than the buffer and a       *)
(* PRIVMSG.                                                                *)
FourLines == Line(1, 1, "other") \o Line(2, 1, "other") \o Line(3, 2, "ping")
               \o Line(4, 1, "privmsg")

ThreeLines == Line(1, 1, "other") \o Line(2, 1, "other") \o Line(3, 1, "privmsg")

=============================================================================
