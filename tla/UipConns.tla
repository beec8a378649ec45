------------------------------ MODULE UipConns ------------------------------
(* The table uip_conns of uip.c: which entry a segment belongs to, which   *)
(* one a new connection takes, actively with a port of its own choice or   *)
(* passively on a listening port, and when entries become free.  What goes *)
(* on inside a connection is in UipTcp; here it just moves on.             *)
EXTENDS Naturals

CONSTANTS
  UIP_CONNS, UIP_LISTENPORTS,
  FirstPort, PortLimit,     \* 4096 and 32000: lastport wraps between them
  ListenPorts,              \* the ports that are listened on
  Peers,                    \* records [ripaddr, rport]
  UIP_TIME_WAIT_TIMEOUT,
  TimerSpace                \* 2^8: timer is uint8_t

ASSUME ConnSizes ==
  /\ {UIP_CONNS, UIP_LISTENPORTS} \subseteq Nat \ {0}
  /\ FirstPort \in Nat \ {0} /\ PortLimit \in Nat
  /\ UIP_TIME_WAIT_TIMEOUT \in Nat \ {0} /\ UIP_TIME_WAIT_TIMEOUT < TimerSpace
  /\ TimerSpace \in Nat /\ TimerSpace > 3
  /\ ListenPorts \subseteq Nat \ {0}

(* Else the search for a port may go round for ever; with more, it ends    *)
(* before it comes back to where it began.                                 *)
ASSUME PortsSuffice == PortLimit - FirstPort > UIP_CONNS

VARIABLES uip_conns, uip_listenports, lastport
conns_vars == <<uip_conns, uip_listenports, lastport>>

Slots   == 0 .. UIP_CONNS - 1
Listens == 0 .. UIP_LISTENPORTS - 1
Used    == {c \in Slots : uip_conns[c].tcpstateflags # "CLOSED"}
Unlinked == [tcpstateflags |-> "CLOSED", lport |-> 0, rport |-> 0,
             ripaddr |-> 0, timer |-> 0]

(* uip_init; lastport is random.                                           *)
ConnsInit == /\ uip_conns = [c \in Slots |-> Unlinked]
             /\ uip_listenports = [l \in Listens |-> 0]
             /\ lastport \in 1 .. PortLimit - 1

(* uip_listen and uip_unlisten: the first slot that is free, or has it.    *)
FirstListen(port) == CHOOSE l \in Listens :
                       /\ uip_listenports[l] = port
                       /\ \A k \in 0 .. l - 1 : uip_listenports[k] # port
Listening(port) == \E l \in Listens : uip_listenports[l] = port

Replace(old, new) ==
  /\ uip_listenports' = IF Listening(old)
                        THEN [uip_listenports EXCEPT ![FirstListen(old)] = new]
                        ELSE uip_listenports
  /\ UNCHANGED <<uip_conns, lastport>>
uip_listen(port)   == Replace(0, port)
uip_unlisten(port) == Replace(port, 0)

-----------------------------------------------------------------------------
(* Faulty: only the ports of open connections are avoided.                 *)
PortInUse_open(port) ==
  \E c \in Slots : /\ uip_conns[c].tcpstateflags = "ESTABLISHED"
                   /\ uip_conns[c].lport = port

PortInUse(port) == \E c \in Used : uip_conns[c].lport = port

(* The ports from lastport on, round the ephemeral ones, and the first of  *)
(* them that is not in use.                                                *)
PortAfter(n) == LET p == lastport + n
                IN IF p < PortLimit THEN p ELSE p - PortLimit + FirstPort

NewPort == PortAfter(CHOOSE n \in 1 .. UIP_CONNS + 1 :
                       /\ ~PortInUse(PortAfter(n))
                       /\ \A m \in 1 .. n - 1 : PortInUse(PortAfter(m)))

(* The scan for an entry keeps a candidate found, UIP_CONNS while there is *)
(* none.  It is left (break) with the first entry that is CLOSED.          *)
IsClosed(c)     == uip_conns[c].tcpstateflags = "CLOSED"
LeftLoop(found) == found # UIP_CONNS /\ IsClosed(found)

(* Faulty: the comparison is turned round.                                 *)
Replaces_younger(c, found) ==
  found = UIP_CONNS \/ uip_conns[c].timer < uip_conns[found].timer

(* An entry in TIME_WAIT replaces a candidate that has waited less.        *)
Replaces(c, found) ==
  found = UIP_CONNS \/ uip_conns[c].timer > uip_conns[found].timer

(* The candidate after entry c has been looked at, and after the first n.  *)
Look(c, found) ==
  IF /\ ~LeftLoop(found)
     /\ \/ IsClosed(c)
        \/ uip_conns[c].tcpstateflags = "TIME_WAIT" /\ Replaces(c, found)
  THEN c ELSE found

Scan[n \in 0 .. UIP_CONNS] ==
  IF n = 0 THEN UIP_CONNS ELSE Look(n - 1, Scan[n - 1])

FreeConn == Scan[UIP_CONNS]

Linked(state, lport, peer, timer) ==
  [tcpstateflags |-> state, lport |-> lport, rport |-> peer.rport,
   ripaddr |-> peer.ripaddr, timer |-> timer]

(* uip_connect.  The port is taken even if no entry is left.               *)
uip_connect(peer) ==
  /\ lastport' = NewPort
  /\ uip_conns' = IF FreeConn = UIP_CONNS THEN uip_conns
                  ELSE [uip_conns EXCEPT ![FreeConn] =
                          Linked("SYN_SENT", NewPort, peer, 1)]
  /\ UNCHANGED uip_listenports

(* The entries a segment is for; the first is taken.                       *)
Matching(peer, port) ==
  {c \in Used : /\ uip_conns[c].lport = port
                /\ uip_conns[c].rport = peer.rport
                /\ uip_conns[c].ripaddr = peer.ripaddr}

(* A SYN that is for no entry, to a listening port (found_listen).         *)
Syn(peer, port) ==
  /\ Matching(peer, port) = {} /\ port # 0 /\ Listening(port)
  /\ uip_conns' = IF FreeConn = UIP_CONNS THEN uip_conns
                  ELSE [uip_conns EXCEPT ![FreeConn] =
                          Linked("SYN_RCVD", port, peer, 3)]
  /\ UNCHANGED <<uip_listenports, lastport>>

(* A segment of its peer moves a connection on, or a timeout closes it.    *)
(* FIN_WAIT_2 begins with the timer where the last retransmission left it. *)
Becomes(c, state, timer) ==
  /\ uip_conns' = [uip_conns EXCEPT ![c].tcpstateflags = state, ![c].timer = timer]
  /\ UNCHANGED <<uip_listenports, lastport>>

Advance(c) ==
  LET state == uip_conns[c].tcpstateflags
  IN \/ state \in {"SYN_SENT", "SYN_RCVD"} /\ Becomes(c, "ESTABLISHED", 3)
     \/ /\ state = "ESTABLISHED"
        /\ \E timer \in 0 .. TimerSpace - 1 : Becomes(c, "FIN_WAIT_2", timer)
     \/ state \in {"ESTABLISHED", "FIN_WAIT_2"} /\ Becomes(c, "TIME_WAIT", 0)
     \/ state # "CLOSED" /\ Becomes(c, "CLOSED", uip_conns[c].timer)

(* uip_periodic of an entry that only waits.                               *)
Wait(c) ==
  LET timer == (uip_conns[c].timer + 1) % TimerSpace
  IN /\ uip_conns[c].tcpstateflags \in {"TIME_WAIT", "FIN_WAIT_2"}
     /\ Becomes(c, IF timer = UIP_TIME_WAIT_TIMEOUT THEN "CLOSED"
                   ELSE uip_conns[c].tcpstateflags, timer)

ConnsNext == \/ \E port \in ListenPorts : uip_listen(port) \/ uip_unlisten(port)
             \/ \E peer \in Peers : uip_connect(peer)
             \/ \E peer \in Peers, port \in ListenPorts : Syn(peer, port)
             \/ \E c \in Slots : Advance(c) \/ Wait(c)

ConnsSpec == ConnsInit /\ [][ConnsNext]_conns_vars

-----------------------------------------------------------------------------
(* A segment has one owner: no two entries in use have the same ports and  *)
(* address, whether opened by uip_connect, by a SYN, or still waiting from *)
(* an earlier use of the port, after the ports have wrapped too.           *)
NoTwoAlike == \A peer \in Peers, port \in 1 .. PortLimit :
                \A c, d \in Matching(peer, port) : c = d

(* A new connection never takes the entry of a live one, nor of one that   *)
(* waits in TIME_WAIT while another is free or has waited longer: the scan *)
(* finds those wherever they are in the table (the comment on found_listen *)
(* and the loop of uip_connect).                                           *)
ReusesOnlyDead ==
  [][\A c \in Slots :
       /\ uip_conns'[c].tcpstateflags \in {"SYN_SENT", "SYN_RCVD"}
       /\ uip_conns'[c] # uip_conns[c]
       => \/ c \notin Used
          \/ /\ Used = Slots
             /\ uip_conns[c].tcpstateflags = "TIME_WAIT"
             /\ \A d \in Slots : uip_conns[d].tcpstateflags = "TIME_WAIT"
                                   => uip_conns[d].timer <= uip_conns[c].timer
    ]_conns_vars

=============================================================================
