------------------------------ MODULE MCParts -------------------------------
(* The small components that share no state, one in each behaviour: part   *)
(* says which.  An instance of each for TLC.                               *)
EXTENDS Keyboard, MainLoop, UipConns, IpInput, RttEstimator, UipFw, UipArp

VARIABLE part

Parts == {"keyboard", "loop", "conns", "ip", "rtt", "fw", "arp"}

parts_vars == <<part, keyboard_vars, loop_vars, conns_vars, ip_vars, rtt_vars,
                fw_vars, arp_vars>>

(* A component that rests is in one of its initial states.  Bound: that of *)
(* the round-trip time ends with the first measurement RtoAboveRtt         *)
(* excepts; the numbers may then take any value.                           *)
PartsInit ==
  /\ part \in Parts
  /\ KeyboardInit /\ LoopInit /\ ConnsInit /\ RttInit /\ FwInit /\ ArpInit
  /\ part = "loop"  \/ ticks = 0
  /\ part = "conns" \/ lastport = 1
  /\ part = "rtt"   \/ sv = 16
  /\ IF part = "ip" THEN IpInit
     ELSE ip_verdict = "none" /\ uip_len = 0 /\ uip_buf = <<>> /\ request = <<>>

Rests(name, its_vars) == IF part = name THEN TRUE ELSE UNCHANGED its_vars
OnlyItActs == /\ UNCHANGED part
              /\ Rests("keyboard", keyboard_vars) /\ Rests("loop", loop_vars)
              /\ Rests("conns", conns_vars) /\ Rests("ip", ip_vars)
              /\ Rests("rtt", rtt_vars) /\ Rests("fw", fw_vars)
              /\ Rests("arp", arp_vars)

InLoop(action) == part = "loop" /\ action /\ OnlyItActs

PartsNext == \/ part = "keyboard" /\ KeyboardNext /\ OnlyItActs
             \/ InLoop(LoopNext)
             \/ part = "conns" /\ ConnsNext /\ OnlyItActs
             \/ part = "ip" /\ uip_process /\ OnlyItActs
             \/ part = "rtt" /\ ~mismeasured /\ RttNext /\ OnlyItActs
             \/ part = "fw" /\ FwNext /\ OnlyItActs
             \/ part = "arp" /\ ArpNext /\ OnlyItActs

(* LoopFairness, when the loop is the part that acts.                      *)
PartsFairness == /\ WF_parts_vars(InLoop(Tick))
                 /\ WF_parts_vars(InLoop(Pass))
                 /\ WF_parts_vars(InLoop(Close))
                 /\ SF_parts_vars(InLoop(QuietPoll))

PartsSpec == PartsInit /\ [][PartsNext]_parts_vars /\ PartsFairness

(* TimerServed of MainLoop: the periodic calls never cease, though packets *)
(* are taken first; in the behaviours in which the loop acts.              *)
PollsServed == part = "loop" => TimerServed

-----------------------------------------------------------------------------
(* F1 and F4, the page of the log and that of the channel; with and        *)
(* without SHIFT and ALPHA, KEY_7 is m, M and 7, KEY_DOT space and point.  *)
MCPageKey == [page \in {0, 3} |-> KeyAt(9, page + 1)]
MCKeyboardKeys == {MCPageKey[0], MCPageKey[3], KEY_SHIFT, KEY_ALPHA, KEY_LEFT,
                   KEY_RIGHT, KEY_DEL, KEY_EXE, KEY_EXIT, KeyAt(4, 1), KeyAt(1, 2)}

MCPeers == {[ripaddr |-> r, rport |-> 1] : r \in {1, 2}}

(* Pings with data of several lengths, the empty and the zero among them,  *)
(* the same as TCP segments, packets that are not for uIP, and a ping with *)
(* a code, which uIP does not look at.                                     *)
PacketOf(dest, proto, type, data) ==
  [vhl |-> VHL, proto |-> proto, len |-> 0, ipoffset |-> 0, ipchksum |-> 0,
   srcipaddr |-> 9, destipaddr |-> dest, data |-> <<type, 0>> \o data]
MCPackets ==
  { PacketOf(uip_hostaddr, proto, ICMP_ECHO, data) :
      proto \in {UIP_PROTO_ICMP, UIP_PROTO_TCP},
      data \in {<<>>, <<0>>, <<0, 0, 0>>, <<7, 7>>, <<0, 7, 3>>} }
  \cup { PacketOf(3, UIP_PROTO_ICMP, ICMP_ECHO, <<>>),
         PacketOf(uip_hostaddr, 3, ICMP_ECHO, <<>>),
         PacketOf(uip_hostaddr, UIP_PROTO_ICMP, 0, <<>>),
         [PacketOf(uip_hostaddr, UIP_PROTO_ICMP, ICMP_ECHO, <<>>)
            EXCEPT !.data[2] = 7] }
(* No damage, the flag that does not matter, one field changed; and lengths *)
(* that are too small, with a checksum that fits a ping, and a segment.    *)
MCDamage == {[vhl |-> VHL], [ipoffset |-> 32], [vhl |-> 4], [ipoffset |-> 1],
             [proto |-> 2], [len |-> 15], [len |-> 17], [ipchksum |-> 0],
             [srcipaddr |-> 0], [destipaddr |-> 3]}
  \cup {[len |-> 13, ipchksum |-> 53], [len |-> 15, ipchksum |-> 51],
        [len |-> 17, ipchksum |-> 49], [len |-> 11, ipchksum |-> 54]}
MCPadding == {<<>>, <<5, 5>>}

(* Duplicates of a packet, two others, one that expires, one for the host  *)
(* and a broadcast.                                                        *)
MCFwHost == <<1, 1>>
MCFwBroadcast == <<9, 9>>
FwPacket(ipid, dest, proto, ttl) ==
  [ipid |-> ipid, src |-> <<1, 2>>, dest |-> dest, proto |-> proto, ttl |-> ttl]
MCFwPackets == {FwPacket(1, <<2, 2>>, "TCP", 2), FwPacket(2, <<2, 2>>, "TCP", 2),
                FwPacket(3, <<2, 2>>, "ICMP", 2), FwPacket(1, <<2, 2>>, "TCP", 1),
                FwPacket(1, MCFwHost, "TCP", 1), FwPacket(1, MCFwBroadcast, "TCP", 1)}
MCNetOf == [netif \in 1..1 |-> 2]

=============================================================================
