------------------------------- MODULE UipArp -------------------------------
(* uip_arp.c: the table from IP to Ethernet addresses.  It is filled from  *)
(* requests for this host and from replies, read for what is sent, and     *)
(* emptied by age.  One step is one call.                                  *)
EXTENDS Integers

CONSTANTS
  UIP_ARPTAB_SIZE, UIP_ARP_MAXAGE,
  AgeSpace,            \* 2^8: arptime and time are u8_t
  ArpRouter,           \* uip_draddr
  Neighbors,           \* addresses on the local network
  HalfZero,            \* those of them of which one 16-bit half is 0
  FarHosts,            \* and elsewhere
  ArpBroadcast,        \* 255.255.255.255
  EthAddr

ASSUME ArpSizes ==
  /\ UIP_ARPTAB_SIZE \in Nat \ {0} /\ AgeSpace \in Nat
  /\ UIP_ARP_MAXAGE \in 1 .. AgeSpace - 1
  /\ Neighbors \subseteq Nat \ {0} /\ ArpRouter \in Neighbors
  /\ HalfZero \subseteq Neighbors

VARIABLES
  arp_table,           \* [slot -> [ipaddr, ethaddr, time]]; ipaddr 0 if unused
  arptime,
  arp_output,          \* what was left in uip_buf by this step
  announced            \* history: the last Ethernet address of each neighbour
arp_vars == <<arp_table, arptime, arp_output, announced>>

ArpSlots == 0 .. UIP_ARPTAB_SIZE - 1
Nothing  == [kind |-> "none"]

ArpUsed(i) == arp_table[i].ipaddr # 0
EntriesOf(ip) == {i \in ArpSlots : arp_table[i].ipaddr = ip}

(* The age that uip_arp_update sees, in int: negative after arptime wraps. *)
AgeOf(i) == arptime - arp_table[i].time

(* uip_arp_timer                                                           *)
uip_arp_timer ==
  /\ arptime' = (arptime + 1) % AgeSpace
  /\ arp_table' = [i \in ArpSlots |->
       IF ArpUsed(i) /\ arptime' - arp_table[i].time >= UIP_ARP_MAXAGE
       THEN [arp_table[i] EXCEPT !.ipaddr = 0] ELSE arp_table[i]]
  /\ arp_output' = Nothing /\ UNCHANGED announced

(* The first entry whose age is the highest, if that is above 0; else the  *)
(* first of all.                                                           *)
OldestEntry ==
  IF \A i \in ArpSlots : AgeOf(i) <= 0 THEN 0
  ELSE CHOOSE i \in ArpSlots : \A j \in ArpSlots :
         AgeOf(i) > AgeOf(j) \/ (AgeOf(i) = AgeOf(j) /\ i <= j)

FirstOf(slots) == CHOOSE i \in slots : \A j \in slots : i <= j

(* The entries uip_arp_update finds for an address: it takes an entry for  *)
(* unused if either half of its address is 0.                              *)
KnownTo(ip) == IF ip \in HalfZero THEN {} ELSE EntriesOf(ip)

(* Faulty: an unused entry is taken before the table is searched.          *)
EntryFor_unusedFirst(ip) ==
  IF EntriesOf(0) # {} THEN FirstOf(EntriesOf(0))
  ELSE IF KnownTo(ip) # {} THEN FirstOf(KnownTo(ip)) ELSE OldestEntry

EntryFor(ip) == IF KnownTo(ip) # {} THEN FirstOf(KnownTo(ip))
                ELSE IF EntriesOf(0) # {} THEN FirstOf(EntriesOf(0))
                ELSE OldestEntry

uip_arp_update(ip, eth) ==
  /\ arp_table' = [arp_table EXCEPT ![EntryFor(ip)] =
                     [ipaddr |-> ip, ethaddr |-> eth, time |-> arptime]]
  /\ announced' = [announced EXCEPT ![ip] = eth]

(* uip_arp_arpin: a request or a reply for this host is learned, and a     *)
(* request is answered.                                                    *)
Request(ip, eth) ==
  /\ uip_arp_update(ip, eth)
  /\ arp_output' = [kind |-> "reply", to |-> eth, ip |-> ip]
  /\ UNCHANGED arptime

Reply(ip, eth) ==
  /\ uip_arp_update(ip, eth)
  /\ arp_output' = Nothing
  /\ UNCHANGED arptime

(* ... and what is for another host, or too short, is not looked at.       *)
Ignored == arp_output' = Nothing /\ UNCHANGED <<arp_table, arptime, announced>>

(* uip_arp_out: the Ethernet address of the destination, or of the router; *)
(* if it is not known the packet is lost, to a request for it.             *)
NextHop(dest) == IF dest \in Neighbors THEN dest ELSE ArpRouter

uip_arp_out(dest) ==
  /\ arp_output' = IF dest = ArpBroadcast THEN [kind |-> "broadcast"]
                   ELSE IF EntriesOf(NextHop(dest)) = {}
                   THEN [kind |-> "request", ip |-> NextHop(dest)]
                   ELSE [kind |-> "packet", ip |-> NextHop(dest),
                         to |-> arp_table[FirstOf(EntriesOf(NextHop(dest)))].ethaddr]
  /\ UNCHANGED <<arp_table, arptime, announced>>

(* uip_arp_init clears the addresses; the rest is static and zero.         *)
ArpInit == /\ arp_table = [i \in ArpSlots |-> [ipaddr |-> 0, ethaddr |-> 0, time |-> 0]]
           /\ arptime = 0 /\ arp_output = Nothing
           /\ announced = [ip \in Neighbors |-> 0]

ArpNext == \/ uip_arp_timer \/ Ignored
           \/ \E ip \in Neighbors, eth \in EthAddr : Request(ip, eth) \/ Reply(ip, eth)
           \/ \E dest \in Neighbors \cup FarHosts \cup {ArpBroadcast} : uip_arp_out(dest)

ArpSpec == ArpInit /\ [][ArpNext]_arp_vars

-----------------------------------------------------------------------------
(* A packet goes to the address that its next hop announced last, however  *)
(* often the entry was aged out, thrown away for another or learned anew,  *)
(* and a request is made only for a hop that has no entry: the table never *)
(* holds two addresses of one host (uip_arp_update, uip_arp_out).  Except  *)
(* of a host whose address has a half that is 0: it is entered anew each   *)
(* time, and an earlier entry of it may be found.                          *)
SentToLatest ==
  /\ arp_output.kind = "packet" /\ arp_output.ip \notin HalfZero
       => arp_output.to = announced[arp_output.ip]
  /\ \A ip \in Neighbors \ HalfZero, i, j \in ArpSlots :
       arp_table[i].ipaddr = ip /\ arp_table[j].ipaddr = ip => i = j

=============================================================================
