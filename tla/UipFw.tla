-------------------------------- MODULE UipFw -------------------------------
(* uip-fw.c: forwarding between interfaces, with a small cache of the      *)
(* packets that went out lately, which are not forwarded again.  Addresses *)
(* are pairs of a network and a host; one step is one call.                *)
EXTENDS Naturals, Sequences, FiniteSets

CONSTANTS
  FWCACHE_SIZE, FW_TIME, UIP_TTL,
  FwHost,             \* uip_hostaddr, <<network, host>>
  FwBroadcast,
  FwPackets,          \* packets that come: [ipid, src, dest, proto, ttl]
  NetOf,              \* the network of each interface
  MaxSeen             \* a bound: packets that go out in FW_TIME periods

ASSUME FwSizes == /\ {FWCACHE_SIZE, FW_TIME, UIP_TTL} \subseteq Nat \ {0}
                  /\ MaxSeen \in Nat /\ MaxSeen > FWCACHE_SIZE

VARIABLES
  fwcache,            \* [slot -> [timer, key]]
  netifs,             \* the list of interfaces, the last registered first
  defaultnetif,       \* 0 for none
  fw_sent,            \* the interface a packet was given to in this step, or 0
  fw_seen             \* history: [number -> [key, left]], what went out lately
fw_vars == <<fwcache, netifs, defaultnetif, fw_sent, fw_seen>>

Entries == 0 .. FWCACHE_SIZE - 1
NoKey   == <<>>

(* What went out less than FW_TIME periods ago has some number.            *)
Numbers   == 1 .. MaxSeen
Forgotten == [key |-> NoKey, left |-> 0]

(* The fields that tell packets apart.                                     *)
Key(p) == <<p.ipid, p.src, p.dest, p.proto>>

ipaddr_maskcmp(ipaddr, netif) == ipaddr[1] = NetOf[netif]

(* The entry to be overwritten: the first that is unused; else the last of *)
(* those with the smallest timer.                                          *)
Faster(i, j) == fwcache[i].timer < fwcache[j].timer

(* Faulty: the largest timer.                                              *)
Overwritten_youngest ==
  CHOOSE i \in Entries : \A j \in Entries \ {i} :
    IF fwcache[i].timer = 0 THEN fwcache[j].timer = 0 => i < j
    ELSE fwcache[j].timer # 0 /\ (Faster(j, i) \/ (~Faster(i, j) /\ j < i))

Overwritten ==
  CHOOSE i \in Entries : \A j \in Entries \ {i} :
    IF fwcache[i].timer = 0 THEN fwcache[j].timer = 0 => i < j
    ELSE Faster(i, j) \/ (~Faster(j, i) /\ j < i)

fwcache_register(p) ==
  /\ fwcache' = [fwcache EXCEPT ![Overwritten] = [timer |-> FW_TIME, key |-> Key(p)]]
  /\ \E n \in Numbers : fw_seen[n].left = 0
  /\ fw_seen' = [fw_seen EXCEPT ![CHOOSE n \in Numbers : fw_seen[n].left = 0] =
                   [key |-> Key(p), left |-> FW_TIME]]

(* The interface whose network it is, the newest of them, or the default.  *)
find_netif(p) ==
  LET on == {i \in DOMAIN netifs : ipaddr_maskcmp(p.dest, netifs[i])}
  IN IF on = {} THEN defaultnetif
     ELSE netifs[CHOOSE i \in on : \A j \in on : i <= j]

(* uip_fw_output of a packet that is not empty.                            *)
Output(p) ==
  /\ fwcache_register(p)
  /\ fw_sent' = find_netif(p)

Unsent == fw_sent' = 0 /\ UNCHANGED <<fwcache, fw_seen>>

-----------------------------------------------------------------------------
Cached(p) == \E i \in Entries : fwcache[i].timer # 0 /\ fwcache[i].key = Key(p)

(* time_exceeded: a new packet, from here to the sender, in place of p.    *)
TimeExceeded(p) == [p EXCEPT !.src = FwHost, !.dest = p.src,
                             !.proto = "ICMP", !.ttl = UIP_TTL]

Expires(p) == p.ttl <= 1

(* uip_fw_forward: for this host, a duplicate, too old, or passed on.      *)
uip_fw_forward(p) ==
  /\ \/ p.dest = FwHost \/ Cached(p) \/ (Expires(p) /\ p.dest = FwBroadcast)
     \/ Expires(p) /\ p.proto = "ICMP"
  /\ Unsent

uip_fw_forwards(p) ==
  /\ p.dest # FwHost /\ ~Cached(p)
  /\ \/ ~Expires(p) /\ Output([p EXCEPT !.ttl = @ - 1])
     \/ /\ Expires(p) /\ p.dest # FwBroadcast /\ p.proto # "ICMP"
        /\ Output([TimeExceeded(p) EXCEPT !.ttl = @ - 1])

uip_fw_output(p) == Output(p)

(* uip_fw_periodic                                                         *)
uip_fw_periodic ==
  /\ fwcache' = [i \in Entries |-> IF fwcache[i].timer > 0
                                   THEN [fwcache[i] EXCEPT !.timer = @ - 1]
                                   ELSE fwcache[i]]
  /\ fw_seen' = [n \in Numbers |-> IF fw_seen[n].left > 1
                                   THEN [fw_seen[n] EXCEPT !.left = @ - 1]
                                   ELSE Forgotten]
  /\ fw_sent' = 0
  /\ UNCHANGED <<netifs, defaultnetif>>

(* uip_fw_register, once for an interface: a second time would close the   *)
(* list to a ring.                                                         *)
uip_fw_register(netif) ==
  /\ \A i \in DOMAIN netifs : netifs[i] # netif
  /\ netifs' = <<netif>> \o netifs
  /\ Unsent /\ UNCHANGED defaultnetif

uip_fw_default(netif) == defaultnetif' = netif /\ Unsent /\ UNCHANGED netifs

(* uip_fw_init, which forgets the interfaces; the cache stays.             *)
uip_fw_init == netifs' = <<>> /\ defaultnetif' = 0 /\ Unsent

FwInit == /\ fwcache = [i \in Entries |-> [timer |-> 0, key |-> NoKey]]
          /\ netifs = <<>> /\ defaultnetif = 0
          /\ fw_sent = 0
          /\ fw_seen = [n \in Numbers |-> Forgotten]

FwPass(p) == /\ uip_fw_forward(p) \/ uip_fw_forwards(p) \/ uip_fw_output(p)
             /\ UNCHANGED <<netifs, defaultnetif>>

FwNext == \/ \E p \in FwPackets : FwPass(p)
          \/ uip_fw_periodic \/ uip_fw_init
          \/ \E netif \in DOMAIN NetOf : uip_fw_register(netif) \/ uip_fw_default(netif)

FwSpec == FwInit /\ [][FwNext]_fw_vars

-----------------------------------------------------------------------------
(* A packet that went out less than FW_TIME periods ago is not forwarded   *)
(* again, also when the host sent it itself and it comes back, unless at   *)
(* least FWCACHE_SIZE others went out no earlier than it, counting by      *)
(* periods (fwcache_register gives up the oldest entry).                   *)
ForwardedOnce ==
  [][\A p \in FwPackets, i \in Numbers :
       fw_seen[i].left > 0 /\ fw_seen[i].key = Key(p) /\ uip_fw_forwards(p)
       => Cardinality({j \in Numbers \ {i} :
                         fw_seen[j].left >= fw_seen[i].left}) >= FWCACHE_SIZE
    ]_fw_vars

=============================================================================
