------------------------------- MODULE IpInput ------------------------------
(* uip_process from an IP packet to the verdict on it: dropped, given to   *)
(* TCP, or answered as a ping; and the checksums it goes by.  One step is  *)
(* one packet.  Numbers are big-endian; a byte is below Byte and a word is *)
(* two of them, so that all the carries occur with small ones.             *)
EXTENDS Naturals, Sequences

CONSTANTS
  Byte,                    \* 2^8
  VHL,                     \* 0x45
  UIP_PROTO_ICMP, UIP_PROTO_TCP,
  ICMP_ECHO,               \* ICMP_ECHO_REPLY is 0
  uip_hostaddr,
  Packets,                 \* packets that are sent, without their checksums
  Damage,                  \* and what may replace fields of theirs
  Padding                  \* bytes that may follow them

Word == Byte * Byte

UIP_IPH_LEN == 12          \* of these; 20 in uIP
ICMP_HDR_LEN == 4          \* the type, the code and the checksum

(* The fields of the IP header that matter here, by their largest values;  *)
(* the rest of its fields are summed like these.                           *)
Largest == [vhl |-> Byte - 1, proto |-> Byte - 1, len |-> Word - 1,
            ipoffset |-> Word - 1, ipchksum |-> Word - 1,
            srcipaddr |-> Word - 1, destipaddr |-> Word - 1]

ASSUME PacketSizes ==
  /\ Byte \in Nat /\ Byte % 2 = 0
  /\ {VHL, UIP_PROTO_ICMP, UIP_PROTO_TCP, ICMP_ECHO} \subseteq 1 .. Byte - 1
  /\ UIP_PROTO_TCP <= UIP_IPH_LEN /\ uip_hostaddr \in 0 .. Word - 1

ASSUME PacketsArePackets ==
  /\ \A p \in Packets :
       /\ p = [f \in DOMAIN Largest \cup {"data"} |-> p[f]]
       /\ p.data \in Seq(0 .. Byte - 1) /\ Len(p.data) >= 2
       /\ UIP_IPH_LEN + Len(p.data) + 2 < Word
       /\ \A f \in DOMAIN Largest : p[f] \in 0 .. Largest[f]
  /\ \A d \in Damage :
       /\ DOMAIN d \subseteq DOMAIN Largest
       /\ \A f \in DOMAIN d : d[f] \in 0 .. Largest[f]
  /\ Padding \subseteq Seq(0 .. Byte - 1)

VARIABLES
  ip_verdict,     \* "arrived", then "dropped", "tcp" or "sent"
  uip_buf,        \* the packet there
  uip_len,
  request         \* history: the packet that came
ip_vars == <<ip_verdict, uip_buf, uip_len, request>>

Bytes(word) == <<word \div Byte, word % Byte>>
WordAt(data, i) == data[i] * Byte + data[i + 1]

HeaderBytes(p) == <<p.vhl, p.proto>> \o Bytes(p.len) \o Bytes(p.ipoffset)
                  \o Bytes(p.ipchksum) \o Bytes(p.srcipaddr) \o Bytes(p.destipaddr)

-----------------------------------------------------------------------------
(* The words of data; an odd last byte is the high one of a word.          *)
Words(data) ==
  LET even == IF Len(data) % 2 = 0 THEN data ELSE Append(data, 0)
  IN [i \in 1 .. Len(even) \div 2 |-> WordAt(even, 2 * i - 1)]

(* The ones' complement sum, by its definition: the checksum makes it a    *)
(* multiple of the largest word, and verifies if it is.                    *)
Total(from, data) ==
  LET sum[i \in 0 .. Len(Words(data))] ==
        IF i = 0 THEN from ELSE sum[i - 1] + Words(data)[i]
  IN sum[Len(Words(data))]
Checksum(data) == (Word - 1) - (Total(0, data) % (Word - 1))
Verifies(from, data) ==
  Total(from, data) > 0 /\ Total(from, data) % (Word - 1) = 0

-----------------------------------------------------------------------------
(* sum += t; if(sum < t) sum++;                                            *)
AddWord(sum, t) == LET s == (sum + t) % Word IN IF s < t THEN s + 1 ELSE s

chksum(from, data) ==
  LET sum[i \in 0 .. Len(Words(data))] ==
        IF i = 0 THEN from ELSE AddWord(sum[i - 1], Words(data)[i])
  IN sum[Len(Words(data))]

AsChecksum(sum) == IF sum = 0 THEN Word - 1 ELSE sum

uip_ipchksum(p) == AsChecksum(chksum(0, HeaderBytes(p)))

(* What the length field leaves for the upper layer.                       *)
UpperLayer(p) == SubSeq(p.data, 1, p.len - UIP_IPH_LEN)

upper_layer_chksum(p) ==
  LET pseudo == (p.len - UIP_IPH_LEN + p.proto) % Word
      addressed == chksum(pseudo, Bytes(p.srcipaddr) \o Bytes(p.destipaddr))
  IN AsChecksum(chksum(addressed, UpperLayer(p)))

-----------------------------------------------------------------------------
(* More-fragments, or an offset; the two bits above are not looked at.     *)
Fragment(p) == p.ipoffset % (Word \div 4) # 0

Accepted(p, length) == /\ p.vhl = VHL
                       /\ p.len <= length
                       /\ ~Fragment(p)
                       /\ p.destipaddr = uip_hostaddr
                       /\ uip_ipchksum(p) = Word - 1

(* Faulty: the carry of the adjustment is not added.                       *)
Adjusted_noCarry(sum) == (sum + ICMP_ECHO * Byte) % Word

(* The checksum for a type that is less by ICMP_ECHO.                      *)
Adjusted(sum) ==
  LET by == ICMP_ECHO * Byte
  IN IF sum >= Word - 1 - by THEN (sum + by + 1) % Word ELSE (sum + by) % Word

(* The ping, turned round in place.                                        *)
EchoReply(p) ==
  [p EXCEPT !.data = <<0, p.data[2]>> \o Bytes(Adjusted(WordAt(p.data, 3)))
                     \o SubSeq(p.data, 5, Len(p.data)),
            !.destipaddr = p.srcipaddr, !.srcipaddr = uip_hostaddr]

IsEcho(p) == p.proto = UIP_PROTO_ICMP /\ p.data[1] = ICMP_ECHO

(* The fields of p that damage has are what damage has for them.           *)
Damaged(p, damage) ==
  [f \in DOMAIN p |-> IF f \in DOMAIN damage THEN damage[f] ELSE p[f]]

(* Any packet, with any word for the checksum of its data, and perhaps a   *)
(* field changed on its way after the header was summed.                   *)
IpInit ==
  \E p \in Packets, sum \in 0 .. Word - 1, damage \in Damage, padding \in Padding :
    LET summed == [p EXCEPT !.data = SubSeq(p.data, 1, 2) \o Bytes(sum)
                                     \o SubSeq(p.data, 3, Len(p.data))]
        length == UIP_IPH_LEN + Len(summed.data)
        whole  == [summed EXCEPT !.len = length]
        sent   == [whole EXCEPT !.ipchksum = Checksum(HeaderBytes(whole))]
    IN /\ request = Damaged([sent EXCEPT !.data = @ \o padding], damage)
       /\ uip_len = length + Len(padding)
       /\ uip_buf = request
       /\ ip_verdict = "arrived"

Drop == ip_verdict' = "dropped" /\ uip_len' = 0 /\ UNCHANGED uip_buf

(* What the checksum of a segment comes out as.  A length that is below    *)
(* that of the header has some 2^16 bytes summed, past the end of uip_buf.  *)
SegmentSums(p) == IF p.len < UIP_IPH_LEN THEN 1 .. Word - 1
                  ELSE {upper_layer_chksum(p)}

(* To the connections, if its own checksum is right.                       *)
TcpInput == \E sum \in SegmentSums(uip_buf) :
              IF sum = Word - 1
              THEN ip_verdict' = "tcp" /\ uip_len' = uip_buf.len /\ UNCHANGED uip_buf
              ELSE Drop

Echo == ip_verdict' = "sent" /\ uip_len' = uip_buf.len /\ uip_buf' = EchoReply(uip_buf)

uip_process ==
  /\ ip_verdict = "arrived" /\ UNCHANGED request
  /\ \/ Accepted(uip_buf, uip_len) /\ uip_buf.proto = UIP_PROTO_TCP /\ TcpInput
     \/ Accepted(uip_buf, uip_len) /\ IsEcho(uip_buf) /\ Echo
     \/ /\ ~(Accepted(uip_buf, uip_len)
             /\ (uip_buf.proto = UIP_PROTO_TCP \/ IsEcho(uip_buf)))
        /\ Drop

IpSpec == IpInit /\ [][uip_process]_ip_vars

-----------------------------------------------------------------------------
IcmpVerifies(p) == Verifies(0, UpperLayer(p))
TcpVerifies(p)  ==
  Verifies(p.len - UIP_IPH_LEN + p.proto,
           Bytes(p.srcipaddr) \o Bytes(p.destipaddr) \o UpperLayer(p))

(* Adjusting the checksum goes wrong for one reply: it makes a zero where  *)
(* the sum of bytes that are otherwise zero has to be the largest word.    *)
Blank(p) == \A i \in DOMAIN UpperLayer(p) : UpperLayer(p)[i] = 0

(* A ping comes back sound (uip_process): the header of the reply verifies *)
(* although its checksum was not computed again; the ICMP checksum, which  *)
(* is adjusted unseen, verifies just when that of the request did, so that *)
(* damage is not hidden, if the length covers the header of the ping.  And *)
(* TCP is given no packet whose two checksums do not verify, nor is a      *)
(* sound one dropped, if the length covers the header of the packet.       *)
EchoIsSound ==
  /\ ip_verdict = "sent" =>
       /\ Verifies(0, HeaderBytes(uip_buf)) /\ Verifies(0, HeaderBytes(request))
       /\ uip_buf.destipaddr = request.srcipaddr
       /\ \/ request.len < UIP_IPH_LEN + ICMP_HDR_LEN
          \/ Blank(uip_buf)
          \/ IcmpVerifies(uip_buf) <=> IcmpVerifies(request)
  /\ ip_verdict = "tcp" =>
       /\ Verifies(0, HeaderBytes(request))
       /\ request.len < UIP_IPH_LEN \/ TcpVerifies(request)
  /\ (ip_verdict = "dropped" /\ request.vhl = VHL /\ ~Fragment(request)
      /\ request.destipaddr = uip_hostaddr /\ Verifies(0, HeaderBytes(request)))
       => \/ request.len > UIP_IPH_LEN + Len(request.data)
          \/ /\ request.proto = UIP_PROTO_TCP
             /\ request.len < UIP_IPH_LEN \/ ~TcpVerifies(request)
          \/ request.proto # UIP_PROTO_TCP /\ ~IsEcho(request)

=============================================================================
