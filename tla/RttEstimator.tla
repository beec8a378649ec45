---------------------------- MODULE RttEstimator ----------------------------
(* The estimator of the round-trip time in uip_process, in its 8 bits: sa  *)
(* is eight times the smoothed time, sv four times its mean deviation, and *)
(* m is a signed char.  Around it what decides which segments are measured *)
(* and from which value of the timer: transmissions, retransmissions, and  *)
(* the calls of the application, which set nrtx back.  Time is counted in  *)
(* periodic calls, half seconds; how much has passed is chosen by the step *)
(* that looks at the timer.                                                *)
EXTENDS Integers

CONSTANTS
  UIP_RTO,
  UIP_MAXRTX, UIP_MAXSYNRTX,
  MaxRtt     \* a bound: the longest round trip of the line

ASSUME RttSizes ==
  /\ UIP_RTO \in 1..127 /\ MaxRtt \in 0..255
  /\ UIP_MAXRTX \in Nat /\ UIP_MAXSYNRTX \in Nat

VARIABLES
  sa, sv, rto,
  rtx_timer,     \* timer, as it was last set
  nrtx,
  outstanding,   \* "nothing", the "syn" of the connection, or "data"
  sends,         \* history: how often that was sent, 2 for more
  mismeasured    \* history: a retransmission was measured, nrtx being 0
estimate == <<sa, sv, rto>>
rtt_vars == <<estimate, rtx_timer, nrtx, outstanding, sends, mismeasured>>

u8(x) == x % 256
schar(x) == IF u8(x) < 128 THEN u8(x) ELSE u8(x) - 256
Lower(a, b) == IF a < b THEN a ELSE b

(* uip_connect, whose SYN goes out as the first retransmission, and        *)
(* found_listen, which sends its SYN|ACK at once.                          *)
RttInit ==
  /\ sa = 0 /\ rto = UIP_RTO /\ nrtx = 0 /\ outstanding = "syn"
  /\ \/ sv = 16 /\ rtx_timer = 1 /\ sends = 0
     \/ sv = 4 /\ rtx_timer = UIP_RTO /\ sends = 1
  /\ mismeasured = FALSE

(* appsend with nothing outstanding.  The timer was last set when the      *)
(* segment before this was acknowledged, and has not run since.            *)
Transmit ==
  /\ outstanding = "nothing"
  /\ outstanding' = "data" /\ nrtx' = 0 /\ sends' = 1
  /\ UNCHANGED <<estimate, rtx_timer, mismeasured>>

(* UIP_TIMER when the timer has run down and the connection is not given   *)
(* up.                                                                     *)
Retransmit ==
  /\ outstanding # "nothing" /\ nrtx # UIP_MAXRTX
  /\ outstanding = "syn" => nrtx # UIP_MAXSYNRTX
  /\ rtx_timer' = u8(UIP_RTO * 2 ^ Lower(nrtx, 4))
  /\ nrtx' = nrtx + 1 /\ sends' = Lower(sends + 1, 2)
  /\ UNCHANGED <<estimate, outstanding, mismeasured>>

(* The peer sends data and acknowledges none: the application is called,   *)
(* and l.1710 sets nrtx back, whatever has been retransmitted.             *)
NewData ==
  /\ outstanding = "data"
  /\ nrtx' = 0
  /\ UNCHANGED <<estimate, rtx_timer, outstanding, sends, mismeasured>>

(* if(m < 0) m = -m                                                        *)
Deviation(m) == IF m < 0 THEN schar(-m) ELSE m

Estimate(timer) ==
  LET m  == schar(rto - timer)
      m1 == schar(m - sa \div 8)
      m2 == schar(Deviation(m1) - sv \div 4)
  IN /\ sa' = u8(sa + m1)
     /\ sv' = u8(sv + m2)
     /\ rto' = u8(sa' \div 8 + sv')

(* Faulty: the test of nrtx is forgotten.                                  *)
Measures_always == TRUE

Measures == nrtx = 0

(* The acknowledgement, l.1441-1470.  A segment that was sent once and is  *)
(* measured has been on its way since the timer was set.                   *)
Acknowledge ==
  /\ outstanding # "nothing" /\ sends > 0
  /\ \E timer \in 0 .. rtx_timer :
       /\ sends = 1 /\ Measures => rto - timer <= MaxRtt
       /\ IF Measures THEN Estimate(timer) ELSE UNCHANGED estimate
  /\ mismeasured' = (mismeasured \/ (nrtx = 0 /\ sends > 1))
  /\ rtx_timer' = rto' /\ nrtx' = 0 /\ outstanding' = "nothing" /\ sends' = 0

RttNext == Transmit \/ Retransmit \/ NewData \/ Acknowledge

RttSpec == RttInit /\ [][RttNext]_rtt_vars

-----------------------------------------------------------------------------
(* A timeout is always at least three periods longer than the smoothed     *)
(* round-trip time and than nothing: on a line of up to MaxRtt no sequence *)
(* of measurements makes it wrap, or fall so low that every segment is     *)
(* sent twice (the comment in uip_process: "taken directly from VJs        *)
(* original code", which had more bits).  It says nothing once a segment   *)
(* that was retransmitted has been measured after all, from a timer that   *)
(* the backoff had set above or below rto.                                 *)
RtoAboveRtt == mismeasured \/ (rto >= sa \div 8 + 3 /\ sa <= 8 * MaxRtt)

=============================================================================
