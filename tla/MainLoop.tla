------------------------------ MODULE MainLoop ------------------------------
(* The endless loop of main.c, network_poll, and the clock and timer they  *)
(* go by (clock-arch.c, timer.c).  The clock interrupt may come between    *)
(* any two steps.  What a packet or the periodic call does to the network  *)
(* stack is in UipTcp; here they matter as what keeps the loop busy.       *)
EXTENDS Naturals, Integers

CONSTANTS
  TickSpace,        \* 2^32: ticks is uint32_t
  Interval,         \* CLOCK_SECOND / 2
  BlinkTicks,       \* the 5 of the redraw test
  QuitTicks,        \* the 50 of the wait for QUIT
  MaxLag            \* a bound: the loop is never behind by as much

ASSUME LoopSizes ==
  /\ {TickSpace, Interval, BlinkTicks, QuitTicks, MaxLag} \subseteq Nat \ {0}
  /\ Interval < MaxLag /\ MaxLag < TickSpace /\ QuitTicks < TickSpace - 1

VARIABLES
  loop_pc,          \* "poll", "keys", "blink", "quit" or, at the end, "closed"
  ticks,            \* the static counter of clock-arch.c
  timer_start,      \* periodic_timer.start
  last_clock_time,
  quit_now,         \* now, in the wait for QUIT
  quit_pending,     \* messagelength # 0, in that wait
  lag               \* history: the ticks since timer_start, uncut

loop_vars == <<loop_pc, ticks, timer_start, last_clock_time, quit_now,
               quit_pending, lag>>

(* clock_time() - t in clock_time_t.                                       *)
Since(t) == (ticks - t) % TickSpace

(* Faulty: the end of the interval is computed and compared.               *)
timer_expired_unwrapped == ticks >= timer_start + Interval

timer_expired == Since(timer_start) >= Interval

(* Faulty: the interval begins when the timer is seen to have expired.     *)
timer_reset_restart == ticks

timer_reset == (timer_start + Interval) % TickSpace

timer_set == timer_start = ticks /\ lag = 0

(* network_init sets the timer, at whatever time it is by then.            *)
network_init == ticks \in 0 .. TickSpace - 1 /\ timer_set

LoopInit == /\ network_init
            /\ loop_pc = "poll" /\ last_clock_time = 0
            /\ quit_now = 0 /\ quit_pending = FALSE

(* clock_tick_callback.  The bounds on a stall are MaxLag and, in the wait *)
(* for QUIT, the range of the counter; ticks are 100 ms.                   *)
Tick ==
  /\ loop_pc # "closed"
  /\ IF loop_pc = "quit" THEN Since(quit_now) < TickSpace - 1
     ELSE lag < MaxLag
  /\ ticks' = (ticks + 1) % TickSpace
  /\ lag' = IF loop_pc = "quit" THEN lag ELSE lag + 1
  /\ UNCHANGED <<loop_pc, timer_start, last_clock_time, quit_now, quit_pending>>

-----------------------------------------------------------------------------
(* network_poll: a packet, or else the timer, or nothing.  A packet or a   *)
(* periodic call may send the message that waits.                          *)
Sends == quit_pending' \in {quit_pending, FALSE}

Packet == Sends /\ UNCHANGED <<timer_start, lag>>

Periodic == /\ timer_expired
            /\ timer_start' = timer_reset
            /\ lag' = IF loop_pc = "quit" THEN lag ELSE lag - Interval
            /\ Sends

NoneDue == ~timer_expired /\ UNCHANGED <<timer_start, lag, quit_pending>>

(* slipdev_poll returned 0.                                                *)
QuietPoll == /\ loop_pc = "poll" /\ loop_pc' = "keys"
             /\ Periodic \/ NoneDue
             /\ UNCHANGED <<ticks, last_clock_time, quit_now>>

BusyPoll == /\ loop_pc = "poll" /\ loop_pc' = "keys"
            /\ Packet
            /\ UNCHANGED <<ticks, last_clock_time, quit_now>>

(* ui_handle_keyboard.  EXIT while a message waits closes the program at   *)
(* once; else QUIT is put there.                                           *)
NoExit == /\ loop_pc = "keys" /\ loop_pc' = "blink"
          /\ UNCHANGED <<ticks, timer_start, last_clock_time, quit_now,
                         quit_pending, lag>>

Exit == /\ loop_pc = "keys"
        /\ \/ loop_pc' = "closed" /\ UNCHANGED <<quit_now, quit_pending>>
           \/ loop_pc' = "quit" /\ quit_now' = ticks /\ quit_pending' = TRUE
        /\ UNCHANGED <<ticks, timer_start, last_clock_time, lag>>

(* The redraw twice a second, if the loop passes here in that tick.        *)
Redrawn == IF ticks # last_clock_time /\ ticks % BlinkTicks = 0
           THEN ticks ELSE last_clock_time

Blink == /\ loop_pc = "blink" /\ loop_pc' = "poll"
         /\ last_clock_time' = Redrawn
         /\ UNCHANGED <<ticks, timer_start, quit_now, quit_pending, lag>>

(* Faulty: the time is not looked at.                                      *)
QuitWaits_forMessage == quit_pending

QuitWaits == Since(quit_now) < QuitTicks /\ quit_pending

(* One turn of the wait for QUIT.                                          *)
QuitPoll == /\ loop_pc = "quit" /\ QuitWaits
            /\ Packet \/ Periodic \/ NoneDue
            /\ UNCHANGED <<loop_pc, ticks, last_clock_time, quit_now>>

Close == /\ loop_pc = "quit" /\ ~QuitWaits
         /\ loop_pc' = "closed"
         /\ UNCHANGED <<ticks, timer_start, last_clock_time, quit_now,
                        quit_pending, lag>>

Pass == BusyPoll \/ QuietPoll \/ NoExit \/ Exit \/ Blink

LoopNext == Tick \/ Pass \/ QuitPoll \/ Close

(* The clock runs, the processor runs, and the line is not so busy that    *)
(* slipdev_poll has a packet in every pass: a pass without one comes again *)
(* and again.  The last is the line's doing, not the code's.  In the wait  *)
(* for QUIT the loop comes back to its test; that the message is ever sent *)
(* is not assumed.                                                         *)
LoopFairness == /\ WF_loop_vars(Tick) /\ WF_loop_vars(Pass) /\ WF_loop_vars(Close)
                /\ SF_loop_vars(QuietPoll)

LoopSpec == LoopInit /\ [][LoopNext]_loop_vars /\ LoopFairness

-----------------------------------------------------------------------------
(* The periodic calls come one for each interval, on average never more:   *)
(* none before its interval has passed, and none is given up after a stall *)
(* or when the counter wraps (timer_expired and timer_reset).              *)
TimerOnTime ==
  loop_pc \in {"poll", "keys", "blink"} => lag >= 0 /\ Since(timer_start) = lag

(* The periodic calls never cease, though a packet is always taken first   *)
(* and the counter wraps (network_poll).                                   *)
TimerServed == <>(loop_pc \in {"quit", "closed"}) \/ []<><<Periodic>>_loop_vars

(* The program is left after EXIT, whatever the network does in the wait   *)
(* (main).                                                                 *)
QuitEnds == loop_pc = "quit" ~> loop_pc = "closed"

=============================================================================
