# fxIP: models, checks and proofs

fxIP is a TCP/IP stack (uIP 1.0) with an IRC client for Casio graphing
calculators, talking SLIP over the calculator's serial port. This directory
holds TLA+ models of it, the TLC runs that check them and the TLAPS proofs
about them. Line numbers refer to files under `src/src/`; `PROJECT.json` maps
every definition to its lines.

Contents: 1 inventory, 2 modules, 3 runs, 4 disagreements found, 5 proofs,
6 limits, 7 plan.

## 1. Inventory

One main loop (`main.c`) does everything except four things that happen under
its feet: the serial interrupt handler, the UART, the 100 ms clock callback and
the peer on the line.

| part | state | operations | used by | hard because |
|---|---|---|---|---|
| serial driver `scif.c`, `ringbuffer.h` | two rings, transmit interrupt enable, hardware FIFOs | `scif_write`, `scif_read`, `scif_interrupt` | SLIP, one byte in a call | an interrupt falls between any two accesses; a full ring looks empty |
| SLIP `slipdev.c` | `slip_buf`, `len`, `lastc` | `slipdev_send`, `slipdev_poll` | `network_poll` | state across calls and frames, bytes lost or changed, overlong frames |
| TCP `uip/uip.c` | an entry of `uip_conns` | `uip_input`, `uip_periodic`, `uip_connect` | `network_poll`; calls the application | lost, repeated, reordered segments; retransmission by asking the application |
| connection table `uip/uip.c` | `uip_conns`, `uip_listenports`, `lastport` | `uip_connect`, `uip_listen`, demultiplexing | TCP | full table, ports that wrap, reuse of TIME_WAIT |
| IP and ICMP input, checksums `uip/uip.c` | `uip_buf`, `uip_len` | header checks, ping | TCP | carries; a checksum adjusted by hand |
| round-trip estimator `uip/uip.c` | `sa`, `sv`, `rto` | one update for each acknowledgement | TCP | signed and unsigned 8-bit arithmetic |
| protosockets `uip/psock.c` | state, buffer, position of a protothread | `PSOCK_SEND`, `PSOCK_READTO` | IRC client | continues at the next call of uIP; flags that stay true within a call |
| IRC client `uip/irc.c` | two protosockets, `messagebuffer`, `messagelength` | login, PING, PRIVMSG, send | uIP; user interface and `main` write the buffer | two protosockets on one connection; one buffer with four writers |
| object log `objectlog.c`, `ringbuffer.h` | ring of objects in fragments | write, iterate, fetch | `ui.c` | wrap, fragments, dropping the oldest |
| user interface `ui.c`, `ui-keyboard.c` | pages, input line, scroll offsets | keyboard, log view, submit | main loop | reads fragments by hand; limits of the input line |
| main loop, timers, clock | ticks, periodic timer | `network_poll`, exit | everything | packets come before the timer; wrap; catching up |
| forwarding `uip/uip-fw.c` | `fwcache`, interfaces | `uip_fw_forward`, `uip_fw_output`, `uip_fw_periodic` | nothing calls it | full cache |
| ARP `uip/uip_arp.c` | `arp_table`, `arptime` | `uip_arp_arpin`, `uip_arp_out`, `uip_arp_timer` | nothing calls it | entries age, are replaced, learned anew |
| `uip-neighbor.c`, `memb.c`, `uiplib.c`, `hayes.c` | tables | | nothing calls them | |

What makes each part correct:

* serial driver: bytes leave and arrive once each and in order, an interrupt
  that is needed is never left disabled, `scif_write` returns, `scif_read`
  never reports an empty ring that is not;
* SLIP: what is sent over a clean line arrives, and damage stays within the
  frames that were hit;
* TCP: a stream in each direction; what is reported as acknowledged was
  delivered; nothing hangs, neither outstanding data nor a teardown;
* protosockets and IRC: a send returns when, and only when, the server has the
  text; lines are parsed once and in order; the message buffer becomes free;
* object log: what is in it can be read whole, in order; a fragment is one
  piece of memory; nothing is dropped without need;
* user interface: a page shows its newest messages from the bottom up; the
  input line is a line editor whose window follows the keys;
* main loop: the periodic calls come one for each interval, not before and not
  fewer after a stall, and never cease; EXIT ends the program;
* connection table: a segment has one owner; a new connection never takes the
  entry of a live one, nor a younger one in TIME_WAIT;
* IP input: a ping comes back sound and does not hide damage; TCP is given
  exactly the sound segments;
* estimator: the timeout stays above the round-trip time;
* forwarding: a packet is not forwarded twice while the cache has room for it;
  ARP: a packet goes to the address its next hop announced last.

`PROJECT.json` lists the hazards of the code, each at its line, with the
properties that cover it or the reason why none does.

## 2. Modules

| module | models | instance |
|---|---|---|
| `RingBuffer` | `ringbuffer.h` as operators on a record | |
| `Scif` | `scif.c`: main loop, handler, UART | `MCScif` |
| `ByteStream` | abstract: a byte queue that may break | |
| `ScifProofs` | theorems about `Scif` | |
| `Slip` | `slipdev.c` over a faulty line | `MCSlip` |
| `SlipProofs` | theorems about `Slip` | |
| `UipTcp` | `uip_process` for one TCP connection, both ends | `MCUipTcp` |
| `Stream` | abstract: one direction of a connection | |
| `UipTcpProofs` | theorems about `UipTcp` | |
| `IrcApp` | `irc.c` on `psock.c` on one connection; `ui.c`, `main.c` as writers of the buffer | `MCIrcApp` |
| `IrcProofs` | theorems about `IrcApp` | |
| `ObjectLog` | `objectlog.c` | `MCObjectLog` |
| `ObjectLogProofs` | theorems about `ObjectLog` | |
| `LogView` | the readers of `ui.c`, on `ObjectLog` | `MCObjectLog` |
| `LogViewProofs` | theorem about `LogView` | |
| `RecentLog` | abstract: a list that forgets its oldest entries | |
| `Keyboard` | `ui-keyboard.c`, the page table of `ui.c` | `MCParts` |
| `LineEditor` | abstract: an input line | |
| `MainLoop` | the loop of `main.c`, `network_poll`, `timer.c`, `clock-arch.c` | `MCParts` |
| `UipConns` | `uip_conns`, ports, listening | `MCParts` |
| `IpInput` | IP and ICMP input, checksums | `MCParts` |
| `IpInputProofs` | theorem about `IpInput` | |
| `RttEstimator` | the estimator in 8 bits | `MCParts` |
| `UipFw` | `uip-fw.c` | `MCParts` |
| `UipArp` | `uip_arp.c` | `MCParts` |
| `PartsProofs` | theorems about `Keyboard`, `MainLoop`, `UipConns`, `RttEstimator`, `UipFw` and `UipArp` | |

Definitions marked "Faulty" and named `Def_variant` are not part of a
specification. Each is `Def` with one plausible bug; put in the place of `Def`
it makes a named property fail, which shows that the property is about the
code. `PROJECT.json` lists the pairs under "mutants".

**Scif.** The grain is the access to a volatile variable. `scif_write` is
`WriteCall`, `WriteCompare` and `WriteCompute` (the two loads of
`ringbuffer_available`, l.56), `CopyWhole` or `CopyTail` and `CopyRest`
(`ringbuffer_write`), `Reduce` (its second store of `write_ptr`) and
`EnableTie` (l.59); `scif_read` is `ReadCall`, `ReadCheck`, `ReadByte`.
`scif_interrupt` may start between any two of them (`IsrEnter`), and while it
runs (`IsrFill`, `IsrFilled`, `IsrDrain`, `IsrExit`) only the UART does
anything else (`ShiftOut`, `Receive`). A byte is its number in its stream.
Of the hardware it is assumed that the two requests follow the FIFO levels,
and that the UART accepts no byte when its receive FIFO is full; what an
overrun loses is lost before this program.

**Slip.** A frame is put on the line as a whole (`slipdev_send` is not
interleaved with itself); each turn of the loop of `slipdev_poll` is an action
by the kind of byte. `PollOverlong` is the store one past `slip_buf`: what lies
there is the linker's choice, so it may change nothing, `len` or `lastc`. A
byte on the line carries the number of its frame and its place there, which the
receiver never looks at; the properties do.

**UipTcp.** Each host handles one thing at a time. `uip_periodic` is the timer
part of `uip_process` (l.722-819), `uip_input` the packet part from
`found` on, with one action for each state and outcome; the application is
called in place (`AppSend`, `AppCloses`, `AppAborts`) and may answer in any way
`uip_send`, `uip_close` and `uip_abort` allow, except that it closes only with
nothing outstanding, as protosockets do. The network is a set of at most
`MaxNet` segments, each deliverable any number of times, in any order, until it
is lost. The estimator of the round-trip time is replaced by any value from
`Rto`. Bytes are numbers in their sender's stream, sequence numbers are taken
modulo `SeqSpace` so that they wrap within a run.

**IrcApp.** uIP calls `irc_appcall` with flags; `irc_thread` runs until it
blocks, then `irc_send_thread` if a message waits, then uIP transmits what
`uip_send` left. An action is one step of a protothread between two tests of
its wait conditions: `SendBegin`, `SendWait`, `SendMore`, `SendEnd`,
`ReadBegin`, `ReadWait`, `ReadData`, `ReadPart`, `ReadLine`. The events around
the call are `Connected`, `Receive`, `Poll`, `Rexmit`, `TimedOut`, `Closed`,
`Return`; the writers of the buffer are `Submit`, `Quit` and `ReadLine`
(PRIVMSG and PING). A text is a name and a number of pieces of one segment
each at the smallest `Mss`. Data of an old packet that a protosocket has not
read lies in `uip_buf`, which every later packet and every `uip_send`
overwrites: it is spoilt nondeterministically at each call. The TCP connection
underneath is what `UipTcp` shows: one segment outstanding, delivered at most
once, acknowledged only then. `hist` is a history variable: whether a send was
alone, what was sent and parsed.

**ObjectLog.** `objectlog_write_scattered_object` is `Begin` (up to the first
loop), `Drop` for each object dropped, `Start`, `Chunk` for each turn of the
writing loop and `End`. The readers are operators on the state. The bytes of an
object are counted down so that its length is part of what is read; objects
are numbered round a set larger than the number that fits. `TwoFit`: any two
objects fit in the ring together, as two messages of `ui_write_log` (at most
259 bytes with their header, 263 with the fragments', as long as a line fits in
`inputbuffer`) do in its 2048. The code does not check it, and needs it: the
only object in the log is never dropped (l.133).

**LogView** extends ObjectLog with the functions of `ui.c` that read it, as
operators: they run between writes and change nothing.
`ui_objectlog_get_message` has the loop over the header as it is, with the
length that wraps below zero, and the loop that skips scrolled characters, with
position 0 taken for the end; `ui_render_logs` asks for the indices 0, -1, -2
and so on, where -0 is the oldest object (l.138). A character is one column
wide. Each loop over fragments is a recursive function of the turns left, of
which `Size` are enough: the fragments of an object lie one behind the other.
The assumption `ByteSpace > MAX_FRAGMENT_LEN` says that a length of 7 bits
(`objectlog.c:6`) fits in the `uint8_t` that the readers keep it in.

**Keyboard.** One action is one call of `ui_handle_keyboard` with a key going
down or up. The characters of all keys are translated; the run presses a page
key with and without an input line, SHIFT, ALPHA, LEFT, RIGHT, DEL, EXE, EXIT
and two character keys. `LineEditor` is what it implements.

**MainLoop.** A turn of the loop is `BusyPoll` or `QuietPoll` (`network_poll`
with a packet or without), `NoExit` or `Exit` (`ui_handle_keyboard`), `Blink`;
`Tick` is the clock interrupt and may come before each. `QuitPoll` and `Close`
are the wait for QUIT. `lag` counts the ticks since the start of the timer
without a modulus.

**UipConns** is the table alone: `uip_connect` with its search for a port and
for an entry, `Syn` (found_listen), `uip_listen`, `uip_unlisten`, the ageing of
entries that only wait; a connection in between moves on in any order its state
allows (`Advance`). `PortsSuffice`: there are more ports than entries, else the
search goes on for ever. The search for a port is stated by what it finds, the
first after `lastport` that no entry uses. The search for an entry is the loop of
the code, turn by turn (`Look`, `Scan`), since it is the loop that can go wrong:
leaving it late or turning the comparison round breaks `ReusesOnlyDead`. The
program opens one connection and listens on no port; the module takes every use
of the interface.

**IpInput** is `uip_process` from a packet to the verdict on it. The sums are
those of the code, over words of two digits of base `Byte`; the properties
compare them with the definition of the ones' complement sum (`Total`,
`Verifies`). The header has the fields that are looked at. A packet comes with
any checksum of its data, and with fields of its header changed (`Damage`) or
bytes added behind it (`Padding`). For a TCP packet whose length field is below
the size of the header the code sums some 2^16 bytes of memory: what comes out
may be anything (`SegmentSums`).

**RttEstimator** is l.1449-1462 with the widths of `struct uip_conn`, and around
it what decides which segment is measured from which timer: `Transmit`,
`Retransmit` (the backoff of l.771), `NewData` (l.1710 sets `nrtx` back) and
`Acknowledge`, which measures whenever `nrtx` is 0. A segment that was sent once
has been on its way for at most `MaxRtt` periods; for one that was sent again
any value of the timer is possible. `mismeasured` says that such a one was
measured.

**UipFw, UipArp**: an action for each function. Addresses are pairs of a
network and a host, or names.

**MCParts** runs these seven side by side: `part` says which one acts in a
behaviour, the others rest, since they share no state.

## 3. Runs

| run | shows | bounds |
|---|---|---|
| `scif` | the inductive invariant (types, order in both directions, no lost wakeup), the torn tests are safe, both sides implement `ByteStream`; bytes drain, writes return, bytes arrive, while the handler does not meet the un-reduced pointer | ring 3, FIFO 2, 5 bytes out in writes of any length, 4 in |
| `scif_txdone` | violation, see 4 | ring 3, 5 bytes |
| `scif_stale` | violation, see 4 | ring 3, 6 bytes |
| `slip_line` | packets in order over a clean line; an intact frame arrives whatever came before it; every packet arrives | buffer 3, 2 frames of 4 kinds, 2 faults |
| `slip_bound` | violation, see 4 | same |
| `tcp` | order, acknowledged means delivered, no FIN before data, each direction implements `Stream`; outstanding data is resolved unless the peer sends more, teardown ends | 2 bytes up, 1 down, 2 segments in the network, 2 retransmissions |
| `tcp_connect` | violation, see 4 | 1 byte each way, 3 retransmissions |
| `irc_send` | the server's transcript, a send that nothing disturbs means received, lines parsed once and in order | texts of 2 pieces, mss 1 or 2, 4 lines of which one is longer than the buffer, 1 retransmission |
| `irc_live` | sends return, the buffer becomes free, unless the server sends more | texts of one piece, 3 lines |
| `irc_blocks` | violation, see 4 | same |
| `objectlog` | objects readable at every step, the ends of the list meet, fragments contiguous, nothing dropped without need, implements `RecentLog`; a page shows its newest messages | ring 16, fragments to 3, objects of 2, 3, 5 and a refused one of 16; two pages of two lines, scrolled by 0 to 2 |
| `parts` | `IsLineEditor`, `WindowFollows`; `TimerOnTime`, `PollsServed`, `QuitEnds`; `NoTwoAlike`, `ReusesOnlyDead`; `EchoIsSound`; `RtoAboveRtt`; `ForwardedOnce`; `SentToLatest` | below |

Why the bounds are enough:

* A ring of 3 slots reaches every case of the pointers (equal, apart, wrapped,
  at the end of the array, full), and the bytes go round it, in writes that end
  before, at and beyond the end of the array; 9 bytes round a ring of 4 were
  checked once.
  `BoundedLine` cuts only behaviours in which the handler has met the un-reduced
  `write_ptr` (`txWrapped`): there it may send stale bytes for ever, and the
  history variable `line` grows without end. In such a behaviour the program may
  never run again, so a write need not return and bytes received need not be
  read: `WriteReturns`, `RxDelivers` and `TxDrains` all except it, and with that
  the cut hides no counterexample of theirs. The safety properties of the run
  are proved without the bound.
* Two faults on the line are what it takes to merge two frames (two ENDs lie
  between them); the packets hold every special
  byte, one fills the buffer.
* Two bytes up with an mss of 2 give one and two segments; with two segments in
  a network that repeats and reorders them, an old one can meet a new state of
  either host. A third segment (`MaxNet = 3`) was checked once: 2.2 million
  states, no error. The sequence numbers of the client wrap in the middle.
* `Resolves`, `SendReturns` and `SlotFrees` are stated round by round: either
  what they promise happens, or more data of the peer arrives. That is not a
  matter of the bounds `MaxBytes` and `Stream` but of the code: every call of
  the application for new data sets `nrtx` back (l.1710), so against a peer that
  goes on sending while our segments are lost a host retransmits for ever and
  never gives up.
* In IrcApp two pieces per text give the loop of `psock_send` a second turn, a
  window that changes in between makes the two `uip_mss()` differ, and a line
  longer than the buffer is cut.
* In ObjectLog the state space is complete: writes go on for ever, object
  numbers are reused, and fragments come to lie at every position of the ring,
  empty ones at its last byte included.

* Keyboard: a buffer of 4 and a display of 1 character, so that the line fills,
  scrolls, is erased and submitted; `scroll_x` wraps at 2 in place of 2^16.
* MainLoop: the tick wraps at 10, the interval is 3, and the loop may fall
  behind by up to 6 ticks (`MaxLag`), two intervals: the timer is served, is
  late, catches up and meets the wrap in every position.
* UipConns: two entries, three ephemeral ports, two peers, one listening port
  that is also ephemeral; the ports wrap while entries still use them. Three
  entries and four ports were checked once: 4.2 million states, no error.
* IpInput: `Byte` = 8, so that words are below 64 and every carry happens; every
  value of the checksum of every packet, whole, with one field damaged, and with
  a length that is too small and a header checksum that makes up for it.
* RttEstimator: full widths; round trips up to `MaxRtt` = 31 periods; two
  retransmissions of data and one of a SYN. The 8 and 5 of the code were checked
  once: 180,567 states of this part, no error. A behaviour is followed up to the
  first measurement that `RtoAboveRtt` excepts.
* UipFw: two entries kept for 2 periods, packets that repeat, expire, are for
  the host; at most 3 packets in 2 periods (`MaxSeen`). UipArp: two entries for
  three neighbours with two addresses each, of which one has a half that is 0; the
  age wraps at 4.

Deadlock is not checked where the system may stop: bounded workloads end
(Scif, Slip), connections close (UipTcp), the program exits (IrcApp), a packet
has its verdict (IpInput).
ObjectLog always accepts another write and is checked.

Fairness, and why the code justifies it:

* Scif: weak fairness of the main loop inside its calls, of the handler and of
  the UART's shift register: the processor runs one of the first two at any
  time, the line clock never stops. No fairness for writing or receiving.
* Slip: weak fairness of `slipdev_poll`, which the main loop calls for ever.
* UipTcp: weak fairness of `uip_periodic` for each host, nothing about the
  network. `network_poll` reaches the timer only when no packet waits
  (`network.c:59`): the assumption is that packets leave it time.
* MainLoop: weak fairness of the clock and of the processor, and strong fairness
  of a pass of `network_poll` without a packet: the line is not so busy that
  there is one every time. That is the line's doing, and the same assumption as
  UipTcp's. `QuitEnds` does not need the message ever to be sent.
* IrcApp: weak fairness of the steps within a call, which run to its end, and
  of the periodic timer.

## 4. Disagreements between the code and what it says

1. `TxDoneMeansSent` (`scif.c:83`): the ring may be filled to its last byte; it
   then looks empty, and the handler disables the interrupt as if all were
   sent.
2. `OnlyWrittenBytesSent` (`ringbuffer.h:68`): an interrupt between the two
   stores of `write_ptr` lets the handler wrap its own pointer and send bytes
   nobody wrote.
3. `BytesReadIntoBuffer` (`slipdev.c:220`): the length is tested after the
   store; the byte of a frame that is longer than the buffer goes one past it.
4. `RequestPersists` (`uip.c:1552`): a repeated SYN is answered with a plain
   ACK, and the client takes that for the end of its request.
5. `SendBlocks` (`irc.c:178`): two protosockets send in one call and take one
   acknowledgement for both; the first text never reaches the server.

The properties that hold are stated around these: `TxIntact` excludes the
first two (`WriteReturns` and `RxDelivers` except only the second, in the form of
`txWrapped`), `hist.alone` and `hist.pure` exclude the last.

These were met while modelling and have no run of their own:

* `uip.c:1010`: the checksum of a ping's reply is adjusted to 0 where it has to
  be 0xffff, if all the rest of the reply is zero (`Blank`, which `EchoIsSound`
  excludes). A ping whose length field does not cover its own header is
  answered too, with a checksum adjusted beyond its end.
* `uip.c:337`: the length field of a packet is not compared with the size of the
  header, so the length of a segment may wrap, and the addition of which l.341
  says that it cannot carry does; `EchoIsSound` says of such a packet only that
  its header was tested.
* `uip.c:1448`: "Do RTT estimation, unless we have done retransmissions." The
  test is `nrtx == 0`, and l.1710 sets `nrtx` back at every call of the
  application for new data: a segment sent again after a backoff (l.771) is then
  measured. The timer may by now be above `rto`, the measured time negative and
  the estimate wrap: with `sa` 1 and `rto` 4, two retransmissions and data of the
  peer give `sa` 255 and `rto` 36. `RtoAboveRtt` excepts what comes after
  (`mismeasured`).
* `uip.c:1449`: for round trips of 32 periods (16 s) and more the estimator
  wraps; `RtoAboveRtt` holds below.
* `ui.c:180`, `ui.c:208`: the header loop reads the first fragment again if it
  is shorter than a header, for ever if it is empty; a scrolled message whose
  text goes on at position 0 of the ring is taken to end there (`Readable` and
  `Scrollable` of LogView).
* `ui.c:138`: the first index is -0, the oldest message, which so stands below
  the newest; `PageShowsNewest` states it so.
* `main.c:92`: the redraw happens only if the loop passes within the tick that
  is a multiple of 5.
* `uip_arp.c:168`: "Only check those entries that are actually in use." The `&&`
  takes an entry for unused if either half of its address is 0, as in 10.5.0.0,
  a host of the network 10. Such a host is entered anew each time it announces
  itself, l.382 finds the first of its entries, which need not be the latest,
  and they push out those of others (`KnownTo`; `SentToLatest` excepts it).
* `uip_arp.c:150`: the age of an entry is negative after `arptime` has wrapped,
  and the entry lives for 256 periods more; `uip-neighbor.c:102` compares an IP
  address with a link address.

Two smaller ones have no run: `objectlog.c:94` promises the number of missing
bytes and l.127 returns a negative number in an unsigned type, which no caller
reads; and `objectlog.c:219` lets negative indices count to the first object,
which l.230 refuses (`EndsMeet` states what the code does).

## 5. Proofs

All theorems are checked by TLAPS for every value of the constants that
satisfies the named assumptions.

`ScifProofs` rests on `RingSizeAssumption` (sizes are positive and twice the
ring fits in 16 bits) and `ScifAssumption`.

* `Invariance`: `Spec => []IInv`. `IInv` is inductive; `TxInOrder` and its like
  are not, since they say nothing of what the ring holds. It has three parts:
  where each pointer is reduced and what is left to copy (`ControlInv`); what
  each ring holds between its pointers (`TxHolds`, `RxHolds`, by `Holds`), with
  the exception of the ring emptied under an un-reduced `write_ptr`; and the
  wakeup. The torn reads are in it as what a stale comparison still implies
  (`pc = "compute" /\ ge => WriteAhead`, `pc = "read" /\ ~ge => Pushed >
  Len(got)`). The lemmas `TakeOldest`, `PushByte`, `CopyBytes`, `ReduceKeeps`
  say what each ring operation does to `Holds`; `NextControl`, `NextTx`,
  `NextRx` and `NextWakeup` take the actions one by one.
* `TypeCorrect`, `TransmitOrder`, `ReceiveOrder`, `Wakeup`: its corollaries.
* `WritesFit`, `NoMiss`: the action properties of the torn reads. `TornSpace`
  is the arithmetic of the first.
* `TransmitIsStream`, `ReceiveIsStream`: both sides implement `ByteStream`,
  step by step.

`SlipProofs` rests on `SlipAssumption` and `Fits`: no packet is longer than
`slip_buf`. `slipdev_send` sends `uip_len` bytes of a buffer of that size, so
`Fits` is a promise of the peer only; a longer packet is lost, by intent.

* `CleanLine`: `Spec => []PacketsInOrder`; `IntactFrame`: `Spec =>
  IntactFrameArrives`.
* `FrameShape` says what a frame looks like: END, then the escapes of the bytes
  from the places `Start(p)` on, then END. It is proved from the recursive
  function of `FlattenSeq` by induction on the length (`FlattenLies`).
* `SlipInv`: the receiver that has read `k` bytes of an intact frame has the
  bytes of the packet that start before `k` in its buffer, and an open escape
  exactly if `k` falls inside one (`Within`); bytes of one intact frame follow
  each other on the line (`Behind`); and while nothing was hit, what was
  received and the front of the line say how far it is (`Clean`). `ReadByte` and
  `CloseFrame` are the turns of the loop over an intact frame; the case `k = 1`,
  the leading END, is the one that holds in every state of the receiver, and so
  the one that ends any damage.

`UipTcpProofs` rests on `TcpAssumption`, the streams also on `NoReuse`: a host
sends fewer bytes in a connection than there are sequence numbers. The model's
network delivers a segment any number of times and keeps it for ever; with a
sequence number used twice, an old segment passes for a new one (TLC shows it
with `SeqSpace` = `MaxBytes` = 4). TCP answers with the lifetime of segments,
which the model does not have, so `NoReuse` stands for it: 2^32 bytes of chat.

* `TypeCorrect`: `Spec => []TypeOK`, one lemma for the timer, one for
  segments, one for the application's answers. Among the rest it shows that
  the 8-bit counter of retransmissions stays within its bound through every
  handler.
* `Delivered`, `AckedDelivered`, `FinLast`: the three safety invariants of the
  run; `ConnectionIsStream`: each direction implements `Stream`, step by step.
  They rest on `StreamsGood`, which speaks of positions in the stream in place
  of sequence numbers: a sender has at most one segment outstanding; its peer
  has delivered all before it and perhaps the segment itself; every segment in
  the network carries a piece of the stream from a position the sender has
  reached and an acknowledgement of a position its sender has delivered. By
  `NoReuse` equal numbers are equal positions, so a segment the peer accepts is
  the outstanding one, and an acknowledgement the sender accepts comes from a
  host that delivered it.

`IrcProofs` rests on the assumptions of `IrcApp` alone: the sizes, and, for
the last theorem, that the pieces of the stream have the numbers of their lines
(`LinesNumbered`).

* `SentOnceInOrder`: `Spec => []Transcript`; `SentMeansReceived`: `Spec =>
  SendMeansReceived`. The invariant `IrcInv` follows an undisturbed send through
  its stages: called, handed over to uIP, under way, acknowledged; in each it
  says how much of the text the server has and what `psock_send` believes it
  has (`sendlen` and the state of the protosocket). The proof turned up two
  overlapping cases in `ReadLine`; the code's `else if` orders them, and now so
  does the model.
* `LinesInOrder`: `Spec => []ParsedInOrder`. As long as nothing was left behind
  in `uip_buf` (`~hist.stale`), the invariant `ParseInv` says that what is
  unread is the end of what arrived, and where in the control it may lie
  (`Leftover`): only in a call that reads, or while the login sends. It follows
  the place in the stream that the parser has reached (`Taken`), and cuts the
  stream there (`ParsedTo`): the lines up to `l` are parsed, and what follows
  has no newline and is in the buffer as far as it fits. `LinesMore` adds a
  parsed line to the list; it needs the number of newlines before a place to be
  the number of its line (`EndsSplit`, `LineIs`).

`ObjectLogProofs` rests on `Sizes` and `TwoFit`, and holds for every size of
the ring and of fragments and every set of objects.

* `ReadableAlways`, `ContiguousAlways`, `EndsAlwaysMeet`: the three safety
  invariants of the run; `DropsForSpace`: `DropsOnlyForSpace`;
  `RefinesRecentLog`: the ring, seen through its readers, implements
  `RecentLog`.
* The properties speak of what the readers find, the code of cells, so none of
  them is inductive. `Inv` says where everything lies: object `k` begins
  `off[k]` bytes after `ptr_first` and they lie end to end (`Placed`); each is
  a chain of fragments, given by the places `H` of its headers and the bytes
  `c` that are left from each on, and no fragment crosses the end of the ring
  (`Fragmented`). During a write the new object is such a chain up to
  `write_ptr`; the fragment begun last may still lack `Pending` bytes, and what
  is still to come takes `Need` bytes, its headers included, within the space
  that `Drop` made. `Need` has the header that a fragment cut short by the end
  of the ring costs; `NeedStep` shows that this happens at most once.
* `NextEntry`, `FragmentsIs` and `ReadStored` follow `get_next_entry` and the
  readers along a chain, by induction on the bytes left; `NoEntry` is the walk
  through zeroed storage, which has to come round to the first object.
  `Kept`, `Begun` and `Continued` say what each write to the ring does to a
  chain. `TwoFit` enters in `InvDrop` and `InvStart` only: without it the loop
  would stop at the last object with too little room.

`LogViewProofs` (from `ViewSizes` and the assumptions of `ObjectLog`):
`PageAlwaysShowsNewest`, `Spec => []PageShowsNewest`, for every size of the
ring, of fragments, of the header and of the screen and every set of messages.
It speaks of logs in which the first fragment of each message holds its header
(`Readable`), and, where a line is scrolled, of texts that do not go on at
position 0 (`Scrollable`): the two cases under "met while modelling".

* The invariant is that of ObjectLog and `Bounded`: no length is above
  `MAX_FRAGMENT_LEN`, so that the 8 bits of `length` change nothing.
* `SkipIs` and `DrawIs` give the two loops as recursions over the turns left.
  Both follow the chain of fragments `H` by which `Inv` describes an object:
  `Link` says where a fragment's successor is and how many bytes it has left,
  and `SkipsTo` and `DrawsTo` are inductions on the bytes from there to the end.
  A cursor with `m` bytes of the object left (`Points`) is what the first loop
  hands to the second (`MessageIs`).
* A line is correct (`LineIs`) if its pieces together are the next bytes of the
  object, side by side, up to its end or past the screen; `LineNone`, `LineOne`
  and `LineCons` are the cases of a turn. `LineFar` is the one in which
  `pencil_x` has wrapped, about which nothing is promised.
* `Turn` says which object a turn of `ui_render_logs` looks at, and is its own
  inverse; by `EndsMeet` the negative index finds that object (`IterIs`).
  `Ranks` shows, by induction on the turns, that object `o` gets the line with
  the number of objects of its page that were looked at no later (`Count`), and
  that this is the number in the property (`SeenIs`).

`PartsProofs` has one section for each of six parts that share no state, those
that `MCParts` runs one by one (the seventh has `IpInputProofs`).

Of the keyboard (from `KeyboardSizes`), for every buffer, set of keys, width of
the display and table of pages:

* `KeyboardEditsLine`: the keyboard implements `LineEditor`. The invariant
  `LineInv` says that the buffer holds characters up to `input_offset` and NULs
  from there to its end; under it the C string is unique (`TextOfFilled`), and
  no key has the NUL for its character (`CharacterOfKey`), so one lemma for each
  edit gives the abstract step.
* `ViewFollowsKeys`: `KeyboardSpec => WindowFollows`. The invariant `WindowInv`
  keeps `input_scroll_offset` at most at the last full window (`WindowEnd`),
  through typing, erasing and submitting; so the limit that `ui_update` puts on
  it never changes anything.

Of the loop (from `LoopSizes`): `PeriodicOnTime`, `LoopSpec => []TimerOnTime`.
The invariant keeps the wrapped counter and the true delay in step (`OnTurn`:
the start is `lag` ticks back, on this turn of the counter or the one before),
which `timer_expired` and `timer_reset` preserve because `MaxLag` is less than a
turn.

Of the parts of uIP:

* `TimeoutAboveRoundTrip` (from `RttSizes`): `RtoAboveRtt` for every round trip
  up to 31 periods, every first timeout from 3 on and every limit of
  retransmissions. The invariant says that a segment that was sent once has its
  timer at `rto` and that, unless `mismeasured`, the estimate is in a range
  (`InRange`) that a measurement keeps (`EstimateKeeps`): the deviation never
  falls below 3, and from it no cast to 8 bits changes a value (`SignedChar`,
  `Byte8`).
* `PacketsReachLatest` (from `ArpSizes`): `ArpSpec => []SentToLatest`. The
  invariant adds that every entry in use holds the last address of its host
  (`UpToDate`), hosts with a half of 0 apart. It does not matter to it which entry is given up when the table
  is full.
* `OneOwner` and `LiveEntriesKept` (from `ConnSizes`): `[]NoTwoAlike` and
  `ReusesOnlyDead`. Entries in use differ in what `uip_input` compares
  (`Differ`); the search for a port keeps that because it ends at one nobody
  uses, the first of which there is since there are more ports than entries
  (`LeastOf`). `LookFinds` says what one turn
  of the scan for an entry keeps: no candidate while no entry may be taken, else
  a closed one, or the oldest of those seen in TIME_WAIT while none was closed.
  `ScanIsLoop` takes it through the table by induction (`CountsUp`), and
  `FreeConnIsDead` is what it says at the end.
* `NoSecondForward` (from `FwSizes`): `[]ForwardedOnce`. A packet is remembered
  for as long as fewer packets came after it than the cache has entries: the
  entries younger than its own stand for different packets (`Tells`,
  `Remembered`), so a cache full of those has seen too many.

`IpInputProofs` (from `PacketSizes` and `PacketsArePackets`): `PingsAreSound`,
`IpSpec => []EchoIsSound`, for bytes of every even number of values, packets of
every length and content and every damage to their headers.

* `Total` adds the words of a sequence as numbers, `chksum` adds them in 16 bits
  with the carry put back. `ChksumIsTotal`: whatever both begin with, they
  differ by a multiple of the largest word, and `chksum` is 0 only if everything
  is; so a checksum is right just when the total is a positive multiple
  (`ChecksumRight`).
* Totals can be taken apart: `TotalConcat` for two parts of which the first is
  even, which is where an odd byte at the end of the first would go wrong;
  `TotalPair` and `TotalWith` for two bytes and for a word.
* The reply has the words of the request's header in another order
  (`EchoHeader`); of its data two words are different, and `AdjustedIs` shows
  that with the branch for the carry the total is the same or less by the
  largest word (`EchoData`). That it may become 0 is the case `Blank`, and by
  `TotalZero` the only one.
* The proof needed `UIP_PROTO_TCP <= UIP_IPH_LEN` for the pseudo header, and
  showed that without a bound on the length field from below the addition there
  wraps; the model used to take the difference as it is. `SegmentSums` and
  the two exceptions in `EchoIsSound` come from that.

Induction: the theorems of the library that take a predicate as a parameter
cannot be used. Where a proof needs induction over numbers it is over a set of
them (`LeastOf`, `Induct`), from the well-foundedness of `<`.

Only model-checked: all liveness properties, since the prover does not reason
about fairness. Every safety property of a run, invariant or action property,
is stated by a theorem.

## 6. Not modelled

UDP, reassembly, broadcast and ping configuration are compiled out. Of TCP, the
window, the MSS option, `uip_stop` and urgent data are left out, and sequence
numbers are added modulo `SeqSpace` in place of four bytes with carries. Of the
protosockets, `psock_generator_send`, `psock_readbuf` and `buf_bufdata`, which
nothing calls. `hayes.c` is commented out; neighbours and memory blocks are
called by nothing; `fxlibc` is pure string functions. The splitting of IRC
lines, log messages, statistics and drawing are formatting.

## 7. Plan

Models: a second incarnation of a connection in UipTcp, with the initial
sequence numbers of UipConns, that meets segments of the first; the window and
the MSS option of `uip.c:1336-1380`; the parser of `irc.c:23-120`.
