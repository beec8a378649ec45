-------------------------------- MODULE Scif --------------------------------
(***************************************************************************)
(* src/scif.c: the serial driver.  Three actors share it:                  *)
(*   - the main loop, inside scif_write or scif_read;                      *)
(*   - scif_interrupt, which suspends the main loop between any two of its *)
(*     memory accesses and runs to its end;                                *)
(*   - the UART, which shifts bytes out of its transmit FIFO and into its  *)
(*     receive FIFO at any moment, also while the handler runs.            *)
(* A byte is its number in its stream, counted from 1.                     *)
(***************************************************************************)
EXTENDS RingBuffer, Sequences

CONSTANTS
  FifoSize,     \* depth of each hardware FIFO (the 16 of scif_interrupt)
  TxTrigger,    \* the UART asks for bytes when its FIFO holds no more
  Lens,         \* the lengths scif_write is called with
  MaxTx,        \* bound: bytes the program writes
  MaxRx         \* bound: bytes the line delivers

ASSUME ScifAssumption ==
  /\ FifoSize \in Nat \ {0}
  /\ TxTrigger \in 0 .. FifoSize - 1
  /\ Lens \subseteq 1 .. RingSize
  /\ MaxTx \in Nat
  /\ MaxRx \in Nat

VARIABLES
  tx_ring, rx_ring,   \* the two rings
  tie,                \* SCSCR.TIE, the transmit interrupt enable
  tfdc, rfdc,         \* SCFDR, how many bytes the hardware FIFOs hold
  pc,                 \* where the main loop stands in scif_read or scif_write
  len,                \* scif_write's len, then what ringbuffer_write has left
  ge,                 \* outcome of the comparison in ringbuffer_available
  isr,                \* where scif_interrupt stands, "off" when not running
  written,            \* history: bytes made visible in tx_ring
  line,               \* history: bytes given to the transmit FIFO
  latched,            \* history: bytes the receive FIFO accepted
  got,                \* history: bytes scif_read returned
  txFilled, rxFilled, \* history: a ring came to hold RingSize bytes
  txWrapped           \* history: the handler met a write_ptr of RingSize
                      \*   with its own read_ptr already back at 0

ringVars == <<tx_ring, rx_ring>>
uartVars == <<tie, tfdc, rfdc>>
mainVars == <<pc, len, ge>>
txHist   == <<written, line, txFilled, txWrapped>>
rxHist   == <<latched, got, rxFilled>>
vars     == <<ringVars, uartVars, mainVars, isr, txHist, rxHist>>

PC  == {"idle", "read", "take", "space", "compute", "copy", "rest",
        "reduce", "enable"}
ISR == {"off", "fill", "drain"}

TypeOK ==
  /\ tx_ring \in Ring /\ rx_ring \in Ring
  /\ tie \in BOOLEAN
  /\ tfdc \in 0 .. FifoSize /\ rfdc \in 0 .. FifoSize
  /\ pc \in PC /\ len \in 0 .. RingSize /\ ge \in BOOLEAN
  /\ isr \in ISR
  /\ written \in Nat /\ line \in Seq(Nat)
  /\ latched \in Nat /\ got \in Seq(Nat)
  /\ txFilled \in BOOLEAN /\ rxFilled \in BOOLEAN /\ txWrapped \in BOOLEAN

scif_init ==
  /\ tx_ring = ringbuffer_init /\ rx_ring = ringbuffer_init
  /\ tie = FALSE
  /\ tfdc = 0 /\ rfdc = 0
  /\ pc = "idle" /\ len = 0 /\ ge = TRUE
  /\ isr = "off"
  /\ written = 0 /\ line = <<>>
  /\ latched = 0 /\ got = <<>>
  /\ txFilled = FALSE /\ rxFilled = FALSE /\ txWrapped = FALSE

Running == isr = "off"       \* the main loop runs only outside the handler

-----------------------------------------------------------------------------
(* scif_read: ringbuffer_available reads write_ptr, compares, reads it     *)
(* again; only then is the byte taken.                                     *)
ReadCall ==
  /\ Running /\ pc = "idle"
  /\ pc' = "read"
  /\ ge' = WriteAhead(rx_ring)
  /\ UNCHANGED <<ringVars, uartVars, len, isr, txHist, rxHist>>

(* Faulty: the difference tested as a signed number.                       *)
ReadCheck_signed ==
  /\ Running /\ pc = "read"
  /\ pc' = IF (IF ge THEN rx_ring.write_ptr - rx_ring.read_ptr
                     ELSE RingSize - rx_ring.read_ptr + rx_ring.write_ptr) > 0
             THEN "take" ELSE "idle"
  /\ UNCHANGED <<ringVars, uartVars, len, ge, isr, txHist, rxHist>>

(* Faulty: no test.                                                        *)
ReadCheck_none ==
  /\ Running /\ pc = "read"
  /\ pc' = "take"
  /\ UNCHANGED <<ringVars, uartVars, len, ge, isr, txHist, rxHist>>

ReadCheck ==
  /\ Running /\ pc = "read"
  /\ pc' = IF Difference(rx_ring, ge) # 0 THEN "take" ELSE "idle"
  /\ UNCHANGED <<ringVars, uartVars, len, ge, isr, txHist, rxHist>>

ReadByte ==
  /\ Running /\ pc = "take"
  /\ pc' = "idle"
  /\ got' = Append(got, NextByte(rx_ring))
  /\ rx_ring' = ringbuffer_read_one(rx_ring)
  /\ UNCHANGED <<tx_ring, uartVars, len, ge, isr, txHist, latched, rxFilled>>

-----------------------------------------------------------------------------
(* scif_write: spin until there is room, copy, reduce the pointer, enable  *)
(* the interrupt.                                                          *)
WriteCall ==
  /\ Running /\ pc = "idle"
  /\ \E n \in Lens :
       /\ written + n <= MaxTx
       /\ len' = n
  /\ pc' = "space"
  /\ UNCHANGED <<ringVars, uartVars, ge, isr, txHist, rxHist>>

WriteCompare ==
  /\ Running /\ pc = "space"
  /\ ge' = WriteAhead(tx_ring)
  /\ pc' = "compute"
  /\ UNCHANGED <<ringVars, uartVars, len, isr, txHist, rxHist>>

(* Faulty: one byte too many, one byte too few.                            *)
HasSpace_offByOne(available, n) == RingSize - available + 1 >= n
HasSpace_strict(available, n)   == RingSize - available > n

(* RING_BUF_SIZE - available is an int, so it may be negative.             *)
HasSpace(available, n) == RingSize - available >= n

WriteCompute ==
  /\ Running /\ pc = "compute"
  /\ pc' = IF HasSpace(Difference(tx_ring, ge), len) THEN "copy" ELSE "space"
  /\ UNCHANGED <<ringVars, uartVars, len, ge, isr, txHist, rxHist>>

(* n more bytes have become visible to the handler.                        *)
Publish(n) ==
  /\ written' = written + n
  /\ txFilled' = (txFilled \/ written + n - Len(line) >= RingSize)
  /\ UNCHANGED <<line, txWrapped>>

(* Faulty: the end of the array is not tested.                             *)
CopyWhole_untested ==
  /\ Running /\ pc = "copy"
  /\ tx_ring' = [tx_ring EXCEPT !.buffer = memcpy(tx_ring, written + 1, len),
                                !.write_ptr = @ + len]
  /\ Publish(len)
  /\ pc' = "reduce" /\ len' = 0
  /\ UNCHANGED <<rx_ring, uartVars, ge, isr, rxHist>>

CopyWhole ==
  /\ Running /\ pc = "copy" /\ Room(tx_ring) >= len
  /\ tx_ring' = [tx_ring EXCEPT !.buffer = memcpy(tx_ring, written + 1, len),
                                !.write_ptr = @ + len]
  /\ Publish(len)
  /\ pc' = "reduce" /\ len' = 0
  /\ UNCHANGED <<rx_ring, uartVars, ge, isr, rxHist>>

(* Faulty: write_ptr is reset before the tail is copied.                   *)
CopyTail_resetFirst ==
  /\ Running /\ pc = "copy" /\ Room(tx_ring) < len
  /\ tx_ring' = [tx_ring EXCEPT
                   !.buffer = memcpy([tx_ring EXCEPT !.write_ptr = 0],
                                     written + 1, Room(tx_ring)),
                   !.write_ptr = 0]
  /\ Publish(Room(tx_ring))
  /\ pc' = "rest" /\ len' = len - Room(tx_ring)
  /\ UNCHANGED <<rx_ring, uartVars, ge, isr, rxHist>>

CopyTail ==
  /\ Running /\ pc = "copy" /\ Room(tx_ring) < len
  /\ tx_ring' = [tx_ring EXCEPT
                   !.buffer = memcpy(tx_ring, written + 1, Room(tx_ring)),
                   !.write_ptr = 0]
  /\ Publish(Room(tx_ring))
  /\ pc' = "rest" /\ len' = len - Room(tx_ring)
  /\ UNCHANGED <<rx_ring, uartVars, ge, isr, rxHist>>

(* Faulty: data8 is not advanced past the tail.                            *)
CopyRest_fromStart ==
  /\ Running /\ pc = "rest"
  /\ tx_ring' = [tx_ring EXCEPT !.buffer = memcpy(tx_ring, written, len),
                                !.write_ptr = @ + len]
  /\ Publish(len)
  /\ pc' = "reduce" /\ len' = 0
  /\ UNCHANGED <<rx_ring, uartVars, ge, isr, rxHist>>

CopyRest ==
  /\ Running /\ pc = "rest"
  /\ tx_ring' = [tx_ring EXCEPT !.buffer = memcpy(tx_ring, written + 1, len),
                                !.write_ptr = @ + len]
  /\ Publish(len)
  /\ pc' = "reduce" /\ len' = 0
  /\ UNCHANGED <<rx_ring, uartVars, ge, isr, rxHist>>

(* Faulty: only a pointer beyond the size is reduced.                      *)
Reduce_beyond ==
  /\ Running /\ pc = "reduce"
  /\ tx_ring' = [tx_ring EXCEPT !.write_ptr = IF @ > RingSize THEN 0 ELSE @]
  /\ pc' = "enable"
  /\ UNCHANGED <<rx_ring, uartVars, len, ge, isr, txHist, rxHist>>

Reduce ==
  /\ Running /\ pc = "reduce"
  /\ tx_ring' = [tx_ring EXCEPT !.write_ptr = @ % RingSize]
  /\ pc' = "enable"
  /\ UNCHANGED <<rx_ring, uartVars, len, ge, isr, txHist, rxHist>>

(* Faulty: the interrupt is not enabled.                                   *)
EnableTie_missing ==
  /\ Running /\ pc = "enable"
  /\ pc' = "idle"
  /\ UNCHANGED <<ringVars, uartVars, len, ge, isr, txHist, rxHist>>

EnableTie ==
  /\ Running /\ pc = "enable"
  /\ tie' = TRUE
  /\ pc' = "idle"
  /\ UNCHANGED <<ringVars, tfdc, rfdc, len, ge, isr, txHist, rxHist>>

-----------------------------------------------------------------------------
(* scif_interrupt: one vector for both directions.  The main loop is       *)
(* suspended, the UART is not.                                             *)
Requested == (tie /\ tfdc <= TxTrigger) \/ rfdc > 0

IsrEnter ==
  /\ isr = "off" /\ Requested
  /\ isr' = "fill"
  /\ UNCHANGED <<ringVars, uartVars, mainVars, txHist, rxHist>>

MoreToSend == tfdc < FifoSize /\ ringbuffer_available(tx_ring) # 0

IsrFill ==
  /\ isr = "fill" /\ MoreToSend
  /\ line' = Append(line, NextByte(tx_ring))
  /\ tx_ring' = ringbuffer_read_one(tx_ring)
  /\ tfdc' = tfdc + 1
  /\ txWrapped' = (txWrapped \/ (tx_ring.write_ptr = RingSize
                                 /\ tx_ring.read_ptr = 0))
  /\ UNCHANGED <<rx_ring, tie, rfdc, mainVars, isr, written, txFilled, rxHist>>

(* Faulty: the interrupt is disabled whatever the ring still holds.        *)
IsrFilled_always ==
  /\ isr = "fill" /\ ~MoreToSend
  /\ tie' = FALSE
  /\ isr' = "drain"
  /\ UNCHANGED <<ringVars, tfdc, rfdc, mainVars, txHist, rxHist>>

IsrFilled ==
  /\ isr = "fill" /\ ~MoreToSend
  /\ tie' = (tie /\ ringbuffer_available(tx_ring) # 0)
  /\ isr' = "drain"
  /\ UNCHANGED <<ringVars, tfdc, rfdc, mainVars, txHist, rxHist>>

Oldest == latched - rfdc + 1       \* the byte at the head of the receive FIFO

(* Faulty: the last byte of the FIFO is left.                              *)
IsrDrain_leavesOne ==
  /\ isr = "drain" /\ rfdc > 1
  /\ rx_ring' = ringbuffer_write_one(rx_ring, Oldest)
  /\ rfdc' = rfdc - 1
  /\ rxFilled' = (rxFilled \/ Oldest - Len(got) >= RingSize)
  /\ UNCHANGED <<tx_ring, tie, tfdc, mainVars, isr, txHist, latched, got>>

IsrDrain ==
  /\ isr = "drain" /\ rfdc > 0
  /\ rx_ring' = ringbuffer_write_one(rx_ring, Oldest)
  /\ rfdc' = rfdc - 1
  /\ rxFilled' = (rxFilled \/ Oldest - Len(got) >= RingSize)
  /\ UNCHANGED <<tx_ring, tie, tfdc, mainVars, isr, txHist, latched, got>>

IsrExit ==
  /\ isr = "drain" /\ rfdc = 0
  /\ isr' = "off"
  /\ UNCHANGED <<ringVars, uartVars, mainVars, txHist, rxHist>>

-----------------------------------------------------------------------------
(* The UART.                                                               *)
ShiftOut ==
  /\ tfdc > 0
  /\ tfdc' = tfdc - 1
  /\ UNCHANGED <<ringVars, tie, rfdc, mainVars, isr, txHist, rxHist>>

Receive ==
  /\ rfdc < FifoSize /\ latched < MaxRx
  /\ rfdc' = rfdc + 1
  /\ latched' = latched + 1
  /\ UNCHANGED <<ringVars, tie, tfdc, mainVars, isr, txHist, got, rxFilled>>

-----------------------------------------------------------------------------
Read  == ReadCall \/ ReadCheck \/ ReadByte
Write == \/ WriteCompare \/ WriteCompute \/ CopyWhole \/ CopyTail \/ CopyRest
         \/ Reduce \/ EnableTie
Isr   == IsrEnter \/ IsrFill \/ IsrFilled \/ IsrDrain \/ IsrExit
Next  == Read \/ WriteCall \/ Write \/ Isr \/ ShiftOut \/ Receive

Spec == scif_init /\ [][Next]_vars

(* The processor runs the handler when it is requested and the main loop   *)
(* otherwise; the UART keeps its line clock.  Nothing obliges the program  *)
(* to write or the peer to send.                                           *)
FairSpec == Spec /\ WF_vars(Read) /\ WF_vars(Write) /\ WF_vars(Isr)
                 /\ WF_vars(ShiftOut)
-----------------------------------------------------------------------------
(* The queues as their users see them, and as ByteStream describes them.   *)
TxStream == INSTANCE ByteStream WITH
  accepted <- written, delivered <- line, broken <- txFilled \/ txWrapped
RxStream == INSTANCE ByteStream WITH
  accepted <- latched - rfdc, delivered <- got, broken <- rxFilled

(* The transmit side (scif_write, then scif_interrupt l.79-82) is an       *)
(* in-order, loss-free byte queue until the ring is filled to its last     *)
(* byte or the handler meets the un-reduced write_ptr.                     *)
TxIsStream == TxStream!Spec

(* The receive side (scif_interrupt l.92-95, then scif_read) is an         *)
(* in-order, loss-free byte queue until the ring is filled.                *)
RxIsStream == RxStream!Spec

TxIntact == ~txFilled /\ ~txWrapped

(* The bytes on the line are the first bytes written, each once and in     *)
(* order: only a full ring or a wrapped read of write_ptr spoils that.     *)
TxInOrder ==
  TxIntact => /\ Len(line) <= written
              /\ \A i \in 1 .. Len(line) : line[i] = i

(* The bytes scif_read returned are the first bytes received, each once    *)
(* and in order, unless the receive ring was filled.                       *)
RxInOrder ==
  ~rxFilled => /\ Len(got) <= latched - rfdc
               /\ \A i \in 1 .. Len(got) : got[i] = i

(* Bytes that wait in the transmit ring have the interrupt that will fetch *)
(* them enabled, unless scif_write is still on its way to l.59: the clear  *)
(* at l.86 never swallows the wakeup of a later write.                     *)
NoLostWakeup ==
  ringbuffer_available(tx_ring) # 0 /\ pc \notin {"rest", "reduce", "enable"}
    => tie

(* The space test of scif_write (l.56), torn as it is by the handler       *)
(* advancing read_ptr between its loads, never lets a write overwrite a    *)
(* byte that has not been sent.                                            *)
WriteFits == [][TxIntact => written' - Len(line) <= RingSize]_vars

(* scif_read returns -1 only when no byte waits in the receive ring,       *)
(* although the handler may move write_ptr, even around the end of the     *)
(* ring, between the two loads of l.64.                                    *)
NoFalseEmpty ==
  [][pc = "read" /\ pc' = "idle" /\ ~rxFilled => Len(got) = latched - rfdc]_vars

(* Every byte written reaches the transmit FIFO (or the queue has broken). *)
TxDrains ==
  \A n \in 1 .. MaxTx : written >= n ~> (Len(line) >= n \/ ~TxIntact)

(* The spin of scif_write (l.56) ends, and with it the write.  Only after  *)
(* it has met the un-reduced write_ptr may the handler stay in its loop    *)
(* for ever, as long as the UART makes room, and the program never runs.   *)
WriteReturns == pc = "space" ~> (pc = "idle" \/ txWrapped)

(* Every byte the UART accepted is handed to the program, unless the ring  *)
(* was filled, or the handler met the un-reduced write_ptr and never       *)
(* leaves the loop of l.79 to look at the receive FIFO.                    *)
RxDelivers ==
  \A n \in 1 .. MaxRx :
    latched >= n ~> (Len(got) >= n \/ rxFilled \/ txWrapped)

(* The comment of l.85: when the handler disables the transmit interrupt,  *)
(* everything written has been sent.                                       *)
TxDoneMeansSent ==
  [][isr = "fill" /\ tie /\ ~tie' => Len(line) >= written]_vars

(* slipdev_char_put puts its character on the serial device, and nothing   *)
(* else goes there: the handler never sends a byte that was not written.   *)
OnlyWrittenBytesSent == ~txFilled => Len(line) <= written
-----------------------------------------------------------------------------
(* The inductive invariant.  Its first part is about control: which        *)
(* pointers are reduced where, and what is left to copy.                   *)
ControlInv ==
  /\ tx_ring.read_ptr \in Slots
  /\ rx_ring.read_ptr \in Slots /\ rx_ring.write_ptr \in Slots
  /\ pc # "reduce" => tx_ring.write_ptr \in Slots
  /\ pc \in {"space", "compute", "copy", "rest"} => len >= 1
  /\ pc = "rest" => tx_ring.write_ptr = 0 /\ len < RingSize
  /\ rfdc <= latched

Distance(r, w) == IF w >= r THEN w - r ELSE RingSize - r + w
SlotOf(r, k)   == IF r + k < RingSize THEN r + k ELSE r + k - RingSize

(* n bytes, the first one numbered first, lie in the ring between its      *)
(* pointers.                                                               *)
Holds(ring, first, n) ==
  /\ n = Distance(ring.read_ptr, ring.write_ptr)
  /\ \A k \in 0 .. n - 1 : ring.buffer[SlotOf(ring.read_ptr, k)] = first + k

(* While the transmit side is intact, its ring holds the bytes between     *)
(* Len(line) and written, except that a ring emptied under an un-reduced   *)
(* write_ptr looks full.                                                   *)
TxHolds ==
  /\ written - Len(line) \in 0 .. RingSize - 1
  /\ \A i \in 1 .. Len(line) : line[i] = i
  /\ \/ Holds(tx_ring, Len(line) + 1, written - Len(line))
     \/ /\ tx_ring.write_ptr = RingSize /\ tx_ring.read_ptr = 0
        /\ written = Len(line)
  /\ pc = "compute" /\ ge => WriteAhead(tx_ring)
  /\ pc \in {"copy", "rest"} => written - Len(line) + len <= RingSize

Pushed == latched - rfdc         \* bytes the handler has put in rx_ring

RxHolds ==
  /\ Pushed - Len(got) \in 0 .. RingSize - 1
  /\ \A i \in 1 .. Len(got) : got[i] = i
  /\ Holds(rx_ring, Len(got) + 1, Pushed - Len(got))
  /\ pc = "read" /\ ~ge => Pushed > Len(got)
  /\ pc = "take" => Pushed > Len(got)

(* The inductive invariant of the driver: control, the contents of both    *)
(* rings (scif.c l.54-98, ringbuffer.h) while they are intact, and the     *)
(* wakeup.                                                                 *)
IInv ==
  /\ TypeOK
  /\ ControlInv
  /\ TxIntact => TxHolds
  /\ ~rxFilled => RxHolds
  /\ NoLostWakeup
=============================================================================
