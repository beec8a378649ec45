----------------------------- MODULE ScifProofs -----------------------------
(***************************************************************************)
(* The driver's invariant, for every ring size, FIFO depth and workload.   *)
(***************************************************************************)
EXTENDS Scif, TLAPS

(* One step of a pointer, reduced as ringbuffer_read_one reduces it.       *)
LEMMA StepModulo ==
  ASSUME NEW i \in Slots
  PROVE  (i + 1) % RingSize = IF i + 1 = RingSize THEN 0 ELSE i + 1
<1>1. RingSize \in Nat /\ RingSize >= 1
  BY RingSizeAssumption
<1>2. CASE i + 1 = RingSize
  BY <1>1, <1>2 DEF Slots
<1>3. CASE i + 1 # RingSize
  BY <1>1, <1>3 DEF Slots
<1>4. QED
  BY <1>2, <1>3

(* The un-reduced write_ptr of ringbuffer_write, reduced.                  *)
LEMMA ReduceModulo ==
  ASSUME NEW i \in 0 .. RingSize
  PROVE  i % RingSize = IF i = RingSize THEN 0 ELSE i
<1>1. RingSize \in Nat /\ RingSize >= 1
  BY RingSizeAssumption
<1>2. CASE i = RingSize
  BY <1>1, <1>2
<1>3. CASE i # RingSize
  BY <1>1, <1>3
<1>4. QED
  BY <1>2, <1>3

(* A uint16_t holds its value.                                             *)
LEMMA SmallModulo ==
  ASSUME NEW i \in Nat, i < Word
  PROVE  i % Word = i
<1>1. Word \in Nat /\ Word >= 1
  BY RingSizeAssumption
<1>2. QED
  BY <1>1

(* ringbuffer_available, read without interruption.                        *)
LEMMA AvailableValue ==
  ASSUME NEW ring, ring.read_ptr \in Slots, ring.write_ptr \in 0 .. RingSize
  PROVE  /\ ringbuffer_available(ring) =
              IF ring.write_ptr >= ring.read_ptr
                THEN ring.write_ptr - ring.read_ptr
                ELSE RingSize - ring.read_ptr + ring.write_ptr
         /\ ringbuffer_available(ring) \in 0 .. RingSize
<1> DEFINE waiting == IF ring.write_ptr >= ring.read_ptr
                         THEN ring.write_ptr - ring.read_ptr
                         ELSE RingSize - ring.read_ptr + ring.write_ptr
<1>1. waiting \in 0 .. RingSize /\ waiting < Word
  BY RingSizeAssumption DEF Slots
<1>2. waiting % Word = waiting
  <2> HIDE DEF waiting
  <2>1. QED
    BY <1>1, SmallModulo
<1>3. ringbuffer_available(ring) = waiting % Word
  BY DEF ringbuffer_available, Difference, WriteAhead
<1>4. QED
  BY <1>1, <1>2, <1>3

(* One byte taken, whatever the ring holds.                                *)
LEMMA ReadType ==
  ASSUME NEW ring \in Ring, ring.read_ptr \in Slots
  PROVE  LET next == ringbuffer_read_one(ring) IN
         /\ next \in Ring
         /\ next.read_ptr \in Slots
         /\ next.read_ptr = IF ring.read_ptr + 1 = RingSize
                              THEN 0 ELSE ring.read_ptr + 1
         /\ next.write_ptr = ring.write_ptr
         /\ next.buffer = ring.buffer
<1> DEFINE next == ringbuffer_read_one(ring)
<1>1. RingSize \in Nat /\ RingSize >= 1
  BY RingSizeAssumption
<1>2. /\ next.buffer = ring.buffer /\ next.write_ptr = ring.write_ptr
      /\ next.read_ptr = IF ring.read_ptr + 1 = RingSize THEN 0
                                                         ELSE ring.read_ptr + 1
  BY StepModulo DEF ringbuffer_read_one, Ring
<1>3. next.read_ptr \in Slots
  BY <1>1, <1>2 DEF Slots
<1>4. next = [ring EXCEPT !.read_ptr = next.read_ptr]
  BY <1>2 DEF ringbuffer_read_one, Ring
<1>5. next.read_ptr \in 0 .. RingSize
  BY <1>1, <1>3 DEF Slots
<1>6. next \in Ring
  <2> HIDE DEF next
  <2>1. QED
    BY <1>4, <1>5 DEF Ring
<1>7. QED
  BY <1>2, <1>3, <1>6

(* Taking the oldest byte leaves the others, or, under an un-reduced       *)
(* write_ptr, an empty ring that looks full.                               *)
LEMMA TakeOldest ==
  ASSUME NEW ring \in Ring, NEW first \in Nat, NEW n \in Nat,
         ring.read_ptr \in Slots, Holds(ring, first, n), n > 0
  PROVE  LET next == ringbuffer_read_one(ring) IN
         /\ NextByte(ring) = first
         /\ next \in Ring
         /\ next.read_ptr \in Slots
         /\ next.write_ptr = ring.write_ptr
         /\ \/ Holds(next, first + 1, n - 1)
            \/ next.read_ptr = 0 /\ next.write_ptr = RingSize /\ n = 1
<1> DEFINE next == ringbuffer_read_one(ring)
           r == ring.read_ptr
           w == ring.write_ptr
<1>1. RingSize \in Nat /\ RingSize >= 1
  BY RingSizeAssumption
<1>2. /\ next.buffer = ring.buffer /\ next.write_ptr = w
      /\ next.read_ptr = IF r + 1 = RingSize THEN 0 ELSE r + 1
  BY ReadType
<1>3. r \in 0 .. RingSize - 1 /\ w \in 0 .. RingSize
  BY DEF Ring, Slots
<1>4. n = Distance(r, w) /\ \A k \in 0 .. n - 1 : ring.buffer[SlotOf(r, k)] = first + k
  BY DEF Holds
<1>5. next \in Ring /\ next.read_ptr \in Slots
  BY ReadType
<1>6. NextByte(ring) = first
  <2>1. ring.buffer[SlotOf(r, 0)] = first + 0
    BY <1>4
  <2>2. SlotOf(r, 0) = r
    BY <1>1, <1>3 DEF SlotOf
  <2>3. QED
    BY <2>1, <2>2 DEF NextByte
<1>7. ASSUME ~(next.read_ptr = 0 /\ next.write_ptr = RingSize /\ n = 1)
      PROVE  Holds(next, first + 1, n - 1)
  <2> HIDE DEF next, r, w
  <2>1. n - 1 = Distance(next.read_ptr, next.write_ptr)
    BY <1>1, <1>2, <1>3, <1>4, <1>7 DEF Distance
  <2>2. ASSUME NEW k \in 0 .. n - 2
        PROVE  next.buffer[SlotOf(next.read_ptr, k)] = first + 1 + k
    <3>0. n <= RingSize
      BY <1>1, <1>3, <1>4 DEF Distance
    <3>1. SlotOf(next.read_ptr, k) = SlotOf(r, k + 1)
      BY <1>1, <1>2, <1>3, <3>0 DEF SlotOf
    <3>2. ring.buffer[SlotOf(r, k + 1)] = first + (k + 1)
      BY <1>4
    <3>3. QED
      BY <1>2, <3>1, <3>2
  <2>3. QED
    BY <2>1, <2>2 DEF Holds
<1>8. QED
  BY <1>2, <1>5, <1>6, <1>7

(* Storing one byte in a ring whose write_ptr is reduced.                  *)
LEMMA PushType ==
  ASSUME NEW ring \in Ring, NEW byte \in Nat, ring.write_ptr \in Slots
  PROVE  LET next == ringbuffer_write_one(ring, byte) IN
         /\ next \in Ring
         /\ next.write_ptr \in Slots
         /\ next.write_ptr = IF ring.write_ptr + 1 = RingSize
                               THEN 0 ELSE ring.write_ptr + 1
         /\ next.read_ptr = ring.read_ptr
         /\ next.buffer = [ring.buffer EXCEPT ![ring.write_ptr] = byte]
<1> DEFINE next == ringbuffer_write_one(ring, byte)
           w == (ring.write_ptr + 1) % RingSize
<1>1. RingSize \in Nat /\ RingSize >= 1
  BY RingSizeAssumption
<1>2. w = IF ring.write_ptr + 1 = RingSize THEN 0 ELSE ring.write_ptr + 1
  BY StepModulo
<1>3. w \in Slots /\ w \in 0 .. RingSize
  BY <1>1, <1>2 DEF Slots
<1>4. /\ next.buffer = [ring.buffer EXCEPT ![ring.write_ptr] = byte]
      /\ next.read_ptr = ring.read_ptr
      /\ next.write_ptr = w
  BY DEF ringbuffer_write_one, Ring
<1>5. next = [ring EXCEPT !.buffer = next.buffer, !.write_ptr = next.write_ptr]
  BY <1>4 DEF ringbuffer_write_one, Ring
<1>6. next.buffer \in [Slots -> Nat]
  BY <1>4 DEF Ring
<1> HIDE DEF w, next
<1>7. next \in Ring
  BY <1>3, <1>4, <1>5, <1>6 DEF Ring
<1>8. QED
  BY <1>2, <1>3, <1>4, <1>7 DEF next

LEMMA PushByte ==
  ASSUME NEW ring \in Ring, NEW first \in Nat, NEW n \in Nat,
         ring.read_ptr \in Slots, ring.write_ptr \in Slots,
         Holds(ring, first, n), n + 1 < RingSize
  PROVE  Holds(ringbuffer_write_one(ring, first + n), first, n + 1)
<1> DEFINE next == ringbuffer_write_one(ring, first + n)
           r == ring.read_ptr
           w == ring.write_ptr
<1>1. RingSize \in Nat /\ RingSize >= 1
  BY RingSizeAssumption
<1>2. /\ next.write_ptr = IF w + 1 = RingSize THEN 0 ELSE w + 1
      /\ next.read_ptr = r
      /\ next.buffer = [ring.buffer EXCEPT ![w] = first + n]
  BY PushType
<1>3. r \in 0 .. RingSize - 1 /\ w \in 0 .. RingSize - 1 /\ w \in Slots
  BY DEF Slots
<1>4. n = Distance(r, w) /\ \A k \in 0 .. n - 1 : ring.buffer[SlotOf(r, k)] = first + k
  BY DEF Holds
<1>5. ring.buffer \in [Slots -> Nat]
  BY DEF Ring
<1> HIDE DEF next, r, w
<1>6. n + 1 = Distance(next.read_ptr, next.write_ptr)
  BY <1>1, <1>2, <1>3, <1>4 DEF Distance
<1>7. ASSUME NEW k \in 0 .. (n + 1) - 1
      PROVE  next.buffer[SlotOf(r, k)] = first + k
  <2>1. SlotOf(r, k) \in Slots
    BY <1>1, <1>3 DEF SlotOf, Slots
  <2>2. CASE k = n
    <3>1. SlotOf(r, k) = w
      BY <1>1, <1>3, <1>4, <2>2 DEF SlotOf, Distance
    <3>2. QED
      BY <1>2, <1>3, <1>5, <2>2, <3>1
  <2>3. CASE k # n
    <3>1. SlotOf(r, k) # w
      BY <1>1, <1>3, <1>4, <2>3 DEF SlotOf, Distance
    <3>2. k \in 0 .. n - 1
      BY <2>3
    <3>3. QED
      BY <1>2, <1>4, <1>5, <2>1, <3>1, <3>2
  <2>4. QED
    BY <2>2, <2>3
<1>8. Holds(next, first, n + 1)
  BY <1>2, <1>6, <1>7 DEF Holds
<1>9. QED
  BY <1>8 DEF next

(* One memcpy of ringbuffer_write, and the pointer moved past it.          *)
LEMMA CopyType ==
  ASSUME NEW ring \in Ring, NEW first \in Nat, NEW m \in Nat
  PROVE  memcpy(ring, first, m) \in [Slots -> Nat]
<1>1. ring.write_ptr \in Nat /\ ring.buffer \in [Slots -> Nat]
  BY RingSizeAssumption DEF Ring
<1>2. ASSUME NEW i \in Slots
      PROVE  (IF i \in ring.write_ptr .. ring.write_ptr + m - 1
                THEN first + (i - ring.write_ptr) ELSE ring.buffer[i]) \in Nat
  BY <1>1, RingSizeAssumption DEF Slots
<1>3. QED
  BY <1>2 DEF memcpy

LEMMA CopyBytes ==
  ASSUME NEW ring \in Ring, NEW first \in Nat, NEW n \in Nat, NEW m \in Nat,
         ring.read_ptr \in Slots, ring.write_ptr \in Slots,
         Holds(ring, first, n), n + m < RingSize, m <= Room(ring),
         NEW next \in Ring,
         next.buffer = memcpy(ring, first + n, m),
         next.read_ptr = ring.read_ptr,
         next.write_ptr = ring.write_ptr + m
  PROVE  Holds(next, first, n + m)
<1> DEFINE r == ring.read_ptr
           w == ring.write_ptr
<1>1. RingSize \in Nat /\ RingSize >= 1
  BY RingSizeAssumption
<1>2. r \in 0 .. RingSize - 1 /\ w \in 0 .. RingSize - 1 /\ m <= RingSize - w
  BY DEF Slots, Room
<1>3. n = Distance(r, w) /\ \A k \in 0 .. n - 1 : ring.buffer[SlotOf(r, k)] = first + k
  BY DEF Holds
<1>4. \A i \in Slots : next.buffer[i] = IF i \in w .. w + m - 1
                                        THEN first + n + (i - w)
                                        ELSE ring.buffer[i]
  BY DEF memcpy
<1>5. next.read_ptr = r /\ next.write_ptr = w + m
  OBVIOUS
<1> HIDE DEF r, w
<1>6. n + m = Distance(next.read_ptr, next.write_ptr)
  BY <1>1, <1>2, <1>3, <1>5 DEF Distance
<1>7. ASSUME NEW k \in 0 .. n + m - 1
      PROVE  next.buffer[SlotOf(r, k)] = first + k
  <2>1. SlotOf(r, k) \in Slots
    BY <1>1, <1>2 DEF SlotOf, Slots
  <2>2. CASE k >= n
    <3>1. SlotOf(r, k) = w + (k - n)
      BY <1>1, <1>2, <1>3, <2>2 DEF SlotOf, Distance
    <3>2. QED
      BY <1>2, <1>4, <2>1, <2>2, <3>1
  <2>3. CASE k < n
    <3>1. SlotOf(r, k) \notin w .. w + m - 1
      BY <1>1, <1>2, <1>3, <2>3 DEF SlotOf, Distance
    <3>2. QED
      BY <1>3, <1>4, <2>1, <2>3, <3>1
  <2>4. QED
    BY <2>2, <2>3
<1>8. QED
  BY <1>5, <1>6, <1>7 DEF Holds

(* Reducing write_ptr keeps the contents of a ring that is not full.       *)
LEMMA ReduceKeeps ==
  ASSUME NEW ring \in Ring, NEW first \in Nat, NEW n \in Nat,
         ring.read_ptr \in Slots, n < RingSize, Holds(ring, first, n),
         NEW next \in Ring,
         next.buffer = ring.buffer,
         next.read_ptr = ring.read_ptr,
         next.write_ptr = IF ring.write_ptr = RingSize THEN 0 ELSE ring.write_ptr
  PROVE  Holds(next, first, n)
<1>1. RingSize \in Nat /\ RingSize >= 1
  BY RingSizeAssumption
<1>2. ring.read_ptr \in 0 .. RingSize - 1 /\ ring.write_ptr \in 0 .. RingSize
  BY DEF Ring, Slots
<1>3. n = Distance(next.read_ptr, next.write_ptr)
  BY <1>1, <1>2 DEF Holds, Distance
<1>4. QED
  BY <1>3 DEF Holds

-----------------------------------------------------------------------------
LEMMA InitInv == scif_init => IInv
<1> SUFFICES ASSUME scif_init PROVE IInv
  OBVIOUS
<1>1. RingSize \in Nat /\ RingSize >= 1 /\ FifoSize \in Nat
  BY RingSizeAssumption, ScifAssumption
<1>2. ringbuffer_init \in Ring /\ ringbuffer_init.read_ptr = 0
      /\ ringbuffer_init.write_ptr = 0
  BY <1>1 DEF ringbuffer_init, Ring
<1>3. Holds(ringbuffer_init, 1, 0)
  BY <1>2 DEF Holds, Distance
<1>4. ringbuffer_available(ringbuffer_init) = 0
  BY <1>1, <1>2, AvailableValue DEF Slots
<1>5. TypeOK
  <2>1. <<>> \in Seq(Nat)
    OBVIOUS
  <2>2. 0 \in 0 .. FifoSize /\ 0 \in 0 .. RingSize
    BY <1>1
  <2>3. QED
    BY <1>2, <2>1, <2>2 DEF scif_init, TypeOK, PC, ISR
<1>6. ControlInv
  BY <1>1, <1>2 DEF scif_init, ControlInv, Slots
<1>7. TxHolds /\ RxHolds
  BY <1>1, <1>3 DEF scif_init, TxHolds, RxHolds, Pushed
<1>8. NoLostWakeup
  BY <1>4 DEF scif_init, NoLostWakeup
<1>9. QED
  BY <1>5, <1>6, <1>7, <1>8 DEF IInv

(* Types and control are preserved by every step.                          *)
LEMMA NextControl ==
  ASSUME TypeOK, ControlInv, [Next]_vars
  PROVE  TypeOK' /\ ControlInv'
<1>1. /\ RingSize \in Nat /\ RingSize >= 1 /\ FifoSize \in Nat
      /\ Lens \subseteq 1 .. RingSize
  BY RingSizeAssumption, ScifAssumption
<1>0. /\ tx_ring \in Ring
      /\ tx_ring.write_ptr \in 0 .. RingSize
      /\ pc # "reduce" => tx_ring.write_ptr \in 0 .. RingSize - 1
      /\ tx_ring.read_ptr \in Slots
      /\ tx_ring.buffer \in [Slots -> Nat]
      /\ len \in 0 .. RingSize
      /\ written \in Nat
      /\ pc \in {"copy", "rest"} => len >= 1
      /\ pc = "rest" => tx_ring.write_ptr = 0 /\ len < RingSize
  BY DEF TypeOK, ControlInv, Ring, Slots
<1>2. CASE ReadCall
  BY <1>1, <1>2 DEF TypeOK, ControlInv, PC, ISR, Running,
     WriteAhead, ReadCall, ringVars, uartVars, mainVars, txHist, rxHist
<1>3. CASE ReadCheck
  BY <1>1, <1>3 DEF TypeOK, ControlInv, PC, ISR, Running,
     ReadCheck, ringVars, uartVars, mainVars, txHist, rxHist
<1>4. CASE WriteCall
  BY <1>1, <1>4 DEF TypeOK, ControlInv, PC, ISR, Running,
     WriteCall, ringVars, uartVars, mainVars, txHist, rxHist
<1>5. CASE WriteCompare
  BY <1>1, <1>5 DEF TypeOK, ControlInv, PC, ISR, Running,
     WriteAhead, WriteCompare, ringVars, uartVars, mainVars, txHist, rxHist
<1>6. CASE WriteCompute
  BY <1>1, <1>6 DEF TypeOK, ControlInv, PC, ISR, Running,
     WriteCompute, ringVars, uartVars, mainVars, txHist, rxHist
<1>7. CASE EnableTie
  BY <1>1, <1>7 DEF TypeOK, ControlInv, PC, ISR, Running,
     EnableTie, ringVars, uartVars, mainVars, txHist, rxHist
<1>8. CASE IsrEnter
  BY <1>1, <1>8 DEF TypeOK, ControlInv, PC, ISR, Running,
     IsrEnter, ringVars, uartVars, mainVars, txHist, rxHist
<1>9. CASE IsrFilled
  BY <1>1, <1>9 DEF TypeOK, ControlInv, PC, ISR, Running,
     IsrFilled, ringVars, uartVars, mainVars, txHist, rxHist
<1>10. CASE IsrExit
  BY <1>1, <1>10 DEF TypeOK, ControlInv, PC, ISR, Running,
     IsrExit, ringVars, uartVars, mainVars, txHist, rxHist
<1>11. CASE ShiftOut
  BY <1>1, <1>11 DEF TypeOK, ControlInv, PC, ISR, Running,
     ShiftOut, ringVars, uartVars, mainVars, txHist, rxHist
<1>12. CASE Receive
  BY <1>1, <1>12 DEF TypeOK, ControlInv, PC, ISR, Running,
     Receive, ringVars, uartVars, mainVars, txHist, rxHist
<1>13. CASE ReadByte
  <2>1. /\ ringbuffer_read_one(rx_ring).read_ptr \in Slots
        /\ ringbuffer_read_one(rx_ring) \in Ring
        /\ ringbuffer_read_one(rx_ring).write_ptr = rx_ring.write_ptr
    BY ReadType DEF TypeOK, ControlInv
  <2>2. NextByte(rx_ring) \in Nat
    BY DEF NextByte, Ring, TypeOK, ControlInv
  <2>3. QED
    BY <1>1, <1>13, <2>1, <2>2 DEF TypeOK, ControlInv, PC, ISR, Running,
       ReadByte, uartVars, txHist
<1>14. CASE CopyWhole
  <2>1. /\ len \in Nat
        /\ tx_ring.write_ptr + len \in 0 .. RingSize
    BY <1>1, <1>0, <1>14 DEF CopyWhole, Room, Slots, Ring
  <2>2. memcpy(tx_ring, written + 1, len) \in [Slots -> Nat]
    <3>1. written + 1 \in Nat
      BY <1>0
    <3>2. QED
      BY <1>0, <2>1, <3>1, CopyType
  <2>3. /\ tx_ring' \in Ring
        /\ tx_ring'.read_ptr = tx_ring.read_ptr
        /\ tx_ring'.write_ptr = tx_ring.write_ptr + len
    BY <1>0, <1>14, <2>1, <2>2 DEF CopyWhole, Ring
  <2>4. /\ written' \in Nat /\ txFilled' \in BOOLEAN
        /\ len' = 0 /\ pc' = "reduce"
    BY <1>0, <1>14, <2>1 DEF CopyWhole, Publish, TypeOK
  <2>5. UNCHANGED <<line, txWrapped, rx_ring, uartVars, ge, isr, rxHist>>
    BY <1>14 DEF CopyWhole, Publish
  <2>6. 0 \in 0 .. RingSize
    BY <1>1
  <2>7. QED
    BY <1>1, <2>3, <2>4, <2>5, <2>6 DEF TypeOK, ControlInv, PC, ISR,
       uartVars, rxHist, Slots
<1>15. CASE CopyTail
  <2>1. /\ Room(tx_ring) \in Nat
        /\ 0 \in 0 .. RingSize
        /\ len - Room(tx_ring) \in 1 .. RingSize - 1
    BY <1>1, <1>0, <1>15 DEF CopyTail, Room, Slots, Ring
  <2>2. memcpy(tx_ring, written + 1, Room(tx_ring)) \in [Slots -> Nat]
    <3>1. written + 1 \in Nat
      BY <1>0
    <3>2. QED
      BY <1>0, <2>1, <3>1, CopyType
  <2>3. /\ tx_ring' \in Ring
        /\ tx_ring'.read_ptr = tx_ring.read_ptr
        /\ tx_ring'.write_ptr = 0
    BY <1>0, <1>15, <2>1, <2>2 DEF CopyTail, Ring
  <2>4. /\ written' \in Nat /\ txFilled' \in BOOLEAN
        /\ len' \in 1 .. RingSize - 1 /\ pc' = "rest"
    BY <1>0, <1>1, <1>15, <2>1 DEF CopyTail, Publish, TypeOK
  <2>5. UNCHANGED <<line, txWrapped, rx_ring, uartVars, ge, isr, rxHist>>
    BY <1>15 DEF CopyTail, Publish
  <2>6. QED
    BY <1>1, <2>3, <2>4, <2>5 DEF TypeOK, ControlInv, PC, ISR,
       uartVars, rxHist, Slots
<1>16. CASE CopyRest
  <2>1. /\ len \in Nat
        /\ tx_ring.write_ptr + len \in 0 .. RingSize
    BY <1>1, <1>0, <1>16 DEF CopyRest, Room, Slots, Ring
  <2>2. memcpy(tx_ring, written + 1, len) \in [Slots -> Nat]
    <3>1. written + 1 \in Nat
      BY <1>0
    <3>2. QED
      BY <1>0, <2>1, <3>1, CopyType
  <2>3. /\ tx_ring' \in Ring
        /\ tx_ring'.read_ptr = tx_ring.read_ptr
        /\ tx_ring'.write_ptr = tx_ring.write_ptr + len
    BY <1>0, <1>16, <2>1, <2>2 DEF CopyRest, Ring
  <2>4. /\ written' \in Nat /\ txFilled' \in BOOLEAN
        /\ len' = 0 /\ pc' = "reduce"
    BY <1>0, <1>16, <2>1 DEF CopyRest, Publish, TypeOK
  <2>5. UNCHANGED <<line, txWrapped, rx_ring, uartVars, ge, isr, rxHist>>
    BY <1>16 DEF CopyRest, Publish
  <2>6. 0 \in 0 .. RingSize
    BY <1>1
  <2>7. QED
    BY <1>1, <2>3, <2>4, <2>5, <2>6 DEF TypeOK, ControlInv, PC, ISR,
       uartVars, rxHist, Slots
<1>17. CASE Reduce
  <2>1. tx_ring.write_ptr % RingSize =
          IF tx_ring.write_ptr = RingSize THEN 0 ELSE tx_ring.write_ptr
    BY <1>0, ReduceModulo
  <2>2. /\ tx_ring' \in Ring
        /\ tx_ring'.read_ptr = tx_ring.read_ptr
        /\ tx_ring'.write_ptr \in Slots
    <3> DEFINE w == tx_ring.write_ptr % RingSize
    <3>1. w \in Slots /\ w \in 0 .. RingSize
      BY <1>0, <1>1, <2>1 DEF Slots
    <3>2. tx_ring' = [tx_ring EXCEPT !.write_ptr = w]
      BY <1>17 DEF Reduce
    <3> HIDE DEF w
    <3>3. QED
      BY <1>0, <3>1, <3>2 DEF Ring
  <2>3. QED
    BY <1>1, <1>17, <2>2 DEF TypeOK, ControlInv, PC, ISR, Running,
       Reduce, uartVars, txHist, rxHist
<1>18. CASE IsrFill
  <2>1. /\ ringbuffer_read_one(tx_ring).read_ptr \in Slots
        /\ ringbuffer_read_one(tx_ring) \in Ring
        /\ ringbuffer_read_one(tx_ring).write_ptr = tx_ring.write_ptr
    BY ReadType DEF TypeOK, ControlInv
  <2>2. NextByte(tx_ring) \in Nat
    BY DEF NextByte, Ring, TypeOK, ControlInv
  <2>3. QED
    BY <1>1, <1>18, <2>1, <2>2 DEF TypeOK, ControlInv, PC, ISR, Running,
       IsrFill, MoreToSend, mainVars, rxHist
<1>19. CASE IsrDrain
  <2>1. Oldest \in Nat
    BY DEF Oldest, TypeOK, ControlInv
  <2>2. /\ ringbuffer_write_one(rx_ring, Oldest) \in Ring
        /\ ringbuffer_write_one(rx_ring, Oldest).write_ptr \in Slots
        /\ ringbuffer_write_one(rx_ring, Oldest).read_ptr = rx_ring.read_ptr
    BY <2>1, PushType DEF TypeOK, ControlInv
  <2>3. QED
    BY <1>1, <1>19, <2>2 DEF TypeOK, ControlInv, PC, ISR, Running,
       IsrDrain, mainVars, txHist
<1>20. CASE UNCHANGED vars
  BY <1>1, <1>20 DEF TypeOK, ControlInv, PC, ISR, Running,
     vars, ringVars, uartVars, mainVars, txHist, rxHist
<1>21. QED
  BY <1>2, <1>3, <1>4, <1>5, <1>6, <1>7, <1>8, <1>9, <1>10, <1>11, <1>12, <1>13, <1>14, <1>15, <1>16, <1>17, <1>18, <1>19, <1>20 DEF Next, Read, Write, Isr

-----------------------------------------------------------------------------
(* The space test, torn by the handler between the loads of read_ptr,      *)
(* errs only towards a fuller ring.                                        *)
LEMMA TornSpace ==
  ASSUME NEW r \in 0 .. RingSize - 1, NEW w \in 0 .. RingSize - 1,
         NEW n \in 1 .. RingSize, NEW ring,
         ring.read_ptr = r, ring.write_ptr = w, ge => w >= r, ge \in BOOLEAN,
         HasSpace(Difference(ring, ge), n)
  PROVE  Distance(r, w) + n <= RingSize
<1>1. RingSize \in Nat /\ RingSize >= 1 /\ Word \in Nat /\ 2 * RingSize <= Word
  BY RingSizeAssumption
<1>2. CASE ge
  <2>1. w - r \in Nat /\ w - r < Word
    BY <1>1, <1>2
  <2>2. Difference(ring, ge) = w - r
    BY <1>2, <2>1, SmallModulo DEF Difference
  <2>3. w >= r
    BY <1>2
  <2>4. RingSize - (w - r) >= n
    BY <2>2 DEF HasSpace
  <2>5. QED
    BY <1>1, <2>3, <2>4 DEF Distance
<1>3. CASE ~ge
  <2>1. RingSize - r + w \in Nat /\ RingSize - r + w < Word
    BY <1>1
  <2>2. Difference(ring, ge) = RingSize - r + w
    BY <1>3, <2>1, SmallModulo DEF Difference
  <2>3. RingSize - (RingSize - r + w) >= n
    BY <2>2 DEF HasSpace
  <2>4. w < r
    BY <1>1, <2>3
  <2>5. QED
    BY <1>1, <2>3, <2>4 DEF Distance
<1>4. QED
  BY <1>2, <1>3

(* The transmit ring keeps its contents while it is intact.                *)
LEMMA NextTx ==
  ASSUME TypeOK, ControlInv, TypeOK', ControlInv', TxIntact => TxHolds,
         [Next]_vars, TxIntact'
  PROVE  TxHolds'
<1>1. /\ RingSize \in Nat /\ RingSize >= 1
      /\ Lens \subseteq 1 .. RingSize
  BY RingSizeAssumption, ScifAssumption
<1>2. TxIntact
  BY DEF Next, Read, Write, Isr, ReadCall, ReadCheck, ReadByte, WriteCall,
     WriteCompare, WriteCompute, CopyWhole, CopyTail, CopyRest, Publish,
     Reduce, EnableTie, IsrEnter, IsrFill, IsrFilled, IsrDrain, IsrExit,
     ShiftOut, Receive, vars, txHist, TxIntact, TypeOK
<1> DEFINE n == written - Len(line)
           first == Len(line) + 1
           r == tx_ring.read_ptr
           w == tx_ring.write_ptr
<1>3. /\ tx_ring \in Ring /\ r \in Slots /\ r \in 0 .. RingSize - 1
      /\ w \in 0 .. RingSize
      /\ pc # "reduce" => w \in Slots /\ w \in 0 .. RingSize - 1
      /\ written \in Nat /\ line \in Seq(Nat) /\ Len(line) \in Nat
      /\ first \in Nat /\ len \in 0 .. RingSize /\ ge \in BOOLEAN
      /\ pc \in {"compute", "copy", "rest"} => len >= 1
      /\ pc = "rest" => w = 0
  <2>1. Len(line) \in Nat
    BY DEF TypeOK
  <2>2. /\ w \in 0 .. RingSize
        /\ pc # "reduce" => w \in 0 .. RingSize - 1
        /\ pc = "rest" => w = 0
    BY DEF TypeOK, ControlInv, Ring, Slots
  <2>3. /\ len \in 0 .. RingSize
        /\ pc \in {"compute", "copy", "rest"} => len >= 1
    BY DEF TypeOK, ControlInv
  <2>4. QED
    BY <2>1, <2>2, <2>3 DEF TypeOK, ControlInv, Slots
<1>4. /\ n \in 0 .. RingSize - 1
      /\ \A i \in 1 .. Len(line) : line[i] = i
      /\ \/ Holds(tx_ring, first, n)
         \/ w = RingSize /\ r = 0 /\ n = 0
      /\ pc = "compute" /\ ge => w >= r
      /\ pc \in {"copy", "rest"} => n + len <= RingSize
  BY <1>2, <1>3 DEF TxHolds, WriteAhead
<1>5. pc # "reduce" => Holds(tx_ring, first, n)
  BY <1>1, <1>3, <1>4
<1>6. tx_ring' \in Ring
  BY DEF TypeOK
<1>7. ASSUME UNCHANGED <<tx_ring, written, line>>,
             pc' = "compute" /\ ge' => WriteAhead(tx_ring'),
             pc' \in {"copy", "rest"} => n + len' <= RingSize
      PROVE  TxHolds'
  <2>1. tx_ring' = tx_ring /\ written' = written /\ line' = line
    BY <1>7
  <2>2. \/ Holds(tx_ring, first, n)'
        \/ w' = RingSize /\ r' = 0 /\ n' = 0
    BY <1>4, <2>1
  <2>3. written' = Len(line') <=> n' = 0
    BY <1>3, <2>1
  <2>4. QED
    BY <1>4, <1>7, <2>1, <2>2, <2>3 DEF TxHolds, WriteAhead
<1>8. CASE ReadCall
  BY <1>7, <1>8 DEF ReadCall, txHist, ringVars
<1>9. CASE ReadCheck
  BY <1>7, <1>9 DEF ReadCheck, txHist, ringVars
<1>10. CASE ReadByte
  BY <1>7, <1>10 DEF ReadByte, txHist
<1>11. CASE WriteCall
  BY <1>7, <1>11 DEF WriteCall, txHist, ringVars
<1>12. CASE WriteCompare
  BY <1>7, <1>12 DEF WriteCompare, txHist, ringVars
<1>13. CASE WriteCompute
  <2>1. ASSUME HasSpace(Difference(tx_ring, ge), len)
        PROVE  n + len <= RingSize
    <3>1. pc = "compute" /\ len \in 1 .. RingSize
      BY <1>1, <1>3, <1>13 DEF WriteCompute
    <3>2. Distance(r, w) + len <= RingSize
      BY <1>3, <1>4, <2>1, <3>1, TornSpace
    <3>3. QED
      BY <1>5, <3>1, <3>2 DEF Holds
  <2>2. QED
    BY <1>7, <1>13, <2>1 DEF WriteCompute, txHist, ringVars
<1>14. CASE CopyWhole
  <2>1. /\ written' = written + len /\ line' = line /\ pc' = "reduce"
        /\ n + len < RingSize /\ pc = "copy" /\ len <= Room(tx_ring)
    <3>1. /\ written' = written + len /\ line' = line
          /\ pc' = "reduce" /\ pc = "copy"
      BY <1>14 DEF CopyWhole, Publish
    <3>2. n + len < RingSize
      <4>1. ~(written + len - Len(line) >= RingSize)
        BY <1>14 DEF CopyWhole, Publish, TxIntact
      <4>2. QED
        BY <1>1, <1>3, <4>1
    <3>3. len <= Room(tx_ring)
      BY <1>3, <1>14 DEF CopyWhole, Room
    <3>4. QED
      BY <3>1, <3>2, <3>3
  <2>2. /\ tx_ring'.buffer = memcpy(tx_ring, written + 1, len)
        /\ tx_ring'.read_ptr = r /\ tx_ring'.write_ptr = w + len
    BY <1>3, <1>14 DEF CopyWhole, Ring
  <2>3. written + 1 = first + n /\ len \in Nat /\ n \in Nat
    BY <1>3, <1>4
  <2>4. Holds(tx_ring', first, n + len)
    <3> HIDE DEF n, first
    <3>1. QED
      BY <1>3, <1>5, <1>6, <2>1, <2>2, <2>3, CopyBytes
  <2>5. written' - Len(line') = n + len /\ Len(line') + 1 = first
    BY <1>3, <2>1
  <2>6. QED
    BY <1>1, <1>3, <1>4, <2>1, <2>3, <2>4, <2>5 DEF TxHolds
<1>15. CASE CopyTail
  <2> DEFINE m == Room(tx_ring)
             whole == [tx_ring EXCEPT !.buffer = memcpy(tx_ring, written + 1, m),
                                      !.write_ptr = w + m]
  <2>1. /\ written' = written + m /\ line' = line /\ pc' = "rest"
        /\ n + m < RingSize /\ pc = "copy" /\ m \in Nat
        /\ len' = len - m /\ w + m = RingSize
    <3>1. /\ written' = written + m /\ line' = line /\ pc' = "rest"
          /\ pc = "copy" /\ len' = len - m
      BY <1>15 DEF CopyTail, Publish
    <3>2. m \in Nat /\ w + m = RingSize
      BY <1>1, <1>3, <3>1 DEF Room
    <3>3. n + m < RingSize
      <4>1. ~(written + m - Len(line) >= RingSize)
        BY <1>15 DEF CopyTail, Publish, TxIntact
      <4>2. QED
        BY <1>1, <1>3, <3>2, <4>1
    <3>4. QED
      BY <3>1, <3>2, <3>3
  <2>2. memcpy(tx_ring, written + 1, m) \in [Slots -> Nat]
    <3>1. written + 1 \in Nat
      BY <1>3
    <3> HIDE DEF m
    <3>2. QED
      BY <1>3, <2>1, <3>1, CopyType
  <2>3. /\ whole \in Ring
        /\ whole.buffer = memcpy(tx_ring, written + 1, m)
        /\ whole.read_ptr = r /\ whole.write_ptr = RingSize
    <3> DEFINE b == memcpy(tx_ring, written + 1, m)
    <3>1. b \in [Slots -> Nat] /\ RingSize \in 0 .. RingSize
      BY <1>1, <2>2
    <3>2. whole = [tx_ring EXCEPT !.buffer = b, !.write_ptr = RingSize]
      BY <2>1
    <3> HIDE DEF b, whole
    <3>3. QED
      BY <1>3, <3>1, <3>2 DEF Ring, b
  <2>4. /\ tx_ring'.buffer = whole.buffer
        /\ tx_ring'.read_ptr = r /\ tx_ring'.write_ptr = 0
    BY <1>3, <1>15, <2>3 DEF CopyTail, Ring
  <2>5. written + 1 = first + n /\ n \in Nat
    BY <1>3, <1>4
  <2>6. Holds(whole, first, n + m)
    <3>1. /\ whole.buffer = memcpy(tx_ring, first + n, m)
          /\ whole.write_ptr = w + m /\ m <= Room(tx_ring)
          /\ Holds(tx_ring, first, n) /\ w \in Slots
      BY <1>3, <1>5, <2>1, <2>3, <2>5
    <3> HIDE DEF n, first, m, whole
    <3>2. QED
      BY <1>3, <2>1, <2>3, <2>5, <3>1, CopyBytes
  <2>7. Holds(tx_ring', first, n + m)
    <3>1. n + m \in Nat
      BY <2>1, <2>5
    <3> HIDE DEF n, first, m, whole
    <3>2. QED
      BY <1>3, <1>6, <2>1, <2>3, <2>4, <2>6, <3>1, ReduceKeeps
  <2>8. /\ written' - Len(line') = n + m /\ Len(line') + 1 = first
        /\ n + m + len' <= RingSize
    BY <1>3, <1>4, <2>1
  <2>9. n + m \in 0 .. RingSize - 1
    BY <1>1, <2>1, <2>5
  <2>10. QED
    BY <1>4, <2>1, <2>7, <2>8, <2>9 DEF TxHolds
<1>16. CASE CopyRest
  <2>1. /\ written' = written + len /\ line' = line /\ pc' = "reduce"
        /\ n + len < RingSize /\ pc = "rest" /\ len <= Room(tx_ring)
    <3>1. /\ written' = written + len /\ line' = line
          /\ pc' = "reduce" /\ pc = "rest"
      BY <1>16 DEF CopyRest, Publish
    <3>2. n + len < RingSize
      <4>1. ~(written + len - Len(line) >= RingSize)
        BY <1>16 DEF CopyRest, Publish, TxIntact
      <4>2. QED
        BY <1>1, <1>3, <4>1
    <3>3. len <= Room(tx_ring)
      BY <1>1, <1>3, <1>4, <3>1 DEF Room
    <3>4. QED
      BY <3>1, <3>2, <3>3
  <2>2. /\ tx_ring'.buffer = memcpy(tx_ring, written + 1, len)
        /\ tx_ring'.read_ptr = r /\ tx_ring'.write_ptr = w + len
    BY <1>3, <1>16 DEF CopyRest, Ring
  <2>3. written + 1 = first + n /\ len \in Nat /\ n \in Nat
    BY <1>3, <1>4
  <2>4. Holds(tx_ring', first, n + len)
    <3> HIDE DEF n, first
    <3>1. QED
      BY <1>3, <1>5, <1>6, <2>1, <2>2, <2>3, CopyBytes
  <2>5. written' - Len(line') = n + len /\ Len(line') + 1 = first
    BY <1>3, <2>1
  <2>6. QED
    BY <1>1, <1>3, <1>4, <2>1, <2>3, <2>4, <2>5 DEF TxHolds
<1>17. CASE Reduce
  <2>1. /\ written' = written /\ line' = line /\ pc' = "enable"
    BY <1>17 DEF Reduce, txHist
  <2>2. /\ tx_ring'.buffer = tx_ring.buffer
        /\ tx_ring'.read_ptr = r
        /\ tx_ring'.write_ptr = IF w = RingSize THEN 0 ELSE w
    BY <1>3, <1>17, ReduceModulo DEF Reduce, Ring
  <2>3. Holds(tx_ring', first, n)
    <3>1. CASE Holds(tx_ring, first, n)
      <4>1. n \in Nat /\ n < RingSize
        BY <1>1, <1>4
      <4> HIDE DEF n, first
      <4>2. QED
        BY <1>3, <1>6, <2>2, <3>1, <4>1, ReduceKeeps
    <3>2. CASE w = RingSize /\ r = 0 /\ n = 0
      BY <2>2, <3>2 DEF Holds, Distance
    <3>3. QED
      BY <1>4, <3>1, <3>2
  <2>4. QED
    BY <1>4, <2>1, <2>3 DEF TxHolds
<1>18. CASE IsrFill
  <2>1. /\ written' = written /\ line' = Append(line, NextByte(tx_ring))
        /\ UNCHANGED <<pc, ge, len>> /\ ~(w = RingSize /\ r = 0)
        /\ tx_ring' = ringbuffer_read_one(tx_ring)
        /\ ringbuffer_available(tx_ring) # 0
    BY <1>18 DEF IsrFill, MoreToSend, mainVars, TxIntact
  <2>2. Holds(tx_ring, first, n) /\ n = Distance(r, w)
    BY <1>4, <2>1 DEF Holds
  <2>3. n > 0 /\ n \in Nat
    BY <1>3, <1>4, <2>1, <2>2, AvailableValue DEF Distance
  <2>4. /\ NextByte(tx_ring) = first
        /\ tx_ring'.write_ptr = w
        /\ \/ Holds(tx_ring', first + 1, n - 1)
           \/ tx_ring'.read_ptr = 0 /\ tx_ring'.write_ptr = RingSize /\ n = 1
    <3> HIDE DEF n, first
    <3>1. QED
      BY <1>3, <2>1, <2>2, <2>3, TakeOldest
  <2>5. /\ Len(line') = Len(line) + 1
        /\ \A i \in 1 .. Len(line') : line'[i] = i
    BY <1>3, <1>4, <2>1, <2>4
  <2>6. written' - Len(line') = n - 1 /\ Len(line') + 1 = first + 1
    BY <1>3, <2>1, <2>5
  <2>7. pc' = "compute" /\ ge' => WriteAhead(tx_ring')
    <3>1. tx_ring'.read_ptr = IF r + 1 = RingSize THEN 0 ELSE r + 1
      BY <1>3, <2>1, ReadType
    <3>2. QED
      BY <1>1, <1>3, <1>4, <2>1, <2>2, <2>3, <2>4, <3>1 DEF WriteAhead, Distance
  <2>8. pc' \in {"copy", "rest"} => (n - 1) + len' <= RingSize
    <3>1. n + len <= RingSize => (n - 1) + len <= RingSize
      BY <1>1, <1>3, <1>4
    <3>2. QED
      BY <1>4, <2>1, <3>1
  <2>9. n - 1 \in 0 .. RingSize - 1
    BY <1>1, <1>4, <2>3
  <2>10. \/ Holds(tx_ring', Len(line') + 1, written' - Len(line'))
         \/ /\ tx_ring'.write_ptr = RingSize /\ tx_ring'.read_ptr = 0
            /\ written' = Len(line')
    BY <1>3, <2>1, <2>4, <2>5, <2>6
  <2>11. QED
    BY <2>5, <2>6, <2>7, <2>8, <2>9, <2>10 DEF TxHolds
<1>19. CASE EnableTie
  BY <1>4, <1>7, <1>19 DEF EnableTie, txHist, ringVars, mainVars, WriteAhead
<1>20. CASE IsrEnter
  BY <1>4, <1>7, <1>20 DEF IsrEnter, txHist, ringVars, mainVars, WriteAhead
<1>21. CASE IsrFilled
  BY <1>4, <1>7, <1>21 DEF IsrFilled, txHist, ringVars, mainVars, WriteAhead
<1>22. CASE IsrDrain
  BY <1>4, <1>7, <1>22 DEF IsrDrain, txHist, ringVars, mainVars, WriteAhead
<1>23. CASE IsrExit
  BY <1>4, <1>7, <1>23 DEF IsrExit, txHist, ringVars, mainVars, WriteAhead
<1>24. CASE ShiftOut
  BY <1>4, <1>7, <1>24 DEF ShiftOut, txHist, ringVars, mainVars, WriteAhead
<1>25. CASE Receive
  BY <1>4, <1>7, <1>25 DEF Receive, txHist, ringVars, mainVars, WriteAhead
<1>26. CASE UNCHANGED vars
  BY <1>4, <1>7, <1>26 DEF vars, txHist, ringVars, mainVars, WriteAhead
<1>27. QED
  BY <1>8, <1>9, <1>10, <1>11, <1>12, <1>13, <1>14, <1>15, <1>16, <1>17, <1>18, <1>19, <1>20, <1>21, <1>22, <1>23, <1>24, <1>25, <1>26
     DEF Next, Read, Write, Isr

(* The receive ring keeps its contents while it was never filled.          *)
LEMMA NextRx ==
  ASSUME TypeOK, ControlInv, TypeOK', ControlInv', ~rxFilled => RxHolds,
         [Next]_vars, ~rxFilled'
  PROVE  RxHolds'
<1>1. RingSize \in Nat /\ RingSize >= 1 /\ Word \in Nat /\ 2 * RingSize <= Word
  BY RingSizeAssumption
<1>2. ~rxFilled
  BY DEF Next, Read, Write, Isr, ReadCall, ReadCheck, ReadByte, WriteCall,
     WriteCompare, WriteCompute, CopyWhole, CopyTail, CopyRest,
     Reduce, EnableTie, IsrEnter, IsrFill, IsrFilled, IsrDrain, IsrExit,
     ShiftOut, Receive, vars, rxHist, TypeOK
<1> DEFINE n == Pushed - Len(got)
           first == Len(got) + 1
           r == rx_ring.read_ptr
           w == rx_ring.write_ptr
<1>3. /\ rx_ring \in Ring /\ r \in Slots /\ w \in Slots
      /\ r \in 0 .. RingSize - 1 /\ w \in 0 .. RingSize - 1
      /\ Pushed \in Nat /\ got \in Seq(Nat) /\ Len(got) \in Nat
      /\ first \in Nat /\ ge \in BOOLEAN
  <2>1. Len(got) \in Nat
    BY DEF TypeOK
  <2>2. Pushed \in Nat
    BY DEF TypeOK, ControlInv, Pushed
  <2>3. QED
    BY <2>1, <2>2 DEF TypeOK, ControlInv, Slots
<1>4. /\ n \in 0 .. RingSize - 1 /\ n \in Nat
      /\ \A i \in 1 .. Len(got) : got[i] = i
      /\ Holds(rx_ring, first, n)
      /\ n = Distance(r, w)
      /\ pc = "read" /\ ~ge => n > 0
      /\ pc = "take" => n > 0
  BY <1>1, <1>2, <1>3 DEF RxHolds, Holds
<1>5. rx_ring' \in Ring
  BY DEF TypeOK
<1>6. ASSUME UNCHANGED <<rx_ring, got>>, Pushed' = Pushed,
             pc' = "read" /\ ~ge' => n > 0,
             pc' = "take" => n > 0
      PROVE  RxHolds'
  <2>1. n' = n /\ first' = first
    BY <1>6
  <2>2. Holds(rx_ring, first, n)'
    BY <1>4, <1>6, <2>1
  <2>3. n > 0 <=> Pushed' > Len(got')
    BY <1>3, <1>6
  <2>4. QED
    BY <1>4, <1>6, <2>1, <2>2, <2>3 DEF RxHolds
<1>7. CASE ReadCall
  <2>1. ~ge' => n > 0
    <3>1. ge' = (w >= r)
      BY <1>7 DEF ReadCall, WriteAhead
    <3>2. w < r => n > 0
      BY <1>1, <1>3, <1>4 DEF Distance
    <3>3. ~(w >= r) => w < r
      BY <1>3
    <3> HIDE DEF n, w, r
    <3>4. QED
      BY <3>1, <3>2, <3>3
  <2>2. UNCHANGED <<rx_ring, got>> /\ Pushed' = Pushed /\ pc' = "read"
    BY <1>7 DEF ReadCall, rxHist, ringVars, uartVars, Pushed
  <2>3. QED
    BY <1>6, <2>1, <2>2
<1>8. CASE ReadCheck
  <2>1. ASSUME Difference(rx_ring, ge) # 0
        PROVE  n > 0
    <3>1. CASE ge
      <4>1. CASE w = r
        <5>1. w - r = 0 /\ 0 < Word
          BY <1>1, <1>3, <4>1
        <5>2. QED
          BY <2>1, <3>1, <5>1, SmallModulo DEF Difference
      <4>2. CASE w # r
        BY <1>1, <1>3, <1>4, <4>2 DEF Distance
      <4>3. QED
        BY <4>1, <4>2
    <3>2. CASE ~ge
      BY <1>4, <1>8, <3>2 DEF ReadCheck
    <3>3. QED
      BY <3>1, <3>2
  <2>2. UNCHANGED <<rx_ring, got>> /\ Pushed' = Pushed
        /\ pc' = IF Difference(rx_ring, ge) # 0 THEN "take" ELSE "idle"
    BY <1>8 DEF ReadCheck, rxHist, ringVars, uartVars, Pushed
  <2>3. QED
    BY <1>6, <2>1, <2>2
<1>9. CASE ReadByte
  <2>1. /\ got' = Append(got, NextByte(rx_ring)) /\ Pushed' = Pushed
        /\ rx_ring' = ringbuffer_read_one(rx_ring) /\ pc' = "idle" /\ n > 0
    BY <1>4, <1>9 DEF ReadByte, uartVars, Pushed
  <2>2. /\ NextByte(rx_ring) = first
        /\ rx_ring'.write_ptr = w
        /\ \/ Holds(rx_ring', first + 1, n - 1)
           \/ rx_ring'.write_ptr = RingSize
    <3> HIDE DEF n, first
    <3>1. QED
      BY <1>3, <1>4, <2>1, TakeOldest
  <2>3. Holds(rx_ring', first + 1, n - 1)
    BY <1>1, <1>3, <2>2
  <2>4. /\ Len(got') = Len(got) + 1
        /\ \A i \in 1 .. Len(got') : got'[i] = i
    BY <1>3, <1>4, <2>1, <2>2
  <2>5. /\ Pushed' - Len(got') = n - 1 /\ Len(got') + 1 = first + 1
        /\ n - 1 \in 0 .. RingSize - 1
    BY <1>1, <1>3, <1>4, <2>1, <2>4
  <2>6. QED
    BY <2>1, <2>3, <2>4, <2>5 DEF RxHolds
<1>10. CASE IsrDrain
  <2>1. /\ UNCHANGED <<got, pc, ge>>
        /\ rx_ring' = ringbuffer_write_one(rx_ring, Oldest)
        /\ ~(Oldest - Len(got) >= RingSize)
    BY <1>10 DEF IsrDrain, mainVars
  <2>2. Pushed' = Pushed + 1 /\ Oldest = Pushed + 1
    BY <1>10 DEF IsrDrain, Pushed, Oldest, TypeOK
  <2>3. Oldest = first + n /\ n + 1 < RingSize
    BY <1>1, <1>3, <2>1, <2>2
  <2>4. Holds(rx_ring', first, n + 1)
    <3> HIDE DEF n, first
    <3>1. QED
      BY <1>3, <1>4, <2>1, <2>3, PushByte
  <2>5. /\ Pushed' - Len(got') = n + 1 /\ Len(got') + 1 = first
        /\ n + 1 \in 0 .. RingSize - 1 /\ Pushed' > Len(got')
    BY <1>1, <1>3, <1>4, <2>1, <2>2, <2>3
  <2>6. QED
    BY <1>4, <2>1, <2>4, <2>5 DEF RxHolds
<1>11. CASE Receive
  <2>1. Pushed' = Pushed /\ UNCHANGED <<rx_ring, got, pc, ge>>
    BY <1>11 DEF Receive, Pushed, TypeOK, ringVars, mainVars
  <2>2. QED
    BY <1>4, <1>6, <2>1
<1>12. CASE WriteCall
  BY <1>4, <1>6, <1>12 DEF WriteCall, rxHist, ringVars, uartVars, mainVars, Pushed
<1>13. CASE WriteCompare
  BY <1>4, <1>6, <1>13 DEF WriteCompare, rxHist, ringVars, uartVars, mainVars, Pushed
<1>14. CASE WriteCompute
  BY <1>4, <1>6, <1>14 DEF WriteCompute, rxHist, ringVars, uartVars, mainVars, Pushed
<1>15. CASE CopyWhole
  BY <1>4, <1>6, <1>15 DEF CopyWhole, rxHist, ringVars, uartVars, mainVars, Pushed
<1>16. CASE CopyTail
  BY <1>4, <1>6, <1>16 DEF CopyTail, rxHist, ringVars, uartVars, mainVars, Pushed
<1>17. CASE CopyRest
  BY <1>4, <1>6, <1>17 DEF CopyRest, rxHist, ringVars, uartVars, mainVars, Pushed
<1>18. CASE Reduce
  BY <1>4, <1>6, <1>18 DEF Reduce, rxHist, ringVars, uartVars, mainVars, Pushed
<1>19. CASE EnableTie
  BY <1>4, <1>6, <1>19 DEF EnableTie, rxHist, ringVars, uartVars, mainVars, Pushed
<1>20. CASE IsrEnter
  BY <1>4, <1>6, <1>20 DEF IsrEnter, rxHist, ringVars, uartVars, mainVars, Pushed
<1>21. CASE IsrFill
  BY <1>4, <1>6, <1>21 DEF IsrFill, rxHist, ringVars, uartVars, mainVars, Pushed
<1>22. CASE IsrFilled
  BY <1>4, <1>6, <1>22 DEF IsrFilled, rxHist, ringVars, uartVars, mainVars, Pushed
<1>23. CASE IsrExit
  BY <1>4, <1>6, <1>23 DEF IsrExit, rxHist, ringVars, uartVars, mainVars, Pushed
<1>24. CASE ShiftOut
  BY <1>4, <1>6, <1>24 DEF ShiftOut, rxHist, ringVars, uartVars, mainVars, Pushed
<1>25. CASE UNCHANGED vars
  BY <1>4, <1>6, <1>25 DEF vars, rxHist, ringVars, uartVars, mainVars, Pushed
<1>26. QED
  BY <1>7, <1>8, <1>9, <1>10, <1>11, <1>12, <1>13, <1>14, <1>15, <1>16, <1>17, <1>18, <1>19, <1>20, <1>21, <1>22, <1>23, <1>24, <1>25
     DEF Next, Read, Write, Isr

(* The wakeup: only a byte put in the ring can call for it, and scif_write *)
(* enables it before it returns.                                           *)
LEMMA NextWakeup ==
  ASSUME TypeOK, ControlInv, NoLostWakeup, [Next]_vars
  PROVE  NoLostWakeup'
<1> USE DEF NoLostWakeup
<1>1. CASE ReadCall
  BY <1>1 DEF ReadCall, ringVars, uartVars, mainVars
<1>2. CASE ReadCheck
  BY <1>2 DEF ReadCheck, ringVars, uartVars, mainVars
<1>3. CASE ReadByte
  BY <1>3 DEF ReadByte, ringVars, uartVars, mainVars
<1>4. CASE WriteCall
  BY <1>4 DEF WriteCall, ringVars, uartVars, mainVars
<1>5. CASE WriteCompare
  BY <1>5 DEF WriteCompare, ringVars, uartVars, mainVars
<1>6. CASE WriteCompute
  BY <1>6 DEF WriteCompute, ringVars, uartVars, mainVars
<1>7. CASE CopyWhole
  BY <1>7 DEF CopyWhole, ringVars, uartVars, mainVars
<1>8. CASE CopyTail
  BY <1>8 DEF CopyTail, ringVars, uartVars, mainVars
<1>9. CASE CopyRest
  BY <1>9 DEF CopyRest, ringVars, uartVars, mainVars
<1>10. CASE Reduce
  BY <1>10 DEF Reduce, ringVars, uartVars, mainVars
<1>11. CASE EnableTie
  BY <1>11 DEF EnableTie, ringVars, uartVars, mainVars
<1>12. CASE IsrEnter
  BY <1>12 DEF IsrEnter, ringVars, uartVars, mainVars
<1>13. CASE IsrFill
  BY <1>13 DEF IsrFill, ringVars, uartVars, mainVars, MoreToSend
<1>14. CASE IsrFilled
  BY <1>14 DEF IsrFilled, ringVars, uartVars, mainVars
<1>15. CASE IsrDrain
  BY <1>15 DEF IsrDrain, ringVars, uartVars, mainVars
<1>16. CASE IsrExit
  BY <1>16 DEF IsrExit, ringVars, uartVars, mainVars
<1>17. CASE ShiftOut
  BY <1>17 DEF ShiftOut, ringVars, uartVars, mainVars
<1>18. CASE Receive
  BY <1>18 DEF Receive, ringVars, uartVars, mainVars
<1>19. CASE UNCHANGED vars
  BY <1>19 DEF vars, ringVars, uartVars, mainVars
<1>20. QED
  BY <1>1, <1>2, <1>3, <1>4, <1>5, <1>6, <1>7, <1>8, <1>9, <1>10, <1>11, <1>12, <1>13, <1>14, <1>15, <1>16, <1>17, <1>18, <1>19
     DEF Next, Read, Write, Isr

(* Every behaviour of the driver satisfies the inductive invariant.        *)
THEOREM Invariance == Spec => []IInv
<1>1. scif_init => IInv
  BY InitInv
<1>2. IInv /\ [Next]_vars => IInv'
  <2> SUFFICES ASSUME IInv, [Next]_vars PROVE IInv'
    OBVIOUS
  <2>1. TypeOK' /\ ControlInv'
    BY NextControl DEF IInv
  <2>2. TxIntact' => TxHolds'
    BY <2>1, NextTx DEF IInv
  <2>3. ~rxFilled' => RxHolds'
    BY <2>1, NextRx DEF IInv
  <2>4. NoLostWakeup'
    BY NextWakeup DEF IInv
  <2>5. QED
    BY <2>1, <2>2, <2>3, <2>4 DEF IInv
<1>3. QED
  BY <1>1, <1>2, PTL DEF Spec

-----------------------------------------------------------------------------
(* Every variable keeps its type: in particular no pointer leaves the      *)
(* array of its ring (ringbuffer.h l.35, l.42).                            *)
THEOREM TypeCorrect == Spec => []TypeOK
<1>1. IInv => TypeOK
  BY DEF IInv
<1>2. QED
  BY <1>1, Invariance, PTL

(* The line carries the bytes written, once each and in order, while the   *)
(* transmit side is intact (scif.c l.54-82).                               *)
THEOREM TransmitOrder == Spec => []TxInOrder
<1>1. IInv => TxInOrder
  <2> SUFFICES ASSUME IInv, TxIntact PROVE Len(line) <= written
                             /\ \A i \in 1 .. Len(line) : line[i] = i
    BY DEF TxInOrder
  <2>1. Len(line) \in Nat /\ written \in Nat
    BY DEF IInv, TypeOK
  <2>2. QED
    BY <2>1, RingSizeAssumption DEF IInv, TxHolds
<1>2. QED
  BY <1>1, Invariance, PTL

(* scif_read returns the bytes received, once each and in order, while the *)
(* receive ring was never filled (scif.c l.62-69, l.92-95).                *)
THEOREM ReceiveOrder == Spec => []RxInOrder
<1>1. IInv => RxInOrder
  <2> SUFFICES ASSUME IInv, ~rxFilled PROVE Len(got) <= latched - rfdc
                             /\ \A i \in 1 .. Len(got) : got[i] = i
    BY DEF RxInOrder
  <2>1. Len(got) \in Nat /\ latched \in Nat /\ rfdc \in Int
    BY ScifAssumption DEF IInv, TypeOK
  <2>2. QED
    BY <2>1, RingSizeAssumption DEF IInv, RxHolds, Pushed
<1>2. QED
  BY <1>1, Invariance, PTL

(* A waiting byte never waits for an interrupt that is disabled (l.59,     *)
(* l.83-87).                                                               *)
THEOREM Wakeup == Spec => []NoLostWakeup
<1>1. IInv => NoLostWakeup
  BY DEF IInv
<1>2. QED
  BY <1>1, Invariance, PTL

(* The torn space test of l.56 never lets a write overtake the handler.    *)
THEOREM WritesFit == Spec => WriteFits
<1>1. IInv /\ [Next]_vars
        => [TxIntact => written' - Len(line) <= RingSize]_vars
  <2> SUFFICES ASSUME IInv, [Next]_vars, TxIntact
               PROVE  written' - Len(line) <= RingSize
    OBVIOUS
  <2>1. /\ RingSize \in Nat /\ RingSize >= 1
        /\ written \in Nat /\ Len(line) \in Nat /\ len \in Nat
        /\ written - Len(line) <= RingSize
    BY RingSizeAssumption DEF IInv, TypeOK, TxHolds
  <2>2. pc \in {"copy", "rest"} => written - Len(line) + len <= RingSize
    BY DEF IInv, TxHolds
  <2>3. pc = "copy" => tx_ring.write_ptr \in 0 .. RingSize - 1
    BY DEF IInv, ControlInv, Slots
  <2>4. CASE CopyWhole
    BY <2>1, <2>2, <2>4 DEF CopyWhole, Publish
  <2>5. CASE CopyTail
    <3>1. Room(tx_ring) < len /\ Room(tx_ring) \in Nat /\ pc = "copy"
          /\ written' = written + Room(tx_ring)
      BY <2>1, <2>3, <2>5 DEF CopyTail, Publish, Room
    <3>2. QED
      BY <2>1, <2>2, <3>1
  <2>6. CASE CopyRest
    BY <2>1, <2>2, <2>6 DEF CopyRest, Publish
  <2>7. CASE written' = written
    BY <2>1, <2>7
  <2>8. QED
    BY <2>4, <2>5, <2>6, <2>7
    DEF Next, Read, Write, Isr, ReadCall, ReadCheck, ReadByte, WriteCall,
        WriteCompare, WriteCompute, Reduce, EnableTie, IsrEnter, IsrFill,
        IsrFilled, IsrDrain, IsrExit, ShiftOut, Receive, vars, txHist
<1>2. QED
  BY <1>1, Invariance, PTL DEF Spec, WriteFits

(* scif_read does not miss a byte that was in the ring when it was called  *)
(* (l.64-68), although the handler moves write_ptr under it.               *)
THEOREM NoMiss == Spec => NoFalseEmpty
<1>1. IInv /\ [Next]_vars
        => [pc = "read" /\ pc' = "idle" /\ ~rxFilled
              => Len(got) = latched - rfdc]_vars
  <2> SUFFICES ASSUME IInv, Next, pc = "read", pc' = "idle", ~rxFilled
               PROVE  Len(got) = latched - rfdc
    OBVIOUS
  <2>1. ReadCheck
    BY DEF Next, Read, Write, Isr, ReadCall, ReadByte, WriteCall, WriteCompare,
        WriteCompute, CopyWhole, CopyTail, CopyRest, Reduce, EnableTie,
        IsrEnter, IsrFill, IsrFilled, IsrDrain, IsrExit, ShiftOut, Receive,
        mainVars
  <2>2. Difference(rx_ring, ge) = 0
    BY <2>1 DEF ReadCheck
  <2>3. /\ RingSize \in Nat /\ RingSize >= 1 /\ Word \in Nat /\ 2 * RingSize <= Word
        /\ rx_ring.read_ptr \in 0 .. RingSize - 1
        /\ rx_ring.write_ptr \in 0 .. RingSize - 1
    BY RingSizeAssumption DEF IInv, ControlInv, Slots
  <2>4. /\ Pushed - Len(got) = Distance(rx_ring.read_ptr, rx_ring.write_ptr)
        /\ ~ge => Pushed > Len(got)
        /\ Pushed \in Int /\ Len(got) \in Int /\ ge \in BOOLEAN
    <3>1. Pushed \in Int /\ Len(got) \in Int /\ ge \in BOOLEAN
      BY ScifAssumption DEF IInv, TypeOK, Pushed
    <3>2. QED
      BY <3>1 DEF IInv, RxHolds, Holds
  <2>5. CASE rx_ring.write_ptr >= rx_ring.read_ptr
    <3>1. Distance(rx_ring.read_ptr, rx_ring.write_ptr) \in Nat
          /\ Distance(rx_ring.read_ptr, rx_ring.write_ptr) < Word
          /\ RingSize - rx_ring.read_ptr + rx_ring.write_ptr \in Nat \ {0}
          /\ RingSize - rx_ring.read_ptr + rx_ring.write_ptr < Word
      BY <2>3, <2>5 DEF Distance
    <3>2. CASE ge
      <4>1. Difference(rx_ring, ge) = Distance(rx_ring.read_ptr, rx_ring.write_ptr)
        BY <2>5, <3>1, <3>2, SmallModulo DEF Difference, Distance
      <4>2. QED
        BY <2>2, <2>4, <4>1 DEF Pushed
    <3>3. CASE ~ge
      <4>1. Difference(rx_ring, ge) = RingSize - rx_ring.read_ptr + rx_ring.write_ptr
        BY <3>1, <3>3, SmallModulo DEF Difference
      <4>2. QED
        BY <2>2, <3>1, <4>1
    <3>4. QED
      BY <2>4, <3>2, <3>3
  <2>6. CASE rx_ring.write_ptr < rx_ring.read_ptr
    <3>1. CASE ge
      <4> DEFINE d == rx_ring.write_ptr - rx_ring.read_ptr
      <4>1. Difference(rx_ring, ge) = d % Word
        BY <3>1 DEF Difference
      <4>2. d \in Int /\ d < 0 /\ d > - Word /\ Word > 0
        BY <2>3, <2>6
      <4>3. d % Word = d + Word
        <5> HIDE DEF d
        <5>1. QED
          BY <2>3, <4>2
      <4>4. QED
        BY <2>2, <2>3, <4>1, <4>2, <4>3
    <3>2. CASE ~ge
      <4>1. RingSize - rx_ring.read_ptr + rx_ring.write_ptr \in Nat \ {0}
            /\ RingSize - rx_ring.read_ptr + rx_ring.write_ptr < Word
        BY <2>3, <2>6
      <4>2. Difference(rx_ring, ge) = RingSize - rx_ring.read_ptr + rx_ring.write_ptr
        BY <3>2, <4>1, SmallModulo DEF Difference
      <4>3. QED
        BY <2>2, <4>1, <4>2
    <3>3. QED
      BY <2>4, <3>1, <3>2
  <2>7. QED
    BY <2>3, <2>5, <2>6
<1>2. QED
  BY <1>1, Invariance, PTL DEF Spec, NoFalseEmpty

-----------------------------------------------------------------------------
(* The transmit side implements the abstract byte stream.                  *)
THEOREM TransmitIsStream == Spec => TxIsStream
<1>1. scif_init => TxStream!Init
  BY DEF scif_init, TxStream!Init
<1>2. IInv /\ IInv' /\ [Next]_vars => [TxStream!Next]_(TxStream!vars)
  <2> SUFFICES ASSUME IInv, IInv', [Next]_vars
               PROVE  TxStream!Next \/ UNCHANGED TxStream!vars
    OBVIOUS
  <2>1. /\ written \in Nat /\ line \in Seq(Nat) /\ Len(line) \in Nat
        /\ written' \in Nat /\ line' \in Seq(Nat) /\ Len(line') \in Nat
        /\ txFilled \in BOOLEAN /\ txWrapped \in BOOLEAN
        /\ txFilled' \in BOOLEAN /\ txWrapped' \in BOOLEAN
    BY DEF IInv, TypeOK
  <2>2. ASSUME written' > written, line' = line, txWrapped' = txWrapped,
               txFilled => txFilled'
        PROVE  TxStream!Next
    <3>1. CASE txFilled' = txFilled
      BY <2>1, <2>2, <3>1 DEF TxStream!Next, TxStream!Accept
    <3>2. CASE txFilled'
      BY <2>1, <2>2, <3>2 DEF TxStream!Next, TxStream!Break
    <3>3. QED
      BY <2>1, <2>2, <3>1, <3>2
  <2>3. CASE CopyWhole
    <3>1. len >= 1 /\ len \in Nat
      BY RingSizeAssumption, <2>3 DEF CopyWhole, IInv, ControlInv, TypeOK
    <3>2. written' > written
      BY <2>1, <2>3, <3>1 DEF CopyWhole, Publish
    <3>3. QED
      BY <2>2, <2>3, <3>2 DEF CopyWhole, Publish
  <2>4. CASE CopyTail
    <3>1. Room(tx_ring) >= 1 /\ Room(tx_ring) \in Nat
      <4>1. RingSize \in Nat /\ tx_ring.write_ptr \in 0 .. RingSize - 1
        BY RingSizeAssumption, <2>4 DEF CopyTail, IInv, ControlInv, Slots
      <4>2. QED
        BY <4>1 DEF Room
    <3>2. written' > written
      BY <2>1, <2>4, <3>1 DEF CopyTail, Publish
    <3>3. QED
      BY <2>2, <2>4, <3>2 DEF CopyTail, Publish
  <2>5. CASE CopyRest
    <3>1. len >= 1 /\ len \in Nat
      BY RingSizeAssumption, <2>5 DEF CopyRest, IInv, ControlInv, TypeOK
    <3>2. written' > written
      BY <2>1, <2>5, <3>1 DEF CopyRest, Publish
    <3>3. QED
      BY <2>2, <2>5, <3>2 DEF CopyRest, Publish
  <2>6. CASE IsrFill
    <3>1. /\ written' = written /\ txFilled' = txFilled
          /\ line' = Append(line, NextByte(tx_ring))
          /\ txWrapped => txWrapped'
          /\ NextByte(tx_ring) \in Nat
      BY <2>6 DEF IsrFill, IInv, TypeOK, ControlInv, NextByte, Ring
    <3>2. Len(line') = Len(line) + 1 /\ line'[Len(line) + 1] = NextByte(tx_ring)
      BY <2>1, <3>1
    <3>3. CASE TxIntact'
      <4>1. TxHolds' /\ ~txFilled /\ ~txWrapped /\ ~txFilled' /\ ~txWrapped'
        BY <3>1, <3>3 DEF IInv, TxIntact
      <4>2. line'[Len(line) + 1] = Len(line) + 1
        BY <2>1, <3>2, <4>1 DEF TxHolds
      <4>3. Len(line) < written
        BY <2>1, <3>1, <3>2, <4>1, RingSizeAssumption DEF TxHolds
      <4>4. QED
        BY <3>1, <3>2, <4>1, <4>2, <4>3 DEF TxStream!Next, TxStream!Deliver
    <3>4. CASE ~TxIntact'
      BY <2>1, <3>1, <3>2, <3>4 DEF TxStream!Next, TxStream!Break, TxIntact
    <3>5. QED
      BY <3>3, <3>4
  <2>7. CASE UNCHANGED txHist
    BY <2>7 DEF TxStream!vars, txHist
  <2>8. QED
    BY <2>3, <2>4, <2>5, <2>6, <2>7
    DEF Next, Read, Write, Isr, ReadCall, ReadCheck, ReadByte, WriteCall,
        WriteCompare, WriteCompute, Reduce, EnableTie, IsrEnter, IsrFilled,
        IsrDrain, IsrExit, ShiftOut, Receive, vars
<1>3. QED
  BY <1>1, <1>2, Invariance, PTL DEF Spec, TxIsStream, TxStream!Spec

(* So does the receive side.                                               *)
THEOREM ReceiveIsStream == Spec => RxIsStream
<1>1. scif_init => RxStream!Init
  BY DEF scif_init, RxStream!Init
<1>2. IInv /\ IInv' /\ [Next]_vars => [RxStream!Next]_(RxStream!vars)
  <2> SUFFICES ASSUME IInv, IInv', [Next]_vars
               PROVE  RxStream!Next \/ UNCHANGED RxStream!vars
    OBVIOUS
  <2>1. /\ latched \in Nat /\ rfdc \in Nat /\ got \in Seq(Nat) /\ Len(got) \in Nat
        /\ latched' \in Nat /\ rfdc' \in Nat
        /\ got' \in Seq(Nat) /\ Len(got') \in Nat
        /\ latched - rfdc \in Nat /\ latched' - rfdc' \in Nat
        /\ rxFilled \in BOOLEAN /\ rxFilled' \in BOOLEAN
    <3>1. /\ latched \in Nat /\ rfdc \in Nat /\ rfdc <= latched
          /\ latched' \in Nat /\ rfdc' \in Nat /\ rfdc' <= latched'
      BY ScifAssumption DEF IInv, TypeOK, ControlInv
    <3>2. \A a, b \in Nat : b <= a => a - b \in Nat
      OBVIOUS
    <3>5. latched - rfdc \in Nat /\ latched' - rfdc' \in Nat
      BY <3>1, <3>2
    <3>3. Len(got) \in Nat /\ Len(got') \in Nat
      BY DEF IInv, TypeOK
    <3>6. QED
      BY <3>1, <3>3, <3>5 DEF IInv, TypeOK
  <2>2. CASE IsrDrain
    <3>1. /\ latched' - rfdc' = (latched - rfdc) + 1
          /\ got' = got /\ (rxFilled => rxFilled')
      BY <2>1, <2>2 DEF IsrDrain
    <3>2. /\ latched' - rfdc' > latched - rfdc
          /\ latched' - rfdc' >= latched - rfdc
          /\ Len(got') >= Len(got)
      <4>1. \A a, b \in Nat : b = a + 1 => b > a /\ b >= a
        OBVIOUS
      <4>2. Len(got') = Len(got) /\ \A a \in Nat : a >= a
        BY <3>1
      <4>3. QED
        BY <2>1, <3>1, <4>1, <4>2
    <3>3. CASE rxFilled' = rxFilled
      <4>1. RxStream!Accept
        BY <2>1, <3>1, <3>2, <3>3 DEF RxStream!Accept
      <4>2. QED
        BY <4>1 DEF RxStream!Next
    <3>4. CASE rxFilled'
      <4>1. RxStream!Break
        BY <2>1, <3>1, <3>2, <3>4 DEF RxStream!Break
      <4>2. QED
        BY <4>1 DEF RxStream!Next
    <3>5. QED
      BY <2>1, <3>1, <3>3, <3>4
  <2>3. CASE ReadByte
    <3>1. /\ latched' - rfdc' = latched - rfdc /\ rxFilled' = rxFilled
          /\ got' = Append(got, NextByte(rx_ring))
          /\ NextByte(rx_ring) \in Nat
      BY <2>3 DEF ReadByte, IInv, TypeOK, ControlInv, NextByte, Ring, uartVars
    <3>2. Len(got') = Len(got) + 1 /\ got'[Len(got) + 1] = NextByte(rx_ring)
      BY <2>1, <3>1
    <3>3. CASE ~rxFilled'
      <4>1. RxHolds' /\ ~rxFilled
        BY <3>1, <3>3 DEF IInv
      <4>2. got'[Len(got) + 1] = Len(got) + 1
        BY <2>1, <3>2, <4>1 DEF RxHolds
      <4>3. Len(got) < latched - rfdc
        <5>1. (latched' - rfdc') - Len(got') >= 0
          BY <4>1, RingSizeAssumption DEF RxHolds, Pushed
        <5>2. (latched - rfdc) - (Len(got) + 1) >= 0
          BY <3>1, <3>2, <5>1
        <5>3. QED
          BY <2>1, <5>2
      <4>4. QED
        BY <3>1, <3>2, <4>1, <4>2, <4>3 DEF RxStream!Next, RxStream!Deliver
    <3>4. CASE rxFilled'
      <4>1. /\ latched' - rfdc' >= latched - rfdc
            /\ Len(got') >= Len(got)
        <5>1. \A a, b \in Nat : b = a \/ b = a + 1 => b >= a
          OBVIOUS
        <5>2. QED
          BY <2>1, <3>1, <3>2, <5>1
      <4>2. RxStream!Break
        BY <2>1, <3>4, <4>1 DEF RxStream!Break
      <4>3. QED
        BY <4>2 DEF RxStream!Next
    <3>5. QED
      BY <2>1, <3>3, <3>4
  <2>4. CASE Receive
    BY <2>1, <2>4 DEF Receive, RxStream!vars
  <2>5. CASE UNCHANGED <<rfdc, rxHist>>
    BY <2>5 DEF RxStream!vars, rxHist
  <2>6. QED
    BY <2>2, <2>3, <2>4, <2>5
    DEF Next, Read, Write, Isr, ReadCall, ReadCheck, WriteCall,
        WriteCompare, WriteCompute, CopyWhole, CopyTail, CopyRest, Reduce,
        EnableTie, IsrEnter, IsrFill, IsrFilled, IsrExit, ShiftOut, vars,
        uartVars
<1>3. QED
  BY <1>1, <1>2, Invariance, PTL DEF Spec, RxIsStream, RxStream!Spec
=============================================================================
