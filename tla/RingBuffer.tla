------------------------------ MODULE RingBuffer ------------------------------
(***************************************************************************)
(* src/ringbuffer.h: a ring of RingSize bytes with two free-running        *)
(* indices.  The ring is a record, as ringbuffer_t is a struct; a byte is  *)
(* its number in the stream that is written, which is all a queue can get  *)
(* wrong.  Number 0 stands for the zeroed memory of a fresh ring.          *)
(***************************************************************************)
EXTENDS Integers

CONSTANTS
  RingSize,     \* RING_BUF_SIZE
  Word          \* 2^16, the number of values of a uint16_t

(* A torn ringbuffer_available may compute nearly twice the size, which    *)
(* must still fit its uint16_t.                                            *)
ASSUME RingSizeAssumption ==
  /\ RingSize \in Nat \ {0}
  /\ Word \in Nat
  /\ 2 * RingSize <= Word

Slots == 0 .. RingSize - 1

(* write_ptr and read_ptr are bumped first and reduced modulo size in a    *)
(* second store, so either may hold RingSize for a moment.                 *)
Ring == [buffer    : [Slots -> Nat],
         read_ptr  : 0 .. RingSize,
         write_ptr : 0 .. RingSize]

ringbuffer_init == [buffer    |-> [i \in Slots |-> 0],
                    read_ptr  |-> 0,
                    write_ptr |-> 0]

(* The expression of ringbuffer_available once the comparison has been     *)
(* made: the pointers are volatile, so they are read again.  The result is *)
(* returned in a uint16_t.                                                 *)
Difference(ring, ge) ==
  (IF ge THEN ring.write_ptr - ring.read_ptr
         ELSE RingSize - ring.read_ptr + ring.write_ptr) % Word

WriteAhead(ring) == ring.write_ptr >= ring.read_ptr

ringbuffer_available(ring) == Difference(ring, WriteAhead(ring))

NextByte(ring) == ring.buffer[ring.read_ptr]

ringbuffer_read_one(ring) ==
  [ring EXCEPT !.read_ptr = (@ + 1) % RingSize]

(* Faulty: the index is bumped before the store.                           *)
ringbuffer_write_one_preIncrement(ring, byte) ==
  [ring EXCEPT !.buffer = [@ EXCEPT ![(ring.write_ptr + 1) % RingSize] = byte],
               !.write_ptr = (@ + 1) % RingSize]

ringbuffer_write_one(ring, byte) ==
  [ring EXCEPT !.buffer = [@ EXCEPT ![ring.write_ptr] = byte],
               !.write_ptr = (@ + 1) % RingSize]

(* One memcpy of ringbuffer_write: n bytes, the first one numbered first,  *)
(* stored from write_ptr on.                                               *)
memcpy(ring, first, n) ==
  [i \in Slots |-> IF i \in ring.write_ptr .. ring.write_ptr + n - 1
                     THEN first + (i - ring.write_ptr)
                     ELSE ring.buffer[i]]

Room(ring) == RingSize - ring.write_ptr      \* bytes up to the end of the array
===============================================================================
