------------------------------ MODULE ObjectLog -----------------------------
(* objectlog.c: objects of several bytes in a ring (ringbuffer.h), oldest  *)
(* dropped to make room.  An object is stored as fragments, each a header  *)
(* byte (length, final) and its bytes; a fragment never crosses the end of *)
(* the ring, so that a reader can take a pointer to its bytes.             *)
(*                                                                         *)
(* objectlog_write_scattered_object is one action up to its loops, one for *)
(* each object dropped and one for each turn of the writing loop.  The     *)
(* bytes of object o are counted down, <<o, n>> ... <<o, 1>>; objects are  *)
(* numbered round a small set, larger than what fits in the ring.          *)
EXTENDS Naturals, Integers, Sequences, SequencesExt, FiniteSetsExt

CONSTANTS
  Size,              \* ring.size
  MAX_FRAGMENT_LEN,
  Scatter,           \* the scatter lists written: sequences of lengths
  Names              \* objects are numbered 0..Names-1

VARIABLES
  buffer, write_ptr,                 \* ring
  ptr_first, ptr_last, num_entries,  \* log
  pc,                \* "idle", or in the call: "drop", "write"
  sc_list,           \* what is left of the scatter list
  object_len,        \* history: the length of the object being written
  data_len, total_len, log_end, new_last, fragment_len, fragment_offset,
  name,              \* the number of the object being written or next
  written            \* history: <<name, length>> of each object in the log

ring   == <<buffer, write_ptr>>
list   == <<ptr_first, ptr_last, num_entries>>
local  == <<data_len, total_len, log_end, new_last, fragment_len,
            fragment_offset>>
history == <<object_len, written>>
vars   == <<ring, list, pc, sc_list, local, name, history>>

Ring == 0..Size - 1
Least(a, b) == IF a < b THEN a ELSE b

(* The sum of a list of lengths.                                           *)
LenOf(sc) ==
  LET sum[i \in 0..Len(sc)] == IF i = 0 THEN 0 ELSE sum[i - 1] + sc[i]
  IN sum[Len(sc)]

(* Faulty: rounded down.                                                   *)
DivRoundUp_down(x, y) == x \div y

DivRoundUp(x, y) == (x + y - 1) \div y

(* A byte, as a fragment header and as the data it is.  Data read as a     *)
(* header is an empty fragment that is not final, as is the zero that the  *)
(* storage starts with.                                                    *)
Header(n, last) == [len |-> n, final |-> last, data |-> <<>>]
Data(o, k)      == [len |-> 0, final |-> FALSE, data |-> <<o, k>>]
Zero            == [len |-> 0, final |-> FALSE, data |-> <<>>]

ASSUME Sizes ==
  /\ Size \in Nat /\ Size > 1
  /\ MAX_FRAGMENT_LEN \in Nat \ {0} /\ Names \in Nat \ {0}
  /\ Scatter \subseteq Seq(Nat \ {0}) /\ <<>> \notin Scatter

(* The bytes an object takes at most.  Two objects that are not refused    *)
(* fit in the ring together: with 2048 bytes and messages of up to 259 the *)
(* program is far from that limit, which the code does not check.          *)
Takes(sc) == LenOf(sc) + DivRoundUp(LenOf(sc), MAX_FRAGMENT_LEN) + 1
Refused(sc) == LenOf(sc) + DivRoundUp(LenOf(sc), MAX_FRAGMENT_LEN) > Size
ASSUME TwoFit == \A a, b \in Scatter :
                   Refused(a) \/ Refused(b) \/ Takes(a) + Takes(b) <= Size

-----------------------------------------------------------------------------
(* The fragment after the one at pos.                                      *)
Following(pos) == (pos + 1 + buffer[pos].len) % Size

(* get_next_entry: over the fragments from offset on to the final one; to  *)
(* ptr_first if that comes round to offset without meeting one, as it does *)
(* in the zeroed storage.                                                  *)
get_next_entry(offset) ==
  LET Wraps(hdr, next) ==
        \/ hdr < offset /\ next >= offset
        \/ hdr > offset /\ next >= offset /\ next < hdr
      walk[left \in 0..Size] ==
        [hdr \in Ring |->
           IF Wraps(hdr, Following(hdr)) THEN ptr_first
           ELSE IF buffer[hdr].final \/ left = 0 THEN Following(hdr)
           ELSE walk[left - 1][Following(hdr)]]
  IN walk[Size][offset]

(* Faulty: a full ring passes for an empty one.                            *)
objectlog_free_space_full(from, first) ==
  IF first > from THEN first - from ELSE Size - from + first

(* objectlog_free_space; a full ring and an empty one both have none.      *)
objectlog_free_space(from, first) ==
  IF first >= from THEN first - from ELSE Size - from + first

Init ==
  /\ buffer = [i \in Ring |-> Zero] /\ write_ptr = 0
  /\ ptr_first = 0 /\ ptr_last = 0 /\ num_entries = 0
  /\ pc = "idle" /\ sc_list = <<>>
  /\ data_len = 0 /\ total_len = 0 /\ log_end = 0 /\ new_last = 0
  /\ fragment_len = 0 /\ fragment_offset = 0
  /\ name = 0 /\ object_len = 0 /\ written = <<>>

(* The call begins.  An object that can never fit is refused; nothing has  *)
(* changed then.                                                           *)
Begin(sc) ==
  /\ pc = "idle"
  /\ LET end   == get_next_entry(ptr_last)
         len   == LenOf(sc)
         total == len + DivRoundUp(len, MAX_FRAGMENT_LEN)
         whole == IF end + total > Size THEN total + 1 ELSE total
     IN IF whole > Size
        THEN UNCHANGED <<pc, sc_list, local, object_len>>
        ELSE /\ pc' = "drop" /\ sc_list' = sc
             /\ data_len' = len /\ total_len' = whole /\ log_end' = end
             /\ fragment_offset' = 0 /\ object_len' = len
             /\ UNCHANGED <<new_last, fragment_len>>
  /\ UNCHANGED <<ring, list, name, written>>

(* Faulty: what just fits is refused.                                      *)
Fits_strict == objectlog_free_space(log_end, ptr_first) > total_len

Fits == objectlog_free_space(log_end, ptr_first) >= total_len

(* drop_first_entry, until the object fits.                                *)
Drop ==
  /\ pc = "drop" /\ ~Fits /\ ptr_first # ptr_last
  /\ ptr_first' = get_next_entry(ptr_first)
  /\ num_entries' = num_entries - 1
  /\ written' = Tail(written)
  /\ UNCHANGED <<ring, ptr_last, pc, sc_list, local, name, object_len>>

Start ==
  /\ pc = "drop" /\ (Fits \/ ptr_first = ptr_last)
  /\ pc' = "write" /\ new_last' = write_ptr
  /\ UNCHANGED <<ring, list, sc_list, data_len, total_len, log_end,
                 fragment_len, fragment_offset, name, history>>

(* Faulty: one byte too long for the header, or for what is left of the    *)
(* ring.                                                                   *)
FragmentLen_long ==
  IF fragment_offset > 0 THEN fragment_len
  ELSE Least(MAX_FRAGMENT_LEN + 1, Size - write_ptr - 1)

FragmentLen_end ==
  IF fragment_offset > 0 THEN fragment_len
  ELSE Least(MAX_FRAGMENT_LEN, Size - write_ptr)

(* The length the fragment may have, fixed when it begins: one that begins *)
(* at the last byte of the ring is empty.                                  *)
FragmentLen ==
  IF fragment_offset > 0 THEN fragment_len
  ELSE Least(MAX_FRAGMENT_LEN, Size - write_ptr - 1)

(* One turn of the writing loop: a header if a fragment begins, and then   *)
(* as much as the fragment and the scatter entry both take.                *)
Chunk ==
  /\ pc = "write" /\ sc_list # <<>>
  /\ LET flen  == FragmentLen
         begin == fragment_offset = 0
         limit == Least(data_len, flen - fragment_offset)
         n     == Least(limit, Head(sc_list))
         from  == IF begin THEN (write_ptr + 1) % Size ELSE write_ptr
     IN /\ buffer' = [i \in Ring |->
              IF begin /\ i = write_ptr THEN Header(limit, data_len = limit)
              ELSE LET k == (i - from) % Size
                   IN IF k < n THEN Data(name, data_len - k) ELSE buffer[i]]
        /\ write_ptr' = (from + n) % Size
        /\ data_len' = data_len - n
        /\ sc_list' = IF n = Head(sc_list) THEN Tail(sc_list)
                      ELSE <<Head(sc_list) - n>> \o Tail(sc_list)
        /\ fragment_len' = flen
        /\ fragment_offset' = IF fragment_offset + n >= flen THEN 0
                              ELSE fragment_offset + n
  /\ UNCHANGED <<list, pc, total_len, log_end, new_last, name, history>>

End ==
  /\ pc = "write" /\ sc_list = <<>>
  /\ pc' = "idle" /\ ptr_last' = new_last /\ num_entries' = num_entries + 1
  /\ name' = (name + 1) % Names
  /\ written' = Append(written, <<name, object_len>>)
  /\ UNCHANGED <<ring, ptr_first, sc_list, local, object_len>>

Next == (\E sc \in Scatter : Begin(sc)) \/ Drop \/ Start \/ Chunk \/ End

Spec == Init /\ [][Next]_vars

-----------------------------------------------------------------------------
(* Readers                                                                 *)

Failed == -1
NoMore == -2

(* The n-th object after the first, by as many calls of get_next_entry.    *)
EntryAfter(n) ==
  LET entry[i \in 0..Size] ==
        IF i = 0 THEN ptr_first ELSE get_next_entry(entry[i - 1])
  IN entry[n]

(* Faulty: negative indices off by one.                                    *)
objectlog_iterator_before(idx) ==
  IF idx < 0
  THEN IF -idx >= num_entries THEN Failed ELSE EntryAfter(num_entries + idx - 1)
  ELSE IF idx >= num_entries THEN Failed ELSE EntryAfter(idx)

(* The position of the object with an index; -1 is the last object.        *)
objectlog_iterator(idx) ==
  IF idx < 0
  THEN IF -idx >= num_entries THEN Failed ELSE EntryAfter(num_entries + idx)
  ELSE IF idx >= num_entries THEN Failed ELSE EntryAfter(idx)

(* The bytes that a reader of the pointer and the length finds; what lies  *)
(* past the storage is none of the log's.                                  *)
objectlog_get_fragment(iter) ==
  [i \in 1..buffer[iter].len |->
     IF iter + i \in Ring THEN buffer[iter + i].data ELSE <<>>]

objectlog_next(iter) ==
  IF buffer[iter].final THEN NoMore ELSE Following(iter)

(* The fragments of the object at iter, in the order objectlog_next gives. *)
Fragments(iter) ==
  LET from[left \in 0..Size] ==
        [pos \in Ring |->
           IF objectlog_next(pos) = NoMore \/ left = 0 THEN <<pos>>
           ELSE <<pos>> \o from[left - 1][objectlog_next(pos)]]
  IN from[Size][iter]

(* objectlog_get_object_size: the sum of the fragments' lengths.           *)
objectlog_get_object_size(idx) ==
  LET iter == objectlog_iterator(idx)
      f    == Fragments(iter)
  IN IF iter = Failed THEN Failed
     ELSE LenOf([j \in DOMAIN f |-> buffer[f[j]].len])

ObjectAt(iter) ==
  FlattenSeq([i \in DOMAIN Fragments(iter) |->
                objectlog_get_fragment(Fragments(iter)[i])])

(* The objects that the indices from 0 up give.                            *)
Objects == [i \in 1..num_entries |-> ObjectAt(objectlog_iterator(i - 1))]

(* An object as it was given to the call.                                  *)
Whole(o, n) == [i \in 1..n |-> <<o, n + 1 - i>>]

-----------------------------------------------------------------------------
TypeOK ==
  /\ write_ptr \in Ring /\ ptr_first \in Ring /\ ptr_last \in Ring
  /\ num_entries \in Nat /\ pc \in {"idle", "drop", "write"}
  /\ name \in 0..Names - 1 /\ log_end \in Ring /\ new_last \in Ring
  /\ fragment_len \in 0..MAX_FRAGMENT_LEN
  /\ fragment_offset \in 0..MAX_FRAGMENT_LEN

(* Every object in the log can be read whole by its index, in the order of *)
(* the writes, also while the next one is being written; and its size is   *)
(* the length that was written, whatever the fragments it lies in.         *)
EveryObjectReadable ==
  /\ Objects = [i \in DOMAIN written |-> Whole(written[i][1], written[i][2])]
  /\ \A i \in DOMAIN written :
       objectlog_get_object_size(i - 1) = written[i][2]

(* A negative index counts from the last object to the second; and the     *)
(* write position is where the next object will be looked for.             *)
EndsMeet ==
  pc = "idle" =>
    /\ \A i \in 1..num_entries - 1 :
         objectlog_iterator(-i) = objectlog_iterator(num_entries - i)
    /\ num_entries > 1 => objectlog_iterator(-1) = ptr_last
    /\ get_next_entry(ptr_last) = write_ptr

(* No fragment crosses the end of the ring: a pointer and a length are     *)
(* enough to read it.                                                      *)
FragmentsContiguous ==
  \A i \in 1..num_entries :
    LET f == Fragments(objectlog_iterator(i - 1))
    IN \A j \in DOMAIN f : f[j] + buffer[f[j]].len < Size

(* An object is dropped only when the bytes of those in the log, their     *)
(* headers and the new object do not fit in the ring together.             *)
InUse ==
  LET f(i) == Fragments(objectlog_iterator(i - 1))
  IN LenOf([i \in 1..num_entries |-> Len(ObjectAt(f(i)[1])) + Len(f(i))])
DropsOnlyForSpace ==
  [][num_entries' < num_entries => InUse + total_len > Size]_vars

(* The log implements RecentLog, read through its own readers.             *)
Recent == INSTANCE RecentLog WITH
  log <- Objects,
  Object <- {Whole(o, LenOf(sc)) : o \in 0..Names - 1, sc \in Scatter}
IsRecentLog == Recent!Spec

=============================================================================
