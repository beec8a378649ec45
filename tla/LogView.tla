------------------------------ MODULE LogView -------------------------------
(* What the user interface reads from the object log (ui.c): a message is  *)
(* a header, which names its page, and a text; a page shows its messages   *)
(* as lines, scrolled by some characters.  The readers run between writes  *)
(* and change nothing, so they are operators on the state of ObjectLog.    *)
EXTENDS ObjectLog

CONSTANTS
  HdrLen,       \* sizeof(message_hdr_t)
  Pages,        \* how many pages have messages
  MaxLines,     \* UI_DISPLAY_LINES, one less on a page with an input line
  Width,        \* UI_DISPLAY_PIXEL_X, in characters
  ByteSpace,    \* 2^8: lengths and pencil_x are uint8_t
  Scrolls       \* the values of scroll_x looked at

ASSUME ViewSizes == /\ HdrLen \in Nat \ {0} /\ Pages \in Nat \ {0}
                    /\ MaxLines \in Nat \ {0} /\ Width \in Nat
                    /\ ByteSpace \in Nat /\ ByteSpace > MAX_FRAGMENT_LEN
                    /\ Scrolls \subseteq Nat

(* The page_id in the header of an object, by its number.                  *)
PageOf(o) == o % Pages

(* n bytes from a pointer on; what lies past the storage is none of it.    *)
Bytes(ptr, n) ==
  [k \in 1..n |-> IF ptr + k - 1 \in Ring THEN buffer[ptr + k - 1].data
                  ELSE <<>>]

(* A pointer into the fragment at iter, with the bytes left there.         *)
Cursor(iter, ptr, len) == [iter |-> iter, ptr |-> ptr, len |-> len]
Null == Cursor(Failed, 0, 0)

Cursors == [iter : Ring, ptr : Nat, len : Nat]

(* A cursor at the beginning of a fragment.                                *)
AtFragment(iter) == Cursor(iter, iter + 1, buffer[iter].len)

(* The loop that passes over offset characters, a turn for each fragment,  *)
(* of which there are at most Size.  A text that ends there, or goes on at *)
(* position 0 of the ring, gives no pointer.                               *)
SkipText(cursor, offset) ==
  LET skip[turns \in 0..Size] ==
        [c \in Cursors |-> [left \in Nat |->
           IF left = 0 THEN c
           ELSE IF left < c.len
                THEN Cursor(c.iter, c.ptr + left, c.len - left)
           ELSE LET next == objectlog_next(c.iter)
                IN IF next <= 0 \/ turns = 0 THEN Null
                   ELSE skip[turns - 1][AtFragment(next)][left - c.len]]]
  IN skip[Size][cursor][offset]

(* ui_objectlog_get_message for an object that exists: where its text      *)
(* begins.  The loop over the header reads the first fragment again while  *)
(* it is short of HdrLen bytes, and the length wraps below zero then; it   *)
(* never ends if that fragment is empty.                                   *)
ui_objectlog_get_message(iter, offset) ==
  SkipText(Cursor(iter, iter + 1 + HdrLen,
                  (buffer[iter].len - HdrLen) % ByteSpace), offset)

(* The pieces drawn for a line, with the column of each: until one ends    *)
(* past the screen, or the fragments end.                                  *)
DrawLine(cursor) ==
  LET draw[turns \in 0..Size] ==
        [c \in Cursors |-> [x \in Nat |->
           LET piece == IF c.len = 0 THEN <<>>
                        ELSE << [x |-> x, text |-> Bytes(c.ptr, c.len)] >>
               right == (x + c.len) % ByteSpace
               next  == objectlog_next(c.iter)
           IN IF (c.len > 0 /\ right > Width) \/ next < 0 \/ turns = 0 THEN piece
              ELSE piece \o draw[turns - 1][AtFragment(next)][right]]]
  IN IF cursor = Null THEN <<>> ELSE draw[Size][cursor][0]

(* Faulty: negative indices begin at the last but one.                     *)
Indices_late == [i \in 1..num_entries |-> IF i = 1 THEN 0 ELSE -i]

(* The indices ui_render_logs asks for in turn.  The first is -0, which    *)
(* is the oldest object; then the last, the last but one and so on.        *)
Indices == [i \in 1..num_entries |-> -(i - 1)]

(* ui_render_logs: the lines of a page from the bottom up.                 *)
ui_render_logs(page, scroll_x) ==
  LET iter(i) == objectlog_iterator(Indices[i])
      OfPage(i) == /\ iter(i) # Failed
                   /\ PageOf(buffer[iter(i) + 1].data[1]) = page
      lines[i \in 0..num_entries] ==
        IF i = 0 THEN <<>>
        ELSE IF Len(lines[i - 1]) < MaxLines /\ OfPage(i)
             THEN Append(lines[i - 1],
                         DrawLine(ui_objectlog_get_message(iter(i), scroll_x)))
             ELSE lines[i - 1]
  IN lines[num_entries]

-----------------------------------------------------------------------------
(* The messages the readers are made for: the first fragment holds the     *)
(* whole header, and, if the page is scrolled, the text does not go on at  *)
(* position 0.                                                             *)
Readable(iter) == buffer[iter].len >= HdrLen
Scrollable(iter) == \A j \in 2..Len(Fragments(iter)) : Fragments(iter)[j] # 0

(* The text that is due on a line: the rest of message w from a column on. *)
Rest(w, scroll_x) == SubSeq(Whole(w[1], w[2]), HdrLen + scroll_x + 1, w[2])

(* The pieces are text from its beginning, one beside the other, as far as *)
(* the screen goes, unless the column has passed 255.                      *)
Joined(pieces) == FlattenSeq([j \in DOMAIN pieces |-> pieces[j].text])
SideBySide(pieces) ==
  \A j \in DOMAIN pieces :
    pieces[j].x = IF j = 1 THEN 0 ELSE pieces[j - 1].x + Len(pieces[j - 1].text)
Shows(pieces, text) ==
  LET n == Len(Joined(pieces))
  IN \/ n >= ByteSpace
     \/ /\ Joined(pieces) = SubSeq(text, 1, n)
        /\ n = Len(text) \/ n > Width
        /\ SideBySide(pieces)

(* A page shows its newest messages (ui_render_logs, on top of the         *)
(* negative indices and of fragments split anywhere): from the bottom line *)
(* up, after the oldest message of the log if that is one of its own, its  *)
(* last message, the last but one, and so on while there are lines, each   *)
(* with its text from the column it is scrolled to.                        *)
PageShowsNewest ==
  pc = "idle" /\ (\A i \in 1..num_entries : Readable(objectlog_iterator(i - 1)))
    => \A page \in 0..Pages - 1, scroll_x \in Scrolls :
         LET mine    == {i \in DOMAIN written : PageOf(written[i][1]) = page}
             line(i) == Cardinality({j \in mine : j = 1 \/ (i # 1 /\ j >= i)})
             lines   == ui_render_logs(page, scroll_x)
         IN /\ Len(lines) = Least(MaxLines, Cardinality(mine))
            /\ \A i \in mine :
                 (/\ line(i) <= MaxLines
                  /\ scroll_x = 0 \/ Scrollable(objectlog_iterator(i - 1)))
                   => Shows(lines[line(i)], Rest(written[i], scroll_x))

=============================================================================
