------------------------------ MODULE Keyboard ------------------------------
(* ui-keyboard.c and the page table of ui.c: keys choose a page, edit the  *)
(* input line of the page that has one, hand it over, or scroll the page.  *)
(* One action is one call of ui_handle_keyboard with the event it gets     *)
(* from pollevent.  Characters are their codes, zero is the NUL.           *)
EXTENDS Naturals, Sequences

CONSTANTS
  KeyboardKeys,      \* the keys that are pressed
  PageKey,           \* key of each page: [page -> key]
  InputPage,         \* the page whose input_enabled is set
  input_buffer_size, UI_DISPLAY_CHARS,
  ScrollSpace        \* 2^16: scroll_x is uint16_t

VARIABLES
  shift, alpha, current_page,
  input_buffer, input_offset, input_scroll_offset,
  scroll_x,          \* of each page
  submitted,         \* what input_submit_callback read in this step
  exited             \* ui_handle_keyboard returned -1

keyboard_line == <<input_buffer, input_offset, input_scroll_offset, submitted>>
keyboard_vars == <<shift, alpha, current_page, keyboard_line, scroll_x, exited>>

ASSUME KeyboardSizes ==
  /\ input_buffer_size \in Nat /\ input_buffer_size > 1
  /\ UI_DISPLAY_CHARS \in Nat /\ ScrollSpace \in Nat \ {0}
  /\ InputPage \in DOMAIN PageKey

-----------------------------------------------------------------------------
(* The codes of gint: the row of the key and its column.                   *)
KeyAt(row, column) == 16 * row + column

KEY_SHIFT == KeyAt(8, 1)
KEY_LEFT  == KeyAt(8, 5)
KEY_RIGHT == KeyAt(7, 6)
KEY_ALPHA == KeyAt(7, 1)
KEY_EXIT  == KeyAt(7, 4)
KEY_DEL   == KeyAt(4, 4)
KEY_EXE   == KeyAt(1, 5)

(* Runs of keys and the character of the first.                            *)
Keys(row, first, last, char) ==
  [from |-> KeyAt(row, first), to |-> KeyAt(row, last), char |-> char]

(* With ALPHA held, digits and + - * / ( ) , .                             *)
Digits == { Keys(4, 1, 3, 55), Keys(3, 1, 3, 52), Keys(2, 1, 3, 49),
            Keys(1, 1, 1, 48), Keys(1, 2, 2, 46), Keys(2, 4, 4, 43),
            Keys(2, 5, 5, 45), Keys(3, 4, 4, 42), Keys(3, 5, 5, 47),
            Keys(5, 3, 3, 40), Keys(5, 4, 4, 41), Keys(5, 5, 5, 44) }

(* Without it, letters, the space and the double quote.                    *)
Letters == { Keys(6, 1, 6, 65), Keys(5, 1, 6, 71), Keys(4, 1, 3, 77),
             Keys(3, 1, 5, 80), Keys(2, 1, 5, 85), Keys(1, 1, 1, 90),
             Keys(1, 2, 2, 32), Keys(1, 3, 3, 34) }

(* ui_keycode_character: the characters of a key, none or one.             *)
ui_keycode_character(key) ==
  LET of(runs) == { r.char + (key - r.from) : r \in {x \in runs : key \in x.from .. x.to} }
      lower(c) == IF ~shift /\ c \in 65..90 THEN c + 32 ELSE c
  IN IF alpha THEN of(Digits) ELSE { lower(c) : c \in of(Letters) }

(* The C string at a position of the input buffer.                         *)
Text(buffer, at) ==
  LET ends == {i \in at .. input_buffer_size - 1 : buffer[i] = 0}
      end  == IF ends = {} THEN input_buffer_size
              ELSE CHOOSE i \in ends : \A j \in ends : i <= j
  IN [k \in 1 .. end - at |-> buffer[at + k - 1]]

(* Where the last UI_DISPLAY_CHARS characters of a line begin.             *)
WindowEnd(offset) ==
  IF offset > UI_DISPLAY_CHARS THEN offset - UI_DISPLAY_CHARS ELSE 0

-----------------------------------------------------------------------------
Left == /\ input_scroll_offset' = IF input_scroll_offset > 0
                                  THEN input_scroll_offset - 1 ELSE 0
        /\ submitted' = <<>>
        /\ UNCHANGED <<input_buffer, input_offset>>

Right == /\ input_scroll_offset' =
              IF input_scroll_offset < WindowEnd(input_offset)
              THEN input_scroll_offset + 1 ELSE input_scroll_offset
         /\ submitted' = <<>>
         /\ UNCHANGED <<input_buffer, input_offset>>

(* Faulty: the room for the NUL is given away.                             *)
NotFull_noNul == input_offset <= input_buffer_size - 1

NotFull == input_offset <= input_buffer_size - 2

(* A character; the view goes to the end of a line longer than it.         *)
TypeChar(char) ==
  /\ NotFull
  /\ input_buffer' = [input_buffer EXCEPT ![input_offset] = char]
  /\ input_offset' = input_offset + 1
  /\ input_scroll_offset' = IF input_offset' > UI_DISPLAY_CHARS
                            THEN WindowEnd(input_offset')
                            ELSE input_scroll_offset
  /\ submitted' = <<>>

(* Faulty: the view stays.                                                 *)
ScrollAfterErase_stays(offset) == input_scroll_offset

ScrollAfterErase(offset) ==
  IF input_scroll_offset > 0 THEN WindowEnd(offset) ELSE 0

Erase == /\ input_offset > 0
         /\ input_buffer' = [input_buffer EXCEPT ![input_offset - 1] = 0]
         /\ input_offset' = input_offset - 1
         /\ input_scroll_offset' = ScrollAfterErase(input_offset')
         /\ submitted' = <<>>

(* The NUL before the callback, and the memset after it.                   *)
Cleared == [i \in DOMAIN input_buffer |->
              IF i <= input_offset THEN 0 ELSE input_buffer[i]]

Submit ==
  /\ input_offset > 0
  /\ submitted' = Text([input_buffer EXCEPT ![input_offset] = 0], 0)
  /\ input_buffer' = Cleared
  /\ input_offset' = 0 /\ input_scroll_offset' = 0

Untouched ==
  /\ submitted' = <<>>
  /\ UNCHANGED <<input_buffer, input_offset, input_scroll_offset>>

(* What a key does to the input line.                                      *)
Edit(key) ==
  \/ key = KEY_LEFT /\ Left
  \/ key = KEY_RIGHT /\ Right
  \/ \E char \in ui_keycode_character(key) : TypeChar(char)
  \/ key = KEY_DEL /\ Erase
  \/ key = KEY_EXE /\ Submit
  \/ /\ key \notin {KEY_LEFT, KEY_RIGHT}
     /\ ~(ui_keycode_character(key) # {} /\ NotFull)
     /\ ~(key \in {KEY_DEL, KEY_EXE} /\ input_offset > 0)
     /\ Untouched

(* What it does to the page, when there is no text in the line by then.    *)
ScrollPage(key) ==
  LET page == current_page'
  IN IF page = InputPage /\ input_offset' # 0 THEN UNCHANGED scroll_x
     ELSE scroll_x' =
       [scroll_x EXCEPT ![page] =
          CASE key = KEY_LEFT  -> IF @ > 0 THEN @ - 1 ELSE 0
            [] key = KEY_RIGHT -> (@ + 1) % ScrollSpace
            [] OTHER           -> @]

(* ui_handle_keyboard, by the type of the event.                           *)
KeyDown(key) ==
  /\ shift' = (shift \/ key = KEY_SHIFT)
  /\ alpha' = (alpha \/ key = KEY_ALPHA)
  /\ Untouched
  /\ UNCHANGED <<current_page, scroll_x, exited>>

KeyUp(key) ==
  /\ shift' = (shift /\ key # KEY_SHIFT)
  /\ alpha' = (alpha /\ key # KEY_ALPHA)
  /\ current_page' = IF \E page \in DOMAIN PageKey : PageKey[page] = key
                     THEN CHOOSE page \in DOMAIN PageKey : PageKey[page] = key
                     ELSE current_page
  /\ exited' = (key = KEY_EXIT)
  /\ \/ exited' /\ Untouched /\ UNCHANGED scroll_x
     \/ /\ ~exited'
        /\ \/ current_page' = InputPage /\ Edit(key)
           \/ current_page' # InputPage /\ Untouched
        /\ ScrollPage(key)

(* The page table: the first page is shown, nothing is scrolled or typed.  *)
PagesInit ==
  /\ current_page \in DOMAIN PageKey
  /\ \A page \in DOMAIN PageKey : current_page <= page
  /\ input_offset = 0 /\ input_scroll_offset = 0
  /\ scroll_x = [page \in DOMAIN PageKey |-> 0]

(* The input buffers are cleared.                                          *)
ui_init == input_buffer = [i \in 0 .. input_buffer_size - 1 |-> 0]

KeyboardInit == /\ shift = FALSE /\ alpha = FALSE
                /\ PagesInit /\ ui_init
                /\ submitted = <<>> /\ exited = FALSE

KeyboardNext == ~exited /\ \E key \in KeyboardKeys : KeyDown(key) \/ KeyUp(key)

KeyboardSpec == KeyboardInit /\ [][KeyboardNext]_keyboard_vars

-----------------------------------------------------------------------------
(* scrolled_input of ui_update: where the drawn part of the line begins.   *)
scrolled_input ==
  IF input_scroll_offset < WindowEnd(input_offset)
  THEN input_scroll_offset ELSE WindowEnd(input_offset)

(* The buffer always holds one C string, the line as it was edited: each   *)
(* key adds or takes its last character, and EXE hands over that line and  *)
(* nothing of an earlier one (ui_handle_keyboard).                         *)
Line == INSTANCE LineEditor WITH
          text <- Text(input_buffer, 0), handed <- submitted,
          Character <- 1..127, Capacity <- input_buffer_size - 1
IsLineEditor == Line!Spec

(* What is drawn follows the keys (ui_handle_keyboard with ui_update): a   *)
(* typed character is in view, LEFT shows one character before and RIGHT   *)
(* one character after, as long as there is one; so no press of an arrow   *)
(* is lost on an offset that is out of step with the text.                 *)
OnLine == current_page = InputPage /\ current_page' = InputPage /\ ~exited'
WindowFollows ==
  [][OnLine =>
       /\ input_offset' > input_offset =>
            scrolled_input' = WindowEnd(input_offset')
       /\ KeyUp(KEY_LEFT) /\ scrolled_input > 0 =>
            scrolled_input' = scrolled_input - 1
       /\ KeyUp(KEY_RIGHT) /\ scrolled_input < WindowEnd(input_offset) =>
            scrolled_input' = scrolled_input + 1]_keyboard_vars

=============================================================================
