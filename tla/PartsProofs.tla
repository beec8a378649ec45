----------------------------- MODULE PartsProofs -----------------------------
(* The components that MCParts runs one by one.  Of the user interface, the *)
(* loop comes to its timer in time, for every width of the counter and     *)
(* every interval; the keyboard handler implements the line editor, and    *)
(* what is drawn of the line follows the keys, for every buffer, set of    *)
(* keys, width of the display and table of pages.  Of uIP, RtoAboveRtt of  *)
(* the round-trip estimator, SentToLatest of ARP, NoTwoAlike and           *)
(* ReusesOnlyDead of the connections, ForwardedOnce of forwarding, each    *)
(* for every size of its table.  IpInput has IpInputProofs.                *)
EXTENDS Keyboard, MainLoop, RttEstimator, UipArp, UipConns, UipFw, Integers,
        FiniteSetTheorems, FunctionTheorems, WellFoundedInduction, TLAPS

-----------------------------------------------------------------------------
(* Keyboard.                                                               *)

Positions == 0 .. input_buffer_size - 1

(* A buffer with a text of n characters, NULs to its end.                  *)
Filled(buffer, n) ==
  /\ buffer \in [Positions -> 0 .. 127]
  /\ n \in Positions
  /\ \A i \in Positions : buffer[i] # 0 <=> i < n

LineInv == Filled(input_buffer, input_offset)

FirstChars(buffer, n) == [k \in 1 .. n |-> buffer[k - 1]]

LEMMA BufferSize == input_buffer_size \in Nat /\ input_buffer_size > 1
BY KeyboardSizes

(* The C string of such a buffer ends where the NULs begin.                *)
LEMMA TextOfFilled ==
  ASSUME NEW buffer, NEW n, Filled(buffer, n)
  PROVE  /\ Text(buffer, 0) = FirstChars(buffer, n)
         /\ Text(buffer, 0) \in Seq(1 .. 127)
         /\ Len(Text(buffer, 0)) = n
<1> DEFINE ends == {i \in 0 .. input_buffer_size - 1 : buffer[i] = 0}
           end  == IF ends = {} THEN input_buffer_size
                   ELSE CHOOSE i \in ends : \A j \in ends : i <= j
<1>1. n \in ends
  BY BufferSize DEF Filled, Positions
<1>2. \A j \in ends : n <= j
  BY BufferSize DEF Filled, Positions
<1>3. \A i \in ends : (\A j \in ends : i <= j) => i = n
  BY <1>1, <1>2, BufferSize DEF Filled, Positions
<1>4. end = n
  <2> HIDE DEF ends
  <2>1. QED
    BY <1>1, <1>2, <1>3
<1>5. Text(buffer, 0) = [k \in 1 .. end - 0 |-> buffer[0 + k - 1]]
  BY DEF Text
<1>6. Text(buffer, 0) = FirstChars(buffer, n)
  <2> HIDE DEF end
  <2>1. n \in Nat
    BY BufferSize DEF Filled, Positions
  <2>2. QED
    BY <1>4, <1>5, <2>1 DEF FirstChars
<1>7. \A k \in 1 .. n : buffer[k - 1] \in 1 .. 127
  BY BufferSize DEF Filled, Positions
<1>8. n \in Nat
  BY BufferSize DEF Filled, Positions
<1>9. FirstChars(buffer, n) \in Seq(1 .. 127) /\ Len(FirstChars(buffer, n)) = n
  BY <1>7, <1>8 DEF FirstChars
<1>10. QED
  BY <1>6, <1>9

(* Each key has one character at most, and it is never the NUL.            *)
LEMMA CharacterOfKey ==
  ASSUME NEW key, NEW char \in ui_keycode_character(key)
  PROVE  char \in 1 .. 127
<1>1. ASSUME NEW r \in Digits \cup Letters, key \in r.from .. r.to
      PROVE  r.char + (key - r.from) \in 32 .. 95
  BY <1>1 DEF Digits, Letters, Keys, KeyAt
<1>2. CASE alpha
  BY <1>1, <1>2 DEF ui_keycode_character
<1>3. CASE ~alpha
  <2>1. PICK r \in Letters :
          /\ key \in r.from .. r.to
          /\ LET c == r.char + (key - r.from)
             IN char = IF ~shift /\ c \in 65..90 THEN c + 32 ELSE c
    BY <1>3 DEF ui_keycode_character
  <2>2. r.char + (key - r.from) \in 32 .. 95
    BY <1>1, <2>1
  <2>3. QED
    BY <2>1, <2>2
<1>4. QED
  BY <1>2, <1>3

LEMMA PrefixOf ==
  ASSUME NEW s \in Seq(1 .. 127), NEW t \in Seq(1 .. 127), Len(t) <= Len(s),
         \A k \in 1 .. Len(t) : s[k] = t[k]
  PROVE  SubSeq(s, 1, Len(t)) = t
OBVIOUS

LEMMA TextAfter == Text(input_buffer, 0)' = Text(input_buffer', 0)
BY DEF Text

LEMMA UntouchedStep ==
  ASSUME LineInv, submitted' = <<>>, UNCHANGED <<input_buffer, input_offset>>
  PROVE  LineInv' /\ Line!Next
BY DEF LineInv, Filled, Line!Next, Line!Rest, Text

LEMMA TypeStep ==
  ASSUME LineInv, NEW char \in 1 .. 127, TypeChar(char)
  PROVE  LineInv' /\ Line!Next
<1>1. input_offset + 1 \in Positions
  BY BufferSize DEF LineInv, Filled, Positions, TypeChar, NotFull
<1>2. LineInv'
  BY <1>1, BufferSize DEF LineInv, Filled, Positions, TypeChar
<1>3. /\ Text(input_buffer, 0) = FirstChars(input_buffer, input_offset)
      /\ Text(input_buffer, 0) \in Seq(1 .. 127)
      /\ Len(Text(input_buffer, 0)) = input_offset
  BY TextOfFilled DEF LineInv
<1>4. /\ Text(input_buffer', 0) = FirstChars(input_buffer', input_offset')
      /\ Text(input_buffer', 0) \in Seq(1 .. 127)
      /\ Len(Text(input_buffer', 0)) = input_offset'
  BY <1>2, TextOfFilled DEF LineInv
<1>5. /\ input_offset \in Nat /\ input_offset' = input_offset + 1
      /\ input_offset <= input_buffer_size - 2
      /\ input_buffer'[input_offset] = char
      /\ \A i \in Positions : i # input_offset => input_buffer'[i] = input_buffer[i]
  BY BufferSize DEF LineInv, Filled, Positions, TypeChar, NotFull
<1>6. SubSeq(Text(input_buffer', 0), 1, input_offset) = Text(input_buffer, 0)
  <2>1. \A k \in 1 .. input_offset :
          Text(input_buffer', 0)[k] = Text(input_buffer, 0)[k]
    <3> TAKE k \in 1 .. input_offset
    <3>1. /\ k \in 1 .. input_offset' /\ k - 1 \in Positions
          /\ k - 1 # input_offset
      BY <1>5, BufferSize DEF Positions
    <3>2. input_buffer'[k - 1] = input_buffer[k - 1]
      BY <1>5, <3>1
    <3>3. /\ Text(input_buffer, 0)[k] = input_buffer[k - 1]
          /\ Text(input_buffer', 0)[k] = input_buffer'[k - 1]
      BY <1>3, <1>4, <3>1 DEF FirstChars
    <3>4. QED
      BY <3>2, <3>3
  <2>2. QED
    <3>1. /\ Len(Text(input_buffer, 0)) <= Len(Text(input_buffer', 0))
          /\ \A k \in 1 .. Len(Text(input_buffer, 0)) :
                Text(input_buffer', 0)[k] = Text(input_buffer, 0)[k]
      BY <1>3, <1>4, <1>5, <2>1
    <3>2. SubSeq(Text(input_buffer', 0), 1, Len(Text(input_buffer, 0)))
            = Text(input_buffer, 0)
      BY <1>3, <1>4, <3>1, PrefixOf
    <3>3. QED
      BY <1>3, <3>2
<1>7. Text(input_buffer', 0)[input_offset + 1] = char
  BY <1>4, <1>5 DEF FirstChars
<1>8. Line!Type
  <2>1. submitted' = <<>>
    BY DEF TypeChar
  <2>2. Len(Text(input_buffer, 0)) < input_buffer_size - 1
    BY <1>3, <1>5, BufferSize
  <2>3. Len(Text(input_buffer', 0)) = Len(Text(input_buffer, 0)) + 1
    BY <1>3, <1>4, <1>5
  <2>4. Text(input_buffer', 0)[Len(Text(input_buffer', 0))] \in 1 .. 127
    BY <1>4, <1>5, <1>7
  <2>5. SubSeq(Text(input_buffer', 0), 1, Len(Text(input_buffer, 0)))
          = Text(input_buffer, 0)
    BY <1>3, <1>6
  <2>6. QED
    BY <2>1, <2>2, <2>3, <2>4, <2>5, TextAfter DEF Line!Type
<1>9. QED
  BY <1>2, <1>8 DEF Line!Next

LEMMA EraseStep == LineInv /\ Erase => LineInv' /\ Line!Next
<1> SUFFICES ASSUME LineInv, Erase PROVE LineInv' /\ Line!Next
  OBVIOUS
<1>1. LineInv'
  BY BufferSize DEF LineInv, Filled, Positions, Erase
<1>2. /\ Text(input_buffer, 0) = FirstChars(input_buffer, input_offset)
      /\ Text(input_buffer, 0) \in Seq(1 .. 127)
      /\ Len(Text(input_buffer, 0)) = input_offset
  BY TextOfFilled DEF LineInv
<1>3. /\ Text(input_buffer', 0) = FirstChars(input_buffer', input_offset')
      /\ Text(input_buffer', 0) \in Seq(1 .. 127)
      /\ Len(Text(input_buffer', 0)) = input_offset'
  BY <1>1, TextOfFilled DEF LineInv
<1>4. /\ input_offset \in Nat /\ input_offset > 0
      /\ input_offset' = input_offset - 1 /\ input_offset' \in Nat
      /\ \A i \in 0 .. input_offset' - 1 : input_buffer'[i] = input_buffer[i]
  BY BufferSize DEF LineInv, Filled, Positions, Erase
<1>5. Text(input_buffer', 0) = SubSeq(Text(input_buffer, 0), 1, input_offset - 1)
  <2>1. \A k \in 1 .. input_offset' :
          Text(input_buffer, 0)[k] = Text(input_buffer', 0)[k]
    BY <1>2, <1>3, <1>4 DEF FirstChars
  <2>2. QED
    BY <1>2, <1>3, <1>4, <2>1, PrefixOf
<1>6. Line!Erase
  <2>1. submitted' = <<>> /\ Text(input_buffer, 0) # <<>>
    BY <1>2, <1>4 DEF Erase
  <2>2. QED
    BY <2>1, <1>2, <1>5, TextAfter DEF Line!Erase
<1>7. QED
  BY <1>1, <1>6 DEF Line!Next

LEMMA SubmitStep == LineInv /\ Submit => LineInv' /\ Line!Next
<1> SUFFICES ASSUME LineInv, Submit PROVE LineInv' /\ Line!Next
  OBVIOUS
<1>1. [input_buffer EXCEPT ![input_offset] = 0] = input_buffer
  BY BufferSize DEF LineInv, Filled, Positions
<1>2. LineInv'
  BY BufferSize DEF LineInv, Filled, Positions, Submit, Cleared
<1>3. /\ Text(input_buffer, 0) \in Seq(1 .. 127)
      /\ Len(Text(input_buffer, 0)) = input_offset
  BY TextOfFilled DEF LineInv
<1>4. /\ Text(input_buffer', 0) \in Seq(1 .. 127)
      /\ Len(Text(input_buffer', 0)) = 0
  BY <1>2, TextOfFilled DEF LineInv, Submit
<1>5. Text(input_buffer, 0) # <<>> /\ Text(input_buffer', 0) = <<>>
  <2>1. input_offset > 0
    BY DEF Submit
  <2>2. QED
    BY <1>3, <1>4, <2>1
<1>6. Line!Submit
  BY <1>1, <1>5, TextAfter DEF Line!Submit, Submit
<1>7. QED
  BY <1>2, <1>6 DEF Line!Next

LEMMA HandlerStep ==
  ASSUME LineInv, KeyboardNext
  PROVE  LineInv' /\ Line!Next
<1>1. PICK key \in KeyboardKeys : KeyDown(key) \/ KeyUp(key)
  BY DEF KeyboardNext
<1>2. CASE Untouched
  BY <1>2, UntouchedStep DEF Untouched
<1>3. CASE Edit(key)
  <2>1. CASE Left \/ Right
    BY <2>1, UntouchedStep DEF Left, Right
  <2>2. CASE \E char \in ui_keycode_character(key) : TypeChar(char)
    BY <2>2, TypeStep, CharacterOfKey
  <2>3. QED
    BY <1>2, <1>3, <2>1, <2>2, EraseStep, SubmitStep DEF Edit
<1>4. QED
  BY <1>1, <1>2, <1>3 DEF KeyDown, KeyUp

(* A page with an input line implements the line editor: whatever keys are *)
(* pressed and released, in which order and on which page, the buffer is a *)
(* C string, each key changes its end only, and EXE hands over that line   *)
(* (ui_handle_keyboard).                                                   *)
THEOREM KeyboardEditsLine == KeyboardSpec => IsLineEditor
<1>1. KeyboardInit => LineInv /\ Line!Init
  <2> SUFFICES ASSUME KeyboardInit PROVE LineInv /\ Line!Init
    OBVIOUS
  <2>1. LineInv
    BY BufferSize DEF KeyboardInit, PagesInit, ui_init, LineInv, Filled, Positions
  <2>2. Text(input_buffer, 0) \in Seq(1 .. 127) /\ Len(Text(input_buffer, 0)) = 0
    BY <2>1, TextOfFilled DEF LineInv, KeyboardInit, PagesInit
  <2>3. Text(input_buffer, 0) = <<>>
    BY <2>2
  <2>4. QED
    BY <2>1, <2>3 DEF Line!Init, KeyboardInit
<1>2. LineInv /\ [KeyboardNext]_keyboard_vars => LineInv' /\ [Line!Next]_(Line!vars)
  <2>1. CASE KeyboardNext
    BY <2>1, HandlerStep
  <2>2. CASE UNCHANGED keyboard_vars
    BY <2>2 DEF keyboard_vars, keyboard_line, LineInv, Filled, Line!vars, Text
  <2>3. QED
    BY <2>1, <2>2
<1>3. QED
  BY <1>1, <1>2, PTL DEF KeyboardSpec, IsLineEditor, Line!Spec

-----------------------------------------------------------------------------
(* The view of the line begins no later than its last full window.         *)
WindowInv == /\ input_offset \in Nat /\ input_scroll_offset \in Nat
             /\ input_scroll_offset <= WindowEnd(input_offset)

LEMMA WindowEndIs ==
  ASSUME NEW n \in Nat
  PROVE  /\ WindowEnd(n) \in Nat
         /\ WindowEnd(n) <= n /\ n <= WindowEnd(n) + UI_DISPLAY_CHARS
         /\ WindowEnd(n) # 0 => n = WindowEnd(n) + UI_DISPLAY_CHARS
BY KeyboardSizes DEF WindowEnd

(* Under it the drawn part begins where input_scroll_offset says.          *)
LEMMA DrawnAsScrolled ==
  ASSUME WindowInv
  PROVE  scrolled_input = input_scroll_offset
BY WindowEndIs DEF WindowInv, scrolled_input

LEMMA EditKeepsWindow ==
  ASSUME WindowInv, NEW key, Edit(key)
  PROVE  WindowInv' /\ (input_offset' > input_offset =>
                           input_scroll_offset' = WindowEnd(input_offset'))
<1>1. PICK n \in Nat, s \in Nat :
        n = input_offset /\ s = input_scroll_offset /\ s <= WindowEnd(n)
  BY DEF WindowInv
<1>2. CASE Left \/ Right \/ Untouched
  <2>1. input_offset' = n
    BY <1>1, <1>2 DEF Left, Right, Untouched
  <2>2. input_scroll_offset' \in Nat /\ input_scroll_offset' <= WindowEnd(n)
    <3>1. PICK e \in Nat : e = WindowEnd(n)
      BY WindowEndIs
    <3>2. CASE Left
      BY <1>1, <3>1, <3>2 DEF Left
    <3>3. CASE Right
      BY <1>1, <3>1, <3>3 DEF Right
    <3>4. CASE Untouched
      BY <1>1, <3>4 DEF Untouched
    <3>5. QED
      BY <1>2, <3>2, <3>3, <3>4
  <2>3. QED
    BY <1>1, <2>1, <2>2 DEF WindowInv, WindowEnd
<1>3. CASE \E char \in ui_keycode_character(key) : TypeChar(char)
  <2>1. /\ input_offset' = n + 1
        /\ input_scroll_offset' = IF n + 1 > UI_DISPLAY_CHARS THEN WindowEnd(n + 1) ELSE s
    BY <1>1, <1>3 DEF TypeChar, WindowEnd
  <2>2. input_scroll_offset' = WindowEnd(n + 1)
    BY <1>1, <2>1, KeyboardSizes DEF WindowEnd
  <2>3. QED
    BY <1>1, <2>1, <2>2, WindowEndIs DEF WindowInv, WindowEnd
<1>4. CASE Erase
  <2>1. /\ n > 0 /\ input_offset' = n - 1
        /\ input_scroll_offset' = IF s > 0 THEN WindowEnd(n - 1) ELSE 0
    BY <1>1, <1>4 DEF Erase, ScrollAfterErase, WindowEnd
  <2>2. QED
    BY <1>1, <2>1, WindowEndIs DEF WindowInv, WindowEnd
<1>5. CASE Submit
  <2>1. n > 0 /\ input_offset' = 0 /\ input_scroll_offset' = 0
    BY <1>1, <1>5 DEF Submit
  <2>2. QED
    BY <1>1, <2>1, WindowEndIs DEF WindowInv, WindowEnd
<1>6. QED
  BY <1>2, <1>3, <1>4, <1>5 DEF Edit

(* An arrow does nothing to the line but move the view.                    *)
LEMMA Arrows ==
  ASSUME WindowInv
  PROVE  /\ Edit(KEY_LEFT) => Left
         /\ Edit(KEY_RIGHT) => Right
<1>1. ASSUME NEW key \in {KEY_LEFT, KEY_RIGHT} PROVE ui_keycode_character(key) = {}
  <2>1. \A r \in Digits \cup Letters : key \notin r.from .. r.to
    BY DEF Digits, Letters, Keys, KeyAt, KEY_LEFT, KEY_RIGHT
  <2>2. QED
    BY <2>1 DEF ui_keycode_character
<1>2. KEY_LEFT # KEY_RIGHT /\ {KEY_LEFT, KEY_RIGHT} \cap {KEY_DEL, KEY_EXE} = {}
  BY DEF KeyAt, KEY_LEFT, KEY_RIGHT, KEY_DEL, KEY_EXE
<1>3. QED
  BY <1>1, <1>2 DEF Edit

LEMMA WindowStep ==
  ASSUME WindowInv, KeyboardNext
  PROVE  /\ WindowInv'
         /\ input_offset' > input_offset => input_scroll_offset' = WindowEnd(input_offset')
<1>1. PICK key \in KeyboardKeys : KeyDown(key) \/ KeyUp(key)
  BY DEF KeyboardNext
<1>2. CASE Untouched
  BY <1>2 DEF WindowInv, Untouched, WindowEnd
<1>3. CASE Edit(key)
  BY <1>3, EditKeepsWindow
<1>4. QED
  BY <1>1, <1>2, <1>3 DEF KeyDown, KeyUp

(* The view follows the keys: a typed character is in it, and each arrow   *)
(* moves it by one character as long as there is one to show; no press is  *)
(* spent on an offset beyond the text (ui_handle_keyboard, ui_update).     *)
THEOREM ViewFollowsKeys == KeyboardSpec => WindowFollows
<1> DEFINE Follows ==
      OnLine =>
        /\ input_offset' > input_offset =>
             scrolled_input' = WindowEnd(input_offset')
        /\ KeyUp(KEY_LEFT) /\ scrolled_input > 0 =>
             scrolled_input' = scrolled_input - 1
        /\ KeyUp(KEY_RIGHT) /\ scrolled_input < WindowEnd(input_offset) =>
             scrolled_input' = scrolled_input + 1
<1>1. KeyboardInit => WindowInv
  BY KeyboardSizes DEF KeyboardInit, PagesInit, WindowInv, WindowEnd
<1>2. WindowInv /\ [KeyboardNext]_keyboard_vars => WindowInv'
  <2>1. CASE UNCHANGED keyboard_vars
    BY <2>1 DEF keyboard_vars, keyboard_line, WindowInv, WindowEnd
  <2>2. QED
    BY <2>1, WindowStep
<1>3. ASSUME WindowInv, WindowInv', KeyboardNext PROVE Follows
  <2>1. scrolled_input = input_scroll_offset /\ scrolled_input' = input_scroll_offset'
    <3>1. WindowInv => scrolled_input = input_scroll_offset
      BY DrawnAsScrolled
    <3>2. WindowInv' => (scrolled_input = input_scroll_offset)'
      BY WindowEndIs DEF WindowInv, scrolled_input, WindowEnd
    <3>3. QED
      BY <1>3, <3>1, <3>2
  <2>2. ASSUME OnLine, KeyUp(KEY_LEFT), scrolled_input > 0
        PROVE  scrolled_input' = scrolled_input - 1
    <3>1. Left
      BY <1>3, <2>2, Arrows DEF KeyUp, OnLine
    <3>2. QED
      BY <2>1, <2>2, <3>1 DEF Left
  <2>3. ASSUME OnLine, KeyUp(KEY_RIGHT), scrolled_input < WindowEnd(input_offset)
        PROVE  scrolled_input' = scrolled_input + 1
    <3>1. Right
      BY <1>3, <2>3, Arrows DEF KeyUp, OnLine
    <3>2. QED
      BY <2>1, <2>3, <3>1 DEF Right
  <2>4. QED
    BY <1>3, <2>1, <2>2, <2>3, WindowStep
<1>4. QED
  <2>1. WindowInv /\ WindowInv' /\ [KeyboardNext]_keyboard_vars => [Follows]_keyboard_vars
    BY <1>3
  <2>2. QED
    BY <1>1, <1>2, <2>1, PTL DEF KeyboardSpec, WindowFollows

-----------------------------------------------------------------------------
(* MainLoop.                                                               *)

Times == 0 .. TickSpace - 1

(* The start is lag ticks back, on this turn of the counter or the last.   *)
OnTurn == timer_start + lag = ticks \/ timer_start + lag = ticks + TickSpace

LoopInv == /\ ticks \in Times /\ timer_start \in Times
           /\ lag \in 0 .. MaxLag
           /\ loop_pc \in {"poll", "keys", "blink", "quit", "closed"}
           /\ loop_pc \in {"poll", "keys", "blink"} => OnTurn

LEMMA Sizes ==
  /\ TickSpace \in Nat /\ Interval \in Nat /\ MaxLag \in Nat
  /\ TickSpace > 0 /\ Interval > 0
  /\ Interval < MaxLag /\ MaxLag < TickSpace
BY LoopSizes

(* A counter that wraps at most once.                                      *)
LEMMA Wrapped ==
  \A x \in 0 .. 2 * TickSpace - 1 :
    x % TickSpace = IF x < TickSpace THEN x ELSE x - TickSpace
<1> SUFFICES ASSUME NEW x \in 0 .. 2 * TickSpace - 1
             PROVE  x % TickSpace = IF x < TickSpace THEN x ELSE x - TickSpace
  OBVIOUS
<1>1. TickSpace \in Nat /\ TickSpace > 0
  BY Sizes
<1>2. CASE x < TickSpace
  BY <1>1, <1>2
<1>3. CASE x >= TickSpace
  <2>1. x = 1 * TickSpace + (x - TickSpace) /\ x - TickSpace \in 0 .. TickSpace - 1
    BY <1>1, <1>3
  <2>2. QED
    BY <1>1, <1>3, <2>1
<1>4. QED
  BY <1>1, <1>2, <1>3

(* The subtraction of clock_time_t counts the ticks across the wrap.       *)
LEMMA SinceCounts ==
  ASSUME ticks \in Times, timer_start \in Times, lag \in 0 .. MaxLag, OnTurn
  PROVE  Since(timer_start) = lag
<1>1. /\ TickSpace \in Nat /\ TickSpace > 0
      /\ lag \in Nat /\ lag < TickSpace
  BY Sizes
<1>2. CASE timer_start + lag = ticks
  <2>1. ticks - timer_start = lag
    BY <1>1, <1>2 DEF Times
  <2>2. QED
    BY <1>1, <2>1 DEF Since
<1>3. CASE timer_start + lag = ticks + TickSpace
  <2>1. ticks - timer_start = (-1) * TickSpace + lag
    BY <1>1, <1>3 DEF Times
  <2>2. QED
    BY <1>1, <2>1 DEF Since
<1>4. QED
  BY <1>2, <1>3 DEF OnTurn

LEMMA TickKeeps == LoopInv /\ Tick => LoopInv'
<1> SUFFICES ASSUME LoopInv, Tick PROVE LoopInv'
  OBVIOUS
<1>1. ticks' = IF ticks + 1 < TickSpace THEN ticks + 1 ELSE 0
  <2>1. ticks + 1 \in 0 .. 2 * TickSpace - 1 /\ ticks + 1 <= TickSpace
    BY Sizes DEF LoopInv, Times
  <2>2. (ticks + 1) % TickSpace = IF ticks + 1 < TickSpace THEN ticks + 1
                                  ELSE ticks + 1 - TickSpace
    <3> DEFINE x == ticks + 1
    <3>1. x \in 0 .. 2 * TickSpace - 1
      BY <2>1
    <3> HIDE DEF x
    <3>2. x % TickSpace = IF x < TickSpace THEN x ELSE x - TickSpace
      BY <3>1, Wrapped
    <3>3. QED
      BY <3>2, Sizes DEF x, LoopInv, Times
  <2>3. QED
    BY <2>1, <2>2, Sizes DEF Tick, LoopInv, Times
<1>2. ticks' \in Times
  BY <1>1, Sizes DEF LoopInv, Times
<1>3. CASE loop_pc = "quit"
  BY <1>2, <1>3 DEF Tick, LoopInv
<1>4. CASE loop_pc \in {"poll", "keys", "blink"}
  <2>1. lag' = lag + 1 /\ lag' \in 0 .. MaxLag
    BY <1>4, Sizes DEF Tick, LoopInv
  <2>2. timer_start' = timer_start /\ loop_pc' = loop_pc
    BY DEF Tick
  <2>3. OnTurn'
    BY <1>1, <1>4, <2>1, <2>2, Sizes DEF LoopInv, OnTurn, Times
  <2>4. QED
    BY <1>2, <2>1, <2>2, <2>3 DEF LoopInv
<1>5. QED
  BY <1>3, <1>4 DEF Tick, LoopInv

(* The timer is moved by the interval it has waited for, and no more.      *)
LEMMA IntervalKeeps ==
  ASSUME LoopInv, Periodic, ticks' = ticks,
         loop_pc \in {"poll", "quit"},
         loop_pc' = IF loop_pc = "poll" THEN "keys" ELSE "quit"
  PROVE  LoopInv'
<1>1. timer_start + Interval \in 0 .. 2 * TickSpace - 1
  BY Sizes DEF LoopInv, Times
<1>2. timer_start' = IF timer_start + Interval < TickSpace
                     THEN timer_start + Interval
                     ELSE timer_start + Interval - TickSpace
  <2> DEFINE x == timer_start + Interval
  <2>1. x \in 0 .. 2 * TickSpace - 1
    BY <1>1
  <2> HIDE DEF x
  <2>2. x % TickSpace = IF x < TickSpace THEN x ELSE x - TickSpace
    BY <2>1, Wrapped
  <2>3. QED
    BY <2>2, Sizes DEF x, Periodic, timer_reset, LoopInv, Times
<1>3. timer_start' \in Times
  BY <1>1, <1>2, Sizes DEF LoopInv, Times
<1>4. CASE loop_pc = "quit"
  BY <1>3, <1>4 DEF Periodic, LoopInv
<1>5. CASE loop_pc = "poll"
  <2>1. Since(timer_start) = lag
    BY <1>5, SinceCounts DEF LoopInv
  <2>2. lag >= Interval
    BY <2>1 DEF Periodic, timer_expired
  <2>3. lag' = lag - Interval /\ lag' \in 0 .. MaxLag
    BY <1>5, <2>2, Sizes DEF Periodic, LoopInv
  <2>4. OnTurn'
    BY <1>2, <1>5, <2>2, <2>3, Sizes DEF LoopInv, OnTurn, Times
  <2>5. QED
    BY <1>3, <1>5, <2>3, <2>4 DEF LoopInv
<1>6. QED
  BY <1>4, <1>5

LEMMA PassKeeps == LoopInv /\ (Pass \/ QuitPoll \/ Close) => LoopInv'
<1> SUFFICES ASSUME LoopInv, Pass \/ QuitPoll \/ Close PROVE LoopInv'
  OBVIOUS
<1>1. CASE BusyPoll
  BY <1>1 DEF BusyPoll, Packet, LoopInv, OnTurn
<1>2. CASE QuietPoll
  <2>1. CASE Periodic
    BY <1>2, <2>1, IntervalKeeps DEF QuietPoll
  <2>2. CASE NoneDue
    BY <1>2, <2>2 DEF QuietPoll, NoneDue, LoopInv, OnTurn
  <2>3. QED
    BY <1>2, <2>1, <2>2 DEF QuietPoll
<1>3. CASE NoExit
  BY <1>3 DEF NoExit, LoopInv, OnTurn
<1>4. CASE Exit
  BY <1>4 DEF Exit, LoopInv, OnTurn
<1>5. CASE Blink
  BY <1>5 DEF Blink, LoopInv, OnTurn
<1>6. CASE QuitPoll
  <2>1. CASE Periodic
    BY <1>6, <2>1, IntervalKeeps DEF QuitPoll
  <2>2. CASE Packet \/ NoneDue
    BY <1>6, <2>2 DEF QuitPoll, Packet, NoneDue, LoopInv, OnTurn
  <2>3. QED
    BY <1>6, <2>1, <2>2 DEF QuitPoll
<1>7. CASE Close
  BY <1>7 DEF Close, LoopInv, OnTurn
<1>8. QED
  BY <1>1, <1>2, <1>3, <1>4, <1>5, <1>6, <1>7 DEF Pass

(* The periodic calls keep to their interval, however the clock interrupt  *)
(* and the passes of the loop fall and wherever the counter wraps, for     *)
(* every width of clock_time_t the loop is never a whole turn behind       *)
(* (timer_expired, timer_reset, network_poll).                             *)
THEOREM PeriodicOnTime == LoopSpec => []TimerOnTime
<1>1. LoopInit => LoopInv
  BY Sizes DEF LoopInit, network_init, timer_set, LoopInv, OnTurn, Times
<1>2. LoopInv /\ [LoopNext]_loop_vars => LoopInv'
  <2>1. LoopInv /\ LoopNext => LoopInv'
    BY TickKeeps, PassKeeps DEF LoopNext
  <2>2. LoopInv /\ UNCHANGED loop_vars => LoopInv'
    BY DEF LoopInv, OnTurn, loop_vars
  <2>3. QED
    BY <2>1, <2>2
<1>3. LoopInv => TimerOnTime
  BY SinceCounts, Sizes DEF LoopInv, TimerOnTime
<1>4. QED
  BY <1>1, <1>2, <1>3, PTL DEF LoopSpec

-----------------------------------------------------------------------------
(* RttEstimator.                                                           *)

(* What an estimate starts from: the deviation never falls below 3, since  *)
(* a quarter of 3 is 0, and neither value reaches its sign bit.            *)
InRange == /\ sa \in 0 .. 8 * MaxRtt /\ sv \in 3 .. 127 /\ rto \in 0 .. 255
           /\ rto >= sa \div 8 + 3

(* A segment that was sent once, and is to be measured, was sent when the  *)
(* timer was set to rto; any other one that is measured is noted.          *)
RttInv ==
  /\ nrtx \in Nat /\ sends \in 0 .. 2
  /\ outstanding \in {"nothing", "syn", "data"}
  /\ outstanding = "nothing" => rtx_timer = rto
  /\ outstanding = "syn" /\ sends = 1 /\ nrtx = 0 => rtx_timer = rto
  /\ outstanding = "data" => sends >= 1 /\ (sends = 1 => rtx_timer = rto)
  /\ mismeasured \/ InRange

(* A small difference is not changed by its 8 bits.                        *)
LEMMA SignedChar ==
  ASSUME NEW x \in -127 .. 127
  PROVE  schar(x) = x
<1>1. CASE x >= 0
  BY <1>1 DEF schar, u8
<1>2. CASE x < 0
  BY <1>2 DEF schar, u8
<1>3. QED
  BY <1>1, <1>2

LEMMA Byte8 ==
  ASSUME NEW x \in 0 .. 255
  PROVE  u8(x) = x
BY DEF u8

(* One estimate keeps the ranges.                                          *)
LEMMA EstimateKeeps ==
  ASSUME MaxRtt <= 31, MaxRtt \in Nat, InRange, NEW timer \in 0 .. rto,
         rto - timer <= MaxRtt, Estimate(timer)
  PROVE  InRange'
<1> DEFINE m  == schar(rto - timer)
           m1 == schar(m - sa \div 8)
           m2 == schar(Deviation(m1) - sv \div 4)
           mean == sa \div 8
           quarter == sv \div 4
<1>1. /\ mean \in 0 .. 31 /\ mean <= MaxRtt
      /\ 8 * mean <= sa /\ sa <= 8 * mean + 7
  BY DEF InRange
<1>2. quarter \in 0 .. 31 /\ 4 * quarter <= sv /\ sv <= 4 * quarter + 3
  BY DEF InRange
<1>3. m = rto - timer /\ m \in 0 .. MaxRtt
  <2>1. rto - timer \in 0 .. MaxRtt /\ rto - timer \in -127 .. 127
    BY DEF InRange
  <2>2. QED
    BY <2>1, SignedChar
<1>4. m1 = m - mean /\ m1 \in -31 .. 31
  <2>1. m - mean \in -31 .. 31 /\ m - mean \in -127 .. 127
    BY <1>1, <1>3
  <2>2. QED
    BY <2>1, SignedChar
<1>5. Deviation(m1) \in 0 .. 31
  <2>1. CASE m1 < 0
    <3>1. -m1 \in 0 .. 31 /\ -m1 \in -127 .. 127
      BY <1>4, <2>1
    <3>2. schar(-m1) = -m1
      BY <3>1, SignedChar
    <3>3. QED
      BY <3>1, <3>2, <2>1 DEF Deviation
  <2>2. CASE ~(m1 < 0)
    BY <1>4, <2>2 DEF Deviation
  <2>3. QED
    BY <2>1, <2>2
<1>6. m2 = Deviation(m1) - quarter /\ m2 \in -31 .. 31
  <2>1. Deviation(m1) - quarter \in -31 .. 31
    BY <1>2, <1>5
  <2>2. Deviation(m1) - quarter \in -127 .. 127
    BY <2>1
  <2>3. QED
    BY <2>1, <2>2, SignedChar
<1>7. sa' = sa + m - mean /\ sa' \in 0 .. 8 * MaxRtt
  <2> HIDE DEF m, mean, m1
  <2>1. sa + m1 \in 0 .. 8 * MaxRtt
    BY <1>1, <1>3, <1>4 DEF InRange
  <2>2. sa + m1 \in 0 .. 255
    BY <2>1, MaxRtt \in Nat
  <2>3. sa' = u8(sa + m1)
    BY DEF Estimate, m1, m, mean
  <2>4. u8(sa + m1) = sa + m1
    BY <2>2, Byte8
  <2>5. QED
    BY <2>1, <2>3, <2>4, <1>1, <1>3, <1>4 DEF InRange
<1>8. sv' \in 3 .. 127
  <2> HIDE DEF m2, quarter
  <2>1. sv + m2 \in 3 .. 127
    BY <1>2, <1>5, <1>6 DEF InRange
  <2>2. sv' = u8(sv + m2)
    BY DEF Estimate, m2, m1, m, quarter
  <2>3. sv + m2 \in 0 .. 255
    BY <2>1
  <2>4. QED
    BY <2>1, <2>2, <2>3, Byte8
<1>9. rto' = sa' \div 8 + sv' /\ rto' \in 0 .. 255
  <2>1. sa' \div 8 \in 0 .. 31
    BY <1>7
  <2>2. sa' \div 8 + sv' \in 0 .. 255
    BY <2>1, <1>8
  <2>3. rto' = u8(sa' \div 8 + sv')
    BY DEF Estimate
  <2>4. QED
    BY <2>2, <2>3, Byte8
<1>10. QED
  BY <1>7, <1>8, <1>9 DEF InRange

(* An acknowledgement: what is measured is the way of a segment sent once, *)
(* or is noted.                                                            *)
LEMMA AcknowledgeKeeps ==
  ASSUME MaxRtt <= 31, MaxRtt \in Nat, RttInv, Acknowledge
  PROVE  RttInv'
<1>1. PICK timer \in 0 .. rtx_timer :
        /\ sends = 1 /\ Measures => rto - timer <= MaxRtt
        /\ IF Measures THEN Estimate(timer) ELSE UNCHANGED estimate
  BY DEF Acknowledge
<1>2. /\ mismeasured' = (mismeasured \/ (nrtx = 0 /\ sends > 1))
      /\ rtx_timer' = rto' /\ nrtx' = 0 /\ outstanding' = "nothing" /\ sends' = 0
      /\ outstanding # "nothing" /\ sends > 0
  BY DEF Acknowledge
<1>3. mismeasured' \/ InRange'
  <2>1. CASE mismeasured \/ (nrtx = 0 /\ sends > 1)
    BY <1>2, <2>1
  <2>2. CASE ~mismeasured /\ nrtx # 0
    <3>1. UNCHANGED estimate
      BY <1>1, <2>2 DEF Measures
    <3>2. InRange
      BY <2>2 DEF RttInv
    <3>3. QED
      BY <3>1, <3>2 DEF InRange, estimate
  <2>3. CASE ~mismeasured /\ nrtx = 0 /\ ~(sends > 1)
    <3>1. sends = 1 /\ rtx_timer = rto /\ InRange
      BY <1>2, <2>3 DEF RttInv
    <3>2. timer \in 0 .. rto /\ rto - timer <= MaxRtt /\ Estimate(timer)
      BY <1>1, <2>3, <3>1 DEF Measures
    <3>3. QED
      BY <3>1, <3>2, EstimateKeeps
  <2>4. QED
    BY <2>1, <2>2, <2>3
<1>4. QED
  BY <1>2, <1>3 DEF RttInv

(* On a line whose round trips stay below 16 seconds the retransmission    *)
(* timeout is always above the smoothed round trip, whatever is measured   *)
(* (uip_process), until the time of a retransmission is taken for a round  *)
(* trip because a call of the application has set nrtx back.  It has to be *)
(* so at first, too.                                                       *)
THEOREM TimeoutAboveRoundTrip ==
  ASSUME MaxRtt <= 31, UIP_RTO >= 3
  PROVE  RttSpec => []RtoAboveRtt
<1>1. MaxRtt \in Nat
  BY RttSizes
<1>2. RttInit => RttInv
  BY <1>1, RttSizes DEF RttInit, RttInv, InRange
<1>3. RttInv /\ [RttNext]_rtt_vars => RttInv'
  <2> SUFFICES ASSUME RttInv, [RttNext]_rtt_vars PROVE RttInv'
    OBVIOUS
  <2>1. CASE Transmit
    BY <2>1 DEF Transmit, estimate, RttInv, InRange
  <2>2. CASE Retransmit
    <3>1. /\ nrtx' = nrtx + 1 /\ sends' = Lower(sends + 1, 2)
          /\ outstanding # "nothing"
          /\ UNCHANGED <<sa, sv, rto, outstanding, mismeasured>>
      BY <2>2 DEF Retransmit, estimate
    <3>2. /\ nrtx' \in Nat /\ nrtx' # 0 /\ sends' \in 0 .. 2
          /\ sends >= 1 => sends' = 2
      BY <3>1 DEF RttInv, Lower
    <3>3. QED
      BY <3>1, <3>2 DEF RttInv, InRange
  <2>3. CASE NewData
    BY <2>3 DEF NewData, estimate, RttInv, InRange
  <2>4. CASE Acknowledge
    BY <1>1, <2>4, AcknowledgeKeeps
  <2>5. CASE UNCHANGED rtt_vars
    BY <2>5 DEF RttInv, InRange, rtt_vars, estimate
  <2>6. QED
    BY <2>1, <2>2, <2>3, <2>4, <2>5 DEF RttNext
<1>4. RttInv => RtoAboveRtt
  BY DEF RttInv, InRange, RtoAboveRtt
<1>5. QED
  BY <1>2, <1>3, <1>4, PTL DEF RttSpec

-----------------------------------------------------------------------------
(* UipArp.                                                                 *)

Entry == [ipaddr : Neighbors \cup {0}, ethaddr : EthAddr \cup {0},
          time : 0 .. AgeSpace - 1]

ArpTypes == /\ arp_table \in [ArpSlots -> Entry]
            /\ arptime \in 0 .. AgeSpace - 1
            /\ announced \in [Neighbors -> EthAddr \cup {0}]

OneEach == \A ip \in Neighbors \ HalfZero, i, j \in ArpSlots :
             arp_table[i].ipaddr = ip /\ arp_table[j].ipaddr = ip => i = j

(* An entry in use holds what its host announced last.                     *)
UpToDate == \A i \in ArpSlots : ArpUsed(i) /\ arp_table[i].ipaddr \notin HalfZero =>
              arp_table[i].ethaddr = announced[arp_table[i].ipaddr]

Answered == arp_output.kind = "packet" /\ arp_output.ip \notin HalfZero =>
              arp_output.to = announced[arp_output.ip]

ArpInv == ArpTypes /\ OneEach /\ UpToDate /\ Answered

LEMMA ArpConstants ==
  /\ AgeSpace \in Nat /\ AgeSpace > 1
  /\ 0 \notin Neighbors /\ ArpRouter \in Neighbors
BY ArpSizes

(* The entry of a host, found from the front, is the only one it has, if   *)
(* no half of its address is 0.                                            *)
LEMMA FirstIsIt ==
  ASSUME ArpTypes, OneEach, NEW ip \in Neighbors \ HalfZero, EntriesOf(ip) # {}
  PROVE  /\ FirstOf(EntriesOf(ip)) \in ArpSlots
         /\ arp_table[FirstOf(EntriesOf(ip))].ipaddr = ip
<1>1. PICK i \in ArpSlots : arp_table[i].ipaddr = ip
  BY DEF EntriesOf
<1>2. \A j \in EntriesOf(ip) : j = i
  BY <1>1 DEF EntriesOf, OneEach
<1>3. i \in EntriesOf(ip) /\ i <= i
  BY <1>1, ArpSizes DEF EntriesOf, ArpSlots
<1>4. FirstOf(EntriesOf(ip)) = i
  BY <1>2, <1>3 DEF FirstOf
<1>5. QED
  BY <1>1, <1>4

(* Where an address is learned it takes the place of the one before, or,   *)
(* where the host had none, of another host's.                             *)
LEMMA UpdateKeeps ==
  ASSUME ArpInv, NEW ip \in Neighbors, NEW eth \in EthAddr, uip_arp_update(ip, eth),
         UNCHANGED arptime
  PROVE  (ArpTypes /\ OneEach /\ UpToDate)'
<1> DEFINE e == EntryFor(ip)
           learned == [ipaddr |-> ip, ethaddr |-> eth, time |-> arptime]
<1>1. /\ arp_table' = [arp_table EXCEPT ![e] = learned]
      /\ announced' = [announced EXCEPT ![ip] = eth]
  BY DEF uip_arp_update
<1>2. ip \notin HalfZero => \A i \in ArpSlots : arp_table[i].ipaddr = ip => e = i
  <2> SUFFICES ASSUME ip \notin HalfZero, NEW i \in ArpSlots, arp_table[i].ipaddr = ip
               PROVE  e = i
    OBVIOUS
  <2>1. EntriesOf(ip) # {}
    BY DEF EntriesOf
  <2>2. e = FirstOf(EntriesOf(ip))
    BY <2>1 DEF EntryFor, KnownTo
  <2>3. QED
    BY <2>1, <2>2, FirstIsIt DEF ArpInv, OneEach
<1> HIDE DEF e
<1>3. learned \in Entry
  BY DEF ArpInv, ArpTypes, Entry
<1>4. /\ arp_table' \in [ArpSlots -> Entry]
      /\ \A i \in ArpSlots : arp_table'[i] = IF i = e THEN learned ELSE arp_table[i]
  BY <1>1, <1>3 DEF ArpInv, ArpTypes
<1>5. /\ announced' \in [Neighbors -> EthAddr \cup {0}]
      /\ \A host \in Neighbors :
            announced'[host] = IF host = ip THEN eth ELSE announced[host]
  BY <1>1 DEF ArpInv, ArpTypes
<1>6. ArpTypes'
  BY <1>4, <1>5 DEF ArpInv, ArpTypes, ArpSlots, Entry
<1>7. OneEach'
  BY <1>2, <1>4 DEF ArpInv, OneEach, ArpSlots
<1>8. UpToDate'
  <2> SUFFICES ASSUME NEW i \in ArpSlots, arp_table'[i].ipaddr # 0,
                      arp_table'[i].ipaddr \notin HalfZero
               PROVE  arp_table'[i].ethaddr = announced'[arp_table'[i].ipaddr]
    BY DEF UpToDate, ArpUsed, ArpSlots
  <2>1. CASE i = e
    BY <2>1, <1>4, <1>5
  <2>2. CASE i # e
    <3>1. arp_table'[i] = arp_table[i]
      BY <2>2, <1>4
    <3>2. arp_table[i].ipaddr # ip
      BY <3>1, <2>2, <1>2
    <3>3. arp_table[i].ipaddr \in Neighbors
      BY <3>1 DEF ArpInv, ArpTypes, Entry
    <3>4. arp_table[i].ethaddr = announced[arp_table[i].ipaddr]
      BY <3>1 DEF ArpInv, UpToDate, ArpUsed
    <3>5. QED
      BY <3>1, <3>2, <3>3, <3>4, <1>5
  <2>3. QED
    BY <2>1, <2>2
<1>9. QED
  BY <1>6, <1>7, <1>8

LEMMA TimerKeeps == ArpInv /\ uip_arp_timer => ArpInv'
<1> SUFFICES ASSUME ArpInv, uip_arp_timer PROVE ArpInv'
  OBVIOUS
<1>1. arptime' \in 0 .. AgeSpace - 1
  BY ArpConstants DEF uip_arp_timer, ArpInv, ArpTypes
<1>2. \A i \in ArpSlots :
        \/ arp_table'[i] = arp_table[i]
        \/ arp_table'[i] = [arp_table[i] EXCEPT !.ipaddr = 0]
  BY DEF uip_arp_timer
<1>3. ASSUME NEW i \in ArpSlots
      PROVE  /\ arp_table'[i] \in Entry
             /\ arp_table'[i].ipaddr \in {0, arp_table[i].ipaddr}
             /\ arp_table'[i].ethaddr = arp_table[i].ethaddr
  <2>1. PICK r : r = arp_table[i] /\ r \in Entry
    BY DEF ArpInv, ArpTypes
  <2>2. CASE arp_table'[i] = r
    BY <2>1, <2>2
  <2>3. CASE arp_table'[i] = [r EXCEPT !.ipaddr = 0]
    BY <2>1, <2>3 DEF Entry
  <2>4. QED
    BY <1>2, <2>1, <2>2, <2>3
<1>4. arp_table' \in [ArpSlots -> Entry]
  <2>1. arp_table' = [i \in ArpSlots |-> arp_table'[i]]
    BY DEF uip_arp_timer
  <2>2. QED
    BY <2>1, <1>3
<1>5. announced' = announced /\ arp_output' = [kind |-> "none"]
  BY DEF uip_arp_timer, Nothing
<1>6. ArpTypes'
  BY <1>1, <1>4, <1>5 DEF ArpInv, ArpTypes, ArpSlots, Entry
<1>7. OneEach'
  BY <1>3, ArpConstants DEF ArpInv, OneEach, ArpSlots
<1>8. UpToDate'
  BY <1>3, <1>5 DEF ArpInv, UpToDate, ArpUsed, ArpSlots
<1>9. Answered'
  BY <1>5 DEF Answered
<1>10. QED
  BY <1>6, <1>7, <1>8, <1>9 DEF ArpInv

LEMMA OutKeeps ==
  ASSUME ArpInv, NEW dest, uip_arp_out(dest)
  PROVE  ArpInv'
<1>1. UNCHANGED <<arp_table, arptime, announced>>
  BY DEF uip_arp_out
<1>2. (ArpTypes /\ OneEach /\ UpToDate)'
  BY <1>1 DEF ArpInv, ArpTypes, OneEach, UpToDate, ArpUsed, ArpSlots, Entry
<1>3. Answered'
  <2> DEFINE hop == NextHop(dest)
             found == FirstOf(EntriesOf(hop))
  <2>1. hop \in Neighbors
    BY ArpConstants DEF NextHop
  <2>2. CASE dest # ArpBroadcast /\ EntriesOf(hop) # {} /\ hop \notin HalfZero
    <3>1. found \in ArpSlots /\ arp_table[found].ipaddr = hop
      BY <2>1, <2>2, FirstIsIt DEF ArpInv
    <3>2. arp_table[found].ethaddr = announced[hop]
      BY <2>1, <2>2, <3>1, ArpConstants DEF ArpInv, UpToDate, ArpUsed
    <3>3. arp_output' = [kind |-> "packet", ip |-> hop,
                         to |-> arp_table[found].ethaddr]
      BY <2>2 DEF uip_arp_out
    <3>4. QED
      BY <3>2, <3>3, <1>1 DEF Answered
  <2>3. CASE dest = ArpBroadcast \/ EntriesOf(hop) = {} \/ hop \in HalfZero
    BY <2>3 DEF uip_arp_out, Answered
  <2>4. QED
    BY <2>2, <2>3
<1>4. QED
  BY <1>2, <1>3 DEF ArpInv

(* Whatever is announced, aged out, thrown away or sent, in which order, a *)
(* packet goes to the address its next hop announced last (uip_arp_out),   *)
(* except a host whose address has a half that is 0.                       *)
THEOREM PacketsReachLatest == ArpSpec => []SentToLatest
<1>1. ArpInit => ArpInv
  BY ArpConstants DEF ArpInit, ArpInv, ArpTypes, OneEach, UpToDate, Answered,
     ArpUsed, Entry, Nothing
<1>2. ArpInv /\ [ArpNext]_arp_vars => ArpInv'
  <2> SUFFICES ASSUME ArpInv, [ArpNext]_arp_vars PROVE ArpInv'
    OBVIOUS
  <2>1. CASE uip_arp_timer
    BY <2>1, TimerKeeps
  <2>2. CASE Ignored \/ UNCHANGED arp_vars
    <3>1. UNCHANGED <<arp_table, arptime, announced>>
      BY <2>2 DEF Ignored, arp_vars
    <3>2. (ArpTypes /\ OneEach /\ UpToDate)'
      BY <3>1 DEF ArpInv, ArpTypes, OneEach, UpToDate, ArpUsed, ArpSlots, Entry
    <3>3. arp_output'.kind = "none" \/ UNCHANGED arp_output
      BY <2>2 DEF Ignored, Nothing, arp_vars
    <3>4. QED
      BY <3>1, <3>2, <3>3 DEF ArpInv, Answered
  <2>3. ASSUME NEW ip \in Neighbors, NEW eth \in EthAddr,
               Request(ip, eth) \/ Reply(ip, eth)
        PROVE  ArpInv'
    <3>1. (ArpTypes /\ OneEach /\ UpToDate)'
      BY <2>3, UpdateKeeps DEF Request, Reply
    <3>2. Answered'
      BY <2>3 DEF Request, Reply, Nothing, Answered
    <3>3. QED
      BY <3>1, <3>2 DEF ArpInv
  <2>4. ASSUME NEW dest, uip_arp_out(dest) PROVE ArpInv'
    BY <2>4, OutKeeps
  <2>5. QED
    BY <2>1, <2>2, <2>3, <2>4 DEF ArpNext
<1>3. ArpInv => SentToLatest
  BY DEF ArpInv, OneEach, Answered, SentToLatest
<1>4. QED
  BY <1>1, <1>2, <1>3, PTL DEF ArpSpec

-----------------------------------------------------------------------------
(* A set of numbers that is not empty has a least one.                     *)
LEMMA LeastOf ==
  ASSUME NEW T \in SUBSET Nat, T # {}
  PROVE  \E m \in T : \A k \in T : m <= k
<1> DEFINE R == {p \in Nat \X Nat : p[1] < p[2]}
<1>1. IsWellFoundedOn(R, Nat)
  <2>1. OpToRel(<, Nat) = R
    BY DEF OpToRel
  <2>2. QED
    BY <2>1, NatLessThanWellFounded
<1>2. \E x \in T : \A y \in T : ~ (<<y, x>> \in R)
  <2> HIDE DEF R
  <2>1. QED
    BY <1>1, WFMin
<1>3. PICK x \in T : \A y \in T : ~ (<<y, x>> \in R)
  BY <1>2
<1>4. ASSUME NEW y \in T PROVE x <= y
  <2>1. x \in Nat /\ y \in Nat
    OBVIOUS
  <2>2. y < x => <<y, x>> \in R
    BY <2>1
  <2> HIDE DEF R
  <2>3. QED
    BY <1>3, <2>1, <2>2
<1>5. QED
  BY <1>4

-----------------------------------------------------------------------------
(* UipConns.                                                               *)

States == {"CLOSED", "SYN_SENT", "SYN_RCVD", "ESTABLISHED", "FIN_WAIT_2", "TIME_WAIT"}
ConnEntry == [tcpstateflags : States, lport : Nat,
          rport : {0} \cup {p.rport : p \in Peers},
          ripaddr : {0} \cup {p.ripaddr : p \in Peers},
          timer : 0 .. TimerSpace - 1]

ConnTypes == /\ uip_conns \in [Slots -> ConnEntry]
             /\ uip_listenports \in [Listens -> Nat]
             /\ lastport \in 1 .. PortLimit - 1

(* Of two entries in use, the ports or the addresses differ.               *)
Differ == \A c, d \in Used :
            c # d => \/ uip_conns[c].lport # uip_conns[d].lport
                     \/ uip_conns[c].rport # uip_conns[d].rport
                     \/ uip_conns[c].ripaddr # uip_conns[d].ripaddr

ConnInv == ConnTypes /\ Differ

LEMMA ConnConstants ==
  /\ UIP_CONNS \in Nat \ {0} /\ UIP_LISTENPORTS \in Nat \ {0}
  /\ FirstPort \in Nat \ {0} /\ PortLimit \in Nat
  /\ PortLimit - FirstPort > UIP_CONNS
  /\ TimerSpace \in Nat /\ TimerSpace > 3
  /\ ListenPorts \subseteq Nat \ {0}
BY ConnSizes, PortsSuffice

(* The ports tried are different ports.                                    *)
LEMMA PortsDiffer ==
  ASSUME lastport \in 1 .. PortLimit - 1,
         NEW m \in 1 .. UIP_CONNS + 1, NEW n \in 1 .. UIP_CONNS + 1
  PROVE  /\ PortAfter(n) \in 1 .. PortLimit - 1
         /\ PortAfter(m) = PortAfter(n) => m = n
BY ConnConstants DEF PortAfter

(* More of them than there are entries: one is not in use.                 *)
LEMMA PortLeft ==
  ASSUME ConnTypes
  PROVE  \E n \in 1 .. UIP_CONNS + 1 : ~PortInUse(PortAfter(n))
<1> DEFINE Tries == 1 .. UIP_CONNS + 1
           f == [n \in Tries |-> CHOOSE c \in Used : uip_conns[c].lport = PortAfter(n)]
<1>1. SUFFICES ASSUME \A n \in Tries : PortInUse(PortAfter(n))
               PROVE  FALSE
  OBVIOUS
<1>2. \A n \in Tries : f[n] \in Slots /\ uip_conns[f[n]].lport = PortAfter(n)
  <2> SUFFICES ASSUME NEW n \in Tries
               PROVE  f[n] \in Slots /\ uip_conns[f[n]].lport = PortAfter(n)
    OBVIOUS
  <2>1. \E c \in Used : uip_conns[c].lport = PortAfter(n)
    BY <1>1 DEF PortInUse
  <2>2. f[n] \in Used /\ uip_conns[f[n]].lport = PortAfter(n)
    BY <2>1
  <2>3. QED
    BY <2>2 DEF Used
<1>3. IsFiniteSet(Tries) /\ Cardinality(Tries) = UIP_CONNS + 1
  BY FS_Interval, ConnConstants
<1>4. IsFiniteSet(Slots) /\ Cardinality(Slots) = UIP_CONNS
  BY FS_Interval, ConnConstants DEF Slots
<1>5. f \in [Tries -> Slots]
  BY <1>2
<1> HIDE DEF f
<1>6. \E x, y \in Tries : x # y /\ f[x] = f[y]
  <2>1. Cardinality(Slots) < Cardinality(Tries)
    BY <1>3, <1>4, ConnConstants
  <2> HIDE DEF Tries
  <2>2. QED
    BY <1>3, <1>4, <1>5, <2>1, FS_PigeonHole
<1>7. QED
  BY <1>2, <1>6, PortsDiffer DEF ConnTypes

(* The search of uip_connect ends, at a port that is not in use.           *)
LEMMA NewPortIsFree ==
  ASSUME ConnTypes
  PROVE  NewPort \in 1 .. PortLimit - 1 /\ ~PortInUse(NewPort)
<1> DEFINE Free == {n \in 1 .. UIP_CONNS + 1 : ~PortInUse(PortAfter(n))}
           First(n) == /\ ~PortInUse(PortAfter(n))
                       /\ \A m \in 1 .. n - 1 : PortInUse(PortAfter(m))
<1>1. PICK n \in Free : \A m \in Free : n <= m
  <2>1. Free \in SUBSET Nat /\ Free # {}
    BY PortLeft
  <2> HIDE DEF Free
  <2>2. QED
    BY <2>1, LeastOf
<1>2. n \in 1 .. UIP_CONNS + 1 /\ ~PortInUse(PortAfter(n))
  OBVIOUS
<1>3. ASSUME NEW m \in 1 .. n - 1 PROVE PortInUse(PortAfter(m))
  <2>1. m \in 1 .. UIP_CONNS + 1 /\ m < n
    BY <1>2, ConnConstants
  <2>2. m \notin Free
    BY <1>1, <1>2, <2>1
  <2>3. QED
    BY <2>1, <2>2
<1>4. \E k \in 1 .. UIP_CONNS + 1 : First(k)
  BY <1>2, <1>3
<1>5. PICK k \in 1 .. UIP_CONNS + 1 : NewPort = PortAfter(k) /\ First(k)
  BY <1>4 DEF NewPort
<1>6. QED
  BY <1>5, PortsDiffer DEF ConnTypes

(* Induction over numbers.                                                 *)
LEMMA CountsUp ==
  ASSUME NEW T \in SUBSET Nat, 0 \in T, \A n \in T : n + 1 \in T, NEW n \in Nat
  PROVE  n \in T
<1>1. SUFFICES ASSUME Nat \ T # {} PROVE FALSE
  OBVIOUS
<1>2. PICK m \in Nat \ T : \A k \in Nat \ T : m <= k
  BY <1>1, LeastOf
<1>3. m # 0 /\ m - 1 \in Nat /\ (m - 1) + 1 = m
  BY <1>2
<1>4. m - 1 \notin Nat \ T
  BY <1>2, <1>3
<1>5. QED
  BY <1>2, <1>3, <1>4

(* The scan as a loop over numbers: it can be run, ...                     *)
Scans(f, n) == /\ f \in [0 .. n -> Nat] /\ f[0] = UIP_CONNS
               /\ \A k \in 1 .. n : f[k] = Look(k - 1, f[k - 1])

LEMMA ScanRuns ==
  ASSUME NEW n \in Nat PROVE \E f : Scans(f, n)
<1> DEFINE T == {m \in Nat : \E f : Scans(f, m)}
<1>1. 0 \in T
  <2> DEFINE f == [k \in 0 .. 0 |-> UIP_CONNS]
  <2>1. f \in [0 .. 0 -> Nat] /\ f[0] = UIP_CONNS
    BY ConnConstants
  <2>2. 1 .. 0 = {}
    OBVIOUS
  <2> HIDE DEF f
  <2>3. Scans(f, 0)
    BY <2>1, <2>2 DEF Scans
  <2>4. QED
    BY <2>3
<1>2. ASSUME NEW m \in T PROVE m + 1 \in T
  <2>1. PICK f : Scans(f, m)
    OBVIOUS
  <2>2. /\ f \in [0 .. m -> Nat] /\ f[0] = UIP_CONNS
        /\ \A k \in 1 .. m : f[k] = Look(k - 1, f[k - 1])
    BY <2>1 DEF Scans
  <2>3. PICK last : last = Look(m, f[m])
    OBVIOUS
  <2>4. m \in Nat /\ m \in 0 .. m /\ 0 \in 0 .. m /\ f[m] \in Nat
    BY <2>2
  <2>5. last \in Nat
    BY <2>3, <2>4 DEF Look
  <2> DEFINE g == [k \in 0 .. m + 1 |-> IF k <= m THEN f[k] ELSE last]
  <2>6. g \in [0 .. m + 1 -> Nat]
    <3>1. ASSUME NEW k \in 0 .. m + 1 PROVE (IF k <= m THEN f[k] ELSE last) \in Nat
      BY <2>2, <2>4, <2>5
    <3>2. QED
      BY <3>1
  <2>7. (\A k \in 0 .. m : g[k] = f[k]) /\ g[m + 1] = last
    <3>1. \A k \in 0 .. m : k \in 0 .. m + 1 /\ k <= m
      BY <2>4
    <3>2. m + 1 \in 0 .. m + 1 /\ ~(m + 1 <= m)
      BY <2>4
    <3>3. QED
      BY <3>1, <3>2
  <2> HIDE DEF g
  <2>8. ASSUME NEW k \in 1 .. m + 1 PROVE g[k] = Look(k - 1, g[k - 1])
    <3>1. CASE k = m + 1
      <4>1. k - 1 = m
        BY <2>4, <3>1
      <4>2. g[k - 1] = f[m] /\ g[k] = last
        BY <2>4, <2>7, <3>1, <4>1
      <4>3. QED
        BY <2>3, <4>1, <4>2
    <3>2. CASE k # m + 1
      <4>1. k \in 1 .. m /\ k \in 0 .. m /\ k - 1 \in 0 .. m
        BY <2>4, <3>2
      <4>2. g[k] = f[k] /\ g[k - 1] = f[k - 1]
        BY <2>7, <4>1
      <4>3. QED
        BY <2>2, <4>1, <4>2
    <3>3. QED
      BY <3>1, <3>2
  <2>9. g[0] = UIP_CONNS
    BY <2>2, <2>4, <2>7
  <2>10. Scans(g, m + 1)
    BY <2>6, <2>8, <2>9 DEF Scans
  <2>11. QED
    BY <2>4, <2>10
<1>3. T \in SUBSET Nat
  OBVIOUS
<1> HIDE DEF T
<1>4. n \in T
  BY <1>1, <1>2, <1>3, CountsUp
<1>5. QED
  BY <1>4 DEF T

(* ... so Scan is that loop.                                               *)
LEMMA ScanIsLoop == Scans(Scan, UIP_CONNS)
<1> DEFINE IsScan(f) == f = [n \in 0 .. UIP_CONNS |->
                              IF n = 0 THEN UIP_CONNS ELSE Look(n - 1, f[n - 1])]
<1>1. PICK f : Scans(f, UIP_CONNS)
  BY ScanRuns, ConnConstants
<1>2. /\ f \in [0 .. UIP_CONNS -> Nat] /\ f[0] = UIP_CONNS
      /\ \A k \in 1 .. UIP_CONNS : f[k] = Look(k - 1, f[k - 1])
  BY <1>1 DEF Scans
<1>3. IsScan(f)
  <2>1. ASSUME NEW n \in 0 .. UIP_CONNS
        PROVE  f[n] = IF n = 0 THEN UIP_CONNS ELSE Look(n - 1, f[n - 1])
    <3>1. n # 0 => n \in 1 .. UIP_CONNS
      BY ConnConstants
    <3>2. QED
      BY <1>2, <3>1
  <2>2. f = [n \in 0 .. UIP_CONNS |-> f[n]]
    BY <1>2
  <2>3. QED
    BY <2>1, <2>2
<1>4. Scan = CHOOSE g : IsScan(g)
  BY DEF Scan
<1> HIDE DEF IsScan
<1>5. IsScan(Scan)
  BY <1>3, <1>4
<1>6. Scan = [n \in 0 .. UIP_CONNS |->
                IF n = 0 THEN UIP_CONNS ELSE Look(n - 1, Scan[n - 1])]
  BY <1>5 DEF IsScan
<1>7. \A n \in 0 .. UIP_CONNS :
        Scan[n] = IF n = 0 THEN UIP_CONNS ELSE Look(n - 1, Scan[n - 1])
  BY <1>6
<1> DEFINE T == {n \in Nat : n <= UIP_CONNS => Scan[n] \in Nat}
<1>8. 0 \in T
  BY <1>7, ConnConstants
<1>9. ASSUME NEW n \in T PROVE n + 1 \in T
  <2>1. SUFFICES ASSUME n + 1 <= UIP_CONNS PROVE Scan[n + 1] \in Nat
    OBVIOUS
  <2>2. n \in Nat /\ n <= UIP_CONNS /\ n + 1 \in 0 .. UIP_CONNS /\ n + 1 # 0
        /\ (n + 1) - 1 = n
    BY <2>1, ConnConstants
  <2>3. Scan[n + 1] = Look((n + 1) - 1, Scan[(n + 1) - 1])
    BY <1>7, <2>2
  <2>4. Scan[n + 1] = Look(n, Scan[n])
    BY <2>2, <2>3
  <2>5. Scan[n] \in Nat
    BY <2>2
  <2>6. QED
    BY <2>2, <2>4, <2>5 DEF Look
<1>10. T \in SUBSET Nat
  OBVIOUS
<1> HIDE DEF T
<1>11. \A n \in Nat : n \in T
  BY <1>8, <1>9, <1>10, CountsUp
<1>12. \A n \in 0 .. UIP_CONNS : Scan[n] \in Nat
  BY <1>11, ConnConstants DEF T
<1>13. Scan \in [0 .. UIP_CONNS -> Nat]
  BY <1>6, <1>12
<1>14. \A k \in 1 .. UIP_CONNS : k \in 0 .. UIP_CONNS /\ k # 0
  BY ConnConstants
<1>15. 0 \in 0 .. UIP_CONNS
  BY ConnConstants
<1>16. QED
  BY <1>7, <1>13, <1>14, <1>15 DEF Scans

(* What the candidate found is after the first n entries have been looked  *)
(* at: one that is CLOSED, the loop being left; or there was no such entry *)
(* and it is the one of them in TIME_WAIT that has waited longest; or      *)
(* there was no such entry either.                                         *)
Found(n, found) ==
  \/ found \in 0 .. n - 1 /\ IsClosed(found)
  \/ /\ \A d \in 0 .. n - 1 : ~IsClosed(d)
     /\ \/ /\ found = UIP_CONNS
           /\ \A d \in 0 .. n - 1 : uip_conns[d].tcpstateflags # "TIME_WAIT"
        \/ /\ found \in 0 .. n - 1 /\ uip_conns[found].tcpstateflags = "TIME_WAIT"
           /\ \A d \in 0 .. n - 1 : uip_conns[d].tcpstateflags = "TIME_WAIT"
                                      => uip_conns[d].timer <= uip_conns[found].timer

(* One turn of the loop.                                                   *)
LEMMA LookFinds ==
  ASSUME ConnTypes, NEW n \in Slots, NEW found, Found(n, found)
  PROVE  Found(n + 1, Look(n, found))
<1>1. /\ n \in Nat /\ n < UIP_CONNS /\ UIP_CONNS \in Nat
      /\ \A d \in 0 .. n : d \in Slots
  BY ConnConstants DEF Slots
<1>2. 0 .. (n + 1) - 1 = (0 .. n - 1) \cup {n} /\ n \notin 0 .. n - 1
  BY <1>1
<1>3. \A d \in Slots : uip_conns[d].timer \in Int
  BY ConnConstants DEF ConnTypes, ConnEntry
<1>4. \A d \in 0 .. n - 1 : d # UIP_CONNS /\ d \in Slots
  BY <1>1
<1>5. CASE found \in 0 .. n - 1 /\ IsClosed(found)
  BY <1>2, <1>4, <1>5 DEF Look, LeftLoop, Found
<1>6. CASE ~(found \in 0 .. n - 1 /\ IsClosed(found))
  <2>1. \A d \in 0 .. n - 1 : ~IsClosed(d)
    BY <1>6 DEF Found
  <2>2. ~LeftLoop(found)
    BY <1>6, <2>1 DEF Found, LeftLoop
  <2>3. CASE IsClosed(n)
    <3>1. Look(n, found) = n
      BY <2>2, <2>3 DEF Look
    <3>2. QED
      BY <1>2, <2>3, <3>1 DEF Found
  <2>4. CASE ~IsClosed(n)
    <3>1. \A d \in 0 .. (n + 1) - 1 : ~IsClosed(d)
      BY <1>2, <2>1, <2>4
    <3>2. CASE found = UIP_CONNS /\ uip_conns[n].tcpstateflags = "TIME_WAIT"
      <4>1. Look(n, found) = n
        BY <2>2, <3>2 DEF Look, Replaces
      <4>2. \A d \in 0 .. n - 1 : uip_conns[d].tcpstateflags # "TIME_WAIT"
        BY <1>4, <1>6, <3>2 DEF Found
      <4>3. uip_conns[n].timer <= uip_conns[n].timer
        BY <1>1, <1>3
      <4>4. QED
        BY <1>2, <3>1, <3>2, <4>1, <4>2, <4>3 DEF Found
    <3>3. CASE found = UIP_CONNS /\ uip_conns[n].tcpstateflags # "TIME_WAIT"
      <4>1. Look(n, found) = UIP_CONNS
        BY <2>4, <3>3 DEF Look
      <4>2. \A d \in 0 .. n - 1 : uip_conns[d].tcpstateflags # "TIME_WAIT"
        BY <1>4, <1>6, <3>3 DEF Found
      <4>3. QED
        BY <1>2, <3>1, <3>3, <4>1, <4>2 DEF Found
    <3>4. CASE found # UIP_CONNS
      <4>1. /\ found \in 0 .. n - 1 /\ uip_conns[found].tcpstateflags = "TIME_WAIT"
            /\ \A d \in 0 .. n - 1 : uip_conns[d].tcpstateflags = "TIME_WAIT"
                                       => uip_conns[d].timer <= uip_conns[found].timer
        BY <1>6, <3>4 DEF Found
      <4>2. /\ uip_conns[found].timer \in Int /\ uip_conns[n].timer \in Int
            /\ \A d \in 0 .. n - 1 : uip_conns[d].timer \in Int
        BY <1>1, <1>3, <1>4, <4>1
      <4>3. CASE /\ uip_conns[n].tcpstateflags = "TIME_WAIT"
                 /\ uip_conns[n].timer > uip_conns[found].timer
        <5>1. Look(n, found) = n
          BY <2>2, <4>3 DEF Look, Replaces
        <5>2. \A d \in 0 .. n - 1 : uip_conns[d].tcpstateflags = "TIME_WAIT"
                                      => uip_conns[d].timer <= uip_conns[n].timer
          BY <4>1, <4>2, <4>3
        <5>3. uip_conns[n].timer <= uip_conns[n].timer
          BY <4>2
        <5>4. QED
          BY <1>2, <3>1, <4>3, <5>1, <5>2, <5>3 DEF Found
      <4>4. CASE ~(/\ uip_conns[n].tcpstateflags = "TIME_WAIT"
                   /\ uip_conns[n].timer > uip_conns[found].timer)
        <5>1. Look(n, found) = found
          BY <2>4, <3>4, <4>4 DEF Look, Replaces
        <5>2. uip_conns[n].tcpstateflags = "TIME_WAIT"
                => uip_conns[n].timer <= uip_conns[found].timer
          BY <4>2, <4>4
        <5>3. QED
          BY <1>2, <3>1, <4>1, <5>1, <5>2 DEF Found
      <4>5. QED
        BY <4>3, <4>4
    <3>5. QED
      BY <3>2, <3>3, <3>4
  <2>5. QED
    BY <2>3, <2>4
<1>7. QED
  BY <1>5, <1>6

(* The scan finds an entry that is CLOSED, or, where none is, one in       *)
(* TIME_WAIT that none has waited longer than; or there is neither.        *)
LEMMA FreeConnIsDead ==
  ASSUME ConnTypes, FreeConn # UIP_CONNS
  PROVE  /\ FreeConn \in Slots
         /\ \/ FreeConn \notin Used
            \/ /\ Used = Slots
               /\ uip_conns[FreeConn].tcpstateflags = "TIME_WAIT"
               /\ \A d \in Slots : uip_conns[d].tcpstateflags = "TIME_WAIT"
                                     => uip_conns[d].timer <= uip_conns[FreeConn].timer
<1> DEFINE T == {n \in Nat : n <= UIP_CONNS => Found(n, Scan[n])}
<1>1. /\ Scan[0] = UIP_CONNS
      /\ \A k \in 1 .. UIP_CONNS : Scan[k] = Look(k - 1, Scan[k - 1])
  BY ScanIsLoop DEF Scans
<1>2. 0 \in T
  <2>1. 0 .. 0 - 1 = {}
    OBVIOUS
  <2>2. Found(0, UIP_CONNS)
    BY <2>1 DEF Found
  <2>3. QED
    BY <1>1, <2>2
<1>3. ASSUME NEW n \in T PROVE n + 1 \in T
  <2>1. SUFFICES ASSUME n + 1 <= UIP_CONNS PROVE Found(n + 1, Scan[n + 1])
    OBVIOUS
  <2>2. n \in Slots /\ n + 1 \in 1 .. UIP_CONNS /\ (n + 1) - 1 = n /\ n <= UIP_CONNS
    BY <2>1, ConnConstants DEF Slots
  <2>3. Scan[n + 1] = Look((n + 1) - 1, Scan[(n + 1) - 1])
    BY <1>1, <2>2
  <2>4. Scan[n + 1] = Look(n, Scan[n])
    BY <2>2, <2>3
  <2>5. Found(n, Scan[n])
    BY <2>2
  <2>6. PICK found : found = Scan[n]
    OBVIOUS
  <2>7. Found(n + 1, Look(n, found))
    BY <2>2, <2>5, <2>6, LookFinds
  <2>8. QED
    BY <2>4, <2>6, <2>7
<1>4. T \in SUBSET Nat
  OBVIOUS
<1> HIDE DEF T
<1>5. UIP_CONNS \in T
  BY <1>2, <1>3, <1>4, CountsUp, ConnConstants
<1>6. Found(UIP_CONNS, FreeConn)
  BY <1>5, ConnConstants DEF T, FreeConn
<1>7. 0 .. UIP_CONNS - 1 = Slots
  BY DEF Slots
<1>8. \A d \in Slots : d \in Used <=> ~IsClosed(d)
  BY DEF Used, IsClosed
<1>9. Used \subseteq Slots
  BY DEF Used
<1> HIDE DEF T
<1>10. QED
  BY <1>6, <1>7, <1>8, <1>9 DEF Found

(* An entry is taken for a new connection, at a port and a peer that no    *)
(* other entry has.                                                        *)
LEMMA LinkKeeps ==
  ASSUME ConnInv, NEW state \in States, NEW port \in Nat, NEW peer \in Peers,
         NEW timer \in {1, 3}, FreeConn # UIP_CONNS, Matching(peer, port) = {},
         uip_conns' = [uip_conns EXCEPT ![FreeConn] = Linked(state, port, peer, timer)]
  PROVE  uip_conns' \in [Slots -> ConnEntry] /\ Differ'
<1> DEFINE new == Linked(state, port, peer, timer)
           f == FreeConn
<1>1. f \in Slots
  BY FreeConnIsDead DEF ConnInv
<1>2. /\ new \in ConnEntry
      /\ new.lport = port /\ new.rport = peer.rport /\ new.ripaddr = peer.ripaddr
  BY ConnConstants DEF Linked, ConnEntry
<1> HIDE DEF new, f
<1>3. uip_conns' = [uip_conns EXCEPT ![f] = new]
  BY DEF new, f
<1>4. uip_conns' \in [Slots -> ConnEntry]
  BY <1>1, <1>2, <1>3 DEF ConnInv, ConnTypes
<1>5. \A c \in Slots : uip_conns'[c] = IF c = f THEN new ELSE uip_conns[c]
  BY <1>1, <1>3 DEF ConnInv, ConnTypes
<1>6. \A c \in Used : \/ uip_conns[c].lport # new.lport
                      \/ uip_conns[c].rport # new.rport
                      \/ uip_conns[c].ripaddr # new.ripaddr
  BY <1>2 DEF Matching
<1>7. \A c \in Slots : c \in Used' /\ c # f => c \in Used
  BY <1>5 DEF Used
<1>8. ASSUME NEW c \in Used', NEW d \in Used', c # d
      PROVE  \/ uip_conns'[c].lport # uip_conns'[d].lport
             \/ uip_conns'[c].rport # uip_conns'[d].rport
             \/ uip_conns'[c].ripaddr # uip_conns'[d].ripaddr
  <2>1. c \in Slots /\ d \in Slots
    BY DEF Used
  <2>2. CASE c = f
    <3>1. uip_conns'[c] = new /\ uip_conns'[d] = uip_conns[d] /\ d \in Used
      BY <1>5, <1>7, <1>8, <2>1, <2>2
    <3>2. QED
      BY <1>6, <3>1
  <2>3. CASE d = f
    <3>1. uip_conns'[d] = new /\ uip_conns'[c] = uip_conns[c] /\ c \in Used
      BY <1>5, <1>7, <1>8, <2>1, <2>3
    <3>2. QED
      BY <1>6, <3>1
  <2>4. CASE c # f /\ d # f
    <3>1. /\ uip_conns'[d] = uip_conns[d] /\ d \in Used
          /\ uip_conns'[c] = uip_conns[c] /\ c \in Used
      BY <1>5, <1>7, <2>1, <2>4
    <3>2. QED
      BY <1>8, <3>1 DEF ConnInv, Differ
  <2>5. QED
    BY <2>2, <2>3, <2>4
<1>9. QED
  BY <1>4, <1>8 DEF Differ

(* A connection that moves on keeps its ports, and one that is CLOSED does *)
(* not come back.                                                          *)
LEMMA BecomesKeeps ==
  ASSUME ConnInv, NEW c \in Slots, NEW state \in States, NEW timer \in 0 .. TimerSpace - 1,
         c \in Used, Becomes(c, state, timer)
  PROVE  ConnInv'
<1>1. uip_conns' = [uip_conns EXCEPT ![c].tcpstateflags = state, ![c].timer = timer]
  BY DEF Becomes
<1>2. PICK new : new = [uip_conns[c] EXCEPT !.tcpstateflags = state, !.timer = timer]
  OBVIOUS
<1>3. uip_conns' = [uip_conns EXCEPT ![c] = new]
  BY <1>1, <1>2 DEF ConnInv, ConnTypes, ConnEntry
<1>4. uip_conns[c] \in ConnEntry
  BY DEF ConnInv, ConnTypes
<1>5. /\ new \in ConnEntry
      /\ new.lport = uip_conns[c].lport /\ new.rport = uip_conns[c].rport
      /\ new.ripaddr = uip_conns[c].ripaddr
  BY <1>2, <1>4 DEF ConnEntry
<1>6. ConnTypes'
  BY <1>3, <1>5 DEF ConnInv, ConnTypes, Becomes
<1>7. \A d \in Slots : uip_conns'[d] = IF d = c THEN new ELSE uip_conns[d]
  BY <1>3 DEF ConnInv, ConnTypes
<1>8. \A d \in Used' : /\ d \in Used
                       /\ uip_conns'[d].lport = uip_conns[d].lport
                       /\ uip_conns'[d].rport = uip_conns[d].rport
                       /\ uip_conns'[d].ripaddr = uip_conns[d].ripaddr
  BY <1>5, <1>7 DEF Used
<1>9. Differ'
  BY <1>8 DEF ConnInv, Differ
<1>10. QED
  BY <1>6, <1>9 DEF ConnInv

LEMMA ConnInit ==
  ASSUME ConnsInit
  PROVE  ConnInv
<1>1. Unlinked \in ConnEntry /\ Unlinked.tcpstateflags = "CLOSED"
  BY ConnConstants DEF Unlinked, ConnEntry, States
<1>2. uip_conns \in [Slots -> ConnEntry] /\ Used = {}
  BY <1>1 DEF ConnsInit, Used
<1>3. ConnTypes
  BY <1>2 DEF ConnsInit, ConnTypes
<1>4. QED
  BY <1>2, <1>3 DEF ConnInv, Differ

LEMMA Remainder ==
  \A x \in Nat, m \in Nat \ {0} : x % m \in 0 .. m - 1
OBVIOUS

(* The steps of one connection.                                            *)
LEMMA AdvanceKeeps ==
  ASSUME ConnInv, NEW c \in Slots, Advance(c)
  PROVE  ConnInv'
<1> DEFINE state == uip_conns[c].tcpstateflags
<1>1. uip_conns[c] \in ConnEntry /\ 0 \in 0 .. TimerSpace - 1 /\ 3 \in 0 .. TimerSpace - 1
  BY ConnConstants DEF ConnInv, ConnTypes
<1>2. uip_conns[c].timer \in 0 .. TimerSpace - 1
  BY <1>1 DEF ConnEntry
<1>3. CASE state \in {"SYN_SENT", "SYN_RCVD"} /\ Becomes(c, "ESTABLISHED", 3)
  BY <1>1, <1>3, BecomesKeeps DEF States, Used
<1>4. CASE /\ state = "ESTABLISHED"
           /\ \E timer \in 0 .. TimerSpace - 1 : Becomes(c, "FIN_WAIT_2", timer)
  BY <1>1, <1>4, BecomesKeeps DEF States, Used
<1>5. CASE state \in {"ESTABLISHED", "FIN_WAIT_2"} /\ Becomes(c, "TIME_WAIT", 0)
  BY <1>1, <1>5, BecomesKeeps DEF States, Used
<1>6. CASE state # "CLOSED" /\ Becomes(c, "CLOSED", uip_conns[c].timer)
  BY <1>2, <1>6, BecomesKeeps DEF States, Used
<1>7. QED
  BY <1>3, <1>4, <1>5, <1>6 DEF Advance

LEMMA WaitKeeps ==
  ASSUME ConnInv, NEW c \in Slots, Wait(c)
  PROVE  ConnInv'
<1> DEFINE timer == (uip_conns[c].timer + 1) % TimerSpace
           state == IF timer = UIP_TIME_WAIT_TIMEOUT THEN "CLOSED"
                    ELSE uip_conns[c].tcpstateflags
<1>1. uip_conns[c] \in ConnEntry
  BY DEF ConnInv, ConnTypes
<1>2. timer \in 0 .. TimerSpace - 1
  <2> DEFINE x == uip_conns[c].timer + 1
  <2>1. x \in Nat /\ TimerSpace \in Nat \ {0}
    BY <1>1, ConnConstants DEF ConnEntry
  <2>2. timer = x % TimerSpace
    OBVIOUS
  <2> HIDE DEF x, timer
  <2>3. QED
    BY <2>1, <2>2, Remainder
<1>3. c \in Used /\ Becomes(c, state, timer)
  BY DEF Wait, Used
<1> HIDE DEF timer
<1>4. state \in States
  BY <1>1 DEF ConnEntry, States
<1> HIDE DEF state
<1>5. QED
  BY <1>2, <1>3, <1>4, BecomesKeeps

(* uip_connect and a SYN, which take an entry.                             *)
LEMMA ConnectKeeps ==
  ASSUME ConnInv, NEW peer \in Peers, uip_connect(peer)
  PROVE  ConnInv'
<1>1. NewPort \in 1 .. PortLimit - 1 /\ ~PortInUse(NewPort) /\ NewPort \in Nat
  BY NewPortIsFree, ConnConstants DEF ConnInv
<1>2. uip_conns' \in [Slots -> ConnEntry] /\ Differ'
  <2>1. CASE FreeConn = UIP_CONNS
    BY <2>1 DEF uip_connect, ConnInv, ConnTypes, Differ, Used
  <2>2. CASE FreeConn # UIP_CONNS
    <3>1. Matching(peer, NewPort) = {}
      BY <1>1 DEF Matching, PortInUse
    <3>2. uip_conns' = [uip_conns EXCEPT ![FreeConn] =
                          Linked("SYN_SENT", NewPort, peer, 1)]
      BY <2>2 DEF uip_connect
    <3>3. "SYN_SENT" \in States
      BY DEF States
    <3>4. QED
      BY <1>1, <2>2, <3>1, <3>2, <3>3, LinkKeeps
  <2>3. QED
    BY <2>1, <2>2
<1>3. uip_listenports' \in [Listens -> Nat] /\ lastport' \in 1 .. PortLimit - 1
  BY <1>1 DEF uip_connect, ConnInv, ConnTypes
<1>4. QED
  BY <1>2, <1>3 DEF ConnInv, ConnTypes

LEMMA SynKeeps ==
  ASSUME ConnInv, NEW peer \in Peers, NEW port \in ListenPorts, Syn(peer, port)
  PROVE  ConnInv'
<1>1. uip_conns' \in [Slots -> ConnEntry] /\ Differ'
  <2>1. CASE FreeConn = UIP_CONNS
    BY <2>1 DEF Syn, ConnInv, ConnTypes, Differ, Used
  <2>2. CASE FreeConn # UIP_CONNS
    <3>1. Matching(peer, port) = {}
      BY DEF Syn
    <3>2. uip_conns' = [uip_conns EXCEPT ![FreeConn] =
                          Linked("SYN_RCVD", port, peer, 3)]
      BY <2>2 DEF Syn
    <3>3. "SYN_RCVD" \in States /\ port \in Nat
      BY ConnConstants DEF States
    <3>4. QED
      BY <2>2, <3>1, <3>2, <3>3, LinkKeeps
  <2>3. QED
    BY <2>1, <2>2
<1>2. QED
  BY <1>1 DEF Syn, ConnInv, ConnTypes

(* A port is listened on, or no longer.                                    *)
LEMMA ReplaceKeeps ==
  ASSUME ConnInv, NEW old \in Nat, NEW new \in Nat, Replace(old, new)
  PROVE  ConnInv'
<1>1. uip_listenports' \in [Listens -> Nat]
  BY DEF Replace, ConnInv, ConnTypes
<1>2. UNCHANGED uip_conns /\ UNCHANGED lastport
  BY DEF Replace
<1>3. QED
  BY <1>1, <1>2 DEF ConnInv, ConnTypes, Differ, Used

LEMMA ConnStep ==
  ASSUME ConnInv, [ConnsNext]_conns_vars
  PROVE  ConnInv'
<1>1. CASE UNCHANGED conns_vars
  BY <1>1 DEF conns_vars, ConnInv, ConnTypes, Differ, Used
<1>2. ASSUME NEW port \in ListenPorts, uip_listen(port) \/ uip_unlisten(port)
      PROVE  ConnInv'
  BY <1>2, ConnConstants, ReplaceKeeps DEF uip_listen, uip_unlisten
<1>3. ASSUME NEW peer \in Peers, uip_connect(peer)
      PROVE  ConnInv'
  BY <1>3, ConnectKeeps
<1>4. ASSUME NEW peer \in Peers, NEW port \in ListenPorts, Syn(peer, port)
      PROVE  ConnInv'
  BY <1>4, SynKeeps
<1>5. ASSUME NEW c \in Slots, Advance(c) \/ Wait(c)
      PROVE  ConnInv'
  BY <1>5, AdvanceKeeps, WaitKeeps
<1>6. QED
  BY <1>1, <1>2, <1>3, <1>4, <1>5 DEF ConnsNext

LEMMA ConnsAlways == ConnsSpec => []ConnInv
<1>1. ConnsInit => ConnInv
  BY ConnInit
<1>2. ConnInv /\ [ConnsNext]_conns_vars => ConnInv'
  BY ConnStep
<1>3. QED
  BY <1>1, <1>2, PTL DEF ConnsSpec

(* NoTwoAlike: no segment has two owners, for every size of the table, all *)
(* peers and every range of ports that is larger than the table.           *)
THEOREM OneOwner == ConnsSpec => []NoTwoAlike
<1>1. ConnInv => NoTwoAlike
  BY DEF ConnInv, Differ, NoTwoAlike, Matching
<1>2. QED
  BY <1>1, ConnsAlways, PTL

(* A step that makes a new connection took the entry the scan had found.   *)
LEMMA NewIsFreeConn ==
  ASSUME ConnInv, ConnsNext, NEW c \in Slots,
         uip_conns'[c].tcpstateflags \in {"SYN_SENT", "SYN_RCVD"},
         uip_conns'[c] # uip_conns[c]
  PROVE  c = FreeConn /\ FreeConn # UIP_CONNS
<1>1. CASE UNCHANGED uip_conns
  BY <1>1
<1>2. ASSUME NEW new, FreeConn # UIP_CONNS, uip_conns' = [uip_conns EXCEPT ![FreeConn] = new]
      PROVE  c = FreeConn /\ FreeConn # UIP_CONNS
  BY <1>2 DEF ConnInv, ConnTypes
<1>3. ASSUME NEW d \in Slots, NEW state, NEW timer, Becomes(d, state, timer),
             state \notin {"SYN_SENT", "SYN_RCVD"}
      PROVE  FALSE
  <2>1. uip_conns' = [uip_conns EXCEPT ![d].tcpstateflags = state, ![d].timer = timer]
    BY <1>3 DEF Becomes
  <2>2. uip_conns \in [Slots -> ConnEntry]
    BY DEF ConnInv, ConnTypes
  <2>3. CASE c # d
    BY <2>1, <2>2, <2>3
  <2>4. CASE c = d
    <3>1. uip_conns'[c].tcpstateflags = state
      BY <2>1, <2>2, <2>4 DEF ConnEntry
    <3>2. QED
      BY <1>3, <3>1
  <2>5. QED
    BY <2>3, <2>4
<1>4. ASSUME NEW port \in ListenPorts, uip_listen(port) \/ uip_unlisten(port)
      PROVE  UNCHANGED uip_conns
  BY <1>4 DEF uip_listen, uip_unlisten, Replace
<1>5. ASSUME NEW peer \in Peers, uip_connect(peer)
      PROVE  c = FreeConn /\ FreeConn # UIP_CONNS
  BY <1>1, <1>2, <1>5 DEF uip_connect
<1>6. ASSUME NEW peer \in Peers, NEW port \in ListenPorts, Syn(peer, port)
      PROVE  c = FreeConn /\ FreeConn # UIP_CONNS
  BY <1>1, <1>2, <1>6 DEF Syn
<1>7. ASSUME NEW d \in Slots, Advance(d)
      PROVE  FALSE
  BY <1>3, <1>7 DEF Advance
<1>8. ASSUME NEW d \in Slots, Wait(d)
      PROVE  FALSE
  BY <1>3, <1>8 DEF Wait
<1>9. QED
  BY <1>1, <1>4, <1>5, <1>6, <1>7, <1>8 DEF ConnsNext

(* ReusesOnlyDead: no new connection takes the entry of a live one, or of  *)
(* one that waits while another is free or has waited longer.              *)
THEOREM LiveEntriesKept == ConnsSpec => ReusesOnlyDead
<1> DEFINE Kept ==
      \A c \in Slots :
        /\ uip_conns'[c].tcpstateflags \in {"SYN_SENT", "SYN_RCVD"}
        /\ uip_conns'[c] # uip_conns[c]
        => \/ c \notin Used
           \/ /\ Used = Slots
              /\ uip_conns[c].tcpstateflags = "TIME_WAIT"
              /\ \A d \in Slots : uip_conns[d].tcpstateflags = "TIME_WAIT"
                                    => uip_conns[d].timer <= uip_conns[c].timer
<1>1. ConnInv /\ [ConnsNext]_conns_vars => [Kept]_conns_vars
  <2> SUFFICES ASSUME ConnInv, ConnsNext PROVE Kept
    OBVIOUS
  <2>1. QED
    BY NewIsFreeConn, FreeConnIsDead DEF ConnInv
<1> HIDE DEF Kept
<1>2. ConnsSpec => [][Kept]_conns_vars
  BY <1>1, ConnsAlways, PTL DEF ConnsSpec
<1>3. QED
  BY <1>2 DEF ReusesOnlyDead, Kept

-----------------------------------------------------------------------------
(* UipFw.                                                                  *)

(* The packets that are put out, and what tells them apart.                *)
GivenOut == FwPackets \cup {[p EXCEPT !.ttl = @ - 1] : p \in FwPackets}
                      \cup {[TimeExceeded(p) EXCEPT !.ttl = @ - 1] : p \in FwPackets}
EntryKeys == {NoKey} \cup {Key(p) : p \in GivenOut}

FwTypes == /\ fwcache \in [Entries -> [timer : 0 .. FW_TIME, key : EntryKeys]]
           /\ fw_seen \in [Numbers -> [key : EntryKeys, left : 0 .. FW_TIME]]

(* The packets that went out no earlier than packet n.                     *)
NoEarlier(n) == {j \in Numbers \ {n} : fw_seen[j].left >= fw_seen[n].left}

(* Each entry that is in use is for a packet of its own, f says which: it  *)
(* has that packet's key and as long to live.                              *)
Live == {e \in Entries : fwcache[e].timer > 0}
Tells(f) == /\ \A e \in Live : /\ f[e] \in Numbers
                               /\ fw_seen[f[e]].left = fwcache[e].timer
                               /\ fw_seen[f[e]].key = fwcache[e].key
            /\ \A d, e \in Live : f[d] = f[e] => d = e

(* A packet has its entry still, or as many went out since as there are.   *)
Remembered(f) == \A n \in Numbers :
                   fw_seen[n].left > 0
                     => (\E e \in Live : f[e] = n) \/ Cardinality(NoEarlier(n)) >= FWCACHE_SIZE

FwInv == FwTypes /\ \E f \in [Entries -> Numbers] : Tells(f) /\ Remembered(f)

LEMMA FwConstants ==
  /\ FWCACHE_SIZE \in Nat \ {0} /\ FW_TIME \in Nat \ {0}
  /\ MaxSeen \in Nat /\ MaxSeen > FWCACHE_SIZE
  /\ Entries \subseteq Nat /\ Entries # {} /\ Numbers # {}
BY FwSizes DEF Entries, Numbers

LEMMA FwSets ==
  /\ IsFiniteSet(Entries) /\ Cardinality(Entries) = FWCACHE_SIZE
  /\ IsFiniteSet(Numbers)
  /\ \A n \in Numbers : IsFiniteSet(NoEarlier(n)) /\ Cardinality(NoEarlier(n)) \in Nat
<1>1. IsFiniteSet(Entries) /\ Cardinality(Entries) = FWCACHE_SIZE
  BY FS_Interval, FwConstants DEF Entries
<1>2. IsFiniteSet(Numbers)
  BY FS_Interval, FwConstants DEF Numbers
<1>3. ASSUME NEW n \in Numbers
      PROVE  IsFiniteSet(NoEarlier(n)) /\ Cardinality(NoEarlier(n)) \in Nat
  <2>1. NoEarlier(n) \in SUBSET Numbers
    BY DEF NoEarlier
  <2>2. QED
    BY <1>2, <2>1, FS_Subset, FS_CardinalityType
<1>4. QED
  BY <1>1, <1>2, <1>3

(* The entry that is overwritten is unused, or no other is older.          *)
LEMMA OverwrittenIsOldest ==
  ASSUME FwTypes
  PROVE  /\ Overwritten \in Entries
         /\ fwcache[Overwritten].timer > 0
              => \A e \in Entries : fwcache[Overwritten].timer <= fwcache[e].timer
<1> DEFINE timer(e) == fwcache[e].timer
           First(i) == \A j \in Entries \ {i} :
                         IF timer(i) = 0 THEN timer(j) = 0 => i < j
                         ELSE Faster(i, j) \/ (~Faster(j, i) /\ j < i)
<1>1. \A e \in Entries : timer(e) \in Nat
  BY FwConstants DEF FwTypes
<1>2. \E i \in Entries : First(i)
  <2>1. CASE \E e \in Entries : timer(e) = 0
    <3> DEFINE Unused == {e \in Entries : timer(e) = 0}
    <3>1. PICK i \in Unused : \A j \in Unused : i <= j
      <4>1. Unused \in SUBSET Nat /\ Unused # {}
        BY <2>1, FwConstants
      <4> HIDE DEF Unused
      <4>2. QED
        BY <4>1, LeastOf
    <3>2. i \in Entries /\ timer(i) = 0
      OBVIOUS
    <3>3. ASSUME NEW j \in Entries \ {i}, timer(j) = 0 PROVE i < j
      BY <3>1, <3>3, FwConstants
    <3>4. QED
      BY <3>2, <3>3
  <2>2. CASE \A e \in Entries : timer(e) # 0
    <3> DEFINE Timers == {timer(e) : e \in Entries}
    <3>1. PICK t \in Timers : \A k \in Timers : t <= k
      <4> HIDE DEF timer
      <4>1. Timers \in SUBSET Nat /\ Timers # {}
        BY <1>1, FwConstants
      <4> HIDE DEF Timers
      <4>2. QED
        BY <4>1, LeastOf
    <3> DEFINE Ends == {FWCACHE_SIZE - e : e \in {d \in Entries : timer(d) = t}}
    <3>2. PICK l \in Ends : \A k \in Ends : l <= k
      <4>1. \A e \in Entries : FWCACHE_SIZE - e \in Nat
        BY FwConstants DEF Entries
      <4> HIDE DEF timer
      <4>2. Ends \in SUBSET Nat /\ Ends # {}
        BY <3>1, <4>1
      <4> HIDE DEF Ends
      <4>3. QED
        BY <4>2, LeastOf
    <3>3. PICK i \in Entries : timer(i) = t /\ l = FWCACHE_SIZE - i
      OBVIOUS
    <3>4. ASSUME NEW j \in Entries \ {i}
          PROVE  Faster(i, j) \/ (~Faster(j, i) /\ j < i)
      <4>1. t <= timer(j) /\ timer(j) \in Nat /\ t \in Nat
        BY <1>1, <3>1, <3>3
      <4>2. CASE t < timer(j)
        BY <3>3, <4>2 DEF Faster
      <4>3. CASE timer(j) = t
        <5>1. l <= FWCACHE_SIZE - j
          BY <3>2, <4>3
        <5>2. j < i
          BY <3>3, <5>1, FwConstants
        <5>3. QED
          BY <3>3, <4>1, <4>3, <5>2 DEF Faster
      <4> HIDE DEF timer
      <4>4. QED
        BY <4>1, <4>2, <4>3
    <3>5. QED
      BY <2>2, <3>3, <3>4
  <2>3. QED
    BY <2>1, <2>2
<1>3. PICK i \in Entries : Overwritten = i /\ First(i)
  BY <1>2 DEF Overwritten
<1>4. ASSUME timer(i) > 0, NEW e \in Entries PROVE timer(i) <= timer(e)
  BY <1>1, <1>3, <1>4 DEF Faster
<1>5. QED
  BY <1>3, <1>4

-----------------------------------------------------------------------------
(* A packet goes out: it takes the place of the oldest in the cache, which *)
(* then has FWCACHE_SIZE behind it.                                        *)
LEMMA RegisterKeeps ==
  ASSUME FwInv, NEW p \in GivenOut, fwcache_register(p)
  PROVE  FwInv'
<1>1. PICK i \in Entries :
        /\ i = Overwritten
        /\ fwcache[i].timer > 0 => \A e \in Entries : fwcache[i].timer <= fwcache[e].timer
  BY OverwrittenIsOldest DEF FwInv
<1>2. PICK n0 \in Numbers :
        /\ n0 = CHOOSE n \in Numbers : fw_seen[n].left = 0
        /\ fw_seen[n0].left = 0
  BY DEF fwcache_register
<1> DEFINE entry == [timer |-> FW_TIME, key |-> Key(p)]
           seen == [key |-> Key(p), left |-> FW_TIME]
<1>3. fwcache' = [fwcache EXCEPT ![i] = entry] /\ fw_seen' = [fw_seen EXCEPT ![n0] = seen]
  BY <1>1, <1>2 DEF fwcache_register
<1>4. /\ entry \in [timer : 0 .. FW_TIME, key : EntryKeys] /\ entry.timer = FW_TIME
      /\ seen \in [key : EntryKeys, left : 0 .. FW_TIME] /\ seen.left = FW_TIME
      /\ entry.key = seen.key
  BY FwConstants DEF EntryKeys
<1> HIDE DEF entry, seen
<1>5. FwTypes'
  BY <1>1, <1>2, <1>3, <1>4 DEF FwInv, FwTypes
<1>6. PICK f \in [Entries -> Numbers] : Tells(f) /\ Remembered(f)
  BY DEF FwInv
<1>7. PICK g \in [Entries -> Numbers] :
        \A e \in Entries : g[e] = IF e = i THEN n0 ELSE f[e]
  <2> DEFINE h == [f EXCEPT ![i] = n0]
  <2>1. h \in [Entries -> Numbers] /\ \A e \in Entries : h[e] = IF e = i THEN n0 ELSE f[e]
    BY <1>1, <1>2, <1>6
  <2>2. QED
    BY <2>1
<1>8. /\ \A e \in Entries : fwcache'[e] = IF e = i THEN entry ELSE fwcache[e]
      /\ \A n \in Numbers : fw_seen'[n] = IF n = n0 THEN seen ELSE fw_seen[n]
  BY <1>1, <1>2, <1>3 DEF FwInv, FwTypes
<1>9. /\ \A n \in Numbers : fw_seen[n].left \in 0 .. FW_TIME
      /\ \A e \in Entries : fwcache[e].timer \in 0 .. FW_TIME
  BY DEF FwInv, FwTypes
<1>10. i \in Live' /\ \A e \in Entries : e # i => (e \in Live' <=> e \in Live)
  BY <1>1, <1>4, <1>8, FwConstants DEF Live
<1>11. \A e \in Live : f[e] # n0
  BY <1>2, <1>6, <1>9 DEF Live, Tells
<1>12. Live \subseteq Entries /\ Live' \subseteq Entries
  BY DEF Live, Entries
<1>13. Tells(g)'
  <2>1. ASSUME NEW e \in Live'
        PROVE  /\ g[e] \in Numbers
               /\ fw_seen'[g[e]].left = fwcache'[e].timer
               /\ fw_seen'[g[e]].key = fwcache'[e].key
    <3>1. CASE e = i
      BY <1>2, <1>4, <1>7, <1>8, <1>12, <3>1
    <3>2. CASE e # i
      <4>1. e \in Live /\ e \in Entries /\ g[e] = f[e] /\ g[e] # n0 /\ fwcache'[e] = fwcache[e]
        BY <1>7, <1>8, <1>10, <1>11, <1>12, <3>2
      <4>2. g[e] \in Numbers /\ fw_seen'[g[e]] = fw_seen[f[e]]
        BY <1>7, <1>8, <4>1
      <4>3. QED
        BY <1>6, <4>1, <4>2 DEF Tells
    <3>3. QED
      BY <3>1, <3>2
  <2>2. ASSUME NEW d \in Live', NEW e \in Live', g[d] = g[e]
        PROVE  d = e
    <3>1. d \in Entries /\ e \in Entries
      BY <1>12
    <3>2. CASE d = i \/ e = i
      BY <1>7, <1>10, <1>11, <2>2, <3>1, <3>2
    <3>3. CASE d # i /\ e # i
      <4>1. d \in Live /\ e \in Live /\ f[d] = f[e]
        BY <1>7, <1>10, <2>2, <3>1, <3>3
      <4>2. QED
        BY <1>6, <4>1 DEF Tells
    <3>4. QED
      BY <3>2, <3>3
  <2>3. Numbers' = Numbers
    BY DEF Numbers
  <2>4. QED
    BY <2>1, <2>2, <2>3 DEF Tells
<1>14. ASSUME NEW n \in Numbers, fw_seen'[n].left > 0
       PROVE  (\E e \in Live' : g[e] = n) \/ Cardinality(NoEarlier(n)') >= FWCACHE_SIZE
  <2>1. CASE n = n0
    BY <1>1, <1>7, <1>10, <2>1
  <2>2. CASE n # n0
    <3>1. fw_seen'[n] = fw_seen[n] /\ fw_seen[n].left \in 0 .. FW_TIME
      BY <1>8, <1>9, <2>2
    <3>2. \/ \E e \in Live : f[e] = n /\ e # i
          \/ i \in Live /\ f[i] = n
          \/ Cardinality(NoEarlier(n)) >= FWCACHE_SIZE
      BY <1>6, <1>14, <3>1 DEF Remembered
    <3>3. CASE \E e \in Live : f[e] = n /\ e # i
      <4>1. PICK e \in Live : f[e] = n /\ e # i
        BY <3>3
      <4>2. e \in Live' /\ g[e] = n
        BY <1>7, <1>10, <1>12, <4>1
      <4>3. QED
        BY <4>2
    <3>4. NoEarlier(n)' = {j \in Numbers \ {n} : fw_seen'[j].left >= fw_seen'[n].left}
      BY DEF NoEarlier, Numbers
    <3>5. CASE i \in Live /\ f[i] = n
      <4>1. fwcache[i].timer > 0 /\ fw_seen[n].left = fwcache[i].timer
        BY <1>6, <3>5 DEF Live, Tells
      <4>2. \A e \in Entries : e \in Live /\ fwcache[i].timer <= fwcache[e].timer
        BY <1>1, <1>9, <4>1 DEF Live
      <4>3. ASSUME NEW e \in Entries PROVE g[e] \in NoEarlier(n)'
        <5>1. CASE e = i
          <6>1. g[e] = n0 /\ fw_seen'[n0].left = FW_TIME
            BY <1>2, <1>4, <1>7, <1>8, <5>1
          <6>2. QED
            BY <1>2, <2>2, <3>1, <3>4, <6>1, FwConstants
        <5>2. CASE e # i
          <6>1. g[e] = f[e] /\ f[e] # n0 /\ f[e] # n /\ f[e] \in Numbers
            BY <1>6, <1>7, <1>11, <3>5, <4>2, <5>2 DEF Tells
          <6>2. fw_seen'[f[e]].left = fwcache[e].timer
            BY <1>6, <1>8, <4>2, <6>1 DEF Tells
          <6>3. QED
            BY <1>9, <3>1, <3>4, <4>1, <4>2, <6>1, <6>2
        <5>3. QED
          BY <5>1, <5>2
      <4>4. \A d, e \in Entries : g[d] = g[e] => d = e
        <5>1. \A e \in Entries : e \in Live'
          BY <1>10, <4>2
        <5>2. QED
          BY <1>13, <5>1 DEF Tells
      <4> DEFINE S == NoEarlier(n)'
      <4>5. g \in Injection(Entries, S)
        <5>1. g \in [Entries -> S]
          BY <1>7, <4>3
        <5>2. IsInjective(g)
          BY <1>7, <4>4 DEF IsInjective
        <5>3. QED
          BY <5>1, <5>2 DEF Injection
      <4>6. IsFiniteSet(S)
        <5>1. S \in SUBSET Numbers
          BY <3>4
        <5>2. QED
          BY <5>1, FwSets, FS_Subset
      <4> HIDE DEF S
      <4>7. Cardinality(Entries) <= Cardinality(S)
        BY <4>5, <4>6, FS_Injection
      <4>8. FWCACHE_SIZE <= Cardinality(S) /\ Cardinality(S) \in Nat
        BY <4>6, <4>7, FwSets, FS_CardinalityType
      <4>9. QED
        BY <4>8, FwConstants DEF S
    <3>6. CASE Cardinality(NoEarlier(n)) >= FWCACHE_SIZE
      <4> DEFINE S == NoEarlier(n)'
      <4>1. NoEarlier(n) \in SUBSET S
        <5> SUFFICES ASSUME NEW j \in NoEarlier(n) PROVE j \in S
          OBVIOUS
        <5>1. j \in Numbers \ {n} /\ fw_seen[j].left >= fw_seen[n].left
          BY DEF NoEarlier
        <5>2. j # n0
          BY <1>2, <1>9, <1>14, <3>1, <5>1
        <5>3. fw_seen'[j] = fw_seen[j]
          BY <1>8, <5>1, <5>2
        <5>4. QED
          BY <3>1, <3>4, <5>1, <5>3
      <4>2. IsFiniteSet(S)
        <5>1. S \in SUBSET Numbers
          BY <3>4
        <5>2. QED
          BY <5>1, FwSets, FS_Subset
      <4> HIDE DEF S
      <4>3. Cardinality(NoEarlier(n)) <= Cardinality(S) /\ Cardinality(S) \in Nat
        BY <4>1, <4>2, FS_Subset, FS_CardinalityType
      <4>4. Cardinality(S) >= FWCACHE_SIZE
        BY <3>6, <4>3, FwConstants, FwSets
      <4>5. QED
        BY <4>4 DEF S
    <3>7. QED
      BY <3>2, <3>3, <3>5, <3>6
  <2>3. QED
    BY <2>1, <2>2
<1>15. Remembered(g)'
  <2>1. Numbers' = Numbers /\ FWCACHE_SIZE' = FWCACHE_SIZE
    BY DEF Numbers
  <2>2. QED
    BY <1>14, <2>1 DEF Remembered
<1>16. Entries' = Entries /\ Numbers' = Numbers
  BY DEF Entries, Numbers
<1>17. QED
  BY <1>5, <1>7, <1>13, <1>15, <1>16 DEF FwInv

(* A period passes for the cache and for what went out alike.              *)
LEMMA PeriodicKeeps ==
  ASSUME FwInv, uip_fw_periodic
  PROVE  FwInv'
<1>1. /\ \A e \in Entries : fwcache[e] \in [timer : 0 .. FW_TIME, key : EntryKeys]
      /\ \A n \in Numbers : fw_seen[n] \in [key : EntryKeys, left : 0 .. FW_TIME]
  BY DEF FwInv, FwTypes
<1>2. ASSUME NEW e \in Entries
      PROVE  /\ fwcache'[e] \in [timer : 0 .. FW_TIME, key : EntryKeys]
             /\ fwcache'[e].key = fwcache[e].key
             /\ fwcache'[e].timer = IF fwcache[e].timer > 0 THEN fwcache[e].timer - 1 ELSE 0
  <2>1. fwcache'[e] = IF fwcache[e].timer > 0 THEN [fwcache[e] EXCEPT !.timer = @ - 1]
                      ELSE fwcache[e]
    BY DEF uip_fw_periodic
  <2>2. PICK r : r = fwcache[e]
    OBVIOUS
  <2>3. r \in [timer : 0 .. FW_TIME, key : EntryKeys]
    BY <1>1, <2>2
  <2>4. CASE r.timer > 0
    <3>1. fwcache'[e] = [r EXCEPT !.timer = r.timer - 1]
      BY <2>1, <2>2, <2>4
    <3>2. r.timer - 1 \in 0 .. FW_TIME
      BY <2>3, <2>4, FwConstants
    <3>3. QED
      BY <2>2, <2>3, <2>4, <3>1, <3>2
  <2>5. CASE ~(r.timer > 0)
    BY <2>1, <2>2, <2>3, <2>5, FwConstants
  <2>6. QED
    BY <2>4, <2>5
<1>3. ASSUME NEW n \in Numbers
      PROVE  /\ fw_seen'[n] \in [key : EntryKeys, left : 0 .. FW_TIME]
             /\ fw_seen[n].left > 1 => /\ fw_seen'[n].key = fw_seen[n].key
                                       /\ fw_seen'[n].left = fw_seen[n].left - 1
             /\ ~(fw_seen[n].left > 1) => fw_seen'[n].left = 0
  <2>1. fw_seen'[n] = IF fw_seen[n].left > 1 THEN [fw_seen[n] EXCEPT !.left = @ - 1]
                      ELSE Forgotten
    BY DEF uip_fw_periodic
  <2>2. PICK r : r = fw_seen[n]
    OBVIOUS
  <2>3. r \in [key : EntryKeys, left : 0 .. FW_TIME]
    BY <1>1, <2>2
  <2>4. CASE r.left > 1
    <3>1. fw_seen'[n] = [r EXCEPT !.left = r.left - 1]
      BY <2>1, <2>2, <2>4
    <3>2. r.left - 1 \in 0 .. FW_TIME
      BY <2>3, <2>4, FwConstants
    <3>3. QED
      BY <2>2, <2>3, <2>4, <3>1, <3>2
  <2>5. CASE ~(r.left > 1)
    BY <2>1, <2>2, <2>5, FwConstants DEF Forgotten, EntryKeys
  <2>6. QED
    BY <2>4, <2>5
<1>4. FwTypes'
  <2>1. fwcache' \in [Entries -> [timer : 0 .. FW_TIME, key : EntryKeys]]
    BY <1>2 DEF uip_fw_periodic
  <2>2. fw_seen' \in [Numbers -> [key : EntryKeys, left : 0 .. FW_TIME]]
    BY <1>3 DEF uip_fw_periodic
  <2>3. QED
    BY <2>1, <2>2 DEF FwTypes
<1>5. PICK f \in [Entries -> Numbers] : Tells(f) /\ Remembered(f)
  BY DEF FwInv
<1>6. /\ \A n \in Numbers : fw_seen[n].left \in 0 .. FW_TIME
      /\ \A e \in Entries : fwcache[e].timer \in 0 .. FW_TIME
  BY <1>1
<1>7. Entries' = Entries /\ Numbers' = Numbers
  BY DEF Entries, Numbers
<1>8. \A e \in Live' : e \in Live /\ e \in Entries /\ fwcache[e].timer > 1
  BY <1>2, <1>6, <1>7 DEF Live
<1>9. Tells(f)'
  <2>1. ASSUME NEW e \in Live'
        PROVE  /\ f[e] \in Numbers
               /\ fw_seen'[f[e]].left = fwcache'[e].timer
               /\ fw_seen'[f[e]].key = fwcache'[e].key
    <3>1. f[e] \in Numbers /\ fw_seen[f[e]].left = fwcache[e].timer
                           /\ fw_seen[f[e]].key = fwcache[e].key
      BY <1>5, <1>8 DEF Tells
    <3>2. fwcache[e].timer > 1 /\ fw_seen[f[e]].left > 1 /\ fwcache[e].timer > 0
      BY <1>6, <1>8, <3>1
    <3>3. QED
      BY <1>2, <1>3, <1>8, <3>1, <3>2
  <2>2. \A d, e \in Live' : f[d] = f[e] => d = e
    BY <1>5, <1>8 DEF Tells
  <2>3. QED
    BY <1>7, <2>1, <2>2 DEF Tells
<1>10. ASSUME NEW n \in Numbers, fw_seen'[n].left > 0
       PROVE  (\E e \in Live' : f[e] = n) \/ Cardinality(NoEarlier(n)') >= FWCACHE_SIZE
  <2>1. fw_seen[n].left > 1 /\ fw_seen'[n].left = fw_seen[n].left - 1
    BY <1>3, <1>10
  <2>2. (\E e \in Live : f[e] = n) \/ Cardinality(NoEarlier(n)) >= FWCACHE_SIZE
    BY <1>5, <1>6, <2>1 DEF Remembered
  <2>3. CASE \E e \in Live : f[e] = n
    <3>1. PICK e \in Live : f[e] = n
      BY <2>3
    <3>2. e \in Entries /\ fwcache[e].timer > 1
      BY <1>5, <2>1, <3>1 DEF Live, Tells
    <3>3. fwcache'[e].timer = fwcache[e].timer - 1 /\ fwcache[e].timer \in 0 .. FW_TIME
      BY <1>2, <1>6, <3>2
    <3>4. e \in Live'
      BY <1>7, <3>2, <3>3 DEF Live
    <3>5. QED
      BY <3>1, <3>4
  <2>4. CASE Cardinality(NoEarlier(n)) >= FWCACHE_SIZE
    <3> DEFINE S == NoEarlier(n)'
    <3>1. S = {j \in Numbers \ {n} : fw_seen'[j].left >= fw_seen'[n].left}
      BY <1>7 DEF NoEarlier
    <3>2. NoEarlier(n) \in SUBSET S
      <4> SUFFICES ASSUME NEW j \in NoEarlier(n) PROVE j \in S
        OBVIOUS
      <4>1. j \in Numbers \ {n} /\ fw_seen[j].left >= fw_seen[n].left
        BY DEF NoEarlier
      <4>2. fw_seen[j].left > 1
        BY <1>6, <2>1, <4>1
      <4>3. fw_seen'[j].left = fw_seen[j].left - 1
        BY <1>3, <4>1, <4>2
      <4> HIDE DEF S
      <4>4. QED
        BY <1>6, <2>1, <3>1, <4>1, <4>3
    <3>3. IsFiniteSet(S)
      <4>1. S \in SUBSET Numbers
        BY <3>1
      <4>2. QED
        BY <4>1, FwSets, FS_Subset
    <3> HIDE DEF S
    <3>4. Cardinality(NoEarlier(n)) <= Cardinality(S) /\ Cardinality(S) \in Nat
      BY <3>2, <3>3, FS_Subset, FS_CardinalityType
    <3>5. Cardinality(S) >= FWCACHE_SIZE
      BY <2>4, <3>4, FwConstants, FwSets
    <3>6. QED
      BY <3>5 DEF S
  <2>5. QED
    BY <2>2, <2>3, <2>4
<1>11. Remembered(f)'
  BY <1>7, <1>10 DEF Remembered
<1>12. QED
  BY <1>4, <1>5, <1>7, <1>9, <1>11 DEF FwInv

LEMMA FwInitial ==
  ASSUME FwInit
  PROVE  FwInv
<1>1. PICK n \in Numbers : TRUE
  BY FwConstants
<1> DEFINE f == [e \in Entries |-> n]
<1>2. f \in [Entries -> Numbers]
  OBVIOUS
<1>3. 0 \in 0 .. FW_TIME /\ NoKey \in EntryKeys
  BY FwConstants DEF EntryKeys
<1>4. FwTypes
  BY <1>3 DEF FwInit, FwTypes, Forgotten
<1>5. Live = {} /\ \A m \in Numbers : ~(fw_seen[m].left > 0)
  BY DEF FwInit, Live, Forgotten
<1>6. Tells(f) /\ Remembered(f)
  BY <1>5 DEF Tells, Remembered
<1>7. QED
  BY <1>2, <1>4, <1>6 DEF FwInv

LEMMA SameCacheKeeps ==
  ASSUME FwInv, UNCHANGED <<fwcache, fw_seen>>
  PROVE  FwInv'
BY DEF FwInv, FwTypes, Tells, Remembered, Live, NoEarlier

LEMMA FwStep ==
  ASSUME FwInv, [FwNext]_fw_vars
  PROVE  FwInv'
<1>1. CASE UNCHANGED fw_vars
  BY <1>1, SameCacheKeeps DEF fw_vars
<1>2. ASSUME NEW p \in FwPackets, FwPass(p)
      PROVE  FwInv'
  <2>1. CASE uip_fw_forward(p)
    BY <2>1, SameCacheKeeps DEF uip_fw_forward, Unsent
  <2>2. CASE uip_fw_forwards(p)
    <3>1. PICK q \in GivenOut : fwcache_register(q)
      BY <2>2 DEF uip_fw_forwards, Output, GivenOut
    <3>2. QED
      BY <3>1, RegisterKeeps
  <2>3. CASE uip_fw_output(p)
    <3>1. p \in GivenOut /\ fwcache_register(p)
      BY <2>3 DEF uip_fw_output, Output, GivenOut
    <3>2. QED
      BY <3>1, RegisterKeeps
  <2>4. QED
    BY <1>2, <2>1, <2>2, <2>3 DEF FwPass
<1>3. CASE uip_fw_periodic
  BY <1>3, PeriodicKeeps
<1>4. CASE uip_fw_init
  BY <1>4, SameCacheKeeps DEF uip_fw_init, Unsent
<1>5. ASSUME NEW netif \in DOMAIN NetOf, uip_fw_register(netif) \/ uip_fw_default(netif)
      PROVE  FwInv'
  BY <1>5, SameCacheKeeps DEF uip_fw_register, uip_fw_default, Unsent
<1>6. QED
  BY <1>1, <1>2, <1>3, <1>4, <1>5 DEF FwNext

LEMMA FwAlways == FwSpec => []FwInv
<1>1. FwInit => FwInv
  BY FwInitial
<1>2. FwInv /\ [FwNext]_fw_vars => FwInv'
  BY FwStep
<1>3. QED
  BY <1>1, <1>2, PTL DEF FwSpec

(* ForwardedOnce: what went out lately is not forwarded again before as    *)
(* many others went out as the cache has entries, for every size of the    *)
(* cache, every time and all packets.                                      *)
THEOREM NoSecondForward == FwSpec => ForwardedOnce
<1> DEFINE Once ==
      \A p \in FwPackets, i \in Numbers :
        fw_seen[i].left > 0 /\ fw_seen[i].key = Key(p) /\ uip_fw_forwards(p)
        => Cardinality({j \in Numbers \ {i} :
                          fw_seen[j].left >= fw_seen[i].left}) >= FWCACHE_SIZE
<1>1. FwInv => Once
  <2> SUFFICES ASSUME FwInv, NEW p \in FwPackets, NEW i \in Numbers, fw_seen[i].left > 0,
                      fw_seen[i].key = Key(p), ~Cached(p)
               PROVE  Cardinality(NoEarlier(i)) >= FWCACHE_SIZE
    BY DEF uip_fw_forwards, NoEarlier
  <2>1. PICK f : Tells(f) /\ Remembered(f)
    BY DEF FwInv
  <2>2. ASSUME NEW e \in Live, f[e] = i
        PROVE  FALSE
    <3>1. e \in Entries /\ fwcache[e].timer > 0 /\ fwcache[e].key = Key(p)
      BY <2>1, <2>2 DEF Live, Tells
    <3>2. fwcache[e].timer # 0
      BY <3>1
    <3>3. QED
      BY <3>1, <3>2 DEF Cached
  <2>3. QED
    BY <2>1, <2>2 DEF Remembered
<1> HIDE DEF Once
<1>2. FwSpec => [][Once]_fw_vars
  <2>1. FwInv /\ [FwNext]_fw_vars => [Once]_fw_vars
    BY <1>1
  <2>2. QED
    BY <2>1, FwAlways, PTL DEF FwSpec
<1>3. QED
  BY <1>2 DEF ForwardedOnce, Once

=============================================================================
