------------------------------ MODULE Console ------------------------------
(***************************************************************************)
(* keyboard.rs and the last row of vga_buffer.rs: the line editor that the *)
(* keyboard interrupt runs, byte by byte of the PS/2 set 1 stream, and the *)
(* screen it keeps in step.  Scancodes are the numbers of the code; the    *)
(* rows that have scrolled away are not kept.                              *)
(*                                                                         *)
(* The keyboard itself is external: it sends a key's code when the key     *)
(* goes down, again while it is the last one held, and with the top bit    *)
(* set when it goes up, an extended key's behind a prefix.  Each byte      *)
(* carries, unseen by the driver, whether the key just went down and       *)
(* whether Shift was down then.                                            *)
(***************************************************************************)
EXTENDS Naturals, SequencesExt

CONSTANTS
  Keys,         (* the keys pressed, [code, ext] records                   *)
  Width,        (* BUFFER_WIDTH                                            *)
  Rollover,     (* may a second key go down before the first is up?        *)
  PortSize,     (* bytes the keyboard holds back while one is handled      *)
  MaxChars,     (* bound on the characters in the line and the history     *)
  MaxHistory    (* bound on the commands of a behaviour                    *)

(* No break code is the prefix, and no key but Shift sends Shift's codes.  *)
ASSUME KeysAssumption   == /\ Keys \subseteq [code : 1 .. 95, ext : BOOLEAN]
                           /\ \A key \in Keys : key.ext => key.code \notin {42, 54}
ASSUME WidthAssumption  == Width \in Nat \ {0}
ASSUME BoundsAssumption == PortSize \in Nat /\ MaxChars \in Nat /\ MaxHistory \in Nat

VARIABLES
  kb,      (* KEYBOARD                                                     *)
  screen,  (* WRITER: the last row and column_position                     *)
  down,    (* the keys that are down                                       *)
  recent,  (* the key that repeats, in a set of at most one                *)
  port     (* bytes sent and not yet handled                               *)

vars == <<kb, screen, down, recent, port>>

-----------------------------------------------------------------------------
(***************************************************************************)
(* The screen.  `wrapped` is not in the code: the row being edited has     *)
(* scrolled since the prompt was written on it.                            *)
(***************************************************************************)
Blank   == [i \in 1 .. Width |-> " "]
NewLine == [row |-> Blank, col |-> 0, wrapped |-> FALSE]
Prompt  == <<">">>

WriteByte(s, ch) ==
  LET t == IF s.col >= Width THEN [NewLine EXCEPT !.wrapped = TRUE] ELSE s
  IN  [t EXCEPT !.row[t.col + 1] = ch, !.col = @ + 1]

(* write_string: the screen after each byte, and after the last. *)
Written(s, text) ==
  LET after[n \in 0 .. Len(text)] == IF n = 0 THEN s ELSE WriteByte(after[n - 1], text[n])
  IN  after

Write(s, text) == Written(s, text)[Len(text)]

Left(col, n) == IF n > col THEN 0 ELSE col - n

(* n calls each of backspace, cursor_left and cursor_right. *)
Erase(s, n) ==
  LET c == Left(s.col, n)
  IN  [s EXCEPT !.col = c,
         !.row = [i \in 1 .. Width |-> IF c < i /\ i <= s.col THEN " " ELSE @[i]]]
CursorLeft(s, n)  == [s EXCEPT !.col = Left(s.col, n)]
CursorRight(s, n) == [s EXCEPT !.col = IF @ + n > Width THEN Width ELSE @ + n]

-----------------------------------------------------------------------------
(* The driver. *)
EXTENDED  == 224
ENTER     == 28
BACKSPACE == 14
UP        == 72
DOWN      == 80
LEFT      == 75
RIGHT     == 77
SHIFTS    == {42, 54}

IsBreak(code) == code >= 128
Make(code)    == code % 128

(* The keys that print, in the order of their codes from 2, 16, 30 and 44. *)
Digits == <<"1", "2", "3", "4", "5", "6", "7", "8", "9", "0", "-">>
Upper  == <<"q", "w", "e", "r", "t", "y", "u", "i", "o", "p">>
Home   == <<"a", "s", "d", "f", "g", "h", "j", "k", "l">>
Lower  == <<"z", "x", "c", "v", "b", "n", "m", ",", ".", "/">>

ShiftedUpper == <<"Q", "W", "E", "R", "T", "Y", "U", "I", "O", "P">>
ShiftedHome  == <<"A", "S", "D", "F", "G", "H", "J", "K", "L">>
ShiftedLower == <<"Z", "X", "C", "V", "B", "N", "M", "<", ">", "?">>

(* scancode_to_char, as the sequence of its one result or of none; Enter   *)
(* is told apart before.                                                   *)
ScancodeToChar(shift, code) ==
  CASE code \in 2 .. 11  -> <<Digits[code - 1]>>
    [] code = 12         -> <<IF shift THEN "_" ELSE "-">>
    [] code \in 16 .. 25 -> <<IF shift THEN ShiftedUpper[code - 15] ELSE Upper[code - 15]>>
    [] code \in 30 .. 38 -> <<IF shift THEN ShiftedHome[code - 29] ELSE Home[code - 29]>>
    [] code = 41         -> <<IF shift THEN "~" ELSE "backtick">>
    [] code \in 44 .. 53 -> <<IF shift THEN ShiftedLower[code - 43] ELSE Lower[code - 43]>>
    [] code = 57         -> <<" ">>
    [] OTHER             -> <<>>

(* KeyboardDriver::new; index 0 is None, i is Some(i - 1). *)
NewKeyboard == [last |-> 0, extended |-> FALSE, shift |-> FALSE, line |-> <<>>,
                cursor |-> 0, history |-> <<>>, index |-> 0]

Show(k, i, line) == [k EXCEPT !.index = i, !.line = line, !.cursor = Len(line)]

RecallOlder(k) ==
  LET i == IF k.index = 0 THEN Len(k.history) ELSE k.index - 1
  IN  IF i = 0 THEN k ELSE Show(k, i, k.history[i])

RecallNewer(k) ==
  IF k.index = 0 THEN k
  ELSE IF k.index < Len(k.history) THEN Show(k, k.index + 1, k.history[k.index + 1])
  ELSE Show(k, 0, <<>>)

(* Slip: erase from where the cursor is, as before the line could be       *)
(* edited in its middle.                                                   *)
RedrawInPlace(s, old, new) ==
  CursorLeft(Write(Erase(s, Len(old.line)), new.line), Len(new.line) - new.cursor)

(* redraw_line, with the driver as it was when the row was drawn. *)
RedrawLine(s, old, new) ==
  LET end == CursorRight(s, Len(old.line) - old.cursor)
  IN  CursorLeft(Write(Erase(end, Len(old.line)), new.line), Len(new.line) - new.cursor)

(* A driver and its screen. *)
Pair(k, s) == [kb |-> k, screen |-> s]
Redrawn(c, k) == Pair(k, RedrawLine(c.screen, c.kb, k))

(* Slip: typing in a recalled line stays at its place in the history. *)
InsertCharBrowsing(c, ch) ==
  Redrawn(c, [c.kb EXCEPT !.line = InsertAt(@, c.kb.cursor + 1, ch), !.cursor = @ + 1])

InsertChar(c, ch) ==
  Redrawn(c, [c.kb EXCEPT !.index = 0, !.line = InsertAt(@, c.kb.cursor + 1, ch), !.cursor = @ + 1])

BackspaceChar(c) ==
  IF c.kb.cursor = 0 THEN Pair([c.kb EXCEPT !.index = 0], c.screen)
  ELSE Redrawn(c, [c.kb EXCEPT !.index = 0, !.line = RemoveAt(@, c.kb.cursor), !.cursor = @ - 1])

Recall(c, k) == IF k = c.kb THEN c ELSE Redrawn(c, k)

ArrowKey(c, code) ==
  CASE code = UP   -> Recall(c, RecallOlder(c.kb))
    [] code = DOWN -> Recall(c, RecallNewer(c.kb))
    [] code = LEFT /\ c.kb.cursor > 0 ->
         Pair([c.kb EXCEPT !.cursor = @ - 1], CursorLeft(c.screen, 1))
    [] code = RIGHT /\ c.kb.cursor < Len(c.kb.line) ->
         Pair([c.kb EXCEPT !.cursor = @ + 1], CursorRight(c.screen, 1))
    [] OTHER -> c

IsBlank(line) == \A i \in DOMAIN line : line[i] = " "

Remember(history, line) == IF IsBlank(line) THEN history ELSE Append(history, line)

(* Every command, `clear` included, leaves the cursor at the beginning of  *)
(* an empty last row.                                                      *)
EnterLine(c) ==
  Pair([c.kb EXCEPT !.line = <<>>, !.cursor = 0, !.index = 0,
                    !.history = Remember(@, c.kb.line)],
       Write(NewLine, Prompt))

Act(c, code, extended) ==
  IF extended THEN ArrowKey(c, code)
  ELSE IF code = BACKSPACE THEN BackspaceChar(c)
  ELSE IF code = ENTER THEN EnterLine(c)
  ELSE LET ch == ScancodeToChar(c.kb.shift, code)
       IN  IF ch = <<>> THEN c ELSE InsertChar(c, ch[1])

(* Slip: Shift toggles, as if a held Shift sent no repetitions. *)
ShiftKeyToggles(k, code) == [k EXCEPT !.shift = ~@, !.extended = FALSE]

ShiftKey(k, code) == [k EXCEPT !.shift = ~IsBreak(code), !.extended = FALSE]

(* handle_scancode. *)
HandleScancode(c, code) ==
  LET k == c.kb
      seen == Pair([k EXCEPT !.extended = FALSE, !.last = code], c.screen)
  IN  IF code = EXTENDED THEN Pair([k EXCEPT !.extended = TRUE], c.screen)
      ELSE IF Make(code) \in SHIFTS THEN Pair(ShiftKey(k, code), c.screen)
      ELSE IF code = k.last \/ IsBreak(code) THEN seen
      ELSE Act(seen, code, k.extended)

(***************************************************************************)
(* The boot feeds the driver scripts of its own and looks at what reaches  *)
(* the shell.  A script is given by its keys; each goes down and up.       *)
(***************************************************************************)
Tap(code)    == <<code, code + 128>>
ExtTap(code) == <<EXTENDED, code, EXTENDED, code + 128>>
Taps(codes)  == FlattenSeq([i \in DOMAIN codes |-> Tap(codes[i])])

Run(script) == FoldLeft(HandleScancode, Pair(NewKeyboard, Write(NewLine, Prompt)), script).kb.history

BackspaceTest == Taps(<<25, 31, 31, BACKSPACE, ENTER>>)
HistoryTest   == Taps(<<45, 45, ENTER, 21, 21, ENTER>>) \o ExtTap(UP) \o ExtTap(UP) \o Tap(ENTER)
CursorTest    == Taps(<<35, 18, 25>>) \o ExtTap(LEFT) \o Taps(<<38, ENTER>>)
ShiftTest     == Taps(<<46, 30, 20, 57>>) \o <<42>> \o Taps(<<37, 18, 19, 49, 18, 38, 41>>)
                   \o <<170>> \o Taps(<<2, ENTER>>)
DotSlashTest  == Taps(<<20, 24, 22, 46, 35, 57, 32, 53, 30, 52, 48, 57, 35, 23, ENTER>>)
CommaTest     == Taps(<<20, 24, 22, 46, 35, 57, 46, 50, 52, 20, 45, 20, 57, 30, 51, 48, 46, ENTER>>)
ShiftRepeatTest ==
  Taps(<<20, 24, 22, 46, 35, 57, 30, 48, 52, 20, 45, 20, 57>>)
    \o <<42, 30, 30, 170, 30, 158>> \o Taps(<<48, 46, 32, ENTER>>)

(* The lines the comments beside the scripts announce. *)
ASSUME SelfTestsAssumption ==
  /\ Run(BackspaceTest) = << <<"p", "s">> >>
  /\ Run(HistoryTest)   = << <<"x", "x">>, <<"y", "y">>, <<"x", "x">> >>
  /\ Run(CursorTest)    = << <<"h", "e", "l", "p">> >>
  /\ Run(ShiftTest)     = << <<"c", "a", "t", " ", "K", "E", "R", "N", "E", "L", "~", "1">> >>
  /\ Run(DotSlashTest)  = << <<"t", "o", "u", "c", "h", " ", "d", "/", "a", ".", "b", " ", "h", "i">> >>
  /\ Run(CommaTest)     = << <<"t", "o", "u", "c", "h", " ", "c", "m", ".", "t", "x", "t", " ",
                               "a", ",", "b", "c">> >>
  /\ Run(ShiftRepeatTest) = << <<"t", "o", "u", "c", "h", " ", "a", "b", ".", "t", "x", "t", " ",
                                 "A", "b", "c", "d">> >>

-----------------------------------------------------------------------------
Plain(code)    == [code |-> code, ext |-> FALSE]
Extended(code) == [code |-> code, ext |-> TRUE]

IsShift(key) == ~key.ext /\ key.code \in SHIFTS

Byte(code, press) ==
  [code |-> code, press |-> press, shifted |-> \E k \in down : IsShift(k)]

Bytes(key, code, press) ==
  (IF key.ext THEN <<Byte(EXTENDED, FALSE)>> ELSE <<>>) \o <<Byte(code, press)>>

Room == Len(port) + 2 <= PortSize

(* The bounds on characters and commands. *)
WithinBounds(key) ==
  CASE key.ext -> TRUE
    [] key.code = ENTER -> Len(kb.history) + Len(port) < MaxHistory
    [] key.code = BACKSPACE \/ IsShift(key) -> TRUE
    [] OTHER -> Len(FlattenSeq(kb.history) \o kb.line) + Len(port) < MaxChars

(* Without rollover one key is down at a time, and one Shift beside it. *)
MayGoDown(key) == Rollover \/ \A k \in down : IsShift(k) # IsShift(key)

Press(key) ==
  /\ key \notin down /\ MayGoDown(key)
  /\ Room /\ WithinBounds(key)
  /\ port' = port \o Bytes(key, key.code, TRUE)
  /\ down' = down \cup {key}
  /\ recent' = {key}
  /\ UNCHANGED <<kb, screen>>

Repeat ==
  /\ Room
  /\ \E key \in recent : port' = port \o Bytes(key, key.code, FALSE)
  /\ UNCHANGED <<kb, screen, down, recent>>

Release(key) ==
  /\ key \in down /\ Room
  /\ port' = port \o Bytes(key, key.code + 128, FALSE)
  /\ down' = down \ {key}
  /\ recent' = recent \ {key}
  /\ UNCHANGED <<kb, screen>>

(* keyboard_interrupt_handler. *)
Interrupt ==
  /\ port # <<>>
  /\ LET c == HandleScancode(Pair(kb, screen), Head(port).code)
     IN  kb' = c.kb /\ screen' = c.screen
  /\ port' = Tail(port)
  /\ UNCHANGED <<down, recent>>

(* The boot has printed the first prompt and halts between interrupts. *)
Init ==
  /\ kb = NewKeyboard
  /\ screen = Write(NewLine, Prompt)
  /\ down = {} /\ recent = {}
  /\ port = <<>>

Next ==
  \/ \E key \in Keys : Press(key) \/ Release(key)
  \/ Repeat
  \/ Interrupt

Spec == Init /\ [][Next]_vars

-----------------------------------------------------------------------------
(* What a handler may change besides the bookkeeping of codes. *)
Edited(k) == <<k.line, k.cursor, k.history, k.index>>

(***************************************************************************)
(* A key acts once each time it goes down, however long it is held and     *)
(* whatever Shift does meanwhile: the byte of a key going down inserts the *)
(* key's character, in the case Shift gave it at that moment, or acts as   *)
(* the key's name says; a repeated code, a prefix or a key going up leaves *)
(* line, history and screen alone (handle_scancode's documentation: "we    *)
(* only act on a genuinely new key-down").                                 *)
(***************************************************************************)
TypedAsPressed ==
  [][port # <<>> /\ port' = Tail(port) =>
       LET b == Head(port)
           ch == IF kb.extended THEN <<>> ELSE ScancodeToChar(b.shifted, b.code)
       IN  IF ~b.press THEN Edited(kb') = Edited(kb) /\ screen' = screen
           ELSE /\ ch # <<>> => kb'.line = InsertAt(kb.line, kb.cursor + 1, ch[1])
                /\ b.code = ENTER /\ ~kb.extended =>
                     kb'.line = <<>> /\ (~IsBlank(kb.line) => Last(kb'.history) = kb.line)
                /\ b.code = UP /\ kb.extended => kb'.index # 0 \/ kb.history = <<>>]_vars

(***************************************************************************)
(* What is on the row is what Enter would hand to the shell, and the next  *)
(* character goes where the row shows the cursor: redraw_line and the      *)
(* arrow keys keep the two in step through any edits in any place, as long *)
(* as the row has not had to scroll (the documentation of redraw_line: the *)
(* way "to keep the screen in sync").                                      *)
(***************************************************************************)
ScreenShowsLine ==
  ~screen.wrapped =>
    /\ screen.col = Len(Prompt) + kb.cursor
    /\ Len(Prompt \o kb.line) <= Width
    /\ \A i \in 1 .. Width :
         screen.row[i] = IF i <= Len(Prompt \o kb.line) THEN (Prompt \o kb.line)[i] ELSE " "

(***************************************************************************)
(* While history_index points at an entry the line is that entry, so that  *)
(* the next Up or Down moves by one from what the user sees; the history   *)
(* has no blank line, and the cursor stays where String::insert and remove *)
(* do not panic.                                                           *)
(***************************************************************************)
HistoryFaithful ==
  /\ kb.index <= Len(kb.history)
  /\ kb.index # 0 => kb.line = kb.history[kb.index]
  /\ kb.cursor <= Len(kb.line)
  /\ \A i \in DOMAIN kb.history : ~IsBlank(kb.history[i])

=============================================================================
