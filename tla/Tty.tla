-------------------------------- MODULE Tty --------------------------------
(***************************************************************************)
(* drivers/tty.c: the terminal draws what is written as it comes, and      *)
(* keeps the text in a ring of lines from which it repaints the screen     *)
(* when the wheel scrolls back.                                            *)
(*                                                                         *)
(* A character is written with interrupts off (system calls), the wheel    *)
(* and the blink come by interrupt: each is one step.                      *)
(***************************************************************************)
EXTENDS Integers, FiniteSets

CONSTANTS
  COLS, ROWS,          \* tty_cols(), tty_rows()
  TTY_HISTORY_LINES, TTY_MAX_COLS,
  Letters,             \* characters other than newline and backspace
  Deltas,              \* lines the wheel scrolls by
  MaxChars             \* bound: characters written

ASSUME TtyAssumption ==
  COLS \in Nat \ {0} /\ ROWS \in Nat \ {0} /\ TTY_HISTORY_LINES > ROWS /\ TTY_MAX_COLS > COLS

NUL == "end"
BLANK == "blank"

VARIABLES
  terminal_row, terminal_column, tty_line_count, tty_view_offset,
  tty_history,         \* ring of C strings
  screen,              \* what is drawn, cursor left out
  crossed,             \* history: a backspace went back over the start of a line
  chars

ttyVars == <<terminal_row, terminal_column, tty_line_count, tty_view_offset, tty_history, screen, crossed, chars>>

Row == 0 .. ROWS - 1
Col == 0 .. COLS - 1
BlankRow == [x \in Col |-> BLANK]
Cleared(hist, logical) == [hist EXCEPT ![logical % TTY_HISTORY_LINES][0] = NUL]

\* The text of a line: up to its terminator.
TextOf(line) == [x \in Col |-> IF \A y \in 0 .. x : line[y] # NUL THEN line[x] ELSE BLANK]

\* tty_render_view
Render(hist, count, row, offset) ==
  [sr \in Row |->
     LET logical == count - row - offset + sr
         overwritten == count >= TTY_HISTORY_LINES /\ logical <= count - TTY_HISTORY_LINES
     IN  IF logical < 0 \/ logical > count \/ overwritten THEN BlankRow
         ELSE TextOf(hist[logical % TTY_HISTORY_LINES])]

\* init_tty, tty_clear
Clear ==
  [row |-> 0, col |-> 0, count |-> 0, hist |-> Cleared(tty_history, 0), screen |-> [y \in Row |-> BlankRow]]
TtyInit ==
  /\ terminal_row = 0 /\ terminal_column = 0 /\ tty_line_count = 0 /\ tty_view_offset = 0
  /\ tty_history = [l \in 0 .. TTY_HISTORY_LINES - 1 |-> [x \in 0 .. TTY_MAX_COLS - 1 |-> NUL]]
  /\ screen = [y \in Row |-> BlankRow]
  /\ crossed = FALSE /\ chars = 0
Becomes(s) ==
  /\ terminal_row' = s.row /\ terminal_column' = s.col /\ tty_line_count' = s.count
  /\ tty_history' = s.hist /\ screen' = s.screen /\ tty_view_offset' = 0
tty_clear ==
  /\ tty_line_count > 0 \/ terminal_column > 0
  /\ Becomes(Clear)
  /\ crossed' = FALSE
  /\ UNCHANGED chars

\* New output goes back to the newest lines first.
Live ==
  [row |-> terminal_row, col |-> terminal_column, count |-> tty_line_count, hist |-> tty_history,
   screen |-> IF tty_view_offset = 0 THEN screen
              ELSE Render(tty_history, tty_line_count, terminal_row, 0)]

\* tty_newline and, at the bottom, tty_scroll.
MutNewline(s) ==
  LET down == [s EXCEPT !.col = 0, !.count = @ + 1]
  IN  IF s.row + 1 < ROWS THEN [down EXCEPT !.row = @ + 1]
      ELSE [down EXCEPT !.screen = [y \in Row |-> IF y = ROWS - 1 THEN BlankRow ELSE s.screen[y + 1]]]
Newline(s) ==
  LET down == [s EXCEPT !.col = 0, !.count = @ + 1, !.hist = Cleared(@, s.count + 1)]
  IN  IF s.row + 1 < ROWS THEN [down EXCEPT !.row = @ + 1]
      ELSE [down EXCEPT !.screen = [y \in Row |-> IF y = ROWS - 1 THEN BlankRow ELSE s.screen[y + 1]]]

Backspace(s) ==
  IF s.col > 0 THEN
    [s EXCEPT !.col = @ - 1, !.hist[s.count % TTY_HISTORY_LINES][s.col - 1] = NUL,
              !.screen[s.row][s.col - 1] = BLANK]
  ELSE IF s.row > 0 THEN
    [s EXCEPT !.row = @ - 1, !.col = COLS - 1, !.screen[s.row - 1][COLS - 1] = BLANK]
  ELSE [s EXCEPT !.screen[s.row][s.col] = BLANK]

Letter(s, c) ==
  LET line == s.count % TTY_HISTORY_LINES
      drawn == [s EXCEPT !.screen[s.row][s.col] = c, !.col = @ + 1,
                         !.hist[line] = IF s.col < TTY_MAX_COLS - 1 THEN [@ EXCEPT ![s.col] = c, ![s.col + 1] = NUL] ELSE @]
  IN  IF s.col + 1 >= COLS THEN Newline(drawn) ELSE drawn

\* terminal_putchar
Put(s) == Becomes(s) /\ chars < MaxChars /\ chars' = chars + 1
PutNewline == Put(Newline(Live)) /\ UNCHANGED crossed
PutBackspace ==
  /\ Put(Backspace(Live))
  /\ crossed' = (crossed \/ (terminal_column = 0 /\ terminal_row > 0))
PutLetter(c) == Put(Letter(Live, c)) /\ UNCHANGED crossed

\* tty_max_scrollback, tty_scroll_view
Oldest == IF tty_line_count >= TTY_HISTORY_LINES THEN tty_line_count - TTY_HISTORY_LINES + 1 ELSE 0
MaxScrollback ==
  LET most == tty_line_count - terminal_row - Oldest IN IF most < 0 THEN 0 ELSE most
ClampView(n) == IF n < 0 THEN 0 ELSE IF n > MaxScrollback THEN MaxScrollback ELSE n
tty_scroll_view(delta) ==
  \E next \in {ClampView(tty_view_offset + delta)} :
    /\ next # tty_view_offset
    /\ tty_view_offset' = next
    /\ screen' = Render(tty_history, tty_line_count, terminal_row, next)
    /\ UNCHANGED <<terminal_row, terminal_column, tty_line_count, tty_history, crossed, chars>>

TtyNext ==
  \/ tty_clear \/ PutNewline \/ PutBackspace
  \/ \E c \in Letters : PutLetter(c)
  \/ \E d \in Deltas : tty_scroll_view(d)
TtySpec == TtyInit /\ [][TtyNext]_ttyVars

-----------------------------------------------------------------------------
(* Properties *)

\* The screen always shows what a repaint from the ring would show, at the newest lines
\* as after scrolling back, through wrapped lines, scrolling and the wrap of the ring,
\* unless a backspace went back over the start of a line; scrolling never reaches a
\* line that the ring has lost; and the cursor is on the screen.
ScrollbackFaithful ==
  /\ ~crossed => screen = Render(tty_history, tty_line_count, terminal_row, tty_view_offset)
  /\ tty_view_offset > 0 => tty_line_count - terminal_row - tty_view_offset >= Oldest
  /\ terminal_row \in Row /\ terminal_column \in Col

=============================================================================
