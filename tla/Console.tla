------------------------------ MODULE Console ------------------------------
(***************************************************************************)
(* The shell's line editor, kernel/dev/terminal.c, on the text screen of   *)
(* kernel/dev/tty.c and vga.c.  One step is one turn of the loop of        *)
(* shell_launch(), for one key; nothing else writes to the screen while it *)
(* runs.  A cell of the screen is reduced to who wrote it.                 *)
(***************************************************************************)
EXTENDS Naturals, Sequences

CONSTANTS
    COMMAND_BUFFER_SIZE, VGA_WIDTH, VGA_HEIGHT,
    HelpLen, ClearLen, EchoLen,     \* lengths of "help", "clear" and "echo "
    HelpText, UnknownText           \* lengths of what the shell answers

ASSUME ConsoleAssumption ==
    /\ COMMAND_BUFFER_SIZE \in Nat \ {0}
    /\ VGA_WIDTH \in Nat /\ VGA_WIDTH > 2 /\ VGA_HEIGHT \in Nat \ {0}
    /\ {HelpLen, ClearLen, EchoLen, HelpText, UnknownText} \subseteq Nat \ {0}

VARIABLES
    len,        \* of the line in buffer
    tty,        \* tty_x, tty_y and the video memory
    begin,      \* history: the address of the line's first character, as the prompt left it
    peak,       \* history: the longest the line has been
    undefined   \* a store went past the end of buffer
vars == <<len, tty, begin, peak, undefined>>

\* Video memory goes on below the screen; two rows of it are enough.
Cells == 0 .. VGA_WIDTH * (VGA_HEIGHT + 2)
Visible == 0 .. VGA_WIDTH * VGA_HEIGHT - 1
Address(t) == t.y * VGA_WIDTH + t.x

-----------------------------------------------------------------------------
(* tty_putchar() *)

tty_init(t) ==
    [x |-> 0, y |-> 0, screen |-> [a \in Cells |-> IF a \in Visible THEN "blank" ELSE t.screen[a]]]

\* vga_putchar_at() checks nothing: a store outside Cells would add a cell.
PutAt(t, mark) ==
    [t EXCEPT !.screen = [a \in Cells \cup {Address(t)} |-> IF a = Address(t) THEN mark ELSE @[a]]]

Newline(t) == [t EXCEPT !.x = 0, !.y = @ + 1]

\* Left of column 0 is column VGA_WIDTH of the row above: the same address.
Left(t) ==
    CASE t.x > 0             -> [t EXCEPT !.x = @ - 1]
      [] t.x = 0 /\ t.y > 0  -> [t EXCEPT !.x = VGA_WIDTH, !.y = @ - 1]
      [] OTHER               -> t

Right(t) == IF t.x + 1 >= VGA_WIDTH THEN Newline(t) ELSE [t EXCEPT !.x = @ + 1]

\* Mutant: the bottom is looked for only where a row ends.
Bug_tty_putchar(t, c) ==
    CASE c = "newline"   -> Newline(t)
      [] c = "backspace" -> PutAt(Left(t), "blank")
      [] OTHER ->
           LET moved == Right(PutAt(t, c))
           IN  IF moved.y >= VGA_HEIGHT /\ moved.x = 0 THEN tty_init(moved) ELSE moved

\* Mutant: a backspace only moves the cursor.
Bug_tty_putchar_moves(t, c) ==
    CASE c = "newline"   -> Newline(t)
      [] c = "backspace" -> Left(t)
      [] OTHER ->
           LET moved == Right(PutAt(t, c))
           IN  IF moved.y >= VGA_HEIGHT THEN tty_init(moved) ELSE moved

\* A newline does not look at the bottom of the screen; the next character does,
\* after it was stored.
tty_putchar(t, c) ==
    CASE c = "newline"   -> Newline(t)
      [] c = "backspace" -> PutAt(Left(t), "blank")
      [] OTHER ->
           LET moved == Right(PutAt(t, c))
           IN  IF moved.y >= VGA_HEIGHT THEN tty_init(moved) ELSE moved

tty_write(t, marks) ==
    LET after[i \in 0 .. Len(marks)] == IF i = 0 THEN t ELSE tty_putchar(after[i - 1], marks[i])
    IN  after[Len(marks)]

-----------------------------------------------------------------------------
Text(n) == [i \in 1 .. n |-> "text"]
Prompt == <<"prompt", "prompt">>

\* The commands a line of this length may be.
Commands ==
    (IF len = 0 THEN {"none"} ELSE {"unknown"})
        \cup {c \in {"help"} : len = HelpLen}
        \cup {c \in {"clear"} : len = ClearLen}
        \cup {c \in {"echo"} : len >= EchoLen}

\* command_execute()
Executed(t, command) ==
    CASE command = "none"    -> t
      [] command = "clear"   -> tty_init(t)
      [] command = "help"    -> tty_write(t, Append(Text(HelpText), "newline"))
      [] command = "echo"    -> tty_write(t, Append(Text(len - EchoLen), "newline"))
      [] command = "unknown" -> tty_write(t, Append(Text(UnknownText + len), "newline"))

\* After the prompt a new line begins; what is on the screen so far is output.
Prompted(t) ==
    LET old == [t EXCEPT !.screen = [a \in Cells |-> IF @[a] = "blank" THEN "blank" ELSE "text"]]
    IN  tty' = tty_write(old, Prompt) /\ begin' = Address(tty') /\ peak' = 0

Init ==
    LET blank == [x |-> 0, y |-> 0, screen |-> [a \in Cells |-> "blank"]]
    IN  /\ len = 0 /\ undefined = FALSE /\ peak = 0
        /\ tty = tty_write(blank, Prompt) /\ begin = Address(tty)

\* put_at_buffer(): the terminator of a line as long as the buffer is stored past it.
Put ==
    /\ len' = len + 1
    /\ undefined' = (len + 1 = COMMAND_BUFFER_SIZE)
    /\ tty' = tty_putchar(tty, "line")
    /\ peak' = IF len + 1 > peak THEN len + 1 ELSE peak
    /\ UNCHANGED begin

\* Mutant: an empty line is not looked for.
Bug_Backspace ==
    /\ len' = IF len = 0 THEN 0 ELSE len - 1
    /\ tty' = tty_putchar(tty, "backspace")
    /\ UNCHANGED <<begin, peak, undefined>>

\* Mutant: the character stays on the screen.
Bug_Backspace_kept ==
    /\ len > 0
    /\ len' = len - 1
    /\ UNCHANGED <<tty, begin, peak, undefined>>

\* buffer_backspace(); it returns at once on an empty line.
Backspace ==
    /\ len > 0
    /\ len' = len - 1
    /\ tty' = tty_putchar(tty, "backspace")
    /\ UNCHANGED <<begin, peak, undefined>>

\* command_buffer_submit()
Submit ==
    /\ \E command \in Commands : Prompted(Executed(Newline(tty), command))
    /\ len' = 0
    /\ UNCHANGED undefined

Next == ~undefined /\ (Put \/ Backspace \/ Submit)

Spec == Init /\ [][Next]_vars

-----------------------------------------------------------------------------
(* Properties *)

\* Between two keys the cursor is on the screen, or in the column right of it: newlines
\* take it two rows below at most, and the prompt that follows them finds the bottom.
\* No store leaves those two rows.
TypeOK ==
    /\ len \in 0 .. COMMAND_BUFFER_SIZE
    /\ tty.x \in 0 .. VGA_WIDTH /\ tty.y \in 0 .. VGA_HEIGHT - 1
    /\ tty.screen \in [Cells -> {"blank", "text", "prompt", "line"}]
    /\ begin \in Cells /\ peak \in 0 .. COMMAND_BUFFER_SIZE
    /\ undefined \in BOOLEAN

\* Nothing is ever shown to the right of or below the cursor, whatever rows a line
\* went over and came back from, nor at the cursor itself, except in column 0: what is
\* typed in the column right of the screen, where a backspace over the edge of a row
\* leaves the cursor, is stored in column 0 of the next row, and the cursor moves there.
NothingAhead ==
    \A a \in Visible :
        a > Address(tty) \/ (a = Address(tty) /\ tty.x > 0) => tty.screen[a] = "blank"

\* While the line never came to the end of its row, the screen shows it as it is:
\* what Enter submits, from the prompt to the cursor, and no more.
EchoExact ==
    (begin % VGA_WIDTH) + peak < VGA_WIDTH /\ begin \in Visible =>
        /\ Address(tty) = begin + len
        /\ \A a \in Visible :
              tty.screen[a] = "line" <=> a \in begin .. begin + len - 1

\* The character at the end of the last row clears the screen.
Cleared ==
    /\ tty.y = VGA_HEIGHT - 1 /\ tty.x + 1 >= VGA_WIDTH /\ Put
    /\ \A a \in Visible : tty'.screen[a] = "blank"

\* Editing a line never harms what is above it, the prompt and earlier output: a
\* backspace never does, and of the characters only the one at the end of the last row,
\* which clears the screen.
OutputKept ==
    [][Put \/ Backspace =>
          \/ \A a \in Visible : tty.screen[a] \in {"text", "prompt"} => tty'.screen[a] = tty.screen[a]
          \/ Cleared]_vars
=============================================================================
