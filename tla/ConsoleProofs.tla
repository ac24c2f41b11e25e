--------------------------- MODULE ConsoleProofs ---------------------------
(***************************************************************************)
(* Theorems about Console, for every size of the screen, of the buffer and *)
(* of what the shell writes.                                               *)
(*                                                                         *)
(* The products of the address are met in RowFacts only.  Then what one    *)
(* character does to a screen, what a text of any length does, and the     *)
(* inductive invariant IInv: besides the properties it says where the line *)
(* is while it fits its row, and that what is above it stays before it.    *)
(***************************************************************************)
EXTENDS Console, TLAPS, WellFoundedInduction, SequenceTheorems

Marks == {"blank", "text", "prompt", "line"}
Tty == [x : 0 .. VGA_WIDTH, y : Nat, screen : [Cells -> Marks]]
Row(y) == y * VGA_WIDTH

\* The sizes of the screen.
LEMMA SizeFacts == VGA_WIDTH \in Nat /\ VGA_WIDTH > 2 /\ VGA_HEIGHT \in Nat /\ VGA_HEIGHT > 0
BY ConsoleAssumption

\* Rows follow each other at the width of the screen.
LEMMA RowFacts ==
    /\ Row(0) = 0
    /\ \A y \in Nat : Row(y) \in Nat /\ Row(y + 1) = Row(y) + VGA_WIDTH
BY SizeFacts DEF Row

\* No row begins before one above it ends.
LEMMA RowOrder ==
    ASSUME NEW y \in Nat, NEW z \in Nat, y < z
    PROVE  Row(y) + VGA_WIDTH <= Row(z)
<1>1. PICK d \in Nat : z = y + 1 + d
  <2>1. z - y - 1 \in Nat /\ z = y + 1 + (z - y - 1)
    OBVIOUS
  <2> QED
    BY <2>1
<1>2. (y + 1 + d) * VGA_WIDTH = y * VGA_WIDTH + VGA_WIDTH + d * VGA_WIDTH
  BY SizeFacts
<1>3. y * VGA_WIDTH \in Nat /\ d * VGA_WIDTH \in Nat
  BY SizeFacts
<1> QED
  BY SizeFacts, <1>1, <1>2, <1>3 DEF Row

\* What can be seen is the rows of the screen; the memory goes on for two rows.
LEMMA CellFacts ==
    /\ \A a : a \in Cells <=> a \in Nat /\ a <= Row(VGA_HEIGHT + 2)
    /\ \A a : a \in Visible <=> a \in Nat /\ a < Row(VGA_HEIGHT)
    /\ Visible \subseteq Cells /\ Row(VGA_HEIGHT) \in Nat
<1>1. Row(VGA_HEIGHT + 2) \in Nat /\ Row(VGA_HEIGHT) \in Nat
  BY RowFacts, SizeFacts
<1>2. Row(VGA_HEIGHT) + VGA_WIDTH <= Row(VGA_HEIGHT + 2)
  BY RowOrder, SizeFacts
<1>3. Cells = 0 .. Row(VGA_HEIGHT + 2) /\ Visible = 0 .. Row(VGA_HEIGHT) - 1
  <2>1. VGA_WIDTH * (VGA_HEIGHT + 2) = (VGA_HEIGHT + 2) * VGA_WIDTH
    BY SizeFacts
  <2>2. VGA_WIDTH * VGA_HEIGHT = VGA_HEIGHT * VGA_WIDTH
    BY SizeFacts
  <2> QED
    BY <2>1, <2>2 DEF Cells, Visible, Row
<1>4. \A a : a \in Cells <=> a \in Nat /\ a <= Row(VGA_HEIGHT + 2)
  BY <1>1, <1>3
<1>5. \A a : a \in Visible <=> a \in Nat /\ a < Row(VGA_HEIGHT)
  BY <1>1, <1>3
<1> QED
  BY <1>1, <1>2, <1>4, <1>5, SizeFacts

\* Which row and column an address is.
LEMMA AddressFacts ==
    ASSUME NEW y \in Nat, NEW x \in 0 .. VGA_WIDTH - 1
    PROVE  (Row(y) + x) % VGA_WIDTH = x /\ (Row(y) + x) \div VGA_WIDTH = y
<1> DEFINE a == Row(y) + x
           q == a \div VGA_WIDTH
           r == a % VGA_WIDTH
<1>1. VGA_WIDTH \in Nat \ {0} /\ Row(y) \in Nat /\ a \in Nat
  BY SizeFacts, RowFacts
<1> HIDE DEF a
<1>2. q \in Nat /\ r \in 0 .. VGA_WIDTH - 1 /\ a = q * VGA_WIDTH + r
  <2>1. \A n \in Nat : \A w \in Nat \ {0} :
            n \div w \in Nat /\ n % w \in 0 .. w - 1 /\ n = (n \div w) * w + (n % w)
    OBVIOUS
  <2> QED
    BY <1>1, <2>1
<1> HIDE DEF q, r
<1>3. Row(q) \in Nat /\ a = Row(q) + r /\ a = Row(y) + x
  BY <1>2, RowFacts DEF Row, a
<1>4. q = y
  <2>1. q < y => Row(q) + VGA_WIDTH <= Row(y)
    BY <1>2, RowOrder
  <2>2. y < q => Row(y) + VGA_WIDTH <= Row(q)
    BY <1>2, RowOrder
  <2> QED
    BY <1>1, <1>2, <1>3, <2>1, <2>2
<1>5. r = x
  BY <1>1, <1>2, <1>3, <1>4
<1> QED
  BY <1>4, <1>5 DEF q, r, a

-----------------------------------------------------------------------------
(* What one character does *)

\* Where a cursor is.
LEMMA CursorFacts ==
    ASSUME NEW t \in Tty
    PROVE  /\ Address(t) = Row(t.y) + t.x /\ Address(t) \in Nat
           /\ t.x \in 0 .. VGA_WIDTH /\ t.y \in Nat /\ t.screen \in [Cells -> Marks]
           /\ t.y < VGA_HEIGHT + 2 => Address(t) \in Cells
<1>1. t.x \in 0 .. VGA_WIDTH /\ t.y \in Nat /\ t.screen \in [Cells -> Marks]
  BY DEF Tty
<1>2. Address(t) = Row(t.y) + t.x
  BY DEF Address, Row
<1>3. Row(t.y) \in Nat /\ Row(VGA_HEIGHT + 2) \in Nat
  BY <1>1, RowFacts, SizeFacts
<1>4. t.y < VGA_HEIGHT + 2 => Row(t.y) + VGA_WIDTH <= Row(VGA_HEIGHT + 2)
  BY <1>1, RowOrder, SizeFacts
<1> QED
  BY <1>1, <1>2, <1>3, <1>4, CellFacts, SizeFacts

\* A store changes one cell of the memory, when the cursor is not far below the screen.
LEMMA PutFacts ==
    ASSUME NEW t \in Tty, t.y < VGA_HEIGHT + 2, NEW mark \in Marks, NEW p, p = PutAt(t, mark)
    PROVE  /\ p \in Tty /\ p.x = t.x /\ p.y = t.y /\ Address(p) = Address(t)
           /\ \A a \in Cells : p.screen[a] = IF a = Address(t) THEN mark ELSE t.screen[a]
<1>1. Address(t) \in Cells /\ t.screen \in [Cells -> Marks]
  BY CursorFacts
<1>2. Cells \cup {Address(t)} = Cells
  BY <1>1
<1>3. p = [t EXCEPT !.screen =
              [a \in Cells |-> IF a = Address(t) THEN mark ELSE t.screen[a]]]
  BY <1>2 DEF PutAt
<1>4. p.x = t.x /\ p.y = t.y
      /\ p.screen = [a \in Cells |-> IF a = Address(t) THEN mark ELSE t.screen[a]]
  BY <1>3 DEF Tty
<1>5. p.screen \in [Cells -> Marks]
  BY <1>1, <1>4
<1>6. p \in Tty
  BY <1>3, <1>5 DEF Tty
<1> QED
  BY <1>4, <1>6 DEF Address

\* A newline goes to the start of the next row.
LEMMA NewlineFacts ==
    ASSUME NEW t \in Tty, NEW n, n = Newline(t)
    PROVE  /\ n \in Tty /\ n.x = 0 /\ n.y = t.y + 1 /\ n.screen = t.screen
           /\ Address(n) = Row(t.y) + VGA_WIDTH
<1>1. n = [t EXCEPT !.x = 0, !.y = t.y + 1]
  BY DEF Newline
<1>2. n.x = 0 /\ n.y = t.y + 1 /\ n.screen = t.screen
  BY <1>1 DEF Tty
<1>3. n \in Tty
  <2>1. 0 \in 0 .. VGA_WIDTH /\ t.y + 1 \in Nat
    BY CursorFacts, SizeFacts
  <2> QED
    BY <1>1, <2>1 DEF Tty
<1>4. Address(n) = Row(n.y) + n.x /\ Row(t.y + 1) = Row(t.y) + VGA_WIDTH /\ Row(t.y) \in Nat
  BY <1>3, CursorFacts, RowFacts
<1> QED
  BY <1>2, <1>3, <1>4, SizeFacts

\* One to the right is one further, except from the column right of the screen.
LEMMA RightFacts ==
    ASSUME NEW t \in Tty, NEW r, r = Right(t)
    PROVE  /\ r \in Tty /\ r.x < VGA_WIDTH /\ r.screen = t.screen
           /\ t.x + 1 < VGA_WIDTH => r.x = t.x + 1 /\ r.y = t.y
           /\ ~(t.x + 1 < VGA_WIDTH) => r.x = 0 /\ r.y = t.y + 1
           /\ t.x < VGA_WIDTH => Address(r) = Address(t) + 1
           /\ t.x = VGA_WIDTH => Address(r) = Address(t)
<1>1. /\ t.x \in 0 .. VGA_WIDTH /\ t.y \in Nat /\ VGA_WIDTH \in Nat /\ VGA_WIDTH > 2
      /\ Address(t) = Row(t.y) + t.x /\ Row(t.y) \in Nat
  BY CursorFacts, RowFacts, SizeFacts
<1>2. CASE t.x + 1 >= VGA_WIDTH
  <2>1. r = Newline(t)
    BY <1>2 DEF Right
  <2>2. r \in Tty /\ r.x = 0 /\ r.y = t.y + 1 /\ r.screen = t.screen /\ Address(r) = Row(t.y) + VGA_WIDTH
    BY <2>1, NewlineFacts
  <2> QED
    BY <1>1, <1>2, <2>2
<1>3. CASE ~(t.x + 1 >= VGA_WIDTH)
  <2>1. r = [t EXCEPT !.x = t.x + 1]
    BY <1>3 DEF Right
  <2>2. r.x = t.x + 1 /\ r.y = t.y /\ r.screen = t.screen
    BY <2>1 DEF Tty
  <2>3. t.x + 1 \in 0 .. VGA_WIDTH
    BY <1>1, <1>3
  <2>4. r \in Tty
    BY <2>1, <2>3 DEF Tty
  <2>5. Address(r) = Row(t.y) + (t.x + 1)
    BY <2>2, <2>4, CursorFacts
  <2> QED
    BY <1>1, <1>3, <2>2, <2>4, <2>5
<1> QED
  BY <1>2, <1>3

\* One to the left is one before, except from the start of a row.
LEMMA LeftFacts ==
    ASSUME NEW t \in Tty, NEW l, l = Left(t)
    PROVE  /\ l \in Tty /\ l.y <= t.y /\ l.screen = t.screen
           /\ t.x > 0 => l.x = t.x - 1 /\ l.y = t.y /\ Address(l) = Address(t) - 1
           /\ t.x = 0 => Address(l) = Address(t) /\ (t.y > 0 => l.x = VGA_WIDTH)
<1>1. /\ t.x \in 0 .. VGA_WIDTH /\ t.y \in Nat /\ VGA_WIDTH \in Nat /\ VGA_WIDTH > 2
      /\ Address(t) = Row(t.y) + t.x /\ Row(t.y) \in Nat
  BY CursorFacts, RowFacts, SizeFacts
<1>2. CASE t.x > 0
  <2>1. l = [t EXCEPT !.x = t.x - 1]
    BY <1>2 DEF Left
  <2>2. l.x = t.x - 1 /\ l.y = t.y /\ l.screen = t.screen
    BY <2>1 DEF Tty
  <2>3. t.x - 1 \in 0 .. VGA_WIDTH
    BY <1>1, <1>2
  <2>4. l \in Tty
    BY <2>1, <2>3 DEF Tty
  <2>5. Address(l) = Row(t.y) + (t.x - 1)
    BY <2>2, <2>4, CursorFacts
  <2> QED
    BY <1>1, <1>2, <2>2, <2>4, <2>5
<1>3. CASE t.x = 0 /\ t.y > 0
  <2>1. l = [t EXCEPT !.x = VGA_WIDTH, !.y = t.y - 1]
    BY <1>3 DEF Left
  <2>2. l.x = VGA_WIDTH /\ l.y = t.y - 1 /\ l.screen = t.screen
    BY <2>1 DEF Tty
  <2>3. t.y - 1 \in Nat /\ (t.y - 1) + 1 = t.y
    BY <1>1, <1>3
  <2>4. l \in Tty
    <3>1. VGA_WIDTH \in 0 .. VGA_WIDTH
      BY <1>1
    <3> QED
      BY <2>1, <2>3, <3>1 DEF Tty
  <2>5. Address(l) = Row(t.y - 1) + VGA_WIDTH
    BY <2>2, <2>4, CursorFacts
  <2>6. Row(t.y) = Row(t.y - 1) + VGA_WIDTH
    BY <2>3, RowFacts
  <2> QED
    BY <1>1, <1>3, <2>2, <2>3, <2>4, <2>5, <2>6
<1>4. CASE t.x = 0 /\ ~(t.y > 0)
  <2>1. l = t
    BY <1>1, <1>4 DEF Left
  <2> QED
    BY <1>1, <1>4, <2>1
<1> QED
  BY <1>1, <1>2, <1>3, <1>4

\* A cleared screen is blank where it can be seen.
LEMMA ClearFacts ==
    ASSUME NEW t \in Tty, NEW i, i = tty_init(t)
    PROVE  /\ i \in Tty /\ i.x = 0 /\ i.y = 0 /\ Address(i) = 0
           /\ \A a \in Cells : i.screen[a] = IF a \in Visible THEN "blank" ELSE t.screen[a]
<1>1. t.screen \in [Cells -> Marks] /\ VGA_WIDTH \in Nat
  BY CursorFacts, SizeFacts
<1>2. /\ i.x = 0 /\ i.y = 0
      /\ i.screen = [a \in Cells |-> IF a \in Visible THEN "blank" ELSE t.screen[a]]
  BY DEF tty_init
<1>3. i.screen \in [Cells -> Marks]
  BY <1>1, <1>2 DEF Marks
<1>4. i \in Tty
  BY <1>1, <1>3 DEF tty_init, Tty
<1>5. Address(i) = Row(0) + 0
  BY <1>2, <1>4, CursorFacts
<1> QED
  BY <1>2, <1>4, <1>5, RowFacts

Blank(t) == \A a \in Visible : t.screen[a] = "blank"

\* A character goes to the cursor, which moves on, or clears the screen.
LEMMA CharFacts ==
    ASSUME NEW t \in Tty, t.y < VGA_HEIGHT + 2, NEW c \in Marks, NEW n, n = tty_putchar(t, c)
    PROVE  /\ n \in Tty /\ n.x < VGA_WIDTH /\ n.y < VGA_HEIGHT
           /\ \A a \in Cells : n.screen[a] \in {"blank", c, t.screen[a]}
           /\ \/ Blank(n) /\ n.x = 0 /\ n.y = 0
              \/ /\ \A a \in Cells : n.screen[a] = IF a = Address(t) THEN c ELSE t.screen[a]
                 /\ t.x + 1 < VGA_WIDTH => n.x = t.x + 1 /\ n.y = t.y
                 /\ t.x < VGA_WIDTH => Address(n) = Address(t) + 1
                 /\ t.x = VGA_WIDTH => Address(n) = Address(t) /\ n.x = 0
           /\ t.x + 1 < VGA_WIDTH /\ t.y < VGA_HEIGHT =>
                 /\ \A a \in Cells : n.screen[a] = IF a = Address(t) THEN c ELSE t.screen[a]
                 /\ n.x = t.x + 1 /\ n.y = t.y
           /\ t.y + 1 < VGA_HEIGHT =>
                 \A a \in Cells : n.screen[a] = IF a = Address(t) THEN c ELSE t.screen[a]
<1> DEFINE p == PutAt(t, c)
           moved == Right(p)
<1>1. c # "newline" /\ c # "backspace"
  BY DEF Marks
<1>2. n = IF moved.y >= VGA_HEIGHT THEN tty_init(moved) ELSE moved
  BY <1>1 DEF tty_putchar
<1>3. /\ p \in Tty /\ p.x = t.x /\ p.y = t.y /\ Address(p) = Address(t)
      /\ \A a \in Cells : p.screen[a] = IF a = Address(t) THEN c ELSE t.screen[a]
  BY PutFacts
<1> HIDE DEF p
<1>4. /\ moved \in Tty /\ moved.x < VGA_WIDTH /\ moved.screen = p.screen
      /\ t.x + 1 < VGA_WIDTH => moved.x = t.x + 1 /\ moved.y = t.y
      /\ ~(t.x + 1 < VGA_WIDTH) => moved.x = 0 /\ moved.y = t.y + 1
      /\ t.x < VGA_WIDTH => Address(moved) = Address(t) + 1
      /\ t.x = VGA_WIDTH => Address(moved) = Address(t)
  BY <1>3, RightFacts
<1> HIDE DEF moved
<1>5. CASE moved.y >= VGA_HEIGHT
  <2>1. /\ n \in Tty /\ n.x = 0 /\ n.y = 0
        /\ \A a \in Cells : n.screen[a] = IF a \in Visible THEN "blank" ELSE p.screen[a]
    BY <1>2, <1>4, <1>5, ClearFacts
  <2>2. \A a \in Cells : n.screen[a] \in {"blank", c, t.screen[a]}
    BY <1>3, <2>1
  <2>3. Visible \subseteq Cells
    BY CellFacts
  <2>4. Blank(n)
    BY <2>1, <2>3 DEF Blank
  <2>5. ~(t.x + 1 < VGA_WIDTH /\ t.y < VGA_HEIGHT)
    <3>1. t.y \in Nat
      BY CursorFacts
    <3> QED
      BY <1>4, <1>5, <3>1, SizeFacts
  <2>6. ~(t.y + 1 < VGA_HEIGHT)
    <3>1. t.y \in Nat
      BY CursorFacts
    <3> QED
      BY <1>4, <1>5, <3>1, SizeFacts
  <2> QED
    BY <2>1, <2>2, <2>4, <2>5, <2>6, SizeFacts
<1>6. CASE ~(moved.y >= VGA_HEIGHT)
  <2>1. n = moved /\ n.y < VGA_HEIGHT
    <3>1. moved.y \in Nat
      BY <1>4, CursorFacts
    <3> QED
      BY <1>2, <1>6, <3>1, SizeFacts
  <2>2. \A a \in Cells : n.screen[a] = IF a = Address(t) THEN c ELSE t.screen[a]
    BY <1>3, <1>4, <2>1
  <2> QED
    BY <1>4, <2>1, <2>2, SizeFacts
<1> QED
  BY <1>5, <1>6

\* A backspace blanks the cell it moves to.
LEMMA BackspaceFacts ==
    ASSUME NEW t \in Tty, t.y < VGA_HEIGHT, NEW n, n = tty_putchar(t, "backspace")
    PROVE  /\ n \in Tty /\ n.y < VGA_HEIGHT
           /\ \A a \in Cells : n.screen[a] = IF a = Address(n) THEN "blank" ELSE t.screen[a]
           /\ t.x > 0 => n.x = t.x - 1 /\ n.y = t.y /\ Address(n) = Address(t) - 1
           /\ t.x = 0 => Address(n) = Address(t) /\ (t.y > 0 => n.x = VGA_WIDTH)
<1> DEFINE l == Left(t)
<1>1. n = PutAt(l, "blank")
  BY DEF tty_putchar
<1>2. /\ l \in Tty /\ l.y <= t.y /\ l.screen = t.screen
      /\ t.x > 0 => l.x = t.x - 1 /\ l.y = t.y /\ Address(l) = Address(t) - 1
      /\ t.x = 0 => Address(l) = Address(t) /\ (t.y > 0 => l.x = VGA_WIDTH)
  BY LeftFacts
<1> HIDE DEF l
<1>3. l.y < VGA_HEIGHT /\ l.y < VGA_HEIGHT + 2
  <2>1. l.y \in Nat /\ t.y \in Nat
    BY <1>2, CursorFacts
  <2> QED
    BY <1>2, <2>1, SizeFacts
<1>4. "blank" \in Marks
  BY DEF Marks
<1>5. /\ n \in Tty /\ n.x = l.x /\ n.y = l.y /\ Address(n) = Address(l)
      /\ \A a \in Cells : n.screen[a] = IF a = Address(l) THEN "blank" ELSE l.screen[a]
  BY <1>1, <1>2, <1>3, <1>4, PutFacts
<1> QED
  BY <1>2, <1>3, <1>5
-----------------------------------------------------------------------------
(* What a text does *)

\* A non-empty set of naturals has a least element.
LEMMA LeastIndex ==
    ASSUME NEW S, S \subseteq Nat, S # {}
    PROVE  \E x \in S : \A y \in S : x <= y
<1>1. \E x \in S : \A y \in S : ~ (<<y, x>> \in OpToRel(<, Nat))
  BY NatLessThanWellFounded, WFMin, Zenon
<1>2. PICK x \in S : \A y \in S : ~ (<<y, x>> \in OpToRel(<, Nat))
  BY <1>1
<1>3. \A y \in S : x <= y
  <2> SUFFICES ASSUME NEW y \in S PROVE x <= y
    OBVIOUS
  <2>1. ~(y < x)
    BY <1>2 DEF OpToRel
  <2> QED
    BY <2>1
<1> QED
  BY <1>3

\* The screen after i characters.
WriteStage(t, marks, f, i) == IF i = 0 THEN t ELSE tty_putchar(f[i - 1], marks[i])

\* A function with the screens after each character exists for every text.
LEMMA WriteExists ==
    ASSUME NEW t, NEW marks, NEW n \in Nat
    PROVE  \E f : f = [i \in 0 .. n |-> WriteStage(t, marks, f, i)]
<1> DEFINE Some(m) == \E f : f = [i \in 0 .. m |-> WriteStage(t, marks, f, i)]
           bad == {m \in Nat : ~Some(m)}
<1>1. ASSUME bad # {} PROVE FALSE
  <2>1. bad \subseteq Nat
    OBVIOUS
  <2>2. PICK m \in bad : \A y \in bad : m <= y
    <3> HIDE DEF bad
    <3> QED
      BY <1>1, <2>1, LeastIndex
  <2>3. m \in Nat /\ ~Some(m)
    BY <2>2
  <2>4. CASE m = 0
    <3> DEFINE f == [i \in 0 .. 0 |-> t]
    <3>1. f = [i \in 0 .. 0 |-> WriteStage(t, marks, f, i)]
      <4>1. \A i \in 0 .. 0 : WriteStage(t, marks, f, i) = t
        BY DEF WriteStage
      <4> QED
        BY <4>1
    <3> QED
      BY <2>3, <2>4, <3>1
  <2>5. CASE m # 0
    <3>1. m - 1 \in Nat /\ m - 1 \notin bad
      BY <2>1, <2>2, <2>3, <2>5
    <3>2. PICK f : f = [i \in 0 .. m - 1 |-> WriteStage(t, marks, f, i)]
      BY <3>1
    <3> DEFINE g == [i \in 0 .. m |-> IF i = m THEN WriteStage(t, marks, f, m) ELSE f[i]]
    <3>3. ASSUME NEW i \in 0 .. m PROVE g[i] = WriteStage(t, marks, g, i)
      <4>1. CASE i = 0
        <5>1. g[0] = f[0] /\ 0 \in 0 .. m - 1
          BY <2>3, <2>5
        <5>2. f[0] = WriteStage(t, marks, f, 0)
          BY <3>2, <5>1
        <5> QED
          BY <4>1, <5>1, <5>2 DEF WriteStage
      <4>2. CASE i # 0
        <5>1. i - 1 \in 0 .. m - 1 /\ i - 1 \in 0 .. m /\ i - 1 # m
          BY <2>3, <3>3, <4>2
        <5>2. g[i - 1] = f[i - 1]
          BY <5>1
        <5> HIDE DEF g
        <5>3. WriteStage(t, marks, g, i) = WriteStage(t, marks, f, i)
          BY <4>2, <5>2 DEF WriteStage
        <5>4. g[i] = IF i = m THEN WriteStage(t, marks, f, m) ELSE f[i]
          BY <3>3 DEF g
        <5>5. i # m => i \in 0 .. m - 1
          BY <2>3, <3>3
        <5>6. i # m => f[i] = WriteStage(t, marks, f, i)
          BY <3>2, <5>5
        <5> QED
          BY <5>3, <5>4, <5>6
      <4> QED
        BY <4>1, <4>2
    <3>4. g = [i \in 0 .. m |-> WriteStage(t, marks, g, i)]
      <4>1. g = [i \in 0 .. m |-> g[i]]
        OBVIOUS
      <4> HIDE DEF g
      <4> QED
        BY <3>3, <4>1
    <3> HIDE DEF g
    <3> QED
      BY <2>3, <3>4
  <2> QED
    BY <2>4, <2>5
<1> QED
  BY <1>1

\* Writing a text is writing its characters, one after the other.
LEMMA WriteFacts ==
    ASSUME NEW t, NEW marks, Len(marks) \in Nat
    PROVE  \E after : /\ tty_write(t, marks) = after[Len(marks)] /\ after[0] = t
                      /\ \A i \in 1 .. Len(marks) : after[i] = tty_putchar(after[i - 1], marks[i])
<1> DEFINE after == CHOOSE f : f = [i \in 0 .. Len(marks) |-> WriteStage(t, marks, f, i)]
<1>1. after = [i \in 0 .. Len(marks) |-> WriteStage(t, marks, after, i)]
  BY WriteExists
<1>2. tty_write(t, marks) = after[Len(marks)]
  BY DEF tty_write, WriteStage
<1> HIDE DEF after
<1>3. \A i \in 0 .. Len(marks) : after[i] = WriteStage(t, marks, after, i)
  BY <1>1
<1>4. after[0] = t
  BY <1>3 DEF WriteStage
<1>5. \A i \in 1 .. Len(marks) : after[i] = tty_putchar(after[i - 1], marks[i])
  BY <1>3 DEF WriteStage
<1> QED
  BY <1>2, <1>4, <1>5

\* The cursor is at a column of the screen, and nothing is shown from there on.
Untouched(t) == t.x < VGA_WIDTH /\ \A a \in Visible : a >= Address(t) => t.screen[a] = "blank"

\* A character leaves nothing ahead of it where there was nothing, and the cursor on the screen.
LEMMA UntouchedKept ==
    ASSUME NEW t \in Tty, t.y < VGA_HEIGHT + 2, Untouched(t), NEW c \in Marks,
           NEW n, n = tty_putchar(t, c)
    PROVE  /\ n \in Tty /\ n.y < VGA_HEIGHT /\ Untouched(n)
           /\ \A a \in Cells : n.screen[a] \in {"blank", c, t.screen[a]}
<1>1. /\ n \in Tty /\ n.x < VGA_WIDTH /\ n.y < VGA_HEIGHT
      /\ \A a \in Cells : n.screen[a] \in {"blank", c, t.screen[a]}
      /\ \/ Blank(n)
         \/ /\ \A a \in Cells : n.screen[a] = IF a = Address(t) THEN c ELSE t.screen[a]
            /\ t.x < VGA_WIDTH => Address(n) = Address(t) + 1
  BY CharFacts
<1>2. Visible \subseteq Cells /\ \A a \in Visible : a \in Nat
  BY CellFacts
<1>3. Address(t) \in Nat /\ Address(n) \in Nat
  BY <1>1, CursorFacts
<1>4. CASE Blank(n)
  BY <1>1, <1>4 DEF Untouched, Blank
<1>5. CASE /\ \A a \in Cells : n.screen[a] = IF a = Address(t) THEN c ELSE t.screen[a]
           /\ t.x < VGA_WIDTH => Address(n) = Address(t) + 1
  <2>1. Address(n) = Address(t) + 1
    BY <1>5 DEF Untouched
  <2>2. ASSUME NEW a \in Visible, a >= Address(n) PROVE n.screen[a] = "blank"
    <3>1. a \in Cells /\ a # Address(t) /\ a >= Address(t)
      BY <1>2, <1>3, <2>1, <2>2
    <3> QED
      BY <1>5, <3>1 DEF Untouched
  <2> QED
    BY <1>1, <2>2 DEF Untouched
<1> QED
  BY <1>1, <1>4, <1>5

\* Nothing is shown after the cursor; at the cursor there may be the first character of a
\* row, as long as the cursor is at its start.
AheadBlank(t) ==
    \A a \in Visible : a > Address(t) \/ (a = Address(t) /\ t.x > 0) => t.screen[a] = "blank"

\* The next row is untouched when nothing is shown ahead.
LEMMA NewlineUntouched ==
    ASSUME NEW t \in Tty, NEW k \in Nat, t.y <= k, AheadBlank(t) \/ Untouched(t),
           NEW n, n = Newline(t)
    PROVE  n \in Tty /\ n.y <= k + 1 /\ n.x = 0 /\ Untouched(n)
<1>1. /\ n \in Tty /\ n.x = 0 /\ n.y = t.y + 1 /\ n.screen = t.screen
      /\ Address(n) = Row(t.y) + VGA_WIDTH
  BY NewlineFacts
<1>2. /\ t.x \in 0 .. VGA_WIDTH /\ t.y \in Nat /\ Address(t) = Row(t.y) + t.x
      /\ Row(t.y) \in Nat /\ \A a \in Visible : a \in Nat
  BY CursorFacts, RowFacts, CellFacts
<1>3. ASSUME NEW a \in Visible, a >= Address(n) PROVE n.screen[a] = "blank"
  <2>1. a > Address(t) \/ (a = Address(t) /\ t.x > 0)
    BY <1>1, <1>2, <1>3, SizeFacts
  <2>2. a >= Address(t)
    BY <1>2, <2>1
  <2> QED
    BY <1>1, <2>1, <2>2 DEF AheadBlank, Untouched
<1> QED
  BY <1>1, <1>2, <1>3, SizeFacts DEF Untouched

\* What a command writes, however long, leaves nothing ahead of it, and the cursor on the
\* screen or in the two rows below it.
LEMMA TextFacts ==
    ASSUME NEW t \in Tty, t.y <= VGA_HEIGHT, Untouched(t), NEW k \in Nat,
           NEW w, w = tty_write(t, Append(Text(k), "newline"))
    PROVE  w \in Tty /\ w.y < VGA_HEIGHT + 2 /\ Untouched(w)
<1> DEFINE marks == Append(Text(k), "newline")
<1>1. /\ Len(marks) = k + 1 /\ marks[k + 1] = "newline"
      /\ \A i \in 1 .. k : marks[i] = "text"
  <2>1. Text(k) \in Seq({"text"}) /\ Len(Text(k)) = k /\ \A i \in 1 .. k : Text(k)[i] = "text"
    BY DEF Text
  <2> QED
    BY <2>1
<1> HIDE DEF marks
<1>2. PICK after : /\ tty_write(t, marks) = after[Len(marks)] /\ after[0] = t
                   /\ \A i \in 1 .. Len(marks) : after[i] = tty_putchar(after[i - 1], marks[i])
  <2>1. Len(marks) \in Nat
    BY <1>1
  <2> QED
    BY <2>1, WriteFacts
<1> DEFINE Fine(s) == s \in Tty /\ s.y <= VGA_HEIGHT /\ Untouched(s)
           bad == {i \in 0 .. k : ~Fine(after[i])}
<1>3. ASSUME bad # {} PROVE FALSE
  <2>1. bad \subseteq Nat
    OBVIOUS
  <2>2. PICK i \in bad : \A j \in bad : i <= j
    <3> HIDE DEF bad
    <3> QED
      BY <1>3, <2>1, LeastIndex
  <2>3. i \in 0 .. k /\ ~Fine(after[i])
    BY <2>2
  <2>4. i # 0
    BY <1>2, <2>3
  <2>5. i \in 1 .. k /\ i - 1 \in 0 .. k /\ i - 1 \notin bad /\ i \in 1 .. k + 1
    BY <2>2, <2>3, <2>4
  <2>6. Fine(after[i - 1])
    BY <2>5
  <2>7. after[i] = tty_putchar(after[i - 1], "text")
    BY <1>1, <1>2, <2>5
  <2>8. after[i - 1].y < VGA_HEIGHT + 2
    <3>1. after[i - 1].y \in Nat
      BY <2>6, CursorFacts
    <3> QED
      BY <2>6, <3>1, SizeFacts
  <2>9. "text" \in Marks
    BY DEF Marks
  <2>10. after[i] \in Tty /\ after[i].y < VGA_HEIGHT /\ Untouched(after[i])
    BY <2>6, <2>7, <2>8, <2>9, UntouchedKept
  <2>11. after[i].y \in Nat
    BY <2>10, CursorFacts
  <2> QED
    BY <2>3, <2>10, <2>11, SizeFacts
<1>4. Fine(after[k])
  <2>1. k \in 0 .. k
    OBVIOUS
  <2> QED
    BY <1>3, <2>1
<1>5. w = Newline(after[k])
  <2>1. k + 1 \in 1 .. k + 1 /\ (k + 1) - 1 = k
    OBVIOUS
  <2>2. after[k + 1] = tty_putchar(after[k], "newline")
    BY <1>1, <1>2, <2>1
  <2> QED
    BY <1>1, <1>2, <2>2 DEF tty_putchar, marks
<1>6. w \in Tty /\ w.y <= VGA_HEIGHT + 1 /\ Untouched(w)
  BY <1>4, <1>5, NewlineUntouched, SizeFacts
<1>7. w.y \in Nat
  BY <1>6, CursorFacts
<1> QED
  BY <1>6, <1>7, SizeFacts
Output(t) == {a \in Visible : t.screen[a] \in {"text", "prompt"}}

\* A new line begins on the screen, untouched, with all output before it.
Begun(t) ==
    /\ t \in Tty /\ t.y < VGA_HEIGHT /\ Untouched(t)
    /\ \A a \in Visible : t.screen[a] # "line"

\* The prompt starts a new line, wherever up to two rows below the screen it is written.
LEMMA PromptFacts ==
    ASSUME NEW t \in Tty, t.y < VGA_HEIGHT + 2, Untouched(t), \A a \in Cells : t.screen[a] # "line"
    PROVE  Begun(tty_write(t, Prompt))
<1>1. Len(Prompt) = 2 /\ Prompt[1] = "prompt" /\ Prompt[2] = "prompt"
  BY DEF Prompt
<1>2. PICK after : /\ tty_write(t, Prompt) = after[Len(Prompt)] /\ after[0] = t
                   /\ \A i \in 1 .. Len(Prompt) : after[i] = tty_putchar(after[i - 1], Prompt[i])
  <2>1. Len(Prompt) \in Nat
    BY <1>1
  <2> QED
    BY SMTT(30), <2>1, WriteFacts
<1>3. after[1] = tty_putchar(t, "prompt") /\ after[2] = tty_putchar(after[1], "prompt")
  BY <1>1, <1>2
<1>4. "prompt" \in Marks /\ Visible \subseteq Cells
  BY CellFacts DEF Marks
<1>5. /\ after[1] \in Tty /\ after[1].y < VGA_HEIGHT /\ Untouched(after[1])
      /\ \A a \in Cells : after[1].screen[a] \in {"blank", "prompt", t.screen[a]}
  BY <1>3, <1>4, UntouchedKept
<1>6. after[1].y < VGA_HEIGHT + 2
  <2>1. after[1].y \in Nat
    BY <1>5, CursorFacts
  <2> QED
    BY <1>5, <2>1, SizeFacts
<1>7. /\ after[2] \in Tty /\ after[2].y < VGA_HEIGHT /\ Untouched(after[2])
      /\ \A a \in Cells : after[2].screen[a] \in {"blank", "prompt", after[1].screen[a]}
  BY <1>3, <1>4, <1>5, <1>6, UntouchedKept
<1>8. \A a \in Visible : after[2].screen[a] # "line"
  BY <1>4, <1>5, <1>7
<1> QED
  BY <1>1, <1>2, <1>7, <1>8 DEF Begun

-----------------------------------------------------------------------------
(* The inductive invariant *)

\* All output is before the line; the line is before the cursor, and before the cell the
\* cursor stands for in the column right of the screen.
Above ==
    \/ Output(tty) = {}
    \/ /\ begin + len + (IF tty.x = VGA_WIDTH THEN 1 ELSE 0) <= Address(tty)
       /\ \A a \in Output(tty) : a < begin

\* Where the cursor and the line are while the line fits the row of its prompt.
OneRow ==
    (begin % VGA_WIDTH) + peak < VGA_WIDTH =>
        /\ tty.y = begin \div VGA_WIDTH /\ tty.x = (begin % VGA_WIDTH) + len
        /\ \A a \in Visible : tty.screen[a] = "line" <=> a \in begin .. begin + len - 1

Lengths ==
    /\ len \in 0 .. COMMAND_BUFFER_SIZE /\ peak \in 0 .. COMMAND_BUFFER_SIZE /\ len <= peak
    /\ undefined \in BOOLEAN /\ (~undefined => len < COMMAND_BUFFER_SIZE)

IInv ==
    /\ Lengths
    /\ tty \in Tty /\ tty.y < VGA_HEIGHT
    /\ begin \in Visible
    /\ AheadBlank(tty)
    /\ Above
    /\ OneRow

\* The invariant has the properties of a state.
LEMMA InvImplies == IInv => TypeOK /\ NothingAhead /\ EchoExact
<1> SUFFICES ASSUME IInv PROVE TypeOK /\ NothingAhead /\ EchoExact
  OBVIOUS
<1>1. /\ tty.x \in 0 .. VGA_WIDTH /\ tty.y \in Nat /\ tty.y < VGA_HEIGHT
      /\ tty.screen \in [Cells -> Marks] /\ Address(tty) = Row(tty.y) + tty.x
  BY CursorFacts DEF IInv
<1>2. begin \in Visible /\ begin \in Cells /\ begin \in Nat
  BY CellFacts DEF IInv
<1>3. TypeOK
  <2>1. tty.y \in 0 .. VGA_HEIGHT - 1
    BY <1>1, SizeFacts
  <2> QED
    BY <1>1, <1>2, <2>1 DEF IInv, Lengths, TypeOK, Marks
<1>4. NothingAhead
  BY DEF IInv, AheadBlank, NothingAhead
<1>5. EchoExact
  <2>1. begin = Row(begin \div VGA_WIDTH) + (begin % VGA_WIDTH)
    <3>1. \A n \in Nat : \A w \in Nat \ {0} : n = (n \div w) * w + (n % w)
      OBVIOUS
    <3> QED
      BY <1>2, <3>1, SizeFacts DEF Row
  <2>2. begin \div VGA_WIDTH \in Nat /\ begin % VGA_WIDTH \in Nat /\ len \in Nat
    <3>1. \A n \in Nat : \A w \in Nat \ {0} : n \div w \in Nat /\ n % w \in Nat
      OBVIOUS
    <3> QED
      BY <1>2, <3>1, SizeFacts, ConsoleAssumption DEF IInv, Lengths
  <2>3. Row(begin \div VGA_WIDTH) \in Nat
    BY <2>2, RowFacts
  <2>4. OneRow
    BY DEF IInv
  <2>5. ASSUME (begin % VGA_WIDTH) + peak < VGA_WIDTH
        PROVE  Address(tty) = begin + len
    <3> DEFINE q == begin \div VGA_WIDTH
               r == begin % VGA_WIDTH
    <3>1. tty.y = q /\ tty.x = r + len
      BY <2>4, <2>5 DEF OneRow
    <3>2. Address(tty) = Row(q) + (r + len)
      BY <1>1, <3>1
    <3>3. begin = Row(q) + r /\ Row(q) \in Nat /\ r \in Nat
      BY <2>1, <2>2, <2>3
    <3> HIDE DEF q, r
    <3> QED
      BY <2>2, <3>2, <3>3
  <2> QED
    BY <2>4, <2>5 DEF OneRow, EchoExact
<1> QED
  BY <1>3, <1>4, <1>5

Beginning == Begun(tty) /\ begin = Address(tty) /\ len = 0 /\ peak = 0 /\ undefined = FALSE

\* A line that just began has the invariant.
LEMMA BegunInv == Beginning => IInv
<1> SUFFICES ASSUME Begun(tty), begin = Address(tty), len = 0, peak = 0, undefined = FALSE
             PROVE  IInv
  BY DEF Beginning
<1>1. tty \in Tty /\ tty.y < VGA_HEIGHT /\ tty.x < VGA_WIDTH
  BY DEF Begun, Untouched
<1>2. /\ tty.x \in 0 .. VGA_WIDTH - 1 /\ tty.y \in Nat /\ Address(tty) \in Nat
      /\ Address(tty) = Row(tty.y) + tty.x /\ Row(tty.y) \in Nat
  BY <1>1, CursorFacts, RowFacts, SizeFacts
<1>3. Lengths
  <2>1. 0 \in 0 .. COMMAND_BUFFER_SIZE /\ 0 < COMMAND_BUFFER_SIZE /\ 0 <= 0
    BY ConsoleAssumption
  <2>2. undefined \in BOOLEAN
    OBVIOUS
  <2> QED
    BY <2>1, <2>2 DEF Lengths
<1>4. begin \in Visible
  <2>1. Row(tty.y) + VGA_WIDTH <= Row(VGA_HEIGHT)
    BY <1>1, <1>2, SizeFacts, RowOrder
  <2>2. Row(VGA_HEIGHT) \in Nat
    BY CellFacts
  <2>3. Address(tty) < Row(VGA_HEIGHT)
    BY <1>2, <2>1, <2>2, SizeFacts
  <2> QED
    BY <1>2, <2>3, CellFacts
<1>5. \A a \in Visible : a \in Nat /\ (a >= Address(tty) => tty.screen[a] = "blank")
  BY CellFacts DEF Begun, Untouched
<1>6. AheadBlank(tty)
  BY <1>2, <1>5 DEF AheadBlank
<1>7. Above
  <2>1. ASSUME NEW a \in Output(tty) PROVE a < begin
    BY <1>2, <1>5 DEF Output
  <2> QED
    BY <1>1, <1>2, <2>1, SizeFacts DEF Above
<1>8. OneRow
  <2>1. begin % VGA_WIDTH = tty.x /\ begin \div VGA_WIDTH = tty.y
    BY <1>2, AddressFacts
  <2>2. begin .. begin + len - 1 = {}
    BY <1>2
  <2>3. \A a \in Visible : tty.screen[a] = "line" <=> a \in begin .. begin + len - 1
    BY <2>2 DEF Begun
  <2> QED
    BY <1>2, <2>1, <2>3 DEF OneRow
<1> QED
  BY <1>1, <1>3, <1>4, <1>6, <1>7, <1>8 DEF IInv

\* So has one that begins with a step.
LEMMA BegunAgain == (Beginning => IInv)'
BY BegunInv, PTL

\* What a step of the invariant's state gives: the numbers the steps need.
LEMMA InvNumbers ==
    ASSUME IInv
    PROVE  /\ len \in Nat /\ peak \in Nat /\ len <= peak /\ begin \in Nat
           /\ tty.x \in 0 .. VGA_WIDTH /\ tty.y \in Nat /\ tty.y < VGA_HEIGHT
           /\ tty.y < VGA_HEIGHT + 2 /\ Address(tty) \in Nat /\ Address(tty) \in Cells
           /\ begin % VGA_WIDTH \in Nat
           /\ (begin % VGA_WIDTH) + peak < VGA_WIDTH => Address(tty) = begin + len
<1>1. len \in Nat /\ peak \in Nat /\ len <= peak
  BY ConsoleAssumption DEF IInv, Lengths
<1>2. begin \in Nat
  BY CellFacts DEF IInv
<1>3. tty \in Tty /\ tty.y < VGA_HEIGHT
  BY DEF IInv
<1>4. tty.x \in 0 .. VGA_WIDTH /\ tty.y \in Nat /\ Address(tty) \in Nat
      /\ (tty.y < VGA_HEIGHT + 2 => Address(tty) \in Cells)
  BY <1>3, CursorFacts
<1>5. tty.y < VGA_HEIGHT + 2
  BY <1>3, <1>4, SizeFacts
<1>6. begin % VGA_WIDTH \in Nat
  <2>1. \A n \in Nat : \A w \in Nat \ {0} : n % w \in Nat
    OBVIOUS
  <2> QED
    BY <1>2, <2>1, SizeFacts
<1>7. (begin % VGA_WIDTH) + peak < VGA_WIDTH => Address(tty) = begin + len
  BY InvImplies DEF IInv, EchoExact
<1> QED
  BY <1>1, <1>2, <1>3, <1>4, <1>5, <1>6, <1>7

\* A line that fits its row grows by one cell of it.
LEMMA PutOneRow ==
    ASSUME IInv, Put
    PROVE  OneRow'
<1> SUFFICES ASSUME (begin % VGA_WIDTH) + peak' < VGA_WIDTH
             PROVE  /\ tty'.y = begin \div VGA_WIDTH /\ tty'.x = (begin % VGA_WIDTH) + len'
                    /\ \A a \in Visible :
                          tty'.screen[a] = "line" <=> a \in begin .. begin + len' - 1
  BY DEF OneRow, Put
<1>1. /\ len' = len + 1 /\ peak' = (IF len + 1 > peak THEN len + 1 ELSE peak)
      /\ tty' = tty_putchar(tty, "line")
  BY DEF Put
<1>2. /\ len \in Nat /\ peak \in Nat /\ begin \in Nat
      /\ tty.x \in 0 .. VGA_WIDTH /\ tty.y < VGA_HEIGHT /\ tty.y < VGA_HEIGHT + 2
      /\ begin % VGA_WIDTH \in Nat
      /\ (begin % VGA_WIDTH) + peak < VGA_WIDTH => Address(tty) = begin + len
  BY InvNumbers
<1>3. (begin % VGA_WIDTH) + peak < VGA_WIDTH /\ (begin % VGA_WIDTH) + len + 1 < VGA_WIDTH
  BY <1>1, <1>2, SizeFacts
<1>4. /\ tty.y = begin \div VGA_WIDTH /\ tty.x = (begin % VGA_WIDTH) + len
      /\ \A a \in Visible : tty.screen[a] = "line" <=> a \in begin .. begin + len - 1
  BY <1>3 DEF IInv, OneRow
<1>5. /\ \A a \in Cells : tty'.screen[a] = IF a = Address(tty) THEN "line" ELSE tty.screen[a]
      /\ tty'.x = tty.x + 1 /\ tty'.y = tty.y
  <2>1. tty \in Tty /\ "line" \in Marks
    BY DEF IInv, Marks
  <2>2. tty.x + 1 < VGA_WIDTH
    BY <1>2, <1>3, <1>4
  <2> QED
    BY <1>1, <1>2, <2>1, <2>2, CharFacts
<1>6. ASSUME NEW a \in Visible
      PROVE  tty'.screen[a] = "line" <=> a \in begin .. begin + len' - 1
  <2>1. a \in Cells /\ a \in Nat
    BY CellFacts
  <2>2. tty'.screen[a] = "line" <=> a = begin + len \/ a \in begin .. begin + len - 1
    BY <1>2, <1>3, <1>4, <1>5, <2>1
  <2> QED
    BY <1>1, <1>2, <2>1, <2>2
<1> QED
  BY <1>1, <1>2, <1>4, <1>5, <1>6

\* A key that is stored: its character comes after the line, or the screen is cleared.
LEMMA PutStep ==
    ASSUME IInv, ~undefined, Put
    PROVE  IInv'
<1>1. /\ len' = len + 1 /\ undefined' = (len + 1 = COMMAND_BUFFER_SIZE)
      /\ peak' = (IF len + 1 > peak THEN len + 1 ELSE peak) /\ begin' = begin
      /\ tty' = tty_putchar(tty, "line")
  BY DEF Put
<1>2. /\ len \in Nat /\ peak \in Nat /\ len <= peak /\ begin \in Nat
      /\ tty.x \in 0 .. VGA_WIDTH /\ tty.y \in Nat /\ tty.y < VGA_HEIGHT
      /\ tty.y < VGA_HEIGHT + 2 /\ Address(tty) \in Nat /\ Address(tty) \in Cells
      /\ begin % VGA_WIDTH \in Nat
      /\ (begin % VGA_WIDTH) + peak < VGA_WIDTH => Address(tty) = begin + len
  BY InvNumbers
<1>3. "line" \in Marks /\ Visible \subseteq Cells /\ \A a \in Visible : a \in Nat
  BY CellFacts DEF Marks
<1>4. /\ tty' \in Tty /\ tty'.x < VGA_WIDTH /\ tty'.y < VGA_HEIGHT
      /\ \A a \in Cells : tty'.screen[a] \in {"blank", "line", tty.screen[a]}
      /\ \/ Blank(tty')
         \/ /\ \A a \in Cells : tty'.screen[a] = IF a = Address(tty) THEN "line" ELSE tty.screen[a]
            /\ tty.x < VGA_WIDTH => Address(tty') = Address(tty) + 1
            /\ tty.x = VGA_WIDTH => Address(tty') = Address(tty) /\ tty'.x = 0
      /\ tty.x + 1 < VGA_WIDTH /\ tty.y < VGA_HEIGHT =>
            /\ \A a \in Cells : tty'.screen[a] = IF a = Address(tty) THEN "line" ELSE tty.screen[a]
            /\ tty'.x = tty.x + 1 /\ tty'.y = tty.y
  <2>1. tty \in Tty
    BY DEF IInv
  <2> QED
    BY <1>1, <1>2, <1>3, <2>1, CharFacts
<1>5. Lengths'
  <2>1. len < COMMAND_BUFFER_SIZE /\ COMMAND_BUFFER_SIZE \in Nat /\ peak \in 0 .. COMMAND_BUFFER_SIZE
    BY ConsoleAssumption DEF IInv, Lengths
  <2>2. /\ len' \in 0 .. COMMAND_BUFFER_SIZE /\ peak' \in 0 .. COMMAND_BUFFER_SIZE /\ len' <= peak'
        /\ len + 1 # COMMAND_BUFFER_SIZE => len' < COMMAND_BUFFER_SIZE
    BY <1>1, <1>2, <2>1
  <2>3. undefined' \in BOOLEAN /\ (~undefined' => len + 1 # COMMAND_BUFFER_SIZE)
    BY <1>1
  <2> QED
    BY <2>2, <2>3 DEF Lengths
<1>6. tty'.x \in Nat /\ Address(tty') \in Nat
  BY <1>4, CursorFacts
<1>7. CASE Blank(tty')
  <2>1. AheadBlank(tty')
    BY <1>7 DEF Blank, AheadBlank
  <2>2. Output(tty') = {}
    BY <1>7 DEF Blank, Output
  <2>3. Above'
    BY <2>2 DEF Above
  <2> QED
    BY <1>1, <1>4, <1>5, <2>1, <2>3, PutOneRow DEF IInv
<1>8. CASE ~Blank(tty')
  <2>1. /\ \A a \in Cells : tty'.screen[a] = IF a = Address(tty) THEN "line" ELSE tty.screen[a]
        /\ tty.x < VGA_WIDTH => Address(tty') = Address(tty) + 1
        /\ tty.x = VGA_WIDTH => Address(tty') = Address(tty) /\ tty'.x = 0
    BY <1>4, <1>8
  <2>2. AheadBlank(tty')
    <3>1. ASSUME NEW a \in Visible, a > Address(tty') \/ (a = Address(tty') /\ tty'.x > 0)
          PROVE  tty'.screen[a] = "blank"
      <4>1. a > Address(tty)
        BY <1>2, <1>3, <2>1, <3>1, SizeFacts
      <4>2. tty.screen[a] = "blank"
        BY <4>1 DEF IInv, AheadBlank
      <4> QED
        BY <1>2, <1>3, <2>1, <4>1, <4>2
    <3> QED
      BY <3>1 DEF AheadBlank
  <2>3. Above'
    <3>1. ASSUME NEW a \in Output(tty') PROVE a \in Output(tty)
      BY <1>3, <2>1 DEF Output
    <3>2. CASE Output(tty) = {}
      BY <3>1, <3>2 DEF Above
    <3>3. CASE /\ begin + len + (IF tty.x = VGA_WIDTH THEN 1 ELSE 0) <= Address(tty)
               /\ \A a \in Output(tty) : a < begin
      <4>1. begin' + len' + (IF tty'.x = VGA_WIDTH THEN 1 ELSE 0) <= Address(tty')
        BY <1>1, <1>2, <1>4, <1>6, <2>1, <3>3, SizeFacts
      <4> QED
        BY <1>1, <3>1, <3>3, <4>1 DEF Above
    <3> QED
      BY <3>2, <3>3 DEF IInv, Above
  <2> QED
    BY <1>1, <1>4, <1>5, <2>2, <2>3, PutOneRow DEF IInv
<1> QED
  BY <1>7, <1>8

\* A backspace takes the last character of the line, and nothing before it.
LEMMA BackspaceStep ==
    ASSUME IInv, Backspace
    PROVE  IInv'
<1>1. /\ len > 0 /\ len' = len - 1 /\ undefined' = undefined /\ peak' = peak /\ begin' = begin
      /\ tty' = tty_putchar(tty, "backspace")
  BY DEF Backspace
<1>2. /\ len \in Nat /\ peak \in Nat /\ len <= peak /\ begin \in Nat
      /\ tty.x \in 0 .. VGA_WIDTH /\ tty.y \in Nat /\ tty.y < VGA_HEIGHT
      /\ tty.y < VGA_HEIGHT + 2 /\ Address(tty) \in Nat /\ Address(tty) \in Cells
      /\ begin % VGA_WIDTH \in Nat
      /\ (begin % VGA_WIDTH) + peak < VGA_WIDTH => Address(tty) = begin + len
  BY InvNumbers
<1>3. Visible \subseteq Cells /\ \A a \in Visible : a \in Nat
  BY CellFacts
<1>4. /\ tty' \in Tty /\ tty'.y < VGA_HEIGHT
      /\ \A a \in Cells : tty'.screen[a] = IF a = Address(tty') THEN "blank" ELSE tty.screen[a]
      /\ tty.x > 0 => tty'.x = tty.x - 1 /\ tty'.y = tty.y /\ Address(tty') = Address(tty) - 1
      /\ tty.x = 0 => Address(tty') = Address(tty)
  <2>1. tty \in Tty
    BY DEF IInv
  <2> QED
    BY <1>1, <1>2, <2>1, BackspaceFacts
<1>5. Lengths'
  <2>1. /\ len' \in 0 .. COMMAND_BUFFER_SIZE /\ peak' \in 0 .. COMMAND_BUFFER_SIZE /\ len' <= peak'
        /\ len < COMMAND_BUFFER_SIZE => len' < COMMAND_BUFFER_SIZE
    BY <1>1, <1>2, ConsoleAssumption DEF IInv, Lengths
  <2>2. undefined' \in BOOLEAN /\ (~undefined' => len < COMMAND_BUFFER_SIZE)
    BY <1>1 DEF IInv, Lengths
  <2> QED
    BY <2>1, <2>2 DEF Lengths
<1>6. tty'.x \in 0 .. VGA_WIDTH /\ Address(tty') \in Nat
  BY <1>4, CursorFacts
<1>7. AheadBlank(tty')
  <2>1. ASSUME NEW a \in Visible, a > Address(tty') \/ (a = Address(tty') /\ tty'.x > 0)
        PROVE  tty'.screen[a] = "blank"
    <3>1. CASE a = Address(tty')
      BY <1>3, <1>4, <3>1
    <3>2. CASE a # Address(tty')
      <4>1. a > Address(tty) \/ (a = Address(tty) /\ tty.x > 0)
        BY <1>2, <1>3, <1>4, <1>6, <2>1, <3>2
      <4>2. tty.screen[a] = "blank"
        BY <4>1 DEF IInv, AheadBlank
      <4> QED
        BY <1>3, <1>4, <4>2
    <3> QED
      BY <3>1, <3>2
  <2> QED
    BY <2>1 DEF AheadBlank
<1>8. Above'
  <2>1. ASSUME NEW a \in Output(tty') PROVE a \in Output(tty)
    BY <1>3, <1>4 DEF Output
  <2>2. CASE Output(tty) = {}
    BY <2>1, <2>2 DEF Above
  <2>3. CASE /\ begin + len + (IF tty.x = VGA_WIDTH THEN 1 ELSE 0) <= Address(tty)
             /\ \A a \in Output(tty) : a < begin
    <3>1. begin' + len' + (IF tty'.x = VGA_WIDTH THEN 1 ELSE 0) <= Address(tty')
      BY <1>1, <1>2, <1>4, <1>6, <2>3, SizeFacts
    <3> QED
      BY <1>1, <2>1, <2>3, <3>1 DEF Above
  <2> QED
    BY <2>2, <2>3 DEF IInv, Above
<1>9. OneRow'
  <2> SUFFICES ASSUME (begin % VGA_WIDTH) + peak < VGA_WIDTH
               PROVE  /\ tty'.y = begin \div VGA_WIDTH /\ tty'.x = (begin % VGA_WIDTH) + len'
                      /\ \A a \in Visible :
                            tty'.screen[a] = "line" <=> a \in begin .. begin + len' - 1
    BY <1>1 DEF OneRow
  <2>1. /\ tty.y = begin \div VGA_WIDTH /\ tty.x = (begin % VGA_WIDTH) + len
        /\ \A a \in Visible : tty.screen[a] = "line" <=> a \in begin .. begin + len - 1
    BY DEF IInv, OneRow
  <2>2. /\ tty'.x = tty.x - 1 /\ tty'.y = tty.y /\ Address(tty') = begin + len - 1
    BY <1>1, <1>2, <1>4, <2>1
  <2>3. ASSUME NEW a \in Visible
        PROVE  tty'.screen[a] = "line" <=> a \in begin .. begin + len' - 1
    <3>1. tty'.screen[a] = "line" <=> a # begin + len - 1 /\ a \in begin .. begin + len - 1
      BY <1>3, <1>4, <2>1, <2>2
    <3> QED
      BY <1>1, <1>2, <1>3, <3>1
  <2> QED
    BY <1>1, <1>2, <2>1, <2>2, <2>3
<1> QED
  BY <1>1, <1>4, <1>5, <1>7, <1>8, <1>9 DEF IInv

\* Whatever the shell answers, the prompt finds the cursor two rows below the screen at
\* most, with nothing ahead of it.
LEMMA ExecutedFacts ==
    ASSUME IInv, NEW command \in Commands, NEW t, t = Executed(Newline(tty), command)
    PROVE  t \in Tty /\ t.y < VGA_HEIGHT + 2 /\ Untouched(t)
<1> DEFINE n == Newline(tty)
<1>1. tty.y <= VGA_HEIGHT - 1 /\ VGA_HEIGHT - 1 \in Nat /\ (VGA_HEIGHT - 1) + 1 = VGA_HEIGHT
  BY InvNumbers, SizeFacts
<1>2. n \in Tty /\ n.y <= VGA_HEIGHT /\ Untouched(n)
  BY <1>1, NewlineUntouched DEF IInv
<1> HIDE DEF n
<1>3. \A y \in Nat : y <= VGA_HEIGHT => y < VGA_HEIGHT + 2
  BY SizeFacts
<1>4. ASSUME NEW k \in Nat, NEW w, w = tty_write(n, Append(Text(k), "newline"))
      PROVE  w \in Tty /\ w.y < VGA_HEIGHT + 2 /\ Untouched(w)
  BY <1>2, <1>4, TextFacts
<1>5. len \in Nat
  BY InvNumbers
<1>6. CASE command = "none"
  <2>1. t = n /\ n.y \in Nat
    BY <1>2, <1>6, CursorFacts DEF Executed, n
  <2> QED
    BY <1>2, <1>3, <2>1
<1>7. CASE command = "clear"
  <2>1. t = tty_init(n)
    BY <1>7 DEF Executed, n
  <2>2. /\ t \in Tty /\ t.x = 0 /\ t.y = 0
        /\ \A a \in Cells : t.screen[a] = IF a \in Visible THEN "blank" ELSE n.screen[a]
    BY <1>2, <2>1, ClearFacts
  <2>3. Visible \subseteq Cells
    BY CellFacts
  <2> QED
    BY <2>2, <2>3, SizeFacts DEF Untouched
<1>8. CASE command = "help"
  <2>1. t = tty_write(n, Append(Text(HelpText), "newline"))
    BY <1>8 DEF Executed, n
  <2> QED
    BY <1>4, <2>1, ConsoleAssumption
<1>9. CASE command = "echo"
  <2>1. t = tty_write(n, Append(Text(len - EchoLen), "newline"))
    BY <1>9 DEF Executed, n
  <2>2. len - EchoLen \in Nat
    BY <1>5, <1>9, ConsoleAssumption DEF Commands
  <2> QED
    BY <1>4, <2>1, <2>2
<1>10. CASE command = "unknown"
  <2>1. t = tty_write(n, Append(Text(UnknownText + len), "newline"))
    BY <1>10 DEF Executed, n
  <2>2. UnknownText + len \in Nat
    BY <1>5, ConsoleAssumption
  <2> QED
    BY <1>4, <2>1, <2>2
<1> QED
  BY <1>6, <1>7, <1>8, <1>9, <1>10 DEF Commands

\* Enter makes all there is output, and begins a new line after it.
LEMMA SubmitStep ==
    ASSUME IInv, ~undefined, Submit
    PROVE  IInv'
<1>1. PICK command \in Commands : Prompted(Executed(Newline(tty), command))
  BY DEF Submit
<1>2. PICK t : t = Executed(Newline(tty), command)
  OBVIOUS
<1> DEFINE screen == [a \in Cells |-> IF t.screen[a] = "blank" THEN "blank" ELSE "text"]
           old == [t EXCEPT !.screen = screen]
<1>3. t \in Tty /\ t.y < VGA_HEIGHT + 2 /\ Untouched(t)
  BY <1>2, ExecutedFacts
<1>4. tty' = tty_write(old, Prompt) /\ begin' = Address(tty') /\ peak' = 0
  BY <1>1, <1>2 DEF Prompted
<1>5. screen \in [Cells -> Marks] /\ \A a \in Cells : screen[a] # "line"
  BY DEF Marks
<1>6. /\ \A a \in Cells : t.screen[a] = "blank" => screen[a] = "blank"
      /\ Visible \subseteq Cells
  BY CellFacts
<1> HIDE DEF screen
<1>7. old \in Tty /\ old.x = t.x /\ old.y = t.y /\ old.screen = screen
  BY <1>3, <1>5 DEF Tty
<1>8. Address(old) = Address(t)
  BY <1>7 DEF Address
<1>9. Untouched(old)
  BY <1>3, <1>6, <1>7, <1>8 DEF Untouched
<1>10. old.y < VGA_HEIGHT + 2 /\ \A a \in Cells : old.screen[a] # "line"
  BY <1>3, <1>5, <1>7
<1> HIDE DEF old
<1>11. Begun(tty')
  BY <1>4, <1>7, <1>9, <1>10, PromptFacts
<1>12. len' = 0 /\ undefined' = FALSE
  <2>1. undefined = FALSE
    BY DEF IInv, Lengths
  <2> QED
    BY <2>1 DEF Submit
<1> QED
  <2>1. Beginning'
    BY <1>4, <1>11, <1>12 DEF Beginning
  <2> QED
    BY <2>1, BegunAgain

-----------------------------------------------------------------------------
(* The theorems *)

\* The first prompt is written on a blank screen.
LEMMA InitInv == Init => IInv
<1> SUFFICES ASSUME Init PROVE IInv
  OBVIOUS
<1> DEFINE blank == [x |-> 0, y |-> 0, screen |-> [a \in Cells |-> "blank"]]
<1>1. /\ len = 0 /\ undefined = FALSE /\ peak = 0
      /\ tty = tty_write(blank, Prompt) /\ begin = Address(tty)
  BY DEF Init
<1>2. 0 \in 0 .. VGA_WIDTH /\ 0 \in Nat /\ 0 < VGA_WIDTH /\ 0 < VGA_HEIGHT + 2
  BY SizeFacts
<1>3. /\ blank \in Tty /\ blank.x = 0 /\ blank.y = 0
      /\ \A a \in Cells : blank.screen[a] = "blank"
  BY <1>2 DEF Tty, Marks
<1> HIDE DEF blank
<1>4. Visible \subseteq Cells
  BY CellFacts
<1>5. Untouched(blank)
  BY <1>2, <1>3, <1>4 DEF Untouched
<1>6. Begun(tty)
  BY <1>1, <1>2, <1>3, <1>5, PromptFacts
<1> QED
  BY <1>1, <1>6, BegunInv DEF Beginning

\* Every key keeps the invariant.
LEMMA StepInv == IInv /\ [Next]_vars => IInv'
<1> SUFFICES ASSUME IInv, [Next]_vars PROVE IInv'
  OBVIOUS
<1>1. CASE Next
  BY <1>1, PutStep, BackspaceStep, SubmitStep DEF Next
<1>2. CASE UNCHANGED vars
  BY <1>2 DEF vars, IInv, Lengths, Above, OneRow
<1> QED
  BY <1>1, <1>2

\* The invariant, for every size.
LEMMA ConsoleInv == Spec => []IInv
BY InitInv, StepInv, PTL DEF Spec

\* Between two keys the cursor is on the screen or just right of it, whatever was typed
\* and whatever the shell wrote in between, and no store has left the video memory
\* by more than the two rows below the screen.
THEOREM ConsoleTyped == Spec => []TypeOK
<1>1. IInv => TypeOK
  BY InvImplies
<1> QED
  BY <1>1, ConsoleInv, PTL

\* Nothing is ever shown right of or below the cursor of tty_putchar(), nor at it outside
\* column 0.
THEOREM NothingShownAhead == Spec => []NothingAhead
<1>1. IInv => NothingAhead
  BY InvImplies
<1> QED
  BY <1>1, ConsoleInv, PTL

\* A line that never came to the end of its row is shown as the buffer has it.
THEOREM EchoIsExact == Spec => []EchoExact
<1>1. IInv => EchoExact
  BY InvImplies
<1> QED
  BY <1>1, ConsoleInv, PTL

\* Neither a backspace nor a stored character ever touches output or the prompt, but for
\* the character at the end of the last row, which clears the screen.
THEOREM OutputIsKept == Spec => OutputKept
<1> DEFINE Kept ==
      Put \/ Backspace =>
          \/ \A a \in Visible : tty.screen[a] \in {"text", "prompt"} => tty'.screen[a] = tty.screen[a]
          \/ Cleared
<1>1. IInv /\ [Next]_vars => [Kept]_vars
  <2> SUFFICES ASSUME IInv, Put \/ Backspace, ~Cleared,
                      NEW a \in Visible, tty.screen[a] \in {"text", "prompt"}
               PROVE  tty'.screen[a] = tty.screen[a]
    OBVIOUS
  <2>1. /\ tty \in Tty /\ tty.y \in Nat /\ tty.y < VGA_HEIGHT /\ tty.y < VGA_HEIGHT + 2
        /\ tty.x \in 0 .. VGA_WIDTH /\ Address(tty) \in Nat /\ len \in Nat /\ begin \in Nat
        /\ a \in Cells /\ a \in Nat /\ "line" \in Marks
    BY InvNumbers, CellFacts DEF IInv, Marks
  <2>2. /\ a < begin /\ begin + len <= Address(tty)
        /\ tty.x = VGA_WIDTH => begin + len + 1 <= Address(tty)
    <3>1. a \in Output(tty)
      BY DEF Output
    <3> QED
      BY <2>1, <3>1 DEF IInv, Above
  <2>3. CASE Put
    <3>1. tty' = tty_putchar(tty, "line")
      BY <2>3 DEF Put
    <3>2. /\ \/ Blank(tty')
             \/ \A b \in Cells : tty'.screen[b] = IF b = Address(tty) THEN "line" ELSE tty.screen[b]
          /\ tty.x + 1 < VGA_WIDTH \/ tty.y + 1 < VGA_HEIGHT =>
                \A b \in Cells : tty'.screen[b] = IF b = Address(tty) THEN "line" ELSE tty.screen[b]
      BY <2>1, <3>1, CharFacts
    <3>3. ~Blank(tty') \/ tty.x + 1 < VGA_WIDTH \/ tty.y + 1 < VGA_HEIGHT
      <4>1. ASSUME ~(tty.x + 1 < VGA_WIDTH), ~(tty.y + 1 < VGA_HEIGHT)
            PROVE  tty.y = VGA_HEIGHT - 1 /\ tty.x + 1 >= VGA_WIDTH
        BY <2>1, <4>1, SizeFacts
      <4> QED
        BY <2>3, <4>1 DEF Blank, Cleared
    <3>4. a # Address(tty)
      BY <2>1, <2>2
    <3>5. tty'.screen[a] = IF a = Address(tty) THEN "line" ELSE tty.screen[a]
      BY <2>1, <3>2, <3>3
    <3> QED
      BY <3>4, <3>5
  <2>4. CASE Backspace
    <3>1. tty' = tty_putchar(tty, "backspace") /\ len > 0
      BY <2>4 DEF Backspace
    <3>2. /\ \A b \in Cells : tty'.screen[b] = IF b = Address(tty') THEN "blank" ELSE tty.screen[b]
          /\ tty.x > 0 => Address(tty') = Address(tty) - 1
          /\ tty.x = 0 => Address(tty') = Address(tty)
      BY <2>1, <3>1, BackspaceFacts
    <3>3. a # Address(tty')
      BY <2>1, <2>2, <3>1, <3>2
    <3> QED
      BY <2>1, <3>2, <3>3
  <2> QED
    BY <2>3, <2>4
<1> QED
  BY <1>1, ConsoleInv, PTL DEF Spec, OutputKept

=============================================================================
