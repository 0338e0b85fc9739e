------------------------------ MODULE Terminal ------------------------------
(* The screen of the Terminal application (vt100.c, screen.c): a buffer of    *)
(* MaxLines rows, of which the last ones are the screen and those above it    *)
(* the history; the cursor, a row of the buffer; the scrolling margins, rows  *)
(* of the screen; the alternate screen; and the part of it all that the       *)
(* window shows.                                                              *)
(*                                                                            *)
(* An action is a control sequence whose last byte has arrived: the bytes     *)
(* before it only change the parser.  It comes from the shell, or from a      *)
(* program whose console the Terminal is, or is a change of the window.       *)
EXTENDS Integers, FiniteSetsExt

CONSTANTS MaxLines,          \* TERM_MAX_LINES
          MaxCols,           \* TERM_MAX_COLS
          Sizes,             \* <<rows, columns>> the window may have
          MaxSequences,      \* bound on the sequences of a behaviour
          ResizesAlternate   \* may the window change under the alternate screen?

ASSUME TerminalAssumption ==
    /\ MaxLines \in Nat \ {0, 1} /\ MaxCols \in Nat \ {0} /\ MaxSequences \in Nat
    /\ Sizes \subseteq (1..MaxLines) \X (1..MaxCols)

VARIABLES term,              \* term_state_t, the buffer in use included
          primary,           \* its primary_* fields
          fed                \* number of sequences so far

terminalVars == <<term, primary, fed>>

Rows    == 0..MaxLines - 1
Columns == 0..MaxCols - 1
Letter  == "x"
Blank   == " "

BlankLine == [c \in Columns |-> Blank]
NoLines   == [r \in Rows |-> BlankLine]

State == [lines : [Rows -> [Columns -> {Letter, Blank}]],
          row : Nat, col : Nat, wrap : BOOLEAN,
          top : Nat, total : Nat, rows : Nat, cols : Nat,
          marginTop : Nat, marginBottom : Nat,
          origin : BOOLEAN, insert : BOOLEAN, autoWrap : BOOLEAN,
          alternate : BOOLEAN, savedRow : Nat, savedCol : Nat,
          scrollRow : Nat, follow : BOOLEAN]

TypeOK == term \in State /\ primary \in State /\ fed \in 0..MaxSequences

-----------------------------------------------------------------------------
(* Helpers                                                                  *)

Clamp(value, low, high) ==
    IF value < low THEN low ELSE IF value > high THEN high ELSE value

Less(a, b)  == IF a < b THEN 0 ELSE a - b
Larger(a, b) == IF a < b THEN b ELSE a

\* The rows of `set` blank.
Cleared(t, set) ==
    [t EXCEPT !.lines = [r \in Rows |-> IF r \in set THEN BlankLine ELSE @[r]]]

\* The columns of `set` blank in one row.
Wiped(t, row, set) ==
    [t EXCEPT !.lines[row] = [c \in Columns |-> IF c \in set THEN Blank ELSE @[c]]]

\* The cursor's row of the screen.
ScreenRow(t) == Clamp(t.row - t.top, 0, t.rows - 1)

\* The buffer without its n oldest rows.
Dropped(t, n) ==
    [t EXCEPT !.lines = [r \in Rows |-> IF r + n \in Rows THEN @[r + n] ELSE BlankLine],
              !.row = Less(@, n), !.top = Less(@, n),
              !.total = Less(@, n), !.scrollRow = Less(@, n)]

\* A row of the buffer that may lie past its end is made: older rows go.
Excess(row)   == Less(row, MaxLines - 1)
Made(row)     == row - Excess(row)
Ensured(t, row) ==
    LET d == Dropped(t, Excess(row))
    IN  [Cleared(d, d.total..Made(row)) EXCEPT !.total = Larger(@, Made(row) + 1)]

\* The largest scroll offset.
MaxOffset(t) == Less(t.total, t.rows)

-----------------------------------------------------------------------------
(* What the sequences do                                                    *)

\* `count` lines scrolled out of a part of the screen, downwards or upwards.
Scrolled(t, first, last, count, down) ==
    LET top    == Clamp(first, 0, t.rows - 1)
        bottom == Clamp(last, top, t.rows - 1)
        n      == Clamp(count, 1, bottom - top + 1)
        u      == Ensured(t, t.top + bottom)
        region == u.top + top..u.top + bottom
        from(r) == IF down THEN r - n ELSE r + n
    IN  [u EXCEPT !.lines =
            [r \in Rows |-> CASE r \notin region -> @[r]
                              [] r \in region /\ from(r) \in region -> @[from(r)]
                              [] OTHER -> BlankLine]]

\* One line down: the whole primary screen scrolls into the history.
FullMargins(t) == t.marginTop = 0 /\ t.marginBottom = t.rows - 1
ScrolledAway(t) ==
    LET u == Ensured(t, t.row + 1)
    IN  Cleared([u EXCEPT !.row = Made(t.row + 1), !.top = @ + 1], {Made(t.row + 1)})
Indexed(t) ==
    LET atMargin == ScreenRow(t) = t.marginBottom
        away     == FullMargins(t) /\ ~t.alternate
        moved == CASE atMargin /\ away -> ScrolledAway(t)
                   [] atMargin /\ ~away ->
                          Scrolled(t, t.marginTop, t.marginBottom, 1, FALSE)
                   [] ~atMargin /\ ScreenRow(t) < t.rows - 1 ->
                          [Ensured(t, t.row + 1) EXCEPT !.row = Made(t.row + 1)]
                   [] OTHER -> t
    IN  [moved EXCEPT !.wrap = FALSE]

\* One line up.
ReverseIndexed(t) ==
    LET moved == CASE ScreenRow(t) = t.marginTop ->
                          Scrolled(t, t.marginTop, t.marginBottom, 1, TRUE)
                   [] ScreenRow(t) \notin {0, t.marginTop} -> [t EXCEPT !.row = @ - 1]
                   [] OTHER -> t
    IN  [moved EXCEPT !.wrap = FALSE]

\* The cursor at a row and a column of the screen, or as near as it may go.
CursorAt(t, row, col) ==
    LET low  == IF t.origin THEN t.marginTop ELSE 0
        high == IF t.origin THEN t.marginBottom ELSE t.rows - 1
        to   == t.top + Clamp(row, low, high)
    IN  [Ensured(t, to) EXCEPT !.row = Made(to), !.wrap = FALSE,
                               !.col = Clamp(col, 0, t.cols - 1)]

\* A character, after the line break that the last one left pending.
Printed(t) ==
    LET u    == IF t.wrap THEN Indexed([t EXCEPT !.col = 0]) ELSE t
        v    == Ensured(u, u.row)
        col  == Clamp(v.col, 0, v.cols - 1)
        last == col = v.cols - 1
        line == [c \in Columns |->
                    CASE c = col -> Letter
                      [] v.insert /\ c > col /\ c < v.cols -> v.lines[v.row][c - 1]
                      [] OTHER -> v.lines[v.row][c]]
    IN  [v EXCEPT !.lines[v.row] = line,
                  !.wrap = IF last THEN v.autoWrap ELSE @,
                  !.col = IF last THEN @ ELSE col + 1]

\* The display from the cursor on, up to the cursor, or all of it.
ErasedRows(t, mode) ==
    CASE mode = "after"  -> ScreenRow(t) + 1..t.rows - 1
      [] mode = "before" -> 0..ScreenRow(t) - 1
      [] OTHER -> 0..t.rows - 1
CursorWiped(t, mode) ==
    CASE mode = "after"  -> Wiped(t, t.row, t.col..t.cols - 1)
      [] mode = "before" -> Wiped(t, t.row, 0..t.col)
      [] OTHER -> t
\* Mutant: a row of the screen is taken for one of the buffer.
DisplayErasedOfBuffer(t, mode) ==
    LET rows  == ErasedRows(t, mode)
        wiped == CursorWiped(t, mode)
        u     == IF rows = {} THEN wiped ELSE Ensured(wiped, Max(rows))
    IN  Cleared(u, rows)
\* Rows and columns of the display are blanked, the rest of the buffer stays.
DisplayErased(t, mode) ==
    LET rows  == ErasedRows(t, mode)
        wiped == CursorWiped(t, mode)
        u     == IF rows = {} THEN wiped ELSE Ensured(wiped, t.top + Max(rows))
    IN  Cleared(u, {u.top + r : r \in rows})

\* The line from the cursor on, up to the cursor, or all of it.
LineErased(t, mode) ==
    IF mode = "all" THEN Cleared(t, {t.row}) ELSE CursorWiped(t, mode)

\* Characters inserted or deleted at the cursor.
CharsMoved(t, count, insert) ==
    LET n    == Clamp(count, 1, t.cols - t.col)
        part == t.col..t.cols - 1
        from(c) == IF insert THEN c - n ELSE c + n
        line == [c \in Columns |->
                    CASE c \notin part -> t.lines[t.row][c]
                      [] c \in part /\ from(c) \in part -> t.lines[t.row][from(c)]
                      [] OTHER -> Blank]
    IN  [t EXCEPT !.lines[t.row] = line]

\* Mutant: margins inside the screen stay where they were.
ResizedMarginsKept(t, rows, cols) ==
    LET v == [t EXCEPT !.rows = rows, !.cols = cols,
                       !.marginBottom = IF FullMargins(t) THEN rows - 1 ELSE @]
    IN  CursorAt(v, ScreenRow(v), v.col)

\* Another size of the window: the margins follow, or stay inside it.
Resized(t, rows, cols) ==
    LET top    == IF FullMargins(t) THEN 0 ELSE Clamp(t.marginTop, 0, rows - 1)
        bottom == IF FullMargins(t) THEN rows - 1
                                    ELSE Clamp(t.marginBottom, top, rows - 1)
        v == [t EXCEPT !.rows = rows, !.cols = cols,
                       !.marginTop = top, !.marginBottom = bottom]
    IN  CursorAt(v, ScreenRow(v), v.col)

\* The part of the buffer that is shown stays inside it.
Synced(t) == [t EXCEPT !.scrollRow = Clamp(@, 0, MaxOffset(t))]

\* A window that follows the output shows the newest row.
Followed(t) ==
    IF term.follow \/ term.scrollRow >= MaxOffset(term)
    THEN [t EXCEPT !.scrollRow = MaxOffset(t), !.follow = TRUE]
    ELSE t

-----------------------------------------------------------------------------
(* Actions                                                                  *)

Opened(rows, cols) ==
    [lines |-> NoLines, row |-> 0, col |-> 0, wrap |-> FALSE, top |-> 0,
     total |-> 1, rows |-> rows, cols |-> cols, marginTop |-> 0,
     marginBottom |-> rows - 1, origin |-> FALSE, insert |-> FALSE,
     autoWrap |-> TRUE, alternate |-> FALSE, savedRow |-> 0, savedCol |-> 0,
     scrollRow |-> 0, follow |-> TRUE]

Init ==
    /\ \E size \in Sizes : term = Opened(size[1], size[2])
    /\ primary = term
    /\ fed = 0

\* The shell's output moves the view, that of a console does not.
Show(t) ==
    /\ fed < MaxSequences /\ fed' = fed + 1
    /\ \/ term' = Followed(t)
       \/ term' = Synced(t)

Character        == Show(Printed(term)) /\ UNCHANGED primary
LineFeed     == Show(Indexed(term)) /\ UNCHANGED primary
NextLine     == Show(Indexed([term EXCEPT !.col = 0])) /\ UNCHANGED primary
ReverseIndex == Show(ReverseIndexed(term)) /\ UNCHANGED primary

CarriageReturn ==
    Show([term EXCEPT !.col = 0, !.wrap = FALSE]) /\ UNCHANGED primary

Backspace ==
    Show([term EXCEPT !.col = Less(@, 1), !.wrap = FALSE]) /\ UNCHANGED primary

\* To one of the tab stops, which may be anywhere, or to the last column.
Tab ==
    /\ \E c \in term.col + 1..term.cols - 1 \union {term.cols - 1} :
          Show([term EXCEPT !.col = c, !.wrap = FALSE])
    /\ UNCHANGED primary

MoveCursor ==
    /\ \E row \in -1..term.rows, col \in {-1, 0, term.cols} :
          Show(CursorAt(term, row, col))
    /\ UNCHANGED primary

Erase ==
    /\ \E mode \in {"after", "before", "all"} :
          Show(DisplayErased(term, mode)) \/ Show(LineErased(term, mode))
    /\ UNCHANGED primary

MoveChars ==
    /\ \E insert \in BOOLEAN, count \in 1..2 : Show(CharsMoved(term, count, insert))
    /\ UNCHANGED primary

EraseChars ==
    /\ \E count \in 1..2 :
          Show(Wiped(term, term.row,
                     Clamp(term.col, 0, term.cols - 1)..
                     Clamp(term.col + count - 1, 0, term.cols - 1)))
    /\ UNCHANGED primary

\* Lines inserted or deleted at the cursor, inside the margins.
MoveLines ==
    /\ ScreenRow(term) \in term.marginTop..term.marginBottom
    /\ \E insert \in BOOLEAN, count \in 1..2 :
          Show(Scrolled(term, ScreenRow(term), term.marginBottom, count, insert))
    /\ UNCHANGED primary

ScrollLines ==
    /\ \E down \in BOOLEAN, count \in 1..2 :
          Show(Scrolled(term, term.marginTop, term.marginBottom, count, down))
    /\ UNCHANGED primary

SetMargins ==
    /\ \E top \in 0..term.rows - 1, bottom \in 0..term.rows - 1 :
          /\ top < bottom
          /\ Show(CursorAt([term EXCEPT !.marginTop = top, !.marginBottom = bottom],
                           IF term.origin THEN top ELSE 0, 0))
    /\ UNCHANGED primary

SetMode ==
    /\ \E on \in BOOLEAN :
          \/ Show(CursorAt([term EXCEPT !.origin = on], IF on THEN term.marginTop ELSE 0, 0))
          \/ Show([term EXCEPT !.autoWrap = on, !.wrap = FALSE])
          \/ Show([term EXCEPT !.insert = on])
    /\ UNCHANGED primary

SaveCursor ==
    /\ Show([term EXCEPT !.savedRow = ScreenRow(term), !.savedCol = term.col])
    /\ UNCHANGED primary

RestoreCursor ==
    Show(CursorAt(term, term.savedRow, term.savedCol)) /\ UNCHANGED primary

EnterAlternate ==
    /\ ~term.alternate
    /\ primary' = term
    /\ Show([term EXCEPT !.lines = NoLines, !.alternate = TRUE, !.row = 0, !.col = 0,
                         !.top = 0, !.total = 1, !.scrollRow = 0, !.marginTop = 0,
                         !.marginBottom = term.rows - 1, !.wrap = FALSE])

\* Everything of the primary screen comes back, but the size of the window.
LeaveAlternate ==
    /\ term.alternate
    /\ Show([primary EXCEPT !.rows = term.rows, !.cols = term.cols, !.wrap = FALSE,
                            !.savedRow = term.savedRow, !.savedCol = term.savedCol,
                            !.follow = term.follow])
    /\ UNCHANGED primary

\* Only the buffer in use is cleared.
Reset ==
    /\ Show([Opened(term.rows, term.cols) EXCEPT
                !.alternate = term.alternate, !.follow = term.follow,
                !.savedRow = term.savedRow, !.savedCol = term.savedCol])
    /\ UNCHANGED primary

Resize ==
    /\ term.alternate => ResizesAlternate
    /\ \E size \in Sizes :
          /\ size # <<term.rows, term.cols>>
          /\ LET t == Synced(Resized(term, size[1], size[2]))
             IN  term' = IF t.follow THEN [t EXCEPT !.scrollRow = MaxOffset(t)] ELSE t
    /\ UNCHANGED <<primary, fed>>

\* The user scrolls.
Scroll ==
    /\ \E offset \in 0..MaxOffset(term) :
          term' = [term EXCEPT !.scrollRow = offset, !.follow = FALSE]
    /\ UNCHANGED <<primary, fed>>

Next ==
    \/ Character \/ LineFeed \/ NextLine \/ ReverseIndex \/ CarriageReturn \/ Backspace
    \/ Tab \/ MoveCursor \/ Erase \/ MoveChars \/ EraseChars \/ MoveLines
    \/ ScrollLines \/ SetMargins \/ SetMode \/ SaveCursor \/ RestoreCursor
    \/ EnterAlternate \/ LeaveAlternate \/ Reset \/ Resize \/ Scroll

Spec == Init /\ [][Next]_terminalVars

-----------------------------------------------------------------------------
(* Properties                                                               *)

\* The cursor and the margins stay on the screen, the screen in the buffer and
\* the view over it: what vt100.c's offsets into the buffer take for granted.
OnScreen ==
    /\ term.row \in term.top..term.top + term.rows - 1
    /\ term.col \in 0..term.cols - 1
    /\ 0 <= term.marginTop /\ term.marginTop <= term.marginBottom
    /\ term.marginBottom <= term.rows - 1
    /\ term.row < term.total /\ term.total <= MaxLines
    /\ term.scrollRow <= MaxOffset(term)

\* Scrolled-back text stays as it was: the rows above the screen only take the
\* line that leaves the top of the screen, and lose the oldest ones when the
\* buffer is full, whatever the margins, the alternate screen and the window do
\* meanwhile; a reset empties them.
Main == IF term.alternate THEN primary ELSE term
HistoryKept ==
    [][\/ Main'.total = 1
       \/ \E lost \in 0..MaxLines :
             /\ lost > 0 => Main'.total = MaxLines
             /\ Main'.top + lost \in {Main.top, Main.top + 1}
             /\ \A r \in 0..Main'.top - 1 : Main'.lines[r] = Main.lines[r + lost]
      ]_terminalVars
=============================================================================
