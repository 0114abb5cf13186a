------------------------------ MODULE LogView ------------------------------
(***************************************************************************)
(* What the console's log area shows (row_count and render_log_area of     *)
(* app/monitor/tui_console.cpp): log lines are broken into screen rows at  *)
(* the width of the terminal, and the rows are picked from the newest      *)
(* backwards until the area is full.  A line is its number and its length. *)
(***************************************************************************)
EXTENDS Naturals, Sequences

AtLeast(low, n) == IF n < low THEN low ELSE n
AtMost(high, n) == IF n > high THEN high ELSE n

row_count(line, width) == AtLeast(1, (line.length + width - 1) \div width)

\* The i-th row of a line, counted from 0: bytes from .. upto - 1.
Row(line, i, width) ==
  [line |-> line.number, from |-> i * width,
   upto |-> AtMost(line.length, (i + 1) * width)]

total(lines, width) ==
  LET sum[n \in 0 .. Len(lines)] ==
        IF n = 0 THEN 0 ELSE sum[n - 1] + row_count(lines[n], width)
  IN  sum[Len(lines)]

\* Mutant: one row too many may be scrolled away.
ClampedLate(scroll, lines, width, area) == AtMost(total(lines, width), scroll)

\* While paused, scrolling stops where the oldest row is at the top.
Clamped(scroll, lines, width, area) ==
  AtMost(IF total(lines, width) > area THEN total(lines, width) - area ELSE 0,
         scroll)

\* One row of the double loop: skipped, taken on top, or the area is full.
Pick(line, width, area, picked, i) ==
  IF Len(picked.rows) >= area THEN picked
  ELSE IF picked.skip > 0 THEN [picked EXCEPT !.skip = @ - 1]
  ELSE [picked EXCEPT !.rows = <<Row(line, row_count(line, width) - i, width)>> \o @]

\* The inner loop: the rows of a line, the last one first.
PickLine(line, width, area, picked) ==
  LET after[i \in 0 .. row_count(line, width)] ==
        IF i = 0 THEN picked ELSE Pick(line, width, area, after[i - 1], i)
  IN  after[row_count(line, width)]

\* The rows rendered, oldest first; the outer loop: the newest line first.
Rendered(lines, width, area, skip) ==
  LET n == Len(lines)
      after[k \in 0 .. n] ==
        IF k = 0 THEN [skip |-> skip, rows |-> <<>>]
        ELSE PickLine(lines[n + 1 - k], width, area, after[k - 1])
  IN  after[n].rows
-----------------------------------------------------------------------------
\* By definition: all rows of all lines, and the part of them on the screen.
RowsOf(line, width) ==
  [i \in 1 .. row_count(line, width) |-> Row(line, i - 1, width)]

AllRows(lines, width) ==
  LET upto[n \in 0 .. Len(lines)] ==
        IF n = 0 THEN <<>> ELSE upto[n - 1] \o RowsOf(lines[n], width)
  IN  upto[Len(lines)]

WindowOf(rows, area, above) ==
  LET last == Len(rows) - above
  IN  SubSeq(rows, AtLeast(1, last + 1 - AtMost(area, last)), last)
==============================================================================
