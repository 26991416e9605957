----------------------------- MODULE TextWindow -----------------------------
(***************************************************************************)
(* dialog_textbox (lxdialog/textbox.c) with a text of length lines.  page  *)
(* is where the line after the last one shown begins: the number of lines  *)
(* before it, length being the end of the text, and length + 1 that end    *)
(* with end_reached set.  The first line shown is not kept, it is          *)
(* page_length lines back.  A line down or up scrolls the window and prints *)
(* one line only: screen is the line in each row, length where it is blank. *)
(***************************************************************************)
EXTENDS Dialogs

CONSTANT MaxScroll      \* MAX_LEN, the limit of hscroll
ASSUME MaxScrollAssumption == MaxScroll \in Nat

VARIABLES length, fixed, boxh, page, page_length, begin_reached, hscroll, screen

textvars == <<length, fixed, boxh, page, page_length, begin_reached, hscroll, screen>>

NoText ==
    /\ length = 0 /\ fixed = 0 /\ boxh = 0 /\ page = 0 /\ page_length = 0
    /\ begin_reached = TRUE /\ hscroll = 0 /\ screen = <<>>
TextGone ==
    /\ length' = 0 /\ fixed' = 0 /\ boxh' = 0 /\ page' = 0 /\ page_length' = 0
    /\ begin_reached' = TRUE /\ hscroll' = 0 /\ screen' = <<>>

end_reached == page = length + 1

\* The messages, in boxes of given height, have no newline at their end; help
\* texts, the README and what a search found have.
Ended(f) == f = 0

\* get_line k times from p on.
After(n, e, p, k) ==
    IF k = 0 \/ p + k <= (IF e THEN n ELSE n - 1) THEN p + k ELSE n + 1

\* The lines counted of k read from p on: up to the first that finds the end.
Counted(n, e, p, k) == AtMost(k, AtLeast((IF e THEN n + 1 ELSE n) - p, 1))

Rows(h) == 0 .. h - 1

\* print_page in h rows, from p on.
Page(n, e, p, h) ==
    /\ page' = After(n, e, p, h)
    /\ page_length' = Counted(n, e, p, h)
    /\ screen' = [r \in Rows(h) |-> AtMost(p + r, n)]

\* Where back_lines(k) goes from p; it finds the beginning on the way.
Back(p, k) == AtLeast(p - k, 0)
Begins(p, k) == p <= k

\* A box of given height, or as high as the screen allows.
BoxHeight(f) == IF f # 0 THEN f - 4 ELSE lines' - 8

OpenText(n, f) ==
    /\ length' = n /\ fixed' = f
    /\ boxh' = BoxHeight(f)
    /\ begin_reached' = TRUE
    /\ hscroll' = 0
    /\ Page(n, Ended(f), 0, boxh')

\* After a resize: back by the height the window had.
RedrawText ==
    /\ UNCHANGED <<length, fixed, hscroll>>
    /\ boxh' = BoxHeight(fixed)
    /\ begin_reached' = Begins(page, boxh + 4)
    /\ Page(length, Ended(fixed), Back(page, boxh + 4), boxh')

TextKey == open = "text" /\ UNCHANGED <<open, lines, length, fixed, boxh>>

TextFrom(p) == Page(length, Ended(fixed), p, boxh)

TextHome ==
    /\ TextKey
    /\ ~begin_reached
    /\ begin_reached' = TRUE
    /\ TextFrom(0)
    /\ UNCHANGED hscroll

TextEnd ==
    /\ TextKey
    /\ begin_reached' = Begins(length + 1, boxh)
    /\ TextFrom(Back(length + 1, boxh))
    /\ UNCHANGED hscroll

\* The first row is printed, the others move down.
TextUp ==
    /\ TextKey
    /\ ~begin_reached
    /\ LET p == Back(page, page_length + 1) IN
       /\ page' = After(length, Ended(fixed), p, boxh)
       /\ page_length' = Counted(length, Ended(fixed), p, boxh)
       /\ screen' = [r \in Rows(boxh) |-> IF r = 0 THEN AtMost(p, length) ELSE screen[r - 1]]
    /\ begin_reached' = Begins(page, page_length + 1)
    /\ UNCHANGED hscroll

TextPageUp ==
    /\ TextKey
    /\ ~begin_reached
    /\ begin_reached' = Begins(page, page_length + boxh)
    /\ TextFrom(Back(page, page_length + boxh))
    /\ UNCHANGED hscroll

\* The last row is printed, the others move up.
TextDown ==
    /\ TextKey
    /\ ~end_reached
    /\ begin_reached' = FALSE
    /\ page' = After(length, Ended(fixed), page, 1)
    /\ screen' = [r \in Rows(boxh) |-> IF r = boxh - 1 THEN AtMost(page, length) ELSE screen[r + 1]]
    /\ UNCHANGED <<page_length, hscroll>>

TextPageDown ==
    /\ TextKey
    /\ ~end_reached
    /\ begin_reached' = FALSE
    /\ TextFrom(page)
    /\ UNCHANGED hscroll

\* To the left, to the right, or to the beginning of the lines: the page is
\* printed again.
TextShift ==
    /\ TextKey
    /\ \/ hscroll > 0 /\ hscroll' \in {0, hscroll - 1}
       \/ hscroll < MaxScroll /\ hscroll' = hscroll + 1
    /\ begin_reached' = Begins(page, page_length)
    /\ TextFrom(Back(page, page_length))

TextKeys == TextHome \/ TextEnd \/ TextUp \/ TextPageUp \/ TextDown \/ TextPageDown \/ TextShift

\* The first line shown.
TextTop == page - page_length
=============================================================================
