---------------------------- MODULE ListWindows -----------------------------
(***************************************************************************)
(* dialog_menu (lxdialog/menubox.c) and dialog_checklist (checklist.c): a  *)
(* list of items, of which a window of max_choice lines shows those from   *)
(* scroll on; choice is the line that is highlighted.  After a key only the *)
(* lines that change are printed, the others are moved by wscrl: row is what *)
(* stands in the window.  A hotkey goes to any line, a letter being as good  *)
(* as another; the button that is chosen is told when the window returns.  *)
(***************************************************************************)
EXTENDS Dialogs

CONSTANT ListHeight     \* list_height of dialog_checklist
ASSUME ListHeightAssumption == ListHeight \in Nat \ {0}

VARIABLES
    items,          \* item_count()
    selected,       \* the item whose data dialog_menu was given, -1 if none
    first_item,     \* the first item dialog_menu prints
    max_choice,
    scroll,
    choice,
    row,            \* the item printed on each line of the window
    lit,            \* the lines that are highlighted
    arrows,         \* the scroll indicators
    misdrawn        \* when it was last drawn whole, it was not what it should be

listvars == <<items, selected, first_item, max_choice, scroll, choice, row, lit, arrows, misdrawn>>

\* The locals are gone when the window is.
NoList ==
    /\ items = 0 /\ selected = -1 /\ first_item = 0 /\ max_choice = 0 /\ scroll = 0 /\ choice = 0
    /\ row = <<>> /\ lit = {} /\ arrows = <<FALSE, FALSE>> /\ misdrawn = FALSE
ListGone ==
    /\ items' = 0 /\ selected' = -1 /\ first_item' = 0 /\ max_choice' = 0 /\ scroll' = 0 /\ choice' = 0
    /\ row' = <<>> /\ lit' = {} /\ arrows' = <<FALSE, FALSE>> /\ misdrawn' = FALSE

Lines == 0 .. max_choice - 1

\* The window after it was scrolled by k lines and line c was highlighted.
Printed(k, c) ==
    [r \in Lines |-> IF r # c /\ r + k \in Lines \ {choice} THEN row[r + k] ELSE scroll + k + r]
Highlighted(k, c) == {r \in Lines : r + k \in lit \ {choice}} \cup {c}

Move(k, c) ==
    /\ scroll' = scroll + k
    /\ choice' = c
    /\ row' = Printed(k, c)
    /\ lit' = Highlighted(k, c)
    /\ UNCHANGED <<items, selected, first_item, max_choice, misdrawn>>
-----------------------------------------------------------------------------
MenuHeight(h) == h - 14
MenuArrows(s, h) == <<s > 0, s + MenuHeight(h) < items>>

\* How dialog_menu starts or restarts: the first item and the line
\* highlighted, of n items in max lines, where c is the choice so far and s
\* the scroll that was saved.
SavedFits(n, max, c, s) == s <= c /\ c < s + max /\ 0 <= s /\ s + max <= n
ScrollFor(n, max, c, s) ==
    IF SavedFits(n, max, c, s) THEN s
    ELSE IF c < max THEN 0
    ELSE IF c >= n - max \div 2 THEN n - max ELSE c - max \div 2

\* first_item is set with scroll, except where scroll is set to 0.
FirstFor(n, max, c, s, f) ==
    IF SavedFits(n, max, c, s) \/ c >= max THEN ScrollFor(n, max, c, s) ELSE f

DrawMenu(n, sel, s, c, f) ==
    LET max == AtMost(MenuHeight(lines'), n)
        at == IF sel >= 0 THEN sel ELSE c
    IN /\ items' = n
       /\ selected' = sel
       /\ max_choice' = max
       /\ scroll' = ScrollFor(n, max, at, s)
       /\ choice' = at - scroll'
       /\ first_item' = FirstFor(n, max, at, s, f)
       /\ row' = [r \in 0 .. max - 1 |-> first_item' + r]
       /\ lit' = {at - scroll'}
       /\ arrows' = <<scroll' > 0, scroll' + MenuHeight(lines') < n>>
       /\ misdrawn' = (first_item' # scroll')

MenuKey(k, c) ==
    /\ open = "menu"
    /\ Move(k, c)
    /\ arrows' = MenuArrows(scroll + k, lines)
    /\ UNCHANGED <<open, lines>>

MenuUp ==
    IF choice < 2 /\ scroll # 0 THEN MenuKey(-1, choice) ELSE MenuKey(0, AtLeast(choice - 1, 0))

\* Mutant: the list scrolls though its last item is shown.
MutantMenuDown ==
    IF choice > max_choice - 3 /\ scroll + max_choice <= items THEN MenuKey(1, choice)
    ELSE MenuKey(0, AtMost(choice + 1, max_choice - 1))

MenuDown ==
    IF choice > max_choice - 3 /\ scroll + max_choice < items THEN MenuKey(1, choice)
    ELSE MenuKey(0, AtMost(choice + 1, max_choice - 1))

\* max_choice times: a line up, and the highlight when there is none above.
MenuPageUp ==
    /\ max_choice > 0
    /\ LET k == AtMost(max_choice, scroll)
       IN MenuKey(-k, AtLeast(choice - (max_choice - k), 0))

\* Mutant: the highlight moves down whether the list scrolls or not.
MutantMenuPageDown ==
    /\ max_choice > 0
    /\ LET k == AtMost(max_choice, items - (scroll + max_choice))
       IN MenuKey(k, AtMost(choice + max_choice, max_choice - 1))

MenuPageDown ==
    /\ max_choice > 0
    /\ LET k == AtMost(max_choice, items - (scroll + max_choice))
       IN MenuKey(k, AtMost(choice + (max_choice - k), max_choice - 1))

MenuLetter == \E i \in Lines : MenuKey(0, i)
-----------------------------------------------------------------------------
\* As the indicators of dialog_checklist are printed: by the highlight.
ListArrows(n, s, c) == <<s > 0, ListHeight < n /\ s + c < n - 1>>

DrawList(n, s, c) ==
    LET k == IF c >= ListHeight THEN c - ListHeight + 1 ELSE s
        i == IF c >= ListHeight THEN ListHeight - 1 ELSE c
    IN /\ items' = n
       /\ selected' = -1
       /\ first_item' = 0
       /\ max_choice' = AtMost(ListHeight, n)
       /\ scroll' = k
       /\ choice' = i
       /\ row' = [r \in 0 .. max_choice' - 1 |-> k + r]
       /\ lit' = {i}
       /\ arrows' = ListArrows(n, k, i)
       /\ misdrawn' = (arrows' # <<k > 0, k + max_choice' < n>>)

\* The window scrolls under a highlight that stays on its line.
ListScroll(k) ==
    /\ open = "list"
    /\ Move(k, choice)
    /\ arrows' = ListArrows(items, scroll + k, choice)
    /\ UNCHANGED <<open, lines>>

\* The highlight moves; the indicators are left as they are.
ListMove(i) ==
    /\ open = "list"
    /\ Move(0, i)
    /\ UNCHANGED <<open, lines, arrows>>

ListUp == IF choice = 0 THEN scroll # 0 /\ ListScroll(-1) ELSE ListMove(choice - 1)

ListDown ==
    IF choice = max_choice - 1 THEN scroll + choice < items - 1 /\ ListScroll(1)
    ELSE ListMove(choice + 1)

ListLetter == \E i \in Lines : ListMove(i)
-----------------------------------------------------------------------------
ListKeys ==
    \/ MenuUp \/ MenuDown \/ MenuPageUp \/ MenuPageDown \/ MenuLetter
    \/ ListUp \/ ListDown \/ ListLetter

\* The item the highlight is on.
At == scroll + choice
=============================================================================
