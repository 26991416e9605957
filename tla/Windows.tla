------------------------------ MODULE Windows -------------------------------
(***************************************************************************)
(* The windows of menuconfig as mconf.c opens them: conf() shows a menu    *)
(* again after every key that leaves it, calls itself for a submenu, and   *)
(* conf_choice, conf_string, the searches and the help texts open the other *)
(* windows over it.  The terminal changes its height at any time.  What is *)
(* listed is another list each time: the values the user sets are those of *)
(* module Mconf.                                                           *)
(***************************************************************************)
EXTENDS ListWindows, InputWindow, TextWindow

CONSTANTS Counts,   \* how many items there may be in a list
          Lengths,  \* how long a string and how long a text may be
          Depth     \* how many calls of conf() are followed
ASSUME WindowsAssumption ==
    /\ Counts \subseteq Nat /\ Lengths \subseteq Nat \ {0} /\ Depth \in Nat
    /\ \A n \in Lengths : n <= MAX_LEN

VARIABLES
    s_scroll,   \* of the innermost call of conf()
    outer,      \* s_scroll of the calls of conf() around it
    under       \* the window a text was opened from

callvars == <<s_scroll, outer, under>>
vars == <<open, lines, listvars, inputvars, textvars, callvars>>

MenuRoom(h) == h >= 15
ListRoom(h) == h >= ListHeight + 15
InputRoom(h) == h > 8
TextRoom(h) == h >= 8
YesNoRoom(h) == h >= 10

NoWindow == ListGone /\ InputGone /\ TextGone

\* The question before the end; without room for it nothing is asked.
Ends ==
    /\ open' = IF YesNoRoom(lines') THEN "yesno" ELSE "over"
    /\ NoWindow

\* dialog_menu; without room for it every call of conf() returns.
OpenMenu(n, sel, s) ==
    /\ s_scroll' = s
    /\ IF MenuRoom(lines')
       THEN open' = "menu" /\ DrawMenu(n, sel, s, 0, 0) /\ InputGone /\ TextGone
       ELSE Ends

\* The call of conf() goes round: the item that was entered last, if any, may
\* be listed anywhere, or no more.
MenuAgain(s) ==
    /\ UNCHANGED <<lines, outer, under>>
    /\ \E n \in Counts : \E sel \in -1 .. n - 1 : OpenMenu(n, sel, s)

FirstMenu(o) ==
    /\ UNCHANGED <<lines, under>>
    /\ outer' = o
    /\ \E n \in Counts : OpenMenu(n, -1, 0)

\* dialog_checklist, the highlight on a value.
ShowList(n, c) ==
    /\ open' = "list"
    /\ DrawList(n, 0, c)
    /\ InputGone /\ TextGone

\* dialog_inputbox with a string of n characters.
ShowInput(n) ==
    /\ open' = "input"
    /\ DrawInput(n, 0, -1)
    /\ ListGone /\ TextGone

\* As long as there is no room for the input, mconf tries again and again; a
\* search it gives up, and then there is none for the menu either.
NoInputRoom == (open' = "no room" /\ NoWindow) \/ Ends

ShowText(n, f) ==
    /\ open' = "text"
    /\ OpenText(n, f)
    /\ ListGone /\ InputGone

Message == {<<1, 5>>, <<3, 6>>}     \* the lines and the heights of the messages
-----------------------------------------------------------------------------
Init ==
    /\ lines \in {h \in Heights : h >= 19}
    /\ open = "start"
    /\ NoList /\ NoInput /\ NoText
    /\ s_scroll = 0 /\ outer = <<>> /\ under = "menu"

Start == open = "start" /\ FirstMenu(<<>>)

\* An item that was set, or no item at all: the menu is shown again.
Set == open = "menu" /\ MenuAgain(scroll)

Submenu ==
    /\ open = "menu" /\ items > 0
    /\ Len(outer) < Depth - 1
    /\ FirstMenu(Append(outer, scroll))

\* The call of conf() around it shows its menu again.
Leave ==
    /\ open = "menu"
    /\ UNCHANGED <<lines, under>>
    /\ IF outer = <<>> THEN Ends /\ UNCHANGED <<s_scroll, outer>>
       ELSE /\ outer' = SubSeq(outer, 1, Len(outer) - 1)
            /\ \E n \in Counts : \E sel \in -1 .. n - 1 : OpenMenu(n, sel, outer[Len(outer)])

Saved == s_scroll' = scroll /\ UNCHANGED <<lines, outer, under>>

Choose ==
    /\ open = "menu" /\ items > 0
    /\ ListRoom(lines)
    /\ Saved
    /\ \E n \in Counts \ {0} : \E c \in 0 .. n - 1 : ShowList(n, c)

EnterString ==
    /\ open = "menu"
    /\ Saved
    /\ \E n \in Lengths \cup {0} : ShowInput(n)

\* Help, on an item, or the README.
Help ==
    /\ open \in {"menu", "list", "input"}
    /\ UNCHANGED <<lines, outer>>
    /\ under' = open
    /\ s_scroll' = IF open = "menu" THEN scroll ELSE s_scroll
    /\ \E n \in Lengths : ShowText(n, 0)

\* What a search found, or what is wrong with a value.
Tell ==
    /\ open = "input"
    /\ UNCHANGED <<lines, s_scroll, outer>>
    /\ \/ (\E n \in Lengths : ShowText(n, 0)) /\ under' = "menu"
       \/ (\E m \in Message : ShowText(m[1], m[2])) /\ under' = "input"

\* A value picked, a string taken, or neither.
Return == open \in {"list", "input"} /\ MenuAgain(s_scroll)

\* The window the text was opened from is opened anew.
TextDone ==
    /\ open = "text"
    /\ \/ under = "menu" /\ MenuAgain(s_scroll)
       \/ under = "list" /\ ~ListRoom(lines) /\ MenuAgain(s_scroll)
       \/ /\ under = "list" /\ ListRoom(lines)
          /\ UNCHANGED <<lines, callvars>>
          /\ \E n \in Counts \ {0} : \E c \in 0 .. n - 1 : ShowList(n, c)
       \/ /\ under = "input"
          /\ UNCHANGED <<lines, callvars>>
          /\ \E n \in Lengths \cup {0} : ShowInput(n)

\* Yes, no, or back to the main menu.
Answer ==
    /\ open = "yesno"
    /\ \/ open' = "over" /\ UNCHANGED <<lines, listvars, inputvars, textvars, callvars>>
       \/ FirstMenu(<<>>)
-----------------------------------------------------------------------------
\* An item that does not exist has no text: printing it ends the program.
ResizeMenu ==
    /\ open = "menu"
    /\ IF MenuRoom(lines')
       THEN /\ DrawMenu(items, selected, s_scroll, choice, first_item)
            /\ open' = IF first_item' + max_choice' > items THEN "crashed" ELSE "menu"
            /\ InputGone /\ TextGone
       ELSE Ends
    /\ UNCHANGED callvars

ResizeList ==
    /\ open = "list"
    /\ IF ListRoom(lines')
       THEN /\ DrawList(items, scroll, choice)
            /\ UNCHANGED <<open, inputvars, textvars, callvars>>
       ELSE /\ \E n \in Counts : \E sel \in -1 .. n - 1 : OpenMenu(n, sel, s_scroll)
            /\ UNCHANGED <<outer, under>>

ResizeInput ==
    /\ UNCHANGED callvars
    /\ \/ /\ open = "input" /\ InputRoom(lines')
          /\ DrawInput(strlen, offset, button)
          /\ UNCHANGED <<open, listvars, textvars>>
       \/ /\ open = "input" /\ ~InputRoom(lines')
          /\ NoInputRoom
       \/ /\ open = "no room" /\ InputRoom(lines')
          /\ \E n \in Lengths \cup {0} : ShowInput(n)

\* A text that has no room is left; what it was opened from finds none either.
ResizeText ==
    /\ open = "text"
    /\ UNCHANGED callvars
    /\ IF TextRoom(lines') THEN RedrawText /\ UNCHANGED <<open, listvars, inputvars>>
       ELSE IF under = "input" THEN NoInputRoom
       ELSE Ends

\* The question without room is not asked any more: nothing is saved.
ResizeYesNo ==
    /\ open = "yesno"
    /\ open' = IF YesNoRoom(lines') THEN "yesno" ELSE "over"
    /\ UNCHANGED <<listvars, inputvars, textvars, callvars>>

Resize ==
    /\ lines' \in Heights \ {lines}
    /\ ResizeMenu \/ ResizeList \/ ResizeInput \/ ResizeText \/ ResizeYesNo
-----------------------------------------------------------------------------
Next ==
    \/ ListKeys /\ UNCHANGED <<inputvars, textvars, callvars>>
    \/ InputKeys /\ UNCHANGED <<listvars, textvars, callvars>>
    \/ TextKeys /\ UNCHANGED <<listvars, inputvars, callvars>>
    \/ Start \/ Set \/ Submenu \/ Leave \/ Choose \/ EnterString \/ Help \/ Tell
    \/ Return \/ TextDone \/ Answer \/ Resize

Spec == Init /\ [][Next]_vars
-----------------------------------------------------------------------------
\* The highlight is in the window and on an item, each line shows the item
\* Enter would take there, and the indicators tell what is above and below.
ListTrue ==
    open \in {"menu", "list"} /\ items > 0 =>
        /\ choice \in Lines /\ lit = {choice}
        /\ 0 <= scroll /\ scroll + max_choice <= items
        /\ ~misdrawn => /\ row = [r \in Lines |-> scroll + r]
                       /\ arrows = <<scroll > 0, scroll + max_choice < items>>

\* The cursor is in the field and after the last character.
InputTrue ==
    open = "input" /\ ~astray =>
        /\ input_x \in 0 .. Width - 1 /\ offset >= 0
        /\ Cursor = strlen /\ strlen <= MAX_LEN

\* The rows are as if printed anew from the first line on, and the keys that
\* are refused are those with nothing left to show.
TextTrue ==
    open = "text" /\ Ended(fixed) =>
        /\ TextTop \in 0 .. length
        /\ begin_reached <=> TextTop = 0
        /\ end_reached <=> TextTop + boxh > length
        /\ screen = [r \in Rows(boxh) |-> AtMost(TextTop + r, length)]

(* What is on the screen, after any keys and changes of its size, is what  *)
(* the program takes it for: the highlight, the cursor and the lines that  *)
(* the windows of lxdialog print one by one are what printing them all     *)
(* anew would give.  Excepted are a list that a resize has drawn wrong     *)
(* (misdrawn: menubox.c:253 sets first_item only together with scroll) and *)
(* a string that one has moved out of its field (astray: inputbox.c:102    *)
(* sets scroll only for a string that is longer than the field).           *)
WindowsTrue == ListTrue /\ InputTrue /\ TextTrue

(* A key moves the highlight, the text or the end of the string by what it *)
(* says and no further than there is anything, whether the window scrolls  *)
(* or not (menubox.c:311, checklist.c:219, textbox.c:154, inputbox.c:128). *)
KeysMove == [][
    /\ items > 0 =>
         /\ MenuUp \/ ListUp => At' = AtLeast(At - 1, 0)
         /\ MenuDown \/ ListDown => At' = AtMost(At + 1, items - 1)
         /\ MenuPageUp => At' = AtLeast(At - max_choice, 0)
         /\ MenuPageDown => At' = AtMost(At + max_choice, items - 1)
    /\ ~astray =>
         /\ Type => strlen' = strlen + 1
         /\ Backspace => strlen' = strlen - 1
         /\ BackspaceScroll => strlen' = strlen
    /\ Ended(fixed) =>
         /\ TextUp => TextTop' = TextTop - 1
         /\ TextDown => TextTop' = TextTop + 1
         /\ TextPageUp => TextTop' = AtLeast(TextTop - boxh, 0)
         /\ TextPageDown => TextTop' = TextTop + boxh
         /\ TextShift => TextTop' = TextTop
    ]_vars
=============================================================================
