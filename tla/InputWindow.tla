---------------------------- MODULE InputWindow -----------------------------
(***************************************************************************)
(* dialog_inputbox (lxdialog/inputbox.c): a string that is typed at its end, *)
(* of which a field of Width columns shows what follows the first offset   *)
(* characters.  Of the string only the length is kept.  button is -1 while *)
(* the field is selected.                                                  *)
(***************************************************************************)
EXTENDS Dialogs

CONSTANTS Width,    \* box_width
          MAX_LEN
ASSUME WidthAssumption == Width \in Nat /\ Width >= 2 /\ MAX_LEN \in Nat

VARIABLES
    strlen,     \* strlen(instr)
    offset,     \* scroll
    input_x,    \* the column of the cursor in the field
    button,
    astray      \* a resize left an offset to a string that fits in the field

inputvars == <<strlen, offset, input_x, button, astray>>

NoInput == strlen = 0 /\ offset = 0 /\ input_x = 0 /\ button = -1 /\ astray = FALSE
InputGone == strlen' = 0 /\ offset' = 0 /\ input_x' = 0 /\ button' = -1 /\ astray' = FALSE

\* Where the next character goes.
Cursor == offset + input_x

\* A string of n characters is shown, the cursor after it; s is scroll so far.
DrawInput(n, s, b) ==
    /\ strlen' = n
    /\ offset' = IF n >= Width THEN n - Width + 1 ELSE s
    /\ input_x' = IF n >= Width THEN Width - 1 ELSE n
    /\ button' = b
    /\ astray' = (n < Width /\ s # 0)

InField ==
    /\ open = "input" /\ button = -1
    /\ UNCHANGED <<open, lines, button, astray>>

\* instr[i] = '\0'; what is before the string is no part of it.
Cut(i) == IF 0 <= i THEN AtMost(strlen, i) ELSE strlen

\* Before the first column there is more of the string: it is shown, and
\* nothing deleted.
BackspaceScroll ==
    /\ InField
    /\ input_x = 0 /\ offset # 0
    /\ offset' = IF offset < Width - 1 THEN 0 ELSE offset - (Width - 1)
    /\ input_x' = strlen - offset'
    /\ strlen' = Cut(offset' + input_x')

\* A string gone astray is followed no further than its beginning.
Backspace ==
    /\ InField
    /\ input_x # 0 /\ (astray => Cursor > 0)
    /\ input_x' = input_x - 1
    /\ strlen' = Cut(Cursor - 1)
    /\ UNCHANGED offset

Type ==
    /\ InField
    /\ Cursor < MAX_LEN
    /\ strlen' = IF Cursor <= strlen THEN Cursor + 1 ELSE strlen
    /\ IF input_x = Width - 1 THEN offset' = offset + 1 /\ UNCHANGED input_x
       ELSE input_x' = input_x + 1 /\ UNCHANGED offset

\* TAB and the arrow keys go round the field, OK and Help; left and right
\* are not for the field.
NextButton ==
    /\ open = "input"
    /\ \/ button' = IF button = 1 THEN -1 ELSE button + 1
       \/ button' = IF button = -1 THEN 1 ELSE button - 1
    /\ UNCHANGED <<open, lines, strlen, offset, input_x, astray>>

InputKeys == BackspaceScroll \/ Backspace \/ Type \/ NextButton
=============================================================================
