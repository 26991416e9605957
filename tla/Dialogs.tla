------------------------------ MODULE Dialogs -------------------------------
(***************************************************************************)
(* What the windows of menuconfig (package/config/lxdialog) share.  One is *)
(* open at a time.  Only the height of the screen is followed: the windows *)
(* treat its width alike.                                                  *)
(***************************************************************************)
EXTENDS Integers, Sequences

CONSTANT Heights    \* the heights the terminal is given

\* On a screen of 8 lines a text has a window without a line, and on one of 9
\* there is room for a value but not for the name of a file: neither is
\* followed.
ASSUME HeightsAssumption == Heights \subseteq Nat \ {8, 9}

VARIABLES open,     \* the window that is open
          lines     \* getmaxy(stdscr)

AtMost(a, b) == IF a < b THEN a ELSE b
AtLeast(a, b) == IF a < b THEN b ELSE a
=============================================================================
