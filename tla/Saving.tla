------------------------------- MODULE Saving -------------------------------
(***************************************************************************)
(* When the four front ends with menus ask to save, where they save, and    *)
(* what they say of it: mconf.c, nconf.c, gconf.c and qconf.cc around        *)
(* conf_read and conf_write (package/config/confdata.c).                     *)
(*                                                                         *)
(* A configuration is one of Values.  A file holds one, or one of Foreign,  *)
(* which reads as a value that it is not and makes conf_read count a change;*)
(* Hollow is a file without the lines that are no longer marked.  The       *)
(* theorem of the property stands at the end.                               *)
(***************************************************************************)
EXTENDS Naturals, TLAPS

CONSTANTS Programs,   \* those that may run
          Names,      \* the files, DotConfig among them
          DotConfig,
          Values, Default,
          Foreign,
          ReadAs      \* what those of Foreign read as

Missing == "missing"
Hollow  == "hollow"

ASSUME SavingAssumption ==
    /\ DotConfig \in Names /\ Default \in Values
    /\ ReadAs \in Values
    /\ Foreign \cap Values = {} /\ \A c \in {Missing, Hollow} : c \notin Values \cup Foreign

VARIABLES
    program,
    files,      \* what each file holds
    mem,        \* the configuration of the program
    count,      \* sym_change_count # 0
    marked,     \* the symbols have SYMBOL_WRITE, which conf_write takes away
    filename,   \* mconf and nconf: the name shown in the title and offered
    screen,     \* "menus", "load", "save", "ask", or "end" once it has returned
    told,       \* what it said last
    answer,     \* to the question whether to save, "" if it was not asked
    forgot,     \* a load has failed since the last change
    torn        \* the last rename of a save has failed, and nothing has been set
                \* or loaded since

vars == <<program, files, mem, count, marked, filename, screen, told, answer, forgot, torn>>

Curses == program \in {"mconf", "nconf"}

\* What a file that holds c is read as.
Value(c) == IF c \in Values THEN c ELSE IF c = Hollow THEN Default ELSE ReadAs

\* conf_read(NULL): without a file the defaults are changes.
Init ==
    /\ program \in Programs
    /\ files \in [Names -> Values \cup Foreign \cup {Missing}]
    /\ LET c == files[DotConfig] IN
       /\ mem = IF c = Missing THEN Default ELSE Value(c)
       /\ count = (c \notin Values)
    /\ marked = TRUE
    /\ filename = DotConfig
    /\ screen = "menus" /\ told = "" /\ answer = ""
    /\ forgot = FALSE /\ torn = FALSE

\* A symbol is set.
Edit(v) ==
    /\ screen = "menus" /\ v # mem
    /\ mem' = v /\ count' = TRUE /\ marked' = TRUE
    /\ forgot' = FALSE /\ torn' = FALSE
    /\ UNCHANGED <<program, files, filename, screen, told, answer>>

\* conf_read(name), and whether the program counts what it loads as a change.
conf_read(name, change) ==
    LET c == files[name] IN
    /\ IF c = Missing
       THEN /\ count' = FALSE /\ told' = "no such file" /\ forgot' = TRUE
            /\ UNCHANGED <<mem, marked, torn>>
       ELSE /\ mem' = Value(c) /\ count' = (change \/ c \notin Values)
            /\ marked' = TRUE /\ told' = "" /\ forgot' = FALSE /\ torn' = FALSE
    /\ UNCHANGED <<program, files, answer>>

\* What conf_write puts into the file: it marks the symbols anew only if there
\* were no changes to save.
Written == IF count /\ ~marked THEN Hollow ELSE mem

\* Mutant of conf_write: the changes are forgotten before the file is in place.
MutantWrite(name, outcome) ==
    /\ files' = [files EXCEPT ![name] = CASE outcome = "written" -> Written
                                          [] outcome = "not created" -> @
                                          [] outcome = "not renamed" -> Missing]
    /\ count' = FALSE
    /\ marked' = (outcome = "not created" /\ marked)
    /\ torn' = (torn \/ outcome = "not renamed")
    /\ UNCHANGED <<program, mem>>

\* conf_write(name): the file cannot be created, or it is not renamed when the
\* old one has been.
conf_write(name, outcome) ==
    /\ files' = [files EXCEPT ![name] = CASE outcome = "written" -> Written
                                          [] outcome = "not created" -> @
                                          [] outcome = "not renamed" -> Missing]
    /\ count' = CASE outcome = "written" -> FALSE
                  [] outcome = "not created" -> count
                  [] outcome = "not renamed" -> TRUE
    /\ marked' = (outcome = "not created" /\ marked)
    /\ torn' = (torn \/ outcome = "not renamed")
    /\ UNCHANGED <<program, mem>>

Outcomes == {"written", "not created", "not renamed"}

-----------------------------------------------------------------------------
\* conf_load and conf_save of mconf and nconf: the dialog comes back until it
\* has worked or is left.
OpenDialog(s) ==
    /\ Curses /\ screen = "menus" /\ screen' = s
    /\ UNCHANGED <<program, files, mem, count, marked, filename, told, answer, forgot, torn>>

Abort ==
    /\ Curses /\ screen \in {"load", "save"} /\ screen' = "menus"
    /\ UNCHANGED <<program, files, mem, count, marked, filename, told, answer, forgot, torn>>

conf_load(name) ==
    /\ screen = "load"
    /\ conf_read(name, TRUE)
    /\ IF files[name] = Missing THEN UNCHANGED <<filename, screen>>
       ELSE filename' = name /\ screen' = "menus"

conf_save(name, outcome) ==
    /\ screen = "save"
    /\ conf_write(name, outcome)
    /\ IF outcome = "written" THEN filename' = name /\ screen' = "menus" /\ told' = "written"
       ELSE told' = "cannot create" /\ UNCHANGED <<filename, screen>>
    /\ UNCHANGED <<answer, forgot>>

\* Load and Save As of gconf and qconf; Save, while there are changes.
Load(name) ==
    /\ ~Curses /\ screen = "menus"
    /\ conf_read(name, FALSE)
    /\ UNCHANGED <<filename, screen>>

Save(name, outcome) ==
    /\ ~Curses /\ screen = "menus"
    /\ name = DotConfig => count
    /\ conf_write(name, outcome)
    /\ told' = IF outcome = "written" THEN "written" ELSE "unable to save"
    /\ UNCHANGED <<filename, screen, answer, forgot>>

-----------------------------------------------------------------------------
\* The menus are left, or the window is closed: it asks if there are changes.
Quit ==
    /\ screen = "menus"
    /\ screen' = IF count THEN "ask" ELSE "end"
    /\ told' = IF ~count /\ program = "mconf" THEN "execute make" ELSE told
    /\ UNCHANGED <<program, files, mem, count, marked, filename, answer, forgot, torn>>

Resume ==
    /\ screen = "ask" /\ screen' = "menus"
    /\ answer' = ""
    /\ UNCHANGED <<program, files, mem, count, marked, filename, told, forgot, torn>>

No ==
    /\ screen = "ask" /\ screen' = "end" /\ answer' = "no"
    /\ told' = IF Curses THEN "NOT saved" ELSE told
    /\ UNCHANGED <<program, files, mem, count, marked, filename, forgot, torn>>

Target == IF Curses THEN filename ELSE DotConfig

\* gconf and qconf save .config, and go whether it worked or not: gconf writes
\* a message into the window that it closes.
Yes(outcome) ==
    /\ screen = "ask" /\ screen' = "end" /\ answer' = "yes"
    /\ conf_write(Target, outcome)
    /\ told' = CASE outcome = "written" -> IF program = "mconf" THEN "execute make" ELSE "written"
                 [] outcome # "written" /\ Curses -> "NOT saved"
                 [] outcome # "written" /\ program = "gconf" -> "unable to save"
                 [] OTHER -> told
    /\ UNCHANGED <<filename, forgot>>

Ended == screen = "end" /\ UNCHANGED vars

Next ==
    \/ \E v \in Values : Edit(v)
    \/ \E s \in {"load", "save"} : OpenDialog(s)
    \/ Abort
    \/ \E name \in Names : conf_load(name) \/ Load(name)
    \/ \E name \in Names, outcome \in Outcomes : conf_save(name, outcome) \/ Save(name, outcome)
    \/ Quit \/ Resume \/ No
    \/ \E outcome \in Outcomes : Yes(outcome)
    \/ Ended

Spec == Init /\ [][Next]_vars

-----------------------------------------------------------------------------
InAFile == IF Curses THEN files[filename] = mem ELSE \E name \in Names : files[name] = mem

\* A program that ends without a question leaves its configuration in a file:
\* mconf and nconf in the one whose name is shown.  Excepted are two states: a
\* load has failed since (forgot: conf_read sets the count of changes to 0 before
\* it opens the file, and what was set before is lost unasked), or a save was torn
\* (what conf_write no longer finds marked it leaves out, and counts as written).
NothingLost == screen = "end" /\ answer = "" /\ ~forgot /\ ~torn => InAFile

\* Who answers yes to mconf or nconf, and is not told that it failed, finds the
\* configuration in the file whose name was shown.  (Not if a save was torn.)
YesSaves == (screen = "end" /\ answer = "yes" /\ Curses /\ told # "NOT saved" /\ ~torn) =>
    files[filename] = mem

\* Whoever leaves has the configuration saved where the program says.
SavedOnExit == NothingLost /\ YesSaves
-----------------------------------------------------------------------------
(* The proof that whoever leaves has saved.                                *)

Types ==
    /\ files \in [Names -> Values \cup Foreign \cup {Missing, Hollow}]
    /\ mem \in Values /\ filename \in Names
    /\ {count, marked, forgot, torn} \subseteq BOOLEAN

(* No changes counted: the configuration is in a file.                     *)
Counted == ~count /\ ~forgot /\ ~torn => InAFile
(* There is something to write, but after a torn save.                     *)
Whole == count /\ ~marked => torn
(* It is left with changes only when that was asked about.                 *)
Asked ==
    /\ answer # "" => screen = "end"
    /\ screen = "end" /\ answer = "" => ~count

IInv == Types /\ Counted /\ Whole /\ Asked /\ YesSaves
-----------------------------------------------------------------------------
LEMMA InitHolds == Init => IInv
BY SavingAssumption DEF Init, IInv, Types, Counted, InAFile, Whole, Asked, YesSaves, Value, Curses

(* Writing a file that is not torn writes the configuration.               *)
LEMMA WriteStep ==
    ASSUME IInv, NEW name \in Names, NEW outcome \in Outcomes, conf_write(name, outcome)
    PROVE  /\ files' \in [Names -> Values \cup Foreign \cup {Missing, Hollow}]
           /\ {count, marked, torn}' \subseteq BOOLEAN
           /\ Whole'
           /\ outcome = "written" => ~count' /\ (torn' \/ files'[name] = mem')
           /\ outcome = "not created" => files' = files /\ count' = count
           /\ outcome = "not renamed" => torn'
BY DEF IInv, Types, Whole, Counted, conf_write, Written, Outcomes

(* Reading a file that is there has the configuration of that file.        *)
LEMMA ReadStep ==
    ASSUME IInv, NEW name \in Names, NEW change \in BOOLEAN, conf_read(name, change)
    PROVE  /\ mem' \in Values /\ {count, marked, torn, forgot}' \subseteq BOOLEAN
           /\ Whole'
           /\ files' = files
           /\ forgot' \/ count' \/ files'[name] = mem'
           /\ files[name] = Missing => forgot'
BY SavingAssumption DEF IInv, Types, Whole, conf_read, Value

LEMMA Inductive == IInv /\ [Next]_vars => IInv'
<1> SUFFICES ASSUME IInv, [Next]_vars PROVE IInv'
  OBVIOUS
<1>1. CASE UNCHANGED vars
  BY <1>1 DEF vars, IInv, Types, Counted, InAFile, Whole, Asked, YesSaves, Curses
<1>2. ASSUME NEW v \in Values, Edit(v) PROVE IInv'
  BY <1>2 DEF Edit, IInv, Types, Counted, InAFile, Whole, Asked, YesSaves, Curses
<1>3. CASE (\E s \in {"load", "save"} : OpenDialog(s)) \/ Abort \/ Quit \/ Resume
  <2>1. UNCHANGED <<program, files, mem, count, marked, filename, forgot, torn>>
    BY <1>3 DEF OpenDialog, Abort, Quit, Resume
  <2>2. answer = "" /\ answer' = "" /\ (screen' = "end" => ~count)
    BY <1>3 DEF OpenDialog, Abort, Quit, Resume, IInv, Asked
  <2> QED BY <2>1, <2>2 DEF IInv, Types, Counted, InAFile, Whole, Asked, YesSaves, Curses
<1>4. CASE No
  BY <1>4 DEF No, IInv, Types, Counted, InAFile, Whole, Asked, YesSaves, Curses
<1>5. ASSUME NEW name \in Names, conf_load(name) \/ Load(name) PROVE IInv'
  BY <1>5, ReadStep DEF conf_load, Load, conf_read, IInv, Types, Counted, InAFile, Asked, YesSaves, Curses
<1>6. ASSUME NEW name \in Names, NEW outcome \in Outcomes, conf_save(name, outcome) PROVE IInv'
  BY <1>6, WriteStep DEF conf_save, conf_write, Outcomes, IInv, Types, Counted, InAFile, Asked, YesSaves, Curses
<1>7. ASSUME NEW name \in Names, NEW outcome \in Outcomes, Save(name, outcome) PROVE IInv'
  BY <1>7, WriteStep DEF Save, conf_write, Outcomes, IInv, Types, Counted, InAFile, Asked, YesSaves, Curses
<1>8. ASSUME NEW outcome \in Outcomes, Yes(outcome) PROVE IInv'
  BY <1>8, WriteStep, SavingAssumption DEF Yes, Target, conf_write, Outcomes, IInv, Types, Counted, InAFile, Asked, YesSaves, Curses
<1> QED BY <1>1, <1>2, <1>3, <1>4, <1>5, <1>6, <1>7, <1>8 DEF Next, Ended

(* Whoever leaves a front end without being asked whether to save has the  *)
(* configuration in a file, unless a load or the last rename of a save has *)
(* failed since; who says yes finds it under the name that was shown.      *)
THEOREM LeavingSaves == Spec => []SavedOnExit
<1>1. IInv => SavedOnExit
  BY DEF IInv, Counted, InAFile, Asked, SavedOnExit, NothingLost
<1> QED BY <1>1, InitHolds, Inductive, PTL DEF Spec
=============================================================================
