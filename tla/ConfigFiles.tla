---------------------------- MODULE ConfigFiles -----------------------------
(***************************************************************************)
(* The files a configuration lives in, between the configurators and make: *)
(* .config and .config.old, the header and auto.conf derived from them, one *)
(* empty header for each symbol, touched when its value changes, and the   *)
(* gcc that is built again when one of those it lists is newer             *)
(* (package/config/confdata.c conf_write, conf_split_config and            *)
(* conf_write_autoconf, conf.c main, Makefile, toolchain/gcc).             *)
(*                                                                         *)
(* One command runs at a time and may be killed between any two system     *)
(* calls.  What a configuration may be is ConfSession's; here it is any    *)
(* function.  The file times make compares are three facts: current,       *)
(* oldcurrent and newer.                                                   *)
(***************************************************************************)
EXTENDS FiniteSets

CONSTANTS Syms, Values, Missing,
          Watched   \* the symbols whose headers gcc is built from

VARIABLES
    config, old,   \* .config and .config.old
    header, auto,  \* autoconf.h and auto.conf
    current,       \* auto.conf exists and is newer than .config
    oldcurrent,    \* and newer than .config.old
    exists, newer, \* the headers of symbols; those newer than gcc
    gcc,           \* the values gcc was configured with
    pc,            \* where the command that runs is
    mem,           \* the configuration it has in memory
    seen, listed,  \* values and headers as make read them when it started
    todo,          \* symbols it still has to compare
    late           \* symbols that got their value after make had read it

files == <<config, old, header, auto, current, oldcurrent, exists, newer, gcc>>
vars  == <<files, pc, mem, seen, listed, todo, late>>

saved   == IF config # Missing THEN config ELSE old
derived == IF config # Missing /\ current THEN <<header, auto>> ELSE Missing
Store   == INSTANCE ConfigStore

Line    == Store!Line
Configs == Store!Configs
Norm(c) == Store!Norm(c)
Derived == [Syms -> Values \cup {"-"}]

ASSUME FilesAssumption ==
    /\ Watched \subseteq Syms
    /\ Values \cap {"n", "-", "?"} = {}
    /\ Missing \notin Configs \cup Derived

(* What .config gives once every symbol it says nothing of has an answer.  *)
Completed(c) ==
    {m \in [Syms -> Line \ {"?"}] :
        \A s \in Syms : IF c[s] = "?" THEN m[s] # "-" ELSE m[s] = c[s]}
Unanswered(c) == {s \in Syms : c[s] = "?"}
-----------------------------------------------------------------------------
Init ==
    /\ config = Missing /\ old = Missing /\ header = Missing /\ auto = Missing
    /\ current = FALSE /\ oldcurrent = FALSE
    /\ exists = {} /\ newer = {} /\ gcc = Missing
    /\ pc = "none" /\ mem = Missing /\ seen = Missing /\ listed = {}
    /\ todo = {} /\ late = {}

(* The command ends, or is killed, and forgets what it had read.           *)
Ends == pc' = "none" /\ mem' = Missing /\ seen' = Missing /\ listed' = {} /\ todo' = {}

Kill == pc # "none" /\ Ends /\ UNCHANGED <<files, late>>

(* A configurator reads .config, or makes up one.                          *)
Configure ==
    /\ pc = "none" /\ pc' = "edit"
    /\ mem' \in IF config = Missing THEN [Syms -> Line \ {"?"}] ELSE Completed(config)
    /\ UNCHANGED <<files, seen, listed, todo, late>>

Edit(s) ==
    /\ pc = "edit"
    /\ \E v \in Line \ {"?"} : mem' = [mem EXCEPT ![s] = v]
    /\ UNCHANGED <<files, pc, seen, listed, todo, late>>

(* conf_write: .config becomes .config.old, if it is there, and then the   *)
(* file just written becomes .config.                                      *)
MutantAside(from, to) ==
    /\ pc = from /\ pc' = to
    /\ config' = Missing /\ current' = FALSE
    /\ UNCHANGED <<old, header, auto, oldcurrent, exists, newer, gcc, mem, seen, listed, todo,
                   late>>

Aside(from, to) ==
    /\ pc = from /\ pc' = to
    /\ config' = Missing
    /\ old' = IF config = Missing THEN old ELSE config
    /\ oldcurrent' = IF config = Missing THEN oldcurrent ELSE current
    /\ current' = FALSE
    /\ UNCHANGED <<header, auto, exists, newer, gcc, mem, seen, listed, todo, late>>

Place(from, to) ==
    /\ pc = from /\ pc' = to
    /\ config' = mem /\ current' = FALSE
    /\ UNCHANGED <<old, header, auto, oldcurrent, exists, newer, gcc, mem, seen, listed, todo,
                   late>>

conf_write(from, between, to) == Aside(from, between) \/ Place(between, to)

(* make reads .config, and the list of the headers there are; without a    *)
(* .config it runs a configurator.  It makes auto.conf if that is older.   *)
Make ==
    /\ pc = "none" /\ config # Missing
    /\ seen' = Norm(config)
    /\ listed' = exists \cap Watched
    /\ pc' = IF current THEN "gcc" ELSE "read"
    /\ UNCHANGED <<files, mem, todo, late>>

(* silentoldconfig reads .config and asks for what is not in it; only then *)
(* has it a configuration to write.                                        *)
Read ==
    /\ pc = "read"
    /\ mem' \in Completed(config)
    /\ pc' = IF Unanswered(config) = {} THEN "split" ELSE "save"
    /\ todo' = Syms
    /\ late' = late \cup {s \in Syms : Norm(mem')[s] # seen[s]}
    /\ UNCHANGED <<files, seen, listed>>

(* conf_split_config: a symbol whose value is not that of auto.conf has its *)
(* header touched.  No auto.conf gives no symbol a value.                  *)
MutantDiffers(new, s) == new[s] # "-" /\ new[s] # IF auto = Missing THEN "-" ELSE auto[s]

Differs(new, s) == new[s] # IF auto = Missing THEN "-" ELSE auto[s]

Split(s) ==
    /\ pc = "split" /\ s \in todo
    /\ todo' = todo \ {s}
    /\ IF Differs(Norm(mem), s)
       THEN /\ exists' = exists \cup {s}
            /\ newer' = newer \cup {s}
            /\ late' = IF seen[s] = Norm(mem)[s] THEN late \ {s} ELSE late
       ELSE UNCHANGED <<exists, newer, late>>
    /\ UNCHANGED <<config, old, header, auto, current, oldcurrent, gcc, pc, mem, seen, listed>>

(* conf_write_autoconf renames what it wrote, auto.conf last.              *)
RenameHeader ==
    /\ pc = "split" /\ todo = {} /\ pc' = "auto"
    /\ header' = Norm(mem)
    /\ UNCHANGED <<config, old, auto, current, oldcurrent, exists, newer, gcc, mem, seen,
                   listed, todo, late>>

MutantRenameAuto ==
    /\ pc = "split" /\ todo = {} /\ pc' = "gcc"
    /\ auto' = Norm(mem)
    /\ current' = TRUE /\ oldcurrent' = TRUE
    /\ UNCHANGED <<config, old, header, exists, newer, gcc, mem, seen, listed, todo, late>>

RenameAuto ==
    /\ pc = "auto" /\ pc' = "gcc"
    /\ auto' = Norm(mem)
    /\ current' = TRUE /\ oldcurrent' = TRUE
    /\ UNCHANGED <<config, old, header, exists, newer, gcc, mem, seen, listed, todo, late>>

(* gcc is built if it was not, or if a header make knows of is newer, with *)
(* the values make has read.                                               *)
Build ==
    /\ pc = "gcc" /\ Ends
    /\ IF gcc = Missing \/ listed \cap newer # {}
       THEN gcc' = seen /\ newer' = {}
       ELSE UNCHANGED <<gcc, newer>>
    /\ UNCHANGED <<config, old, header, auto, current, oldcurrent, exists, late>>

(* make clean.                                                             *)
Clean ==
    /\ pc = "none" /\ auto # Missing
    /\ header' = Missing /\ auto' = Missing /\ current' = FALSE /\ oldcurrent' = FALSE
    /\ exists' = {} /\ newer' = {} /\ gcc' = Missing /\ late' = {}
    /\ UNCHANGED <<config, old, pc, mem, seen, listed, todo>>

(* The user moves .config.old back when .config is gone.                   *)
Restore ==
    /\ pc = "none" /\ config = Missing /\ old # Missing
    /\ config' = old /\ current' = oldcurrent
    /\ old' = Missing /\ oldcurrent' = FALSE
    /\ UNCHANGED <<header, auto, exists, newer, gcc, pc, mem, seen, listed, todo, late>>

(* The Config.in files change, and a symbol that had no line should have.  *)
Upgrade(s) ==
    /\ pc = "none" /\ config # Missing /\ config[s] = "-"
    /\ config' = [config EXCEPT ![s] = "?"]
    /\ UNCHANGED <<old, header, auto, current, oldcurrent, exists, newer, gcc, pc, mem, seen,
                   listed, todo, late>>

Step ==
    \/ Kill \/ Configure \/ Make \/ Read \/ RenameHeader \/ RenameAuto \/ Build \/ Clean \/ Restore
    \/ conf_write("edit", "moved", "edit")
    \/ conf_write("save", "replaced", "split")
    \/ \E s \in Syms : Edit(s) \/ Split(s) \/ Upgrade(s)

Next == Step
Spec == Init /\ [][Next]_vars
-----------------------------------------------------------------------------
Known == {Missing} \cup Derived

TypeOK ==
    /\ config \in {Missing} \cup Configs /\ old \in {Missing} \cup Configs
    /\ header \in Known /\ auto \in Known /\ gcc \in Known /\ seen \in Known
    /\ {current, oldcurrent} \subseteq BOOLEAN
    /\ newer \subseteq exists /\ exists \subseteq Syms
    /\ pc \in {"none", "edit", "moved", "read", "save", "replaced", "split", "auto", "gcc"}
    /\ mem \in {Missing} \cup [Syms -> Line \ {"?"}]
    /\ (seen = Missing) = (pc \in {"none", "edit", "moved"})
    /\ listed \subseteq exists \cap Watched /\ todo \subseteq Syms /\ late \subseteq Syms

(* Where make finds auto.conf newer than .config, both it and the header   *)
(* are those of .config: no interrupted save or split leaves a fresh       *)
(* auto.conf of another configuration, nor does moving .config.old back.   *)
DerivedIsSaved ==
    current /\ config # Missing => header = Norm(config) /\ auto = Norm(config)

(* A change of the configuration that gcc is built from is never forgotten: *)
(* while auto.conf is up to date, a symbol gcc was built with another value *)
(* of has a header newer than gcc, however often makes were interrupted    *)
(* between touching the headers and building -- except a symbol whose      *)
(* question was answered in the middle of the make.                        *)
NotForgotten ==
    \A s \in Watched \ late :
        gcc # Missing /\ current /\ config # Missing /\ gcc[s] # auto[s] => s \in newer

(* The configuration last saved is in .config, or in .config.old when      *)
(* .config is gone; and what is derived is derived from it.                *)
KeepsStore == Store!StoreSpec
=============================================================================
