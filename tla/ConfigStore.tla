----------------------------- MODULE ConfigStore ----------------------------
(***************************************************************************)
(* What the configuration files promise, whatever is interrupted: there is *)
(* one configuration, the last one completely saved, and the files derived *)
(* from it are either those of that configuration or known to be stale.    *)
(***************************************************************************)
CONSTANTS
    Syms,     \* the configuration symbols
    Values,   \* what a symbol may be set to, other than not set
    Missing   \* no such file

(* A line of .config: a value, "n" for "# X is not set", "-" for a symbol  *)
(* that is not visible, which has no line, and "?" for one that is visible *)
(* and has none yet.                                                       *)
Line    == Values \cup {"n", "-", "?"}
Configs == [Syms -> Line]

(* What is derived from a line: one of a symbol not set is no definition.  *)
Norm(c) == [s \in Syms |-> IF c[s] \in {"n", "?"} THEN "-" ELSE c[s]]

VARIABLES
    saved,    \* the configuration
    derived   \* <<the header, auto.conf>>, or Missing: to be made again

store == <<saved, derived>>

StoreInit == saved \in {Missing} \cup Configs /\ derived = Missing

Save   == saved' \in Configs /\ derived' = Missing
Derive == /\ saved # Missing
          /\ derived' = <<Norm(saved), Norm(saved)>>
          /\ UNCHANGED saved
Forget == derived' = Missing /\ UNCHANGED saved
(* A symbol becomes visible: nothing is known of it, so nothing changes.   *)
Reveal == /\ saved # Missing
          /\ saved' \in Configs /\ Norm(saved') = Norm(saved)
          /\ UNCHANGED derived

StoreNext == Save \/ Derive \/ Forget \/ Reveal
StoreSpec == StoreInit /\ [][StoreNext]_store
=============================================================================
