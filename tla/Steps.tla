------------------------------- MODULE Steps --------------------------------
(***************************************************************************)
(* What the package infrastructure promises about order: a set of steps    *)
(* that are done, where a step is added only while all it needs is there,  *)
(* and where any set of steps may be undone at any time.                   *)
(***************************************************************************)
CONSTANTS Item, Before
VARIABLE done

Init == done = {}

Do(x) == /\ x \in Item \ done
         /\ Before[x] \subseteq done
         /\ done' = done \cup {x}

Undo == done' \in SUBSET done

Next == (\E x \in Item : Do(x)) \/ Undo
Spec == Init /\ [][Next]_done
=============================================================================
