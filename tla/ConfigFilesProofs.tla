------------------------- MODULE ConfigFilesProofs --------------------------
(***************************************************************************)
(* For any set of symbols and values, whatever is interrupted: what make   *)
(* takes for fresh is derived from .config, no change of what gcc is built *)
(* from is forgotten, and the files keep the promise of ConfigStore.       *)
(***************************************************************************)
EXTENDS ConfigFiles, TLAPS

Maybe(S) == {Missing} \cup S
Answered == [Syms -> Line \ {"?"}]

Types ==
    /\ config \in Maybe(Configs) /\ old \in Maybe(Configs)
    /\ header \in Maybe(Derived) /\ auto \in Maybe(Derived)
    /\ gcc \in Maybe(Derived)
    /\ current \in BOOLEAN /\ oldcurrent \in BOOLEAN
    /\ todo \subseteq Syms
    /\ pc \in {"none", "edit", "moved", "read", "save", "replaced", "split", "auto", "gcc"}
    /\ pc \in {"edit", "moved", "save", "replaced", "split", "auto"} => mem \in Answered
    /\ pc \in {"read", "save", "replaced", "split", "auto", "gcc"} => seen \in Derived

(* Where the commands are, with respect to the two renames of conf_write   *)
(* and the last one of conf_write_autoconf.                                *)
Places ==
    /\ pc \in {"moved", "replaced"} => config = Missing
    /\ pc \in {"read", "save", "split", "auto"} => config # Missing /\ ~current
    /\ pc \in {"split", "auto"} => config = mem
    /\ pc = "auto" => header = Norm(mem)

(* auto.conf is fresh: of .config, or of .config.old if that will be moved *)
(* back.                                                                   *)
Fresh ==
    /\ current /\ config # Missing => header = Norm(config) /\ auto = Norm(config)
    /\ oldcurrent /\ config = Missing /\ old # Missing => header = Norm(old) /\ auto = Norm(old)

StoreInv == Types /\ Places /\ Fresh

(* What gcc was built with and what auto.conf says.                        *)
Noticed ==
    /\ auto = Missing => gcc = Missing
    /\ gcc # Missing => \A s \in Watched \ late : gcc[s] # auto[s] => s \in newer
(* The same of the configuration that is about to be auto.conf, for the    *)
(* symbols that have been compared.                                        *)
Compared ==
    /\ pc \in {"save", "replaced"} => todo = Syms
    /\ pc \in {"split", "auto"} /\ gcc # Missing =>
         \A s \in (Watched \ late) \ todo : gcc[s] # Norm(mem)[s] => s \in newer
    /\ pc = "auto" => todo = {}
(* What make has read and what gcc will be built from.                     *)
AsRead ==
    /\ pc \in {"save", "replaced", "split", "auto"} =>
         \A s \in Syms \ late : seen[s] = Norm(mem)[s]
    /\ pc = "gcc" => auto # Missing /\ \A s \in Syms \ late : seen[s] = auto[s]

IInv == StoreInv /\ Noticed /\ Compared /\ AsRead
-----------------------------------------------------------------------------
(* What is derived is a definition for each symbol, and no file is Missing *)
(* by its contents.                                                        *)
LEMMA NormDerived ==
    ASSUME NEW c \in Configs PROVE Norm(c) \in Derived
BY FilesAssumption DEF Norm, Store!Norm, Configs, Store!Configs, Line, Store!Line, Derived

LEMMA Contents ==
    /\ Answered \subseteq Configs
    /\ Missing \notin Configs /\ Missing \notin Derived
BY FilesAssumption DEF Answered, Configs, Store!Configs, Line, Store!Line

(* silentoldconfig that has nothing to ask has the configuration it read.  *)
LEMMA NothingToAsk ==
    ASSUME NEW c \in Configs, Unanswered(c) = {}, NEW m \in Completed(c)
    PROVE  m = c
<1>1. \A s \in Syms : m[s] = c[s]
  BY DEF Unanswered, Completed
<1> QED BY <1>1 DEF Completed, Configs, Store!Configs

(* A symbol that becomes visible has no value yet.                         *)
LEMMA RevealsNothing ==
    ASSUME NEW c \in Configs, NEW s \in Syms, c[s] = "-"
    PROVE  /\ [c EXCEPT ![s] = "?"] \in Configs
           /\ Norm([c EXCEPT ![s] = "?"]) = Norm(c)
BY DEF Norm, Store!Norm, Configs, Store!Configs, Line, Store!Line

LEMMA CompletedAnswered ==
    ASSUME NEW c PROVE Completed(c) \subseteq Answered
BY DEF Completed, Answered

LEMMA InitHolds == Init => IInv
BY DEF Init, IInv, StoreInv, Types, Places, Fresh, Noticed, Compared, AsRead, Maybe

-----------------------------------------------------------------------------
(* No command, and no death of one, leaves a fresh auto.conf of another    *)
(* configuration.                                                          *)
LEMMA StoreStep == StoreInv /\ [Next]_vars => StoreInv'
<1> SUFFICES ASSUME StoreInv, [Next]_vars PROVE StoreInv'
  OBVIOUS
<1> USE Contents DEF StoreInv
<1>1. CASE UNCHANGED vars
  BY <1>1 DEF vars, files, Types, Places, Fresh
<1>2. CASE Kill
  BY <1>2 DEF Kill, Ends, files, Types, Places, Fresh
<1>3. CASE Configure
  <2>1. mem' \in Answered
    BY <1>3, CompletedAnswered DEF Configure, Answered
  <2> QED BY <1>3, <2>1 DEF Configure, files, Types, Places, Fresh
<1>4. CASE Make
  <2>1. seen' \in Derived
    BY <1>4, NormDerived DEF Make, Types, Maybe
  <2> QED BY <1>4, <2>1 DEF Make, files, Types, Places, Fresh
<1>5. CASE Read
  <2>1. mem' \in Answered
    BY <1>5, CompletedAnswered DEF Read
  <2>2. pc' = "split" => mem' = config
    BY <1>5, NothingToAsk DEF Read, Types, Places, Maybe
  <2> QED BY <1>5, <2>1, <2>2 DEF Read, files, Types, Places, Fresh
<1>6. CASE RenameHeader
  <2>1. Norm(mem) \in Derived
    BY <1>6, NormDerived DEF RenameHeader, Types
  <2> QED BY <1>6, <2>1 DEF RenameHeader, Types, Places, Fresh, Maybe
<1>7. CASE RenameAuto
  <2>1. Norm(mem) \in Derived
    BY <1>7, NormDerived DEF RenameAuto, Types
  <2> QED BY <1>7, <2>1 DEF RenameAuto, Types, Places, Fresh, Maybe
<1>8. CASE Build
  BY <1>8 DEF Build, Ends, Types, Places, Fresh, Maybe
<1>9. CASE Clean
  BY <1>9 DEF Clean, Types, Places, Fresh, Maybe
<1>10. CASE Restore
  BY <1>10 DEF Restore, Types, Places, Fresh, Maybe
<1>11. ASSUME NEW s \in Syms, Edit(s) PROVE StoreInv'
  <2>1. mem' \in Answered
    BY <1>11 DEF Edit, Types, Answered
  <2> QED BY <1>11, <2>1 DEF Edit, files, Types, Places, Fresh
<1>12. ASSUME NEW s \in Syms, Split(s) PROVE StoreInv'
  BY <1>12 DEF Split, Types, Places, Fresh
<1>13. ASSUME NEW s \in Syms, Upgrade(s) PROVE StoreInv'
  <2>1. config' \in Configs /\ Norm(config') = Norm(config)
    BY <1>13, RevealsNothing DEF Upgrade, Types, Maybe
  <2> QED BY <1>13, <2>1 DEF Upgrade, Types, Places, Fresh, Maybe
<1>14. CASE Aside("edit", "moved") \/ Aside("save", "replaced")
  BY <1>14 DEF Aside, Types, Places, Fresh, Maybe
<1>15. CASE Place("moved", "edit") \/ Place("replaced", "split")
  BY <1>15 DEF Place, Types, Places, Fresh, Maybe
<1> QED BY <1>1, <1>2, <1>3, <1>4, <1>5, <1>6, <1>7, <1>8, <1>9, <1>10, <1>11, <1>12, <1>13, <1>14, <1>15
         DEF Next, Step, conf_write

(* A header is touched before auto.conf says so, and stays newer than gcc  *)
(* until that is built from what make read.                                *)
LEMMA NoticeStep == IInv /\ [Next]_vars => (Noticed /\ Compared /\ AsRead)'
<1> SUFFICES ASSUME IInv, [Next]_vars PROVE (Noticed /\ Compared /\ AsRead)'
  OBVIOUS
<1> USE DEF IInv
<1>1. CASE UNCHANGED vars \/ Kill \/ Configure \/ Restore
  BY <1>1 DEF vars, files, Kill, Ends, Configure, Restore, Noticed, Compared, AsRead
<1>2. CASE Make
  <2>1. pc' = "gcc" => auto = Norm(config) /\ auto # Missing
    BY <1>2, NormDerived, Contents DEF Make, StoreInv, Types, Fresh, Maybe
  <2> QED BY <1>2, <2>1 DEF Make, files, Noticed, Compared, AsRead
<1>3. CASE Read
  <2>1. pc' \in {"split", "save"} /\ todo' = Syms /\ UNCHANGED <<auto, gcc, newer, seen>>
    BY <1>3 DEF Read, files
  <2>2. late \subseteq late' /\ \A s \in Syms : Norm(mem')[s] # seen[s] => s \in late'
    BY <1>3 DEF Read
  <2>3. Watched \subseteq Syms
    BY FilesAssumption
  <2>4. Noticed'
    BY <2>1, <2>2 DEF Noticed
  <2>5. Compared'
    BY <2>1, <2>3 DEF Compared
  <2>6. AsRead'
    BY <2>1, <2>2 DEF AsRead
  <2> QED BY <2>4, <2>5, <2>6
<1>4. CASE RenameHeader
  BY <1>4 DEF RenameHeader, Noticed, Compared, AsRead
<1>5. CASE RenameAuto
  <2>1. Norm(mem) # Missing
    BY <1>5, NormDerived, Contents DEF RenameAuto, StoreInv, Types
  <2>2. Watched \subseteq Syms
    BY FilesAssumption
  <2> QED BY <1>5, <2>1, <2>2 DEF RenameAuto, Noticed, Compared, AsRead
<1>6. CASE Build
  <2>1. Watched \subseteq Syms
    BY FilesAssumption
  <2> QED BY <1>6, <2>1 DEF Build, Ends, Noticed, Compared, AsRead
<1>7. CASE Clean
  BY <1>7 DEF Clean, Noticed, Compared, AsRead
<1>8. ASSUME NEW s \in Syms, Edit(s) \/ Upgrade(s) PROVE (Noticed /\ Compared /\ AsRead)'
  BY <1>8 DEF Edit, Upgrade, files, Noticed, Compared, AsRead
<1>9. ASSUME NEW s \in Syms, Split(s) PROVE (Noticed /\ Compared /\ AsRead)'
  <2>1. CASE Differs(Norm(mem), s)
    BY <1>9, <2>1 DEF Split, Noticed, Compared, AsRead
  <2>2. CASE ~Differs(Norm(mem), s)
    BY <1>9, <2>2 DEF Split, Differs, Noticed, Compared, AsRead
  <2> QED BY <2>1, <2>2
<1>10. CASE Aside("edit", "moved") \/ Aside("save", "replaced")
  BY <1>10 DEF Aside, Noticed, Compared, AsRead
<1>11. CASE Place("moved", "edit") \/ Place("replaced", "split")
  <2>1. Watched \subseteq Syms
    BY FilesAssumption
  <2> QED BY <1>11, <2>1 DEF Place, Noticed, Compared, AsRead
<1> QED BY <1>1, <1>2, <1>3, <1>4, <1>5, <1>6, <1>7, <1>8, <1>9, <1>10, <1>11
         DEF Next, Step, conf_write

LEMMA IInvHolds == Spec => []IInv
<1>1. IInv /\ [Next]_vars => IInv'
  BY StoreStep, NoticeStep DEF IInv
<1> QED BY <1>1, InitHolds, PTL DEF Spec
-----------------------------------------------------------------------------
(* Where make finds auto.conf newer than .config, auto.conf and the header *)
(* are those of .config, whichever of the renames the last configurators   *)
(* and makes were killed between.                                          *)
THEOREM FreshIsDerived == Spec => []DerivedIsSaved
<1>1. IInv => DerivedIsSaved
  BY DEF IInv, StoreInv, Fresh, DerivedIsSaved
<1> QED BY <1>1, IInvHolds, PTL

(* While auto.conf is fresh, a symbol that gcc was built with another value *)
(* of has a header newer than gcc, but for one asked for during the make.  *)
THEOREM NothingForgotten == Spec => []NotForgotten
<1>1. IInv => NotForgotten
  BY DEF IInv, Noticed, NotForgotten
<1> QED BY <1>1, IInvHolds, PTL
-----------------------------------------------------------------------------
(* Each step of the files is one of the store, or none.                    *)
LEMMA StoreSteps == IInv /\ [Next]_vars => [Store!StoreNext]_(Store!store)
<1> SUFFICES ASSUME IInv, [Next]_vars PROVE Store!StoreNext \/ UNCHANGED <<saved, derived>>
  BY DEF Store!store
<1> USE DEF IInv, StoreInv
<1>1. CASE \/ UNCHANGED vars \/ Kill \/ Configure \/ Make \/ Read \/ Build
           \/ \E s \in Syms : Edit(s) \/ Split(s)
  BY <1>1 DEF vars, files, Kill, Ends, Configure, Make, Read, Build, Edit, Split, saved, derived
<1>2. CASE RenameHeader
  BY <1>2 DEF RenameHeader, Places, saved, derived
<1>3. CASE RenameAuto
  <2>1. saved # Missing /\ saved' = saved /\ derived' = <<Norm(saved), Norm(saved)>>
    BY <1>3 DEF RenameAuto, Places, saved, derived
  <2> QED BY <2>1 DEF Store!StoreNext, Store!Derive, Norm
<1>4. CASE Clean \/ Aside("edit", "moved") \/ Aside("save", "replaced")
  <2>1. derived' = Missing /\ saved' = saved
    BY <1>4 DEF Clean, Aside, saved, derived
  <2> QED BY <2>1 DEF Store!StoreNext, Store!Forget
<1>5. CASE Restore
  <2>1. saved # Missing /\ saved' = saved
    BY <1>5 DEF Restore, saved, Types, Maybe
  <2>2. derived' \in {Missing, <<Norm(saved), Norm(saved)>>}
    BY <1>5 DEF Restore, Fresh, saved, derived
  <2> QED BY <2>1, <2>2 DEF Store!StoreNext, Store!Derive, Store!Forget, Norm
<1>6. CASE Place("moved", "edit") \/ Place("replaced", "split")
  <2>1. saved' \in Configs /\ derived' = Missing
    BY <1>6, Contents DEF Place, Types, saved, derived
  <2> QED BY <2>1 DEF Store!StoreNext, Store!Save, Configs
<1>7. ASSUME NEW s \in Syms, Upgrade(s) PROVE Store!StoreNext
  <2>1. config' \in Configs /\ Norm(config') = Norm(config)
    BY <1>7, RevealsNothing DEF Upgrade, Types, Maybe
  <2>2. saved # Missing /\ saved' \in Configs /\ Norm(saved') = Norm(saved) /\ derived' = derived
    BY <1>7, <2>1, Contents DEF Upgrade, saved, derived
  <2> QED BY <2>2 DEF Store!StoreNext, Store!Reveal, Configs, Norm
<1> QED BY <1>1, <1>2, <1>3, <1>4, <1>5, <1>6, <1>7 DEF Next, Step, conf_write

(* The files implement the store: the configuration last saved is kept in  *)
(* .config or .config.old, and what passes for derived is derived from it. *)
THEOREM FilesKeepStore == Spec => KeepsStore
<1>1. Init => Store!StoreInit
  BY DEF Init, Store!StoreInit, saved, derived
<1> QED BY <1>1, StoreSteps, IInvHolds, PTL DEF Spec, KeepsStore, Store!StoreSpec
=============================================================================
