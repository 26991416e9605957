------------------------- MODULE PackageInfraProofs -------------------------
(***************************************************************************)
(* Proofs about PackageInfra: type correctness, and that a stamp file of a *)
(* package tells the truth about what is on disk, whatever was interrupted *)
(* (StampsHonest), for any packages and any acyclic dependencies.          *)
(***************************************************************************)
EXTENDS PackageInfra, TLAPS
-----------------------------------------------------------------------------
(* Facts about the target graph *)

(* The graph, kind by kind.                                                *)
LEMMA OwnIs ==
    ASSUME NEW p
    PROVE  /\ Own(p, "package") = <<"install">>
           /\ Own(p, "install") =
                 IF p \in Host THEN <<"install-host">>
                 ELSE <<"install-staging", "install-target",
                        "install-images", "build-opkg">>
           /\ Own(p, "install-host") = <<"build", "host_installed">>
           /\ Own(p, "install-staging") = IfEnabled(p, Staging, "staging_installed")
           /\ Own(p, "install-target") = IfEnabled(p, Target, "target_installed")
           /\ Own(p, "install-images") = IfEnabled(p, Images, "images_installed")
           /\ Own(p, "build-opkg") = IfEnabled(p, Opkg, "opkg_built")
           /\ Own(p, "build") = <<"configure", "built">>
           /\ Own(p, "configure") = <<"patch", "configured">>
           /\ Own(p, "patch") = <<"extract", "patched">>
           /\ Own(p, "extract") = <<"depends", "extracted">>
           /\ Own(p, "depends") = <<"source">>
           /\ Own(p, "source") = <<"downloaded">>
           /\ Own(p, "uninstall") = <<"configure", "uninstalled">>
           /\ Own(p, "clean") = IF p \in Opkg
                                THEN <<"uninstall", "cleaned", "opkg_cleaned">>
                                ELSE <<"uninstall", "cleaned">>
           /\ Own(p, "dirclean") = <<"dircleaned">>
           /\ \A k \in Step \cup Removal : Own(p, k) = <<>>
  BY DEF Own, Step, BuildStep, InstallStep, Removal

(* The kinds a target of a package lists are kinds.                        *)
LEMMA OwnType ==
    ASSUME NEW p \in Pkg, NEW k \in Kind
    PROVE  Own(p, k) \in Seq(Kind)
  <1>1. /\ "install" \in Kind /\ "install-host" \in Kind
        /\ "install-staging" \in Kind /\ "install-target" \in Kind
        /\ "install-images" \in Kind /\ "build-opkg" \in Kind
        /\ "build" \in Kind /\ "configure" \in Kind /\ "patch" \in Kind
        /\ "extract" \in Kind /\ "depends" \in Kind /\ "source" \in Kind
        /\ "uninstall" \in Kind
        /\ "cleaned" \in Kind /\ "opkg_cleaned" \in Kind
        /\ \A s \in Step \cup Removal : s \in Kind
    BY DEF Kind, Phony, Removal
  <1>2. /\ \A a \in Kind : <<a>> \in Seq(Kind)
        /\ \A a, b \in Kind : <<a, b>> \in Seq(Kind)
        /\ \A a, b, c \in Kind : <<a, b, c>> \in Seq(Kind)
        /\ \A a, b, c, d \in Kind : <<a, b, c, d>> \in Seq(Kind)
        /\ <<>> \in Seq(Kind)
    OBVIOUS
  <1>3. /\ "host_installed" \in Step /\ "staging_installed" \in Step
        /\ "target_installed" \in Step /\ "images_installed" \in Step
        /\ "opkg_built" \in Step /\ "built" \in Step /\ "configured" \in Step
        /\ "patched" \in Step /\ "extracted" \in Step /\ "downloaded" \in Step
        /\ "uninstalled" \in Removal /\ "dircleaned" \in Removal
    BY DEF Step, BuildStep, InstallStep, Removal
  <1>4. CASE k \in Step \cup Removal
    BY <1>4, <1>2, OwnIs, Zenon
  <1>5. \A enabled, s : s \in Kind => IfEnabled(p, enabled, s) \in Seq(Kind)
    BY <1>1, <1>2 DEF IfEnabled
  <1>6. ASSUME NEW seq \in Seq(Kind), Own(p, k) = seq
        PROVE  Own(p, k) \in Seq(Kind)
    BY <1>6
  <1>7. CASE k \in {"install-staging", "install-target", "install-images", "build-opkg"}
    <2>1. \E enabled, s : s \in Step /\ Own(p, k) = IfEnabled(p, enabled, s)
      BY <1>7, <1>3, OwnIs
    <2>. QED
      BY <2>1, <1>1, <1>5, <1>6
  <1>8. CASE k \in {"install-host", "build", "configure", "patch",
                    "extract", "uninstall"}
    <2>1. \E a, b \in Kind : Own(p, k) = <<a, b>>
      BY <1>8, <1>1, <1>3, OwnIs
    <2>. QED
      BY <2>1, <1>2, <1>6
  <1>9. CASE k \in {"package", "depends", "source", "dirclean"}
    <2>1. \E a \in Kind : Own(p, k) = <<a>>
      BY <1>9, <1>1, <1>3, OwnIs
    <2>. QED
      BY <2>1, <1>2, <1>6
  <1>10. CASE k = "install"
    <2>1. \E seq \in Seq(Kind) : Own(p, k) = seq
      BY <1>10, <1>1, <1>2, OwnIs
    <2>. QED
      BY <2>1
  <1>11. CASE k = "clean"
    <2>1. \E seq \in Seq(Kind) : Own(p, k) = seq
      BY <1>11, <1>1, <1>2, <1>3, OwnIs
    <2>. QED
      BY <2>1
  <1>. QED
    BY <1>4, <1>7, <1>8, <1>9, <1>10, <1>11 DEF Kind, Phony

LEMMA EmptyDomain == \A x : x \notin DOMAIN <<>>
  OBVIOUS

LEMMA PackagesType ==
    ASSUME NEW seq \in Seq(Pkg)
    PROVE  Packages(seq) \in Seq(Targets)
  BY DEF Packages, Targets, Kind, Phony

(* All a target lists are targets: the walk never leaves the graph.        *)
LEMMA PrereqType ==
    ASSUME NEW t \in Targets
    PROVE  Prereq(t) \in Seq(Targets)
  <1>1. CASE t = World
    BY <1>1, ConfigAssumption, PackagesType DEF Prereq
  <1>2. CASE t # World
    <2>1. t[1] \in Pkg /\ t[2] \in Kind
      BY <1>2 DEF Targets
    <2> DEFINE own == [i \in DOMAIN Own(t[1], t[2]) |-> <<t[1], Own(t[1], t[2])[i]>>]
    <2>2. Own(t[1], t[2]) \in Seq(Kind)
      BY <2>1, OwnType
    <2>3. own \in Seq(Targets)
      BY <2>1, <2>2 DEF Targets
    <2>4. Packages(Deps[t[1]]) \in Seq(Targets)
      BY <2>1, ConfigAssumption, PackagesType
    <2>5. own \o Packages(Deps[t[1]]) \in Seq(Targets)
      BY <2>3, <2>4
    <2>. QED
      BY <1>2, <2>3, <2>5 DEF Prereq
  <1>. QED
    BY <1>1, <1>2

COROLLARY PrereqTarget ==
    ASSUME NEW t \in Targets, NEW i \in DOMAIN Prereq(t)
    PROVE  /\ Prereq(t)[i] \in Targets
           /\ i \in Nat
           /\ \A j \in 1 .. i - 1 : j \in DOMAIN Prereq(t)
  BY PrereqType

LEMMA KindsDisjoint ==
    /\ Step \cap Removal = {}
    /\ Step \cap Phony = {}
    /\ Removal \cap Phony = {}
    /\ Step \subseteq Kind /\ Removal \subseteq Kind /\ Phony \subseteq Kind
    /\ "world" \notin Kind
  BY DEF Kind, Step, BuildStep, InstallStep, Removal, Phony

(* A target of a package lists targets of that package and, if it is       *)
(* foo-depends, what the package depends on: always of a lower rank.       *)
LEMMA PrereqIs ==
    ASSUME NEW t \in Targets, t # World, NEW i \in DOMAIN Prereq(t)
    PROVE  /\ t[1] \in Pkg /\ t[2] \in Kind
           /\ \/ /\ i \in DOMAIN Own(t[1], t[2])
                 /\ Prereq(t)[i] = <<t[1], Own(t[1], t[2])[i]>>
              \/ /\ t[2] = "depends"
                 /\ \E d \in Pkg : /\ Prereq(t)[i] = <<d, "package">>
                                   /\ Rank[d] < Rank[t[1]]
  <1>1. t[1] \in Pkg /\ t[2] \in Kind
    BY DEF Targets
  <1> DEFINE p   == t[1]
             own == [j \in DOMAIN Own(p, t[2]) |-> <<p, Own(p, t[2])[j]>>]
             dep == Packages(Deps[p])
  <1>2. Own(p, t[2]) \in Seq(Kind) /\ Deps[p] \in Seq(Pkg)
    BY <1>1, OwnType, ConfigAssumption
  <1>3. own \in Seq(Pkg \X Kind) /\ Len(own) = Len(Own(p, t[2]))
    BY <1>1, <1>2
  <1>4. dep \in Seq(Targets) /\ Len(dep) = Len(Deps[p])
    BY <1>2, PackagesType DEF Packages
  <1>5. CASE t[2] # "depends"
    BY <1>1, <1>5 DEF Prereq
  <1>6. CASE t[2] = "depends"
    <2>1. Prereq(t) = own \o dep
      BY <1>6 DEF Prereq
    <2>2. CASE i <= Len(own)
      <3>1. i \in DOMAIN own /\ Prereq(t)[i] = own[i]
        BY <1>3, <1>4, <2>1, <2>2 DEF Targets
      <3>. QED
        BY <1>1, <3>1
    <2>3. CASE i > Len(own)
      <3>1. i - Len(own) \in DOMAIN dep /\ Prereq(t)[i] = dep[i - Len(own)]
        BY <1>3, <1>4, <2>1, <2>3 DEF Targets
      <3>2. dep[i - Len(own)] = <<Deps[p][i - Len(own)], "package">>
        BY <3>1 DEF Packages
      <3>3. Deps[p][i - Len(own)] \in Pkg
        BY <1>2, <1>4, <3>1
      <3>4. i - Len(own) \in DOMAIN Deps[p]
        BY <1>2, <1>4, <3>1
      <3>. QED
        BY <1>1, <1>6, <3>1, <3>2, <3>3, <3>4, ConfigAssumption
    <2>. QED
      <3>1. i \in Nat /\ Len(own) \in Nat
        BY <1>3, PrereqTarget
      <3>. QED
        BY <2>2, <2>3, <3>1
  <1>. QED
    BY <1>5, <1>6

(* What has to be done before make gets to a step of package p.            *)
Gate(s) == CASE s = "extracted"  -> "depends"
             [] s = "patched"    -> "extract"
             [] s = "configured" -> "patch"
             [] s = "built"      -> "configure"
             [] OTHER            -> "build"

(* A step's stamp file is listed in one kind of target, to the right of    *)
(* its gate.                                                               *)
LEMMA StepGate ==
    ASSUME NEW t \in Targets, NEW i \in DOMAIN Prereq(t),
           NEW p \in Pkg, NEW s \in BuildStep, Prereq(t)[i] = <<p, s>>
    PROVE  1 \in 1 .. i - 1 /\ Prereq(t)[1] = <<p, Gate(s)>>
  <1>1. t # World
    BY ConfigAssumption DEF Prereq, Packages, BuildStep, InstallStep
  <1>2. /\ t[1] = p /\ t[2] \in Kind
        /\ i \in DOMAIN Own(p, t[2])
        /\ Own(p, t[2])[i] = s
    BY <1>1, PrereqIs DEF BuildStep, InstallStep
  <1>3. t[2] \notin Step \cup Removal
    <2>1. SUFFICES ASSUME t[2] \in Step \cup Removal PROVE FALSE
      OBVIOUS
    <2>2. Own(p, t[2]) = <<>>
      BY <2>1, OwnIs
    <2>. QED
      BY <1>2, <2>2, EmptyDomain, Zenon
  <1>4. CASE t[2] \in {"package", "depends", "source", "dirclean", "install", "clean"}
    BY <1>2, <1>4, OwnIs DEF BuildStep, InstallStep
  <1>5. CASE t[2] = "uninstall"
    BY <1>2, <1>5, OwnIs DEF BuildStep, InstallStep
  <1>6. ASSUME NEW g, NEW r, Own(p, t[2]) = <<g, r>>, t[2] # "depends", g # s
        PROVE  1 \in 1 .. i - 1 /\ Prereq(t)[1] = <<p, g>> /\ s = r
    BY <1>1, <1>2, <1>6 DEF Prereq
  <1>7. CASE t[2] \in {"build", "configure", "patch", "extract"}
    BY <1>6, <1>7, OwnIs DEF Gate, BuildStep, InstallStep
  <1>8. CASE t[2] \in {"install-host", "install-staging", "install-target",
                       "install-images", "build-opkg"}
    BY <1>2, <1>6, <1>8, OwnIs DEF Gate, IfEnabled, BuildStep, InstallStep
  <1>. QED
    BY <1>2, <1>3, <1>4, <1>5, <1>7, <1>8 DEF Kind, Phony
-----------------------------------------------------------------------------
(* The inductive invariant *)

Active == {"active", "begun", "ran"}

(* The walk: no make, no phases; every target but the goal was reached     *)
(* from one that lists it, when all to its left was done; a phony target   *)
(* that is done has all it lists done.                                     *)
WalkInv ==
    /\ goal = NoGoal => phase = AllIdle
    /\ \A u \in Targets : phase[u] # "idle" /\ u # goal =>
          \E t \in Targets : \E i \in DOMAIN Prereq(t) :
             Prereq(t)[i] = u /\ LeftDone(t, i)
    /\ \A t \in Targets : phase[t] = "done" /\ t[2] \in Phony \cup {"world"} =>
          \A i \in DOMAIN Prereq(t) : phase[Prereq(t)[i]] = "done"
    /\ goal \in Goals \cup {NoGoal}

(* What a make for a removal target can reach: the targets that configure  *)
(* the package, the removal targets, and packages of a lower rank.         *)
RemovalGoal == {"uninstall", "clean", "dirclean"}
RemovalKind == Removal \cup RemovalGoal
Chain == {"configure", "patch", "extract", "depends", "source", "configured",
          "patched", "extracted", "downloaded",
          "uninstall", "clean", "uninstalled", "cleaned", "opkg_cleaned"}
Reach(k) == IF k = "dirclean" THEN {"dirclean", "dircleaned"} ELSE Chain

InScope(t) ==
    \/ t[2] \notin RemovalKind /\ goal[2] \notin RemovalGoal
    \/ /\ goal[2] \in RemovalGoal
       /\ t \in Pkg \X Kind
       /\ \/ t[1] = goal[1] /\ t[2] \in Reach(goal[2])
          \/ Rank[t[1]] < Rank[goal[1]] /\ t[2] \notin RemovalKind

ScopeInv == \A t \in Targets : phase[t] # "idle" => InScope(t)

(* Each removal recipe and the steps whose results it removes.             *)
Removes(k) ==
    CASE k = "uninstalled"  -> {"staging_installed", "target_installed"}
      [] k = "cleaned"      -> {"built"}
      [] k = "opkg_cleaned" -> {"opkg_built"}
      [] OTHER              -> BuildStep

Exempt(p, s) == \E k \in Removal : <<p, k>> \in torn /\ s \in Removes(k)

(* make is only ever at a step whose stamp file does not exist.            *)
StampMissing ==
    \A p \in Pkg, s \in Step : phase[<<p, s>>] \in Active => <<p, s>> \notin stamp

(* A stamp file make takes for up to date exists until make exits.         *)
DoneStamped ==
    \A p \in Pkg, s \in Step : phase[<<p, s>>] = "done" => <<p, s>> \in stamp

PatchedExtracted ==
    \A p \in Pkg : <<p, "patched">> \in stamp /\ <<p, "dircleaned">> \notin torn
                     => <<p, "extracted">> \in stamp

(* A removal recipe that has begun is on record until it ends.             *)
RemovalTorn ==
    \A p \in Pkg, k \in Removal : phase[<<p, k>>] \in {"begun", "ran"} => <<p, k>> \in torn

StagingGone ==
    \A p \in Pkg : phase[<<p, "uninstalled">>] = "ran" => <<p, "staging_installed">> \notin stamp

(* What is stamped, or about to be, is there, unless a removal recipe that *)
(* removes it has not run to its end.                                      *)
Honest ==
    \A p \in Pkg, s \in BuildStep :
       (<<p, s>> \in stamp \/ phase[<<p, s>>] = "ran") /\ ~Exempt(p, s) => Made(p, s)

StampInv == /\ StampMissing /\ DoneStamped /\ PatchedExtracted
            /\ RemovalTorn /\ StagingGone /\ Honest

IInv == TypeOK /\ WalkInv /\ ScopeInv /\ StampInv
-----------------------------------------------------------------------------
(* Type correctness *)

LEMMA ContentFacts ==
    /\ Absent \in Content /\ Partial \in Content /\ Rev \subseteq Content
    /\ 1 \in Rev
    /\ \A c \in Content : Decay(c) \in Content
    /\ Absent \notin Rev /\ Partial \notin Rev /\ Doubtful \notin Rev
  BY DEF Content, Absent, Partial, Doubtful, Rev, Decay

LEMMA TypeInit == Init => TypeOK
  BY ContentFacts DEF Init, TypeOK, AllIdle, Content, Rev

(* The ways the recipes write to disk keep tree well-typed.                *)
LEMMA TreeType ==
    ASSUME tree \in [Pkg -> [Step -> Content]], NEW p \in Pkg
    PROVE  /\ \A s \in Step, c \in Content :
                 [tree EXCEPT ![p][s] = c] \in [Pkg -> [Step -> Content]]
           /\ \A f \in [Step -> Content] :
                 [tree EXCEPT ![p] = f] \in [Pkg -> [Step -> Content]]
           /\ \A s \in Step : tree[p][s] \in Content
           /\ \A s \in Step : Begun(p, s) \in [Step -> Content]
           /\ DirDecay(p) \in [Step -> Content]
           /\ DirGone(p) \in [Step -> Content]
  BY ContentFacts DEF Begun, DirDecay, DirGone

LEMMA TypeRecipe ==
    ASSUME TypeOK, NEW p \in Pkg,
           (\E s \in Step : RunStep(p, s)) \/ Uninstall(p) \/ Clean(p)
              \/ OpkgClean(p) \/ Dirclean(p)
    PROVE  TypeOK'
  <1> USE ContentFacts
  <1>1. ASSUME NEW k \in Step \cup Removal, NEW from,
               NEW to \in {"begun", "ran", "done"}, Moves(p, k, from, to)
        PROVE  /\ goal' \in Targets \cup {NoGoal}
               /\ phase' \in [Targets -> {"idle", "active", "begun", "ran", "done"}]
               /\ made' \in Targets \cup {NoGoal}
    BY <1>1 DEF Moves, TypeOK, Targets
  <1>2. ASSUME BeginDownload(p) PROVE TypeOK'
    <2>1. "downloaded" \in Step
      BY DEF Step
    <2>2. tree' \in [Pkg -> [Step -> Content]]
      <3>1. CASE tree[p]["downloaded"] = Absent
        <4>1. tree' = [tree EXCEPT ![p]["downloaded"] = Partial]
          BY <1>2, <3>1, Zenon DEF BeginDownload
        <4>. QED
          BY <2>1, <4>1, TreeType DEF TypeOK
      <3>2. CASE tree[p]["downloaded"] # Absent
        BY <1>2, <3>2 DEF BeginDownload, TypeOK
      <3>. QED
        BY <3>1, <3>2
    <2>3. \E to \in {"begun", "ran"} : Moves(p, "downloaded", "active", to)
      BY <1>2 DEF BeginDownload
    <2>. QED
      BY <1>1, <1>2, <2>1, <2>2, <2>3 DEF BeginDownload, TypeOK
  <1>3. ASSUME EndDownload(p) PROVE TypeOK'
    <2>1. "downloaded" \in Step
      BY DEF Step
    <2>. QED
      BY <1>1, <1>3, <2>1 DEF EndDownload, TypeOK
  <1>4. ASSUME NEW s \in Step, BeginStep(p, s) PROVE TypeOK'
    <2>1. tree' \in [Pkg -> [Step -> Content]]
      BY <1>4, TreeType DEF BeginStep, TypeOK
    <2>. QED
      BY <1>1, <1>4, <2>1 DEF BeginStep, TypeOK
  <1>5. ASSUME NEW s \in Step, EndStep(p, s) PROVE TypeOK'
    <2> DEFINE in == tree[p][Input(s)]
               made1 == IF in \notin Rev THEN Doubtful
                        ELSE IF s = "configured" THEN want[p] ELSE in
    <2>1. made1 \in Content
      BY <1>5 DEF TypeOK, Content
    <2>2. tree' = [tree EXCEPT ![p][s] = made1]
      BY <1>5 DEF EndStep
    <2> HIDE DEF made1
    <2>3. tree' \in [Pkg -> [Step -> Content]]
      BY <2>1, <2>2, TreeType DEF TypeOK
    <2>. QED
      BY <1>1, <1>5, <2>3 DEF EndStep, TypeOK
  <1>6. ASSUME NEW s \in Step, Touch(p, s) PROVE TypeOK'
    BY <1>1, <1>6 DEF Touch, TypeOK
  <1>7. ASSUME NEW k \in Removal, NEW s \in Step,
               BeginRemoval(p, k, s) \/ EndRemoval(p, k, s) \/ RemoveStamp(p, k, s)
        PROVE  TypeOK'
    BY <1>1, <1>7 DEF BeginRemoval, EndRemoval, RemoveStamp, TypeOK
  <1>8. /\ "staging_installed" \in Step /\ "target_installed" \in Step
        /\ "built" \in Step /\ "opkg_built" \in Step
        /\ Removal = {"uninstalled", "cleaned", "opkg_cleaned", "dircleaned"}
    BY DEF Step, BuildStep, InstallStep, Removal
  <1>9. ASSUME UninstallStaging(p) \/ UninstallTarget(p) PROVE TypeOK'
    <2>1. tree' \in [Pkg -> [Step -> Content]]
      <3>1. CASE UninstallStaging(p)
        BY <1>8, <3>1 DEF UninstallStaging, TypeOK
      <3>2. CASE UninstallTarget(p)
        BY <1>8, <3>2, TreeType DEF UninstallTarget, TypeOK
      <3>. QED
        BY <1>9, <3>1, <3>2
    <2>. QED
      BY <1>1, <1>8, <1>9, <2>1 DEF UninstallStaging, UninstallTarget, TypeOK
  <1>10. ASSUME Dirclean(p) PROVE TypeOK'
    <2>1. tree' \in [Pkg -> [Step -> Content]]
      <3>1. CASE BeginDirclean(p)
        BY <3>1, TreeType DEF BeginDirclean, TypeOK
      <3>2. CASE EndDirclean(p)
        BY <3>2, TreeType DEF EndDirclean, TypeOK
      <3>. QED
        BY <1>10, <3>1, <3>2 DEF Dirclean
    <2>2. stamp' \subseteq Pkg \X Step /\ torn' \subseteq Pkg \X Removal
      BY <1>8, <1>10
         DEF Dirclean, BeginDirclean, EndDirclean, TypeOK, StampsOf, Mended
    <2>. QED
      BY <1>1, <1>8, <1>10, <2>1, <2>2 DEF Dirclean, BeginDirclean, EndDirclean, TypeOK
  <1>. QED
    BY <1>2, <1>3, <1>4, <1>5, <1>6, <1>7, <1>8, <1>9, <1>10
       DEF RunStep, Uninstall, Clean, OpkgClean, RemoveOne

LEMMA TypeStep == TypeOK /\ [Next]_vars => TypeOK'
  <1> SUFFICES ASSUME TypeOK, [Next]_vars PROVE TypeOK'
    OBVIOUS
  <1>1. AllIdle \in [Targets -> {"idle", "active", "begun", "ran", "done"}]
    BY DEF AllIdle
  <1>2. CASE Recipe
    BY <1>2, TypeRecipe DEF Recipe
  <1>3. CASE Walk
    BY <1>1, <1>3, PrereqTarget DEF Walk, Descend, PhonyDone, MakeSucceeds, disk, TypeOK
  <1>4. CASE CommandFails \/ Interrupt
    BY <1>1, <1>4 DEF CommandFails, Interrupt, Stop, disk, TypeOK
  <1>5. ASSUME NEW g \in Goals, RunMake(g) PROVE TypeOK'
    <2>1. g \in Targets
      BY ConfigAssumption DEF Targets, Kind
    <2>. QED
      BY <1>5, <2>1 DEF RunMake, disk, TypeOK
  <1>6. ASSUME NEW p \in Pkg, NEW what \in UserRemoves, Reconfigure(p, what)
        PROVE  TypeOK'
    <2>1. tree' \in [Pkg -> [Step -> Content]]
      BY <1>6, TreeType DEF Reconfigure, TypeOK
    <2>2. want' \in [Pkg -> Rev]
      BY <1>6 DEF Reconfigure, TypeOK, Rev
    <2>3. stamp' \subseteq Pkg \X Step /\ torn' \subseteq Pkg \X Removal
      BY <1>6 DEF Reconfigure, TypeOK, StampsOf, Mended
    <2>. QED
      BY <1>6, <2>1, <2>2, <2>3 DEF Reconfigure, TypeOK
  <1>7. ASSUME NEW p \in Pkg, Recompile(p) PROVE TypeOK'
    BY <1>7 DEF Recompile, TypeOK
  <1>8. CASE UNCHANGED vars
    BY <1>8 DEF vars, TypeOK
  <1>. QED
    BY <1>2, <1>3, <1>4, <1>5, <1>6, <1>7, <1>8 DEF Next, MakeStep, User

(* Every reachable state is of the shape TypeOK describes, for any set of  *)
(* packages, any configuration and any history of makes and stops.         *)
THEOREM TypeCorrect == Spec => []TypeOK
  BY TypeInit, TypeStep, PTL DEF Spec
-----------------------------------------------------------------------------
(* The walk: what one step does to the phases, whatever it does on disk.   *)

Exits  == goal' = NoGoal /\ phase' = AllIdle
Rests  == goal' = goal /\ phase' = phase
Starts == /\ goal = NoGoal /\ goal' \in Goals
          /\ phase' = [phase EXCEPT ![goal'] = "active"]
Enters(t, i) ==
    /\ Descend(t, i)
    /\ goal' = goal
Works(p, k, v) ==
    /\ goal' = goal
    /\ phase[<<p, k>>] \in Active
    /\ phase' = [phase EXCEPT ![<<p, k>>] = v]

PhaseStep ==
    \/ Exits \/ Rests \/ Starts
    \/ \E t \in Targets : (\E i \in DOMAIN Prereq(t) : Enters(t, i)) \/ PhonyDone(t)
    \/ \E p \in Pkg, k \in Step \cup Removal, v \in {"begun", "ran", "done"} : Works(p, k, v)

LEMMA RecipeWorks ==
    ASSUME NEW p \in Pkg,
           (\E s \in Step : RunStep(p, s)) \/ Uninstall(p) \/ Clean(p)
              \/ OpkgClean(p) \/ Dirclean(p)
    PROVE  \E k \in Step \cup Removal, v \in {"begun", "ran", "done"} : Works(p, k, v)
  <1>1. ASSUME NEW k \in Step \cup Removal, NEW from \in Active,
               NEW to \in {"begun", "ran", "done"}, Moves(p, k, from, to)
        PROVE  Works(p, k, to)
    BY <1>1 DEF Moves, Works
  <1>2. /\ "active" \in Active /\ "begun" \in Active /\ "ran" \in Active
        /\ "downloaded" \in Step
        /\ Removal = {"uninstalled", "cleaned", "opkg_cleaned", "dircleaned"}
    BY DEF Active, Step, Removal
  <1>3. \E k \in Step \cup Removal, from \in Active, to \in {"begun", "ran", "done"} :
           Moves(p, k, from, to)
    <2>1. CASE \E s \in Step : RunStep(p, s)
      BY <1>2, <2>1 DEF RunStep, BeginDownload, EndDownload, BeginStep, EndStep, Touch
    <2>2. CASE Uninstall(p) \/ Clean(p) \/ OpkgClean(p) \/ Dirclean(p)
      BY <1>2, <2>2 DEF Uninstall, Clean, OpkgClean, Dirclean, RemoveOne, BeginRemoval,
            EndRemoval, RemoveStamp, UninstallStaging, UninstallTarget, BeginDirclean,
            EndDirclean
    <2>. QED
      BY <2>1, <2>2
  <1>. QED
    BY <1>1, <1>3

LEMMA NextPhases == TypeOK /\ [Next]_vars => PhaseStep
  <1> SUFFICES ASSUME TypeOK, [Next]_vars PROVE PhaseStep
    OBVIOUS
  <1>1. CASE Recipe
    BY <1>1, RecipeWorks DEF Recipe, PhaseStep
  <1>2. CASE Walk
    BY <1>2 DEF Walk, MakeSucceeds, PhaseStep, Exits, Enters, Descend
  <1>3. CASE CommandFails \/ Interrupt
    BY <1>3 DEF CommandFails, Interrupt, Stop, PhaseStep, Exits
  <1>4. ASSUME NEW g \in Goals, RunMake(g) PROVE PhaseStep
    BY <1>4 DEF RunMake, PhaseStep, Starts
  <1>5. ASSUME NEW p \in Pkg, Recompile(p) \/ \E what \in UserRemoves : Reconfigure(p, what)
        PROVE  PhaseStep
    BY <1>5 DEF Recompile, Reconfigure, PhaseStep, Rests
  <1>6. CASE UNCHANGED vars
    BY <1>6 DEF vars, PhaseStep, Rests
  <1>. QED
    BY <1>1, <1>2, <1>3, <1>4, <1>5, <1>6 DEF Next, MakeStep, User

LEMMA GoalFacts ==
    /\ Goals \subseteq Targets
    /\ NoGoal \notin Targets /\ NoGoal \notin Goals
    /\ \A g \in Goals : g[2] \notin Step \cup Removal
    /\ \A p \in Pkg, k \in Kind : <<p, k>> \in Targets /\ <<p, k>> # World
  <1>1. \A p \in Pkg, k \in Kind : <<p, k>> \in Targets /\ <<p, k>> # World
    BY ConfigAssumption DEF Targets, World
  <1>2. Goals \subseteq Targets
    BY ConfigAssumption, KindsDisjoint DEF Targets
  <1>3. NoGoal \notin Targets
    BY ConfigAssumption DEF Targets, NoGoal, World
  <1>4. \A g \in Goals : g[2] \notin Step \cup Removal
    BY ConfigAssumption, KindsDisjoint DEF World, Kind
  <1>. QED
    BY <1>1, <1>2, <1>3, <1>4

(* A step only moves phases forward, until make exits.                     *)
Onward(t) ==
    /\ phase[t] # "idle" => phase'[t] # "idle"
    /\ phase[t] = "done" => phase'[t] = "done"

LEMMA Forward ==
    ASSUME TypeOK, WalkInv, PhaseStep, ~Exits
    PROVE  \A t \in Targets : Onward(t)
  <1>1. CASE Starts
    BY <1>1, GoalFacts DEF Starts, WalkInv, TypeOK, AllIdle, Onward
  <1>2. CASE Rests
    BY <1>2 DEF Rests, Onward
  <1>3. ASSUME NEW t \in Targets, NEW i \in DOMAIN Prereq(t), Enters(t, i)
        PROVE  \A u \in Targets : Onward(u)
    BY <1>3, PrereqTarget DEF Enters, Descend, TypeOK, Onward
  <1>4. ASSUME NEW t \in Targets, PhonyDone(t)
        PROVE  \A u \in Targets : Onward(u)
    BY <1>4 DEF PhonyDone, TypeOK, Onward
  <1>5. ASSUME NEW p \in Pkg, NEW k \in Step \cup Removal,
               NEW v \in {"begun", "ran", "done"}, Works(p, k, v)
        PROVE  \A u \in Targets : Onward(u)
    BY <1>5 DEF Works, TypeOK, Active, Onward
  <1>. QED
    BY <1>1, <1>2, <1>3, <1>4, <1>5 DEF PhaseStep

LEMMA WalkStep ==
    ASSUME TypeOK, WalkInv, PhaseStep
    PROVE  WalkInv'
  <1> DEFINE Reached(u) == \E t \in Targets : \E i \in DOMAIN Prereq(t) :
                              Prereq(t)[i] = u /\ LeftDone(t, i)
             Closed(t) == \A i \in DOMAIN Prereq(t) : phase[Prereq(t)[i]] = "done"
  <1>1. CASE Exits
    BY <1>1, KindsDisjoint DEF Exits, WalkInv, AllIdle
  <1>2. CASE ~Exits
    <2>1. /\ \A t \in Targets : phase[t] = "done" => phase'[t] = "done"
          /\ \A t \in Targets : \A i \in DOMAIN Prereq(t) :
                /\ Prereq(t)[i] \in Targets
                /\ \A j \in 1 .. i - 1 : Prereq(t)[j] \in Targets
      <3>1. \A t \in Targets : phase[t] = "done" => phase'[t] = "done"
        BY <1>2, Forward DEF Onward
      <3>2. ASSUME NEW t \in Targets, NEW i \in DOMAIN Prereq(t)
            PROVE  /\ Prereq(t)[i] \in Targets
                   /\ \A j \in 1 .. i - 1 : Prereq(t)[j] \in Targets
        BY PrereqTarget
      <3>. QED
        BY <3>1, <3>2
    <2>2. \A u \in Targets : Reached(u) => Reached(u)'
      BY <2>1 DEF LeftDone
    <2>3. \A t \in Targets : Closed(t) => Closed(t)'
      BY <2>1
    <2>4. /\ \A u \in Targets : phase[u] # "idle" /\ u # goal => Reached(u)
          /\ \A t \in Targets : phase[t] = "done" /\ t[2] \in Phony \cup {"world"} => Closed(t)
      BY DEF WalkInv
    <2>5. ASSUME goal' = NoGoal => phase' = AllIdle,
                 \A u \in Targets : phase'[u] # "idle" /\ u # goal' => Reached(u)',
                 \A t \in Targets : phase'[t] = "done" /\ t[2] \in Phony \cup {"world"} => Closed(t)',
                 goal' \in Goals \cup {NoGoal}
          PROVE  WalkInv'
      BY <2>5 DEF WalkInv
    <2> HIDE DEF Reached, Closed
    <2>6. CASE Rests
      BY <2>2, <2>3, <2>4, <2>5, <2>6 DEF Rests, WalkInv
    <2>7. CASE Starts
      <3>1. \A u \in Targets : phase'[u] = IF u = goal' THEN "active" ELSE "idle"
        BY <2>7, GoalFacts DEF Starts, WalkInv, AllIdle
      <3>2. goal' \in Goals /\ goal' # NoGoal
        BY <2>7, GoalFacts DEF Starts
      <3>. QED
        BY <2>5, <3>1, <3>2
    <2>8. ASSUME NEW t \in Targets, NEW i \in DOMAIN Prereq(t), Enters(t, i)
          PROVE  WalkInv'
      <3> DEFINE u == Prereq(t)[i]
      <3>1. u \in Targets /\ Reached(u)'
        BY <2>1, <2>2, <2>8 DEF Enters, Descend, Reached
      <3>2. u[2] \notin Phony \cup {"world"} \/ phase'[u] = "active"
        BY <2>8, <3>1, KindsDisjoint DEF Enters, Descend, TypeOK
      <3>3. \A v \in Targets : v # u => phase'[v] = phase[v]
        BY <2>8 DEF Enters, Descend, TypeOK
      <3>4. goal' = goal /\ goal # NoGoal
        BY <2>8 DEF Enters, Descend, WalkInv, AllIdle
      <3>5. \A w \in Targets : phase'[w] # "idle" /\ w # goal' => Reached(w)'
        BY <3>1, <3>3, <3>4, <2>2, <2>4
      <3>6. \A w \in Targets : phase'[w] = "done" /\ w[2] \in Phony \cup {"world"} => Closed(w)'
        BY <3>2, <3>3, <2>3, <2>4
      <3>. QED
        BY <3>4, <3>5, <3>6, <2>5 DEF WalkInv
    <2>9. ASSUME NEW t \in Targets, PhonyDone(t)
          PROVE  WalkInv'
      <3>1. Closed(t)
        BY <2>9 DEF PhonyDone, Closed
      <3>2. \A v \in Targets : v # t => phase'[v] = phase[v]
        BY <2>9 DEF PhonyDone, TypeOK
      <3>3. goal' = goal /\ goal # NoGoal /\ phase[t] = "active"
        BY <2>9 DEF PhonyDone, WalkInv, AllIdle
      <3>4. \A w \in Targets : phase'[w] # "idle" /\ w # goal' => Reached(w)'
        BY <3>2, <3>3, <2>2, <2>4
      <3>5. \A w \in Targets : phase'[w] = "done" /\ w[2] \in Phony \cup {"world"} => Closed(w)'
        BY <3>1, <3>2, <2>3, <2>4
      <3>. QED
        BY <3>3, <3>4, <3>5, <2>5 DEF WalkInv
    <2>10. ASSUME NEW p \in Pkg, NEW k \in Step \cup Removal,
                  NEW v \in {"begun", "ran", "done"}, Works(p, k, v)
           PROVE  WalkInv'
      <3>1. k \notin Phony \cup {"world"} /\ <<p, k>> \in Targets
        BY KindsDisjoint, GoalFacts
      <3>2. \A u \in Targets : u # <<p, k>> => phase'[u] = phase[u]
        BY <2>10, <3>1 DEF Works, TypeOK
      <3>3. goal' = goal /\ goal # NoGoal /\ phase[<<p, k>>] # "idle"
        BY <2>10, <3>1 DEF Works, WalkInv, AllIdle, Active
      <3>4. \A w \in Targets : phase'[w] # "idle" /\ w # goal' => Reached(w)'
        BY <3>2, <3>3, <2>2, <2>4
      <3>5. \A w \in Targets : phase'[w] = "done" /\ w[2] \in Phony \cup {"world"} => Closed(w)'
        BY <3>1, <3>2, <2>3, <2>4
      <3>. QED
        BY <3>3, <3>4, <3>5, <2>5 DEF WalkInv
    <2>. QED
      BY <1>2, <2>6, <2>7, <2>8, <2>9, <2>10 DEF PhaseStep
  <1>. QED
    BY <1>1, <1>2

(* The steps of a package come in order within one make: when make is at a *)
(* step, its gate is done, and with it all the gate lists.                 *)
LEMMA GateDone ==
    ASSUME TypeOK, WalkInv, NEW p \in Pkg, NEW s \in BuildStep,
           phase[<<p, s>>] # "idle"
    PROVE  /\ phase[<<p, Gate(s)>>] = "done"
           /\ \A i \in DOMAIN Prereq(<<p, Gate(s)>>) :
                 phase[Prereq(<<p, Gate(s)>>)[i]] = "done"
  <1>1. s \in Step /\ <<p, s>> \in Targets /\ <<p, s>> # goal
    <2>1. s \in Step /\ s \in Kind /\ "none" \notin Step
      BY DEF Kind, Step, BuildStep, InstallStep
    <2>2. <<p, s>> # NoGoal
      BY <2>1 DEF NoGoal
    <2>. QED
      BY <2>1, <2>2, GoalFacts DEF WalkInv
  <1>2. PICK t \in Targets :
           \E i \in DOMAIN Prereq(t) : Prereq(t)[i] = <<p, s>> /\ LeftDone(t, i)
    BY <1>1 DEF WalkInv
  <1>3. phase[<<p, Gate(s)>>] = "done"
    BY <1>2, StepGate DEF LeftDone
  <1>4. Gate(s) \in Phony
    BY DEF Gate, Phony, BuildStep, InstallStep
  <1>5. <<p, Gate(s)>> \in Targets
    BY <1>4, GoalFacts DEF Kind
  <1>. QED
    BY <1>3, <1>4, <1>5 DEF WalkInv

LEMMA PatchAfterExtract ==
    ASSUME TypeOK, WalkInv, NEW p \in Pkg, phase[<<p, "patched">>] # "idle"
    PROVE  phase[<<p, "extracted">>] = "done"
  <1>1. "patched" \in BuildStep /\ Gate("patched") = "extract"
    BY DEF BuildStep, Gate
  <1>2. Prereq(<<p, "extract">>)[2] = <<p, "extracted">>
        /\ 2 \in DOMAIN Prereq(<<p, "extract">>)
    <2>1. <<p, "extract">> # World
      BY GoalFacts DEF Kind, Phony
    <2>2. Own(p, "extract") = <<"depends", "extracted">>
      BY OwnIs
    <2>. QED
      BY <2>1, <2>2 DEF Prereq
  <1>. QED
    BY <1>1, <1>2, GateDone

(* Only foo-uninstall, foo-clean and foo-dirclean list what removes.       *)
LEMMA OwnKinds ==
    ASSUME NEW p \in Pkg, NEW k \in Kind, k \notin RemovalKind, NEW j \in DOMAIN Own(p, k)
    PROVE  Own(p, k)[j] \notin RemovalKind
  <1> USE DEF RemovalKind, RemovalGoal, Removal
  <1>1. CASE k \in Step
    <2>1. Own(p, k) = <<>>
      BY <1>1, OwnIs
    <2>. QED
      BY <2>1, EmptyDomain, Zenon
  <1>2. CASE k = "package"
    BY <1>2, OwnIs
  <1>6. CASE k = "install"
    BY <1>6, OwnIs
  <1>3. CASE k \in {"install-host", "build", "configure", "patch", "extract"}
    <2>1. \E a, b : Own(p, k) = <<a, b>> /\ a \notin RemovalKind /\ b \notin RemovalKind
      BY <1>3, OwnIs
    <2>. QED
      BY <2>1
  <1>4. CASE k \in {"install-staging", "install-target", "install-images", "build-opkg"}
    <2>1. \/ \E a, b : Own(p, k) = <<a, b>> /\ a \notin RemovalKind /\ b \notin RemovalKind
          \/ Own(p, k) = <<>>
      BY <1>4, OwnIs DEF IfEnabled
    <2>2. CASE Own(p, k) = <<>>
      BY <2>2, EmptyDomain, Zenon
    <2>. QED
      BY <2>1, <2>2
  <1>5. CASE k \in {"depends", "source"}
    BY <1>5, OwnIs
  <1>. QED
    BY <1>1, <1>2, <1>3, <1>4, <1>5, <1>6 DEF Kind, Phony

LEMMA OwnReach ==
    ASSUME NEW p \in Pkg, NEW g \in RemovalGoal, NEW k \in Reach(g), NEW j \in DOMAIN Own(p, k)
    PROVE  Own(p, k)[j] \in Reach(g)
  <1> USE OwnIs
  <1>1. CASE k \in Step \cup Removal
    <2>1. Own(p, k) = <<>>
      BY <1>1, OwnIs
    <2>. QED
      BY <2>1, EmptyDomain, Zenon
  <1>2. CASE g = "dirclean"
    BY <1>1, <1>2 DEF Reach, Removal
  <1>3. CASE g # "dirclean"
    <2>1. k \in Chain /\ Reach(g) = Chain
      BY <1>3 DEF Reach
    <2>2. CASE k \in {"configure", "patch", "extract", "depends", "source", "uninstall"}
      BY <2>1, <2>2 DEF Chain
    <2>3. CASE k = "clean"
      BY <2>1, <2>3 DEF Chain
    <2>. QED
      BY <1>1, <2>1, <2>2, <2>3 DEF Chain, Step, BuildStep, InstallStep, Removal
  <1>. QED
    BY <1>2, <1>3

(* What a removal make reaches is closed under the target graph.           *)
LEMMA ScopeClosed ==
    ASSUME TypeOK, WalkInv, goal # NoGoal,
           NEW t \in Targets, InScope(t), NEW i \in DOMAIN Prereq(t)
    PROVE  InScope(Prereq(t)[i])
  <1> DEFINE u == Prereq(t)[i]
  <1>1. goal \in Targets
    BY GoalFacts DEF WalkInv
  <1>2. CASE t = World
    <2>1. u[2] = "package" /\ goal[2] \notin RemovalGoal
      BY <1>2, ConfigAssumption DEF Prereq, Packages, InScope, World
    <2>. QED
      BY <2>1 DEF InScope, RemovalKind, Removal, RemovalGoal
  <1>3. CASE t # World
    <2>1. t[1] \in Pkg /\ t[2] \in Kind
      BY <1>3, PrereqIs
    <2>2. ASSUME NEW d \in Pkg, u = <<d, "package">>, Rank[d] < Rank[t[1]], t[2] = "depends"
          PROVE  InScope(u)
      <3>1. "package" \notin RemovalKind /\ "package" \in Kind
        BY DEF RemovalKind, Removal, RemovalGoal, Kind, Phony
      <3>2. CASE goal[2] \notin RemovalGoal
        BY <2>2, <3>1, <3>2 DEF InScope
      <3>3. CASE goal[2] \in RemovalGoal
        <4>1. goal[1] \in Pkg
          BY <1>1, <3>3 DEF Targets, World, RemovalGoal
        <4>2. Rank[d] \in Nat /\ Rank[t[1]] \in Nat /\ Rank[goal[1]] \in Nat
          BY <2>1, <4>1, ConfigAssumption
        <4>3. Rank[d] < Rank[goal[1]]
          BY <2>2, <3>3, <4>2 DEF InScope
        <4>. QED
          BY <2>2, <3>1, <3>3, <4>3 DEF InScope
      <3>. QED
        BY <3>2, <3>3
    <2>3. ASSUME NEW j \in DOMAIN Own(t[1], t[2]), u = <<t[1], Own(t[1], t[2])[j]>>
          PROVE  InScope(u)
      <3>1. Own(t[1], t[2])[j] \in Kind
        BY <2>1, <2>3, OwnType
      <3>2. t[2] \notin RemovalKind => Own(t[1], t[2])[j] \notin RemovalKind
        BY <2>1, <2>3, OwnKinds
      <3>3. \A k \in RemovalGoal : t[2] \in Reach(k) => Own(t[1], t[2])[j] \in Reach(k)
        BY <2>1, <2>3, OwnReach
      <3>. QED
        BY <2>1, <2>3, <3>1, <3>2, <3>3 DEF InScope
    <2>. QED
      BY <1>3, <2>2, <2>3, PrereqIs
  <1>. QED
    BY <1>2, <1>3

LEMMA ScopeStep ==
    ASSUME TypeOK, WalkInv, ScopeInv, PhaseStep
    PROVE  ScopeInv'
  <1>1. CASE Exits
    BY <1>1 DEF Exits, ScopeInv, AllIdle
  <1>2. ASSUME goal' = goal, NEW u \in Targets, InScope(u),
               \A w \in Targets : w # u => phase'[w] = phase[w]
        PROVE  ScopeInv'
    BY <1>2 DEF ScopeInv, InScope
  <1>3. CASE Rests
    BY <1>3 DEF Rests, ScopeInv, InScope
  <1>4. CASE Starts
    <2>1. PICK g \in Goals : goal' = g
      BY <1>4 DEF Starts
    <2>2. g \in Targets /\ \A u \in Targets : phase'[u] # "idle" => u = g
      BY <1>4, <2>1, GoalFacts DEF Starts, WalkInv, AllIdle
    <2>3. g[2] \notin Removal
      BY GoalFacts
    <2>4. g[2] \in RemovalGoal => g \in Pkg \X Kind
      BY <2>2 DEF Targets, World, RemovalGoal
    <2>5. \A k \in RemovalGoal : k \in Reach(k)
      BY DEF RemovalGoal, Reach, Chain
    <2>6. InScope(g)'
      BY <2>1, <2>3, <2>4, <2>5 DEF InScope, RemovalKind
    <2>. QED
      BY <2>2, <2>6 DEF ScopeInv
  <1>5. ASSUME NEW t \in Targets, NEW i \in DOMAIN Prereq(t), Enters(t, i)
        PROVE  ScopeInv'
    <2>1. phase[t] # "idle" /\ goal # NoGoal
      BY <1>5 DEF Enters, Descend, WalkInv, AllIdle
    <2>2. InScope(Prereq(t)[i])
      BY <2>1, ScopeClosed DEF ScopeInv
    <2>3. /\ Prereq(t)[i] \in Targets
          /\ goal' = goal
          /\ \A w \in Targets : w # Prereq(t)[i] => phase'[w] = phase[w]
      BY <1>5, PrereqTarget DEF Enters, Descend, TypeOK
    <2>. QED
      BY <1>2, <2>2, <2>3
  <1>6. ASSUME NEW t \in Targets, PhonyDone(t)
        PROVE  ScopeInv'
    <2>1. /\ phase[t] # "idle" /\ goal' = goal
          /\ \A w \in Targets : w # t => phase'[w] = phase[w]
      BY <1>6 DEF PhonyDone, TypeOK
    <2>. QED
      BY <1>2, <2>1 DEF ScopeInv
  <1>7. ASSUME NEW p \in Pkg, NEW k \in Step \cup Removal,
               NEW v \in {"begun", "ran", "done"}, Works(p, k, v)
        PROVE  ScopeInv'
    <2>1. <<p, k>> \in Targets
      BY GoalFacts, KindsDisjoint
    <2>2. /\ phase[<<p, k>>] # "idle" /\ goal' = goal
          /\ \A w \in Targets : w # <<p, k>> => phase'[w] = phase[w]
      BY <1>7, <2>1 DEF Works, Active, TypeOK
    <2>. QED
      BY <1>2, <2>1, <2>2 DEF ScopeInv
  <1>. QED
    BY <1>1, <1>3, <1>4, <1>5, <1>6, <1>7 DEF PhaseStep

(* While a removal recipe of a package runs, none of the steps whose       *)
(* results it removes does; for dirclean, nothing else of the make does.   *)
LEMMA RemovalAlone ==
    ASSUME TypeOK, WalkInv, ScopeInv, NEW p \in Pkg, NEW k \in Removal,
           phase[<<p, k>>] # "idle"
    PROVE  /\ \A s \in Removes(k) : phase[<<p, s>>] = "idle"
           /\ k = "dircleaned" => \A s \in Step : phase[<<p, s>>] = "idle"
  <1>1. <<p, k>> \in Targets /\ \A s \in Step : <<p, s>> \in Targets
    BY GoalFacts, KindsDisjoint
  <1>2. Removes(k) \subseteq Step
    BY DEF Removes, Step, BuildStep, InstallStep
  <1>3. InScope(<<p, k>>) /\ k \in RemovalKind
    BY <1>1 DEF ScopeInv, RemovalKind
  <1>4. goal[2] \in RemovalGoal /\ goal[1] = p /\ k \in Reach(goal[2])
    BY <1>3 DEF InScope
  <1>5. Rank[p] \in Nat
    BY ConfigAssumption
  <1>6. \A s \in Step : phase[<<p, s>>] # "idle" => s \in Reach(goal[2])
    BY <1>1, <1>4, <1>5 DEF ScopeInv, InScope
  <1>7. \A s \in Removes(k) : s \notin Chain \/ k = "dircleaned"
    BY DEF Removes, Chain, Removal
  <1>8. k = "dircleaned" => goal[2] = "dirclean"
    BY <1>4 DEF Reach, Chain
  <1>9. \A s \in Step : s \notin Reach("dirclean")
    BY DEF Reach, Step, BuildStep, InstallStep
  <1>. QED
    BY <1>2, <1>6, <1>7, <1>8, <1>9 DEF Reach
-----------------------------------------------------------------------------
(* Stamps *)

LEMMA StepNames ==
    /\ BuildStep \subseteq Step /\ Step \subseteq Kind /\ Removal \subseteq Kind
    /\ "downloaded" \in Step /\ "downloaded" \notin BuildStep
    /\ {"extracted", "patched", "built", "opkg_built",
        "staging_installed", "target_installed"} \subseteq BuildStep
    /\ Removal = {"uninstalled", "cleaned", "opkg_cleaned", "dircleaned"}
    /\ Step \cap Removal = {}
    /\ \A p \in Pkg, k \in Step \cup Removal : <<p, k>> \in Targets
  BY GoalFacts, KindsDisjoint DEF Kind, Step, BuildStep, InstallStep, Removal

LEMMA MovesIs ==
    ASSUME TypeOK, NEW p \in Pkg, NEW k \in Step \cup Removal, NEW from, NEW to,
           Moves(p, k, from, to)
    PROVE  /\ phase[<<p, k>>] = from /\ phase'[<<p, k>>] = to
           /\ \A q \in Pkg, j \in Step \cup Removal :
                 <<q, j>> # <<p, k>> => phase'[<<q, j>>] = phase[<<q, j>>]
  BY StepNames DEF Moves, TypeOK

LEMMA TreeIs ==
    ASSUME TypeOK, NEW p \in Pkg, NEW s \in Step, NEW c,
           tree' = [tree EXCEPT ![p][s] = c]
    PROVE  /\ tree'[p][s] = c
           /\ \A q \in Pkg, x \in Step : q # p \/ x # s => tree'[q][x] = tree[q][x]
  BY DEF TypeOK

(* Steps that leave the disk alone.                                        *)
LEMMA StampIdle ==
    ASSUME StampInv, UNCHANGED disk, phase' = AllIdle
    PROVE  StampInv'
  BY StepNames DEF StampInv, StampMissing, DoneStamped, PatchedExtracted, RemovalTorn,
        StagingGone, Honest, disk, AllIdle, Active, Exempt, Made

LEMMA StampMade ==
    ASSUME TypeOK, StampInv, UNCHANGED disk, NEW u \in Targets, NEW v \in {"active", "done"},
           phase' = [phase EXCEPT ![u] = v],
           u \in Pkg \X Step => (v = "done" <=> u \in stamp)
    PROVE  StampInv'
  <1>1. \A t \in Targets : phase'[t] = IF t = u THEN v ELSE phase[t]
    BY DEF TypeOK
  <1>2. StampMissing'
    BY <1>1, StepNames DEF StampInv, StampMissing, disk, Active
  <1>3. DoneStamped' /\ PatchedExtracted'
    BY <1>1, StepNames DEF StampInv, DoneStamped, PatchedExtracted, disk
  <1>4. RemovalTorn' /\ StagingGone'
    BY <1>1, StepNames DEF StampInv, RemovalTorn, StagingGone, disk
  <1>5. Honest'
    <2>1. \A p, s : (Exempt(p, s)' <=> Exempt(p, s)) /\ (Made(p, s)' <=> Made(p, s))
      BY DEF disk, Exempt, Made
    <2>2. \A p \in Pkg, s \in BuildStep : phase'[<<p, s>>] = "ran" => phase[<<p, s>>] = "ran"
      BY <1>1, StepNames
    <2>. QED
      BY <2>1, <2>2 DEF StampInv, Honest, disk
  <1>. QED
    BY <1>2, <1>3, <1>4, <1>5 DEF StampInv

(* A build recipe writes its own step's result, and unpacking the archive  *)
(* undoes the patches; it leaves every other result alone.                 *)
LEMMA TreeOther ==
    ASSUME TypeOK, NEW p \in Pkg, NEW s \in Step, RunStep(p, s),
           NEW q \in Pkg, NEW x \in BuildStep, <<q, x>> # <<p, s>>,
           tree'[q][x] # tree[q][x]
    PROVE  q = p /\ x = "patched" /\ s = "extracted" /\ BeginStep(p, s)
  <1> USE StepNames
  <1>1. CASE Touch(p, s)
    BY <1>1 DEF Touch
  <1>2. CASE EndStep(p, s)
    BY <1>2, TreeIs DEF EndStep
  <1>3. CASE BeginStep(p, s)
    <2>1. tree' = [tree EXCEPT ![p] = Begun(p, s)]
      BY <1>3 DEF BeginStep
    <2>2. tree'[q] = IF q = p THEN Begun(p, s) ELSE tree[q]
      BY <2>1 DEF TypeOK
    <2>. QED
      BY <1>3, <2>2 DEF Begun
  <1>4. CASE s = "downloaded" /\ (BeginDownload(p) \/ EndDownload(p))
    <2>1. UNCHANGED tree \/ \E c : tree' = [tree EXCEPT ![p]["downloaded"] = c]
      BY <1>4 DEF BeginDownload, EndDownload
    <2>. QED
      BY <1>4, <2>1, TreeIs
  <1>. QED
    BY <1>1, <1>2, <1>3, <1>4 DEF RunStep

(* Steps of a build recipe: they touch no other package and leave torn.    *)
LEMMA StampBuild ==
    ASSUME TypeOK, WalkInv, ScopeInv, StampInv, NEW p \in Pkg, NEW s \in Step, RunStep(p, s)
    PROVE  StampInv'
  <1> USE StepNames
  <1>1. UNCHANGED torn /\ \A q, x : Exempt(q, x)' <=> Exempt(q, x)
    BY DEF RunStep, BeginDownload, EndDownload, BeginStep, EndStep, Touch, Exempt
  <1>2. \E from \in Active, to \in {"begun", "ran", "done"} : Moves(p, s, from, to)
    BY DEF RunStep, BeginDownload, EndDownload, BeginStep, EndStep, Touch, Active
  <1>3. /\ phase[<<p, s>>] \in Active
        /\ \A q \in Pkg, j \in Step \cup Removal :
              <<q, j>> # <<p, s>> => phase'[<<q, j>>] = phase[<<q, j>>]
    BY <1>2, MovesIs
  <1>4. <<p, s>> \notin stamp
    BY <1>3 DEF StampInv, StampMissing
  <1>5. stamp \subseteq stamp' /\ stamp' \subseteq stamp \cup {<<p, s>>}
    BY DEF RunStep, BeginDownload, EndDownload, BeginStep, EndStep, Touch
  <1>6. <<p, s>> \in stamp' <=> phase'[<<p, s>>] = "done"
    <2>1. CASE Touch(p, s)
      BY <2>1, MovesIs DEF Touch
    <2>2. CASE ~Touch(p, s)
      <3>1. UNCHANGED stamp /\ \E from, to : to # "done" /\ Moves(p, s, from, to)
        BY <2>2 DEF RunStep, BeginDownload, EndDownload, BeginStep, EndStep
      <3>. QED
        BY <3>1, <1>4, MovesIs
    <2>. QED
      BY <2>1, <2>2
  <1>7. StampMissing' /\ DoneStamped'
    BY <1>3, <1>5, <1>6 DEF StampInv, StampMissing, DoneStamped, Active
  <1>8. RemovalTorn'
    BY <1>1, <1>3 DEF StampInv, RemovalTorn
  <1>9. StagingGone'
    <2>1. phase[<<p, "uninstalled">>] # "idle" => s # "staging_installed"
      BY <1>3, RemovalAlone DEF Removes, Active
    <2>. QED
      BY <1>3, <1>5, <2>1 DEF StampInv, StagingGone
  <1>10. PatchedExtracted'
    <2>1. s = "patched" => <<p, "extracted">> \in stamp
      BY <1>3, PatchAfterExtract DEF StampInv, DoneStamped, Active
    <2>. QED
      BY <1>1, <1>5, <2>1 DEF StampInv, PatchedExtracted
  <1>11. Honest'
    <2>1. SUFFICES ASSUME NEW q \in Pkg, NEW x \in BuildStep, ~Exempt(q, x),
                          <<q, x>> \in stamp' \/ phase'[<<q, x>>] = "ran"
                   PROVE  tree'[q][x] \in Rev \cup {Doubtful}
      BY <1>1 DEF Honest, Made
    <2>2. CASE <<q, x>> # <<p, s>>
      <3>1. tree[q][x] \in Rev \cup {Doubtful}
        BY <1>3, <1>5, <2>1, <2>2 DEF StampInv, Honest, Made
      <3>2. CASE tree'[q][x] = tree[q][x]
        BY <3>1, <3>2
      <3>3. CASE tree'[q][x] # tree[q][x]
        <4>1. q = p /\ x = "patched" /\ s = "extracted" /\ BeginStep(p, s)
          BY <2>2, <3>3, TreeOther
        <4>2. phase[<<p, "extracted">>] # "done" /\ <<p, "extracted">> \notin stamp
          BY <1>3, <1>4, <4>1 DEF Active
        <4>3. phase[<<p, "patched">>] = "idle"
          BY <4>2, PatchAfterExtract
        <4>4. <<p, "patched">> \in stamp
          BY <1>3, <1>5, <2>1, <4>1, <4>3
        <4>5. <<p, "dircleaned">> \in torn
          BY <4>2, <4>4 DEF StampInv, PatchedExtracted
        <4>6. Exempt(p, "patched")
          BY <4>5 DEF Exempt, Removes
        <4>. QED
          BY <2>1, <4>1, <4>6
      <3>. QED
        BY <3>2, <3>3
    <2>3. CASE <<q, x>> = <<p, s>>
      <3>1. phase'[<<p, s>>] \in {"ran", "done"}
        BY <1>6, <2>1, <2>3
      <3>2. CASE EndStep(p, s)
        <4> DEFINE in == tree[p][Input(s)]
                   made1 == IF in \notin Rev THEN Doubtful
                            ELSE IF s = "configured" THEN want[p] ELSE in
        <4>1. made1 \in Rev \cup {Doubtful}
          BY DEF TypeOK
        <4>2. tree' = [tree EXCEPT ![p][s] = made1]
          BY <3>2 DEF EndStep
        <4> HIDE DEF made1
        <4>3. tree'[p][s] = made1
          BY <4>2 DEF TypeOK
        <4>. QED
          BY <2>3, <4>1, <4>3
      <3>3. CASE Touch(p, s)
        <4>1. phase[<<p, s>>] = "ran" /\ UNCHANGED tree
          BY <3>3, MovesIs DEF Touch
        <4>. QED
          BY <2>1, <2>3, <4>1 DEF StampInv, Honest, Made
      <3>4. CASE BeginStep(p, s)
        <4>1. Moves(p, s, "active", "begun")
          BY <3>4 DEF BeginStep
        <4>2. phase'[<<p, s>>] = "begun"
          BY <4>1, MovesIs
        <4>. QED
          BY <3>1, <4>2
      <3>. QED
        BY <2>3, <3>2, <3>3, <3>4 DEF RunStep
    <2>. QED
      BY <2>2, <2>3
  <1>. QED
    BY <1>7, <1>8, <1>9, <1>10, <1>11 DEF StampInv

(* A make for foo-dirclean runs no other recipe of foo.                    *)
LEMMA DircleanAlone ==
    ASSUME TypeOK, WalkInv, ScopeInv, NEW p \in Pkg, phase[<<p, "dircleaned">>] # "idle",
           NEW j \in Removal, phase[<<p, j>>] # "idle"
    PROVE  j = "dircleaned"
  <1> USE StepNames
  <1>1. InScope(<<p, "dircleaned">>) /\ InScope(<<p, j>>)
    BY DEF ScopeInv
  <1>2. goal[2] = "dirclean"
    BY <1>1 DEF InScope, RemovalKind, Reach, Chain
  <1>3. j \in Reach("dirclean")
    BY <1>1, <1>2 DEF InScope, RemovalKind
  <1>. QED
    BY <1>3 DEF Reach, Removal

(* A step of removal recipe k of p: the stamps it may remove, the results  *)
(* it leaves alone, and what becomes of the record that it has begun.      *)
Takes(p, k) ==
    /\ stamp' \subseteq stamp
    /\ \A x \in stamp \ stamp' : x[1] = p /\ (x[2] \in Removes(k) \/ k = "dircleaned")

Spares(p, k) ==
    \A q \in Pkg, x \in BuildStep : q # p \/ x \notin Removes(k) => tree'[q][x] = tree[q][x]

Opens(p, k)    == torn' = torn \cup {<<p, k>>}
Keeps(p, k)    == torn' = torn /\ <<p, k>> \in torn
Closes(p, k)   == /\ torn' = torn \ {<<p, k>>}
                  /\ \A x \in Removes(k) : <<p, x>> \notin stamp'
ClosesDir(p, k) == k = "dircleaned" /\ torn' = Mended(p) /\ \A x \in stamp' : x[1] # p

LEMMA StampRemove ==
    ASSUME TypeOK, WalkInv, ScopeInv, StampInv,
           NEW p \in Pkg, NEW k \in Removal,
           NEW from \in Active, NEW to \in {"begun", "ran", "done"}, Moves(p, k, from, to),
           Takes(p, k), Spares(p, k),
           \/ Opens(p, k) \/ Keeps(p, k)
           \/ to = "done" /\ (Closes(p, k) \/ ClosesDir(p, k)),
           k = "uninstalled" /\ to = "ran" => <<p, "staging_installed">> \notin stamp'
    PROVE  StampInv'
  <1> USE StepNames
  <1>a. /\ stamp' \subseteq stamp
        /\ \A x \in stamp \ stamp' : x[1] = p /\ (x[2] \in Removes(k) \/ k = "dircleaned")
    BY DEF Takes
  <1>b. \A q \in Pkg, x \in BuildStep :
           q # p \/ x \notin Removes(k) => tree'[q][x] = tree[q][x]
    BY DEF Spares
  <1>1. /\ phase[<<p, k>>] = from /\ phase'[<<p, k>>] = to
        /\ \A q \in Pkg, j \in Step \cup Removal :
              <<q, j>> # <<p, k>> => phase'[<<q, j>>] = phase[<<q, j>>]
    BY MovesIs
  <1>2. \A q \in Pkg, x \in Step : phase'[<<q, x>>] = phase[<<q, x>>]
    <2>1. \A q, x : x \in Step => <<q, x>> # <<p, k>>
      BY StepNames
    <2>. QED
      BY <1>1, <2>1
  <1>3. /\ \A x \in Removes(k) : phase[<<p, x>>] = "idle"
        /\ k = "dircleaned" => \A x \in Step : phase[<<p, x>>] = "idle"
    BY <1>1, RemovalAlone DEF Active
  <1>4. StampMissing'
    BY <1>2, <1>a DEF StampInv, StampMissing
  <1>5. DoneStamped'
    <2>1. SUFFICES ASSUME NEW q \in Pkg, NEW x \in Step, phase[<<q, x>>] = "done",
                          <<q, x>> \notin stamp'
                   PROVE  FALSE
      BY <1>2 DEF DoneStamped
    <2>2. <<q, x>> \in stamp
      BY <2>1 DEF StampInv, DoneStamped
    <2>3. q = p /\ (x \in Removes(k) \/ k = "dircleaned")
      BY <1>a, <2>1, <2>2
    <2>. QED
      BY <1>3, <2>1, <2>3
  <1>6. \/ torn' = Mended(p) /\ k = "dircleaned" /\ (\A x \in stamp' : x[1] # p)
        \/ torn \ {<<p, k>>} \subseteq torn' /\ torn' \subseteq torn \cup {<<p, k>>}
    BY DEF Opens, Keeps, Closes, ClosesDir
  <1>7. PatchedExtracted'
    <2>1. SUFFICES ASSUME NEW q \in Pkg, <<q, "patched">> \in stamp',
                          <<q, "dircleaned">> \notin torn'
                   PROVE  <<q, "extracted">> \in stamp'
      BY DEF PatchedExtracted
    <2>2. <<q, "patched">> \in stamp
      BY <1>a, <2>1
    <2>3. CASE q # p
      <3>1. <<q, "extracted">> \in stamp
        BY <1>6, <2>1, <2>2, <2>3 DEF StampInv, PatchedExtracted, Mended
      <3>. QED
        BY <1>a, <2>3, <3>1
    <2>4. CASE q = p /\ k # "dircleaned"
      <3>1. "extracted" \notin Removes(k)
        BY <2>4 DEF Removes
      <3>2. <<q, "extracted">> \in stamp
        BY <1>6, <2>1, <2>2, <2>4 DEF StampInv, PatchedExtracted
      <3>. QED
        BY <1>a, <2>4, <3>1, <3>2
    <2>5. CASE q = p /\ k = "dircleaned"
      <3>1. "extracted" \in BuildStep /\ Removes(k) = BuildStep
        BY <2>5 DEF Removes
      <3>2. \/ <<p, "dircleaned">> \in torn'
            \/ <<p, "patched">> \notin stamp'
        BY <2>5, <3>1 DEF Opens, Keeps, Closes, ClosesDir
      <3>. QED
        BY <2>1, <2>5, <3>2
    <2>. QED
      BY <2>3, <2>4, <2>5
  <1>8. RemovalTorn'
    <2>1. SUFFICES ASSUME NEW q \in Pkg, NEW j \in Removal, phase'[<<q, j>>] \in {"begun", "ran"}
                   PROVE  <<q, j>> \in torn'
      BY DEF RemovalTorn
    <2>2. CASE <<q, j>> = <<p, k>>
      BY <1>1, <2>1, <2>2 DEF Opens, Keeps
    <2>3. CASE <<q, j>> # <<p, k>>
      <3>1. <<q, j>> \in torn
        BY <1>1, <2>1, <2>3 DEF StampInv, RemovalTorn
      <3>2. CASE q # p
        BY <1>6, <3>1, <3>2 DEF Mended
      <3>3. CASE q = p
        BY <1>1, <1>6, <2>1, <2>3, <3>1, <3>3, DircleanAlone DEF Active
      <3>. QED
        BY <3>2, <3>3
    <2>. QED
      BY <2>2, <2>3
  <1>9. StagingGone'
    BY <1>1, <1>a DEF StampInv, StagingGone
  <1>10. Honest'
    <2>1. SUFFICES ASSUME NEW q \in Pkg, NEW x \in BuildStep, ~Exempt(q, x)',
                          <<q, x>> \in stamp' \/ phase[<<q, x>>] = "ran"
                   PROVE  tree'[q][x] \in Rev \cup {Doubtful}
      BY <1>2 DEF Honest, Made
    <2>2. CASE q # p \/ x \notin Removes(k)
      <3>1. ~Exempt(q, x)
        BY <1>6, <2>1, <2>2 DEF Exempt, Mended, Removes
      <3>2. Made(q, x)
        BY <1>a, <2>1, <3>1 DEF StampInv, Honest
      <3>. QED
        BY <1>b, <2>2, <3>2 DEF Made
    <2>3. CASE q = p /\ x \in Removes(k)
      <3>1. <<q, x>> \in stamp'
        BY <1>3, <2>1, <2>3
      <3>2. <<p, k>> \in torn'
        BY <2>3, <3>1 DEF Opens, Keeps, Closes, ClosesDir
      <3>. QED
        BY <2>1, <2>3, <3>2 DEF Exempt
    <2>. QED
      BY <2>2, <2>3
  <1>. QED
    BY <1>4, <1>5, <1>7, <1>8, <1>9, <1>10 DEF StampInv

(* foo-clean's two recipes that remove one result each.                    *)
LEMMA StampRemoveOne ==
    ASSUME TypeOK, WalkInv, ScopeInv, StampInv, NEW p \in Pkg,
           NEW k \in {"cleaned", "opkg_cleaned"}, NEW s \in BuildStep, Removes(k) = {s},
           RemoveOne(p, k, s)
    PROVE  StampInv'
  <1> USE StepNames
  <1>1. /\ k \in Removal /\ s \in Step /\ k # "uninstalled"
        /\ "active" \in Active /\ "begun" \in Active /\ "ran" \in Active
    BY DEF Active
  <1>2. ASSUME NEW c, tree' = [tree EXCEPT ![p][s] = c]
        PROVE  Spares(p, k)
    BY <1>1, <1>2, TreeIs DEF Spares
  <1>3. CASE BeginRemoval(p, k, s)
    <2>1. Moves(p, k, "active", "begun")
      BY <1>3 DEF BeginRemoval
    <2>2. Takes(p, k) /\ Opens(p, k)
      BY <1>3 DEF BeginRemoval, Takes, Opens
    <2>3. tree' = [tree EXCEPT ![p][s] = Decay(tree[p][s])]
      BY <1>3 DEF BeginRemoval
    <2>4. Spares(p, k)
      BY <1>2, <2>3
    <2>. QED
      BY <1>1, <2>1, <2>2, <2>4, StampRemove
  <1>4. CASE EndRemoval(p, k, s)
    <2>1. Moves(p, k, "begun", "ran")
      BY <1>4 DEF EndRemoval
    <2>2. <<p, k>> \in torn
      BY <1>1, <2>1 DEF Moves, StampInv, RemovalTorn
    <2>3. Takes(p, k) /\ Keeps(p, k)
      BY <1>4, <2>2 DEF EndRemoval, Takes, Keeps
    <2>4. Spares(p, k)
      BY <1>2, <1>4 DEF EndRemoval
    <2>. QED
      BY <1>1, <2>1, <2>3, <2>4, StampRemove
  <1>5. CASE RemoveStamp(p, k, s)
    <2>1. /\ Moves(p, k, "ran", "done") /\ UNCHANGED tree
          /\ stamp' = stamp \ {<<p, s>>} /\ torn' = torn \ {<<p, k>>}
      BY <1>5 DEF RemoveStamp
    <2>2. Takes(p, k) /\ Closes(p, k) /\ Spares(p, k)
      BY <2>1 DEF Takes, Closes, Spares
    <2>. QED
      BY <1>1, <2>1, <2>2, StampRemove
  <1>. QED
    BY <1>3, <1>4, <1>5 DEF RemoveOne

LEMMA StampUninstall ==
    ASSUME TypeOK, WalkInv, ScopeInv, StampInv, NEW p \in Pkg, Uninstall(p)
    PROVE  StampInv'
  <1> DEFINE k == "uninstalled"
  <1> USE StepNames
  <1>1. /\ Removes(k) = {"staging_installed", "target_installed"}
        /\ k \in Removal
        /\ "active" \in Active /\ "begun" \in Active /\ "ran" \in Active
    BY DEF Removes, Active
  <1>2. CASE BeginRemoval(p, k, "staging_installed")
    <2>1. Moves(p, k, "active", "begun")
      BY <1>2 DEF BeginRemoval
    <2>2. Takes(p, k) /\ Opens(p, k)
      BY <1>2 DEF BeginRemoval, Takes, Opens
    <2>3. tree' = [tree EXCEPT ![p]["staging_installed"] = Decay(tree[p]["staging_installed"])]
      BY <1>2 DEF BeginRemoval
    <2>4. Spares(p, k)
      BY <1>1, <2>3, TreeIs DEF Spares
    <2>. QED
      BY <1>1, <2>1, <2>2, <2>4, StampRemove
  <1>3. CASE UninstallStaging(p)
    <2>1. /\ Moves(p, k, "begun", "ran") /\ torn' = torn
          /\ stamp' = stamp \ {<<p, "staging_installed">>}
      BY <1>3 DEF UninstallStaging
    <2>2. <<p, k>> \in torn
      BY <1>1, <2>1 DEF Moves, StampInv, RemovalTorn
    <2>3. Takes(p, k) /\ Keeps(p, k) /\ <<p, "staging_installed">> \notin stamp'
      BY <1>1, <2>1, <2>2 DEF Takes, Keeps
    <2>4. Spares(p, k)
      <3>1. tree' = [tree EXCEPT
                       ![p]["staging_installed"] = Absent,
                       ![p]["target_installed"] = Decay(tree[p]["target_installed"])]
        BY <1>3 DEF UninstallStaging, TypeOK
      <3>. QED
        BY <1>1, <3>1 DEF Spares, TypeOK
    <2>. QED
      BY <1>1, <2>1, <2>3, <2>4, StampRemove
  <1>4. CASE UninstallTarget(p)
    <2>1. /\ Moves(p, k, "ran", "done")
          /\ stamp' = stamp \ {<<p, "target_installed">>}
          /\ torn' = torn \ {<<p, k>>}
      BY <1>4 DEF UninstallTarget
    <2>2. <<p, "staging_installed">> \notin stamp
      BY <1>1, <2>1 DEF Moves, StampInv, StagingGone
    <2>3. Takes(p, k) /\ Closes(p, k)
      BY <1>1, <2>1, <2>2 DEF Takes, Closes
    <2>4. Spares(p, k)
      BY <1>1, <1>4, TreeIs DEF UninstallTarget, Spares
    <2>. QED
      BY <1>1, <2>1, <2>3, <2>4, StampRemove
  <1>. QED
    BY <1>2, <1>3, <1>4 DEF Uninstall

LEMMA StampDirclean ==
    ASSUME TypeOK, WalkInv, ScopeInv, StampInv, NEW p \in Pkg, Dirclean(p)
    PROVE  StampInv'
  <1> DEFINE k == "dircleaned"
  <1> USE StepNames
  <1>1. /\ Removes(k) = BuildStep /\ k \in Removal
        /\ "active" \in Active /\ "begun" \in Active
        /\ stamp \subseteq Pkg \X Step
    BY DEF Removes, Active, TypeOK
  <1>2. ASSUME NEW f, tree' = [tree EXCEPT ![p] = f]
        PROVE  Spares(p, k)
    BY <1>1, <1>2 DEF Spares, TypeOK
  <1>3. CASE BeginDirclean(p)
    <2>1. Moves(p, k, "active", "begun")
      BY <1>3 DEF BeginDirclean
    <2>2. Takes(p, k) /\ Opens(p, k)
      BY <1>3 DEF BeginDirclean, StampsOf, Takes, Opens
    <2>3. Spares(p, k)
      BY <1>2, <1>3 DEF BeginDirclean
    <2>. QED
      BY <1>1, <2>1, <2>2, <2>3, StampRemove
  <1>4. CASE EndDirclean(p)
    <2>1. Moves(p, k, "begun", "done")
      BY <1>4 DEF EndDirclean
    <2>2. Takes(p, k) /\ ClosesDir(p, k)
      BY <1>4 DEF EndDirclean, StampsOf, Takes, ClosesDir
    <2>3. Spares(p, k)
      BY <1>2, <1>4 DEF EndDirclean
    <2>. QED
      BY <1>1, <2>1, <2>2, <2>3, StampRemove
  <1>. QED
    BY <1>3, <1>4 DEF Dirclean

(* The user removes stamps only while no make runs.                        *)
LEMMA StampUser ==
    ASSUME TypeOK, WalkInv, StampInv, goal = NoGoal, phase' = phase, NEW p \in Pkg,
           Recompile(p) \/ \E what \in UserRemoves : Reconfigure(p, what)
    PROVE  StampInv'
  <1> USE StepNames
  <1>1. \A q \in Pkg, k \in Step \cup Removal :
           phase[<<q, k>>] = "idle" /\ phase'[<<q, k>>] = "idle"
    BY DEF WalkInv, AllIdle
  <1>2. StampMissing' /\ DoneStamped' /\ RemovalTorn' /\ StagingGone'
    BY <1>1 DEF StampMissing, DoneStamped, RemovalTorn, StagingGone, Active
  <1>3. CASE UNCHANGED <<tree, torn>> /\ \E s \in {"configured", "built"} :
                                          stamp' = stamp \ {<<p, s>>}
    <2>1. PatchedExtracted'
      BY <1>3 DEF StampInv, PatchedExtracted
    <2>2. \A q, x : (Exempt(q, x)' <=> Exempt(q, x)) /\ (Made(q, x)' <=> Made(q, x))
      BY <1>3 DEF Exempt, Made
    <2>3. Honest'
      BY <1>1, <1>3, <2>2 DEF StampInv, Honest
    <2>. QED
      BY <1>2, <2>1, <2>3 DEF StampInv
  <1>4. CASE /\ stamp' = stamp \ StampsOf(p) /\ torn' = Mended(p)
             /\ tree' = [tree EXCEPT ![p] = DirGone(p)]
    <2>1. \A q, x : <<q, x>> \in stamp' => q # p /\ <<q, x>> \in stamp
      BY <1>4 DEF StampsOf
    <2>2. \A q, x : q # p => (Exempt(q, x)' <=> Exempt(q, x))
      BY <1>4 DEF Exempt, Mended
    <2>3. \A q \in Pkg : \A x : q # p => (Made(q, x)' <=> Made(q, x))
      BY <1>4 DEF Made, TypeOK
    <2>4. PatchedExtracted'
      <3>1. SUFFICES ASSUME NEW q \in Pkg, <<q, "patched">> \in stamp',
                            <<q, "dircleaned">> \notin torn'
                     PROVE  <<q, "extracted">> \in stamp'
        BY DEF PatchedExtracted
      <3>2. q # p /\ <<q, "patched">> \in stamp /\ <<q, "dircleaned">> \notin torn
        BY <1>4, <2>1, <3>1 DEF Mended
      <3>3. <<q, "extracted">> \in stamp
        BY <3>2 DEF StampInv, PatchedExtracted
      <3>. QED
        BY <1>4, <3>2, <3>3 DEF StampsOf
    <2>5. Honest'
      BY <1>1, <2>1, <2>2, <2>3 DEF StampInv, Honest
    <2>. QED
      BY <1>2, <2>4, <2>5 DEF StampInv
  <1>. QED
    BY <1>3, <1>4 DEF Recompile, Reconfigure

LEMMA StampInit == Init => WalkInv /\ ScopeInv /\ StampInv
  <1> SUFFICES ASSUME Init PROVE WalkInv /\ ScopeInv /\ StampInv
    OBVIOUS
  <1>1. /\ goal = NoGoal /\ phase = AllIdle /\ stamp = {} /\ torn = {}
        /\ \A t \in Targets : phase[t] = "idle"
    BY DEF Init, AllIdle
  <1>2. WalkInv
    BY <1>1 DEF WalkInv
  <1>3. ScopeInv
    BY <1>1 DEF ScopeInv
  <1>4. StampInv
    BY <1>1, StepNames
       DEF StampInv, StampMissing, DoneStamped, PatchedExtracted, RemovalTorn,
           StagingGone, Honest, Active
  <1>. QED
    BY <1>2, <1>3, <1>4

LEMMA StampWalk ==
    ASSUME TypeOK, WalkInv, StampInv, Walk
    PROVE  StampInv'
  <1>1. ASSUME NEW t \in Targets, NEW i \in DOMAIN Prereq(t), Descend(t, i)
        PROVE  StampInv'
    <2> DEFINE u == Prereq(t)[i]
    <2>1. PICK v \in {"active", "done"} : /\ phase' = [phase EXCEPT ![u] = v]
                                          /\ v = "done" <=> u \in stamp
      BY <1>1 DEF Descend
    <2>2. u \in Targets /\ UNCHANGED disk
      BY <1>1, PrereqTarget DEF Descend
    <2> HIDE DEF u
    <2>. QED
      BY <2>1, <2>2, StampMade
  <1>2. ASSUME NEW t \in Targets, PhonyDone(t)
        PROVE  StampInv'
    <2>1. phase' = [phase EXCEPT ![t] = "done"] /\ UNCHANGED disk
      BY <1>2 DEF PhonyDone
    <2>2. t \notin Pkg \X Step
      BY <1>2, KindsDisjoint DEF PhonyDone, Kind
    <2>. QED
      BY <2>1, <2>2, StampMade
  <1>3. CASE MakeSucceeds
    BY <1>3, StampIdle DEF MakeSucceeds
  <1>. QED
    BY <1>1, <1>2, <1>3 DEF Walk

LEMMA StampStep == IInv /\ [Next]_vars => StampInv'
  <1> SUFFICES ASSUME TypeOK, WalkInv, ScopeInv, StampInv, [Next]_vars PROVE StampInv'
    BY DEF IInv
  <1>1. CASE Walk
    BY <1>1, StampWalk
  <1>2. CASE Recipe
    <2>1. ASSUME NEW p \in Pkg, Clean(p) PROVE StampInv'
      <3>1. Removes("cleaned") = {"built"} /\ "built" \in BuildStep
        BY StepNames DEF Removes
      <3>. QED
        BY <2>1, <3>1, StampRemoveOne DEF Clean
    <2>2. ASSUME NEW p \in Pkg, OpkgClean(p) PROVE StampInv'
      <3>1. Removes("opkg_cleaned") = {"opkg_built"} /\ "opkg_built" \in BuildStep
        BY StepNames DEF Removes
      <3>. QED
        BY <2>2, <3>1, StampRemoveOne DEF OpkgClean
    <2>. QED
      BY <1>2, <2>1, <2>2, StampBuild, StampUninstall, StampDirclean DEF Recipe
  <1>3. CASE CommandFails \/ Interrupt
    BY <1>3, StampIdle DEF CommandFails, Interrupt, Stop
  <1>4. ASSUME NEW g \in Goals, RunMake(g) PROVE StampInv'
    <2>1. g \in Targets /\ g \notin Pkg \X Step
      BY GoalFacts
    <2>2. phase' = [phase EXCEPT ![g] = "active"] /\ UNCHANGED disk
      BY <1>4 DEF RunMake
    <2>. QED
      BY <2>1, <2>2, StampMade
  <1>5. ASSUME NEW p \in Pkg, Recompile(p) \/ \E what \in UserRemoves : Reconfigure(p, what)
        PROVE  StampInv'
    <2>1. goal = NoGoal /\ phase' = phase
      BY <1>5 DEF Recompile, Reconfigure
    <2>. QED
      BY <1>5, <2>1, StampUser
  <1>6. CASE UNCHANGED vars
    BY <1>6 DEF vars, StampInv, StampMissing, DoneStamped, PatchedExtracted,
          RemovalTorn, StagingGone, Honest, Exempt, Made
  <1>. QED
    BY <1>1, <1>2, <1>3, <1>4, <1>5, <1>6 DEF Next, MakeStep, User

LEMMA Inductive == IInv /\ [Next]_vars => IInv'
  BY TypeStep, NextPhases, WalkStep, ScopeStep, StampStep DEF IInv

LEMMA InvHolds == Spec => []IInv
  <1>1. Init => IInv
    BY TypeInit, StampInit DEF IInv
  <1>. QED
    BY <1>1, Inductive, PTL DEF Spec

(* A stamp file of a package whose removal recipes, if any began, ran to   *)
(* their end stands for a result that is on disk, for any                  *)
(* packages, whatever failed, was interrupted or was removed by hand.      *)
THEOREM StampsAreHonest == Spec => []StampsHonest
  <1>1. IInv => StampsHonest
    <2>1. SUFFICES ASSUME IInv, NEW x \in stamp, Intact(x[1]), x[2] # "downloaded"
                   PROVE  Made(x[1], x[2])
      BY DEF StampsHonest
    <2>2. x[1] \in Pkg /\ x[2] \in BuildStep /\ x = <<x[1], x[2]>>
      BY <2>1 DEF IInv, TypeOK, Step
    <2>3. ~Exempt(x[1], x[2])
      BY <2>1 DEF Intact, Exempt
    <2>. QED
      BY <2>1, <2>2, <2>3 DEF IInv, StampInv, Honest
  <1>. QED
    BY <1>1, InvHolds, PTL
=============================================================================
