---------------------------- MODULE WorldProofs -----------------------------
(* Proofs about World: types, that no image is made of an unfinished       *)
(* target directory, and that what a make world leaves is current, for any *)
(* packages, file systems and configurations of the kernel.                *)
EXTENDS World, TLAPS

LEMMA SeqDomain ==
    ASSUME NEW S, NEW q \in Seq(S) PROVE Len(q) \in Nat /\ DOMAIN q = 1..Len(q)
OBVIOUS

(* The targets of a stage are a sequence.                                  *)
LEMMA ItemsDomain ==
    ASSUME NEW s \in Stage
    PROVE  /\ Len(Items(s)) \in Nat
           /\ DOMAIN Items(s) = 1..Len(Items(s))
<1>a. Packages \in Seq(STRING) /\ Fs \in Seq(STRING) BY WorldAssumption
<1>1. CASE s = "packages"
  <2>1. Items(s) = Packages BY <1>1 DEF Items
  <2> QED BY <2>1, <1>a, SeqDomain, Zenon
<1>2. CASE s = "images"
  <2>1. Items(s) = Fs BY <1>2 DEF Items
  <2> QED BY <2>1, <1>a, SeqDomain, Zenon
<1>3. CASE s = "linux"
  <2>1. Items(s) = KernelStep BY <1>3 DEF Items
  <2>2. CASE Opkg BY <2>1, <2>2 DEF KernelStep
  <2>3. CASE ~Opkg BY <2>1, <2>3 DEF KernelStep
  <2> QED BY <2>2, <2>3
<1>4. CASE s = "finish"
  <2>1. Items(s) = Finishing BY <1>4 DEF Items
  <2>2. CASE Purge BY <2>1, <2>2 DEF Finishing
  <2>3. CASE ~Purge BY <2>1, <2>3 DEF Finishing
  <2> QED BY <2>2, <2>3
<1>5. CASE s \in {"dirs", "menu", "end"}
  <2>1. CASE s = "dirs" BY <2>1 DEF Items
  <2>2. CASE s = "menu" BY <2>2 DEF Items
  <2>3. CASE s = "end" BY <2>3 DEF Items
  <2> QED BY <1>5, <2>1, <2>2, <2>3
<1> QED BY <1>1, <1>2, <1>3, <1>4, <1>5 DEF Stage

(* The next stage is a stage.                                              *)
LEMMA AfterType == ASSUME NEW s \in Stage PROVE After(s) \in Stage
BY DEF After, Stage

(* What Done does to make's place keeps its type.                          *)
LEMMA DoneType ==
    ASSUME TypeOK, nth \in DOMAIN Items(stage), nth' = nth + 1, stage' = stage
    PROVE  nth' \in 1..(Len(Items(stage')) + 1)
<1>1. nth \in 1..Len(Items(stage)) /\ Len(Items(stage)) \in Nat
  BY ItemsDomain DEF TypeOK
<1> QED BY <1>1

(* The kernel record with some fields replaced.                            *)
LEMMA KernelRecord ==
    ASSUME NEW A, NEW B, NEW C,
           NEW k \in [cfg : A, build : B, data : C, image : B, opkg : B],
           NEW build \in B, NEW data \in C
    PROVE  /\ [k EXCEPT !.build = build, !.data = data]
                  \in [cfg : A, build : B, data : C, image : B, opkg : B]
           /\ \A image \in B : [k EXCEPT !.build = build, !.image = image, !.data = data]
                  \in [cfg : A, build : B, data : C, image : B, opkg : B]
OBVIOUS

LEMMA PkgComp == Pkg \subseteq Comp /\ "linux" \in Comp
BY DEF Comp

(* Every item of the sequence Packages is in Pkg, and so on.               *)
LEMMA Revisions == 1..MaxRev \subseteq Torn..MaxRev /\ Torn \in Torn..MaxRev
                   /\ Absent \in Torn..MaxRev /\ 1 \in 1..MaxRev
BY WorldAssumption DEF Torn, Absent

LEMMA InitType == Init => TypeOK
<1> SUFFICES ASSUME Init PROVE TypeOK OBVIOUS
<1>1. nth \in 1..(Len(Items(stage)) + 1)
  BY ItemsDomain DEF Init, Stage
<1>2. Target \in Content
  BY Revisions DEF Init, Target, Content
<1>3. QED BY <1>1, <1>2, Revisions DEF Init, TypeOK, Stage

LEMMA NextType == TypeOK /\ [Next]_vars => TypeOK'
<1> SUFFICES ASSUME TypeOK, [Next]_vars PROVE TypeOK' OBVIOUS
<1> USE DEF TypeOK
<1>t. /\ tree \in [Comp -> Torn..MaxRev] /\ fin \subseteq Elements(Finishing)
      /\ skel \in {"absent", "partial", "whole"} /\ init \in {"none", "link", "script"}
  BY DEF Target, Content
<1>c. ASSUME tree' \in [Comp -> Torn..MaxRev], fin' \subseteq Elements(Finishing),
             skel' \in {"absent", "partial", "whole"}, init' \in {"none", "link", "script"}
      PROVE  Target' \in Content
  BY <1>c DEF Target, Content
<1>d. ASSUME Done, nth \in DOMAIN Items(stage)
      PROVE  /\ run' \in {"none", "world", "menuconfig"} /\ stage' \in Stage
             /\ nth' \in 1..(Len(Items(stage')) + 1)
             /\ at' \in {"ready", "begun", "made", "rebuilding"}
             /\ want' \in [Comp -> 1..MaxRev] /\ saved' \in BOOLEAN /\ made' \in BOOLEAN
  BY <1>d, DoneType DEF Done
<1>g. ASSUME NEW a \in {"ready", "begun", "made", "rebuilding"}, Goes(a)
      PROVE  /\ run' \in {"none", "world", "menuconfig"} /\ stage' \in Stage
             /\ nth' \in 1..(Len(Items(stage')) + 1)
             /\ at' \in {"ready", "begun", "made", "rebuilding"}
             /\ want' \in [Comp -> 1..MaxRev] /\ saved' \in BOOLEAN /\ made' \in BOOLEAN
  BY <1>g DEF Goes
<1>s. /\ {"patched", "configured", "built", "target", "images"} \subseteq Elements(KernelStep)
      /\ Opkg => "opkg" \in Elements(KernelStep)
  <2>1. CASE Opkg
    <3>1. KernelStep = <<"patched", "configured", "built", "target", "images", "opkg">> BY <2>1 DEF KernelStep
    <3>2. DOMAIN KernelStep = 1..6 BY <3>1
    <3> QED BY <3>1, <3>2 DEF Elements
  <2>2. CASE ~Opkg
    <3>1. KernelStep = <<"patched", "configured", "built", "target", "images">> BY <2>2 DEF KernelStep
    <3>2. DOMAIN KernelStep = 1..5 BY <3>1
    <3> QED BY <3>1, <3>2, <2>2 DEF Elements
  <2> QED BY <2>1, <2>2
<1>r. RootList \in SUBSET Content /\ Embeds \subseteq SUBSET Content
  BY DEF RootList, Embeds
<1>k. ASSUME NEW root \in Embeds
      PROVE  [cfg |-> kernel.cfg, root |-> root] \in Kernel
  BY <1>k, <1>r DEF Kernel
<1>1. CASE DirsStep
  <2>1. CASE BeginSkeleton
    BY <1>t, <1>c, <1>g, <2>1 DEF BeginSkeleton
  <2>2. CASE EndSkeleton
    BY <1>t, <1>c, <1>d, <2>2 DEF EndSkeleton, At
  <2>3. CASE NoSkeleton
    BY <1>t, <1>c, <1>d, <2>3 DEF NoSkeleton, At, dir
  <2> QED BY <1>1, <2>1, <2>2, <2>3 DEF DirsStep
<1>2. CASE PackageStep
  <2>1. ASSUME NEW p \in Pkg, BeginPackage(p) PROVE TypeOK'
    <3>1. tree' \in [Comp -> Torn..MaxRev] BY <2>1, <1>t, Revisions DEF BeginPackage
    <3> QED BY <3>1, <1>t, <1>c, <1>g, <2>1 DEF BeginPackage
  <2>2. ASSUME NEW p \in Pkg, EndPackage(p) PROVE TypeOK'
    <3>1. tree' \in [Comp -> Torn..MaxRev]
      BY <2>2, <1>t, Revisions, PkgComp DEF EndPackage
    <3> QED BY <3>1, <1>t, <1>c, <1>d, <2>2 DEF EndPackage, At
  <2> QED BY <1>2, <2>1, <2>2 DEF PackageStep
<1>3. CASE LinuxStep
  <2>1. ASSUME NEW s, Begins(s) PROVE Goes("begun") /\ UNCHANGED <<stamp, skel, init, img>>
    BY <2>1 DEF Begins
  <2>2. ASSUME NEW s, Ends(s)
        PROVE  /\ Done /\ nth \in DOMAIN Items(stage) /\ s = Items(stage)[nth]
               /\ stage \in {"linux", "menu"} /\ stamp' = stamp \cup {s}
               /\ UNCHANGED <<skel, fin, init, img>>
    BY <2>2 DEF Ends, At
  <2>a. CASE BeginPatch BY <2>1, <2>a, <1>t, <1>c, <1>g DEF BeginPatch
  <2>b. CASE EndPatch BY <2>2, <2>b, <1>t, <1>c, <1>d, <1>s DEF EndPatch
  <2>3. CASE BeginConfigure BY <2>1, <2>3, <1>t, <1>c, <1>g DEF BeginConfigure
  <2>4. CASE EndConfigure BY <2>2, <2>4, <1>t, <1>c, <1>d, <1>s DEF EndConfigure
  <2>5. CASE BeginBuild BY <2>1, <2>5, <1>t, <1>c, <1>g DEF BeginBuild
  <2>6. CASE EndBuild
    <3>1. PICK root \in Embeds :
            kernel' = [kernel EXCEPT !.build = {[cfg |-> kernel.cfg, root |-> root]}, !.data = {root}]
      BY <2>6 DEF EndBuild
    <3>2. kernel' \in [cfg : 1..MaxRev, build : SUBSET Kernel, data : SUBSET SUBSET Content,
                       image : SUBSET Kernel, opkg : SUBSET Kernel]
      <4>1. {[cfg |-> kernel.cfg, root |-> root]} \in SUBSET Kernel BY <1>k
      <4>2. {root} \in SUBSET SUBSET Content BY <1>r
      <4> QED BY <3>1, <4>1, <4>2, KernelRecord
    <3> QED BY <3>2, <2>2, <2>6, <1>t, <1>c, <1>d, <1>s DEF EndBuild
  <2>7. CASE BeginModules
    <3>1. tree' \in [Comp -> Torn..MaxRev] BY <2>7, <1>t, Revisions DEF BeginModules
    <3> QED BY <3>1, <2>1, <2>7, <1>t, <1>c, <1>g DEF BeginModules
  <2>8. CASE EndModules
    <3>3. tree' \in [Comp -> Torn..MaxRev]
      <4>1. ASSUME NEW k \in kernel.build, tree' = [tree EXCEPT !["linux"] = k.cfg]
            PROVE  tree' \in [Comp -> Torn..MaxRev]
        <5>1. k.cfg \in 1..MaxRev BY DEF Kernel
        <5> QED BY <4>1, <5>1, <1>t, Revisions
      <4>2. CASE tree' = [tree EXCEPT !["linux"] = Torn] BY <4>2, <1>t, Revisions
      <4> QED BY <2>8, <4>1, <4>2 DEF EndModules
    <3> QED BY <3>3, <2>2, <2>8, <1>t, <1>c, <1>d, <1>s DEF EndModules
  <2>9. CASE BeginCopy BY <2>1, <2>9, <1>t, <1>c, <1>g DEF BeginCopy
  <2>10. CASE EndCopy
    <3>1. kernel' \in [cfg : 1..MaxRev, build : SUBSET Kernel, data : SUBSET SUBSET Content,
                       image : SUBSET Kernel, opkg : SUBSET Kernel]
      BY <2>10 DEF EndCopy
    <3>2. stamp' = stamp \cup {"images"} /\ UNCHANGED <<tree, skel, fin, init, img>>
      BY <2>2, <2>10 DEF EndCopy
    <3> QED BY <3>1, <3>2, <2>2, <2>10, <1>t, <1>c, <1>d, <1>s DEF EndCopy
  <2>11. CASE BeginOpkg BY <2>1, <2>11, <1>t, <1>c, <1>g DEF BeginOpkg
  <2>12. CASE EndOpkg
    <3>1. "opkg" \in Elements(KernelStep)
      <4>1. stage \in {"linux", "menu"} /\ "opkg" = Items(stage)[nth] /\ nth \in DOMAIN Items(stage)
        BY <2>2, <2>12 DEF EndOpkg
      <4>2. CASE stage = "linux" BY <4>1, <4>2 DEF Items, Elements
      <4>3. CASE stage = "menu"
        <5>1. Items(stage) = <<"configured", "linux-menuconfig">> BY <4>3 DEF Items
        <5>2. nth \in 1..2 BY <5>1, <4>1
        <5> QED BY <5>1, <5>2, <4>1
      <4> QED BY <4>1, <4>2, <4>3
    <3>2. kernel' \in [cfg : 1..MaxRev, build : SUBSET Kernel, data : SUBSET SUBSET Content,
                       image : SUBSET Kernel, opkg : SUBSET Kernel]
      BY <2>12 DEF EndOpkg
    <3>3. stamp' = stamp \cup {"opkg"} /\ UNCHANGED <<tree, skel, fin, init, img>>
      BY <2>2, <2>12 DEF EndOpkg
    <3> QED BY <3>1, <3>2, <3>3, <2>2, <2>12, <1>t, <1>c, <1>d DEF EndOpkg
  <2> QED BY <1>3, <2>a, <2>b, <2>3, <2>4, <2>5, <2>6, <2>7, <2>8, <2>9, <2>10, <2>11, <2>12 DEF LinuxStep
<1>4. CASE MenuStep
  <2>1. CASE Menuconfig
    <3>1. PICK cfg \in {kernel.cfg, kernel.cfg + 1} :
             /\ cfg <= MaxRev /\ kernel' = [kernel EXCEPT !.cfg = cfg]
             /\ want' = [want EXCEPT !["linux"] = cfg]
             /\ saved' = (saved \/ (cfg # kernel.cfg /\ stamp \cap OfConfig # {}))
      BY <2>1 DEF Menuconfig
    <3>2. cfg \in 1..MaxRev BY <3>1, WorldAssumption
    <3>3. /\ want' \in [Comp -> 1..MaxRev] /\ saved' \in BOOLEAN
          /\ kernel' \in [cfg : 1..MaxRev, build : SUBSET Kernel, data : SUBSET SUBSET Content,
                          image : SUBSET Kernel, opkg : SUBSET Kernel]
      BY <3>1, <3>2, PkgComp
    <3>4. /\ at' = "begun" /\ UNCHANGED <<run, stage, nth, made, stamp, img>>
          /\ UNCHANGED <<skel, tree, fin, init>>
      BY <2>1 DEF Menuconfig, dir
    <3> QED BY <3>3, <3>4, <1>t, <1>c
  <2>2. CASE RemoveStamps
    <3>1. nth' \in 1..(Len(Items(stage')) + 1)
      BY <2>2, DoneType DEF RemoveStamps, At
    <3> QED BY <3>1, <2>2, <1>t, <1>c DEF RemoveStamps, dir
  <2> QED BY <1>4, <2>1, <2>2 DEF MenuStep
<1>5. CASE FinishStep
  <2>1. PICK x \in Elements(Finishing) : Finalize(x) BY <1>5 DEF FinishStep
  <2> QED BY <2>1, <1>t, <1>c, <1>d DEF Finalize, At
<1>6. CASE ImageStep
  <2>0. Target \in Content OBVIOUS
  <2>1. ASSUME NEW f \in Image, BeginImage(f) PROVE TypeOK'
    <3>1. img' \in [Image -> SUBSET Content] BY <2>1 DEF BeginImage
    <3>2. init' \in {"none", "link", "script"} BY <2>1, <1>t DEF BeginImage, Hook
    <3> QED BY <3>1, <3>2, <2>1, <1>t, <1>c, <1>g DEF BeginImage
  <2>2. ASSUME NEW f \in Image, EndImage(f) PROVE TypeOK'
    <3>1. img' \in [Image -> SUBSET Content] BY <2>2, <2>0 DEF EndImage
    <3> QED BY <3>1, <2>2, <1>t, <1>c, <1>g DEF EndImage, dir
  <2>3. ASSUME NEW f \in Image, NoPostTarget(f) PROVE TypeOK'
    BY <2>3, <1>t, <1>c, <1>d DEF NoPostTarget, At, dir
  <2>4. CASE BeginRebuild
    BY <2>4, <1>t, <1>c, <1>g DEF BeginRebuild, dir
  <2>5. CASE EndRebuild
    <3>1. PICK root \in Embeds :
            kernel' = [kernel EXCEPT !.build = {[cfg |-> kernel.cfg, root |-> root]},
                                     !.image = {[cfg |-> kernel.cfg, root |-> root]},
                                     !.data = {root}]
      BY <2>5, Zenon DEF EndRebuild
    <3>2. kernel' \in [cfg : 1..MaxRev, build : SUBSET Kernel, data : SUBSET SUBSET Content,
                       image : SUBSET Kernel, opkg : SUBSET Kernel]
      <4>1. {[cfg |-> kernel.cfg, root |-> root]} \in SUBSET Kernel BY <1>k
      <4>2. {root} \in SUBSET SUBSET Content BY <1>r
      <4> QED BY <3>1, <4>1, <4>2, KernelRecord
    <3> QED BY <3>2, <2>5, <1>t, <1>c, <1>d DEF EndRebuild, At, dir
  <2> QED BY <1>6, <2>1, <2>2, <2>3, <2>4, <2>5 DEF ImageStep
<1>7. CASE MakeStep
  <2>1. CASE NextStage
    <3>1. stage' \in Stage BY <2>1, AfterType DEF NextStage
    <3>2. nth' \in 1..(Len(Items(stage')) + 1) BY <2>1, <3>1, ItemsDomain DEF NextStage
    <3> QED BY <3>1, <3>2, <2>1, <1>t, <1>c DEF NextStage, dir
  <2>2. CASE Succeeds BY <2>2, <1>t, <1>c DEF Succeeds, dir
  <2>3. CASE HasStamp BY <2>3, <1>t, <1>c, <1>d DEF HasStamp, dir
  <2> QED BY <1>7, <2>1, <2>2, <2>3 DEF MakeStep
<1>8. CASE Stops
  <2>1. nth' \in 1..(Len(Items(stage')) + 1) BY <1>8, ItemsDomain DEF Stops, Stage
  <2> QED BY <2>1, <1>8, <1>t, <1>c DEF Stops, dir, Stage
<1>9. CASE UserStep
  <2>1. ASSUME NEW goal \in {"world", "menuconfig"}, RunMake(goal) PROVE TypeOK'
    <3>1. nth' \in 1..(Len(Items(stage')) + 1) BY <2>1, ItemsDomain DEF RunMake, Stage
    <3> QED BY <3>1, <2>1, <1>t, <1>c DEF RunMake, dir, Stage
  <2>2. ASSUME NEW p \in Pkg, Change(p) PROVE TypeOK'
    <3>1. want' \in [Comp -> 1..MaxRev]
      <4>1. want[p] \in 1..MaxRev /\ want[p] < MaxRev BY <2>2, PkgComp DEF Change
      <4>2. want[p] + 1 \in 1..MaxRev BY <4>1, WorldAssumption
      <4> QED BY <4>2, <2>2, PkgComp DEF Change
    <3> QED BY <3>1, <2>2, <1>t, <1>c DEF Change, dir, pc
  <2> QED BY <1>9, <2>1, <2>2 DEF UserStep
<1>10. CASE UNCHANGED vars BY <1>10, <1>t, <1>c DEF vars
<1> QED BY <1>1, <1>2, <1>3, <1>4, <1>5, <1>6, <1>7, <1>8, <1>9, <1>10 DEF Next

(* Spec keeps the types: in particular make is always at a target of its   *)
(* stage or just behind the last.                                          *)
THEOREM WorldTypes == Spec => []TypeOK
BY InitType, NextType, PTL DEF Spec
-----------------------------------------------------------------------------
(* The invariant behind OnlyFinished.                                      *)

(* The stages of make world and of make linux-menuconfig are their own.    *)
Stages == /\ stage \in {"packages", "linux", "finish", "images"} => run = "world"
          /\ stage = "menu" => run = "menuconfig"
          /\ run = "none" => stage = "end"

(* What has a stamp is installed.                                          *)
Installed == /\ \A p \in Pkg \cap stamp : Holds(tree, p, 1)
             /\ "target" \in stamp => Holds(tree, "linux", 1)

(* What make has left behind has a stamp.                                  *)
PackagesBehind ==
    /\ stage = "packages" => \A i \in 1..(nth - 1) : Packages[i] \in stamp
    /\ stage \in {"linux", "finish", "images"} => Pkg \subseteq stamp

LinuxBehind ==
    /\ stage = "linux" => \A i \in 1..(nth - 1) : KernelStep[i] \in stamp
    /\ stage \in {"finish", "images"} => {"built", "target", "images"} \subseteq stamp

FinishBehind ==
    /\ stage = "finish" => \A i \in 1..(nth - 1) : Finishing[i] \in fin
    /\ stage = "images" => Elements(Finishing) \subseteq fin

Inv == Stages /\ Installed /\ PackagesBehind /\ LinuxBehind /\ FinishBehind /\ OnlyFinished

LEMMA TypeFacts ==
    ASSUME TypeOK
    PROVE  /\ tree \in [Comp -> Torn..MaxRev] /\ fin \subseteq Elements(Finishing)
           /\ nth \in Nat /\ stage \in Stage
           /\ nth \in DOMAIN Items(stage) => nth \in 1..Len(Items(stage))
<1>1. Len(Items(stage)) \in Nat /\ DOMAIN Items(stage) = 1..Len(Items(stage))
  BY ItemsDomain DEF TypeOK
<1> QED BY <1>1 DEF TypeOK, Target, Content

LEMMA Names ==
    /\ "linux" \notin Pkg /\ "root" \notin Pkg /\ "patched" \notin Pkg /\ "configured" \notin Pkg /\ "built" \notin Pkg
    /\ "target" \notin Pkg /\ "images" \notin Pkg /\ "opkg" \notin Pkg
BY WorldAssumption

(* Where the kernel's stamps are among its steps.                          *)
LEMMA KernelSteps ==
    /\ {3, 4, 5} \subseteq 1..Len(KernelStep)
    /\ KernelStep[3] = "built" /\ KernelStep[4] = "target" /\ KernelStep[5] = "images"
    /\ \A i \in DOMAIN KernelStep : KernelStep[i] = "target" => i = 4
    /\ \A i \in DOMAIN KernelStep : KernelStep[i] = "images" => i = 5
<1>1. CASE Opkg BY <1>1 DEF KernelStep
<1>2. CASE ~Opkg BY <1>2 DEF KernelStep
<1> QED BY <1>1, <1>2

(* A target that is only begun leaves what is behind it alone.             *)
LEMMA GoesBehind ==
    ASSUME Stages, PackagesBehind, LinuxBehind, FinishBehind, NEW a, Goes(a), stamp' = stamp,
           fin' = fin \/ stage \notin {"finish", "images"}
    PROVE  Stages' /\ PackagesBehind' /\ LinuxBehind' /\ FinishBehind'
<1>1. run' = run /\ stage' = stage /\ nth' = nth BY DEF Goes
<1>2. Stages' BY <1>1 DEF Stages
<1>3. PackagesBehind' BY <1>1 DEF PackagesBehind
<1>4. LinuxBehind' BY <1>1 DEF LinuxBehind
<1>5. FinishBehind' BY <1>1 DEF FinishBehind
<1> QED BY <1>2, <1>3, <1>4, <1>5

(* A target that is done and has its stamp is rightly left behind.         *)
LEMMA DoneBehind ==
    ASSUME TypeOK, Stages, PackagesBehind, LinuxBehind, FinishBehind, Done,
           nth \in DOMAIN Items(stage), stamp \subseteq stamp', fin' = fin,
           stage # "finish",
           stage = "images" \/ Items(stage)[nth] \in stamp'
    PROVE  Stages' /\ PackagesBehind' /\ LinuxBehind' /\ FinishBehind'
<1>1. run' = run /\ stage' = stage /\ nth' = nth + 1 /\ nth \in Nat
  BY TypeFacts DEF Done
<1>2. Stages' BY <1>1 DEF Stages
<1>3. PackagesBehind'
  <2>1. CASE stage = "packages"
    <3>1. Packages[nth] \in stamp' BY <2>1 DEF Items
    <3>2. \A i \in 1..(nth - 1) : Packages[i] \in stamp' BY <2>1 DEF PackagesBehind
    <3>3. \A i \in 1..nth : Packages[i] \in stamp' BY <3>1, <3>2, <1>1
    <3> QED BY <3>3, <2>1, <1>1 DEF PackagesBehind
  <2>2. CASE stage # "packages" BY <2>2, <1>1 DEF PackagesBehind
  <2> QED BY <2>1, <2>2
<1>4. LinuxBehind'
  <2>1. CASE stage = "linux"
    <3>1. KernelStep[nth] \in stamp' BY <2>1 DEF Items
    <3>2. \A i \in 1..(nth - 1) : KernelStep[i] \in stamp' BY <2>1 DEF LinuxBehind
    <3>3. \A i \in 1..nth : KernelStep[i] \in stamp' BY <3>1, <3>2, <1>1
    <3> QED BY <3>3, <2>1, <1>1 DEF LinuxBehind
  <2>2. CASE stage # "linux" BY <2>2, <1>1 DEF LinuxBehind
  <2> QED BY <2>1, <2>2
<1>5. FinishBehind' BY <1>1 DEF FinishBehind
<1> QED BY <1>2, <1>3, <1>4, <1>5

(* Stages without obligations of their own: menuconfig and the ends.       *)
LEMMA ElsewhereBehind ==
    ASSUME stage' \notin {"packages", "linux", "finish", "images"}
    PROVE  PackagesBehind' /\ LinuxBehind' /\ FinishBehind'
BY DEF PackagesBehind, LinuxBehind, FinishBehind

(* Between two stages of make world.                                       *)
LEMMA NextStageBehind ==
    ASSUME TypeOK, Stages, PackagesBehind, LinuxBehind, FinishBehind, NextStage
    PROVE  Stages' /\ PackagesBehind' /\ LinuxBehind' /\ FinishBehind'
<1> USE DEF NextStage
<1>0. stage \in Stage /\ nth' = 1 /\ stage' = After(stage) /\ run' = run
      /\ stamp' = stamp /\ fin' = fin /\ nth - 1 = Len(Items(stage))
  <2>1. Len(Items(stage)) \in Nat BY ItemsDomain, TypeFacts
  <2> QED BY <2>1, TypeFacts DEF dir
<1>1. CASE stage = "dirs"
  <2>1. stage' \in {"menu", "packages"} /\ (stage' = "menu" <=> run = "menuconfig")
    BY <1>0, <1>1 DEF After
  <2>2. run' \in {"world", "menuconfig"} BY <1>0 DEF TypeOK
  <2>3. Stages' BY <2>1, <2>2, <1>0 DEF Stages
  <2>4. PackagesBehind' /\ LinuxBehind' /\ FinishBehind'
    BY <2>1, <1>0 DEF PackagesBehind, LinuxBehind, FinishBehind
  <2> QED BY <2>3, <2>4
<1>2. CASE stage = "packages"
  <2>1. stage' = "linux" BY <1>0, <1>2 DEF After
  <2>2. Items(stage) = Packages BY <1>2 DEF Items
  <2>3. \A i \in DOMAIN Packages : Packages[i] \in stamp
    BY <2>2, <1>0, <1>2, ItemsDomain DEF PackagesBehind
  <2>4. Pkg \subseteq stamp BY <2>3 DEF Pkg, Elements
  <2> QED BY <2>1, <2>4, <1>0, <1>2 DEF Stages, PackagesBehind, LinuxBehind, FinishBehind
<1>3. CASE stage = "linux"
  <2>1. stage' = "finish" BY <1>0, <1>3 DEF After
  <2>2. Items(stage) = KernelStep BY <1>3 DEF Items
  <2>3. {"built", "target", "images"} \subseteq stamp
    BY <2>2, KernelSteps, <1>0, <1>3 DEF LinuxBehind
  <2> QED BY <2>1, <2>3, <1>0, <1>3 DEF Stages, PackagesBehind, LinuxBehind, FinishBehind
<1>4. CASE stage = "finish"
  <2>1. stage' = "images" BY <1>0, <1>4 DEF After
  <2>2. Items(stage) = Finishing BY <1>4 DEF Items
  <2>3. \A i \in DOMAIN Finishing : Finishing[i] \in fin
    BY <2>2, <1>0, <1>4, ItemsDomain DEF FinishBehind
  <2>4. Elements(Finishing) \subseteq fin BY <2>3 DEF Elements
  <2> QED BY <2>1, <2>4, <1>0, <1>4 DEF Stages, PackagesBehind, LinuxBehind, FinishBehind
<1>5. CASE stage \in {"images", "menu", "end"}
  <2>1. stage' = "end" BY <1>0, <1>5 DEF After
  <2> QED BY <2>1, <1>0, ElsewhereBehind DEF Stages
<1> QED BY <1>0, <1>1, <1>2, <1>3, <1>4, <1>5 DEF Stage
-----------------------------------------------------------------------------
Behind == Stages /\ PackagesBehind /\ LinuxBehind /\ FinishBehind

LEMMA InitInv == Init => Inv
<1> SUFFICES ASSUME Init PROVE Inv OBVIOUS
<1>1. Stages /\ PackagesBehind /\ LinuxBehind /\ FinishBehind
  BY DEF Init, Stages, PackagesBehind, LinuxBehind, FinishBehind
<1>2. Installed BY DEF Init, Installed
<1>3. OnlyFinished BY DEF Init, OnlyFinished
<1> QED BY <1>1, <1>2, <1>3 DEF Inv

(* Make is where its stages say.                                           *)
LEMMA NextBehind ==
    ASSUME TypeOK, Behind, [Next]_vars PROVE Behind'
<1> USE DEF Behind
<1>1. CASE DirsStep
  <2>1. CASE BeginSkeleton BY <2>1, GoesBehind DEF BeginSkeleton
  <2>2. CASE EndSkeleton
    <3>1. Items(stage)[nth] \in stamp' /\ nth \in DOMAIN Items(stage) /\ stage = "dirs"
      BY <2>2 DEF EndSkeleton, At
    <3> QED BY <3>1, <2>2, DoneBehind DEF EndSkeleton
  <2>3. CASE NoSkeleton
    <3>1. Items(stage)[nth] \in stamp' /\ nth \in DOMAIN Items(stage) /\ stage = "dirs"
      BY <2>3 DEF NoSkeleton, At
    <3> QED BY <3>1, <2>3, DoneBehind DEF NoSkeleton, dir
  <2> QED BY <1>1, <2>1, <2>2, <2>3 DEF DirsStep
<1>2. CASE PackageStep
  <2>1. ASSUME NEW p \in Pkg, BeginPackage(p) PROVE Behind'
    <3>1. stage = "packages" BY <2>1 DEF BeginPackage, At
    <3> QED BY <3>1, <2>1, GoesBehind DEF BeginPackage
  <2>2. ASSUME NEW p \in Pkg, EndPackage(p) PROVE Behind'
    <3>1. Items(stage)[nth] \in stamp' /\ nth \in DOMAIN Items(stage) /\ stage = "packages"
      BY <2>2 DEF EndPackage, At
    <3> QED BY <3>1, <2>2, DoneBehind DEF EndPackage
  <2> QED BY <1>2, <2>1, <2>2 DEF PackageStep
<1>3. CASE LinuxStep
  <2>1. ASSUME NEW s, Begins(s) PROVE Behind'
    <3>1. stage \in {"linux", "menu"} /\ Goes("begun") /\ stamp' = stamp BY <2>1 DEF Begins, At
    <3> QED BY <3>1, GoesBehind
  <2>2. ASSUME NEW s, Ends(s) PROVE Behind'
    <3>1. Items(stage)[nth] \in stamp' /\ nth \in DOMAIN Items(stage)
          /\ stage \in {"linux", "menu"} /\ Done /\ fin' = fin /\ stamp \subseteq stamp'
      BY <2>2 DEF Ends, At
    <3> QED BY <3>1, DoneBehind
  <2> QED BY <1>3, <2>1, <2>2
       DEF LinuxStep, BeginPatch, EndPatch, BeginConfigure, EndConfigure, BeginBuild, EndBuild, BeginModules,
           EndModules, BeginCopy, EndCopy, BeginOpkg, EndOpkg
<1>4. CASE MenuStep
  <2>1. run' = run /\ stage' = "menu" /\ stage = "menu"
    BY <1>4 DEF MenuStep, Menuconfig, RemoveStamps, At, Goes
  <2> QED BY <2>1, ElsewhereBehind DEF Stages
<1>5. CASE FinishStep
  <2>1. PICK x \in Elements(Finishing) : Finalize(x) BY <1>5 DEF FinishStep
  <2>2. /\ stage = "finish" /\ stage' = stage /\ run' = run /\ nth' = nth + 1 /\ nth \in Nat
        /\ stamp' = stamp /\ fin' = fin \cup {x} /\ x = Items(stage)[nth]
    BY <2>1, TypeFacts DEF Finalize, At, Done
  <2>3. Finishing[nth] = x BY <2>2 DEF Items
  <2>4. \A i \in 1..nth : Finishing[i] \in fin' BY <2>2, <2>3 DEF FinishBehind
  <2> QED BY <2>2, <2>4 DEF Stages, PackagesBehind, LinuxBehind, FinishBehind
<1>6. CASE ImageStep
  <2>1. ASSUME NEW f \in Image, BeginImage(f) PROVE Behind'
    BY <2>1, GoesBehind DEF BeginImage
  <2>2. ASSUME NEW f \in Image, EndImage(f) PROVE Behind'
    BY <2>2, GoesBehind DEF EndImage, dir
  <2>3. ASSUME NEW f \in Image, NoPostTarget(f) PROVE Behind'
    BY <2>3, DoneBehind DEF NoPostTarget, At, dir
  <2>4. CASE BeginRebuild
    BY <2>4, GoesBehind DEF BeginRebuild, dir
  <2>5. CASE EndRebuild
    BY <2>5, DoneBehind DEF EndRebuild, At, dir
  <2> QED BY <1>6, <2>1, <2>2, <2>3, <2>4, <2>5 DEF ImageStep
<1>7. CASE MakeStep
  <2>1. CASE NextStage BY <2>1, NextStageBehind
  <2>2. CASE Succeeds
    <3>1. stage' = "end" BY <2>2 DEF Succeeds
    <3> QED BY <3>1, ElsewhereBehind DEF Stages
  <2>3. CASE HasStamp BY <2>3, DoneBehind DEF HasStamp, dir
  <2> QED BY <1>7, <2>1, <2>2, <2>3 DEF MakeStep
<1>8. CASE Stops
  <2>1. stage' = "end" BY <1>8 DEF Stops
  <2> QED BY <2>1, ElsewhereBehind DEF Stages
<1>9. CASE UserStep
  <2>1. ASSUME NEW goal \in {"world", "menuconfig"}, RunMake(goal) PROVE Behind'
    <3>1. stage' = "dirs" /\ run' # "none" BY <2>1 DEF RunMake
    <3> QED BY <3>1, ElsewhereBehind DEF Stages
  <2>2. ASSUME NEW p \in Pkg, Change(p) PROVE Behind'
    <3>1. stage' = "end" BY <2>2 DEF Change, pc, Stages
    <3> QED BY <3>1, ElsewhereBehind DEF Stages
  <2> QED BY <1>9, <2>1, <2>2 DEF UserStep
<1>10. CASE UNCHANGED vars
  BY <1>10 DEF vars, Stages, PackagesBehind, LinuxBehind, FinishBehind
<1> QED BY <1>1, <1>2, <1>3, <1>4, <1>5, <1>6, <1>7, <1>8, <1>9, <1>10 DEF Next

(* Stamps stand for what is installed.                                     *)
LEMMA NextInstalled ==
    ASSUME TypeOK, Installed, [Next]_vars PROVE Installed'
<1> USE DEF Installed, Holds
<1>t. tree \in [Comp -> Torn..MaxRev] /\ Pkg \subseteq Comp /\ "linux" \in Comp
  BY TypeFacts, PkgComp
<1>1. ASSUME tree' = tree, stamp' \subseteq stamp PROVE Installed' BY <1>1
<1>2. ASSUME tree' = tree, NEW s \in {"root", "patched", "configured", "built", "images", "opkg"},
             stamp' = stamp \cup {s}
      PROVE Installed'
  BY <1>2, Names
<1>3. CASE DirsStep
  BY <1>3, <1>1, <1>2 DEF DirsStep, BeginSkeleton, EndSkeleton, NoSkeleton, dir
<1>4. CASE PackageStep
  <2>1. ASSUME NEW p \in Pkg, BeginPackage(p) PROVE Installed'
    BY <2>1, <1>t, Names DEF BeginPackage
  <2>2. ASSUME NEW p \in Pkg, EndPackage(p) PROVE Installed'
    <3>1. want[p] \in 1..MaxRev BY <1>t DEF TypeOK
    <3> QED BY <3>1, <2>2, <1>t, Names DEF EndPackage
  <2> QED BY <1>4, <2>1, <2>2 DEF PackageStep
<1>5. CASE LinuxStep
  <2>1. CASE BeginPatch \/ BeginConfigure \/ BeginBuild \/ BeginCopy \/ BeginOpkg
    BY <2>1, <1>1 DEF BeginPatch, BeginConfigure, BeginBuild, BeginCopy, BeginOpkg, Begins
  <2>2. CASE EndPatch \/ EndConfigure \/ EndBuild \/ EndCopy \/ EndOpkg
    BY <2>2, <1>2 DEF EndPatch, EndConfigure, EndBuild, EndCopy, EndOpkg, Ends
  <2>3. CASE BeginModules
    BY <2>3, <1>t, Names DEF BeginModules, Begins
  <2>4. CASE EndModules
    <3>1. stamp' = stamp \cup {"target"} BY <2>4 DEF EndModules, Ends
    <3>2. ASSUME NEW k \in kernel.build, tree' = [tree EXCEPT !["linux"] = k.cfg]
          PROVE  Installed'
      <4>1. k.cfg \in 1..MaxRev BY DEF TypeOK, Kernel
      <4> QED BY <3>1, <3>2, <4>1, <1>t, Names
    <3>3. CASE "modules_install" \in Faults /\ tree' = [tree EXCEPT !["linux"] = Torn]
      BY <3>1, <3>3, <1>t, Names
    <3> QED BY <2>4, <3>2, <3>3 DEF EndModules
  <2> QED BY <1>5, <2>1, <2>2, <2>3, <2>4 DEF LinuxStep
<1>6. CASE MenuStep
  BY <1>6, <1>1 DEF MenuStep, Menuconfig, RemoveStamps, dir
<1>7. CASE FinishStep
  BY <1>7, <1>1 DEF FinishStep, Finalize
<1>8. CASE ImageStep
  BY <1>8, <1>1
  DEF ImageStep, BeginImage, EndImage, NoPostTarget, BeginRebuild, EndRebuild, dir
<1>9. CASE MakeStep \/ Stops
  BY <1>9, <1>1 DEF MakeStep, NextStage, Succeeds, HasStamp, Stops, dir
<1>10. CASE UserStep
  BY <1>10, <1>1 DEF UserStep, RunMake, Change, dir
<1>11. CASE UNCHANGED vars BY <1>11, <1>1 DEF vars
<1> QED BY <1>3, <1>4, <1>5, <1>6, <1>7, <1>8, <1>9, <1>10, <1>11 DEF Next

(* Only a finished target directory is put into an image.                  *)
LEMMA NextFinished ==
    ASSUME TypeOK, Behind, Installed, OnlyFinished, [Next]_vars PROVE OnlyFinished'
<1>1. ASSUME img' = img PROVE OnlyFinished' BY <1>1 DEF OnlyFinished
<1>2. ASSUME NEW f \in Image, BeginImage(f) PROVE OnlyFinished'
  BY <1>2 DEF BeginImage, OnlyFinished, TypeOK
<1>3. ASSUME NEW f \in Image, EndImage(f) PROVE OnlyFinished'
  <2>1. stage = "images" BY <1>3 DEF EndImage, At
  <2>2. \A c \in Comp : Holds(tree, c, 1)
    BY <2>1 DEF Behind, PackagesBehind, LinuxBehind, Installed, Comp
  <2>3. fin = Elements(Finishing) BY <2>1, TypeFacts DEF Behind, FinishBehind
  <2>4. Target.tree = tree /\ Target.fin = fin BY DEF Target
  <2>5. img' = [img EXCEPT ![f] = {Target}] BY <1>3 DEF EndImage
  <2>6. \A g \in Image : \A t \in img'[g] : t = Target \/ t \in img[g]
    BY <2>5 DEF TypeOK
  <2> QED BY <2>2, <2>3, <2>4, <2>6 DEF OnlyFinished
<1>4. CASE ~ImageStep /\ Next
  BY <1>4, <1>1
  DEF Next, DirsStep, BeginSkeleton, EndSkeleton, NoSkeleton, PackageStep, BeginPackage,
      EndPackage, LinuxStep, BeginPatch, EndPatch, BeginConfigure, EndConfigure, BeginBuild, EndBuild, BeginModules,
      EndModules, BeginCopy, EndCopy, BeginOpkg, EndOpkg, Begins, Ends, MenuStep, Menuconfig,
      RemoveStamps, FinishStep, Finalize, MakeStep, NextStage, Succeeds, HasStamp, Stops,
      UserStep, RunMake, Change
<1>5. CASE ImageStep
  BY <1>5, <1>1, <1>2, <1>3 DEF ImageStep, NoPostTarget, BeginRebuild, EndRebuild
<1>6. CASE UNCHANGED vars BY <1>6, <1>1 DEF vars
<1> QED BY <1>4, <1>5, <1>6

(* Spec keeps every image that is whole, in every make, completed or not,  *)
(* one of a finished target directory.                                     *)
THEOREM ImagesAreFinished == Spec => []OnlyFinished
<1>1. TypeOK /\ Inv /\ [Next]_vars => Inv'
  BY NextBehind, NextInstalled, NextFinished DEF Inv, Behind
<1>2. Inv => OnlyFinished BY DEF Inv
<1> QED BY <1>1, <1>2, InitInv, WorldTypes, PTL DEF Spec
-----------------------------------------------------------------------------
(* The invariant behind ResultsCurrent.                                    *)

(* Image f is there and holds every component in the revision due.         *)
Current(f) == img[f] # {} /\ \A t \in img[f], c \in Comp : Holds(t.tree, c, Due(c))

(* What has a stamp, and the kernels that are there with theirs, are in    *)
(* the revision that is due, or a later one.                               *)
StampsCurrent ==
    /\ \A p \in Pkg \cap stamp : Holds(tree, p, want[p])
    /\ "target" \in stamp => Holds(tree, "linux", Due("linux"))
    /\ kernel.cfg = want["linux"]
    /\ "built" \in stamp => \A k \in kernel.build : k.cfg >= Due("linux")
    /\ "images" \in stamp => \A k \in kernel.image : k.cfg >= Due("linux")

(* Only the rebuild for an initramfs takes a kernel with a stamp away.     *)
KernelsThere ==
    "initramfs" \notin Image => /\ "built" \in stamp => kernel.build # {}
                                /\ "images" \in stamp => kernel.image # {}

(* The kernel in the images directory is of the last .config and embeds    *)
(* the initramfs that is there.                                            *)
Embedded == /\ kernel.image # {}
            /\ \A k \in kernel.image :
                  k.cfg >= want["linux"] /\ k.root # {} /\ k.root = img["initramfs"]

(* An image that is left behind, or whose kernel is being rebuilt, is made *)
(* of what is installed; the kernel is rebuilt from nothing.               *)
ImagesBehind ==
    /\ stage = "images" => \A i \in 1..(nth - 1) :
           Current(Fs[i]) /\ (Fs[i] = "initramfs" => Embedded)
    /\ at \in {"made", "rebuilding"} =>
           stage = "images" /\ nth \in DOMAIN Fs /\ Current(Fs[nth])
    /\ at = "rebuilding" => kernel.data = {}

Complete == /\ "images" \in stamp
            /\ \A f \in Image : Current(f)
            /\ "initramfs" \in Image => Embedded

(* make world comes to its end, and stays there, with all it has to make.  *)
WorldDone ==
    /\ run = "world" /\ stage = "end" => Complete
    /\ made => Complete /\ run = "none"

CurrentInv == StampsCurrent /\ KernelsThere /\ ImagesBehind /\ WorldDone

LEMMA InitCurrent == TypeOK /\ Init => CurrentInv
<1> SUFFICES ASSUME TypeOK, Init PROVE CurrentInv OBVIOUS
<1>1. StampsCurrent BY PkgComp, Names DEF Init, StampsCurrent
<1>2. KernelsThere /\ ImagesBehind /\ WorldDone
  BY DEF Init, KernelsThere, ImagesBehind, WorldDone
<1> QED BY <1>1, <1>2 DEF CurrentInv

(* What is due changes with what the user wants or has saved only.         *)
LEMMA DueKept == ASSUME want' = want, saved' = saved PROVE \A c : Due(c)' = Due(c)
BY DEF Due

(* The kernel is built when its modules are installed and it is copied.    *)
LEMMA KernelBuilt ==
    ASSUME TypeOK, Behind, NEW s \in {"target", "images"}, Ends(s)
    PROVE  "built" \in stamp
<1>1. stage \in {"linux", "menu"} /\ nth \in DOMAIN Items(stage) /\ s = Items(stage)[nth]
  BY DEF Ends, At
<1>2. stage = "linux"
  <2>1. CASE stage = "menu"
    <3>1. Items(stage) = <<"configured", "linux-menuconfig">> BY <2>1 DEF Items
    <3>2. nth \in 1..2 BY <3>1, <1>1
    <3> QED BY <3>1, <3>2, <1>1
  <2> QED BY <2>1, <1>1
<1>3. Items(stage) = KernelStep BY <1>2 DEF Items
<1>4. nth \in {4, 5} BY <1>1, <1>3, KernelSteps
<1>5. 3 \in 1..(nth - 1) BY <1>4
<1> QED BY <1>2, <1>5, KernelSteps DEF Behind, LinuxBehind

(* The stamps of the kernel and its parts, whatever a step does to others. *)
LEMMA NextStampsCurrent ==
    ASSUME TypeOK, Behind, StampsCurrent, [Next]_vars PROVE StampsCurrent'
<1> USE DEF StampsCurrent, Holds, Due
<1>t. /\ tree \in [Comp -> Torn..MaxRev] /\ Pkg \subseteq Comp /\ "linux" \in Comp
      /\ want \in [Comp -> 1..MaxRev] /\ kernel.cfg \in 1..MaxRev
  BY TypeFacts, PkgComp DEF TypeOK
<1>b. \A k \in kernel.build \cup kernel.image : k.cfg \in 1..MaxRev
  BY DEF TypeOK, Kernel
<1>d. want["linux"] >= Due("linux") /\ kernel.cfg >= Due("linux")
  BY <1>t, WorldAssumption
<1>1. ASSUME tree' = tree, want' = want, saved' = saved, kernel' = kernel,
             stamp' \subseteq stamp
      PROVE  StampsCurrent'
  BY <1>1
<1>2. ASSUME tree' = tree, want' = want, saved' = saved, kernel' = kernel,
             NEW s \in {"root", "patched", "configured", "opkg"}, stamp' = stamp \cup {s}
      PROVE  StampsCurrent'
  BY <1>2, Names
<1>3. CASE DirsStep
  BY <1>3, <1>1, <1>2
  DEF DirsStep, BeginSkeleton, EndSkeleton, NoSkeleton, dir, Goes, Done
<1>4. CASE PackageStep
  <2>1. ASSUME NEW p \in Pkg, BeginPackage(p) PROVE StampsCurrent'
    BY <2>1, <1>t, Names DEF BeginPackage, Goes
  <2>2. ASSUME NEW p \in Pkg, EndPackage(p) PROVE StampsCurrent'
    <3>1. /\ tree' = [tree EXCEPT ![p] = want[p]] /\ stamp' = stamp \cup {p}
          /\ want' = want /\ saved' = saved /\ kernel' = kernel
      BY <2>2 DEF EndPackage, Done
    <3>2. want[p] \in want[p]..MaxRev BY <1>t
    <3> QED BY <3>1, <3>2, <1>t, Names
  <2> QED BY <1>4, <2>1, <2>2 DEF PackageStep
<1>5. CASE LinuxStep
  <2>1. CASE BeginPatch \/ BeginConfigure
    BY <2>1, <1>1 DEF BeginPatch, BeginConfigure, Begins, Goes
  <2>2. CASE EndPatch \/ EndConfigure
    BY <2>2, <1>2 DEF EndPatch, EndConfigure, Ends, Done
  <2>3. CASE BeginBuild \/ BeginCopy \/ BeginOpkg
    BY <2>3 DEF BeginBuild, BeginCopy, BeginOpkg, Begins, Goes, TypeOK
  <2>4. CASE EndBuild
    <3>1. PICK root \in Embeds :
            kernel' = [kernel EXCEPT !.build = {[cfg |-> kernel.cfg, root |-> root]}, !.data = {root}]
      BY <2>4 DEF EndBuild
    <3>2. /\ kernel'.cfg = kernel.cfg /\ kernel'.image = kernel.image
          /\ \A k \in kernel'.build : k.cfg = kernel.cfg
      BY <3>1 DEF TypeOK
    <3>3. tree' = tree /\ want' = want /\ saved' = saved /\ stamp' = stamp \cup {"built"}
      BY <2>4 DEF EndBuild, Ends, Done
    <3> QED BY <3>2, <3>3, <1>d, Names
  <2>5. CASE BeginModules
    BY <2>5, <1>t, Names DEF BeginModules, Begins, Goes
  <2>6. CASE EndModules
    <3>1. "built" \in stamp BY <2>6, KernelBuilt DEF EndModules
    <3>2. stamp' = stamp \cup {"target"} /\ want' = want /\ saved' = saved /\ kernel' = kernel
      BY <2>6 DEF EndModules, Ends, Done
    <3>3. ASSUME NEW k \in kernel.build, tree' = [tree EXCEPT !["linux"] = k.cfg]
          PROVE  StampsCurrent'
      <4>1. k.cfg \in Due("linux")..MaxRev BY <3>1, <1>b, <1>d, <1>t, WorldAssumption
      <4> QED BY <3>2, <3>3, <4>1, <1>t, Names
    <3>4. CASE "modules_install" \in Faults /\ tree' = [tree EXCEPT !["linux"] = Torn]
      BY <3>2, <3>4, <1>t, Names
    <3> QED BY <2>6, <3>3, <3>4 DEF EndModules
  <2>7. CASE EndCopy
    <3>1. "built" \in stamp BY <2>7, KernelBuilt DEF EndCopy
    <3>2. /\ kernel'.cfg = kernel.cfg /\ kernel'.build = kernel.build
          /\ kernel'.image = kernel.build
      BY <2>7 DEF EndCopy, TypeOK
    <3>3. tree' = tree /\ want' = want /\ saved' = saved /\ stamp' = stamp \cup {"images"}
      BY <2>7 DEF EndCopy, Ends, Done
    <3> QED BY <3>1, <3>2, <3>3, Names
  <2>8. CASE EndOpkg
    <3>1. /\ kernel'.cfg = kernel.cfg /\ kernel'.build = kernel.build
          /\ kernel'.image = kernel.image
      BY <2>8 DEF EndOpkg, TypeOK
    <3>2. tree' = tree /\ want' = want /\ saved' = saved /\ stamp' = stamp \cup {"opkg"}
      BY <2>8 DEF EndOpkg, Ends, Done
    <3> QED BY <3>1, <3>2, Names
  <2> QED BY <1>5, <2>1, <2>2, <2>3, <2>4, <2>5, <2>6, <2>7, <2>8 DEF LinuxStep
<1>6. CASE MenuStep
  <2>1. CASE Menuconfig
    <3>1. PICK cfg \in {kernel.cfg, kernel.cfg + 1} :
             /\ kernel' = [kernel EXCEPT !.cfg = cfg]
             /\ want' = [want EXCEPT !["linux"] = cfg]
             /\ saved' = (saved \/ (cfg # kernel.cfg /\ stamp \cap OfConfig # {}))
      BY <2>1 DEF Menuconfig
    <3>2. /\ kernel'.cfg = cfg /\ kernel'.build = kernel.build /\ kernel'.image = kernel.image
          /\ want'["linux"] = cfg /\ cfg \in Nat
          /\ \A p \in Pkg : want'[p] = want[p]
      BY <3>1, <1>t, Names DEF TypeOK
    <3>3. tree' = tree /\ stamp' = stamp
      BY <2>1 DEF Menuconfig, dir
    <3>4. Due("linux") \in 1..MaxRev
      BY <1>t, WorldAssumption
    <3>5. CASE saved'
      <4>1. Due("linux")' = 1 BY <3>5
      <4>2. "target" \in stamp => Holds(tree, "linux", 1) BY <3>4, <1>t
      <4>3. /\ "built" \in stamp => \A k \in kernel.build : k.cfg >= 1
            /\ "images" \in stamp => \A k \in kernel.image : k.cfg >= 1
        BY <1>b
      <4> QED BY <3>2, <3>3, <3>5, <4>2, <4>3, Names
    <3>6. CASE ~saved' /\ cfg # kernel.cfg
      <4>1. stamp \cap OfConfig = {} BY <3>1, <3>6
      <4> QED BY <3>2, <3>3, <4>1, Names DEF OfConfig
    <3>7. CASE ~saved' /\ cfg = kernel.cfg
      <4>1. ~saved BY <3>1, <3>7
      <4>2. kernel.cfg = want["linux"] => want'["linux"] = want["linux"] BY <3>2, <3>7
      <4> QED BY <3>2, <3>3, <3>7, <4>1, <4>2, <1>t, Names
    <3> QED BY <3>5, <3>6, <3>7
  <2>2. CASE RemoveStamps
    <3>1. /\ stamp' = stamp \ OfConfig /\ tree' = tree
          /\ kernel' = kernel /\ want' = want
      BY <2>2 DEF RemoveStamps, dir
    <3> QED BY <3>1, <1>t, Names DEF OfConfig
  <2> QED BY <1>6, <2>1, <2>2 DEF MenuStep
<1>7. CASE FinishStep
  BY <1>7, <1>1 DEF FinishStep, Finalize, Done
<1>8. CASE ImageStep
  <2>1. CASE BeginRebuild
    <3>1. PICK image \in {{}, kernel.image} :
            kernel' = [kernel EXCEPT !.data = {}, !.build = {}, !.image = image]
      BY <2>1 DEF BeginRebuild
    <3>2. kernel'.cfg = kernel.cfg /\ kernel'.build = {} /\ kernel'.image \subseteq kernel.image
      BY <3>1 DEF TypeOK
    <3> QED BY <3>2, <2>1 DEF BeginRebuild, Goes, dir
  <2>2. CASE EndRebuild
    <3>1. PICK root \in Embeds :
            kernel' = [kernel EXCEPT !.build = {[cfg |-> kernel.cfg, root |-> root]},
                                     !.image = {[cfg |-> kernel.cfg, root |-> root]},
                                     !.data = {root}]
      BY <2>2, Zenon DEF EndRebuild
    <3>2. /\ kernel'.cfg = kernel.cfg
          /\ \A k \in kernel'.build \cup kernel'.image : k.cfg = kernel.cfg
      BY <3>1 DEF TypeOK
    <3>3. tree' = tree /\ want' = want /\ saved' = saved /\ stamp' = stamp
      BY <2>2 DEF EndRebuild, Done, dir
    <3> QED BY <3>2, <3>3, <1>d
  <2>3. CASE \E f \in Image : BeginImage(f) \/ EndImage(f) \/ NoPostTarget(f)
    BY <2>3, <1>1 DEF BeginImage, EndImage, NoPostTarget, Goes, Done, dir
  <2> QED BY <1>8, <2>1, <2>2, <2>3 DEF ImageStep
<1>9. CASE MakeStep \/ Stops
  BY <1>9, <1>1 DEF MakeStep, NextStage, Succeeds, HasStamp, Stops, Done, dir
<1>10. CASE UserStep
  <2>1. ASSUME NEW goal, RunMake(goal) PROVE StampsCurrent'
    BY <2>1, <1>1 DEF RunMake, dir
  <2>2. ASSUME NEW p \in Pkg, Change(p) PROVE StampsCurrent'
    <3>1. /\ stamp' = stamp \ {p} /\ tree' = tree /\ kernel' = kernel
          /\ want' = [want EXCEPT ![p] = want[p] + 1] /\ saved' = saved
      BY <2>2 DEF Change, dir
    <3> QED BY <3>1, <1>t, Names
  <2> QED BY <1>10, <2>1, <2>2 DEF UserStep
<1>11. CASE UNCHANGED vars BY <1>11, <1>1 DEF vars
<1> QED BY <1>3, <1>4, <1>5, <1>6, <1>7, <1>8, <1>9, <1>10, <1>11 DEF Next

(* Without an initramfs nothing takes away a kernel that has its stamp.    *)
LEMMA NextKernelsThere ==
    ASSUME TypeOK, Behind, KernelsThere, [Next]_vars PROVE KernelsThere'
<1> SUFFICES ASSUME "initramfs" \notin Image
             PROVE  /\ "built" \in stamp' => kernel'.build # {}
                    /\ "images" \in stamp' => kernel'.image # {}
  BY DEF KernelsThere, Image
<1>k. /\ "built" \in stamp => kernel.build # {}
      /\ "images" \in stamp => kernel.image # {}
  BY DEF KernelsThere
<1>1. ASSUME kernel' = kernel,
             stamp' \ stamp \subseteq Pkg \cup {"root", "patched", "configured", "target", "opkg"}
      PROVE  /\ "built" \in stamp' => kernel'.build # {}
             /\ "images" \in stamp' => kernel'.image # {}
  BY <1>1, <1>k, Names
<1>2. CASE DirsStep \/ PackageStep
  BY <1>2, <1>1
  DEF DirsStep, BeginSkeleton, EndSkeleton, NoSkeleton, PackageStep, BeginPackage, EndPackage
<1>3. CASE LinuxStep
  <2>1. CASE BeginPatch \/ BeginConfigure \/ BeginModules
    BY <2>1, <1>1 DEF BeginPatch, BeginConfigure, BeginModules, Begins
  <2>2. CASE EndPatch \/ EndConfigure \/ EndModules
    BY <2>2, <1>1 DEF EndPatch, EndConfigure, EndModules, Ends
  <2>3. CASE BeginBuild \/ BeginCopy \/ BeginOpkg
    BY <2>3, <1>k DEF BeginBuild, BeginCopy, BeginOpkg, Begins, TypeOK
  <2>4. CASE EndBuild
    <3>1. PICK root \in Embeds :
            kernel' = [kernel EXCEPT !.build = {[cfg |-> kernel.cfg, root |-> root]}, !.data = {root}]
      BY <2>4 DEF EndBuild
    <3>2. kernel'.image = kernel.image /\ kernel'.build # {} BY <3>1 DEF TypeOK
    <3> QED BY <3>2, <2>4, <1>k DEF EndBuild, Ends
  <2>5. CASE EndCopy
    <3>1. "built" \in stamp BY <2>5, KernelBuilt DEF EndCopy
    <3>2. kernel'.build = kernel.build /\ kernel'.image = kernel.build
      BY <2>5 DEF EndCopy, TypeOK
    <3> QED BY <3>1, <3>2, <1>k
  <2>6. CASE EndOpkg
    BY <2>6, <1>k DEF EndOpkg, Ends, TypeOK
  <2> QED BY <1>3, <2>1, <2>2, <2>3, <2>4, <2>5, <2>6 DEF LinuxStep
<1>4. CASE MenuStep
  <2>1. stamp' \subseteq stamp /\ kernel'.build = kernel.build /\ kernel'.image = kernel.image
    BY <1>4 DEF MenuStep, Menuconfig, RemoveStamps, TypeOK
  <2> QED BY <2>1, <1>k
<1>5. CASE ImageStep
  <2>1. CASE BeginRebuild \/ EndRebuild
    <3>1. stage = "images" /\ nth \in DOMAIN Items(stage) /\ "initramfs" = Items(stage)[nth]
      BY <2>1 DEF BeginRebuild, EndRebuild, At
    <3>2. "initramfs" \in Image BY <3>1 DEF Items, Image, Elements
    <3> QED BY <3>2
  <2>2. CASE \E f \in Image : BeginImage(f) \/ EndImage(f) \/ NoPostTarget(f)
    BY <2>2, <1>1 DEF BeginImage, EndImage, NoPostTarget
  <2> QED BY <1>5, <2>1, <2>2 DEF ImageStep
<1>6. CASE FinishStep \/ MakeStep \/ Stops \/ UserStep \/ UNCHANGED vars
  BY <1>6, <1>1
  DEF FinishStep, Finalize, MakeStep, NextStage, Succeeds, HasStamp, Stops, UserStep, RunMake,
      Change, vars
<1> QED BY <1>2, <1>3, <1>4, <1>5, <1>6 DEF Next

(* Only the steps of the images are taken among them.                      *)
LEMMA OtherSteps ==
    ASSUME TypeOK, Behind, ImagesBehind, Next, ~ImageStep, ~NextStage
    PROVE  stage' # "images" /\ at' \notin {"made", "rebuilding"}
<1>0. at \in {"made", "rebuilding"} => stage = "images" BY DEF ImagesBehind
<1>1. CASE DirsStep
  BY <1>1
  DEF DirsStep, BeginSkeleton, EndSkeleton, NoSkeleton, At, Goes, Done
<1>2. CASE PackageStep
  BY <1>2 DEF PackageStep, BeginPackage, EndPackage, At, Goes, Done
<1>3. CASE LinuxStep
  <2>1. ASSUME NEW s, Begins(s) \/ Ends(s)
        PROVE  stage' # "images" /\ at' \notin {"made", "rebuilding"}
    BY <2>1 DEF Begins, Ends, At, Goes, Done
  <2> QED BY <1>3, <2>1
       DEF LinuxStep, BeginPatch, EndPatch, BeginConfigure, EndConfigure, BeginBuild, EndBuild,
           BeginModules, EndModules, BeginCopy, EndCopy, BeginOpkg, EndOpkg
<1>4. CASE MenuStep
  BY <1>4 DEF MenuStep, Menuconfig, RemoveStamps, At, Goes
<1>5. CASE FinishStep
  BY <1>5 DEF FinishStep, Finalize, At, Done
<1>6. CASE MakeStep
  BY <1>6, <1>0 DEF MakeStep, Succeeds, HasStamp, Done
<1>7. CASE Stops BY <1>7 DEF Stops
<1>8. CASE UserStep
  BY <1>8, <1>0 DEF UserStep, RunMake, Change, pc, Behind, Stages
<1> QED BY <1>1, <1>2, <1>3, <1>4, <1>5, <1>6, <1>7, <1>8 DEF Next

(* At an image: which one it is, and that no earlier one is the same.      *)
LEMMA AtImage ==
    ASSUME TypeOK, NEW f, NEW a, At("images", f, a)
    PROVE  /\ stage = "images" /\ at = a /\ nth \in DOMAIN Fs /\ nth \in Nat \ {0}
           /\ f = Fs[nth] /\ f \in Image
           /\ \A i \in 1..(nth - 1) : i \in DOMAIN Fs /\ Fs[i] # f
<1>1. stage = "images" /\ at = a /\ nth \in DOMAIN Items("images") /\ f = Items("images")[nth]
  BY DEF At
<1>2. Items("images") = Fs BY DEF Items
<1>3. DOMAIN Fs = 1..Len(Fs) /\ Len(Fs) \in Nat BY WorldAssumption, SeqDomain, Zenon
<1>4. nth \in 1..Len(Fs) /\ f = Fs[nth] BY <1>1, <1>2, <1>3
<1>5. ASSUME NEW i \in 1..(nth - 1) PROVE i \in DOMAIN Fs /\ Fs[i] # f
  <2>1. i \in 1..Len(Fs) /\ i # nth BY <1>3, <1>4
  <2> QED BY <2>1, <1>3, <1>4, WorldAssumption
<1>6. f \in Image BY <1>3, <1>4 DEF Image, Elements
<1> QED BY <1>1, <1>3, <1>4, <1>5, <1>6

(* The target directory, when the images are made, is as the user wants it.*)
LEMMA TargetCurrent ==
    ASSUME TypeOK, Behind, StampsCurrent, stage = "images"
    PROVE  \A c \in Comp : Holds(Target.tree, c, Due(c))
<1>1. Pkg \subseteq stamp /\ "target" \in stamp
  BY DEF Behind, PackagesBehind, LinuxBehind
<1>2. Target.tree = tree BY DEF Target
<1>3. \A p \in Pkg : Due(p) = want[p] BY Names DEF Due
<1> QED BY <1>1, <1>2, <1>3 DEF StampsCurrent, Comp

(* An image that is left behind stays what it is while others are made.    *)
LEMMA NextImagesBehind ==
    ASSUME TypeOK, Behind, StampsCurrent, ImagesBehind, [Next]_vars PROVE ImagesBehind'
<1>1. ASSUME NEW f \in Image, BeginImage(f) PROVE ImagesBehind'
  <2>1. At("images", f, "ready") BY <1>1 DEF BeginImage
  <2>2. /\ stage' = stage /\ nth' = nth /\ at' = "begun" /\ want' = want /\ saved' = saved /\ kernel' = kernel
        /\ \A g \in Image : g # f => img'[g] = img[g]
    BY <1>1 DEF BeginImage, Goes, TypeOK
  <2>3. \A i \in 1..(nth - 1) : Fs[i] # f /\ Fs[i] \in Image
    BY <2>1, AtImage DEF Image, Elements
  <2>4. stage = "images" BY <2>1, AtImage
  <2>5. \A i \in 1..(nth - 1) :
           /\ img'[Fs[i]] = img[Fs[i]]
           /\ Current(Fs[i]) /\ (Fs[i] = "initramfs" => Embedded)
    BY <2>2, <2>3, <2>4 DEF ImagesBehind
  <2>6. \A i \in 1..(nth - 1) : Current(Fs[i])' /\ (Fs[i] = "initramfs" => Embedded')
    BY <2>2, <2>5, DueKept DEF Current, Embedded
  <2> QED BY <2>2, <2>6 DEF ImagesBehind
<1>2. ASSUME NEW f \in Image, EndImage(f) PROVE ImagesBehind'
  <2>1. At("images", f, "begun") BY <1>2 DEF EndImage
  <2>2. /\ stage' = stage /\ nth' = nth /\ at' = "made" /\ want' = want /\ saved' = saved /\ kernel' = kernel
        /\ \A g \in Image : g # f => img'[g] = img[g]
        /\ img'[f] = {Target}
    BY <1>2 DEF EndImage, Goes, TypeOK
  <2>3. \A i \in 1..(nth - 1) : Fs[i] # f /\ Fs[i] \in Image
    BY <2>1, AtImage DEF Image, Elements
  <2>4. stage = "images" /\ nth \in DOMAIN Fs /\ f = Fs[nth] BY <2>1, AtImage
  <2>5. img'[f] # {} /\ \A t \in img'[f], c \in Comp : Holds(t.tree, c, Due(c)')
    BY <2>2, <2>4, TargetCurrent, DueKept
  <2>6. \A i \in 1..(nth - 1) :
           /\ img'[Fs[i]] = img[Fs[i]]
           /\ Current(Fs[i]) /\ (Fs[i] = "initramfs" => Embedded)
    BY <2>2, <2>3, <2>4 DEF ImagesBehind
  <2>7. \A i \in 1..(nth - 1) : Current(Fs[i])' /\ (Fs[i] = "initramfs" => Embedded')
    BY <2>2, <2>6 DEF Current, Embedded, Due
  <2>8. Current(Fs[nth])' BY <2>2, <2>4, <2>5 DEF Current, Due
  <2> QED BY <2>2, <2>4, <2>7, <2>8 DEF ImagesBehind
<1>3. ASSUME NEW f \in Image, NoPostTarget(f) PROVE ImagesBehind'
  <2>1. At("images", f, "made") /\ f # "initramfs" BY <1>3 DEF NoPostTarget
  <2>2. /\ stage' = stage /\ nth' = nth + 1 /\ at' = "ready" /\ want' = want /\ saved' = saved
        /\ kernel' = kernel /\ img' = img
    BY <1>3 DEF NoPostTarget, Done
  <2>3. stage = "images" /\ nth \in Nat \ {0} /\ f = Fs[nth] /\ at = "made" BY <2>1, AtImage
  <2>4. \A i \in 1..nth : Current(Fs[i]) /\ (Fs[i] = "initramfs" => Embedded)
    BY <2>1, <2>3 DEF ImagesBehind
  <2>5. nth' - 1 = nth BY <2>2, <2>3
  <2> QED BY <2>2, <2>4, <2>5 DEF ImagesBehind, Current, Embedded, Due
<1>4. CASE BeginRebuild
  <2>1. At("images", "initramfs", "made") BY <1>4 DEF BeginRebuild
  <2>2. /\ stage' = stage /\ nth' = nth /\ at' = "rebuilding" /\ want' = want /\ saved' = saved /\ img' = img
        /\ kernel'.data = {}
    BY <1>4 DEF BeginRebuild, Goes, TypeOK
  <2>3. /\ stage = "images" /\ at = "made"
        /\ \A i \in 1..(nth - 1) : Fs[i] # "initramfs"
    BY <2>1, AtImage
  <2> QED BY <2>2, <2>3 DEF ImagesBehind, Current, Due
<1>5. CASE EndRebuild
  <2>1. At("images", "initramfs", "rebuilding") BY <1>5 DEF EndRebuild
  <2>2. /\ stage' = stage /\ nth' = nth + 1 /\ at' = "ready" /\ want' = want /\ saved' = saved /\ img' = img
    BY <1>5 DEF EndRebuild, Done
  <2>3. /\ stage = "images" /\ nth \in Nat \ {0} /\ Fs[nth] = "initramfs"
        /\ "initramfs" \in Image /\ at = "rebuilding"
        /\ \A i \in 1..(nth - 1) : Fs[i] # "initramfs"
    BY <2>1, AtImage
  <2>4. Embeds = {img["initramfs"]} BY <2>3 DEF ImagesBehind, Embeds, RootList
  <2>5. PICK root \in Embeds :
          kernel' = [kernel EXCEPT !.build = {[cfg |-> kernel.cfg, root |-> root]},
                                   !.image = {[cfg |-> kernel.cfg, root |-> root]},
                                   !.data = {root}]
    BY <1>5, Zenon DEF EndRebuild
  <2>6. Current("initramfs") BY <2>3 DEF ImagesBehind
  <2>7. kernel'.image = {[cfg |-> kernel.cfg, root |-> img["initramfs"]]}
    BY <2>4, <2>5 DEF TypeOK
  <2>8. Embedded' BY <2>2, <2>6, <2>7, PkgComp DEF StampsCurrent, Embedded, Current, TypeOK
  <2>9. \A i \in 1..nth : Current(Fs[i])
    BY <2>3, <2>6 DEF ImagesBehind
  <2>10. \A i \in 1..nth : Current(Fs[i])' BY <2>2, <2>9 DEF Current, Due
  <2>11. nth' - 1 = nth BY <2>2, <2>3
  <2> QED BY <2>2, <2>8, <2>10, <2>11 DEF ImagesBehind
<1>6. CASE NextStage
  <2>1. nth' = 1 /\ at' = at /\ stage' = After(stage) /\ stage # stage'
    BY <1>6 DEF NextStage, After
  <2>2. at \notin {"made", "rebuilding"}
    <3>1. CASE stage = "images"
      <4>1. nth = Len(Fs) + 1 BY <1>6, <3>1 DEF NextStage, Items
      <4>2. DOMAIN Fs = 1..Len(Fs) /\ Len(Fs) \in Nat BY WorldAssumption, SeqDomain, Zenon
      <4>3. nth \notin DOMAIN Fs BY <4>1, <4>2
      <4> QED BY <4>3 DEF ImagesBehind
    <3>2. CASE stage # "images" BY <3>2 DEF ImagesBehind
    <3> QED BY <3>1, <3>2
  <2> QED BY <2>1, <2>2 DEF ImagesBehind
<1>7. CASE Next /\ ~ImageStep /\ ~NextStage
  BY <1>7, OtherSteps DEF ImagesBehind
<1>8. CASE UNCHANGED vars
  BY <1>8, DueKept DEF vars, ImagesBehind, Current, Embedded
<1>9. CASE ImageStep BY <1>9, <1>1, <1>2, <1>3, <1>4, <1>5 DEF ImageStep
<1> QED BY <1>6, <1>7, <1>8, <1>9

(* The end of the images is the end of make world.                         *)
LEMMA EndIsComplete ==
    ASSUME TypeOK, Behind, ImagesBehind, NextStage, stage = "images"
    PROVE  Complete'
<1>1. nth = Len(Fs) + 1 BY DEF NextStage, Items
<1>2. DOMAIN Fs = 1..Len(Fs) /\ Len(Fs) \in Nat BY WorldAssumption, SeqDomain, Zenon
<1>3. \A i \in DOMAIN Fs : Current(Fs[i]) /\ (Fs[i] = "initramfs" => Embedded)
  BY <1>1, <1>2 DEF ImagesBehind
<1>4. (\A f \in Image : Current(f)) /\ ("initramfs" \in Image => Embedded)
  BY <1>3 DEF Image, Elements
<1>5. "images" \in stamp BY DEF Behind, LinuxBehind
<1>6. stamp' = stamp /\ img' = img /\ kernel' = kernel /\ want' = want /\ saved' = saved BY DEF NextStage
<1> QED BY <1>4, <1>5, <1>6 DEF Complete, Current, Embedded, Due

(* Nothing but the user takes away what a make world has made.             *)
LEMMA NextWorldDone ==
    ASSUME TypeOK, Behind, ImagesBehind, WorldDone, [Next]_vars PROVE WorldDone'
<1>1. ASSUME run # "none", stage' # "end", made' = made PROVE WorldDone'
  BY <1>1 DEF WorldDone
<1>2. CASE DirsStep
  BY <1>2, <1>1 DEF DirsStep, BeginSkeleton, EndSkeleton, NoSkeleton, At, Goes, Done
<1>3. CASE PackageStep
  BY <1>3, <1>1 DEF PackageStep, BeginPackage, EndPackage, At, Goes, Done
<1>4. CASE LinuxStep
  <2>1. ASSUME NEW s, Begins(s) \/ Ends(s) PROVE WorldDone'
    BY <2>1, <1>1 DEF Begins, Ends, At, Goes, Done
  <2> QED BY <1>4, <2>1
       DEF LinuxStep, BeginPatch, EndPatch, BeginConfigure, EndConfigure, BeginBuild, EndBuild,
           BeginModules, EndModules, BeginCopy, EndCopy, BeginOpkg, EndOpkg
<1>5. CASE MenuStep
  BY <1>5, <1>1 DEF MenuStep, Menuconfig, RemoveStamps, At, Goes
<1>6. CASE FinishStep
  BY <1>6, <1>1 DEF FinishStep, Finalize, At, Done
<1>7. CASE ImageStep
  BY <1>7, <1>1
  DEF ImageStep, BeginImage, EndImage, NoPostTarget, BeginRebuild, EndRebuild, At, Goes, Done
<1>8. CASE MakeStep
  <2>1. CASE NextStage
    <3>1. CASE stage = "images"
      <4>1. Complete' BY <2>1, <3>1, EndIsComplete
      <4>2. run # "none" /\ made' = made BY <2>1 DEF NextStage
      <4> QED BY <4>1, <4>2 DEF WorldDone
    <3>2. CASE stage # "images"
      <4>1. run # "none" /\ run' = run /\ made' = made /\ stage # "end" /\ stage' = After(stage)
        BY <2>1 DEF NextStage
      <4>2. stage \in Stage BY DEF TypeOK
      <4>3. stage' = "end" => run' # "world"
        BY <3>2, <4>1, <4>2 DEF After, Stage, Behind, Stages
      <4> QED BY <4>1, <4>3 DEF WorldDone
    <3> QED BY <3>1, <3>2
  <2>2. CASE Succeeds
    <3>1. /\ run' = "none" /\ made' = (run = "world") /\ stage = "end"
          /\ stamp' = stamp /\ img' = img /\ kernel' = kernel /\ want' = want /\ saved' = saved
      BY <2>2 DEF Succeeds
    <3>2. run = "world" => Complete' 
      BY <3>1 DEF WorldDone, Complete, Current, Embedded, Due
    <3> QED BY <3>1, <3>2 DEF WorldDone
  <2>3. CASE HasStamp
    BY <2>3, <1>1 DEF HasStamp, Done
  <2> QED BY <1>8, <2>1, <2>2, <2>3 DEF MakeStep
<1>9. CASE Stops BY <1>9 DEF Stops, WorldDone
<1>10. CASE UserStep
  <2>1. ASSUME NEW goal, RunMake(goal) PROVE WorldDone'
    BY <2>1 DEF RunMake, WorldDone
  <2>2. ASSUME NEW p \in Pkg, Change(p) PROVE WorldDone'
    BY <2>2 DEF Change, pc, WorldDone
  <2> QED BY <1>10, <2>1, <2>2 DEF UserStep
<1>11. CASE UNCHANGED vars
  BY <1>11, DueKept DEF vars, WorldDone, Complete, Current, Embedded
<1> QED BY <1>2, <1>3, <1>4, <1>5, <1>6, <1>7, <1>8, <1>9, <1>10, <1>11 DEF Next

(* Spec makes every result of a make world that succeeds current: whatever *)
(* was interrupted, changed or configured before, each image holds what is *)
(* due, and the kernel has the last .config, where the stamps tell that it *)
(* is another or an initramfs has it built again, and embeds the initramfs *)
(* of this make.                                                           *)
THEOREM WorldIsCurrent == Spec => []ResultsCurrent
<1>1. TypeOK /\ Inv /\ [Next]_vars => Inv'
  BY NextBehind, NextInstalled, NextFinished DEF Inv, Behind
<1>2. TypeOK /\ Inv /\ CurrentInv /\ [Next]_vars => CurrentInv'
  BY NextStampsCurrent, NextKernelsThere, NextImagesBehind, NextWorldDone
  DEF CurrentInv, Inv, Behind
<1>3. CurrentInv => ResultsCurrent
  <2> SUFFICES ASSUME CurrentInv, made PROVE ImagesCurrent /\ KernelCurrent
    BY DEF ResultsCurrent, ImagesCurrent, KernelCurrent
  <2>1. Complete BY DEF CurrentInv, WorldDone
  <2>2. ImagesCurrent BY <2>1 DEF ImagesCurrent, Complete, Current
  <2>3. kernel.image # {}
    BY <2>1 DEF CurrentInv, Complete, Embedded, KernelsThere
  <2>4. \A k \in kernel.image : k.cfg >= Due("linux")
    BY <2>1 DEF CurrentInv, StampsCurrent, Complete
  <2>5. KernelCurrent BY <2>1, <2>3, <2>4 DEF KernelCurrent, Complete, Embedded
  <2> QED BY <2>2, <2>5
<1> QED BY <1>1, <1>2, <1>3, InitInv, InitCurrent, WorldTypes, PTL DEF Spec
=============================================================================
