------------------------- MODULE PackageOrderProofs -------------------------
(***************************************************************************)
(* Proofs about PackageInfra: that everything a step needs is done and     *)
(* still there when it runs, that a make that succeeds has installed what  *)
(* it was asked for, from the configuration asked for last, that the whole *)
(* of it implements the order of Steps, and that the walk of make runs one *)
(* recipe at a time, never blocks and always advances -- for any packages  *)
(* and any acyclic dependencies, whatever fails, is interrupted or removed.*)
(***************************************************************************)
EXTENDS PackageInfraProofs, WellFoundedInduction
-----------------------------------------------------------------------------
(* What is done below a phony target that is done *)

Done(p, k) == phase[<<p, k>>] = "done"

LEMMA OwnDone ==
    ASSUME TypeOK, WalkInv, NEW p \in Pkg, NEW k \in Phony, Done(p, k),
           NEW j \in DOMAIN Own(p, k)
    PROVE  Done(p, Own(p, k)[j])
  <1>1. k \in Kind /\ <<p, k>> \in Targets /\ <<p, k>> # World
    BY GoalFacts, KindsDisjoint
  <1> DEFINE own == [i \in DOMAIN Own(p, k) |-> <<p, Own(p, k)[i]>>]
             dep == Packages(Deps[p])
  <1>2. Own(p, k) \in Seq(Kind) /\ dep \in Seq(Targets)
    BY <1>1, OwnType, PackagesType, ConfigAssumption
  <1>3. own \in Seq(Targets) /\ j \in DOMAIN own /\ own[j] = <<p, Own(p, k)[j]>>
    BY <1>2 DEF Targets
  <1>4. j \in DOMAIN (own \o dep) /\ (own \o dep)[j] = own[j]
    BY <1>2, <1>3
  <1>5. Prereq(<<p, k>>) = IF k = "depends" THEN own \o dep ELSE own
    BY <1>1 DEF Prereq
  <1>6. j \in DOMAIN Prereq(<<p, k>>) /\ Prereq(<<p, k>>)[j] = <<p, Own(p, k)[j]>>
    BY <1>3, <1>4, <1>5
  <1>. QED
    BY <1>1, <1>6 DEF WalkInv, Done

LEMMA DepsDone ==
    ASSUME TypeOK, WalkInv, NEW p \in Pkg, Done(p, "depends"), NEW i \in DOMAIN Deps[p]
    PROVE  Deps[p][i] \in Pkg /\ Done(Deps[p][i], "package")
  <1>1. "depends" \in Phony /\ "depends" \in Kind
    BY DEF Phony, Kind
  <1>2. <<p, "depends">> \in Targets /\ <<p, "depends">> # World
    BY <1>1, GoalFacts
  <1> DEFINE own == [j \in DOMAIN Own(p, "depends") |-> <<p, Own(p, "depends")[j]>>]
             dep == Packages(Deps[p])
  <1>3. Own(p, "depends") \in Seq(Kind) /\ Deps[p] \in Seq(Pkg)
    BY <1>1, OwnType, ConfigAssumption
  <1>4. own \in Seq(Targets)
    BY <1>3 DEF Targets
  <1>5. /\ dep \in Seq(Targets) /\ Deps[p][i] \in Pkg
        /\ i \in DOMAIN dep /\ dep[i] = <<Deps[p][i], "package">>
    BY <1>3, PackagesType DEF Packages
  <1>6. Len(own) + i \in DOMAIN (own \o dep) /\ (own \o dep)[Len(own) + i] = dep[i]
    BY <1>4, <1>5
  <1>7. Prereq(<<p, "depends">>) = own \o dep
    BY <1>2 DEF Prereq
  <1>8. \E j \in DOMAIN Prereq(<<p, "depends">>) :
           Prereq(<<p, "depends">>)[j] = <<Deps[p][i], "package">>
    BY <1>5, <1>6, <1>7
  <1> HIDE DEF own, dep
  <1>. QED
    BY <1>1, <1>2, <1>5, <1>8 DEF WalkInv, Done

(* A target that is done, down to the stamp files it lists.                *)
LEMMA DoneBelow ==
    ASSUME TypeOK, WalkInv, NEW p \in Pkg
    PROVE  /\ Done(p, "build") => Done(p, "configure") /\ Done(p, "built")
           /\ Done(p, "configure") => Done(p, "patch") /\ Done(p, "configured")
           /\ Done(p, "patch") => Done(p, "extract") /\ Done(p, "patched")
           /\ Done(p, "extract") => Done(p, "depends") /\ Done(p, "extracted")
           /\ Done(p, "package") => \A s \in InstallSteps(p) : Done(p, s)
  <1> USE OwnIs
  <1>1. /\ {"build", "configure", "patch", "extract", "package", "install", "install-host",
            "install-staging", "install-target", "install-images", "build-opkg"} \subseteq Phony
    BY DEF Phony
  <1>2. ASSUME NEW k \in Phony, NEW a, NEW b, Own(p, k) = <<a, b>>, Done(p, k)
        PROVE  Done(p, a) /\ Done(p, b)
    <2>1. 1 \in DOMAIN Own(p, k) /\ 2 \in DOMAIN Own(p, k)
      BY <1>2
    <2>2. Done(p, Own(p, k)[1]) /\ Done(p, Own(p, k)[2])
      BY <1>2, <2>1, OwnDone
    <2>. QED
      BY <1>2, <2>2
  <1>3. Done(p, "package") => Done(p, "install")
    <2>1. Own(p, "package") = <<"install">> /\ 1 \in DOMAIN Own(p, "package")
      OBVIOUS
    <2>. QED
      BY <1>1, <2>1, OwnDone
  <1>4. CASE p \in Host
    <2>1. Own(p, "install") = <<"install-host">> /\ 1 \in DOMAIN Own(p, "install")
      BY <1>4
    <2>2. Done(p, "install") => Done(p, "install-host")
      BY <1>1, <2>1, OwnDone
    <2>3. Done(p, "install-host") => Done(p, "host_installed")
      BY <1>1, <1>2
    <2>4. InstallSteps(p) = {"host_installed"}
      BY <1>4 DEF InstallSteps
    <2>. QED
      BY <1>1, <1>2, <1>3, <2>2, <2>3, <2>4
  <1>5. CASE p \notin Host
    <2>1. /\ Own(p, "install") = <<"install-staging", "install-target",
                                   "install-images", "build-opkg">>
          /\ {1, 2, 3, 4} \subseteq DOMAIN Own(p, "install")
      BY <1>5
    <2>2. Done(p, "install") => /\ Done(p, "install-staging") /\ Done(p, "install-target")
                                /\ Done(p, "install-images") /\ Done(p, "build-opkg")
      <3>1. Done(p, "install") => \A j \in {1, 2, 3, 4} : Done(p, Own(p, "install")[j])
        BY <1>1, <2>1, OwnDone
      <3>. QED
        BY <2>1, <3>1
    <2>3. ASSUME NEW k \in Phony, NEW enabled, NEW s, Own(p, k) = IfEnabled(p, enabled, s),
                 p \in enabled, Done(p, k)
          PROVE  Done(p, s)
      BY <2>3, <1>2 DEF IfEnabled
    <2>4. /\ p \in Staging /\ Done(p, "install-staging") => Done(p, "staging_installed")
          /\ p \in Target /\ Done(p, "install-target") => Done(p, "target_installed")
          /\ p \in Images /\ Done(p, "install-images") => Done(p, "images_installed")
          /\ p \in Opkg /\ Done(p, "build-opkg") => Done(p, "opkg_built")
      BY <1>1, <2>3
    <2>. QED
      BY <1>1, <1>2, <1>3, <1>5, <2>2, <2>4 DEF InstallSteps
  <1>. QED
    BY <1>4, <1>5

LEMMA InstallStepsType ==
    ASSUME NEW p PROVE InstallSteps(p) \subseteq InstallStep /\ InstallStep \subseteq BuildStep
  BY DEF InstallSteps, InstallStep, BuildStep

LEMMA PackageInstalled ==
    ASSUME IInv, NEW p \in Pkg, Done(p, "package")
    PROVE  Installed(p)
  <1>1. \A s \in InstallSteps(p) : Done(p, s) /\ s \in Step
    BY DoneBelow, InstallStepsType, StepNames DEF IInv
  <1>. QED
    BY <1>1 DEF Installed, IInv, StampInv, DoneStamped, Done

(* When make is at a step, the step before it in the package has its stamp *)
(* and so has everything the package's dependencies install.               *)
LEMMA NeedsStamped ==
    ASSUME IInv, NEW p \in Pkg, NEW s \in BuildStep, phase[<<p, s>>] # "idle"
    PROVE  /\ s # "extracted" => Input(s) \in BuildStep /\ <<p, Input(s)>> \in stamp
           /\ \A i \in DOMAIN Deps[p] : Deps[p][i] \in Pkg /\ Installed(Deps[p][i])
  <1>1. Done(p, Gate(s))
    BY GateDone DEF IInv, Done
  <1>2. /\ Done(p, "build") => Done(p, "configure") /\ Done(p, "built")
        /\ Done(p, "configure") => Done(p, "patch") /\ Done(p, "configured")
        /\ Done(p, "patch") => Done(p, "extract") /\ Done(p, "patched")
        /\ Done(p, "extract") => Done(p, "depends") /\ Done(p, "extracted")
    BY DoneBelow DEF IInv
  <1>3. Done(p, "depends")
    BY <1>1, <1>2 DEF Gate, BuildStep, InstallStep
  <1>4. s # "extracted" => Done(p, Input(s)) /\ Input(s) \in BuildStep
    BY <1>1, <1>2 DEF Gate, Input, BuildStep, InstallStep
  <1>5. s # "extracted" => <<p, Input(s)>> \in stamp
    BY <1>4, StepNames DEF IInv, StampInv, DoneStamped, Done
  <1>6. \A i \in DOMAIN Deps[p] : Deps[p][i] \in Pkg /\ Installed(Deps[p][i])
    BY <1>3, DepsDone, PackageInstalled DEF IInv
  <1>. QED
    BY <1>4, <1>5, <1>6

LEMMA StampedMade ==
    ASSUME IInv, NEW p \in Pkg, NEW s \in BuildStep, <<p, s>> \in stamp, Intact(p)
    PROVE  Made(p, s)
  <1>1. ~Exempt(p, s)
    BY DEF Intact, Exempt
  <1>. QED
    BY <1>1 DEF IInv, StampInv, Honest

(* Whatever step runs, for any packages and any history of failures, stops *)
(* and removals: the step before it is done and its result there, and all  *)
(* the package's dependencies are installed and still there.               *)
THEOREM StepsAreReady == Spec => []StepsReady
  <1>1. ASSUME IInv PROVE DepsInstalled
    <2>1. SUFFICES ASSUME NEW p \in Pkg, NEW s \in BuildStep, Running(p, s),
                          NEW i \in DOMAIN Deps[p]
                   PROVE  /\ Installed(Deps[p][i])
                          /\ Intact(Deps[p][i]) =>
                                \A x \in InstallSteps(Deps[p][i]) : Made(Deps[p][i], x)
      BY DEF DepsInstalled
    <2>2. Deps[p][i] \in Pkg /\ Installed(Deps[p][i])
      BY <1>1, <2>1, NeedsStamped DEF Running
    <2>. QED
      BY <1>1, <2>2, InstallStepsType, StampedMade DEF Installed
  <1>2. ASSUME IInv PROVE InputsReady
    <2>1. SUFFICES ASSUME NEW p \in Pkg, NEW s \in BuildStep \ {"extracted"},
                          Running(p, s), Intact(p)
                   PROVE  <<p, Input(s)>> \in stamp /\ Made(p, Input(s))
      BY DEF InputsReady
    <2>2. Input(s) \in BuildStep /\ <<p, Input(s)>> \in stamp
      BY <1>2, <2>1, NeedsStamped DEF Running
    <2>. QED
      BY <1>2, <2>1, <2>2, StampedMade
  <1>. QED
    BY <1>1, <1>2, InvHolds, PTL DEF StepsReady
-----------------------------------------------------------------------------
(* The order of the steps *)

(* Every step of PackageInfra marks one step as done whose needs are done  *)
(* then, or marks none as done that was not.                               *)
LEMMA StampsMove ==
    ASSUME IInv, [Next]_vars
    PROVE  \/ \E p \in Pkg, s \in Step : Touch(p, s)
           \/ stamp' \subseteq stamp
  <1>1. CASE Recipe
    <2>1. ASSUME NEW p \in Pkg, NEW s \in Step, RunStep(p, s), ~Touch(p, s)
          PROVE  stamp' = stamp
      BY <2>1 DEF RunStep, BeginDownload, EndDownload, BeginStep, EndStep
    <2>2. ASSUME NEW p \in Pkg, Uninstall(p) \/ Clean(p) \/ OpkgClean(p) \/ Dirclean(p)
          PROVE  stamp' \subseteq stamp
      BY <2>2 DEF Uninstall, Clean, OpkgClean, Dirclean, RemoveOne, BeginRemoval,
            EndRemoval, RemoveStamp, UninstallStaging, UninstallTarget, BeginDirclean,
            EndDirclean, StampsOf
    <2>. QED
      BY <1>1, <2>1, <2>2 DEF Recipe
  <1>2. CASE Walk \/ CommandFails \/ Interrupt \/ \E g \in Goals : RunMake(g)
    BY <1>2 DEF Walk, Descend, PhonyDone, MakeSucceeds, CommandFails, Interrupt, Stop,
          RunMake, disk
  <1>3. ASSUME NEW p \in Pkg, Recompile(p) \/ \E what \in UserRemoves : Reconfigure(p, what)
        PROVE  stamp' \subseteq stamp
    BY <1>3 DEF Recompile, Reconfigure, StampsOf
  <1>4. CASE UNCHANGED vars
    BY <1>4 DEF vars
  <1>. QED
    BY <1>1, <1>2, <1>3, <1>4 DEF Next, MakeStep, User

LEMMA TouchDoes ==
    ASSUME IInv, NEW p \in Pkg, NEW s \in BuildStep, Touch(p, s)
    PROVE  Steps!Do(<<p, s>>)
  <1>1. phase[<<p, s>>] = "ran" /\ stamp' = stamp \cup {<<p, s>>}
    BY DEF Touch, Moves
  <1>2. <<p, s>> \in (Pkg \X BuildStep) \ StepsDone
    BY <1>1, StepNames DEF IInv, StampInv, StampMissing, Active, StepsDone
  <1>3. StepsDone' = StepsDone \cup {<<p, s>>}
    BY <1>1, StepNames DEF StepsDone
  <1>4. Needs(p, s) \subseteq StepsDone
    <2>1. CASE s # "extracted"
      BY <1>1, <2>1, NeedsStamped, StepNames DEF Needs, StepsDone
    <2>2. CASE s = "extracted"
      <3>1. SUFFICES ASSUME NEW i \in DOMAIN Deps[p], NEW j \in InstallSteps(Deps[p][i])
                     PROVE  <<Deps[p][i], j>> \in StepsDone
        BY <2>2 DEF Needs
      <3>2. <<Deps[p][i], j>> \in stamp
        BY <1>1, NeedsStamped DEF Installed
      <3>3. j # "downloaded"
        BY InstallStepsType, StepNames
      <3>. QED
        BY <3>2, <3>3 DEF StepsDone
    <2>. QED
      BY <2>1, <2>2
  <1>5. [x \in Pkg \X BuildStep |-> Needs(x[1], x[2])][<<p, s>>] = Needs(p, s)
    OBVIOUS
  <1>. QED
    BY <1>2, <1>3, <1>4, <1>5 DEF Steps!Do

(* PackageInfra implements Steps: a step of a package is marked as done    *)
(* only while the step before it is, and the extraction of its sources     *)
(* only while all its dependencies install is -- however the marks were    *)
(* removed before.                                                         *)
THEOREM StepsInOrder == Spec => InOrder
  <1>1. Init => Steps!Init
    BY DEF Init, Steps!Init, StepsDone
  <1>2. IInv /\ [Next]_vars => [Steps!Next]_StepsDone
    <2>1. SUFFICES ASSUME IInv, [Next]_vars PROVE Steps!Next
      OBVIOUS
    <2>2. ASSUME stamp' \subseteq stamp PROVE Steps!Undo
      BY <2>2 DEF Steps!Undo, StepsDone
    <2>3. ASSUME NEW p \in Pkg, NEW s \in Step, Touch(p, s) PROVE Steps!Next
      <3>1. CASE s = "downloaded"
        <4>1. StepsDone' = StepsDone
          BY <2>3, <3>1 DEF Touch, StepsDone
        <4>. QED
          BY <4>1 DEF Steps!Next, Steps!Undo
      <3>2. CASE s # "downloaded"
        <4>1. s \in BuildStep /\ <<p, s>> \in Pkg \X BuildStep
          BY <3>2 DEF Step
        <4>. QED
          BY <2>1, <2>3, <4>1, TouchDoes DEF Steps!Next
      <3>. QED
        BY <3>1, <3>2
    <2>. QED
      BY <2>1, <2>2, <2>3, StampsMove DEF Steps!Next
  <1>. QED
    BY <1>1, <1>2, InvHolds, PTL DEF Spec, InOrder, Steps!Spec
-----------------------------------------------------------------------------
(* Where results and stamps come from *)

(* What is made, and of whole input.                                       *)
Whole(p, s) == tree[p][s] \in Rev

(* A result that is whole after a step was so before, or is what the       *)
(* commands of its own recipe have just made.                              *)
LEMMA NewResults ==
    ASSUME TypeOK, [Next]_vars, NEW q \in Pkg, NEW x \in BuildStep, Whole(q, x)'
    PROVE  tree'[q][x] = tree[q][x] \/ EndStep(q, x)
  <1> USE StepNames
  <1>1. tree'[q][x] \in Rev /\ Absent \notin Rev /\ Partial \notin Rev
    BY ContentFacts DEF Whole
  <1>2. \A c : Decay(c) \notin Rev
    BY ContentFacts DEF Decay
  <1>3. ASSUME NEW p \in Pkg, NEW s \in Step, RunStep(p, s)
        PROVE  tree'[q][x] = tree[q][x] \/ EndStep(q, x)
    <2>1. CASE <<q, x>> # <<p, s>>
      <3>1. SUFFICES ASSUME tree'[q][x] # tree[q][x] PROVE FALSE
        OBVIOUS
      <3>2. q = p /\ x = "patched" /\ s = "extracted" /\ BeginStep(p, s)
        BY <1>3, <2>1, <3>1, TreeOther
      <3>3. tree'[q][x] = Absent
        BY <3>2 DEF BeginStep, Begun, TypeOK
      <3>. QED
        BY <1>1, <3>3
    <2>2. CASE <<q, x>> = <<p, s>>
      <3>1. EndStep(q, x) \/ Touch(q, x) \/ BeginStep(q, x)
        BY <1>3, <2>2 DEF RunStep
      <3>2. BeginStep(q, x) => tree'[q][x] = Partial
        BY DEF BeginStep, Begun, TypeOK
      <3>3. Touch(q, x) => tree' = tree
        BY DEF Touch
      <3>. QED
        BY <1>1, <3>1, <3>2, <3>3
    <2>. QED
      BY <2>1, <2>2
  <1>4. ASSUME NEW p \in Pkg, NEW s \in Step, NEW c, c \notin Rev,
               tree' = [tree EXCEPT ![p][s] = c]
        PROVE  tree'[q][x] = tree[q][x]
    BY <1>1, <1>4, TreeIs
  <1>5. ASSUME NEW p \in Pkg, NEW k, NEW s \in Step, RemoveOne(p, k, s)
        PROVE  tree'[q][x] = tree[q][x]
    BY <1>1, <1>2, <1>4, <1>5 DEF RemoveOne, BeginRemoval, EndRemoval, RemoveStamp
  <1>6. ASSUME NEW p \in Pkg, Uninstall(p) PROVE tree'[q][x] = tree[q][x]
    <2>1. CASE BeginRemoval(p, "uninstalled", "staging_installed")
      BY <1>2, <1>4, <2>1 DEF BeginRemoval
    <2>2. CASE UninstallStaging(p)
      <3>1. tree' = [tree EXCEPT
                       ![p]["staging_installed"] = Absent,
                       ![p]["target_installed"] = Decay(tree[p]["target_installed"])]
        BY <2>2 DEF UninstallStaging, TypeOK
      <3>. QED
        BY <1>1, <1>2, <3>1 DEF TypeOK
    <2>3. CASE UninstallTarget(p)
      BY <1>1, <1>4, <2>3 DEF UninstallTarget
    <2>. QED
      BY <1>6, <2>1, <2>2, <2>3 DEF Uninstall
  <1>7. ASSUME NEW p \in Pkg, tree' = [tree EXCEPT ![p] = DirGone(p)]
               \/ tree' = [tree EXCEPT ![p] = DirDecay(p)]
        PROVE  tree'[q][x] = tree[q][x]
    BY <1>1, <1>2, <1>7 DEF TypeOK, DirGone, DirDecay
  <1>8. CASE Recipe
    BY <1>3, <1>5, <1>6, <1>7, <1>8
       DEF Recipe, Clean, OpkgClean, Dirclean, BeginDirclean, EndDirclean
  <1>9. CASE Walk \/ CommandFails \/ Interrupt \/ \E g \in Goals : RunMake(g)
    BY <1>9 DEF Walk, Descend, PhonyDone, MakeSucceeds, CommandFails, Interrupt, Stop,
          RunMake, disk
  <1>10. ASSUME NEW p \in Pkg, Recompile(p) \/ \E what \in UserRemoves : Reconfigure(p, what)
        PROVE  tree'[q][x] = tree[q][x]
    BY <1>7, <1>10 DEF Recompile, Reconfigure
  <1>11. CASE UNCHANGED vars
    BY <1>11 DEF vars
  <1>. QED
    BY <1>8, <1>9, <1>10, <1>11 DEF Next, MakeStep, User

(* A step is stamped, or about to be, because it was so before or because  *)
(* its commands have just ended well.                                      *)
Ready(p, s) == <<p, s>> \in stamp \/ phase[<<p, s>>] = "ran"

LEMMA NewStamps ==
    ASSUME IInv, [Next]_vars, NEW q \in Pkg, NEW x \in BuildStep, Ready(q, x)'
    PROVE  Ready(q, x) \/ EndStep(q, x)
  <1> USE StepNames
  <1>t. TypeOK
    BY DEF IInv
  <1>1. CASE phase'[<<q, x>>] = "ran" /\ phase[<<q, x>>] # "ran"
    <2>1. phase'[<<q, x>>] # "idle" /\ <<q, x>> \in Targets
      BY <1>1
    <2>2. CASE Recipe
      <3>1. ASSUME NEW p \in Pkg, NEW k \in Step \cup Removal, NEW from, NEW to,
                   Moves(p, k, from, to)
            PROVE  <<p, k>> = <<q, x>> /\ to = "ran"
        <4>1. /\ phase'[<<p, k>>] = to
              /\ <<q, x>> # <<p, k>> => phase'[<<q, x>>] = phase[<<q, x>>]
          <5>1. x \in Step \cup Removal
            OBVIOUS
          <5>. QED
            BY <1>t, <3>1, <5>1, MovesIs
        <4>. QED
          BY <1>1, <4>1
      <3>2. x \notin Removal /\ x # "downloaded"
        OBVIOUS
      <3>3. \A p \in Pkg : ~Uninstall(p) /\ ~Clean(p) /\ ~OpkgClean(p) /\ ~Dirclean(p)
        BY <3>1, <3>2 DEF Uninstall, Clean, OpkgClean, Dirclean, RemoveOne, BeginRemoval,
              EndRemoval, RemoveStamp, UninstallStaging, UninstallTarget, BeginDirclean,
              EndDirclean
      <3>4. PICK p \in Pkg, s \in Step : RunStep(p, s)
        BY <2>2, <3>3 DEF Recipe
      <3>5. p = q /\ s = x
        BY <3>1, <3>4
           DEF RunStep, BeginDownload, EndDownload, BeginStep, EndStep, Touch
      <3>6. ~BeginStep(q, x) /\ ~Touch(q, x)
        BY <3>1 DEF BeginStep, Touch
      <3>. QED
        BY <3>2, <3>4, <3>5, <3>6 DEF RunStep
    <2>3. CASE Walk
      BY <1>t, <1>1, <2>1, <2>3
         DEF Walk, Descend, PhonyDone, MakeSucceeds, AllIdle, TypeOK
    <2>4. CASE CommandFails \/ Interrupt
      BY <2>1, <2>4 DEF CommandFails, Interrupt, Stop, AllIdle
    <2>5. CASE \E g \in Goals : RunMake(g)
      BY <1>t, <1>1, <2>1, <2>5, GoalFacts DEF RunMake, TypeOK
    <2>6. CASE \/ \E p \in Pkg : Recompile(p) \/ \E what \in UserRemoves : Reconfigure(p, what)
               \/ UNCHANGED vars
      BY <1>1, <2>6 DEF Recompile, Reconfigure, vars
    <2>. QED
      BY <2>2, <2>3, <2>4, <2>5, <2>6 DEF Next, MakeStep, User
  <1>2. CASE <<q, x>> \in stamp' /\ <<q, x>> \notin stamp
    <2>1. PICK p \in Pkg, s \in Step : Touch(p, s)
      BY <1>2, StampsMove
    <2>2. <<p, s>> = <<q, x>>
      BY <1>2, <2>1 DEF Touch
    <2>. QED
      BY <2>1, <2>2 DEF Touch, Moves, Ready
  <1>. QED
    BY <1>1, <1>2 DEF Ready

(* What the commands of a step leave is made of their input.               *)
LEMMA StepMakes ==
    ASSUME TypeOK, NEW q \in Pkg, NEW x \in BuildStep, EndStep(q, x), Whole(q, x)'
    PROVE  /\ Whole(q, Input(x))
           /\ tree'[q][x] = IF x = "configured" THEN want[q] ELSE tree[q][Input(x)]
           /\ want' = want
  <1> DEFINE in == tree[q][Input(x)]
             new == IF in \notin Rev THEN Doubtful
                    ELSE IF x = "configured" THEN want[q] ELSE in
  <1>1. tree' = [tree EXCEPT ![q][x] = new] /\ want' = want
    BY DEF EndStep
  <1>2. x \in Step /\ Doubtful \notin Rev
    BY StepNames, ContentFacts
  <1> HIDE DEF new
  <1>3. tree'[q][x] = new
    BY <1>1, <1>2 DEF TypeOK
  <1>4. new \in Rev
    BY <1>3 DEF Whole
  <1>. QED
    BY <1>1, <1>2, <1>3, <1>4 DEF Whole, new
-----------------------------------------------------------------------------
(* Success *)

(* What make has achieved counts until the next make, or the next change.  *)
Achieved == /\ goal # NoGoal => made = NoGoal
            /\ SuccessInstalls

LEMMA AchievedStep ==
    ASSUME IInv, Achieved, [Next]_vars
    PROVE  Achieved'
  <1>1. ASSUME made' = NoGoal PROVE Achieved'
    <2>1. MadePackages' = {}
      <3>1. NoGoal # World /\ \A p \in Pkg : NoGoal # <<p, "package">>
        BY ConfigAssumption DEF NoGoal, World
      <3>. QED
        BY <1>1, <3>1 DEF MadePackages
    <2>. QED
      BY <1>1, <2>1 DEF Achieved, SuccessInstalls
  <1>2. CASE MakeSucceeds
    <2>1. /\ goal # NoGoal /\ phase[goal] = "done" /\ goal \in Targets
          /\ goal' = NoGoal /\ made' = goal /\ stamp' = stamp
      BY <1>2, GoalFacts DEF MakeSucceeds, disk, IInv, WalkInv
    <2>2. ASSUME NEW p \in MadePackages' PROVE p \in Pkg /\ Done(p, "package")
      <3>1. CASE goal = World
        <4>1. PICK i \in DOMAIN Selected : p = Selected[i]
          BY <2>1, <2>2, <3>1 DEF MadePackages
        <4>2. Prereq(World) = Packages(Selected)
          BY DEF Prereq
        <4>3. i \in DOMAIN Prereq(World) /\ Prereq(World)[i] = <<p, "package">>
          BY <4>1, <4>2 DEF Packages
        <4>4. phase[Prereq(World)[i]] = "done"
          <5>1. World[2] = "world"
            BY DEF World
          <5>. QED
            BY <2>1, <3>1, <4>3, <5>1 DEF IInv, WalkInv
        <4>5. p \in Pkg
          BY <4>1, ConfigAssumption
        <4>. QED
          BY <4>3, <4>4, <4>5 DEF Done
      <3>2. CASE goal # World
        BY <2>1, <2>2, <3>2 DEF MadePackages, Done
      <3>. QED
        BY <3>1, <3>2
    <2>3. \A p \in MadePackages' : Installed(p)'
      BY <2>1, <2>2, PackageInstalled DEF Installed
    <2>. QED
      BY <2>1, <2>3 DEF Achieved, SuccessInstalls
  <1>3. CASE made' = made /\ stamp' = stamp /\ goal' = goal
    BY <1>3 DEF Achieved, SuccessInstalls, MadePackages, Installed
  <1>4. ASSUME made' = made, goal' = goal, goal # NoGoal PROVE Achieved'
    BY <1>1, <1>4 DEF Achieved
  <1>5. CASE Recipe
    <2>1. PICK p \in Pkg, k \in Step \cup Removal, v \in {"begun", "ran", "done"} : Works(p, k, v)
      BY <1>5, RecipeWorks DEF Recipe
    <2>2. goal # NoGoal /\ goal' = goal
      <3>1. <<p, k>> \in Targets
        BY StepNames
      <3>. QED
        BY <2>1, <3>1 DEF Works, Active, IInv, WalkInv, AllIdle
    <2>3. made' = made
      BY <1>5 DEF Recipe, RunStep, BeginDownload, EndDownload, BeginStep, EndStep, Touch,
            Uninstall, Clean, OpkgClean, Dirclean, RemoveOne, BeginRemoval, EndRemoval,
            RemoveStamp, UninstallStaging, UninstallTarget, BeginDirclean, EndDirclean, Moves
    <2>. QED
      BY <1>4, <2>2, <2>3
  <1>6. CASE Walk /\ ~MakeSucceeds
    BY <1>3, <1>6 DEF Walk, Descend, PhonyDone, disk
  <1>7. CASE CommandFails \/ User
    BY <1>1, <1>7 DEF CommandFails, User, Interrupt, Stop, RunMake, Reconfigure, Recompile
  <1>8. CASE UNCHANGED vars
    BY <1>3, <1>8 DEF vars
  <1>. QED
    BY <1>2, <1>5, <1>6, <1>7, <1>8 DEF Next, MakeStep

LEMMA AchievedHolds == Spec => []Achieved
  <1>1. Init => Achieved
    <2>1. NoGoal # World /\ \A p \in Pkg : NoGoal # <<p, "package">>
      BY ConfigAssumption DEF NoGoal, World
    <2>. QED
      BY <2>1 DEF Init, Achieved, SuccessInstalls, MadePackages
  <1>. QED
    BY <1>1, AchievedStep, InvHolds, PTL DEF Spec

(* A make that exits with success for a package or for the world has       *)
(* installed it, or all that is selected, everywhere it is to go.          *)
THEOREM SuccessIsInstalled == Spec => []SuccessInstalls
  BY AchievedHolds, PTL DEF Achieved
-----------------------------------------------------------------------------
(* Revisions *)

(* A package that is configured or compiled is so as the user asked last,  *)
(* unless he removes .stamp_configured alone.                              *)
WorkFresh ==
    \A p \in Pkg, s \in {"configured", "built"} : Whole(p, s) => tree[p][s] = want[p]

(* So is what it has installed, if it has a stamp or is about to, unless   *)
(* what it was made of was not whole.                                      *)
InstallsFresh ==
    \A p \in Pkg, s \in InstallStep : Ready(p, s) /\ Whole(p, s) => tree[p][s] = want[p]

LEMMA FreshStep ==
    ASSUME "configured" \notin UserRemoves, IInv, WorkFresh, InstallsFresh, [Next]_vars
    PROVE  WorkFresh' /\ InstallsFresh'
  <1>t. TypeOK
    BY DEF IInv
  <1>n. {"configured", "built"} \subseteq Work /\ Work \subseteq BuildStep
        /\ InstallStep \subseteq BuildStep /\ BuildStep \subseteq Step
    BY StepNames DEF Work, BuildStep
  <1>1. ASSUME NEW q \in Pkg, want'[q] # want[q]
        PROVE  /\ \A s \in Work : tree'[q][s] = Absent
               /\ \A s \in Step : ~Ready(q, s)'
    <2>1. PICK p \in Pkg : \E what \in UserRemoves : Reconfigure(p, what)
      BY <1>1 DEF Next, MakeStep, Walk, Descend, PhonyDone, MakeSucceeds, Recipe, RunStep,
            BeginDownload, EndDownload, BeginStep, EndStep, Touch, Uninstall, Clean,
            OpkgClean, Dirclean, RemoveOne, BeginRemoval, EndRemoval, RemoveStamp,
            UninstallStaging, UninstallTarget, BeginDirclean, EndDirclean, CommandFails,
            Interrupt, Stop, User, RunMake, Recompile, disk, vars
    <2>2. /\ goal = NoGoal /\ phase' = phase
          /\ want' = [want EXCEPT ![p] = want[p] + 1]
          /\ stamp' = stamp \ StampsOf(p) /\ tree' = [tree EXCEPT ![p] = DirGone(p)]
      BY <2>1 DEF Reconfigure
    <2>3. p = q
      BY <1>t, <1>1, <2>2 DEF TypeOK
    <2>4. \A s \in Work : tree'[q][s] = Absent
      BY <1>t, <1>n, <2>2, <2>3 DEF TypeOK, DirGone
    <2>5. \A s \in Step : phase[<<q, s>>] = "idle"
      BY <2>2, StepNames DEF IInv, WalkInv, AllIdle
    <2>. QED
      BY <2>2, <2>3, <2>4, <2>5 DEF Ready, StampsOf
  <1>2. ASSUME NEW q \in Pkg, NEW s \in {"configured", "built"}, Whole(q, s)'
        PROVE  tree'[q][s] = want'[q]
    <2>1. want'[q] = want[q]
      BY <1>n, <1>1, <1>2, ContentFacts DEF Whole
    <2>2. tree'[q][s] = tree[q][s] \/ EndStep(q, s)
      BY <1>t, <1>n, <1>2, NewResults
    <2>3. CASE EndStep(q, s)
      <3>1. /\ Whole(q, Input(s))
            /\ tree'[q][s] = IF s = "configured" THEN want[q] ELSE tree[q][Input(s)]
        BY <1>t, <1>n, <1>2, <2>3, StepMakes
      <3>. QED
        BY <2>1, <3>1 DEF WorkFresh, Input
    <2>4. CASE tree'[q][s] = tree[q][s]
      BY <1>2, <2>1, <2>4 DEF WorkFresh, Whole
    <2>. QED
      BY <2>2, <2>3, <2>4
  <1>3. ASSUME NEW q \in Pkg, NEW s \in InstallStep, Ready(q, s)', Whole(q, s)'
        PROVE  tree'[q][s] = want'[q]
    <2>1. want'[q] = want[q]
      BY <1>n, <1>1, <1>3
    <2>2. CASE EndStep(q, s)
      <3>1. Input(s) = "built" /\ s # "configured"
        BY DEF InstallStep, Input
      <3>2. Whole(q, "built") /\ tree'[q][s] = tree[q]["built"]
        BY <1>t, <1>n, <1>3, <2>2, <3>1, StepMakes
      <3>. QED
        BY <2>1, <3>2 DEF WorkFresh
    <2>3. CASE ~EndStep(q, s)
      BY <1>t, <1>n, <1>3, <2>1, <2>3, NewResults, NewStamps DEF InstallsFresh, Whole
    <2>. QED
      BY <2>2, <2>3
  <1>. QED
    BY <1>2, <1>3 DEF WorkFresh, InstallsFresh

(* As long as the user has a package rebuilt by removing its directory (or *)
(* its .stamp_built), what a make that succeeds has installed is made from *)
(* the configuration he asked for last, or of an input that was not whole. *)
THEOREM InstalledIsUpToDate ==
    ASSUME "configured" \notin UserRemoves
    PROVE  Spec => []UpToDate
  <1>1. Init => WorkFresh /\ InstallsFresh
    <2>1. Init => \A p \in Pkg, s \in Step \ {"downloaded"} : ~Whole(p, s)
      BY ContentFacts DEF Init, Whole
    <2>2. InstallStep \cup {"configured", "built"} \subseteq Step \ {"downloaded"}
      BY DEF Step, BuildStep, InstallStep
    <2>. QED
      BY <2>1, <2>2 DEF WorkFresh, InstallsFresh
  <1>2. IInv /\ WorkFresh /\ InstallsFresh /\ [Next]_vars => WorkFresh' /\ InstallsFresh'
    BY FreshStep
  <1>3. ASSUME IInv, Achieved, InstallsFresh PROVE UpToDate
    <2>1. SUFFICES ASSUME NEW p \in MadePackages, NEW s \in InstallSteps(p), Intact(p)
                   PROVE  tree[p][s] \in {want[p], Doubtful}
      BY DEF UpToDate
    <2>2. p \in Pkg
      BY <2>1, ConfigAssumption DEF MadePackages
    <2>3. s \in InstallStep /\ s \in BuildStep
      BY InstallStepsType
    <2>4. <<p, s>> \in stamp
      BY <1>3, <2>1 DEF Achieved, SuccessInstalls, Installed
    <2>5. Made(p, s)
      BY <1>3, <2>1, <2>2, <2>3, <2>4, StampedMade
    <2>. QED
      BY <1>3, <2>2, <2>3, <2>4, <2>5 DEF InstallsFresh, Ready, Made, Whole
  <1>. QED
    BY <1>1, <1>2, <1>3, InvHolds, AchievedHolds, PTL DEF Spec
-----------------------------------------------------------------------------
(* The walk is serial, goes forward and never blocks                       *)

(* How far below package the kinds of target are in the graph.             *)
Level(k) ==
    CASE k = "clean"        -> 17
      [] k = "uninstall"    -> 16
      [] k = "package"      -> 15
      [] k = "install"      -> 14
      [] k \in {"install-host", "install-staging", "install-target", "install-images",
                "build-opkg"} -> 13
      [] k = "build"        -> 12
      [] k = "configure"    -> 11
      [] k = "patch"        -> 10
      [] k = "extract"      -> 9
      [] k = "depends"      -> 8
      [] k = "source"       -> 7
      [] k = "dirclean"     -> 1
      [] OTHER              -> 0

Height(t)   == 20 * Rank[t[1]] + Level(t[2])
Below(u, t) == u # World /\ (t = World \/ Height(u) < Height(t))

LEMMA LevelType == \A k : Level(k) \in 0..17 /\ Level(k) \in Nat
  BY DEF Level

LEMMA TargetIs ==
    ASSUME NEW t \in Targets, t # World
    PROVE  t[1] \in Pkg /\ t[2] \in Kind /\ Rank[t[1]] \in Nat
  <1>1. t[1] \in Pkg /\ t[2] \in Kind
    BY DEF Targets
  <1>. QED
    BY <1>1, ConfigAssumption

(* The targets of a package list what is below them.                       *)
LEMMA OwnLevel ==
    ASSUME NEW p \in Pkg, NEW k \in Kind, NEW i \in DOMAIN Own(p, k)
    PROVE  Level(Own(p, k)[i]) < Level(k)
  <1>1. \A s \in Step \cup Removal : Level(s) = 0
    BY DEF Level, Step, BuildStep, InstallStep, Removal
  <1>2. CASE k \in Step \cup Removal
    BY <1>2, OwnIs, EmptyDomain, Zenon
  <1>3. /\ "host_installed" \in Step /\ "staging_installed" \in Step
        /\ "target_installed" \in Step /\ "images_installed" \in Step
        /\ "opkg_built" \in Step /\ "built" \in Step /\ "configured" \in Step
        /\ "patched" \in Step /\ "extracted" \in Step /\ "downloaded" \in Step
        /\ "uninstalled" \in Removal /\ "cleaned" \in Removal
        /\ "opkg_cleaned" \in Removal /\ "dircleaned" \in Removal
    BY DEF Step, BuildStep, InstallStep, Removal
  <1>4. \A a, b : (\A x \in {a, b} : Level(x) < Level(k)) /\ Own(p, k) \in {<<a>>, <<a, b>>, <<>>}
                  => Level(Own(p, k)[i]) < Level(k)
    OBVIOUS
  <1>5. CASE k \in {"install-staging", "install-target", "install-images", "build-opkg",
                    "install-host"}
    <2>1. \E s \in Step : Own(p, k) \in {<<"build", s>>, <<>>}
      BY <1>3, <1>5, OwnIs DEF IfEnabled
    <2>2. Level("build") < Level(k) /\ \A s \in Step : Level(s) < Level(k)
      BY <1>1, <1>5 DEF Level
    <2>. QED
      BY <1>4, <2>1, <2>2
  <1>6. CASE k \in {"build", "configure", "patch", "extract", "uninstall"}
    <2>1. \E a \in {"configure", "patch", "extract", "depends"}, s \in Step \cup Removal :
             Own(p, k) = <<a, s>> /\ Level(a) < Level(k)
      BY <1>3, <1>6, OwnIs DEF Level
    <2>2. \A s \in Step \cup Removal : Level(s) < Level(k)
      BY <1>1, <1>6 DEF Level
    <2>. QED
      BY <1>4, <2>1, <2>2
  <1>7. CASE k \in {"package", "depends", "source", "dirclean"}
    <2>1. PICK a : Own(p, k) = <<a>> /\ Level(a) < Level(k)
      BY <1>7, OwnIs DEF Level
    <2>. QED
      BY <2>1
  <1>8. CASE k = "install"
    <2>1. CASE p \in Host
      <3>1. Own(p, k) = <<"install-host">>
        BY <1>8, <2>1, OwnIs
      <3>. QED
        BY <1>8, <3>1 DEF Level
    <2>2. CASE p \notin Host
      <3>1. Own(p, k) = <<"install-staging", "install-target", "install-images", "build-opkg">>
        BY <1>8, <2>2, OwnIs
      <3>2. i \in 1 .. 4
        BY <3>1
      <3>. QED
        BY <1>8, <3>1, <3>2 DEF Level
    <2>. QED
      BY <2>1, <2>2
  <1>9. CASE k = "clean"
    BY <1>9, OwnIs DEF Level
  <1>. QED
    BY <1>2, <1>5, <1>6, <1>7, <1>8, <1>9 DEF Kind, Phony

LEMMA HeightType == ASSUME NEW t \in Targets, t # World PROVE Height(t) \in Nat
  BY LevelType, TargetIs DEF Height

(* The graph has no cycle.                                                 *)
LEMMA PrereqBelow ==
    ASSUME NEW t \in Targets, NEW i \in DOMAIN Prereq(t)
    PROVE  Below(Prereq(t)[i], t)
  <1>1. CASE t = World
    <2>1. Prereq(t)[i] = <<Selected[i], "package">> /\ i \in DOMAIN Selected
      BY <1>1 DEF Prereq, Packages
    <2>. QED
      BY <1>1, <2>1 DEF World, Below
  <1>2. CASE t # World
    <2>1. t[1] \in Pkg /\ t[2] \in Kind /\ Rank[t[1]] \in Nat /\ Level(t[2]) \in Nat
      BY <1>2, LevelType, TargetIs
    <2>2. CASE i \in DOMAIN Own(t[1], t[2]) /\ Prereq(t)[i] = <<t[1], Own(t[1], t[2])[i]>>
      <3>1. Level(Own(t[1], t[2])[i]) < Level(t[2])
        BY <2>1, <2>2, OwnLevel
      <3>2. Prereq(t)[i] # World
        BY <2>1, <2>2, ConfigAssumption DEF World
      <3>. QED
        BY <2>1, <2>2, <3>1, <3>2, LevelType DEF Below, Height
    <2>3. ASSUME t[2] = "depends", NEW d \in Pkg, Prereq(t)[i] = <<d, "package">>,
                 Rank[d] < Rank[t[1]]
          PROVE  Below(Prereq(t)[i], t)
      <3>1. Level("depends") = 8 /\ Level("package") = 15 /\ Rank[d] \in Nat
        BY ConfigAssumption DEF Level
      <3>2. Prereq(t)[i] # World
        BY <2>3, ConfigAssumption DEF World
      <3>. QED
        BY <2>1, <2>3, <3>1, <3>2 DEF Below, Height
    <2>. QED
      BY <1>2, <2>2, <2>3, PrereqIs
  <1>. QED
    BY <1>1, <1>2

(* A stamp file and a removal list nothing.                                *)
LEMMA RecipeLeaf ==
    ASSUME NEW p \in Pkg, NEW k \in Step \cup Removal
    PROVE  <<p, k>> \in Targets /\ \A i : i \notin DOMAIN Prereq(<<p, k>>)
  <1>1. k \in Kind /\ k # "depends"
    BY KindsDisjoint DEF Step, BuildStep, InstallStep, Removal
  <1>2. <<p, k>> \in Targets /\ <<p, k>> # World
    BY <1>1, GoalFacts
  <1>3. Own(p, k) = <<>>
    BY OwnIs
  <1>4. Prereq(<<p, k>>) = [i \in DOMAIN Own(p, k) |-> <<p, Own(p, k)[i]>>]
    BY <1>1, <1>2 DEF Prereq
  <1>. QED
    BY <1>2, <1>3, <1>4, EmptyDomain

(* The targets make is in: each reached from the one before, when all to   *)
(* its left was done.                                                      *)
IsStack(st) ==
    /\ st \in Seq(Targets)
    /\ \A u \in Targets : phase[u] \in Active <=> \E j \in DOMAIN st : st[j] = u
    /\ \A j \in 1 .. Len(st) - 1 : \E i \in DOMAIN Prereq(st[j]) :
          Prereq(st[j])[i] = st[j + 1] /\ LeftDone(st[j], i)
    /\ \A i, j \in DOMAIN st : i < j => Below(st[j], st[i])

StackInv ==
    /\ \E st \in Seq(Targets) : IsStack(st)
    /\ \A t \in Targets : phase[t] \in {"begun", "ran"} => t[2] \in Step \cup Removal
    /\ goal # NoGoal => phase[goal] # "idle"

(* A target that is under way with nothing under way below is the last.    *)
LEMMA OnTop ==
    ASSUME NEW st, IsStack(st), NEW t \in Targets, phase[t] \in Active,
           \A i \in DOMAIN Prereq(t) : LeftDone(t, i) => phase[Prereq(t)[i]] \notin Active
    PROVE  st # <<>> /\ Len(st) \in Nat \ {0} /\ t = st[Len(st)]
  <1>1. PICK j \in DOMAIN st : st[j] = t
    BY DEF IsStack
  <1>2. st \in Seq(Targets) /\ Len(st) \in Nat /\ j \in 1 .. Len(st)
    BY <1>1 DEF IsStack
  <1>3. CASE j # Len(st)
    <2>1. j \in 1 .. Len(st) - 1 /\ j + 1 \in DOMAIN st
      BY <1>2, <1>3
    <2>2. PICK i \in DOMAIN Prereq(t) : Prereq(t)[i] = st[j + 1] /\ LeftDone(t, i)
      BY <1>1, <2>1 DEF IsStack
    <2>3. phase[Prereq(t)[i]] \in Active
      BY <2>1, <2>2, <1>2 DEF IsStack
    <2>. QED
      BY <2>2, <2>3
  <1>. QED
    BY <1>1, <1>2, <1>3

(* make goes on with a target listed by the last one.                      *)
LEMMA Push ==
    ASSUME TypeOK, NEW st, IsStack(st), NEW u \in Targets, phase[u] \notin Active,
           phase' = [phase EXCEPT ![u] = "active"],
           \A t \in Targets : phase[t] = "done" => t # u,
           st # <<>> => \E i \in DOMAIN Prereq(st[Len(st)]) :
                           Prereq(st[Len(st)])[i] = u /\ LeftDone(st[Len(st)], i)
    PROVE  IsStack(Append(st, u))'
  <1> DEFINE new == Append(st, u)
             n   == Len(st)
  <1>1. /\ st \in Seq(Targets) /\ n \in Nat /\ new \in Seq(Targets) /\ Len(new) = n + 1
        /\ \A j \in 1 .. n : new[j] = st[j]
        /\ new[n + 1] = u /\ DOMAIN new = 1 .. n + 1 /\ DOMAIN st = 1 .. n
    BY DEF IsStack
  <1>2. /\ phase'[u] = "active"
        /\ \A t \in Targets : t # u => phase'[t] = phase[t]
    BY DEF TypeOK
  <1>3. \A t \in Targets : \A i \in DOMAIN Prereq(t) : LeftDone(t, i) => LeftDone(t, i)'
    BY <1>2, PrereqTarget DEF LeftDone
  <1>4. \A t \in Targets : phase'[t] \in Active <=> \E j \in DOMAIN new : new[j] = t
    <2>1. "active" \in Active
      BY DEF Active
    <2>. QED
      BY <1>1, <1>2, <2>1 DEF IsStack
  <1>5. ASSUME NEW j \in 1 .. n
        PROVE  \E i \in DOMAIN Prereq(new[j]) : Prereq(new[j])[i] = new[j + 1] /\ LeftDone(new[j], i)'
    <2>1. \E i \in DOMAIN Prereq(st[j]) : Prereq(st[j])[i] = new[j + 1] /\ LeftDone(st[j], i)
      <3>1. CASE j = n
        BY <1>1, <3>1
      <3>2. CASE j # n
        <4>1. j \in 1 .. Len(st) - 1 /\ new[j + 1] = st[j + 1]
          BY <1>1, <3>2
        <4>2. PICK i \in DOMAIN Prereq(st[j]) : Prereq(st[j])[i] = st[j + 1] /\ LeftDone(st[j], i)
          BY <4>1 DEF IsStack
        <4>. QED
          BY <4>1, <4>2
      <3>. QED
        BY <3>1, <3>2
    <2>2. st[j] \in Targets /\ new[j] = st[j]
      BY <1>1
    <2>. QED
      BY <2>1, <2>2, <1>3
  <1>6. ASSUME NEW i \in DOMAIN new, NEW j \in DOMAIN new, i < j
        PROVE  Below(new[j], new[i])
    <2>1. CASE j \in 1 .. n
      BY <1>1, <1>6, <2>1 DEF IsStack
    <2>2. CASE j = n + 1
      <3>1. i \in 1 .. n /\ n \in 1 .. n /\ st # <<>> /\ new[i] = st[i] /\ new[j] = u
        BY <1>1, <1>6, <2>2
      <3>2. st[n] \in Targets /\ st[i] \in Targets
        BY <1>1, <3>1
      <3>3. Below(u, st[n])
        BY <3>1, <3>2, PrereqBelow
      <3>4. i = n \/ Below(st[n], st[i])
        BY <1>1, <3>1 DEF IsStack
      <3>5. Below(u, st[i])
        BY <3>2, <3>3, <3>4, HeightType DEF Below
      <3>. QED
        BY <3>1, <3>5
    <2>. QED
      BY <1>1, <2>1, <2>2
  <1>. QED
    BY <1>1, <1>4, <1>5, <1>6 DEF IsStack

(* make is done with the last one.                                         *)
LEMMA Pop ==
    ASSUME TypeOK, NEW st, IsStack(st), st # <<>>, NEW t \in Targets, t = st[Len(st)],
           phase' = [phase EXCEPT ![t] = "done"]
    PROVE  \E new \in Seq(Targets) : IsStack(new)'
  <1> DEFINE n   == Len(st) - 1
             new == [j \in 1 .. n |-> st[j]]
  <1>1. /\ st \in Seq(Targets) /\ n \in Nat /\ DOMAIN st = 1 .. n + 1 /\ t = st[n + 1]
        /\ new \in Seq(Targets) /\ Len(new) = n /\ DOMAIN new = 1 .. n
        /\ \A j \in 1 .. n : new[j] = st[j] /\ st[j] \in Targets
    BY DEF IsStack
  <1>2. /\ phase'[t] = "done"
        /\ \A u \in Targets : u # t => phase'[u] = phase[u]
    BY DEF TypeOK
  <1>3. \A u \in Targets : \A i \in DOMAIN Prereq(u) : LeftDone(u, i) => LeftDone(u, i)'
    BY <1>2, PrereqTarget DEF LeftDone
  <1>4. \A j \in 1 .. n : st[j] # t
    <2>1. \A j \in 1 .. n : Below(t, st[j])
      BY <1>1 DEF IsStack
    <2>. QED
      BY <2>1, <1>1, HeightType DEF Below
  <1>5. "done" \notin Active
    BY DEF Active
  <1>6. \A u \in Targets : phase'[u] \in Active <=> \E j \in DOMAIN new : new[j] = u
    <2>1. ASSUME NEW u \in Targets, u # t
          PROVE  phase'[u] \in Active <=> \E j \in 1 .. n : st[j] = u
      <3>1. phase[u] \in Active <=> \E j \in 1 .. n + 1 : st[j] = u
        BY <1>1 DEF IsStack
      <3>. QED
        BY <1>1, <1>2, <2>1, <3>1
    <2>. QED
      BY <1>1, <1>2, <1>4, <1>5, <2>1
  <1>7. ASSUME NEW j \in 1 .. n - 1
        PROVE  \E i \in DOMAIN Prereq(new[j]) : Prereq(new[j])[i] = new[j + 1] /\ LeftDone(new[j], i)'
    <2>1. j \in 1 .. Len(st) - 1 /\ new[j] = st[j] /\ new[j + 1] = st[j + 1] /\ st[j] \in Targets
      BY <1>1
    <2>2. PICK i \in DOMAIN Prereq(st[j]) : Prereq(st[j])[i] = st[j + 1] /\ LeftDone(st[j], i)
      BY <2>1 DEF IsStack
    <2>. QED
      BY <2>1, <2>2, <1>3
  <1>8. \A i, j \in DOMAIN new : i < j => Below(new[j], new[i])
    BY <1>1 DEF IsStack
  <1>. QED
    BY <1>1, <1>6, <1>7, <1>8 DEF IsStack

LEMMA StackStep ==
    ASSUME TypeOK, WalkInv, StackInv, [Next]_vars
    PROVE  StackInv'
  <1>0. PhaseStep
    BY NextPhases
  <1>s. PICK st \in Seq(Targets) : IsStack(st)
    BY DEF StackInv
  <1>p. ASSUME NEW t \in Targets, phase[t] = "active" \/ phase[t] = "idle",
               NEW v \in {"active", "done"}, phase' = [phase EXCEPT ![t] = v]
        PROVE  \A u \in Targets : phase'[u] \in {"begun", "ran"} => u[2] \in Step \cup Removal
    BY <1>p DEF StackInv, TypeOK
  <1>e. ASSUME phase' = AllIdle, goal' = NoGoal PROVE StackInv'
    <2>1. IsStack(<<>>)'
      BY <1>e DEF IsStack, AllIdle, Active
    <2>2. \A t \in Targets : phase'[t] = "idle"
      BY <1>e DEF AllIdle
    <2>3. <<>> \in Seq(Targets)
      OBVIOUS
    <2>. QED
      BY <1>e, <2>1, <2>2, <2>3 DEF StackInv
  <1>1. CASE Exits
    BY <1>1, <1>e DEF Exits
  <1>2. CASE Rests
    <2>1. IsStack(st)'
      BY <1>2, <1>s DEF Rests, IsStack, LeftDone
    <2>. QED
      BY <1>2, <2>1 DEF Rests, StackInv
  <1>3. CASE Starts
    <2>1. PICK g \in Targets : g = goal'
      BY <1>3, GoalFacts DEF Starts
    <2>2. /\ phase = AllIdle /\ phase' = [phase EXCEPT ![g] = "active"]
          /\ \A t \in Targets : phase[t] = "idle"
      BY <1>3, <2>1 DEF Starts, WalkInv, AllIdle
    <2>3. IsStack(<<>>)
      BY <2>2 DEF IsStack, Active
    <2>4. IsStack(Append(<<>>, g))'
      <3>1. phase[g] \notin Active /\ \A t \in Targets : phase[t] = "done" => t # g
        BY <2>2 DEF Active
      <3>. QED
        BY <2>2, <2>3, <3>1, Push
    <2>5. phase'[g] = "active"
      BY <2>2 DEF TypeOK
    <2>6. Append(<<>>, g) \in Seq(Targets)
      OBVIOUS
    <2>. QED
      BY <2>1, <2>2, <2>4, <2>5, <2>6, <1>p DEF StackInv
  <1>4. ASSUME NEW t \in Targets, NEW i \in DOMAIN Prereq(t), Enters(t, i)
        PROVE  StackInv'
    <2> DEFINE u == Prereq(t)[i]
    <2>1. /\ u \in Targets /\ goal' = goal /\ phase[t] = "active" /\ phase[u] = "idle"
          /\ LeftDone(t, i) /\ phase' = [phase EXCEPT ![u] = IF u \in stamp THEN "done" ELSE "active"]
      BY <1>4, PrereqTarget DEF Enters, Descend
    <2>2. goal' # NoGoal => phase'[goal'] # "idle"
      BY <2>1, GoalFacts DEF StackInv, TypeOK, WalkInv
    <2>3. phase[t] \in Active /\ phase[u] \notin Active /\ "done" \notin Active
      BY <2>1 DEF Active
    <2>4. CASE u \in stamp
      <3>1. phase' = [phase EXCEPT ![u] = "done"]
        BY <2>1, <2>4
      <3>2. \A x \in Targets : /\ phase'[x] \in Active <=> phase[x] \in Active
                               /\ phase[x] = "done" => phase'[x] = "done"
        BY <2>1, <2>3, <3>1 DEF TypeOK
      <3>3. IsStack(st)'
        <4>1. \A x \in Targets : \A j \in DOMAIN Prereq(x) : LeftDone(x, j) => LeftDone(x, j)'
          BY <3>2, PrereqTarget DEF LeftDone
        <4>2. \A j \in 1 .. Len(st) - 1 : st[j] \in Targets
          OBVIOUS
        <4>. QED
          BY <1>s, <3>2, <4>1, <4>2 DEF IsStack
      <3>. QED
        BY <2>1, <2>2, <3>1, <3>3, <1>p DEF StackInv
    <2>5. CASE u \notin stamp
      <3>1. phase' = [phase EXCEPT ![u] = "active"]
        BY <2>1, <2>5
      <3>2. \A j \in DOMAIN Prereq(t) : LeftDone(t, j) => phase[Prereq(t)[j]] \notin Active
        <4> SUFFICES ASSUME NEW j \in DOMAIN Prereq(t), LeftDone(t, j)
                     PROVE  phase[Prereq(t)[j]] \notin Active
          OBVIOUS
        <4>1. i \in Nat \ {0} /\ j \in Nat \ {0}
          BY PrereqType
        <4>2. CASE j = i
          BY <4>2, <2>3
        <4>3. CASE j < i
          BY <4>1, <4>3, <2>1, <2>3 DEF LeftDone
        <4>4. CASE i < j
          BY <4>1, <4>4, <2>1 DEF LeftDone
        <4>. QED
          BY <4>1, <4>2, <4>3, <4>4
      <3>3. st # <<>> /\ t = st[Len(st)]
        BY <1>s, <2>3, <3>2, OnTop
      <3>4. \A x \in Targets : phase[x] = "done" => x # u
        BY <2>1
      <3>5. IsStack(Append(st, u))'
        BY <1>s, <2>1, <2>3, <3>1, <3>3, <3>4, Push
      <3>6. Append(st, u) \in Seq(Targets)
        BY <2>1
      <3>. QED
        BY <2>1, <2>2, <3>1, <3>5, <3>6, <1>p DEF StackInv
    <2>. QED
      BY <2>4, <2>5
  <1>5. ASSUME NEW t \in Targets, PhonyDone(t) PROVE StackInv'
    <2>1. /\ phase[t] = "active" /\ phase' = [phase EXCEPT ![t] = "done"] /\ goal' = goal
          /\ \A i \in DOMAIN Prereq(t) : phase[Prereq(t)[i]] \notin Active
      BY <1>5 DEF PhonyDone, Active
    <2>2. st # <<>> /\ t = st[Len(st)]
      BY <1>s, <2>1, OnTop DEF Active
    <2>3. \E new \in Seq(Targets) : IsStack(new)'
      BY <1>s, <2>1, <2>2, Pop
    <2>4. goal' # NoGoal => phase'[goal'] # "idle"
      BY <2>1, GoalFacts DEF StackInv, TypeOK, WalkInv
    <2>. QED
      BY <2>1, <2>3, <2>4, <1>p DEF StackInv
  <1>6. ASSUME NEW p \in Pkg, NEW k \in Step \cup Removal,
               NEW v \in {"begun", "ran", "done"}, Works(p, k, v)
        PROVE  StackInv'
    <2> DEFINE t == <<p, k>>
    <2>1. t \in Targets /\ \A i : i \notin DOMAIN Prereq(t)
      BY RecipeLeaf
    <2>2. phase[t] \in Active /\ phase' = [phase EXCEPT ![t] = v] /\ goal' = goal
      BY <1>6 DEF Works
    <2>3. \A u \in Targets : phase'[u] \in {"begun", "ran"} => u[2] \in Step \cup Removal
      BY <2>1, <2>2 DEF StackInv, TypeOK
    <2>4. goal' # NoGoal => phase'[goal'] # "idle"
      BY <2>1, <2>2, GoalFacts DEF StackInv, TypeOK, WalkInv
    <2>5. CASE v = "done"
      <3>1. st # <<>> /\ t = st[Len(st)]
        BY <1>s, <2>1, <2>2, OnTop
      <3>2. \E new \in Seq(Targets) : IsStack(new)'
        BY <1>s, <2>1, <2>2, <2>5, <3>1, Pop
      <3>. QED
        BY <2>3, <2>4, <3>2 DEF StackInv
    <2>6. CASE v # "done"
      <3>1. \A x \in Targets : /\ phase'[x] \in Active <=> phase[x] \in Active
                               /\ phase[x] = "done" => phase'[x] = "done"
        BY <2>1, <2>2, <2>6 DEF TypeOK, Active
      <3>2. IsStack(st)'
        <4>1. \A x \in Targets : \A j \in DOMAIN Prereq(x) : LeftDone(x, j) => LeftDone(x, j)'
          BY <3>1, PrereqTarget DEF LeftDone
        <4>2. \A j \in 1 .. Len(st) - 1 : st[j] \in Targets
          OBVIOUS
        <4>. QED
          BY <1>s, <3>1, <4>1, <4>2 DEF IsStack
      <3>. QED
        BY <2>3, <2>4, <3>2 DEF StackInv
    <2>. QED
      BY <2>5, <2>6
  <1>. QED
    BY <1>0, <1>1, <1>2, <1>3, <1>4, <1>5, <1>6 DEF PhaseStep

LEMMA StackHolds == Spec => []StackInv
  <1>1. Init => StackInv
    <2> SUFFICES ASSUME Init PROVE StackInv
      OBVIOUS
    <2>1. IsStack(<<>>)
      BY DEF Init, IsStack, AllIdle, Active
    <2>2. goal = NoGoal /\ \A t \in Targets : phase[t] = "idle"
      BY DEF Init, AllIdle
    <2>3. <<>> \in Seq(Targets)
      OBVIOUS
    <2>. QED
      BY <2>1, <2>2, <2>3 DEF StackInv
  <1>2. IInv => TypeOK /\ WalkInv
    BY DEF IInv
  <1>. QED
    BY <1>1, <1>2, StackStep, InvHolds, PTL DEF Spec

(* Two recipes never run at the same time: the steps of all packages are   *)
(* taken one after the other (.NOTPARALLEL).                               *)
OneRecipe ==
    \A p, q \in Pkg, k, l \in Step \cup Removal :
        phase[<<p, k>>] \in Active /\ phase[<<q, l>>] \in Active => p = q /\ k = l

THEOREM RecipesAreSerial == Spec => []OneRecipe
  <1>1. StackInv => OneRecipe
    <2> SUFFICES ASSUME StackInv, NEW p \in Pkg, NEW q \in Pkg,
                        NEW k \in Step \cup Removal, NEW l \in Step \cup Removal,
                        phase[<<p, k>>] \in Active, phase[<<q, l>>] \in Active
                 PROVE  p = q /\ k = l
      BY DEF OneRecipe
    <2>1. PICK st \in Seq(Targets) : IsStack(st)
      BY DEF StackInv
    <2>2. <<p, k>> = st[Len(st)]
      BY <2>1, RecipeLeaf, OnTop
    <2>3. <<q, l>> = st[Len(st)]
      BY <2>1, RecipeLeaf, OnTop
    <2>. QED
      BY <2>2, <2>3
  <1>. QED
    BY <1>1, StackHolds, PTL
-----------------------------------------------------------------------------
(* What never blocks and never goes back                                   *)

NatLess == {x \in Nat \X Nat : x[1] < x[2]}

LEMMA NatLessWellFounded == IsWellFoundedOn(NatLess, Nat)
  <1>1. NatLess = OpToRel(<, Nat)
    BY DEF NatLess, OpToRel
  <1>. QED
    BY <1>1, NatLessThanWellFounded

LEMMA LeastNatural ==
    ASSUME NEW T \in SUBSET Nat, T # {}
    PROVE  \E n \in T : \A m \in 0 .. n - 1 : m \notin T
  <1>1. \E x \in T : \A y \in T : ~ (<<y, x>> \in NatLess)
    BY WFMin, NatLessWellFounded
  <1>2. PICK x \in T : \A y \in T : ~ (<<y, x>> \in NatLess)
    BY <1>1
  <1>3. \A m \in 0 .. x - 1 : <<m, x>> \in NatLess
    BY DEF NatLess
  <1>. QED
    BY <1>2, <1>3

(* The walk can go on in target t.                                         *)
GoesOn(t) ==
    /\ phase[t] = "active"
    /\ t[2] \in Phony \cup {"world"}
    /\ \/ \A i \in DOMAIN Prereq(t) : phase[Prereq(t)[i]] = "done"
       \/ \E i \in DOMAIN Prereq(t) : phase[Prereq(t)[i]] = "idle" /\ LeftDone(t, i)

(* A make that runs has come to its end, has a target to go on with, or    *)
(* runs a recipe, whose next command succeeds or fails.                    *)
NeverBlocked ==
    goal # NoGoal =>
        \/ phase[goal] = "done"
        \/ \E t \in Targets : GoesOn(t)
        \/ \E p \in Pkg, k \in Step \cup Removal : phase[<<p, k>>] \in Active

(* The walk comes to a target all of whose prerequisites are done, or to   *)
(* the first one that is not, which nothing else is busy with: the graph   *)
(* has no cycle and everything that is under way is in one line above.     *)
THEOREM MakeNeverBlocks == Spec => []NeverBlocked
  <1>1. TypeOK /\ WalkInv /\ StackInv => NeverBlocked
    <2> SUFFICES ASSUME TypeOK, WalkInv, StackInv, goal # NoGoal, phase[goal] # "done"
                 PROVE  \/ \E t \in Targets : GoesOn(t)
                        \/ \E p \in Pkg, k \in Step \cup Removal : phase[<<p, k>>] \in Active
      BY DEF NeverBlocked
    <2>1. PICK st \in Seq(Targets) : IsStack(st)
      BY DEF StackInv
    <2>2. st # <<>>
      <3>1. goal \in Targets /\ phase[goal] \in Active
        BY GoalFacts DEF WalkInv, StackInv, TypeOK, Active
      <3>. QED
        BY <2>1, <3>1 DEF IsStack
    <2> DEFINE t == st[Len(st)]
    <2>3. t \in Targets /\ phase[t] \in Active /\ Len(st) \in DOMAIN st
      BY <2>1, <2>2 DEF IsStack
    <2>4. CASE t[2] \in Step \cup Removal
      <3>1. t \in Pkg \X Kind
        BY <2>3, <2>4, KindsDisjoint DEF Targets, World
      <3>2. t = <<t[1], t[2]>> /\ t[1] \in Pkg
        BY <3>1
      <3>. QED
        BY <2>3, <2>4, <3>2
    <2>5. CASE t[2] \notin Step \cup Removal
      <3>1. t[2] \in Phony \cup {"world"}
        BY <2>3, <2>5 DEF Targets, Kind, World
      <3>2. phase[t] = "active"
        BY <2>3, <2>5 DEF StackInv, Active
      <3>3. \A i \in DOMAIN Prereq(t) : phase[Prereq(t)[i]] \notin Active
        <4> SUFFICES ASSUME NEW i \in DOMAIN Prereq(t), phase[Prereq(t)[i]] \in Active
                     PROVE  FALSE
          OBVIOUS
        <4>1. Prereq(t)[i] \in Targets /\ Below(Prereq(t)[i], t)
          BY <2>3, PrereqTarget, PrereqBelow
        <4>2. PICK j \in DOMAIN st : st[j] = Prereq(t)[i]
          BY <2>1, <4>1 DEF IsStack
        <4>3. j = Len(st) \/ Below(t, Prereq(t)[i])
          BY <2>1, <2>3, <4>2 DEF IsStack
        <4>. QED
          BY <2>3, <4>1, <4>2, <4>3, HeightType DEF Below
      <3>4. CASE \A i \in DOMAIN Prereq(t) : phase[Prereq(t)[i]] = "done"
        BY <2>3, <3>1, <3>2, <3>4 DEF GoesOn
      <3>5. CASE \E i \in DOMAIN Prereq(t) : phase[Prereq(t)[i]] # "done"
        <4> DEFINE T == {i \in DOMAIN Prereq(t) : phase[Prereq(t)[i]] # "done"}
        <4>1. T \in SUBSET Nat /\ T # {}
          BY <2>3, <3>5, PrereqTarget
        <4>2. PICK i \in T : \A m \in 0 .. i - 1 : m \notin T
          BY <4>1, LeastNatural
        <4>3. i \in DOMAIN Prereq(t) /\ \A j \in 1 .. i - 1 : j \in DOMAIN Prereq(t)
          BY <2>3, <4>2, PrereqTarget
        <4>4. LeftDone(t, i)
          BY <4>2, <4>3 DEF LeftDone
        <4>5. phase[Prereq(t)[i]] = "idle"
          BY <2>3, <3>3, <4>2, <4>3, PrereqTarget DEF TypeOK, Active
        <4>. QED
          BY <2>3, <3>1, <3>2, <4>3, <4>4, <4>5 DEF GoesOn
      <3>. QED
        BY <3>4, <3>5
    <2>. QED
      BY <2>4, <2>5
  <1>2. IInv => TypeOK /\ WalkInv
    BY DEF IInv
  <1>. QED
    BY <1>1, <1>2, StackHolds, InvHolds, PTL

(* The phases of a target, in order.                                       *)
Order(x) == CASE x = "idle" -> 0 [] x = "active" -> 1 [] x = "begun" -> 2 [] x = "ran" -> 3
              [] x = "done" -> 4

(* While a make runs every step takes one target forward, and none back:   *)
(* after at most four steps for each target it is over.                    *)
Advances ==
    goal # NoGoal /\ goal' = goal =>
        \E t \in Targets, x \in {"active", "begun", "ran", "done"} :
           Order(x) > Order(phase[t]) /\ phase' = [phase EXCEPT ![t] = x]

LEMMA RecipeAdvances ==
    ASSUME TypeOK, Recipe
    PROVE  \E t \in Targets, x \in {"begun", "ran", "done"} :
              Order(x) > Order(phase[t]) /\ phase' = [phase EXCEPT ![t] = x]
  <1>1. ASSUME NEW p \in Pkg, NEW k \in Step \cup Removal,
               \/ Moves(p, k, "active", "begun") \/ Moves(p, k, "active", "ran")
               \/ Moves(p, k, "begun", "ran") \/ Moves(p, k, "begun", "done")
               \/ Moves(p, k, "ran", "done")
        PROVE  \E t \in Targets, x \in {"begun", "ran", "done"} :
                  Order(x) > Order(phase[t]) /\ phase' = [phase EXCEPT ![t] = x]
    <2>1. <<p, k>> \in Targets
      BY RecipeLeaf
    <2>. QED
      BY <1>1, <2>1 DEF Moves, Order
  <1>2. /\ "downloaded" \in Step
        /\ Removal = {"uninstalled", "cleaned", "opkg_cleaned", "dircleaned"}
    BY DEF Step, Removal
  <1>3. PICK p \in Pkg : \/ \E s \in Step : RunStep(p, s)
                         \/ Uninstall(p) \/ Clean(p) \/ OpkgClean(p) \/ Dirclean(p)
    BY DEF Recipe
  <1>4. CASE \E s \in Step : RunStep(p, s)
    BY <1>1, <1>2, <1>4 DEF RunStep, BeginDownload, EndDownload, BeginStep, EndStep, Touch
  <1>5. CASE Uninstall(p) \/ Clean(p) \/ OpkgClean(p) \/ Dirclean(p)
    BY <1>1, <1>2, <1>5
    DEF Uninstall, Clean, OpkgClean, Dirclean, RemoveOne, BeginRemoval, EndRemoval,
        RemoveStamp, UninstallStaging, UninstallTarget, BeginDirclean, EndDirclean
  <1>. QED
    BY <1>3, <1>4, <1>5

THEOREM MakeAdvances == Spec => [][Advances]_vars
  <1>1. TypeOK /\ WalkInv /\ [Next]_vars => [Advances]_vars
    <2> SUFFICES ASSUME TypeOK, WalkInv, Next, goal # NoGoal, goal' = goal PROVE Advances
      BY DEF Advances
    <2>1. CASE Recipe
      <3>1. \E t \in Targets, x \in {"begun", "ran", "done"} :
               Order(x) > Order(phase[t]) /\ phase' = [phase EXCEPT ![t] = x]
        BY <2>1, RecipeAdvances
      <3>. QED
        BY <3>1 DEF Advances
    <2>a. ASSUME NEW t \in Targets, NEW x \in {"active", "done"}, phase[t] \in {"idle", "active"},
                 phase[t] # x, x = "active" => phase[t] = "idle",
                 phase' = [phase EXCEPT ![t] = x]
          PROVE  Advances
      <3>1. Order(x) > Order(phase[t])
        BY <2>a DEF Order
      <3>. QED
        BY <2>a, <3>1 DEF Advances
    <2>2. ASSUME NEW t \in Targets, NEW i \in DOMAIN Prereq(t), Descend(t, i) PROVE Advances
      <3>1. Prereq(t)[i] \in Targets
        BY PrereqTarget
      <3>2. /\ phase[Prereq(t)[i]] = "idle"
            /\ \E x \in {"active", "done"} : phase' = [phase EXCEPT ![Prereq(t)[i]] = x]
        BY <2>2 DEF Descend
      <3>. QED
        BY <3>1, <3>2, <2>a
    <2>3. ASSUME NEW t \in Targets, PhonyDone(t) PROVE Advances
      BY <2>3, <2>a DEF PhonyDone
    <2>4. ~ (MakeSucceeds \/ CommandFails \/ User)
      BY DEF MakeSucceeds, CommandFails, Stop, User, RunMake, Interrupt, Reconfigure, Recompile
    <2>. QED
      BY <2>1, <2>2, <2>3, <2>4 DEF Next, MakeStep, Walk
  <1>2. IInv => TypeOK /\ WalkInv
    BY DEF IInv
  <1>. QED
    BY <1>1, <1>2, InvHolds, PTL DEF Spec
=============================================================================
