---------------------------- MODULE PackageInfra ----------------------------
(***************************************************************************)
(* The generic package infrastructure of package/Makefile.package.in: the  *)
(* graph of make targets GENTARGETS_INNER generates for each package, the  *)
(* walk GNU make does over it (one target at a time: .NOTPARALLEL), the    *)
(* recipes behind the stamp files, and the user who starts make, stops it, *)
(* and removes stamps or build directories by hand as the manual tells.    *)
(*                                                                         *)
(* A target is a pair <<package, kind>>.  The kinds in Step are files:     *)
(* <<p, "built">> is p's .stamp_built.  They have no prerequisites, so     *)
(* make runs such a recipe exactly when the file does not exist.  The      *)
(* other kinds are phony and have prerequisites but no recipe.             *)
(*                                                                         *)
(* tree[p][s] is what step s of p has left on disk: Absent, Partial (the   *)
(* commands began and did not end), the revision of the package's          *)
(* configuration the result was made from, or Doubtful: the commands ended *)
(* well on an input that was not whole, as they may.  It is what a stamp   *)
(* stands for.                                                             *)
(***************************************************************************)
EXTENDS Integers, Sequences

CONSTANTS
    Pkg,          \* packages (generic, autotools and host packages alike)
    Host,         \* packages of type "host"
    Staging,      \* packages with INSTALL_STAGING = YES
    Target,       \* packages with INSTALL_TARGET = YES
    Images,       \* packages with INSTALL_IMAGES = YES
    Opkg,         \* packages with BR2_BUILD_OPKG and BUILD_OPKG = yYES
    Patched,      \* packages that have at least one patch
    Sourced,      \* packages with a _SOURCE or a _PATCH to download
    Deps,         \* Deps[p] is p's _DEPENDENCIES, in order
    Rank,         \* an order of the packages that shows Deps has no cycle
    Selected,     \* TARGETS: the packages the configuration selects, in order
    Goals,        \* the make goals the user may ask for
    UserRemoves,  \* what the user removes by hand: "configured", "built", "dir"
    MaxRev        \* bound: configurations of one package the user tries

InstallStep == {"host_installed", "staging_installed", "target_installed",
                "images_installed", "opkg_built"}
BuildStep   == {"extracted", "patched", "configured", "built"} \cup InstallStep
Step        == {"downloaded"} \cup BuildStep
Removal     == {"uninstalled", "cleaned", "opkg_cleaned", "dircleaned"}
Phony       == {"package", "install", "install-host", "install-staging",
                "install-target", "install-images", "build-opkg", "build",
                "configure", "patch", "extract", "depends", "source",
                "uninstall", "clean", "dirclean"}
Kind        == Step \cup Removal \cup Phony

World  == <<"all", "world">>
NoGoal == <<"none", "none">>
Targets == (Pkg \X Kind) \cup {World}

Absent   == 0
Partial  == -1
Doubtful == -2
Rev      == Nat \ {0}
Content  == {Absent, Partial, Doubtful} \cup Rev

ASSUME ConfigAssumption ==
    /\ {"all", "none"} \cap Pkg = {}
    /\ Deps \in [Pkg -> Seq(Pkg)]
    /\ Rank \in [Pkg -> Nat]
    /\ \A p \in Pkg : \A i \in DOMAIN Deps[p] : Rank[Deps[p][i]] < Rank[p]
    /\ Selected \in Seq(Pkg)
    /\ Goals \subseteq (Pkg \X Phony) \cup {World}
    /\ MaxRev \in Nat
-----------------------------------------------------------------------------
VARIABLES
    goal,    \* the goal of the running make, NoGoal when none runs
    phase,   \* how far the running make is with each target
    stamp,   \* the stamp files that exist
    tree,    \* what each step has left on disk
    want,    \* revision of each package's configuration the user asks for
    torn,    \* removal recipes that began and have not run to their end since
    made     \* the goal of the last make if it exited with success

vars == <<goal, phase, stamp, tree, want, torn, made>>
disk == <<stamp, tree, want, torn>>

AllIdle == [t \in Targets |-> "idle"]

Init ==
    /\ goal = NoGoal
    /\ phase = AllIdle
    /\ stamp = {}
    /\ tree = [p \in Pkg |-> [s \in Step |->
                  IF s = "downloaded" /\ p \notin Sourced THEN 1 ELSE Absent]]
    /\ want = [p \in Pkg |-> 1]
    /\ torn = {}
    /\ made = NoGoal
-----------------------------------------------------------------------------
(* The target graph *)

(* Definitions marked "Mutant" are used by no specification: each is a     *)
(* plausible wrong version of the definition it precedes, with which TLC   *)
(* must find a property violated.                                          *)

(* Mutant of IfEnabled: the test of INSTALL_STAGING and the like inverted. *)
MutantInverted(p, enabled, s) == IF p \in enabled THEN <<>> ELSE <<"build", s>>

(* One install phony per destination; an empty rule when it is disabled.   *)
IfEnabled(p, enabled, s) == IF p \in enabled THEN <<"build", s>> ELSE <<>>

(* The kinds of p's own targets that target <<p, k>> lists, in order.      *)
Own(p, k) ==
    CASE k = "package"         -> <<"install">>
      [] k = "install"         -> IF p \in Host THEN <<"install-host">>
                                  ELSE <<"install-staging", "install-target",
                                         "install-images", "build-opkg">>
      [] k = "install-host"    -> <<"build", "host_installed">>
      [] k = "install-staging" -> IfEnabled(p, Staging, "staging_installed")
      [] k = "install-target"  -> IfEnabled(p, Target, "target_installed")
      [] k = "install-images"  -> IfEnabled(p, Images, "images_installed")
      [] k = "build-opkg"      -> IfEnabled(p, Opkg, "opkg_built")
      [] k = "build"           -> <<"configure", "built">>
      [] k = "configure"       -> <<"patch", "configured">>
      [] k = "patch"           -> <<"extract", "patched">>
      [] k = "extract"         -> <<"depends", "extracted">>
      [] k = "depends"         -> <<"source">>
      [] k = "source"          -> <<"downloaded">>
      [] k = "uninstall"       -> <<"configure", "uninstalled">>
      [] k = "clean"           -> IF p \in Opkg
                                  THEN <<"uninstall", "cleaned", "opkg_cleaned">>
                                  ELSE <<"uninstall", "cleaned">>
      [] k = "dirclean"        -> <<"dircleaned">>
      [] OTHER                 -> <<>>

Packages(seq) == [i \in DOMAIN seq |-> <<seq[i], "package">>]

(* Mutant of Prereq: foo-depends without foo's dependencies.               *)
MutantNoDeps(t) ==
    IF t = World THEN Packages(Selected)
    ELSE [i \in DOMAIN Own(t[1], t[2]) |-> <<t[1], Own(t[1], t[2])[i]>>]

(* Everything target t lists, in order.                                    *)
Prereq(t) ==
    IF t = World THEN Packages(Selected)
    ELSE LET own == [i \in DOMAIN Own(t[1], t[2]) |-> <<t[1], Own(t[1], t[2])[i]>>]
         IN  IF t[2] = "depends" THEN own \o Packages(Deps[t[1]]) ELSE own

(* Mutant of LeftDone: make -j without .NOTPARALLEL.                       *)
MutantParallel(t, i) == i \in DOMAIN Prereq(t)

(* .NOTPARALLEL: a prerequisite is not considered before those to its left *)
(* are up to date.                                                         *)
LeftDone(t, i) == \A j \in 1 .. i - 1 : phase[Prereq(t)[j]] = "done"
-----------------------------------------------------------------------------
(* The walk *)

(* make considers the next prerequisite of a target.  A stamp file that    *)
(* exists is up to date at once.                                           *)
Descend(t, i) ==
    LET u == Prereq(t)[i] IN
    /\ phase[t] = "active"
    /\ phase[u] = "idle"
    /\ LeftDone(t, i)
    /\ phase' = [phase EXCEPT ![u] = IF u \in stamp THEN "done" ELSE "active"]
    /\ UNCHANGED <<goal, disk, made>>

(* Mutant of PhonyDone: no empty rule for what is disabled.                *)
MutantNoEmptyRule(t) ==
    /\ phase[t] = "active"
    /\ t[2] \in Phony \cup {"world"}
    /\ DOMAIN Prereq(t) # {}
    /\ \A i \in DOMAIN Prereq(t) : phase[Prereq(t)[i]] = "done"
    /\ phase' = [phase EXCEPT ![t] = "done"]
    /\ UNCHANGED <<goal, disk, made>>

(* A phony target is done when all it lists is.                            *)
PhonyDone(t) ==
    /\ phase[t] = "active"
    /\ t[2] \in Phony \cup {"world"}
    /\ \A i \in DOMAIN Prereq(t) : phase[Prereq(t)[i]] = "done"
    /\ phase' = [phase EXCEPT ![t] = "done"]
    /\ UNCHANGED <<goal, disk, made>>

MakeSucceeds ==
    /\ goal # NoGoal
    /\ phase[goal] = "done"
    /\ goal' = NoGoal
    /\ made' = goal
    /\ phase' = AllIdle
    /\ UNCHANGED disk

(* make stops: the failed or interrupted recipe leaves what it has done.   *)
Stop ==
    /\ goal' = NoGoal
    /\ made' = NoGoal
    /\ phase' = AllIdle
    /\ UNCHANGED disk
-----------------------------------------------------------------------------
(* The recipes of the build steps: the commands begin, end, touch $@.      *)

Input(s) ==
    CASE s = "extracted"  -> "downloaded"
      [] s = "patched"    -> "extracted"
      [] s = "configured" -> "patched"
      [] s = "built"      -> "configured"
      [] OTHER            -> "built"

Moves(p, k, from, to) ==
    /\ phase[<<p, k>>] = from
    /\ phase' = [phase EXCEPT ![<<p, k>>] = to]
    /\ UNCHANGED <<goal, made>>

(* Without a _SOURCE there is nothing to do.  DOWNLOAD tests only that the *)
(* archive is there (test -e): a truncated one passes.  It lives in        *)
(* DL_DIR, outside the build directory.                                    *)
BeginDownload(p) ==
    /\ IF tree[p]["downloaded"] = Absent
       THEN /\ Moves(p, "downloaded", "active", "begun")
            /\ tree' = [tree EXCEPT ![p]["downloaded"] = Partial]
       ELSE /\ Moves(p, "downloaded", "active", "ran")
            /\ UNCHANGED tree
    /\ UNCHANGED <<stamp, want, torn>>

EndDownload(p) ==
    /\ Moves(p, "downloaded", "begun", "ran")
    /\ tree' = [tree EXCEPT ![p]["downloaded"] = 1]
    /\ UNCHANGED <<stamp, want, torn>>

(* Unpacking the archive again puts the unpatched files back.              *)
Begun(p, s) ==
    [x \in Step |-> IF x = s THEN Partial
                   ELSE IF x = "patched" /\ s = "extracted" THEN Absent
                   ELSE tree[p][x]]

(* A patch does not apply to a tree that has it: patch-kernel.sh aborts.   *)
BeginStep(p, s) ==
    /\ Moves(p, s, "active", "begun")
    /\ (s = "patched" /\ p \in Patched) => tree[p]["patched"] = Absent
    /\ tree' = [tree EXCEPT ![p] = Begun(p, s)]
    /\ UNCHANGED <<stamp, want, torn>>

(* Each step works on the result of the one before it; configure reads the *)
(* package's current configuration.  The status of a step does not tell    *)
(* that its input was whole: a truncated archive is unpacked as far as it  *)
(* goes (INFLATE | tar, whose status is tar's), a tree that clean has half *)
(* removed is installed from.                                              *)
EndStep(p, s) ==
    LET in == tree[p][Input(s)] IN
    /\ Moves(p, s, "begun", "ran")
    /\ tree' = [tree EXCEPT ![p][s] = IF in \notin Rev THEN Doubtful
                                    ELSE IF s = "configured" THEN want[p] ELSE in]
    /\ UNCHANGED <<stamp, want, torn>>

Touch(p, s) ==
    /\ Moves(p, s, "ran", "done")
    /\ stamp' = stamp \cup {<<p, s>>}
    /\ UNCHANGED <<tree, want, torn>>
-----------------------------------------------------------------------------
(* The recipes that remove: commands first, rm -f of the stamp last.  None *)
(* of them touches its own target, so each runs whenever it is asked for.  *)

Decay(c) == IF c = Absent THEN Absent ELSE Partial

BeginRemoval(p, k, s) ==
    /\ Moves(p, k, "active", "begun")
    /\ tree' = [tree EXCEPT ![p][s] = Decay(@)]
    /\ torn' = torn \cup {<<p, k>>}
    /\ UNCHANGED <<stamp, want>>

EndRemoval(p, k, s) ==
    /\ Moves(p, k, "begun", "ran")
    /\ tree' = [tree EXCEPT ![p][s] = Absent]
    /\ UNCHANGED <<stamp, want, torn>>

(* Mutant of RemoveStamp: the recipe touches $@, as the build steps do.    *)
MutantTouches(p, k, s) ==
    /\ Moves(p, k, "ran", "done")
    /\ stamp' = (stamp \ {<<p, s>>}) \cup {<<p, k>>}
    /\ torn' = torn \ {<<p, k>>}
    /\ UNCHANGED <<tree, want>>

RemoveStamp(p, k, s) ==
    /\ Moves(p, k, "ran", "done")
    /\ stamp' = stamp \ {<<p, s>>}
    /\ torn' = torn \ {<<p, k>>}
    /\ UNCHANGED <<tree, want>>

(* Mutant of UninstallStaging: no rm -f of the staging stamp.              *)
MutantKeepsStamp(p) ==
    /\ Moves(p, "uninstalled", "begun", "ran")
    /\ tree' = [tree EXCEPT ![p]["staging_installed"] = Absent,
                            ![p]["target_installed"] = Decay(@)]
    /\ UNCHANGED <<stamp, want, torn>>

(* UNINSTALL_STAGING_CMDS, rm, UNINSTALL_TARGET_CMDS, rm                   *)
UninstallStaging(p) ==
    /\ Moves(p, "uninstalled", "begun", "ran")
    /\ stamp' = stamp \ {<<p, "staging_installed">>}
    /\ tree' = [tree EXCEPT ![p]["staging_installed"] = Absent,
                            ![p]["target_installed"] = Decay(@)]
    /\ UNCHANGED <<want, torn>>

(* Mutant of UninstallTarget: no rm -f of the target stamp.                *)
MutantKeepsTarget(p) ==
    /\ Moves(p, "uninstalled", "ran", "done")
    /\ tree' = [tree EXCEPT ![p]["target_installed"] = Absent]
    /\ torn' = torn \ {<<p, "uninstalled">>}
    /\ UNCHANGED <<stamp, want>>

UninstallTarget(p) ==
    /\ Moves(p, "uninstalled", "ran", "done")
    /\ stamp' = stamp \ {<<p, "target_installed">>}
    /\ tree' = [tree EXCEPT ![p]["target_installed"] = Absent]
    /\ torn' = torn \ {<<p, "uninstalled">>}
    /\ UNCHANGED want

(* Mutant of StampsOf: the stamps kept outside the build directory.        *)
MutantStampsElsewhere(p) == {x \in stamp : x[1] = p /\ x[2] = "dircleaned"}

StampsOf(p) == {x \in stamp : x[1] = p}

(* The archive, and what was installed elsewhere, survive the directory;   *)
(* the stamps and the work in it do not.                                   *)
Work == {"extracted", "patched", "configured", "built"}
DirGone(p)  == [s \in Step |-> IF s \in Work THEN Absent ELSE tree[p][s]]
DirDecay(p) == [s \in Step |-> IF s \in Work THEN Decay(tree[p][s]) ELSE tree[p][s]]
Mended(p)   == {x \in torn : x[1] # p}

(* rm -Rf of the directory removes its entries in no particular order.     *)
BeginDirclean(p) ==
    /\ Moves(p, "dircleaned", "active", "begun")
    /\ \E kept \in SUBSET StampsOf(p) : stamp' = (stamp \ StampsOf(p)) \cup kept
    /\ tree' = [tree EXCEPT ![p] = DirDecay(p)]
    /\ torn' = torn \cup {<<p, "dircleaned">>}
    /\ UNCHANGED want

EndDirclean(p) ==
    /\ Moves(p, "dircleaned", "begun", "done")
    /\ stamp' = stamp \ StampsOf(p)
    /\ tree' = [tree EXCEPT ![p] = DirGone(p)]
    /\ torn' = Mended(p)
    /\ UNCHANGED want
-----------------------------------------------------------------------------
(* Composition *)

RunStep(p, s) ==
    IF s = "downloaded" THEN BeginDownload(p) \/ EndDownload(p) \/ Touch(p, s)
    ELSE BeginStep(p, s) \/ EndStep(p, s) \/ Touch(p, s)

Uninstall(p) ==
    \/ BeginRemoval(p, "uninstalled", "staging_installed")
    \/ UninstallStaging(p)
    \/ UninstallTarget(p)

RemoveOne(p, k, s) ==
    BeginRemoval(p, k, s) \/ EndRemoval(p, k, s) \/ RemoveStamp(p, k, s)

Clean(p)     == RemoveOne(p, "cleaned", "built")
OpkgClean(p) == RemoveOne(p, "opkg_cleaned", "opkg_built")
Dirclean(p)  == BeginDirclean(p) \/ EndDirclean(p)

(* A command of the recipe being run returns an error.                     *)
CommandFails ==
    /\ \E p \in Pkg, k \in Step \cup Removal :
          phase[<<p, k>>] \in {"active", "begun", "ran"}
    /\ Stop

Walk ==
    \/ \E t \in {u \in Targets : phase[u] = "active"} :
          (\E i \in DOMAIN Prereq(t) : Descend(t, i)) \/ PhonyDone(t)
    \/ MakeSucceeds

Recipe ==
    \E p \in Pkg :
        \/ \E s \in Step : RunStep(p, s)
        \/ Uninstall(p) \/ Clean(p) \/ OpkgClean(p) \/ Dirclean(p)

MakeStep == Walk \/ Recipe \/ CommandFails

RunMake(g) ==
    /\ goal = NoGoal
    /\ goal' = g
    /\ phase' = [phase EXCEPT ![g] = "active"]
    /\ made' = NoGoal
    /\ UNCHANGED disk

(* The power goes, or the user types ^C.                                   *)
Interrupt == goal # NoGoal /\ Stop

(* The user changes a package's configuration and, to have it rebuilt,     *)
(* removes its .stamp_configured or its whole build directory.             *)
Reconfigure(p, what) ==
    /\ goal = NoGoal
    /\ what \in UserRemoves
    /\ want[p] < MaxRev
    /\ want' = [want EXCEPT ![p] = @ + 1]
    /\ \/ /\ what = "configured"
          /\ stamp' = stamp \ {<<p, "configured">>}
          /\ UNCHANGED <<tree, torn>>
       \/ /\ what = "dir"
          /\ stamp' = stamp \ StampsOf(p)
          /\ tree' = [tree EXCEPT ![p] = DirGone(p)]
          /\ torn' = Mended(p)
    /\ made' = NoGoal
    /\ UNCHANGED <<goal, phase>>

(* To have it compiled again the user removes .stamp_built.                *)
Recompile(p) ==
    /\ goal = NoGoal
    /\ "built" \in UserRemoves
    /\ stamp' = stamp \ {<<p, "built">>}
    /\ made' = NoGoal
    /\ UNCHANGED <<goal, phase, tree, want, torn>>

User ==
    \/ \E g \in Goals : RunMake(g)
    \/ Interrupt
    \/ \E p \in Pkg : Recompile(p) \/ \E what \in UserRemoves : Reconfigure(p, what)

Next == MakeStep \/ User
Spec == Init /\ [][Next]_vars

(* make, once started, keeps going; nobody has to start it, or to stop it. *)
FairSpec == Spec /\ WF_vars(MakeStep)
-----------------------------------------------------------------------------
(* Properties *)

TypeOK ==
    /\ goal \in Targets \cup {NoGoal}
    /\ phase \in [Targets -> {"idle", "active", "begun", "ran", "done"}]
    /\ stamp \subseteq Pkg \X Step
    /\ tree \in [Pkg -> [Step -> Content]]
    /\ want \in [Pkg -> Rev]
    /\ torn \subseteq Pkg \X Removal
    /\ made \in Targets \cup {NoGoal}

Intact(p) == \A x \in torn : x[1] # p

(* The commands of step s have ended and nothing they made is gone.        *)
Made(p, s) == tree[p][s] \in Rev \cup {Doubtful}

(* A stamp file tells that the step has been done (docs/buildroot.html:465 *)
(* "empty files that just tell whether this or that action has been        *)
(* done"): all its commands have made is on disk, whatever was             *)
(* interrupted, failed or removed by hand before -- for packages whose     *)
(* last uninstall, clean or dirclean, if any, ran to its end.  The archive *)
(* is the exception: the stamp is made over a truncated one.               *)
StampsHonest ==
    \A x \in stamp : Intact(x[1]) /\ x[2] # "downloaded" => Made(x[1], x[2])

InstallSteps(p) ==
    IF p \in Host THEN {"host_installed"}
    ELSE {s \in InstallStep : \/ s = "staging_installed" /\ p \in Staging
                              \/ s = "target_installed" /\ p \in Target
                              \/ s = "images_installed" /\ p \in Images
                              \/ s = "opkg_built" /\ p \in Opkg}

Installed(p) == {<<p, s>> : s \in InstallSteps(p)} \subseteq stamp

Running(p, s) == phase[<<p, s>>] \in {"active", "begun", "ran"}

(* "declare our dependencies, so that they are built before the build      *)
(* process of our package starts" (docs/buildroot.html:1265): while any    *)
(* step of a package past the download runs, everything its dependencies   *)
(* install is installed, and is still there.                               *)
DepsInstalled ==
    \A p \in Pkg : (\E s \in BuildStep : Running(p, s)) =>
        \A i \in DOMAIN Deps[p] :
            LET d == Deps[p][i] IN
            /\ Installed(d)
            /\ Intact(d) => \A s \in InstallSteps(d) : Made(d, s)

(* No step of a package is run on a tree the step before has not finished, *)
(* so no recipe fails for the order the targets are walked in.             *)
InputsReady ==
    \A p \in Pkg, s \in BuildStep \ {"extracted"} :
        Running(p, s) /\ Intact(p) => <<p, Input(s)>> \in stamp /\ Made(p, Input(s))

(* Whatever runs finds done what it needs, in its package and in those     *)
(* before it.                                                              *)
StepsReady == DepsInstalled /\ InputsReady

MadePackages ==
    IF made = World THEN {Selected[i] : i \in DOMAIN Selected}
    ELSE {p \in Pkg : made = <<p, "package">>}

(* When make exits with success for a package, or for the world, all that  *)
(* was asked for is installed in every destination it is enabled for.      *)
SuccessInstalls == \A p \in MadePackages : Installed(p)

(* "remove its build directory.  Buildroot will then re-extract,           *)
(* re-configure, re-compile and re-install this package from scratch"      *)
(* (docs/buildroot.html:453): after the next successful make, what is      *)
(* installed is made from the configuration the user asked for last, but   *)
(* for what is made of a truncated archive or of a tree that an            *)
(* interrupted clean has half removed, of which no status tells.           *)
UpToDate ==
    \A p \in MadePackages : \A s \in InstallSteps(p) :
        Intact(p) => tree[p][s] \in {want[p], Doubtful}

(* The dependency and step order, as an abstract machine (see Steps).      *)
StepsDone == {x \in stamp : x[2] # "downloaded"}
Needs(p, s) == IF s = "extracted"
               THEN UNION {{<<Deps[p][i], j>> : j \in InstallSteps(Deps[p][i])} :
                           i \in DOMAIN Deps[p]}
               ELSE {<<p, Input(s)>>}
Steps == INSTANCE Steps WITH Item <- Pkg \X BuildStep, done <- StepsDone,
                             Before <- [x \in Pkg \X BuildStep |-> Needs(x[1], x[2])]
InOrder == Steps!Spec

(* A make that was started ends: the walk never blocks or goes in circles. *)
MakeEnds == (goal # NoGoal) ~> (goal = NoGoal)
=============================================================================
