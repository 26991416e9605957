------------------------------- MODULE World --------------------------------
(***************************************************************************)
(* make world from its top: the skeleton of the target directory, the      *)
(* packages and the kernel installed into it, target-finalize, the root    *)
(* filesystem images, and the second kernel build that embeds one of them  *)
(* (Makefile, fs/common.mk, linux/linux.mk); and make linux-menuconfig.    *)
(*                                                                         *)
(* make takes the targets from left to right (.NOTPARALLEL).  A recipe     *)
(* begins and ends in two steps; make may be stopped in between.  How a    *)
(* package is built, and when its stamps may be trusted, is PackageInfra:  *)
(* here it is one recipe that installs it, with one stamp.                 *)
(***************************************************************************)
EXTENDS Integers, Sequences

CONSTANTS
    Packages,  \* the packages selected, in the order of TARGETS
    Fs,        \* the image types selected, in the order of TARGETS
    Static,    \* BR2_ROOTFS_DEVICE_CREATION_STATIC
    Purge,     \* BR2_ENABLE_LOCALE_PURGE
    Opkg,      \* BR2_BUILD_OPKG
    Faults,    \* commands that may fail with nobody looking at their status
    MaxRev     \* bound: revisions of a package, configurations of the kernel

Elements(seq) == {seq[i] : i \in DOMAIN seq}
Pkg   == Elements(Packages)
Image == Elements(Fs)
Comp  == Pkg \cup {"linux"}     \* what installs files in the target directory

Finishing == IF Purge THEN <<"target-finalize", "target-purgelocales">>
             ELSE <<"target-finalize">>

(* The stamps of the kernel, in the order linux-install asks for them;     *)
(* "patched" stands for all up to it.                                      *)
KernelStep ==
    IF Opkg THEN <<"patched", "configured", "built", "target", "images", "opkg">>
    ELSE <<"patched", "configured", "built", "target", "images">>

(* Those that stand for a kernel of its .config, not of its sources alone. *)
OfConfig == {"built", "target", "images"}

Stage == {"dirs", "packages", "linux", "finish", "images", "menu", "end"}

ASSUME WorldAssumption ==
    /\ Packages \in Seq(STRING) /\ Fs \in Seq(STRING)
    /\ \A i, j \in DOMAIN Fs : Fs[i] = Fs[j] => i = j   \* each fs/*.mk adds its type once
    /\ Pkg \cap {"linux", "root", "linux-menuconfig", "patched", "configured", "built",
                 "target", "images", "opkg"} = {}
    /\ {Static, Purge, Opkg} \subseteq BOOLEAN
    /\ Faults \subseteq {"cp", "modules_install"}
    /\ MaxRev \in Nat \ {0}

VARIABLES
    run,     \* the make that runs: "none", "world" or "menuconfig"
    stage,   \* which part of its targets it is at
    nth,     \* which target of that part
    at,      \* how far it is with that target
    stamp,   \* stamp files: packages, kernel steps, "root"
    skel,    \* the skeleton in the target directory: "absent", "partial", "whole"
    tree,    \* what each component has installed in the target directory
    fin,     \* the finishing recipes run since something was installed there
    init,    \* /init in the target directory: "none", "link" or "script"
    img,     \* each image: {} if there is none that is whole, else {its contents}
    kernel,  \* the kernel: see TypeOK
    want,    \* the revision of each component that should be installed
    saved,   \* .config of the kernel was saved, and stamps older than it are left
    made     \* the last make was make world and it succeeded

vars  == <<run, stage, nth, at, stamp, skel, tree, fin, init, img, kernel, want, saved,
          made>>
pc    == <<run, stage, nth, at>>
dir   == <<skel, tree, fin, init>>

Absent == 0
Torn   == -1

(* What an image holds of the target directory, and what a kernel is.      *)
Content == [tree : [Comp -> Torn..MaxRev], fin : SUBSET Elements(Finishing),
            skel : {"absent", "partial", "whole"}, init : {"none", "link", "script"}]
Kernel  == [cfg : 1..MaxRev, root : SUBSET Content]
Target  == [tree |-> tree, fin |-> fin, skel |-> skel, init |-> init]

Init ==
    /\ run = "none" /\ stage = "end" /\ nth = 1 /\ at = "ready"
    /\ stamp = {}
    /\ skel = "absent" /\ tree = [c \in Comp |-> Absent] /\ fin = {} /\ init = "none"
    /\ img = [f \in Image |-> {}]
    /\ kernel = [cfg |-> 1, build |-> {}, data |-> {}, image |-> {}, opkg |-> {}]
    /\ want = [c \in Comp |-> 1] /\ saved = FALSE
    /\ made = FALSE
-----------------------------------------------------------------------------
(* The order of TARGETS *)

Items(s) ==
    CASE s = "dirs"     -> <<"root">>
      [] s = "packages" -> Packages
      [] s = "linux"    -> KernelStep
      [] s = "finish"   -> Finishing
      [] s = "images"   -> Fs
      [] s = "menu"     -> <<"configured", "linux-menuconfig">>
      [] s = "end"      -> <<>>

(* Mutant of After: the images before target-finalize.                     *)
MutantImagesFirst(s) ==
    CASE s = "dirs"     -> IF run = "menuconfig" THEN "menu" ELSE "packages"
      [] s = "packages" -> "linux"
      [] s = "linux"    -> "images"
      [] s = "images"   -> "finish"
      [] OTHER          -> "end"

After(s) ==
    CASE s = "dirs"     -> IF run = "menuconfig" THEN "menu" ELSE "packages"
      [] s = "packages" -> "linux"
      [] s = "linux"    -> "finish"
      [] s = "finish"   -> "images"
      [] OTHER          -> "end"

(* make is at target x of stage s, as far as a.                            *)
At(s, x, a) ==
    /\ run # "none"
    /\ stage = s
    /\ at = a
    /\ nth \in DOMAIN Items(s)
    /\ x = Items(s)[nth]

Goes(a) == at' = a /\ UNCHANGED <<run, stage, nth, want, saved, made>>
Done    == nth' = nth + 1 /\ at' = "ready" /\ UNCHANGED <<run, stage, want, saved, made>>

(* Mutant of NextStage: the count of targets is not reset.                 *)
MutantNoReset ==
    /\ run # "none" /\ stage # "end"
    /\ nth = Len(Items(stage)) + 1
    /\ stage' = After(stage)
    /\ UNCHANGED <<run, nth, at, stamp, dir, img, kernel, want, saved, made>>

NextStage ==
    /\ run # "none" /\ stage # "end"
    /\ nth = Len(Items(stage)) + 1
    /\ stage' = After(stage)
    /\ nth' = 1
    /\ UNCHANGED <<run, at, stamp, dir, img, kernel, want, saved, made>>

Succeeds ==
    /\ run # "none" /\ stage = "end"
    /\ made' = (run = "world")
    /\ run' = "none"
    /\ UNCHANGED <<stage, nth, at, stamp, dir, img, kernel, want, saved>>

(* A command fails, the user types ^C, the power goes.                     *)
Stops ==
    /\ run # "none"
    /\ run' = "none" /\ stage' = "end" /\ nth' = 1 /\ at' = "ready"
    /\ made' = FALSE
    /\ UNCHANGED <<stamp, dir, img, kernel, want, saved>>

(* A file with a stamp is up to date.                                      *)
HasStamp ==
    /\ run # "none" /\ at = "ready"
    /\ stage \in {"dirs", "packages", "linux", "menu"}
    /\ nth \in DOMAIN Items(stage)
    /\ Items(stage)[nth] \in stamp
    /\ Done
    /\ UNCHANGED <<stamp, dir, img, kernel>>
-----------------------------------------------------------------------------
(* $(BUILD_DIR)/.root: the skeleton is copied unless there is target/bin,  *)
(* which is the first directory the copy makes; cp is followed by ; touch. *)

BeginSkeleton ==
    /\ At("dirs", "root", "ready") /\ "root" \notin stamp
    /\ skel = "absent"
    /\ skel' = "partial"
    /\ Goes("begun")
    /\ UNCHANGED <<stamp, tree, fin, init, img, kernel>>

EndSkeleton ==
    /\ At("dirs", "root", "begun")
    /\ \/ skel' = "whole"
       \/ "cp" \in Faults /\ skel' = "partial"
    /\ stamp' = stamp \cup {"root"}
    /\ Done
    /\ UNCHANGED <<tree, fin, init, img, kernel>>

NoSkeleton ==
    /\ At("dirs", "root", "ready") /\ "root" \notin stamp
    /\ skel # "absent"
    /\ stamp' = stamp \cup {"root"}
    /\ Done
    /\ UNCHANGED <<dir, img, kernel>>
-----------------------------------------------------------------------------
(* A package: unstripped files, headers and locales come with it.          *)

BeginPackage(p) ==
    /\ At("packages", p, "ready") /\ p \notin stamp
    /\ tree' = [tree EXCEPT ![p] = Torn]
    /\ fin' = {}
    /\ Goes("begun")
    /\ UNCHANGED <<stamp, skel, init, img, kernel>>

EndPackage(p) ==
    /\ At("packages", p, "begun")
    /\ tree' = [tree EXCEPT ![p] = want[p]]
    /\ stamp' = stamp \cup {p}
    /\ Done
    /\ UNCHANGED <<skel, fin, init, img, kernel>>

Finalize(x) ==
    /\ At("finish", x, "ready")
    /\ fin' = fin \cup {x}
    /\ Done
    /\ UNCHANGED <<stamp, skel, tree, init, img, kernel>>
-----------------------------------------------------------------------------
(* The kernel.  kernel.cfg is its .config; kernel.build, kernel.image and  *)
(* kernel.opkg are the kernels in the build and images directories and in  *)
(* its package; kernel.data is the initramfs (usr/initramfs_data.cpio) as  *)
(* last put together in the build directory, {} if there is none.          *)
(* rootfs.initramfs is the list it is made from, empty (touch) until the   *)
(* image of that name has been made.                                       *)

RootList == IF "initramfs" \in Image THEN img["initramfs"] ELSE {}

(* The kernel's own make puts the initramfs together when it is missing;   *)
(* when it is there, it may or may not see that the list has changed.      *)
Embeds == {RootList} \cup kernel.data

Begins(s) ==
    /\ At("linux", s, "ready") \/ At("menu", s, "ready")
    /\ s \notin stamp
    /\ Goes("begun")
    /\ UNCHANGED <<stamp, skel, init, img>>

Ends(s) ==
    /\ At("linux", s, "begun") \/ At("menu", s, "begun")
    /\ stamp' = stamp \cup {s}
    /\ Done
    /\ UNCHANGED <<skel, fin, init, img>>

BeginPatch == Begins("patched") /\ UNCHANGED <<tree, fin, kernel>>
EndPatch   == Ends("patched") /\ UNCHANGED <<tree, kernel>>

(* linux-menuconfig asks for the configured stamp as a file, which has no  *)
(* prerequisites: without sources the recipe fails.                        *)
BeginConfigure == Begins("configured") /\ UNCHANGED <<tree, fin, kernel>>
EndConfigure   == "patched" \in stamp /\ Ends("configured") /\ UNCHANGED <<tree, kernel>>

BeginBuild == Begins("built") /\ kernel' = [kernel EXCEPT !.build = {}] /\ UNCHANGED <<tree, fin>>
EndBuild ==
    /\ Ends("built")
    /\ \E root \in Embeds :
          kernel' = [kernel EXCEPT !.build = {[cfg |-> kernel.cfg, root |-> root]}, !.data = {root}]
    /\ UNCHANGED tree

(* Modules and, if selected, the kernel go into the target directory.  If  *)
(* modules_install fails, the rm after it succeeds.                        *)
BeginModules ==
    /\ Begins("target")
    /\ tree' = [tree EXCEPT !["linux"] = Torn]
    /\ fin' = {}
    /\ UNCHANGED kernel
EndModules ==
    /\ Ends("target")
    /\ \/ \E k \in kernel.build : tree' = [tree EXCEPT !["linux"] = k.cfg]
       \/ "modules_install" \in Faults /\ tree' = [tree EXCEPT !["linux"] = Torn]
    /\ UNCHANGED kernel

BeginCopy == Begins("images") /\ kernel' = [kernel EXCEPT !.image = {}] /\ UNCHANGED <<tree, fin>>
EndCopy   == Ends("images") /\ kernel' = [kernel EXCEPT !.image = kernel.build] /\ UNCHANGED tree

BeginOpkg == Begins("opkg") /\ kernel' = [kernel EXCEPT !.opkg = {}] /\ UNCHANGED <<tree, fin>>
EndOpkg   == Ends("opkg") /\ kernel' = [kernel EXCEPT !.opkg = kernel.build] /\ UNCHANGED tree

(* make linux-menuconfig, first line: the user saves another .config, or   *)
(* not.  What should be installed is a kernel of that .config from now on, *)
(* with stamps that stand for the old one until the second line.           *)
Menuconfig ==
    /\ At("menu", "linux-menuconfig", "ready")
    /\ \E cfg \in {kernel.cfg, kernel.cfg + 1} :
          /\ cfg <= MaxRev
          /\ kernel' = [kernel EXCEPT !.cfg = cfg]
          /\ want' = [want EXCEPT !["linux"] = cfg]
          /\ saved' = (saved \/ (cfg # kernel.cfg /\ stamp \cap OfConfig # {}))
    /\ at' = "begun"
    /\ UNCHANGED <<run, stage, nth, made, stamp, dir, img>>

(* Second line: rm -f of the stamps.                                       *)
RemoveStamps ==
    /\ At("menu", "linux-menuconfig", "begun")
    /\ stamp' = stamp \ OfConfig
    /\ saved' = FALSE
    /\ nth' = nth + 1 /\ at' = "ready"
    /\ UNCHANGED <<run, stage, made, want, dir, img, kernel>>
-----------------------------------------------------------------------------
(* The images.  Their targets have phony prerequisites (host-fakeroot), so *)
(* each recipe runs in every make.                                         *)

(* What the pre-generation hooks leave as /init: cpio always makes a link, *)
(* initramfs adds what it needs unless there is an /init.                  *)
Hook(f) ==
    CASE f = "cpio" -> "link"
      [] f = "initramfs" /\ init = "none" -> IF Static THEN "link" ELSE "script"
      [] OTHER -> init

BeginImage(f) ==
    /\ At("images", f, "ready")
    /\ init' = Hook(f)
    /\ \E old \in {{}, img[f]} : img' = [img EXCEPT ![f] = old]
    /\ Goes("begun")
    /\ UNCHANGED <<stamp, skel, tree, fin, kernel>>

EndImage(f) ==
    /\ At("images", f, "begun")
    /\ img' = [img EXCEPT ![f] = {Target}]
    /\ Goes("made")
    /\ UNCHANGED <<stamp, dir, kernel>>

NoPostTarget(f) ==
    /\ At("images", f, "made") /\ f # "initramfs"
    /\ Done
    /\ UNCHANGED <<stamp, dir, img, kernel>>

(* Mutant of BeginRebuild: the old initramfs data is not removed.          *)
MutantKeepsData ==
    /\ At("images", "initramfs", "made")
    /\ \E image \in {{}, kernel.image} :
          kernel' = [kernel EXCEPT !.build = {}, !.image = image]
    /\ Goes("rebuilding")
    /\ UNCHANGED <<stamp, dir, img>>

(* .stamp_initramfs_rebuilt depends on rootfs.initramfs, just remade.      *)
BeginRebuild ==
    /\ At("images", "initramfs", "made")
    /\ \E image \in {{}, kernel.image} :
          kernel' = [kernel EXCEPT !.data = {}, !.build = {}, !.image = image]
    /\ Goes("rebuilding")
    /\ UNCHANGED <<stamp, dir, img>>

EndRebuild ==
    /\ At("images", "initramfs", "rebuilding")
    /\ \E root \in Embeds :
          LET k == [cfg |-> kernel.cfg, root |-> root]
          IN  kernel' = [kernel EXCEPT !.build = {k}, !.image = {k}, !.data = {root}]
    /\ Done
    /\ UNCHANGED <<stamp, dir, img>>
-----------------------------------------------------------------------------
(* The user *)

RunMake(goal) ==
    /\ run = "none"
    /\ goal \in {"world", "menuconfig"}
    /\ run' = goal /\ stage' = "dirs" /\ nth' = 1 /\ at' = "ready"
    /\ made' = FALSE
    /\ UNCHANGED <<stamp, dir, img, kernel, want, saved>>

(* The user changes a package and removes its stamps.                      *)
Change(p) ==
    /\ run = "none"
    /\ want[p] < MaxRev
    /\ want' = [want EXCEPT ![p] = @ + 1]
    /\ stamp' = stamp \ {p}
    /\ made' = FALSE
    /\ UNCHANGED <<pc, dir, img, kernel, saved>>

DirsStep    == BeginSkeleton \/ EndSkeleton \/ NoSkeleton
PackageStep == \E p \in Pkg : BeginPackage(p) \/ EndPackage(p)
LinuxStep   == \/ BeginPatch \/ EndPatch \/ BeginConfigure \/ EndConfigure \/ BeginBuild \/ EndBuild
               \/ BeginModules \/ EndModules \/ BeginCopy \/ EndCopy
               \/ BeginOpkg \/ EndOpkg
MenuStep    == Menuconfig \/ RemoveStamps
FinishStep  == \E x \in Elements(Finishing) : Finalize(x)
ImageStep   == \/ \E f \in Image : BeginImage(f) \/ EndImage(f) \/ NoPostTarget(f)
               \/ BeginRebuild \/ EndRebuild
MakeStep    == NextStage \/ Succeeds \/ HasStamp
UserStep    == (\E goal \in {"world", "menuconfig"} : RunMake(goal)) \/ (\E p \in Pkg : Change(p))

Next == \/ DirsStep \/ PackageStep \/ LinuxStep \/ MenuStep \/ FinishStep \/ ImageStep
        \/ MakeStep \/ Stops \/ UserStep

Spec == Init /\ [][Next]_vars
-----------------------------------------------------------------------------
(* Properties *)

(* Types; make is at one of the targets of its stage, or behind the last.  *)
TypeOK ==
    /\ run \in {"none", "world", "menuconfig"}
    /\ stage \in Stage
    /\ nth \in 1..(Len(Items(stage)) + 1)
    /\ at \in {"ready", "begun", "made", "rebuilding"}
    /\ stamp \subseteq Pkg \cup Elements(KernelStep) \cup {"root"}
    /\ Target \in Content
    /\ img \in [Image -> SUBSET Content]
    /\ kernel \in [cfg : 1..MaxRev, build : SUBSET Kernel, data : SUBSET SUBSET Content,
                   image : SUBSET Kernel, opkg : SUBSET Kernel]
    /\ want \in [Comp -> 1..MaxRev] /\ saved \in BOOLEAN
    /\ made \in BOOLEAN

(* Component c is there, in revision rev or a later one; modules that were *)
(* not installed may be missing from it if nobody looks.                   *)
Holds(t, c, rev) ==
    \/ t[c] \in rev..MaxRev
    \/ c = "linux" /\ "modules_install" \in Faults /\ t[c] = Torn

(* Images are assembled after everything selected is installed and the     *)
(* finishing recipes have run: no whole image, in any make, interrupted or *)
(* not, holds a half-installed component or files target-finalize should   *)
(* have removed (the order of TARGETS, Makefile:321-329).                  *)
OnlyFinished ==
    \A f \in Image : \A t \in img[f] :
        /\ \A c \in Comp : Holds(t.tree, c, 1)
        /\ t.fin = Elements(Finishing)

(* What a make can know is due: the revision of a component that the user  *)
(* asked for; of a kernel that linux-menuconfig saved a .config for and    *)
(* was stopped before it removed the stamps (linux.mk:200-202), any.       *)
Due(c) == IF c = "linux" /\ saved THEN 1 ELSE want[c]

(* After a make world that succeeds, whatever was interrupted, rebuilt or  *)
(* configured before, every image is there and holds every component in    *)
(* the revision that is due, or a later one.                               *)
ImagesCurrent ==
    made => \A f \in Image :
                /\ img[f] # {}
                /\ \A t \in img[f], c \in Comp : Holds(t.tree, c, Due(c))

(* After a make world that succeeds, the kernel in the images directory    *)
(* is the one that is due.  With an initramfs, which has it built again in *)
(* every make, it has the .config last saved in any case, and embeds       *)
(* exactly the root filesystem of this make, although it was first built   *)
(* before that existed (linux.mk:207-219).                                 *)
KernelCurrent ==
    made => /\ kernel.image # {}
            /\ \A k \in kernel.image :
                   /\ k.cfg >= Due("linux")
                   /\ "initramfs" \in Image =>
                         k.cfg >= want["linux"] /\ k.root # {} /\ k.root = img["initramfs"]

(* Nothing that a make world leaves behind is older than what it was asked *)
(* to make, as far as the files tell it.                                   *)
ResultsCurrent == ImagesCurrent /\ KernelCurrent
=============================================================================
