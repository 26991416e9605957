# Buildroot build system: TLA+ models, model checking and proofs

This directory specifies, checks and proves properties of the build system in
this repository, which is two programs in one:

* the make infrastructure that downloads, builds, installs, cleans and rebuilds
  packages (`package/Makefile.package.in`), and the top-level walk that makes a
  target directory, a kernel and file system images of them (`Makefile`, `fs/`,
  `linux/linux.mk`);
* kconfig (`package/config/`), which reads what can be configured, lets the user
  decide it in one of five front ends, and writes the files that make reads.

The text of every definition follows the source; `PROJECT.json` maps each one to
the lines it translates.

    tlasany PackageInfra.tla
    tlc -workers 2 -config PackageInfra_world.cfg MCPackageInfra.tla
    tlapm PackageInfraProofs.tla

## 1. Inventory of the system

| Component | State it keeps | Operations | Talks to | What is hard | What makes it correct |
|---|---|---|---|---|---|
| Package infrastructure, `package/Makefile.package.in:224-664` | stamp files in `BUILD_DIR/pkg-version`, the build directory, what was installed in host, staging, target and images directories | one recipe per stamp (download … opkg), uninstall, clean, opkg-clean, dirclean; the phony targets that order them | other packages (`_DEPENDENCIES`), the downloads, `patch-kernel.sh`, `opkg-build` | order is only make's left-to-right walk; recipes interrupted anywhere; stamps removed by hand | stamps tell the truth; dependencies first; a successful make has installed everything, from the current configuration |
| Downloads, `:80-203, 229-242` | files and working directories in `DL_DIR`, shared by all builds of a source tree | `DOWNLOAD` over up to three sites; wget, git, svn, bzr helpers | the network; other builds | two builds at once; sites that fail half way; killed builds; leftovers | no two writers; nobody's directory is taken away; every recipe ends |
| Top-level `Makefile` | `TARGET_DIR`, `.root`, `TARGETS` | `world`, the skeleton, `target-finalize`, locale purge, `source`, `clean`, `distclean` | all packages, kconfig, images | repeated and interrupted makes over one target directory | finalize after all packages and before all images; complete skeleton |
| Root filesystem images, `fs/` | `images/rootfs.*`, a fakeroot script, a device table | one recipe per image type, compression | finalized target directory, fakeroot, makedevs | images have no prerequisite that says what they were made of | an image holds the finalized tree |
| Linux, `linux/linux.mk` | the package's stamps, the kernel `.config` | the package steps, menuconfig and friends, a second kernel build with the initramfs | images (`rootfs.initramfs`) | stamps removed by menuconfig; building twice | what is installed is the last configuration's kernel, with the final rootfs inside |
| kconfig: parser, `zconf.y`, `menu.c`, `expr.c` | the menu tree, the properties of the symbols, the dependency expressions | build the tree while parsing; `menu_finalize`; `sym_check_deps`; rewrite, simplify, compare and print expressions | the symbols | a list is taken apart while it is walked; rewriting three-valued formulas with rules for two values | the tree holds the text; every prompt is visible when the text says so; every cycle is found |
| kconfig: symbols and files, `symbol.c`, `confdata.c` | per symbol what the user set and the value kept; the count of changes; `.config`, `.config.old`, `auto.conf`, `autoconf.h`, `tristate.config`, one header per symbol | `sym_calc_value`, `sym_set_*`, `conf_read`, `conf_write`, `conf_write_defconfig`, `conf_write_autoconf`, `conf_split_config`, `conf_set_all_new_symbols` | the front ends; make, by a rule that re-runs `silentoldconfig` (`Makefile:79`) | values kept behind a valid bit; choices; death between two renames; which file is replaced last | a value kept is the one that would be calculated; what is saved is what is read; no configuration is lost; a fresh `auto.conf` means everything derived is fresh |
| kconfig: `conf.c` | where in the menus it is | ask all, ask the new ones, list them, refuse to ask | the terminal | an answer makes other questions appear, also above | nothing is left to ask; old answers stay; it ends |
| kconfig: `mconf.c`, `nconf.c`, `gconf.c`, `qconf.cc` | the screens or rows shown, the box on top, the file name | enter, leave, toggle, choose, type, search, help, split, links, load, save, quit | the symbols, the files | screens made once and changed in place while menus appear and vanish; failed loads and saves | all that is visible can be reached; what is shown is what would be shown anew; nothing is lost unasked |
| kconfig: `lxdialog/` | scroll, choice, cursor, page pointer, what stands on the screen | the keys of menus, lists, fields, texts; a change of the terminal's size | `mconf.c` | only changed lines are printed, the others moved by the terminal | the screen is what the variables say; a key moves by what it says |
| Patching, `toolchain/patch-kernel.sh` | the source tree, `.applied_patches_list` | apply each patch in order, look for rejects | package infrastructure | cannot be repeated; status of a pipe | all patches, once, in order |
| opkg packaging, `scripts/opkg-build` | package tree, temporary directory | check, pack | package infrastructure | text processing | the package file is made of the tree given |
| Toolchain, `toolchain/` | old-style stamps per tool | gcc in three stages, uClibc, binutils, external toolchain copy | all packages | long stamp chains | order of the stages |
| Wrapper, `ext-toolchain-wrapper.c` | none | rewrite argv, `execv` | external gcc | — | — |
| makedevs, `package/makedevs/makedevs.c` | device nodes | interpret a device table | images | ranges, counts | names and numbers of a range |
| Skeleton and init scripts, `fs/skeleton`, `package/**/init.d` | running system | boot, start, stop, respawn XBMC | — | — | — |
| Package recipes, boards, defconfigs, docs | — | data of the above | — | — | — |

Interactions that matter: (1) make walks the targets of all packages in one
pass, one target at a time; (2) a package's recipes read what its dependencies
installed into the shared host and staging directories; (3) all builds of one
source tree read and write one `DL_DIR`; (4) the user and the power supply may
stop any of it between any two commands, and the next make sees only files;
(5) a configurator and make meet only in the files of the configuration and
their times; (6) every front end works on one set of symbols whose values, and
with them the entries to show, change behind the screen it made.

## 2. Plan

Modules, in the order they were written; each builds on the ones it names.

1. **PackageInfra** refines **Steps**; **PackageInfraProofs** (types, honest stamps);
   **PackageOrderProofs** (order, completeness, freshness, the walk of make).
2. **Download**; **DownloadProofs** (types, one writer, working directory, the end
   of a recipe).
3. **World**: skeleton, packages, kernel, finalize, images, the kernel again;
   **WorldProofs** (types, finished images, current results).
4. **ExprRules** (what `expr.c` does at one operator), **Expr** (its walks over the
   trees), **Simplify** (their use, step by step); **ExprProofs** (the rules, the
   walks).
5. **Menus** (on Expr: parser actions, `menu_finalize`, the cycle search),
   **MenuTree** (a text is parsed).
6. **Symbols** (on Menus), **ConfData** (on Symbols), **ConfSession** (a program
   that loads, sets, saves).
7. **ConfigFiles** refines **ConfigStore**: renames, deaths, make;
   **ConfigFilesProofs** (the refinement, fresh files, nothing forgotten).
8. **Questions** (on ConfData): conf.
9. **Screens** (on ConfData), **Mconf**, **Nconf**, **Gconf**, **Qconf**,
   composed in **FrontEnds**; **Saving**: loading, saving and leaving, with the
   proof that leaving saves.
10. **Dialogs**, **ListWindows**, **InputWindow**, **TextWindow**, composed in
   **Windows**; **WindowsProofs** (the screen, the keys).

Every invariant and action property of the make models that holds is proved, and so
are those of the kconfig models that reach no RECURSIVE operator; liveness and the
others stay with TLC (see 6). Of those, the walks over expressions are proved for
any functions that do what the operators of Expr do at each expression; what is left
are the properties of the menus, the symbols and the questions, which need what a
parse and a calculation of all symbols end with.

Composition across the modules: Download gives PackageInfra the fact it uses (a
download recipe that succeeds leaves a file, not always a whole one);
PackageInfra gives World the fact that a package target that is done has
installed the package; Simplify and MenuTree give the front ends a tree whose
conditions mean what the text says; ConfSession gives ConfigFiles, Saving and
Windows the fact that a file written is read as the same configuration, which
there is a single value.

## 3. What is modelled

### PackageInfra

A target is a pair `<<package, kind>>`. Kinds that are stamp files (`Step`:
`downloaded` … `opkg_built`) have a recipe and no prerequisites; the phony kinds
have prerequisites and no recipe (`Own`, `Prereq`); the removal kinds
(`uninstalled`, `cleaned`, `opkg_cleaned`, `dircleaned`) are stamp files no
recipe ever creates, so they run whenever asked for.

| State | Stands for |
|---|---|
| `goal` | the goal on the command line of the running make |
| `phase[t]` | make's state of target t: `idle` not considered, `active` considered, `begun`/`ran` within its recipe, `done` up to date |
| `stamp` | the `.stamp_*` files that exist |
| `tree[p][s]` | what step s left: nothing, something incomplete (`Partial`), a result made from a numbered configuration of the package, or a result of an input that was not whole (`Doubtful`) |
| `want[p]` | the configuration the user asks for now |
| `torn` | removal recipes that were interrupted and never completed since |
| `made` | the goal of the last make, if it succeeded |

Actions: `Descend` (make considers the next prerequisite), `PhonyDone`,
`MakeSucceeds`; for each build step `BeginStep` (the commands have started to change
the tree), `EndStep` (they have succeeded, whatever their input was), `Touch`;
`BeginDownload`/`EndDownload` (a package without `_SOURCE`, not in `Sourced`, has
nothing to download); for each removal its commands and then the `rm -f` of the
stamp, in the code's order (`UninstallStaging`, `UninstallTarget`, `RemoveOne`), and
the `rm -Rf` of dirclean, whose first half leaves an arbitrary set of stamps;
`CommandFails` and `Interrupt`, at any point of any recipe; `RunMake`; `Reconfigure`
and `Recompile`, the user removing stamps or the directory as
`docs/buildroot.html:452-480` tells.

Abstractions. Commands and hooks of a step are one begin and one end: a
property tells whether a step's result is there, whole, and from which
configuration, not what is in it. Installation directories are one place per
package and destination. `_DEPENDENCIES` name gentargets packages; old-style
packages are not distinguished. Package directories are removed only by
`dirclean` or by the user. A step that fails leaves `Partial`: nothing in the
recipes undoes commands. A step may fail at any point, and may succeed on any
input: the status of `INFLATE | tar` is tar's alone, so a truncated archive may be
unpacked as far as it goes, and a library may be installed out of a tree that clean
has half removed. What a step makes of an input that is not whole is `Doubtful`, and
so is what is made of that. A stamp promises that the commands of its step have ended
(`Made`), not that they had something whole to work on. An unpatched package's patch
step only touches the stamp.

### Steps

What is promised about order, without make: a step is added to the set of done
steps only while all it needs is in the set; anything may be undone at any
time. PackageInfra refines it with `done` = the stamps (downloads left out) and
`Before` = the previous step of the package and, for extraction, every install
step of every dependency (`InOrder`).

### Download

Several builds run the recipe of `.stamp_downloaded` for one package over one
`DL_DIR`. `pc[b]` is the place in the DOWNLOAD macro: `test` (the `test -e`),
`fetch` (before the site answers), `open` (git and svn: the working directory
exists), `write`, `aside` (wget saving under another name because the file
came to exist), `rmdir`, `ok`, `failed`. `nth` is which of the two DOWNLOAD
calls of the recipe runs, `site` the site tried. `file[a]` is what the archive
is now, `last[a]` who opened it last: the content is whole when the last to
open it wrote it to the end. `Fails` is the fall through to the next `if` of the
macro and its final `exit 1`; `Succeeds` the `&& exit`. Faults: a site refuses,
a transfer is cut, a version does not exist, a build is killed.

Wget, git, svn and bzr are external: what is assumed of them is what the
macros rely on (`wget -P` does not overwrite; `git clone` and `svn export`
refuse an existing directory; `git clone` removes the directory it made when it
fails, `svn export` does not), each in the action that uses it. The
check that the working directory exists and its creation are one step.

### World

make takes its targets in one order, that of `TARGETS`: `stage` is the part of
it (`dirs`, `packages`, `linux`, `finish`, `images`; or `dirs`, `menu` for
linux-menuconfig), `nth` the target in that part, `at` how far make is with it.
`After` and `Items` are that order; it comes from the `include` and `TARGETS +=`
lines.

| State | Stands for |
|---|---|
| `stamp` | `.root`, one stamp per package, the stamps of the kernel |
| `skel` | how much of the skeleton is in `TARGET_DIR` |
| `tree[c]` | what package c, or the kernel, has installed there: nothing, something incomplete, or a numbered revision |
| `fin` | which of target-finalize and target-purgelocales have run since something was last installed |
| `init` | what `/init` in `TARGET_DIR` is; the hooks of the cpio and initramfs images make it |
| `img[f]` | nothing whole, or a copy of the target directory as it was when the image was made |
| `kernel` | its `.config`, the kernel in the build directory, the one in `images/`, the one in its package file (each with its configuration and the initramfs in it), and `usr/initramfs_data.cpio` |
| `want` | the revision of each component that the user asked for last; the kernel's is its `.config` from the moment linux-menuconfig has saved it |
| `saved` | linux-menuconfig has saved another `.config` and has not removed the stamps of the old kernel since |
| `made` | the last make was `make world`, succeeded, and nothing was changed since |

Each recipe is a begin and an end, and `Stops` may come in between. Two commands
whose status the recipes lose (`cp` of the skeleton, `modules_install`) may fail
unseen if the constant `Faults` has them; every other failing command is `Stops`.
A package is one recipe with one stamp here (PackageInfra is the whole of it);
`Change` is a user who edits a package and removes what stands for it.
linux-menuconfig is two steps, as it is two lines of the recipe: `Menuconfig` saves
a `.config`, `RemoveStamps` removes the stamps, and make may be stopped in between.
What was asked for then and what is due (`Due`) differ: no file tells the next make
that the stamps of the kernel stand for another `.config`. That the
kernel's make notices a changed initramfs list when its old
`initramfs_data.cpio` exists is not assumed (`Embeds`): the comment in
`linux.mk:208` does not rely on it either.

Abstractions. `rootfs-initramfs` has the kernel's `.stamp_initramfs_rebuilt` as
post target; that file is older than `rootfs.initramfs`, just remade, so it has
no state of its own. Images are remade in every make because `host-fakeroot` is
a prerequisite and no file. `rm -f` of three stamps is one step. An interrupted
image or kernel is the old one or none that is whole. Old-style packages,
compression, ownership, device tables, `erase-fakeroots` and the base targets
(toolchain) are left out.

### ExprRules, Expr and Simplify

An expression is a tuple: `<<"sym", s>>`, `<<"not", e>>`, `<<"and", e, f>>`,
`<<"eq", s, c>>` …, or `NULL`. ExprRules has what is done to one operator: the
values, the tables of `expr_join_or` and `expr_join_and` behind their test of
`expr_eq` (`OrRule`, `AndRule`), what a junction with y or n becomes (`WithoutYN`),
a comparison (`TransformComparison`) and its `Opposite`; and what each walk does at
one expression (`TransformBody`, `Dups1Body`, …), with the calls it makes, those of
itself among them, as operator parameters. Expr closes these bodies over themselves.
It has the operators of `expr.c` under their names: `expr_transform`,
`expr_trans_bool`, `expr_eliminate_yn`, `expr_eliminate_eq`, the joins of two
operands (`expr_join`), `expr_eliminate_dups1` and `dups2`, `expr_compare_type` and
the printing, `expr_depends_symbol`, `expr_contains_symbol`, `expr_trans_compare`,
`expr_extract_eq`, and `expr_calc_value`, the reference all are held to. The code
edits both operands in place while it walks them against each other; here each walk
returns the pair. `trans_count` is a count of the changes of one turn. Simplify
takes an expression through the steps of `menu_finalize` and through the loop of
`expr_eliminate_dups`, one turn a step.

### Menus and MenuTree

A Kconfig text is a sequence of statements with options; the operators `Config`,
`Menu`, `Choice`, `If`, … make them. Menus has what the grammar's actions do
(`menu_add_entry`, `menu_add_prompt`, `menu_add_symbol`, …), `menu_finalize`
(without `sym_check_prop`, which only warns), and `sym_check_deps`. `K`, the result, is
a record of the symbols, properties and entries (see the head of the module).
MenuTree parses one text, finalizes it and then checks the symbols for cycles in
any order, one symbol a step. `menu_finalize` moves the entries after `p` below
it while it walks their list: here it takes the `rest` of the list and returns
what is left of it.

### Symbols, ConfData and ConfSession

Symbols calculates on demand: every operator takes `st`, what changes of the
symbols, and returns the new one, with the values it kept. So a value kept too
long is a state of the model. It has the choices, the selections, strings,
numbers and their ranges, `modules_val`, and `sym_set_tristate_value` and
`sym_set_string_value`. ConfData reads and writes files, a file being a sequence
of lines; `conf_set_all_new_symbols` has all its modes, the random one with any
throw of the dice. ConfSession is a program with these as its actions, and
`Look`, which calculates one symbol or the visibility of one prompt, so that the
cache is filled in any order.

### ConfigStore and ConfigFiles

ConfigStore is the promise: one saved configuration, and derived files that are
its or known to be stale. ConfigFiles is the files: each `rename` of `conf_write`
and `conf_write_autoconf` is a step, so is each header `conf_split_config`
touches, and `Kill` may come between any two. File times are three facts:
`current` (auto.conf newer than .config), `oldcurrent` (than .config.old), and
the set `newer` of headers newer than the gcc build that lists them. `RunMake`
reads `.config` and the list of headers first, then makes `auto.conf` by
`silentoldconfig`, which may ask, then builds gcc. `KeepsStore` is the
refinement: `saved` is `.config`, or `.config.old` while there is no `.config`.

### Questions

`conf`, `check_conf` and `conf_choice` of `conf.c` are recursive; a stack of
pairs of a function and an entry is what is still to be done. One step is one
question with any answer that is accepted (an answer that is not is asked again,
which changes nothing), or one step of the walk. Modes: oldaskconfig,
oldconfig, silentoldconfig (with a terminal and without), listnewconfig and
oldnoconfig.

### Screens, Mconf, Nconf, Gconf, Qconf, FrontEnds

Screens has what is common: the configuration and `ui`, the screen of the
program that runs, a record that is its own. mconf and nconf keep a stack of
menus, remake the list of the top one after every key, and put a box around what
can be changed; `Key` is what a key does with the entry it finds, `Choose`,
`Type`, the search (mconf), hidden options (F4, Z). gconf and qconf keep rows
that are updated in place: `update_tree` and `updateConfigList` take the rows
there are and the entries that are visible. Single, split and full views, the
three option modes, edits in a cell, toggles by click, double click and key,
links in qconf's help. Whether gconf makes a row anew that is there already is up
to `SYMBOL_CHANGED` (`changed` in Symbols, set wherever `symbol.c` calls
`sym_set_changed` and when a file is read): `update_tree` looks at it (`IsStale`), and
`fill_row` and `display_tree` take it away for the symbol, so at the first of its
entries (`Unchanged`). FrontEnds runs one program: Init has read a file that is
not there, Next is whatever that screen offers.

### Saving

What the four programs do at their ends: a configuration is one value, a file holds
one, or one that reads as another, `ReadAs`, and counts as changed (`Foreign`), or
is `Missing`. Loads and saves under two names succeed, fail, or fail at the second
rename (`torn`). `count` is `sym_change_count`, `marked` whether the symbols still
have `SYMBOL_WRITE`, `filename` the name the program shows, `told` its last words.

### Dialogs, ListWindows, InputWindow, TextWindow, Windows

The windows of lxdialog, one key a step. `row`, `field` and `screen` are what
stands on the screen, written only where the code prints and moved where it calls
`wscrl`; `items`, `scroll`, `choice`, `first_item`, `offset`, `page` … are the
code's variables. Windows opens them over one another as mconf does and resizes
the terminal at any time, on which every window is left and drawn anew from what
its caller kept. The height of the screen is followed, its width is a constant;
heights 8 and 9, where the code works with windows of no lines, and a checklist
without items are not followed.

## 4. What the runs check

| Run | Instance | Shows |
|---|---|---|
| `world` | three packages: a host tool, a patched library with staging, target and images, an application with target and opkg that depends on both; the goals `make world` and `make app-clean`; nothing to download | `StepsReady` (`DepsInstalled`, `InputsReady`), `StampsHonest`, `SuccessInstalls`, `MakeEnds` with failures and interruptions at any point |
| `clean` | one patched package with staging; make, `lib-clean` (which does `lib-uninstall`) and `lib-dirclean`; an archive that may be truncated; the user removes `.stamp_built`, or changes the configuration and removes the directory; 2 configurations | `TypeOK`, `StampsHonest`, `UpToDate`, `InOrder` (refinement of Steps) |
| `dl_scm` | 3 builds, archive and patch, every method on every list of sites, all faults | `TypeOK`, `OneWriter`, `DirKept`, `DownloadEnds` |
| `top_world` | one package, ext2 and initramfs images, locale purge, opkg, unseen failures; 2 revisions, 2 kernel configurations | `TypeOK`, `OnlyFinished`, `ResultsCurrent` (`ImagesCurrent`, `KernelCurrent`) |
| `kexpr` | 9416 expressions over a bool, a tristate and the constants: all of two literals, of three or four of a few | `ValueKept` (`DefiniteKept`, `BoolKept`), `AnswersSound` (`EqSound`, `DependsSound`, `CompareSound`), `PrintParses`, `BlameNamesSelectors` |
| `kmenu` | every text of four families: three symbols in a row with any prompt, dependency and reference; blocks in blocks; choices; symbols at two places, modules, values that are m | `TreeFits` (`TreeInOrder`, `BelowFits`, `ChoicesWhole`), `AsWritten` (`VisibleAsWritten`, `SelectedAsWritten`), `CyclesFound` (`CyclesReported`, `ReportsTrue`) |
| `ksession` | two texts (an optional choice, a selection, a number with a range; modules, tristates, a tristate choice), files of each, four operations | `CacheCoherent`, `ValuesAllowed` (`ChoiceOfOne`, `OnOnlyIfAllowed`), `SetIsTaken`, `FilesReproduce` (`SavedReadsBack`, `SavedIsComplete`, `DefconfigReproduces`) |
| `kfiles` | two symbols gcc lists, any number of configurators, makes and kills | `DerivedIsSaved`, `NotForgotten`, `KeepsStore` (refinement of ConfigStore) |
| `kask` | two texts, files that answer some of the symbols, every mode, every answer | `NothingLeft` (`AllAnswered`, `ListsUnanswered`), `UnaskedKept` (`OldAnswersKept`, `NobodyAnswers`), `FewRounds` |
| `kfront` | mconf and nconf over `Coming` and `Choosing`, gconf and qconf over `Between` and `Below`, gconf over `Twice`: menus that appear and vanish, choices, a symbol that is a menu, strings, a symbol with two entries | `AllReachable`, `BoxesTrue`, `RowsTrue` (`RowsCurrent`, `RowsAsNew`), `LinkShown` |
| `ksaves` | four programs, two names, three values and a foreign file | `SavedOnExit` (`NothingLost`, `YesSaves`) |
| `kwindows` | heights 7, 10, 15, 17, 19; lists of 0, 1 and 6 items; texts of 1, 4 and 8 lines; fields of 4 columns; two windows deep | `WindowsTrue`, `KeysMove` |

A property in parentheses is a conjunct of the one before it, defined under its
own name.

Bounds of the make models. `Pkg`: three packages are enough for a dependency, an
indirect one and a shared one (app needs tool twice, directly and through lib),
for both types and every install destination. One package is enough for dirclean and
for a second configuration: no recipe touches another package. In `world` no package
has a `_SOURCE` (`Sourced`): each archive that may be truncated doubles the states
after it, and what a package is made of does not tell the order of the packages.
`MaxRev` bounds the configurations the user tries (in World also the revisions of a
package and of the kernel's `.config`); two are enough to tell stale from fresh. One
package and the kernel are two components with different paths into the target
directory; two images are enough for one to be made before and one after
another. With an initramfs every make builds the kernel again; without one nothing
does after the images, which is left to the proof. The number of makes and of
interruptions is not bounded. Two builders reach every race of two; three are
used where it is cheap. Faults are unbounded too.

Bounds of the kconfig models. Kexpr: the rewriting works on pairs of operands,
so four operands reach every pair of pairs. Kmenu: entries that move are those of
one menu, one block or one choice, so three symbols and two levels reach every
move. Ksession: `MaxOps` = 4 operations, as many as it takes to set, look, set
again and look or save (looking is one). Kfiles: two symbols, so that one
header can be touched and the other not when the command dies; `Values` has one
value, since files compare only as equal or not. Kfront: the configurations have
up to five symbols; a state is a screen with a configuration, and there is no
bound on the number of keys. Ksaves: three values, to tell what is loaded, what
was edited and what was saved before. Kwindows: `ListHeight` is 2 (the code's 6)
and `Width` 4 (69 and 49), `MAX_LEN` 9 (2048), so that the lists, the field and
the buffer are all outgrown; the heights are two without room (7 for any, 10 for
texts only) and three that differ in what fits; `MaxScroll` 1 is the column a text
is scrolled to, `Depth` 2 the menus below the first. WindowsProofs has no bounds.

`CHECK_DEADLOCK FALSE` is in `kexpr` and `kmenu`, whose programs end, in
`ksession`, where `MaxOps` ends the run, and in `kwindows`, whose user may leave
the program. A user may always start another command in the others; where a
program ends, the end is a step that repeats.

### Behaviours the models have and no run states

The following are ways the code goes that a reader of the models will meet. No run
states them, so that what is said of them here rests on the definitions alone.

Make: a package whose `.stamp_configured` is removed is configured again and neither
compiled nor installed again, since `.stamp_built` has no prerequisites
(`docs/buildroot.html:472` says that removing it triggers the recompilation from the
configuration step); of builds in parallel with output directories of their own,
which `docs/buildroot.html:283-285` calls safe, one may take the archive in `DL_DIR`
that the other has half written for whole; a linux-menuconfig stopped between its
two lines leaves a new `.config` under the stamps of the old kernel, and without an
initramfs the next make world succeeds with that kernel (`saved`); an interrupted
uninstall or clean leaves stamps of what is gone; a git version that does not exist
gives an empty archive and success (`NoVersion`); the patch of a package fetched
from an SCM is not downloaded (`Test` asks for the archive of the sources); a
transfer that is cut keeps the next site from being tried, since what it left passes
for the archive; an interrupted copy of the skeleton is never completed, and modules
that were not installed get their stamp (the faults `cp` and `modules_install`); an
initramfs made beside a cpio image has that one's `/init`, which does not mount
devtmpfs; after linux-menuconfig the kernel's package file stays as it was;
linux-menuconfig in a tree whose kernel has not been extracted configures nothing
and fails, since the stamp it asks for has no prerequisites; `foo-clean` first
builds up to configure (`foo-uninstall` needs `foo-configure`); clean leaves the
host and images stamps; a patch step interrupted after its first patch can be
repeated only after dirclean; a truncated archive survives dirclean, and until it is
removed by hand extraction fails or, if tar does not notice, makes incomplete
sources that are built and installed (`Doubtful`); a package with every `INSTALL_*`
set to `NO` is never built; a leftover working directory makes every later clone or
export of that package fail.

Expressions: `expr_eliminate_dups2` takes `(T || T) && !T` from m to n at T = m;
`expr_trans_compare` is wrong for `!FOO != n` at FOO = m (`ValueKept` and
`CompareSound` say exactly what is kept); the comment at `expr.c:489` says `a='m'`
where the code, rightly, makes `a='y'`.

Menu tree: `sym_check_deps` returns NULL for the symbol a cycle starts at, so
`conf_parse` never counts an error and recursive dependencies are printed only; a
`contains symbol` line may name a symbol only its prompt depends on.

Symbols and files: `conf_read` resets a number outside its range after others may
have looked at it, and clears `SYMBOL_VALID` of that symbol only; `conf_write`
takes `SYMBOL_WRITE` away as it goes, so a second try after its second rename has
failed writes almost nothing and reports success, and so does one after
`conf_write_defconfig`; a value of a choice that is hidden when saved is written
`is not set`, which the next read counts as a change; a number without default and
value is written as `N=`, which every later read warns about.

Files and make: what silentoldconfig asks in the middle of a make does not reach
that make's gcc (`late`); a header made for the first time is not in that run's
list; after `mv .config.old .config` by hand, after changes within one second, and
after a changed `Config.in`, make does not derive anew.

conf: a tristate choice that is y with values limited to m makes oldconfig start
over for ever, as do, at the end of input, a choice with no visible value
(`conf.c:269-334`) and a number with no valid default (`conf.c:135-159`); the
instances have none of these.

Front ends: `conf_read` sets the count of changes to 0 before it opens the file, so
after a failed load every program quits without asking (`forgot`, which
`SavedOnExit` excepts); after that, and after a save under another name, mconf may
say "Execute 'make' to start the build" though `.config` does not hold the
configuration; mconf and nconf save further under the name of the alternate file; in
gconf and qconf loading another file is no change; qconf closes although the save it
was told to make failed. nconf lists hidden items after F4 and does nothing with
them; an entry in a choice that depends on `!P` is put below P and cannot be reached
in mconf and nconf when another value is chosen; gconf's `update_tree` returns where
the last row was removed and leaves out entries that became visible after it; of a
symbol with two entries it makes only the first row anew, since that takes
`SYMBOL_CHANGED` away, and the second one keeps the old value (`RowsTrue` excepts it
by `IsFirst`); with all options shown it calculates nothing for a row it keeps, so a
click on one that is out of date may set the value the symbol had, upon which
nothing is calculated and the row stays as it is; its string edits update the tree
as if in full view; Back after a change of the option mode, and Single clicked twice
at the root, dereference NULL; a click on the value of a string toggles it.

lxdialog: on a resize the highlight jumps to the item selected when the menu was
opened, after which Enter may take another item than the one highlighted
(`menubox.c:253` sets `first_item` only together with `scroll`), or a place in the
window is taken for a place in the list; if `first_item` no longer fits, the item
below the highlight may be none at all and the program dies; a checklist's down
indicator goes by the highlight and is wrong after a resize; a field scrolled before
a resize keeps the scroll, and what is typed then stands beyond the end of the
string (`astray`); BACKSPACE in column 0 scrolls without erasing; a text whose last
line has no newline shifts by a line when scrolled sideways; with less than ten
lines `dialog_yesno` cannot ask and edits are discarded.

## 5. Fairness

`FairSpec` of PackageInfra is weak fairness of `MakeStep`, the steps make takes
by itself: make is a running process and no command of a recipe is assumed to
hang. Nothing is assumed of the user, who may never start make, and nobody is
assumed to interrupt it. Since the failure of a command is one of make's steps,
`MakeEnds` is not made true by recipes that always succeed, and a make that runs
into a dead end would stutter there and violate it. `FairSpec` of Download is
weak fairness of the steps of each build, not of its start or of its being
killed. A fetch that hangs for ever is outside of both.

The kconfig programs wait for a user, who may never answer, so they have no
fairness. That questions come to an end is `FewRounds`, a bound on the rounds,
together with the absence of deadlock: one answer at least is always accepted.
That the loops of the operators end is shown by their evaluation.

## 6. What is proved

All theorems hold for every value of the constants that satisfies the named
assumptions: `ConfigAssumption` (the dependency graph has no cycle, shown by
`Rank`; goals are packages' phony targets or world), `DownloadAssumption`
(at most one site has the package's own method: the primary and the backup site
are always wget) and `WorldAssumption` (no package is named as one of the kernel's
stamps; each `fs/*/*.mk` adds its image to `TARGETS` once).

### Packages

* `PackageInfraProofs!TypeCorrect`: `Spec => []TypeOK`.
* `PackageInfraProofs!StampsAreHonest`: `Spec => []StampsHonest`. `StampsHonest` is
  not inductive: that `Touch` keeps it takes what is on disk while a recipe is
  between `ran` and `Touch`; that a step which starts over (`BeginStep` makes its
  own result `Partial`, extraction also takes the patches away) does not hurt a
  later stamp takes that no such stamp is there or that the earlier stamp was
  removed by the user in the way the model allows. `IInv` adds what make has behind
  it (`WalkInv`: all to the left of what it is in is done, and so is all below what
  is done), which targets a removal goal can reach (`ScopeInv`), and what the
  stamps, recipes and removals say of each other (`StampInv`).

PackageOrderProofs goes on from `IInv`:

* `StepsAreReady` (`Spec => []StepsReady`) and `StepsInOrder` (`Spec => InOrder`, the
  refinement of Steps). A target that is done has done all below it
  (`DoneBelow`, kind of target by kind), so what a
  step needs is done, stamped (`DoneStamped`) and on disk when it runs
  (`NeedsStamped`, `StampedMade`); and a step of the build adds one stamp, its own,
  or none (`StampsMove`).
* `SuccessIsInstalled` (`Spec => []SuccessInstalls`): what the goal of a make has done
  below it at its end stays until the next make or change (`Achieved`).
* `InstalledIsUpToDate` (`Spec => []UpToDate`), if the user does not remove
  `.stamp_configured` alone: what is configured or built of whole input is as asked last
  (`WorkFresh`), and so is every installation with a stamp (`InstallsFresh`); what was
  made of other input stays `Doubtful`. The condition is needed: with that stamp
  removed the package is configured and not built again (see 4).
* `RecipesAreSerial`, `MakeNeverBlocks` and `MakeAdvances` are the safety half of
  `MakeEnds`: two recipes never run at once; a make that runs is at its end, has a
  target to go on with, or is in a recipe; and each of its steps takes one target
  from one phase to a later one and none back. The invariant is that the targets
  that are under way form one path in the dependency graph (`IsStack`), along which
  the `Height` of a target, its package's `Rank` and then its kind's `Level`, goes
  down: so no cycle closes, and below the last of the path the first prerequisite
  that is not done is not under way either. That these steps are also taken is
  fairness, and TLC's.

### Downloads

* `DownloadProofs!DownloadTypes`, `OneWriterAtATime`, `DirNeverTakenAway`: the
  inductive invariant says that at most one build holds the working directory
  and only while it exists (`OneHolder`, `OnlyHolders`, `DirKept`), that a wget
  that writes has its file present (`WgetWrites`), and `OneWriter` itself.
* `RecipesGetDone` is the safety half of `DownloadEnds`: `WorkLeft`, a number made of
  the calls, sites and commands a build has before it, goes down with each of its
  own steps and does not change with those of others.

### World

* `WorldProofs!WorldTypes` and `ImagesAreFinished` (`Spec => []OnlyFinished`). The
  invariant says what make has behind it: every target to the left of the
  present one has its stamp (`PackagesBehind`, `LinuxBehind`) or has run since the
  last installation (`FinishBehind`); a stamp stands for an installed component
  (`Installed`); and each kind of make keeps to its stages (`Stages`). So at the
  images everything is installed and finished, whatever came before. With
  `modules_install` among the faults the kernel's modules may be `Torn` (`Holds`).
* `WorldIsCurrent` (`Spec => []ResultsCurrent`): a stamp stands for what is due now,
  not only for something installed (`StampsCurrent`): of a kernel, one of its
  `.config`, unless linux-menuconfig was stopped before it removed the stamps
  (`saved`). That exception is the code's (see 4); it ends when
  the stamps are removed, and never covers the kernel with an initramfs in it, which
  every make builds again. Further, each image
  made since the packages were done holds it, and the kernel in `images/` embeds
  the initramfs there (`ImagesBehind`), or exists at all where there is none
  (`KernelsThere`); and that stays so until something changes (`WorldDone`). That
  an image just made is not overwritten in the same make takes that no image is
  in `TARGETS` twice.

### kconfig

* `ExprProofs`: for any symbols, types and values that fit them (`Valuation`), two
  operands that are joined have together the value of the one they become
  (`OrRuleMeans`, `AndRuleMeans`, over every pair of symbols, comparisons and their
  negations), a comparison of a boolean symbol has the value of what
  `expr_transform` makes of it (`ComparisonsMean`), an opposite is a negation
  (`OppositesNegate`), and a junction without y and n has the value of the one
  with them (`UnitsMean`).
* `ExprProofs` also has the walks, for expressions of every size. `E` is the set of
  all expressions over the symbols `S`, and a size that grows with each operator
  makes them finite (`Expressions`; NULL, which every walk returns unchanged, is left
  out). A walk is any function on `E` that is at each expression what its body in
  ExprRules makes of it with that function for the calls (`Eliminates`, `Transforms`,
  `Equates`, `Extracts`, `Dups1`, …): Expr closes the same bodies over RECURSIVE
  operators, and since each call is on something smaller, or further down, there
  is one such function. The proofs are by induction over sizes (`SizeInduction`); for
  `expr_eliminate_dups1` and `dups2`, over the size of the tree and the lengths of
  the two paths into it (`WalkInduction`), and they take that a rewriting at one
  path leaves what the others lead to where it was (`PutKeeps`, `PlacesApart`), for
  the code goes on in the tree it has just edited.
  - `EliminateYNMeans`, `TransformMeans`, `EqualsMean`, `ExtractMeans`, `Dups1Means`: the
    value is kept, whatever the symbols are, m included. `expr_eq`, which drops
    operands in any order and grouping, takes only expressions of the same value for
    equal.
  - `Dups2Means`, and with it `DupsMeans` for the whole loop of `expr_eliminate_dups`,
    allow an m to become anything (`SameButM`): an operand counts as absorbed when
    another one has its negation, which at m it need not exclude. This is the only
    walk for which `ValueKept` has to except m. `DupsMeans` says besides that the
    result is no larger and that a further turn leaves it alone; that a turn that
    counts something has made the expression smaller, and so the loop ends, is in
    the step from `TurnMeans`.
  - `TransBoolMeans`, `DependsMeans`, `CompareMeans`: a visibility is n when its boolean
    form is, a dependency on a symbol is n while the symbol is, and the comparison
    with a constant is y or n as that holds: the parts of `AnswersSound`.
  - `VisibilityKept` puts these together as `menu_finalize` does (menu.c:295, 306): a
    dependency, transformed and joined to what its entry stands below, keeps the
    value of the two wherever that is y or n, its boolean form is n exactly where it
    is, and both are in negation normal form, from which the entries below start
    again. It takes that the loop of `expr_eliminate_dups` leaves a normal form one
    (`DupsKeepNormal`, by the same induction over walks), and is the reason that
    `expr_trans_bool` may take every FOO!=n for FOO.

  They are the value halves of `ValueKept` and `AnswersSound`, which name the
  RECURSIVE operators and stay with TLC as they are written.
* `WindowsProofs!WindowsAreTrue` (`Spec => []WindowsTrue`) and `KeysAreTrue` (`Spec =>
  KeysMove`), from `HeightsAssumption`, `ListHeightAssumption`, `WidthAssumption`,
  `MaxScrollAssumption` and `WindowsAssumption`: lists, fields and texts of every
  length, windows of every size, menus nested to every depth. `WindowsTrue` is not
  inductive: that a line scrolled in is the right one takes that the window was
  drawn with as many lines as the screen it stands on has room for (`ListInv`,
  `InputInv`, `TextInv`); that it is right when drawn anew takes the places the
  callers kept (`CallInv`); and that a page up or down ends where it should takes
  that a page is full unless the end is reached (`TextShape`). `IInv` is these
  together. Each key has a lemma in its window, and there is one for every way a
  window is opened, left, or drawn anew.

* `ConfigFilesProofs!FreshIsDerived` (`Spec => []DerivedIsSaved`), `NothingForgotten`
  (`Spec => []NotForgotten`) and `FilesKeepStore` (`Spec => KeepsStore`, the refinement
  of ConfigStore), from `FilesAssumption`. `DerivedIsSaved` is not inductive: a user
  may move `.config.old` back, so the same has to hold of it while there is no
  `.config` (`Fresh`); and that the two files made one after the other are of one
  configuration takes where each command is (`Places`). For `NotForgotten` a header
  must be touched before `auto.conf` says so (`Compared`), what gcc is built from
  must be what make read, but for `late` (`AsRead`), and no death in between may take
  it back (`Noticed`, which does not ask whether `auto.conf` is fresh).
* `Saving!LeavingSaves` (`Spec => []SavedOnExit`), from `SavingAssumption`: no
  change counted means that the configuration is in a file (`Counted`), a save has
  something to write unless one was torn (`Whole`), and no one leaves with changes
  unasked (`Asked`).

The proofs are hierarchical: one lemma per action or per conjunct the action can
disturb, put together in `Inductive`, `InvHolds` and the theorems.

Only model-checked: the liveness properties (`MakeEnds`, `DownloadEnds`), since
fairness and ENABLED are outside of what the installed back ends prove; and of
kconfig the properties of expressions as Simplify states them, printing and the
blame of selectors among them, the menus, symbols, questions and the lists of the
front ends (`kexpr`, `kmenu`, `ksession`, `kask`, `kfront`), whose modules use
RECURSIVE operators, which the SMT back end does not take. Induction over numbers
is done by hand where a proof needs it: the least number of a set exists
(`LeastNatural`), from the well-founded order of the naturals.

## 7. What is not modelled, and why

See the components of `PROJECT.json`. In short:

* opkg-build, the dependency checks and the external toolchain wrapper: straight-line
  text processing without state;
* makedevs: one pass over a device table, with nothing beside it and nothing kept.
  (Read while deciding: `ret = EXIT_FAILURE` is set but `main` returns 0, `chmod`
  follows a failed `mknod`, and a relative root directory is prefixed after the
  `chdir` into it);
* the loop of patch-kernel.sh: its only state is the tree that PackageInfra has;
* the toolchain's stamps, vendored converters (elf2flt, mklibs), the boards, patches
  and recipes of packages: third-party programs and data of the infrastructure;
* of kconfig: the lexer and the generated tables, `option env`, the drawing code and
  its colours, nconf's own windows (`nconf.gui.c`), cursor and hotkey search, and
  which buttons of qconf are enabled;
* World has no fairness and no liveness: that a make ends is shown, with the walk
  over prerequisites, in PackageInfra.
