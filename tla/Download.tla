------------------------------ MODULE Download ------------------------------
(***************************************************************************)
(* The recipe of .stamp_downloaded and the DOWNLOAD, DOWNLOAD_WGET, _GIT,  *)
(* _SVN and _BZR macros it expands to (package/Makefile.package.in), run   *)
(* for one package by several builds that share the download directory     *)
(* DL_DIR: it belongs to the source tree, not to the output directory.     *)
(*                                                                         *)
(* The recipe calls DOWNLOAD for the archive and then for the patch, if    *)
(* the package names one.  A call tries the primary site, the package's    *)
(* own site with the package's method, and the backup site, in order.      *)
(***************************************************************************)
EXTENDS Integers, Sequences

CONSTANTS
    Builder,  \* the builds that share DL_DIR
    Wanted,   \* what the recipe downloads: <<"source">> or <<"source", "patch">>
    SiteLists,\* for each package the method of each site tried: "wget", "git",
              \* "svn" or "bzr"
    Faults    \* what may go wrong: "refused", "cut", "noversion", "killed"

Archive == {"source", "patch"}
SCM     == {"git", "svn"}   \* methods that first make a working directory

ASSUME DownloadAssumption ==
    /\ Wanted \in {<<"source">>, <<"source", "patch">>}
    /\ \A s \in SiteLists :
          /\ s \in Seq({"wget", "bzr"} \cup SCM) /\ s # <<>>
          /\ \A i, j \in DOMAIN s : s[i] # "wget" /\ s[j] # "wget" => i = j
    /\ Faults \subseteq {"refused", "cut", "noversion", "killed"}
    /\ "none" \notin Builder

VARIABLES
    sites,  \* the sites of this package
    file,   \* each archive in DL_DIR: "absent", "partial" or "whole"
    last,   \* the build that opened the archive last, "none" before that
    dir,    \* DL_DIR holds the package's working directory
    pc,     \* how far each build's recipe is
    nth,    \* which DOWNLOAD call it is at
    site    \* which site it tries

vars == <<sites, file, last, dir, pc, nth, site>>
DL   == <<file, last, dir>>

Init ==
    /\ sites \in SiteLists
    /\ file = [a \in Archive |-> "absent"]
    /\ last = [a \in Archive |-> "none"]
    /\ dir = FALSE
    /\ pc = [b \in Builder |-> "idle"]
    /\ nth = [b \in Builder |-> 1]
    /\ site = [b \in Builder |-> 1]

Method(b) == sites[site[b]]

(* Only wget is told the file it is to get; the others make the archive,   *)
(* whichever file the call is for.                                         *)
Output(b) == IF Method(b) = "wget" THEN Wanted[nth[b]] ELSE "source"
-----------------------------------------------------------------------------
(* Control: "&& exit" when a site delivers, the next site when it does not *)

(* The build has no stamp: it is new, or the recipe did not end before.    *)
Start(b) ==
    /\ pc[b] \in {"idle", "failed", "ok"}
    /\ pc' = [pc EXCEPT ![b] = "test"]
    /\ nth' = [nth EXCEPT ![b] = 1]
    /\ site' = [site EXCEPT ![b] = 1]
    /\ UNCHANGED <<DL, sites>>

Succeeds(b) ==
    /\ site' = [site EXCEPT ![b] = 1]
    /\ IF nth[b] < Len(Wanted)
       THEN /\ nth' = [nth EXCEPT ![b] = @ + 1]
            /\ pc' = [pc EXCEPT ![b] = "test"]
       ELSE /\ pc' = [pc EXCEPT ![b] = "ok"]
            /\ UNCHANGED nth
    /\ UNCHANGED sites

(* Mutant of Fails: one site too many.                                     *)
MutantPastLast(b) ==
    /\ IF site[b] <= Len(sites)
       THEN /\ site' = [site EXCEPT ![b] = @ + 1]
            /\ pc' = [pc EXCEPT ![b] = "test"]
       ELSE /\ pc' = [pc EXCEPT ![b] = "failed"]
            /\ UNCHANGED site
    /\ UNCHANGED <<nth, sites>>

(* Mutant of Fails: the sites are tried for ever.                          *)
MutantForever(b) ==
    /\ site' = [site EXCEPT ![b] = IF @ < Len(sites) THEN @ + 1 ELSE 1]
    /\ pc' = [pc EXCEPT ![b] = "test"]
    /\ UNCHANGED <<nth, sites>>

Fails(b) ==
    /\ IF site[b] < Len(sites)
       THEN /\ site' = [site EXCEPT ![b] = @ + 1]
            /\ pc' = [pc EXCEPT ![b] = "test"]
       ELSE /\ pc' = [pc EXCEPT ![b] = "failed"]
            /\ UNCHANGED site
    /\ UNCHANGED <<nth, sites>>

Goes(b, to) ==
    /\ pc' = [pc EXCEPT ![b] = to]
    /\ UNCHANGED <<nth, site, sites>>
-----------------------------------------------------------------------------
(* The commands *)

(* test -e: a file of that name, whole or not, is what was asked for.      *)
Test(b) ==
    /\ pc[b] = "test"
    /\ IF file[Output(b)] # "absent" THEN Succeeds(b) ELSE Goes(b, "fetch")
    /\ UNCHANGED DL

(* Mutant of MakeDir: the clone and the export overwrite a directory.      *)
MutantForce(b) ==
    /\ pc[b] = "fetch"
    /\ Method(b) \in SCM
    /\ dir' = TRUE
    /\ Goes(b, "open")
    /\ UNCHANGED <<file, last>>

(* git clone --bare and svn export make the working directory.             *)
MakeDir(b) ==
    /\ pc[b] = "fetch"
    /\ Method(b) \in SCM
    /\ ~dir
    /\ dir' = TRUE
    /\ Goes(b, "open")
    /\ UNCHANGED <<file, last>>

(* They refuse a directory that exists.                                    *)
DirExists(b) ==
    /\ pc[b] = "fetch"
    /\ Method(b) \in SCM
    /\ dir
    /\ Fails(b)
    /\ UNCHANGED DL

(* The site is down or has no such file or repository; nothing is left.    *)
Refused(b) ==
    /\ "refused" \in Faults
    /\ pc[b] = "fetch"
    /\ Fails(b)
    /\ UNCHANGED DL

(* The export stops half way and leaves its directory (git removes its).   *)
ExportCut(b) ==
    /\ "cut" \in Faults
    /\ pc[b] = "fetch"
    /\ Method(b) = "svn"
    /\ ~dir
    /\ dir' = TRUE
    /\ Fails(b)
    /\ UNCHANGED <<file, last>>

Truncates(b) ==
    /\ file' = [file EXCEPT ![Output(b)] = "partial"]
    /\ last' = [last EXCEPT ![Output(b)] = b]
    /\ Goes(b, "write")
    /\ UNCHANGED dir

(* Mutant of OpenWget: wget -O writes over what is there.                  *)
MutantOverwrites(b) ==
    /\ pc[b] = "fetch"
    /\ Method(b) = "wget"
    /\ Truncates(b)

(* wget -P saves to another name when the file has come to exist.          *)
OpenWget(b) ==
    /\ pc[b] = "fetch"
    /\ Method(b) = "wget"
    /\ \/ file[Output(b)] = "absent" /\ Truncates(b)
       \/ file[Output(b)] # "absent" /\ Goes(b, "aside") /\ UNCHANGED DL

(* gzip -c > file, tar czf file, bzr export file.                          *)
OpenArchive(b) ==
    /\ pc[b] = IF Method(b) \in SCM THEN "open" ELSE "fetch"
    /\ Method(b) # "wget"
    /\ Truncates(b)

Written(b) == IF Method(b) \in SCM THEN Goes(b, "rmdir") ELSE Succeeds(b)

(* The last byte is written.  The archive is whole when that was by the    *)
(* build that opened it last.                                              *)
Close(b) ==
    /\ pc[b] \in {"write", "aside"}
    /\ file' = IF pc[b] = "write" /\ last[Output(b)] = b
               THEN [file EXCEPT ![Output(b)] = "whole"] ELSE file
    /\ Written(b)
    /\ UNCHANGED <<last, dir>>

(* git archive | gzip > file: the status is that of gzip, so when there is *)
(* no such version the command goes on with an empty archive.              *)
NoVersion(b) ==
    /\ "noversion" \in Faults
    /\ pc[b] = "write"
    /\ Method(b) = "git"
    /\ Written(b)
    /\ UNCHANGED DL

(* The connection drops or the disk is full.                               *)
Cut(b) ==
    /\ "cut" \in Faults
    /\ pc[b] \in {"write", "aside"}
    /\ Fails(b)
    /\ UNCHANGED DL

(* rm -rf of the working directory.                                        *)
RemoveDir(b) ==
    /\ pc[b] = "rmdir"
    /\ dir' = FALSE
    /\ Succeeds(b)
    /\ UNCHANGED <<file, last>>

(* The machine stops, or the build is killed.                              *)
Killed(b) ==
    /\ "killed" \in Faults
    /\ pc[b] \notin {"idle", "failed", "ok"}
    /\ Goes(b, "idle")
    /\ UNCHANGED DL

Step(b) ==
    \/ Test(b) \/ MakeDir(b) \/ DirExists(b) \/ Refused(b) \/ ExportCut(b)
    \/ OpenWget(b) \/ OpenArchive(b) \/ Close(b) \/ NoVersion(b) \/ Cut(b)
    \/ RemoveDir(b)

Next == \E b \in Builder : Start(b) \/ Step(b) \/ Killed(b)
Spec == Init /\ [][Next]_vars

(* Each build that runs goes on running; none has to be started.           *)
FairSpec == Spec /\ \A b \in Builder : WF_vars(Step(b))
-----------------------------------------------------------------------------
(* Properties *)

TypeOK ==
    /\ sites \in SiteLists
    /\ file \in [Archive -> {"absent", "partial", "whole"}]
    /\ last \in [Archive -> Builder \cup {"none"}]
    /\ dir \in BOOLEAN
    /\ pc \in [Builder -> {"idle", "test", "fetch", "open", "write", "aside", "rmdir",
                           "ok", "failed"}]
    /\ nth \in [Builder -> 1 .. Len(Wanted)]
    /\ site \in [Builder -> 1 .. Len(sites)]

(* Two wgets, or two clones or exports, never write into one archive at the*)
(* same time, whatever is killed or fails: wget will not open a file that  *)
(* exists, and a working directory that exists keeps the second clone or   *)
(* export out.  (A wget and a clone may; so may two of bzr.)               *)
OneWriter ==
    \A a, b \in Builder :
        /\ pc[a] = "write" /\ pc[b] = "write" /\ Output(a) = Output(b)
        /\ Method(a) = Method(b) /\ Method(a) # "bzr"
        => a = b

(* A working directory is removed only by the build that made it: none is  *)
(* removed under a build that still archives from it.                      *)
DirKept == \A b \in Builder : pc[b] \in {"open", "write", "rmdir"} /\ Method(b) \in SCM => dir

(* Every recipe ends, well or not.                                         *)
DownloadEnds == \A b \in Builder : (pc[b] = "test") ~> (pc[b] \in {"ok", "failed", "idle"})
=============================================================================
