--------------------------- MODULE DownloadProofs ---------------------------
(***************************************************************************)
(* Proofs about Download: type correctness, that a working directory is    *)
(* removed only by the build that made it, that two builds that use the    *)
(* same method, if it is not bzr, never write into one archive at the same *)
(* time, and that no recipe tries for ever -- for any number of builds,    *)
(* any sites and any faults.                                               *)
(***************************************************************************)
EXTENDS Download, TLAPS

(* A build that has made the working directory and not yet removed it.     *)
Holds(b) == pc[b] \in {"open", "write", "rmdir"} /\ Method(b) \in SCM

OneHolder == \A a, b \in Builder : Holds(a) /\ Holds(b) => a = b

(* Only a clone or an export has anything to archive or to remove; only a  *)
(* wget saves to another name.                                             *)
OnlyHolders ==
    \A b \in Builder : /\ pc[b] \in {"open", "rmdir"} => Method(b) \in SCM
                       /\ pc[b] = "aside" => Method(b) = "wget"

(* What a wget writes to exists, so that no other wget opens it.           *)
WgetWrites ==
    \A b \in Builder : pc[b] = "write" /\ Method(b) = "wget" => file[Output(b)] # "absent"

IInv == TypeOK /\ DirKept /\ OneHolder /\ OnlyHolders /\ WgetWrites /\ OneWriter
-----------------------------------------------------------------------------
LEMMA ConstantFacts ==
    /\ Len(Wanted) \in {1, 2}
    /\ 1 \in 1 .. Len(Wanted)
    /\ \A i \in 1 .. Len(Wanted) : Wanted[i] \in Archive
    /\ \A s \in SiteLists :
          /\ Len(s) \in Nat /\ 1 \in 1 .. Len(s)
          /\ \A i \in 1 .. Len(s) : s[i] \in {"wget", "bzr"} \cup SCM
    /\ "source" \in Archive
    /\ "wget" \notin SCM /\ "bzr" \notin SCM
  <1>1. /\ Len(Wanted) \in {1, 2} /\ 1 \in 1 .. Len(Wanted)
        /\ \A i \in 1 .. Len(Wanted) : Wanted[i] \in Archive
    <2>1. CASE Wanted = <<"source">>
      BY <2>1 DEF Archive
    <2>2. CASE Wanted = <<"source", "patch">>
      BY <2>2 DEF Archive
    <2>. QED
      BY <2>1, <2>2, DownloadAssumption
  <1> DEFINE M == {"wget", "bzr"} \cup SCM
  <1>2. \A s \in SiteLists : s \in Seq(M) /\ s # <<>>
    BY DownloadAssumption
  <1>3. ASSUME NEW s \in SiteLists
        PROVE  /\ Len(s) \in Nat /\ 1 \in 1 .. Len(s)
               /\ \A i \in 1 .. Len(s) : s[i] \in M
    <2> HIDE DEF M
    <2>. QED
      BY <1>2
  <1>4. "source" \in Archive /\ "wget" \notin SCM /\ "bzr" \notin SCM
    BY DEF Archive, SCM
  <1>. QED
    BY <1>1, <1>3, <1>4

(* Where the control of one build may go, and that the others stay.        *)
Moved(b) ==
    /\ pc' = [pc EXCEPT ![b] = pc'[b]]
    /\ nth' = [nth EXCEPT ![b] = nth'[b]]
    /\ site' = [site EXCEPT ![b] = site'[b]]
    /\ pc'[b] \in {"idle", "test", "fetch", "open", "write", "aside", "rmdir", "ok", "failed"}
    /\ nth'[b] \in 1 .. Len(Wanted)
    /\ site'[b] \in 1 .. Len(sites) /\ sites' = sites

LEMMA SucceedsIs ==
    ASSUME TypeOK, NEW b \in Builder, Succeeds(b)
    PROVE  Moved(b) /\ pc'[b] \in {"test", "ok"}
  BY ConstantFacts DEF Succeeds, Moved, TypeOK

LEMMA FailsIs ==
    ASSUME TypeOK, NEW b \in Builder, Fails(b)
    PROVE  Moved(b) /\ pc'[b] \in {"test", "failed"}
  BY ConstantFacts DEF Fails, Moved, TypeOK

LEMMA GoesIs ==
    ASSUME TypeOK, NEW b \in Builder,
           NEW to \in {"idle", "fetch", "open", "write", "aside", "rmdir"}, Goes(b, to)
    PROVE  Moved(b) /\ pc'[b] = to /\ nth'[b] = nth[b] /\ site'[b] = site[b]
  BY DEF Goes, Moved, TypeOK

LEMMA OthersStay ==
    ASSUME TypeOK, NEW b \in Builder, Moved(b)
    PROVE  \A c \in Builder : c # b =>
              /\ pc'[c] = pc[c] /\ nth'[c] = nth[c] /\ site'[c] = site[c]
              /\ Method(c)' = Method(c) /\ Output(c)' = Output(c)
              /\ Holds(c)' <=> Holds(c)
  <1>1. \A c \in Builder : c # b =>
           pc'[c] = pc[c] /\ nth'[c] = nth[c] /\ site'[c] = site[c]
    BY DEF Moved, TypeOK
  <1>2. \A c \in Builder : c # b => Method(c)' = Method(c)
    BY <1>1 DEF Method, Moved
  <1>3. \A c \in Builder : c # b => Output(c)' = Output(c)
    BY <1>1, <1>2 DEF Output
  <1>. QED
    BY <1>1, <1>2, <1>3 DEF Holds

(* A step after which a build neither writes nor holds the directory.  It  *)
(* may complete an archive, and remove the directory if the build held it. *)
LEMMA Quits ==
    ASSUME IInv, NEW b \in Builder, Moved(b),
           pc'[b] \in {"idle", "test", "fetch", "ok", "failed"},
           last' = last, dir' \in BOOLEAN, dir => dir' \/ Holds(b),
           file' \in [Archive -> {"absent", "partial", "whole"}],
           \A a \in Archive : file[a] # "absent" => file'[a] # "absent"
    PROVE  IInv'
  <1>1. TypeOK'
    BY DEF IInv, TypeOK, Moved
  <1>2. /\ ~Holds(b)' /\ pc'[b] \notin {"open", "rmdir", "write", "aside"}
        /\ \A c \in Builder : c # b =>
              /\ pc'[c] = pc[c] /\ Method(c)' = Method(c) /\ Output(c)' = Output(c)
              /\ Holds(c)' <=> Holds(c)
    BY OthersStay DEF Holds, IInv
  <1>3. OneHolder' /\ OnlyHolders'
    BY <1>2 DEF IInv, OneHolder, OnlyHolders
  <1>4. DirKept'
    <2>1. SUFFICES ASSUME NEW c \in Builder, Holds(c)' PROVE dir'
      BY DEF DirKept, Holds
    <2>2. c # b /\ Holds(c)
      BY <1>2, <2>1
    <2>3. dir /\ ~Holds(b)
      BY <2>2 DEF IInv, DirKept, OneHolder, Holds
    <2>. QED
      BY <2>3
  <1>5. \A c \in Builder : Output(c) \in Archive
    BY ConstantFacts DEF IInv, TypeOK, Output
  <1>6. WgetWrites'
    BY <1>2, <1>5 DEF IInv, WgetWrites
  <1>7. OneWriter'
    BY <1>2 DEF IInv, OneWriter
  <1>. QED
    BY <1>1, <1>3, <1>4, <1>6, <1>7 DEF IInv

(* A step of a build that goes on with the same call and site.             *)
LEMMA GoesOn ==
    ASSUME IInv, NEW b \in Builder, NEW to \in {"open", "write", "aside", "rmdir"}, Goes(b, to),
           to \in {"open", "rmdir"} => Method(b) \in SCM,
           to = "aside" => Method(b) = "wget",
           Method(b) \in SCM => dir' /\ \A c \in Builder : Holds(c) => c = b,
           dir => dir', dir' \in BOOLEAN,
           last' \in [Archive -> Builder \cup {"none"}],
           file' \in [Archive -> {"absent", "partial", "whole"}],
           \A a \in Archive : file[a] # "absent" => file'[a] # "absent",
           to = "write" /\ Method(b) = "wget" =>
              file[Output(b)] = "absent" /\ file'[Output(b)] # "absent"
    PROVE  IInv'
  <1>1. TypeOK'
    BY GoesIs DEF IInv, TypeOK, Moved
  <1>2. pc'[b] = to /\ Method(b)' = Method(b) /\ Output(b)' = Output(b)
    BY GoesIs DEF Method, Output, Goes, IInv
  <1>3. \A c \in Builder : c # b =>
              /\ pc'[c] = pc[c] /\ Method(c)' = Method(c) /\ Output(c)' = Output(c)
              /\ Holds(c)' <=> Holds(c)
    BY OthersStay, GoesIs DEF IInv
  <1>4. Holds(b)' => Method(b) \in SCM
    BY <1>2 DEF Holds
  <1>5. OneHolder' /\ OnlyHolders' /\ DirKept'
    <2>1. OneHolder'
      BY <1>3, <1>4 DEF IInv, OneHolder
    <2>2. OnlyHolders'
      BY <1>2, <1>3 DEF IInv, OnlyHolders
    <2>3. DirKept'
      BY <1>3, <1>4 DEF IInv, DirKept, Holds
    <2>. QED
      BY <2>1, <2>2, <2>3
  <1>6. \A c \in Builder : Output(c) \in Archive /\ Method(c) \in {"wget", "bzr"} \cup SCM
    BY ConstantFacts DEF IInv, TypeOK, Output, Method
  <1>7. WgetWrites'
    BY <1>2, <1>3, <1>6 DEF IInv, WgetWrites
  <1>8. OneWriter'
    <2>1. SUFFICES ASSUME NEW c \in Builder, c # b, pc'[b] = "write", pc'[c] = "write",
                          Output(c)' = Output(b)', Method(c)' = Method(b)',
                          Method(b)' # "bzr"
                   PROVE  FALSE
      BY <1>3 DEF IInv, OneWriter
    <2>2. /\ pc[c] = "write" /\ to = "write" /\ Method(c) = Method(b)
          /\ Output(c) = Output(b) /\ Method(b) # "bzr"
      BY <1>2, <1>3, <2>1
    <2>3. CASE Method(b) = "wget"
      BY <2>2, <2>3 DEF IInv, WgetWrites
    <2>4. CASE Method(b) \in SCM
      <3>1. Holds(c)
        BY <2>2, <2>4 DEF Holds
      <3>. QED
        BY <2>1, <2>4, <3>1
    <2>. QED
      BY <1>6, <2>2, <2>3, <2>4
  <1>. QED
    BY <1>1, <1>5, <1>7, <1>8 DEF IInv
-----------------------------------------------------------------------------
LEMMA InitHolds == Init => IInv
  <1> SUFFICES ASSUME Init PROVE IInv
    OBVIOUS
  <1>1. TypeOK
    BY ConstantFacts DEF Init, TypeOK
  <1>2. \A b \in Builder : pc[b] = "idle"
    BY DEF Init
  <1>. QED
    BY <1>1, <1>2
       DEF IInv, DirKept, OneHolder, OnlyHolders, Holds, WgetWrites, OneWriter

LEMMA StepHolds ==
    ASSUME IInv, NEW b \in Builder, Start(b) \/ Step(b) \/ Killed(b)
    PROVE  IInv'
  <1> USE DEF DL
  <1>1. /\ TypeOK /\ Output(b) \in Archive
        /\ Method(b) \in {"wget", "bzr"} \cup SCM
        /\ "wget" \notin SCM /\ "bzr" \notin SCM
    BY ConstantFacts DEF IInv, TypeOK, Output, Method
  <1>2. /\ dir \in BOOLEAN /\ last \in [Archive -> Builder \cup {"none"}]
        /\ file \in [Archive -> {"absent", "partial", "whole"}]
    BY <1>1 DEF TypeOK
  <1>3. ASSUME UNCHANGED DL, Moved(b),
               pc'[b] \in {"idle", "test", "fetch", "ok", "failed"}
        PROVE  IInv'
    BY <1>2, <1>3, Quits
  <1>4. CASE Start(b)
    <2>1. Moved(b) /\ pc'[b] = "test"
      BY <1>1, <1>4, ConstantFacts DEF Start, Moved, TypeOK
    <2>. QED
      BY <1>3, <1>4, <2>1 DEF Start
  <1>5. CASE Test(b)
    <2>1. CASE Succeeds(b)
      BY <1>1, <1>3, <1>5, <2>1, SucceedsIs DEF Test
    <2>2. CASE Goes(b, "fetch")
      BY <1>1, <1>3, <1>5, <2>2, GoesIs DEF Test
    <2>. QED
      BY <1>5, <2>1, <2>2 DEF Test
  <1>6. CASE DirExists(b) \/ Refused(b) \/ Cut(b)
    BY <1>1, <1>3, <1>6, FailsIs DEF DirExists, Refused, Cut
  <1>7. CASE Killed(b)
    BY <1>1, <1>3, <1>7, GoesIs DEF Killed
  <1>8. CASE ExportCut(b)
    BY <1>1, <1>2, <1>8, FailsIs, Quits DEF ExportCut
  <1>9. CASE MakeDir(b)
    <2>1. \A c \in Builder : Holds(c) => c = b
      BY <1>9 DEF MakeDir, IInv, DirKept, Holds
    <2>. QED
      BY <1>1, <1>2, <1>9, <2>1, GoesOn DEF MakeDir
  <1>10. ASSUME Truncates(b), Method(b) = "wget" => file[Output(b)] = "absent",
                Method(b) \in SCM => Holds(b)
         PROVE  IInv'
    <2>1. /\ file' = [file EXCEPT ![Output(b)] = "partial"]
          /\ last' = [last EXCEPT ![Output(b)] = b]
          /\ Goes(b, "write") /\ dir' = dir
      BY <1>10 DEF Truncates
    <2>2. /\ file' \in [Archive -> {"absent", "partial", "whole"}]
          /\ file'[Output(b)] # "absent"
          /\ \A a \in Archive : file[a] # "absent" => file'[a] # "absent"
          /\ last' \in [Archive -> Builder \cup {"none"}]
      BY <1>1, <1>2, <2>1
    <2>3. Method(b) \in SCM => dir' /\ \A c \in Builder : Holds(c) => c = b
      BY <1>10, <2>1 DEF IInv, DirKept, OneHolder, Holds
    <2>. QED
      BY <1>2, <1>10, <2>1, <2>2, <2>3, GoesOn
  <1>11. CASE OpenWget(b)
    <2>1. CASE file[Output(b)] = "absent" /\ Truncates(b)
      BY <1>1, <1>10, <1>11, <2>1 DEF OpenWget
    <2>2. CASE Goes(b, "aside") /\ UNCHANGED DL
      BY <1>1, <1>2, <1>11, <2>2, GoesOn DEF OpenWget
    <2>. QED
      BY <1>11, <2>1, <2>2 DEF OpenWget
  <1>12. CASE OpenArchive(b)
    BY <1>10, <1>12 DEF OpenArchive, Holds
  <1>13. ASSUME Written(b), pc[b] \in {"write", "aside"}, last' = last, dir' = dir,
                file' \in [Archive -> {"absent", "partial", "whole"}],
                \A a \in Archive : file[a] # "absent" => file'[a] # "absent"
         PROVE  IInv'
    <2>1. CASE Method(b) \in SCM
      <3>1. Goes(b, "rmdir")
        BY <1>13, <2>1 DEF Written
      <3>2. Holds(b)
        BY <1>1, <1>13, <2>1 DEF Holds, IInv, OnlyHolders
      <3>3. dir' /\ \A c \in Builder : Holds(c) => c = b
        BY <1>13, <3>2 DEF IInv, DirKept, OneHolder, Holds
      <3>. QED
        BY <1>2, <1>13, <2>1, <3>1, <3>3, GoesOn
    <2>2. CASE Method(b) \notin SCM
      BY <1>1, <1>2, <1>13, <2>2, SucceedsIs, Quits DEF Written
    <2>. QED
      BY <2>1, <2>2
  <1>14. CASE Close(b)
    <2>1. /\ file' \in [Archive -> {"absent", "partial", "whole"}]
          /\ \A a \in Archive : file[a] # "absent" => file'[a] # "absent"
      BY <1>1, <1>2, <1>14 DEF Close
    <2>. QED
      BY <1>13, <1>14, <2>1 DEF Close
  <1>15. CASE NoVersion(b)
    BY <1>2, <1>13, <1>15 DEF NoVersion
  <1>16. CASE RemoveDir(b)
    <2>1. Holds(b) /\ dir' = FALSE /\ file' = file /\ last' = last
      BY <1>16 DEF RemoveDir, Holds, IInv, OnlyHolders
    <2>2. Moved(b) /\ pc'[b] \in {"test", "ok"}
      BY <1>1, <1>16, SucceedsIs DEF RemoveDir
    <2>. QED
      BY <1>2, <2>1, <2>2, Quits
  <1>. QED
    BY <1>4, <1>5, <1>6, <1>7, <1>8, <1>9, <1>11, <1>12, <1>14, <1>15, <1>16 DEF Step

LEMMA InvHolds == Spec => []IInv
  <1>1. IInv /\ UNCHANGED vars => IInv'
    BY DEF IInv, TypeOK, DirKept, OneHolder, OnlyHolders, Holds, WgetWrites, OneWriter,
          Method, Output, vars
  <1>2. IInv /\ [Next]_vars => IInv'
    BY <1>1, StepHolds DEF Next
  <1>. QED
    BY InitHolds, <1>2, PTL DEF Spec

(* The state is of the shape TypeOK describes: in particular no build ever *)
(* tries a site past the last.                                             *)
THEOREM DownloadTypes == Spec => []TypeOK
  BY InvHolds, PTL DEF IInv

(* No two wgets and no two clones or exports of any number of builds ever  *)
(* write into one archive at the same time, whatever fails or is killed.   *)
THEOREM OneWriterAtATime == Spec => []OneWriter
  BY InvHolds, PTL DEF IInv

(* No build removes the working directory under another that archives.     *)
THEOREM DirNeverTakenAway == Spec => []DirKept
  BY InvHolds, PTL DEF IInv
-----------------------------------------------------------------------------
(* What a build still has to do for its site, for the sites after it and,  *)
(* where the recipe makes two calls, for those of the second.              *)
Ahead(x) == CASE x = "test" -> 5 [] x = "fetch" -> 4 [] x = "open" -> 3
              [] x \in {"write", "aside"} -> 2 [] x = "rmdir" -> 1 [] OTHER -> 0
SitesLeft(b) ==
    (Len(sites) - site[b]) + (IF nth[b] < Len(Wanted) THEN Len(sites) ELSE 0)
WorkLeft(b) ==
    IF pc[b] \in {"idle", "failed", "ok"} THEN 0 ELSE 6 * SitesLeft(b) + Ahead(pc[b])

LEMMA WorkIs ==
    ASSUME TypeOK, NEW b \in Builder
    PROVE  /\ Len(sites) \in Nat \ {0} /\ Len(Wanted) \in {1, 2}
           /\ nth[b] \in 1 .. Len(Wanted) /\ site[b] \in 1 .. Len(sites)
           /\ SitesLeft(b) \in Nat /\ WorkLeft(b) \in Nat
  <1>1. /\ Len(sites) \in Nat \ {0} /\ Len(Wanted) \in {1, 2}
        /\ nth[b] \in 1 .. Len(Wanted) /\ site[b] \in 1 .. Len(sites)
    BY ConstantFacts DEF TypeOK
  <1>2. SitesLeft(b) \in Nat
    BY <1>1 DEF SitesLeft
  <1>. QED
    BY <1>1, <1>2 DEF WorkLeft, Ahead

(* A site that delivers or fails, and a command of the site.               *)
LEMMA DeliversLess ==
    ASSUME TypeOK, NEW b \in Builder, pc[b] \notin {"idle", "failed", "ok"}, Succeeds(b)
    PROVE  WorkLeft(b)' < WorkLeft(b)
  <1>1. WorkLeft(b) = 6 * SitesLeft(b) + Ahead(pc[b]) /\ Ahead(pc[b]) \in 1 .. 5
    BY DEF WorkLeft, TypeOK, Ahead
  <1>2. CASE nth[b] < Len(Wanted)
    <2>1. /\ pc'[b] = "test" /\ site'[b] = 1 /\ sites' = sites /\ nth'[b] = Len(Wanted)
      <3>1. pc'[b] = "test" /\ site'[b] = 1 /\ sites' = sites /\ nth'[b] = nth[b] + 1
        BY <1>2 DEF Succeeds, TypeOK
      <3>2. nth[b] + 1 = Len(Wanted)
        <4>1. \A n \in {1, 2} : \A i \in 1 .. n : i < n => i + 1 = n
          OBVIOUS
        <4>. QED
          BY <1>2, <4>1, WorkIs
      <3>. QED
        BY <3>1, <3>2
    <2>2. SitesLeft(b)' = Len(sites) - 1
      BY <2>1, WorkIs DEF SitesLeft
    <2>3. WorkLeft(b)' = 6 * (Len(sites) - 1) + 5
      BY <2>1, <2>2 DEF WorkLeft, Ahead
    <2>4. SitesLeft(b) = (Len(sites) - site[b]) + Len(sites)
      BY <1>2 DEF SitesLeft
    <2>5. Len(sites) - 1 < SitesLeft(b)
      BY <2>4, WorkIs
    <2>6. Len(sites) - 1 \in Int /\ SitesLeft(b) \in Int
      BY WorkIs
    <2>7. 6 * (Len(sites) - 1) + 5 < 6 * SitesLeft(b) + 1
      <3>1. \A x, y \in Int : x < y => 6 * x + 5 < 6 * y + 1
        OBVIOUS
      <3>. QED
        BY <2>5, <2>6, <3>1
    <2>. QED
      BY <1>1, <2>3, <2>6, <2>7
  <1>3. CASE ~(nth[b] < Len(Wanted))
    <2>1. WorkLeft(b)' = 0
      BY <1>3 DEF Succeeds, TypeOK, WorkLeft
    <2>. QED
      BY <1>1, <2>1, WorkIs
  <1>. QED
    BY <1>2, <1>3

LEMMA FailsLess ==
    ASSUME TypeOK, NEW b \in Builder, pc[b] \notin {"idle", "failed", "ok"}, Fails(b)
    PROVE  WorkLeft(b)' < WorkLeft(b)
  <1>1. WorkLeft(b) = 6 * SitesLeft(b) + Ahead(pc[b]) /\ Ahead(pc[b]) \in 1 .. 5
    BY DEF WorkLeft, TypeOK, Ahead
  <1>2. CASE site[b] < Len(sites)
    <2>1. pc'[b] = "test" /\ site'[b] = site[b] + 1 /\ nth' = nth /\ sites' = sites
      BY <1>2 DEF Fails, TypeOK
    <2>2. SitesLeft(b)' = SitesLeft(b) - 1
      BY <2>1, WorkIs DEF SitesLeft
    <2>3. WorkLeft(b)' = 6 * (SitesLeft(b) - 1) + 5
      BY <2>1, <2>2 DEF WorkLeft, Ahead
    <2>. QED
      BY <1>1, <2>3, WorkIs
  <1>3. CASE ~(site[b] < Len(sites))
    <2>1. WorkLeft(b)' = 0
      BY <1>3 DEF Fails, TypeOK, WorkLeft
    <2>. QED
      BY <1>1, <2>1, WorkIs
  <1>. QED
    BY <1>2, <1>3

LEMMA GoesLess ==
    ASSUME TypeOK, NEW b \in Builder, pc[b] \notin {"idle", "failed", "ok"},
           NEW to \in {"idle", "fetch", "open", "write", "aside", "rmdir"}, Goes(b, to),
           Ahead(to) < Ahead(pc[b])
    PROVE  WorkLeft(b)' < WorkLeft(b)
  <1>1. WorkLeft(b) = 6 * SitesLeft(b) + Ahead(pc[b]) /\ Ahead(pc[b]) \in 1 .. 5
    BY DEF WorkLeft, TypeOK, Ahead
  <1>2. pc'[b] = to /\ site' = site /\ nth' = nth /\ sites' = sites
    BY DEF Goes, TypeOK
  <1>3. SitesLeft(b)' = SitesLeft(b)
    BY <1>2 DEF SitesLeft
  <1>4. WorkLeft(b)' = (IF to = "idle" THEN 0 ELSE 6 * SitesLeft(b) + Ahead(to))
    BY <1>2, <1>3 DEF WorkLeft
  <1>. QED
    BY <1>1, <1>4, WorkIs DEF Ahead

LEMMA StepLess ==
    ASSUME TypeOK, NEW b \in Builder, Step(b) \/ Killed(b)
    PROVE  WorkLeft(b)' < WorkLeft(b)
  <1>1. CASE Test(b)
    BY <1>1, DeliversLess, GoesLess DEF Test, Ahead
  <1>2. CASE MakeDir(b)
    BY <1>2, GoesLess DEF MakeDir, Ahead
  <1>3. CASE DirExists(b) \/ Refused(b) \/ ExportCut(b) \/ Cut(b)
    BY <1>3, FailsLess DEF DirExists, Refused, ExportCut, Cut
  <1>4. CASE OpenWget(b) \/ OpenArchive(b)
    <2>1. pc[b] \in {"fetch", "open"} /\ (Goes(b, "write") \/ Goes(b, "aside"))
      BY <1>4 DEF OpenWget, OpenArchive, Truncates
    <2>. QED
      BY <2>1, GoesLess DEF Ahead
  <1>5. CASE Close(b) \/ NoVersion(b)
    <2>1. pc[b] \in {"write", "aside"} /\ (Goes(b, "rmdir") \/ Succeeds(b))
      BY <1>5 DEF Close, NoVersion, Written
    <2>. QED
      BY <2>1, GoesLess, DeliversLess DEF Ahead
  <1>6. CASE RemoveDir(b)
    BY <1>6, DeliversLess DEF RemoveDir
  <1>7. CASE Killed(b)
    <2>1. Ahead("idle") < Ahead(pc[b])
      BY <1>7 DEF Killed, TypeOK, Ahead
    <2>. QED
      BY <1>7, <2>1, GoesLess DEF Killed
  <1>. QED
    BY <1>1, <1>2, <1>3, <1>4, <1>5, <1>6, <1>7 DEF Step

(* Every step of a build's recipe leaves it less to do, and no step but    *)
(* the start of another recipe of the build leaves it more, whatever the   *)
(* other builds do: no recipe tries its sites for ever.                    *)
GetsDone ==
    \A b \in Builder : /\ Step(b) \/ Killed(b) => WorkLeft(b)' < WorkLeft(b)
                       /\ WorkLeft(b)' > WorkLeft(b) => Start(b)

LEMMA OneMoves ==
    ASSUME TypeOK, NEW b \in Builder, Start(b) \/ Step(b) \/ Killed(b)
    PROVE  Moved(b)
  <1>1. CASE Start(b)
    BY <1>1, ConstantFacts DEF Start, Moved, TypeOK
  <1>2. CASE Killed(b)
    BY <1>2, GoesIs DEF Killed
  <1>3. CASE Step(b)
    <2>1. \/ Succeeds(b) \/ Fails(b)
          \/ \E to \in {"idle", "fetch", "open", "write", "aside", "rmdir"} : Goes(b, to)
      BY <1>3
         DEF Step, Test, MakeDir, DirExists, Refused, ExportCut, OpenWget, OpenArchive, Close,
             NoVersion, Cut, RemoveDir, Truncates, Written
    <2>. QED
      BY <2>1, SucceedsIs, FailsIs, GoesIs
  <1>. QED
    BY <1>1, <1>2, <1>3

LEMMA NextGetsDone ==
    ASSUME TypeOK, Next
    PROVE  GetsDone
  <1> SUFFICES ASSUME NEW b \in Builder
               PROVE  /\ Step(b) \/ Killed(b) => WorkLeft(b)' < WorkLeft(b)
                      /\ WorkLeft(b)' > WorkLeft(b) => Start(b)
    BY DEF GetsDone
  <1>1. Step(b) \/ Killed(b) => WorkLeft(b)' < WorkLeft(b)
    BY StepLess
  <1>2. PICK c \in Builder : Start(c) \/ Step(c) \/ Killed(c)
    BY DEF Next
  <1>3. CASE c # b
    <2>1. pc'[b] = pc[b] /\ nth'[b] = nth[b] /\ site'[b] = site[b] /\ sites' = sites
      BY <1>2, <1>3, OneMoves, OthersStay DEF Moved
    <2>2. SitesLeft(b)' = SitesLeft(b)
      BY <2>1 DEF SitesLeft
    <2>3. WorkLeft(b)' = WorkLeft(b)
      BY <2>1, <2>2 DEF WorkLeft
    <2>. QED
      BY <1>1, <2>3, WorkIs
  <1>4. CASE Step(b) \/ Killed(b)
    <2>1. WorkLeft(b)' \in Int
      <3>1. Moved(b)
        BY <1>4, OneMoves
      <3>2. site'[b] \in Int /\ sites' = sites /\ Len(sites) \in Int
        BY <3>1, WorkIs DEF Moved
      <3>3. SitesLeft(b)' \in Int
        BY <3>2 DEF SitesLeft
      <3>. QED
        BY <3>3 DEF WorkLeft, Ahead
    <2>. QED
      BY <1>1, <1>4, <2>1, WorkIs
  <1>. QED
    BY <1>1, <1>2, <1>3, <1>4

(* No recipe tries its sites for ever, whatever fails and whatever other   *)
(* builds do to DL_DIR.                                                    *)
THEOREM RecipesGetDone == Spec => [][GetsDone]_vars
  <1>1. IInv /\ [Next]_vars => [GetsDone]_vars
    BY NextGetsDone DEF IInv
  <1>. QED
    BY <1>1, InvHolds, PTL DEF Spec
=============================================================================
