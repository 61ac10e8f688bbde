------------------------------- MODULE Upgrade -------------------------------
(***************************************************************************)
(* The tool replaces its own executable: check, download, verification,    *)
(* and the replacement with its two layers of undoing.  The GUI and the    *)
(* command line may both do so at the same time; nothing is locked.        *)
(*                                                                         *)
(* Sources: src/upgrade/upgrade.go (DownloadAndVerify, ApplyUpdate),       *)
(* src/upgrade/updater.go, src/upgrade/checker.go, src/main.go runUpgrade, *)
(* src/ui/dialogs_upgrade.go.                                              *)
(*                                                                         *)
(* Files behave as on Windows: the image of a running process can be       *)
(* renamed but not removed, replaced or opened for writing; a file that is *)
(* open for writing can be neither removed nor renamed nor replaced nor    *)
(* started, but be opened for writing once more.                           *)
(***************************************************************************)
EXTENDS Integers

CONSTANTS
  Updaters,   \* processes of the tool
  Absent,     \* no file
  Torn,       \* a file cut off or mixed from two
  Unlisted,   \* a signed file that is not the one the release names
  Unsigned,   \* a file of that checksum without a trusted signature
  MaxVersion, \* bound: releases, numbered in the order of CompareVersion
  MaxUpdates, \* bound: updates prepared
  MaxFaults   \* bound: failed file operations

Versions == 1 .. MaxVersion

Rejected == {Unlisted, Unsigned}

ASSUME UpgradeAssumption ==
  /\ MaxVersion \in Nat \ {0} /\ MaxUpdates \in Nat \ {0} /\ MaxFaults \in Nat
  /\ Absent # Torn /\ {Absent, Torn} \cap Rejected = {} /\ Unlisted # Unsigned
  /\ (Rejected \cup {Absent, Torn}) \cap Versions = {}

VARIABLES
  \* the file system
  exe,       \* what is at the path of the executable
  bak,       \* what is in .backup, by time stamp
  writing,   \* updaters that have exe open for writing
  doomed,    \* backups to be removed when the system starts
  \* each process
  pc,
  image,     \* the path its image is at now
  version,   \* its version
  want, got, \* release it has found, file it has downloaded
  stamp,     \* time stamp of its plan
  \* around them
  latest,    \* version at the release server
  clock,     \* the next time stamp
  \* history
  overlap,   \* two updates were installed at the same time
  crashed,   \* a process died while it was installing
  faults

fileVars == <<exe, bak, writing, doomed>>
procVars == <<image, version, want, got, stamp>>
hist     == <<overlap, crashed>>
vars == <<fileVars, pc, procVars, latest, clock, hist, faults>>

-----------------------------------------------------------------------------
(* State spaces. *)

Files == Versions \cup Rejected \cup {Torn, Absent}

\* No two updates are prepared within the same second.
Stamps == 1 .. MaxUpdates

Exe == 0
None == -1

Installing == {"aside", "copy", "write", "finish", "restore", "undo", "back",
               "recopy", "rewrite", "failed"}

Labels == Installing \cup {"off", "on", "download", "verify", "ready"}

TypeOK ==
  /\ exe \in Files /\ bak \in [Stamps -> Files]
  /\ writing \subseteq Updaters /\ doomed \subseteq Stamps
  /\ pc \in [Updaters -> Labels]
  /\ image \in [Updaters -> Stamps \cup {Exe, None}]
  /\ \A u \in Updaters : (image[u] = None) = (pc[u] = "off")
  /\ version \in [Updaters -> Versions \cup {None}]
  /\ want \in [Updaters -> Versions \cup {None}]
  /\ got \in [Updaters -> Files]
  /\ stamp \in [Updaters -> Stamps \cup {None}]
  /\ latest \in Versions /\ clock \in 1 .. MaxUpdates + 1
  /\ overlap \in BOOLEAN /\ crashed \in BOOLEAN /\ faults \in 0 .. MaxFaults

Init ==
  /\ exe = 1 /\ bak = [s \in Stamps |-> Absent]
  /\ writing = {} /\ doomed = {}
  /\ pc = [u \in Updaters |-> "off"]
  /\ image = [u \in Updaters |-> None] /\ version = [u \in Updaters |-> None]
  /\ want = [u \in Updaters |-> None] /\ got = [u \in Updaters |-> Absent]
  /\ stamp = [u \in Updaters |-> None]
  /\ latest = 1 /\ clock = 1
  /\ overlap = FALSE /\ crashed = FALSE /\ faults = 0

Goto(u, label) == pc' = [pc EXCEPT ![u] = label]

InUse(path) == \E u \in Updaters : image[u] = path

\* What is at exe can be removed, or replaced by a rename.
Free == ~InUse(Exe) /\ writing = {}

\* An operation fails because it cannot be done or, up to the bound, for any
\* other reason.
Fails(possible) ==
  \/ ~possible /\ UNCHANGED faults
  \/ faults < MaxFaults /\ faults' = faults + 1

-----------------------------------------------------------------------------
(* Check, download, verification. *)

\* The tool is started, by whomever.
Start(u) ==
  /\ pc[u] = "off" /\ exe \in Versions /\ writing = {}
  /\ Goto(u, "on")
  /\ image' = [image EXCEPT ![u] = Exe]
  /\ version' = [version EXCEPT ![u] = exe]
  /\ UNCHANGED <<fileVars, want, got, stamp, latest, clock, hist, faults>>

CheckUpdate(u) ==
  /\ pc[u] = "on" /\ latest > version[u]
  /\ want' = [want EXCEPT ![u] = latest]
  /\ Goto(u, "download")
  /\ UNCHANGED <<fileVars, image, version, got, stamp, latest, clock, hist, faults>>

\* Into a directory of its own; the release may have been replaced since.
Download(u) ==
  /\ pc[u] = "download"
  /\ \E f \in {want[u]} \cup Rejected : got' = [got EXCEPT ![u] = f]
  /\ Goto(u, "verify")
  /\ UNCHANGED <<fileVars, image, version, want, stamp, latest, clock, hist, faults>>

SumMatches(f) == f # Unlisted

\* Mutant: whatever has the right checksum is trusted.
AnySignature(f) == TRUE

SignatureValid(f) == f # Unsigned

\* The dialog is closed.
Forget(u) ==
  /\ Goto(u, "on")
  /\ want' = [want EXCEPT ![u] = None] /\ got' = [got EXCEPT ![u] = Absent]
  /\ stamp' = [stamp EXCEPT ![u] = None]

\* What was downloaded is removed; the update can be tried again, with the release
\* that was found, and not with one that has appeared since.
Retry(u) ==
  /\ Goto(u, "download")
  /\ got' = [got EXCEPT ![u] = Absent] /\ stamp' = [stamp EXCEPT ![u] = None]
  /\ UNCHANGED want

Verify(u) ==
  /\ pc[u] = "verify"
  /\ IF SumMatches(got[u]) /\ SignatureValid(got[u])
       THEN Goto(u, "ready") /\ UNCHANGED <<want, got, stamp>>
       ELSE Retry(u)
  /\ UNCHANGED <<fileVars, image, version, latest, clock, hist, faults>>

\* The user closes the dialog, or what was downloaded cannot be prepared.
GiveUp(u) ==
  /\ \/ pc[u] = "download" /\ Forget(u)
     \/ pc[u] = "ready" /\ Retry(u)
  /\ UNCHANGED <<fileVars, image, version, latest, clock, hist, faults>>

-----------------------------------------------------------------------------
(* PrepareUpdate and WindowsUpdater.ApplyUpdate. *)

Quiet == UNCHANGED <<procVars, latest, clock, hist>>

Prepare(u) ==
  /\ pc[u] = "ready" /\ exe # Absent
  /\ clock <= MaxUpdates /\ clock' = clock + 1
  /\ stamp' = [stamp EXCEPT ![u] = clock]
  /\ overlap' = (overlap \/ \E w \in Updaters : pc[w] \in Installing)
  /\ Goto(u, "aside")
  /\ UNCHANGED <<fileVars, image, version, want, got, latest, crashed, faults>>

CanStepAside(u) == exe # Absent /\ writing = {} /\ ~InUse(stamp[u])

\* A rename takes the processes that run the file with it.
Moved(from, to) ==
  image' = [w \in Updaters |-> IF image[w] = from THEN to ELSE image[w]]

\* Mutant: the backup is doomed as soon as it is made.
StepAsideDooms(u) ==
  /\ pc[u] = "aside" /\ CanStepAside(u)
  /\ bak' = [bak EXCEPT ![stamp[u]] = exe] /\ exe' = Absent
  /\ doomed' = doomed \cup {stamp[u]}
  /\ Moved(Exe, stamp[u])
  /\ Goto(u, "copy")
  /\ UNCHANGED <<writing, version, want, got, stamp, latest, clock, hist, faults>>

\* The running executable is renamed to the backup.
StepAside(u) ==
  /\ pc[u] = "aside" /\ CanStepAside(u)
  /\ bak' = [bak EXCEPT ![stamp[u]] = exe] /\ exe' = Absent
  /\ Moved(Exe, stamp[u])
  /\ Goto(u, "copy")
  /\ UNCHANGED <<writing, doomed, version, want, got, stamp, latest, clock, hist, faults>>

StepAsideFails(u) ==
  /\ pc[u] = "aside" /\ Fails(CanStepAside(u))
  /\ Goto(u, "undo")
  /\ UNCHANGED fileVars /\ Quiet

\* copyFile, of the new version and, in the last resort, of the backup: open and
\* truncate ...
Open(u) ==
  /\ pc[u] \in {"copy", "recopy"} /\ ~InUse(Exe)
  /\ exe' = Torn /\ writing' = writing \cup {u}
  /\ Goto(u, IF pc[u] = "copy" THEN "write" ELSE "rewrite")
  /\ UNCHANGED <<bak, doomed, faults>> /\ Quiet

\* Mutant: the last resort copies the new version, not the backup.
SourceAlwaysNew(u) == got[u]

Source(u) == IF pc[u] = "write" THEN got[u] ELSE bak[stamp[u]]

\* ... write and close.  Two writers at once leave a mixture.
Write(u) ==
  /\ pc[u] \in {"write", "rewrite"}
  /\ exe' \in {Source(u)} \cup (IF exe = Torn /\ writing = {u} THEN {} ELSE {Torn})
  /\ writing' = writing \ {u}
  /\ Goto(u, IF pc[u] = "write" THEN "finish" ELSE "failed")
  /\ UNCHANGED <<bak, doomed, faults>> /\ Quiet

\* Mutant: an error while writing goes unnoticed.
CopyFailsUnnoticed(u) ==
  /\ pc[u] \in {"write", "rewrite"} /\ Fails(TRUE)
  /\ exe' = Torn /\ writing' = writing \ {u}
  /\ Goto(u, IF pc[u] = "write" THEN "finish" ELSE "failed")
  /\ UNCHANGED <<bak, doomed>> /\ Quiet

\* The disk is full: what has been written stays.
CopyFails(u) ==
  /\ \/ /\ pc[u] \in {"copy", "recopy"} /\ Fails(~InUse(Exe))
        /\ UNCHANGED <<exe, writing>>
     \/ /\ pc[u] \in {"write", "rewrite"} /\ Fails(TRUE)
        /\ exe' = Torn /\ writing' = writing \ {u}
  /\ Goto(u, IF pc[u] \in {"copy", "write"} THEN "restore" ELSE "failed")
  /\ UNCHANGED <<bak, doomed>> /\ Quiet

\* The backup is to be removed at the next start of the system; success is reported.
Finish(u) ==
  /\ pc[u] = "finish"
  /\ doomed' = doomed \cup {stamp[u]}
  /\ Forget(u)
  /\ UNCHANGED <<exe, bak, writing, image, version, latest, clock, hist, faults>>

CanReturn(u) == bak[stamp[u]] # Absent /\ Free

\* The backup is renamed to the executable.
Return(u) ==
  /\ CanReturn(u)
  /\ exe' = bak[stamp[u]] /\ bak' = [bak EXCEPT ![stamp[u]] = Absent]
  /\ Moved(stamp[u], Exe)
  /\ UNCHANGED <<writing, doomed, version, want, got, stamp, latest, clock, hist, faults>>

ReturnFails(u) == Fails(CanReturn(u)) /\ UNCHANGED fileVars /\ Quiet

\* After a copy that failed.  Whether it works is not looked at.
Restore(u) ==
  /\ pc[u] = "restore"
  /\ Return(u) \/ ReturnFails(u)
  /\ Goto(u, "undo")

-----------------------------------------------------------------------------
(* Rollback, after every failure of ApplyUpdate. *)

NothingToUndo(u) ==
  /\ pc[u] = "undo" /\ bak[stamp[u]] = Absent
  /\ Goto(u, "failed")
  /\ UNCHANGED <<fileVars, faults>> /\ Quiet

RemoveExe(u) ==
  /\ pc[u] = "undo" /\ bak[stamp[u]] # Absent
  /\ \/ Free /\ exe' = Absent /\ UNCHANGED faults
     \/ Fails(Free) /\ UNCHANGED exe
  /\ Goto(u, "back")
  /\ UNCHANGED <<bak, writing, doomed>> /\ Quiet

\* Mutant: no copy when the rename fails.
GoBackOrFail(u) ==
  /\ pc[u] = "back"
  /\ Return(u) \/ ReturnFails(u)
  /\ Goto(u, "failed")

GoBack(u) ==
  /\ pc[u] = "back"
  /\ \/ Return(u) /\ Goto(u, "failed")
     \/ ReturnFails(u) /\ Goto(u, "recopy")

\* The failure is reported.
Failed(u) ==
  /\ pc[u] = "failed"
  /\ Retry(u)
  /\ UNCHANGED <<fileVars, image, version, latest, clock, hist, faults>>

-----------------------------------------------------------------------------
(* Around it. *)

\* A process ends; one that is installing does so only if it is killed.
Exit(u) ==
  /\ pc[u] # "off"
  /\ crashed' = (crashed \/ pc[u] \in Installing)
  /\ pc' = [pc EXCEPT ![u] = "off"]
  /\ image' = [image EXCEPT ![u] = None] /\ version' = [version EXCEPT ![u] = None]
  /\ want' = [want EXCEPT ![u] = None] /\ got' = [got EXCEPT ![u] = Absent]
  /\ stamp' = [stamp EXCEPT ![u] = None]
  /\ writing' = writing \ {u}
  /\ UNCHANGED <<exe, bak, doomed, latest, clock, overlap, faults>>

\* The system starts again, when no process of the tool is left.
Reboot ==
  /\ \A u \in Updaters : pc[u] = "off"
  /\ bak' = [s \in Stamps |-> IF s \in doomed THEN Absent ELSE bak[s]]
  /\ doomed' = {}
  /\ UNCHANGED <<exe, writing, pc, procVars, latest, clock, hist, faults>>

Release ==
  /\ latest < MaxVersion /\ latest' = latest + 1
  /\ UNCHANGED <<fileVars, pc, procVars, clock, hist, faults>>

-----------------------------------------------------------------------------

Obtain(u) == CheckUpdate(u) \/ Download(u) \/ Verify(u) \/ GiveUp(u)

Apply(u) ==
  \/ Prepare(u) \/ StepAside(u) \/ StepAsideFails(u)
  \/ Open(u) \/ Write(u) \/ CopyFails(u) \/ Restore(u) \/ Finish(u)

Rollback(u) == NothingToUndo(u) \/ RemoveExe(u) \/ GoBack(u) \/ Failed(u)

Next ==
  \/ \E u \in Updaters : Start(u) \/ Obtain(u) \/ Apply(u) \/ Rollback(u) \/ Exit(u)
  \/ Reboot \/ Release

Spec == Init /\ [][Next]_vars

-----------------------------------------------------------------------------
(* Properties. *)

\* Only a release that was verified is ever installed (upgrade.go:127, :141).
OnlyVerified == {exe} \cup {bak[s] : s \in Stamps} \subseteq Files \ Rejected

\* When nobody is installing, the tool can be started, unless a process was killed
\* while it was installing, two updates were installed at the same time, or four
\* file operations failed: each failure of an update is undone in three ways
\* (updater.go:78, upgrade.go:182).
Startable ==
  (\A u \in Updaters : pc[u] \notin Installing) /\ ~crashed /\ ~overlap /\ faults < 4
    => exe \in Versions

\* Some whole version of the tool is left under its name or as a backup, whatever
\* fails, whoever is killed, and also when the system has removed what it was told
\* to remove, unless two updates were installed at the same time (updater.go:85).
LastCopyKept ==
  overlap \/ exe \in Versions \/ \E s \in Stamps : bak[s] \in Versions

\* An update that reports success has left its version under the tool's name, unless
\* another was installed at the same time (updater.go:78).
SuccessInstalled == [][\A u \in Updaters : Finish(u) => exe = got[u] \/ overlap]_vars

\* An update that has moved the tool aside, and has not put one back.
Between(u) ==
  \/ pc[u] \in {"copy", "write", "restore", "back", "recopy", "rewrite"}
  \/ pc[u] = "undo" /\ bak[stamp[u]] # Absent

\* The tool as UpdateSpec sees it: where an update has moved it aside, the backup
\* is what an update that fails will put back.
Unknown == 0

Trouble == overlap \/ crashed \/ faults > 3

Tool ==
  IF Trouble THEN Unknown
  ELSE IF \E u \in Updaters : Between(u)
    THEN bak[stamp[CHOOSE u \in Updaters : Between(u)]]
    ELSE exe

PhaseOf(label) ==
  CASE label = "off" -> "off"
    [] label \in {"on", "download", "verify"} -> "idle"
    [] label = "ready" -> "ready"
    [] label = "finish" -> "installed"
    [] OTHER -> "installing"

Phase == [u \in Updaters |-> PhaseOf(pc[u])]

File == [u \in Updaters |->
           IF pc[u] \in Installing \cup {"ready"} THEN got[u] ELSE None]

Update == INSTANCE UpdateSpec WITH tool <- Tool, phase <- Phase, file <- File

\* An update changes the tool at one instant, from the version there was to the
\* one that was verified and is newer than the process that installs it; one that
\* fails has changed nothing, and whoever starts the tool meanwhile runs one of
\* the two; unless two updates met, one was killed, or four operations failed
\* (updater.go:70-112).
UpdatesAtomically == Update!Spec

=============================================================================
