---------------------------- MODULE SharedConfig ----------------------------
(***************************************************************************)
(* The processes that share config.json: runs of the automatic deployment  *)
(* (scheduled task, command line, and the check of the GUI), the dialogs   *)
(* and the upgrade check of the GUI, and setup.  Every one of them loads   *)
(* the whole document, works on its copy and saves the whole document.     *)
(* Runs take deploy.lock after they have loaded; the others take no lock.  *)
(* Loading a document of an older version saves it, too, in its new form.  *)
(*                                                                         *)
(* Sources: src/config/config.go (Load, Save, atomicWriteFile),            *)
(* src/deploy/auto.go (runAutoDeploy), src/deploy/flock_windows.go,        *)
(* src/ui/background.go, src/ui/dialogs_cert_manager.go,                   *)
(* src/ui/dialogs_upgrade.go, src/ui/mainwindow.go, src/setup/setup.go.    *)
(*                                                                         *)
(* The document is one entry: whether it is there, open to automatic       *)
(* actions or closed to them (CAPPED, EXPIRED, policy_blocked), and how    *)
(* many actions (CSRs posted, deployments) it records.                     *)
(*                                                                         *)
(* Files behave as on Windows: Go opens them for shared reading and        *)
(* writing but not deleting, so a file that is open can be neither removed *)
(* nor renamed, and nothing can be renamed over it.                        *)
(***************************************************************************)
EXTENDS Integers

CONSTANTS
  Tasks,     \* runs of their own process: the scheduled task, deploy --all
  Checks,    \* goroutines of the GUI that run a check
  Dialogs,   \* dialogs, buttons and the upgrade check of the GUI
  Setups,    \* setup processes
  LockFiles, \* identities of the files that come to be named deploy.lock
  NoFile,
  OldFile,   \* whether config.json may be of an older version
  MaxDone,   \* bound: actions recorded
  MaxEdits,  \* bound: times an editor is opened
  MaxFaults  \* bound: crashes, panics, failed renames and locks

Runs == Tasks \cup Checks
Editors == Dialogs \cup Setups
Actors == Runs \cup Editors

ASSUME SharedConfigAssumption ==
  /\ Tasks \cap Checks = {} /\ Runs \cap Editors = {} /\ Dialogs \cap Setups = {}
  /\ MaxDone \in Nat /\ MaxEdits \in Nat /\ MaxFaults \in Nat
  /\ NoFile \notin LockFiles /\ OldFile \in BOOLEAN

\* The GUI is one process; its goroutines share configMu.
SameProcess(a, b) == a = b \/ {a, b} \subseteq Checks \cup Dialogs

VARIABLES
  pc,       \* of each actor
  doc,      \* the document each actor has loaded
  \* the file system
  file,     \* config.json
  legacy,   \* it is of an older version
  tmp,      \* config.json.tmp
  tmpOpen,  \* actors that have it open
  loading,  \* actors whose load writes the document back in its new form
  lockFile, \* the file that is deploy.lock now, or NoFile
  handle,   \* the file each run has open as deploy.lock
  locked,   \* runs whose handle holds the lock
  \* the GUI
  checking, status,
  report,   \* of the last check; none if it could not load or panicked
  outcome,  \* what the run of a check came to
  \* history
  mixed,    \* a save overlapped one made without the lock, in another process
  edits, faults

fileVars == <<file, legacy, tmp, tmpOpen, loading, mixed>>
lockVars == <<lockFile, handle, locked>>
guiVars  == <<checking, status, report, outcome>>
counts   == <<edits, faults>>
vars == <<pc, doc, fileVars, lockVars, guiVars, counts>>

-----------------------------------------------------------------------------
(* State spaces. *)

Docs == [entry : {"absent", "open", "closed"}, done : 0 .. MaxDone]

\* Content that does not parse: cut off, empty, or two documents mixed.
Torn == [entry |-> "torn", done |-> 0]

\* DefaultConfig
Default == [entry |-> "absent", done |-> 0]

Reports == {"none", "busy", "succeeded", "failed"}

\* A check that could not load, or panicked, has no report.
Outcomes == Reports \cup {"broken"}

Labels == {"idle", "load", "open", "try", "work", "save", "write", "rename",
           "close", "remove", "edit", "report", "show", "end"}

TypeOK ==
  /\ pc \in [Actors -> Labels]
  /\ doc \in [Actors -> Docs]
  /\ file \in Docs \cup {Torn}
  /\ tmp \in Docs \cup {Torn, NoFile}
  /\ tmpOpen \subseteq Actors
  /\ legacy \in BOOLEAN /\ loading \subseteq Actors
  /\ lockFile \in LockFiles \cup {NoFile}
  /\ handle \in [Runs -> LockFiles \cup {NoFile}]
  /\ locked \subseteq Runs
  /\ checking \in BOOLEAN
  /\ status \in {"idle", "running", "succeeded", "failed"}
  /\ report \in Reports
  /\ outcome \in [Checks -> Outcomes]
  /\ mixed \in BOOLEAN /\ edits \in 0 .. MaxEdits /\ faults \in 0 .. MaxFaults

Init ==
  /\ pc = [a \in Actors |-> "idle"]
  /\ doc = [a \in Actors |-> Default]
  /\ file \in {Default, [entry |-> "open", done |-> 0]}
  /\ legacy \in {FALSE, OldFile}
  /\ tmp = NoFile /\ tmpOpen = {} /\ loading = {}
  /\ lockFile = NoFile /\ handle = [r \in Runs |-> NoFile] /\ locked = {}
  /\ checking = FALSE /\ status = "idle" /\ report = "none"
  /\ outcome = [c \in Checks |-> "none"]
  /\ mixed = FALSE /\ edits = 0 /\ faults = 0

Goto(a, label) == pc' = [pc EXCEPT ![a] = label]

\* The document an actor has finished with.
Drop(a) == doc' = [doc EXCEPT ![a] = Default]

\* Where the code of a run returns to.
Return(a) == IF a \in Checks THEN "report" ELSE "idle"

Concludes(a, o) ==
  outcome' = IF a \in Checks THEN [outcome EXCEPT ![a] = o] ELSE outcome

-----------------------------------------------------------------------------
(* Load and Save.  configMu keeps the goroutines of one process apart.       *)

Saving(a) == pc[a] \in {"write", "rename"}

HasMu(a) == Saving(a) \/ a \in loading

MuFree(a) == \A b \in Actors \ {a} : SameProcess(a, b) => ~HasMu(b)

\* deploy.lock is held neither by an editor nor by whoever loads.
Unlocked == Editors \cup loading

\* Where an actor goes on when it has loaded.
AfterLoad(a) == IF a \in Runs THEN "open" ELSE "edit"

\* What is read in the form of an older version is written back first.
Loads(a) ==
  /\ MuFree(a)
  /\ IF legacy THEN loading' = loading \cup {a} /\ Goto(a, "save")
               ELSE UNCHANGED loading /\ Goto(a, AfterLoad(a))
  /\ UNCHANGED <<file, legacy, tmp, tmpOpen, mixed>>

\* Mutant: the document is written in place.
SaveInPlace(a) ==
  /\ pc[a] = "save" /\ MuFree(a)
  /\ file' = Torn /\ tmp' = Torn /\ tmpOpen' = tmpOpen \cup {a}
  /\ mixed' = (mixed \/ \E b \in Actors : Saving(b) /\ {a, b} \cap Unlocked # {})
  /\ Goto(a, "write")
  /\ UNCHANGED <<doc, legacy, loading, lockVars, guiVars, counts>>

\* os.WriteFile opens and truncates the temporary file, which is the same for
\* every process, ...
SaveOpen(a) ==
  /\ pc[a] = "save" /\ MuFree(a)
  /\ tmp' = Torn /\ tmpOpen' = tmpOpen \cup {a}
  /\ mixed' = (mixed \/ \E b \in Actors : Saving(b) /\ {a, b} \cap Unlocked # {})
  /\ Goto(a, "write")
  /\ UNCHANGED <<doc, file, legacy, loading, lockVars, guiVars, counts>>

\* ... and writes and closes it.  Over what another process has written since,
\* a shorter document leaves the tail of the longer one.
SaveWrite(a) ==
  /\ pc[a] = "write"
  /\ tmp' \in {doc[a]} \cup (IF tmp = Torn THEN {} ELSE {Torn})
  /\ tmpOpen' = tmpOpen \ {a}
  /\ Goto(a, "rename")
  /\ UNCHANGED <<doc, file, legacy, loading, mixed, lockVars, guiVars, counts>>

\* After a save, successful or not, a load goes on, and a run goes to its end.  It
\* saves after each entry and once more at the end; one save stands for them all.
\* The certificate dialog stays open with what it has saved.
Saved(a) ==
  /\ loading' = loading \ {a}
  /\ IF a \in loading
       THEN Goto(a, AfterLoad(a)) /\ UNCHANGED doc
       ELSE \/ Goto(a, IF a \in Runs THEN "close" ELSE "idle") /\ Drop(a)
            \/ a \in Dialogs /\ Goto(a, "edit") /\ UNCHANGED doc

\* The rename installs whatever the temporary file holds by now.
SaveRename(a) ==
  /\ pc[a] = "rename"
  /\ tmp # NoFile /\ tmpOpen = {}
  /\ file' = tmp /\ tmp' = NoFile /\ legacy' = FALSE
  /\ Saved(a)
  /\ UNCHANGED <<tmpOpen, mixed, lockVars, guiVars, counts>>

\* Another process has the temporary file open, or has renamed it: an error.
\* The file is removed if it can be.
SaveCollides(a) ==
  /\ pc[a] = "rename"
  /\ tmp = NoFile \/ tmpOpen # {}
  /\ Saved(a)
  /\ UNCHANGED <<file, legacy, tmp, tmpOpen, mixed, lockVars, guiVars, counts>>

\* Somebody reads config.json, the disk is full, access is denied.
SaveFails(a) ==
  /\ pc[a] = "rename" /\ tmpOpen = {}
  /\ faults < MaxFaults /\ faults' = faults + 1 /\ UNCHANGED edits
  /\ tmp' = NoFile
  /\ Saved(a)
  /\ UNCHANGED <<file, legacy, tmpOpen, mixed, lockVars, guiVars>>

-----------------------------------------------------------------------------
(* A run: runAutoDeploy, called with the document its caller loaded.         *)

StartTask(r) ==
  /\ r \in Tasks /\ pc[r] = "idle"
  /\ Goto(r, "load")
  /\ UNCHANGED <<doc, fileVars, lockVars, guiVars, counts>>

LoadForRun(r) ==
  /\ r \in Runs /\ pc[r] = "load"
  /\ file # Torn /\ Loads(r)
  /\ doc' = [doc EXCEPT ![r] = file]
  /\ UNCHANGED <<lockVars, guiVars, counts>>

LoadFails(r) ==
  /\ r \in Runs /\ pc[r] = "load"
  /\ file = Torn /\ MuFree(r)
  /\ Goto(r, Return(r)) /\ Concludes(r, "broken")
  /\ UNCHANGED <<doc, fileVars, lockVars, checking, status, report, counts>>

NoCertificates(r) ==
  /\ pc[r] = "open" /\ doc[r].entry = "absent"
  /\ Goto(r, Return(r)) /\ Concludes(r, "none") /\ Drop(r)
  /\ UNCHANGED <<fileVars, lockVars, checking, status, report, counts>>

\* A lock file that is created is none that anybody still has open.
OpenLock(r) ==
  /\ pc[r] = "open" /\ doc[r].entry # "absent"
  /\ IF lockFile = NoFile
       THEN lockFile' \in {f \in LockFiles : \A b \in Runs : handle[b] # f}
       ELSE UNCHANGED lockFile
  /\ handle' = [handle EXCEPT ![r] = lockFile']
  /\ Goto(r, "try")
  /\ UNCHANGED <<doc, fileVars, locked, guiVars, counts>>

Held(f) == \E b \in locked : handle[b] = f

TryLock(r) ==
  /\ pc[r] = "try" /\ ~Held(handle[r])
  /\ locked' = locked \cup {r}
  /\ Goto(r, "work")
  /\ UNCHANGED <<doc, fileVars, lockFile, handle, guiVars, counts>>

\* Another run is under way: RunReport.AlreadyRunning.
AlreadyRunning(r) ==
  /\ pc[r] = "try" /\ Held(handle[r])
  /\ handle' = [handle EXCEPT ![r] = NoFile]
  /\ Goto(r, Return(r)) /\ Concludes(r, "busy") /\ Drop(r)
  /\ UNCHANGED <<fileVars, lockFile, locked, checking, status, report, counts>>

\* The file cannot be opened, or the system refuses the lock.
LockFails(r) ==
  /\ pc[r] \in {"open", "try"} /\ doc[r].entry # "absent"
  /\ faults < MaxFaults /\ faults' = faults + 1 /\ UNCHANGED edits
  /\ handle' = [handle EXCEPT ![r] = NoFile]
  /\ Goto(r, Return(r)) /\ Concludes(r, "failed") /\ Drop(r)
  /\ UNCHANGED <<fileVars, lockFile, locked, checking, status, report>>

ToSave(r) ==
  /\ r \in Runs /\ pc[r] = "work"
  /\ Goto(r, "save")
  /\ UNCHANGED <<fileVars, lockVars, checking, status, report, counts>>

\* Mutant: a run acts for an entry that was closed.
ActsThoughClosed(r) ==
  /\ doc[r].entry # "absent" /\ doc[r].done < MaxDone
  /\ doc' = [doc EXCEPT ![r].done = @ + 1]
  /\ \E o \in {"succeeded", "failed"} : Concludes(r, o)
  /\ ToSave(r)

\* A CSR is posted, a certificate deployed.
Acts(r) ==
  /\ doc[r].entry = "open" /\ doc[r].done < MaxDone
  /\ doc' = [doc EXCEPT ![r].done = @ + 1]
  /\ \E o \in {"succeeded", "failed"} : Concludes(r, o)
  /\ ToSave(r)

\* CAPPED, EXPIRED or policy_blocked.
Closes(r) ==
  /\ doc[r].entry = "open"
  /\ doc' = [doc EXCEPT ![r].entry = "closed"]
  /\ Concludes(r, "failed")
  /\ ToSave(r)

\* Not due, or closed before.
NothingToDo(r) ==
  /\ UNCHANGED doc
  /\ Concludes(r, IF doc[r].entry = "closed" THEN "failed" ELSE "succeeded")
  /\ ToSave(r)

\* A check that panics gives the lock back; a task that does dies (Crash).
Panics(c) ==
  /\ c \in Checks /\ pc[c] \in {"work", "close"}
  /\ faults < MaxFaults /\ faults' = faults + 1 /\ UNCHANGED edits
  /\ Goto(c, "close") /\ Concludes(c, "broken") /\ Drop(c)
  /\ UNCHANGED <<fileVars, lockVars, checking, status, report>>

CloseLock(r) ==
  /\ pc[r] = "close"
  /\ handle' = [handle EXCEPT ![r] = NoFile]
  /\ locked' = locked \ {r}
  /\ Goto(r, "remove")
  /\ UNCHANGED <<doc, fileVars, lockFile, guiVars, counts>>

\* Mutant: the file is removed although another run has it open.
RemoveOpenLock(r) ==
  /\ pc[r] = "remove"
  /\ lockFile' = NoFile
  /\ Goto(r, Return(r))
  /\ UNCHANGED <<doc, fileVars, handle, locked, guiVars, counts>>

RemoveLock(r) ==
  /\ pc[r] = "remove"
  /\ lockFile' = IF \E b \in Runs : handle[b] = lockFile THEN lockFile ELSE NoFile
  /\ Goto(r, Return(r))
  /\ UNCHANGED <<doc, fileVars, handle, locked, guiVars, counts>>

-----------------------------------------------------------------------------
(* The check of the GUI: BackgroundTask.doCheck around a run.                *)

StartCheck(c) ==
  /\ c \in Checks /\ pc[c] = "idle"
  /\ ~checking /\ checking' = TRUE
  /\ report' = "none" /\ status' = "running"
  /\ outcome' = [outcome EXCEPT ![c] = "none"]
  /\ Goto(c, "load")
  /\ UNCHANGED <<doc, fileVars, lockVars, counts>>

\* Mutant: the check counts as ended before its status is shown.
EndsTooSoon(c) ==
  /\ pc[c] = "report"
  /\ report' = (IF outcome[c] = "broken" THEN report ELSE outcome[c]) /\ checking' = FALSE
  /\ Goto(c, "show")
  /\ UNCHANGED <<doc, fileVars, lockVars, status, outcome, counts>>

SetReport(c) ==
  /\ pc[c] = "report"
  /\ report' = IF outcome[c] = "broken" THEN report ELSE outcome[c]
  /\ Goto(c, "show")
  /\ UNCHANGED <<doc, fileVars, lockVars, checking, status, outcome, counts>>

\* backgroundStatusFromReport, and the two cases without a report.
StatusFor(o) ==
  CASE o = "none" -> "idle" [] o = "busy" -> "running" [] o = "broken" -> "failed"
    [] OTHER -> o

ShowStatus(c) ==
  /\ pc[c] = "show"
  /\ status' = StatusFor(outcome[c])
  /\ Goto(c, "end")
  /\ UNCHANGED <<doc, fileVars, lockVars, checking, report, outcome, counts>>

EndCheck(c) ==
  /\ pc[c] = "end"
  /\ checking' = FALSE
  /\ outcome' = [outcome EXCEPT ![c] = "none"]
  /\ Goto(c, "idle")
  /\ UNCHANGED <<doc, fileVars, lockVars, status, report, counts>>

-----------------------------------------------------------------------------
(* Editors. *)

EditorQuiet == UNCHANGED <<fileVars, lockVars, guiVars, counts>>

Opens(a) ==
  /\ pc[a] = "idle" /\ Loads(a)
  /\ edits < MaxEdits /\ edits' = edits + 1
  /\ UNCHANGED <<lockVars, guiVars, faults>>

\* A button or the upgrade check stops at a document that does not load; the
\* certificate and upgrade dialogs go on with an empty one.
OpenDialog(d) ==
  /\ d \in Dialogs /\ Opens(d)
  /\ doc' = [doc EXCEPT ![d] = IF file = Torn THEN Default ELSE file]

\* The certificate is removed, or something is changed that is not modelled here.
\* Loading again is the same as cancelling and opening.
EditDialog(d) ==
  /\ d \in Dialogs /\ pc[d] = "edit"
  /\ doc' \in {doc, [doc EXCEPT ![d] = Default]}
  /\ Goto(d, "save")
  /\ EditorQuiet

CancelDialog(d) ==
  /\ d \in Dialogs /\ pc[d] = "edit"
  /\ Goto(d, "idle") /\ Drop(d)
  /\ EditorQuiet

StartSetup(s) ==
  /\ s \in Setups /\ Opens(s)
  /\ file # Torn /\ doc' = [doc EXCEPT ![s] = file]

\* mergeSetupConfigs: a new entry is added, an existing one keeps its metadata.
MergeSetup(s) ==
  /\ s \in Setups /\ pc[s] = "edit"
  /\ doc' = [doc EXCEPT ![s].entry = IF @ = "absent" THEN "open" ELSE @]
  /\ Goto(s, "save")
  /\ EditorQuiet

\* Nothing to install, or the server does not answer.
SetupFails(s) ==
  /\ s \in Setups /\ pc[s] = "edit"
  /\ Goto(s, "idle") /\ Drop(s)
  /\ EditorQuiet

-----------------------------------------------------------------------------
(* The process of an actor dies; the system closes its files and its locks.  *)

Crash(a) ==
  LET dead == {b \in Actors : SameProcess(a, b)} IN
  /\ \E b \in dead : pc[b] # "idle"
  /\ faults < MaxFaults /\ faults' = faults + 1 /\ UNCHANGED edits
  /\ pc' = [b \in Actors |-> IF b \in dead THEN "idle" ELSE pc[b]]
  /\ doc' = [b \in Actors |-> IF b \in dead THEN Default ELSE doc[b]]
  /\ tmpOpen' = tmpOpen \ dead /\ loading' = loading \ dead
  /\ handle' = [r \in Runs |-> IF r \in dead THEN NoFile ELSE handle[r]]
  /\ locked' = locked \ dead
  /\ IF dead \cap Checks # {}
       THEN /\ checking' = FALSE /\ status' = "idle" /\ report' = "none"
            /\ outcome' = [c \in Checks |-> "none"]
       ELSE UNCHANGED guiVars
  /\ UNCHANGED <<file, legacy, tmp, mixed, lockFile>>

-----------------------------------------------------------------------------

SaveStep(a) ==
  SaveOpen(a) \/ SaveWrite(a) \/ SaveRename(a) \/ SaveCollides(a)

RunStep(r) ==
  \/ LoadForRun(r) \/ LoadFails(r) \/ NoCertificates(r)
  \/ OpenLock(r) \/ TryLock(r) \/ AlreadyRunning(r) \/ LockFails(r)
  \/ Acts(r) \/ Closes(r) \/ NothingToDo(r)
  \/ CloseLock(r) \/ RemoveLock(r)

CheckStep(c) == Panics(c) \/ SetReport(c) \/ ShowStatus(c) \/ EndCheck(c)

DialogStep(d) == OpenDialog(d) \/ EditDialog(d) \/ CancelDialog(d)

SetupStep(s) == StartSetup(s) \/ MergeSetup(s) \/ SetupFails(s)

Next ==
  \/ \E a \in Actors : SaveStep(a) \/ SaveFails(a) \/ Crash(a)
  \/ \E r \in Runs : StartTask(r) \/ RunStep(r)
  \/ \E c \in Checks : StartCheck(c) \/ CheckStep(c)
  \/ \E d \in Dialogs : DialogStep(d)
  \/ \E s \in Setups : SetupStep(s)

Spec == Init /\ [][Next]_vars

-----------------------------------------------------------------------------
(* Properties. *)

\* One run at a time has the lock, although the lock file is removed at the end
\* of every run while others may be opening it (auto.go:161).
RunsExclusive == \A r, s \in locked : r = s

\* config.json is whole unless the saves of two processes overlapped, one of them
\* made without the lock, by an editor or to write an older document back: otherwise
\* runs never tear it, wherever they die (config.go:401, config.go:357).
FileWhole == file = Torn => mixed

\* While no check is under way, the GUI shows what the last one reported, or that
\* it failed without a report (background.go:271), also when another was started
\* before it had ended.
StatusMatchesReport ==
  ~checking => status = StatusFor(report) \/ (status = "failed" /\ report = "none")

\* config.json as ConfigSpec sees it.
Works(a) == pc[a] \in {"open", "try", "work", "edit", "save", "write", "rename"}

Nothing == [entry |-> "nothing", done |-> 0]
Unknown == [entry |-> "unknown", done |-> 0]

InHand(a) == IF mixed THEN Unknown ELSE IF Works(a) THEN doc[a] ELSE Nothing

Register == INSTANCE ConfigSpec WITH
  config <- IF mixed THEN Unknown ELSE file,
  held <- [a \in Actors |-> InHand(a)]

\* Whoever saves replaces config.json at one instant by the document he has loaded
\* and changed, or leaves it alone, wherever he or anybody else dies, unless a save
\* without the lock meets another (config.go:383, atomicWriteFile; auto.go:149).
SavesAtomically == Register!Spec

-----------------------------------------------------------------------------
(* What the repository says and the code does not do. *)

\* auto.go:234, deploy-spec.md 10.2: what a run has done is saved after each
\* certificate, under a lock, so that no CSR or attempt is forgotten.  As long as
\* an entry exists, config.json never goes back to fewer actions.
RecordKept ==
  [][(\A f \in {file, file'} : f.entry \in {"open", "closed"})
       => file'.done >= file.done]_vars

\* deploy-spec.md 5.2: a certificate closed by policy waits for setup to be run
\* again.  An entry setup has just saved is open.
SetupReopens ==
  [][\A s \in Setups : SaveRename(s) /\ tmp = doc[s] => file'.entry = "open"]_vars

=============================================================================
