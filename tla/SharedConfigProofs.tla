------------------------- MODULE SharedConfigProofs -------------------------
(***************************************************************************)
(* Theorems about SharedConfig, for any number of runs, checks, dialogs    *)
(* and setups and every bound.                                             *)
(***************************************************************************)
EXTENDS SharedConfig, TLAPS

LEMMA Kinds ==
  /\ Runs \subseteq Actors /\ Editors \subseteq Actors
  /\ Checks \subseteq Runs /\ Dialogs \subseteq Editors /\ Setups \subseteq Editors
  /\ Tasks \subseteq Runs /\ Tasks \cap Checks = {} /\ Runs \cap Editors = {}
  BY SharedConfigAssumption DEF Runs, Editors, Actors

-----------------------------------------------------------------------------
(* Types. *)

LEMMA DocTypes == Default \in Docs /\ Torn \notin Docs /\ NoFile \notin LockFiles
  BY SharedConfigAssumption DEF Default, Docs, Torn

LEMMA StatusType ==
  ASSUME NEW o \in Outcomes
  PROVE  StatusFor(o) \in {"idle", "running", "succeeded", "failed"}
  BY DEF StatusFor, Outcomes, Reports

\* What the end of a save changes.
LEMMA SavedTypes ==
  ASSUME TypeOK, NEW a \in Actors, Saved(a)
  PROVE  pc' \in [Actors -> Labels] /\ doc' \in [Actors -> Docs] /\ loading' \subseteq Actors
<1>1. CASE a \in loading
  BY <1>1 DEF Saved, AfterLoad, Goto, TypeOK, Labels
<1>2. CASE a \notin loading
  BY <1>2, DocTypes DEF Saved, Drop, Goto, TypeOK, Labels
<1> QED
  BY <1>1, <1>2

\* Every variable keeps its type.
LEMMA TypeStep == TypeOK /\ [Next]_vars => TypeOK'
<1> SUFFICES ASSUME TypeOK, [Next]_vars PROVE TypeOK'
  OBVIOUS
<1> USE Kinds, DocTypes, SharedConfigAssumption
<1>1. ASSUME NEW a \in Actors, SaveOpen(a) PROVE TypeOK'
  BY <1>1 DEF TypeOK, Labels, Outcomes, Reports, SaveOpen, Goto, fileVars, lockVars, guiVars, counts, MuFree
<1>2. ASSUME NEW a \in Actors, SaveWrite(a) PROVE TypeOK'
  BY <1>2 DEF TypeOK, Labels, Outcomes, Reports, SaveWrite, Goto, fileVars, lockVars, guiVars, counts
<1>3. ASSUME NEW a \in Actors, SaveRename(a) PROVE TypeOK'
  BY <1>3, SavedTypes DEF TypeOK, SaveRename, lockVars, guiVars, counts
<1>4. ASSUME NEW a \in Actors, SaveCollides(a) PROVE TypeOK'
  BY <1>4, SavedTypes DEF TypeOK, SaveCollides, lockVars, guiVars, counts
<1>5. ASSUME NEW a \in Actors, SaveFails(a) PROVE TypeOK'
  BY <1>5, SavedTypes DEF TypeOK, SaveFails, lockVars, guiVars, counts
<1>6. ASSUME NEW a \in Actors, Crash(a) PROVE TypeOK'
  <2>1. pc' \in [Actors -> Labels] /\ doc' \in [Actors -> Docs]
    BY <1>6 DEF TypeOK, Crash, Labels
  <2>2. tmpOpen' \subseteq Actors /\ locked' \subseteq Runs
        /\ handle' \in [Runs -> LockFiles \cup {NoFile}]
    BY <1>6 DEF TypeOK, Crash
  <2>3. checking' \in BOOLEAN /\ status' \in {"idle", "running", "succeeded", "failed"}
        /\ report' \in Reports /\ outcome' \in [Checks -> Outcomes]
    BY <1>6 DEF TypeOK, Crash, Outcomes, Reports, guiVars
  <2>4. edits' \in 0 .. MaxEdits /\ faults' \in 0 .. MaxFaults
    BY <1>6 DEF TypeOK, Crash
  <2> QED
    BY <1>6, <2>1, <2>2, <2>3, <2>4 DEF TypeOK, Crash
<1>7. ASSUME NEW r \in Runs, StartTask(r) PROVE TypeOK'
  BY <1>7 DEF TypeOK, Labels, Outcomes, Reports, StartTask, Goto, fileVars, lockVars, guiVars, counts
<1>8. ASSUME NEW r \in Runs, LoadForRun(r) PROVE TypeOK'
  BY <1>8 DEF TypeOK, Labels, Outcomes, Reports, LoadForRun, Goto, fileVars, lockVars, guiVars, counts, Loads, AfterLoad, Concludes, Return
<1>9. ASSUME NEW r \in Runs, LoadFails(r) PROVE TypeOK'
  BY <1>9 DEF TypeOK, Labels, Outcomes, Reports, LoadFails, Goto, fileVars, lockVars, guiVars, counts, Concludes, Return
<1>10. ASSUME NEW r \in Runs, OpenLock(r) PROVE TypeOK'
  BY <1>10 DEF TypeOK, Labels, Outcomes, Reports, OpenLock, Goto, fileVars, lockVars, guiVars, counts
<1>11. ASSUME NEW r \in Runs, TryLock(r) PROVE TypeOK'
  BY <1>11 DEF TypeOK, Labels, Outcomes, Reports, TryLock, Goto, fileVars, lockVars, guiVars, counts, Held
<1>12. ASSUME NEW r \in Runs, AlreadyRunning(r) PROVE TypeOK'
  BY <1>12 DEF TypeOK, Labels, Outcomes, Reports, AlreadyRunning, Goto, fileVars, lockVars, guiVars, counts, Concludes, Return, Drop
<1>13. ASSUME NEW r \in Runs, Acts(r) PROVE TypeOK'
  <2>1. doc[r] \in Docs
    BY DEF TypeOK
  <2>2. [doc[r] EXCEPT !.done = @ + 1] \in Docs
    BY <1>13, <2>1 DEF Acts, Docs, TypeOK
  <2>3. doc' \in [Actors -> Docs]
    BY <1>13, <2>2 DEF Acts, TypeOK
  <2> QED
    BY <1>13, <2>3 DEF TypeOK, Acts, Goto, Labels, Outcomes, Reports, fileVars, lockVars, guiVars, counts, Concludes, ToSave
<1>14. ASSUME NEW r \in Runs, Closes(r) PROVE TypeOK'
  <2>1. doc[r] \in Docs
    BY DEF TypeOK
  <2>2. [doc[r] EXCEPT !.entry = "closed"] \in Docs
    BY <1>14, <2>1 DEF Closes, Docs, TypeOK
  <2>3. doc' \in [Actors -> Docs]
    BY <1>14, <2>2 DEF Closes, TypeOK
  <2> QED
    BY <1>14, <2>3 DEF TypeOK, Closes, Goto, Labels, Outcomes, Reports, fileVars, lockVars, guiVars, counts, Concludes, ToSave
<1>15. ASSUME NEW r \in Runs, NothingToDo(r) PROVE TypeOK'
  BY <1>15 DEF TypeOK, Labels, Outcomes, Reports, NothingToDo, Goto, fileVars, lockVars, guiVars, counts, Concludes, ToSave
<1>16. ASSUME NEW r \in Runs, CloseLock(r) PROVE TypeOK'
  BY <1>16 DEF TypeOK, Labels, Outcomes, Reports, CloseLock, Goto, fileVars, lockVars, guiVars, counts
<1>17. ASSUME NEW r \in Runs, RemoveLock(r) PROVE TypeOK'
  BY <1>17 DEF TypeOK, Labels, Outcomes, Reports, RemoveLock, Goto, fileVars, lockVars, guiVars, counts, Return
<1>18. ASSUME NEW c \in Checks, StartCheck(c) PROVE TypeOK'
  BY <1>18 DEF TypeOK, Labels, Outcomes, Reports, StartCheck, Goto, fileVars, lockVars, guiVars, counts
<1>19. ASSUME NEW c \in Checks, SetReport(c) PROVE TypeOK'
  BY <1>19 DEF TypeOK, Labels, Outcomes, Reports, SetReport, Goto, fileVars, lockVars, guiVars, counts
<1>20. ASSUME NEW c \in Checks, ShowStatus(c) PROVE TypeOK'
  <2>1. status' \in {"idle", "running", "succeeded", "failed"}
    BY <1>20, StatusType DEF TypeOK, ShowStatus
  <2> QED
    BY <1>20, <2>1 DEF TypeOK, ShowStatus, Goto, Labels, fileVars, lockVars, counts
<1>21. ASSUME NEW c \in Checks, EndCheck(c) PROVE TypeOK'
  BY <1>21 DEF TypeOK, Labels, Outcomes, Reports, EndCheck, Goto, fileVars, lockVars, guiVars, counts
<1>22. ASSUME NEW d \in Dialogs, OpenDialog(d) PROVE TypeOK'
  BY <1>22 DEF TypeOK, Labels, Outcomes, Reports, OpenDialog, Goto, fileVars, lockVars, guiVars, counts, Opens, Loads, AfterLoad
<1>23. ASSUME NEW d \in Dialogs, EditDialog(d) PROVE TypeOK'
  BY <1>23 DEF TypeOK, Labels, Outcomes, Reports, EditDialog, Goto, fileVars, lockVars, guiVars, counts, EditorQuiet
<1>24. ASSUME NEW d \in Dialogs, CancelDialog(d) PROVE TypeOK'
  BY <1>24 DEF TypeOK, Labels, Outcomes, Reports, CancelDialog, Goto, fileVars, lockVars, guiVars, counts, EditorQuiet, Drop
<1>25. ASSUME NEW s \in Setups, StartSetup(s) PROVE TypeOK'
  BY <1>25 DEF TypeOK, Labels, Outcomes, Reports, StartSetup, Goto, fileVars, lockVars, guiVars, counts, Opens, Loads, AfterLoad
<1>26. ASSUME NEW s \in Setups, MergeSetup(s) PROVE TypeOK'
  <2>1. doc[s] \in Docs
    BY DEF TypeOK
  <2>2. [doc[s] EXCEPT !.entry = IF @ = "absent" THEN "open" ELSE @] \in Docs
    BY <1>26, <2>1 DEF MergeSetup, Docs, TypeOK
  <2>3. doc' \in [Actors -> Docs]
    BY <1>26, <2>2 DEF MergeSetup, TypeOK
  <2> QED
    BY <1>26, <2>3 DEF TypeOK, MergeSetup, Goto, Labels, Outcomes, Reports, fileVars, lockVars, guiVars, counts, EditorQuiet
<1>27. ASSUME NEW s \in Setups, SetupFails(s) PROVE TypeOK'
  BY <1>27 DEF TypeOK, Labels, Outcomes, Reports, SetupFails, Goto, fileVars, lockVars, guiVars, counts, EditorQuiet, Drop
<1>29. ASSUME NEW r \in Runs, NoCertificates(r) PROVE TypeOK'
  BY <1>29 DEF TypeOK, Labels, Outcomes, Reports, NoCertificates, Goto, fileVars, lockVars, guiVars, counts, Concludes, Return, Drop
<1>30. ASSUME NEW r \in Runs, LockFails(r) PROVE TypeOK'
  BY <1>30 DEF TypeOK, Labels, Outcomes, Reports, LockFails, Goto, fileVars, lockVars, guiVars, counts, Concludes, Return, Drop
<1>31. ASSUME NEW c \in Checks, Panics(c) PROVE TypeOK'
  BY <1>31 DEF TypeOK, Labels, Outcomes, Reports, Panics, Goto, fileVars, lockVars, guiVars, counts, Concludes, Drop
<1>28. CASE UNCHANGED vars
  BY <1>28 DEF TypeOK, Labels, Outcomes, Reports, vars, fileVars, lockVars, guiVars, counts
<1> QED
  BY <1>1, <1>2, <1>3, <1>4, <1>5, <1>6, <1>7, <1>8, <1>9, <1>10, <1>11, <1>12, <1>13, <1>14, <1>15, <1>16, <1>17, <1>18, <1>19, <1>20, <1>21, <1>22, <1>23, <1>24, <1>25, <1>26, <1>27, <1>28, <1>29, <1>30, <1>31
     DEF Next, SaveStep, RunStep, CheckStep, DialogStep, SetupStep

-----------------------------------------------------------------------------
(* The lock. *)

\* Where a run has the lock.
Holding == {"work", "save", "write", "rename", "close"}

\* Whoever has the lock file open has the file of that name open, since an open
\* file cannot be removed.
LockInv ==
  /\ \A r \in Runs : handle[r] # NoFile => handle[r] = lockFile
  /\ \A r \in Runs : pc[r] = "try" => handle[r] # NoFile
  /\ \A r \in Runs : r \in locked <=> (pc[r] \in Holding /\ r \notin loading)
  /\ \A r \in locked : handle[r] # NoFile
  /\ RunsExclusive
  /\ \A a \in loading : pc[a] \in {"save", "write", "rename"}

\* LockInv is kept.
LEMMA LockStep == TypeOK /\ LockInv /\ [Next]_vars => LockInv'
<1> SUFFICES ASSUME TypeOK, LockInv, [Next]_vars PROVE LockInv'
  OBVIOUS
<1> USE Kinds, SharedConfigAssumption
<1>1. ASSUME NEW a \in Actors, SaveOpen(a) PROVE LockInv'
  BY <1>1 DEF TypeOK, LockInv, RunsExclusive, Holding, SaveOpen, Goto, fileVars, lockVars, guiVars, counts, MuFree
<1>2. ASSUME NEW a \in Actors, SaveWrite(a) PROVE LockInv'
  BY <1>2 DEF TypeOK, LockInv, RunsExclusive, Holding, SaveWrite, Goto, fileVars, lockVars, guiVars, counts
<1>3. ASSUME NEW a \in Actors, SaveRename(a) PROVE LockInv'
  BY <1>3 DEF TypeOK, LockInv, RunsExclusive, Holding, SaveRename, Goto, fileVars, lockVars, guiVars, counts, Saved, AfterLoad, Drop
<1>4. ASSUME NEW a \in Actors, SaveCollides(a) PROVE LockInv'
  BY <1>4 DEF TypeOK, LockInv, RunsExclusive, Holding, SaveCollides, Goto, fileVars, lockVars, guiVars, counts, Saved, AfterLoad, Drop
<1>5. ASSUME NEW a \in Actors, SaveFails(a) PROVE LockInv'
  BY <1>5 DEF TypeOK, LockInv, RunsExclusive, Holding, SaveFails, Goto, fileVars, lockVars, guiVars, counts, Saved, AfterLoad, Drop
<1>6. ASSUME NEW a \in Actors, Crash(a) PROVE LockInv'
  BY <1>6 DEF TypeOK, LockInv, RunsExclusive, Holding, Crash, Goto, fileVars, lockVars, guiVars, counts, SameProcess
<1>7. ASSUME NEW r \in Runs, StartTask(r) PROVE LockInv'
  BY <1>7 DEF TypeOK, LockInv, RunsExclusive, Holding, StartTask, Goto, fileVars, lockVars, guiVars, counts
<1>8. ASSUME NEW r \in Runs, LoadForRun(r) PROVE LockInv'
  BY <1>8 DEF TypeOK, LockInv, RunsExclusive, Holding, LoadForRun, Goto, fileVars, lockVars, guiVars, counts, Loads, AfterLoad, Concludes, Return
<1>9. ASSUME NEW r \in Runs, LoadFails(r) PROVE LockInv'
  BY <1>9 DEF TypeOK, LockInv, RunsExclusive, Holding, LoadFails, Goto, fileVars, lockVars, guiVars, counts, Concludes, Return
<1>10. ASSUME NEW r \in Runs, OpenLock(r) PROVE LockInv'
  BY <1>10 DEF TypeOK, LockInv, RunsExclusive, Holding, OpenLock, Goto, fileVars, lockVars, guiVars, counts
<1>11. ASSUME NEW r \in Runs, TryLock(r) PROVE LockInv'
  BY <1>11 DEF TypeOK, LockInv, RunsExclusive, Holding, TryLock, Goto, fileVars, lockVars, guiVars, counts, Held
<1>12. ASSUME NEW r \in Runs, AlreadyRunning(r) PROVE LockInv'
  BY <1>12 DEF TypeOK, LockInv, RunsExclusive, Holding, AlreadyRunning, Goto, fileVars, lockVars, guiVars, counts, Concludes, Return, Drop
<1>13. ASSUME NEW r \in Runs, Acts(r) PROVE LockInv'
  BY <1>13 DEF TypeOK, LockInv, RunsExclusive, Holding, Acts, Goto, fileVars, lockVars, guiVars, counts, Concludes, ToSave
<1>14. ASSUME NEW r \in Runs, Closes(r) PROVE LockInv'
  BY <1>14 DEF TypeOK, LockInv, RunsExclusive, Holding, Closes, Goto, fileVars, lockVars, guiVars, counts, Concludes, ToSave
<1>15. ASSUME NEW r \in Runs, NothingToDo(r) PROVE LockInv'
  BY <1>15 DEF TypeOK, LockInv, RunsExclusive, Holding, NothingToDo, Goto, fileVars, lockVars, guiVars, counts, Concludes, ToSave
<1>16. ASSUME NEW r \in Runs, CloseLock(r) PROVE LockInv'
  BY <1>16 DEF TypeOK, LockInv, RunsExclusive, Holding, CloseLock, Goto, fileVars, lockVars, guiVars, counts
<1>17. ASSUME NEW r \in Runs, RemoveLock(r) PROVE LockInv'
  BY <1>17 DEF TypeOK, LockInv, RunsExclusive, Holding, RemoveLock, Goto, fileVars, lockVars, guiVars, counts, Return
<1>18. ASSUME NEW c \in Checks, StartCheck(c) PROVE LockInv'
  BY <1>18 DEF TypeOK, LockInv, RunsExclusive, Holding, StartCheck, Goto, fileVars, lockVars, guiVars, counts
<1>19. ASSUME NEW c \in Checks, SetReport(c) PROVE LockInv'
  BY <1>19 DEF TypeOK, LockInv, RunsExclusive, Holding, SetReport, Goto, fileVars, lockVars, guiVars, counts
<1>20. ASSUME NEW c \in Checks, ShowStatus(c) PROVE LockInv'
  BY <1>20 DEF TypeOK, LockInv, RunsExclusive, Holding, ShowStatus, Goto, fileVars, lockVars, guiVars, counts
<1>21. ASSUME NEW c \in Checks, EndCheck(c) PROVE LockInv'
  BY <1>21 DEF TypeOK, LockInv, RunsExclusive, Holding, EndCheck, Goto, fileVars, lockVars, guiVars, counts
<1>22. ASSUME NEW d \in Dialogs, OpenDialog(d) PROVE LockInv'
  BY <1>22 DEF TypeOK, LockInv, RunsExclusive, Holding, OpenDialog, Goto, fileVars, lockVars, guiVars, counts, Opens, Loads, AfterLoad
<1>23. ASSUME NEW d \in Dialogs, EditDialog(d) PROVE LockInv'
  BY <1>23 DEF TypeOK, LockInv, RunsExclusive, Holding, EditDialog, Goto, fileVars, lockVars, guiVars, counts, EditorQuiet
<1>24. ASSUME NEW d \in Dialogs, CancelDialog(d) PROVE LockInv'
  BY <1>24 DEF TypeOK, LockInv, RunsExclusive, Holding, CancelDialog, Goto, fileVars, lockVars, guiVars, counts, EditorQuiet, Drop
<1>25. ASSUME NEW s \in Setups, StartSetup(s) PROVE LockInv'
  BY <1>25 DEF TypeOK, LockInv, RunsExclusive, Holding, StartSetup, Goto, fileVars, lockVars, guiVars, counts, Opens, Loads, AfterLoad
<1>26. ASSUME NEW s \in Setups, MergeSetup(s) PROVE LockInv'
  BY <1>26 DEF TypeOK, LockInv, RunsExclusive, Holding, MergeSetup, Goto, fileVars, lockVars, guiVars, counts, EditorQuiet
<1>27. ASSUME NEW s \in Setups, SetupFails(s) PROVE LockInv'
  BY <1>27 DEF TypeOK, LockInv, RunsExclusive, Holding, SetupFails, Goto, fileVars, lockVars, guiVars, counts, EditorQuiet, Drop
<1>29. ASSUME NEW r \in Runs, NoCertificates(r) PROVE LockInv'
  BY <1>29 DEF TypeOK, LockInv, RunsExclusive, Holding, NoCertificates, Goto, fileVars, lockVars, guiVars, counts, Concludes, Return, Drop
<1>30. ASSUME NEW r \in Runs, LockFails(r) PROVE LockInv'
  BY <1>30 DEF TypeOK, LockInv, RunsExclusive, Holding, LockFails, Goto, fileVars, lockVars, guiVars, counts, Concludes, Return, Drop
<1>31. ASSUME NEW c \in Checks, Panics(c) PROVE LockInv'
  BY <1>31 DEF TypeOK, LockInv, RunsExclusive, Holding, Panics, Goto, fileVars, lockVars, guiVars, counts, Concludes, Drop
<1>28. CASE UNCHANGED vars
  BY <1>28 DEF TypeOK, LockInv, RunsExclusive, Holding, vars, fileVars, lockVars, guiVars, counts
<1> QED
  BY <1>1, <1>2, <1>3, <1>4, <1>5, <1>6, <1>7, <1>8, <1>9, <1>10, <1>11, <1>12, <1>13, <1>14, <1>15, <1>16, <1>17, <1>18, <1>19, <1>20, <1>21, <1>22, <1>23, <1>24, <1>25, <1>26, <1>27, <1>28, <1>29, <1>30, <1>31
     DEF Next, SaveStep, RunStep, CheckStep, DialogStep, SetupStep

-----------------------------------------------------------------------------
(* The file. *)

\* While no save without the lock has overlapped another: one save at a time, and it
\* finds in the temporary file what it has put there.
SaveInv ==
  ~mixed =>
    /\ file \in Docs
    /\ \A a, b \in Actors : Saving(a) /\ Saving(b) => a = b
    /\ \A a \in Actors : /\ pc[a] = "write" => tmp = Torn
                         /\ pc[a] = "rename" => tmp = doc[a]

\* SaveInv is kept: of two runs that save, each has the lock.
LEMMA SaveStepKeeps == TypeOK /\ LockInv /\ SaveInv /\ [Next]_vars => SaveInv'
<1> SUFFICES ASSUME TypeOK, LockInv, SaveInv, [Next]_vars PROVE SaveInv'
  OBVIOUS
<1> USE Kinds, DocTypes, SharedConfigAssumption
<1>1. ASSUME NEW a \in Actors, SaveOpen(a) PROVE SaveInv'
  <2> SUFFICES ASSUME ~mixed' PROVE SaveInv'
    BY DEF SaveInv
  <2>1. ~mixed /\ file \in Docs /\ \A b \in Actors : Saving(b) => {a, b} \cap Unlocked = {}
    BY <1>1 DEF SaveOpen, SaveInv, TypeOK
  <2>2. ASSUME NEW b \in Actors, Saving(b) PROVE FALSE
    <3>1. a \in Runs /\ b \in Runs
      BY <2>1, <2>2 DEF Actors, Unlocked
    <3>2. a \in locked /\ b \in locked
      BY <1>1, <2>1, <2>2, <3>1 DEF SaveOpen, Saving, LockInv, Holding, Unlocked
    <3> QED
      BY <1>1, <2>2, <3>2 DEF SaveOpen, Saving, LockInv, RunsExclusive
  <2>3. tmp' = Torn /\ file' = file /\ \A b \in Actors : b # a => ~Saving(b)'
    BY <1>1, <2>2 DEF SaveOpen, Saving, Goto, TypeOK
  <2>4. pc'[a] = "write"
    BY <1>1 DEF SaveOpen, Goto, TypeOK
  <2> QED
    BY <2>1, <2>3, <2>4 DEF SaveInv, Saving
<1>2. ASSUME NEW a \in Actors, SaveWrite(a) PROVE SaveInv'
  <2> SUFFICES ASSUME ~mixed' PROVE SaveInv'
    BY DEF SaveInv
  <2>1. ~mixed /\ file \in Docs /\ tmp = Torn /\ \A b \in Actors : b # a => ~Saving(b)
    BY <1>2 DEF SaveWrite, SaveInv, Saving
  <2>2. tmp' = doc[a] /\ file' = file /\ doc' = doc
    BY <1>2, <2>1 DEF SaveWrite
  <2>3. pc'[a] = "rename" /\ \A b \in Actors : b # a => pc'[b] = pc[b]
    BY <1>2 DEF SaveWrite, Goto, TypeOK
  <2> QED
    BY <2>1, <2>2, <2>3 DEF SaveInv, Saving
<1>3. ASSUME NEW a \in Actors, SaveRename(a) PROVE SaveInv'
  BY <1>3 DEF TypeOK, SaveInv, Saving, SaveRename, Goto, fileVars, lockVars, guiVars, counts, Saved, AfterLoad, Drop
<1>4. ASSUME NEW a \in Actors, SaveCollides(a) PROVE SaveInv'
  BY <1>4 DEF TypeOK, SaveInv, Saving, SaveCollides, Goto, fileVars, lockVars, guiVars, counts, Saved, AfterLoad, Drop
<1>5. ASSUME NEW a \in Actors, SaveFails(a) PROVE SaveInv'
  BY <1>5 DEF TypeOK, SaveInv, Saving, SaveFails, Goto, fileVars, lockVars, guiVars, counts, Saved, AfterLoad, Drop
<1>6. ASSUME NEW a \in Actors, Crash(a) PROVE SaveInv'
  BY <1>6 DEF TypeOK, SaveInv, Saving, Crash, Goto, fileVars, lockVars, guiVars, counts, SameProcess
<1>7. ASSUME NEW r \in Runs, StartTask(r) PROVE SaveInv'
  BY <1>7 DEF TypeOK, SaveInv, Saving, StartTask, Goto, fileVars, lockVars, guiVars, counts
<1>8. ASSUME NEW r \in Runs, LoadForRun(r) PROVE SaveInv'
  BY <1>8 DEF TypeOK, SaveInv, Saving, LoadForRun, Goto, fileVars, lockVars, guiVars, counts, Loads, AfterLoad, Concludes, Return
<1>9. ASSUME NEW r \in Runs, LoadFails(r) PROVE SaveInv'
  BY <1>9 DEF TypeOK, SaveInv, Saving, LoadFails, Goto, fileVars, lockVars, guiVars, counts, Concludes, Return
<1>10. ASSUME NEW r \in Runs, OpenLock(r) PROVE SaveInv'
  BY <1>10 DEF TypeOK, SaveInv, Saving, OpenLock, Goto, fileVars, lockVars, guiVars, counts
<1>11. ASSUME NEW r \in Runs, TryLock(r) PROVE SaveInv'
  BY <1>11 DEF TypeOK, SaveInv, Saving, TryLock, Goto, fileVars, lockVars, guiVars, counts, Held
<1>12. ASSUME NEW r \in Runs, AlreadyRunning(r) PROVE SaveInv'
  BY <1>12 DEF TypeOK, SaveInv, Saving, AlreadyRunning, Goto, fileVars, lockVars, guiVars, counts, Concludes, Return, Drop
<1>13. ASSUME NEW r \in Runs, Acts(r) PROVE SaveInv'
  BY <1>13 DEF TypeOK, SaveInv, Saving, Acts, Goto, fileVars, lockVars, guiVars, counts, Concludes, ToSave
<1>14. ASSUME NEW r \in Runs, Closes(r) PROVE SaveInv'
  BY <1>14 DEF TypeOK, SaveInv, Saving, Closes, Goto, fileVars, lockVars, guiVars, counts, Concludes, ToSave
<1>15. ASSUME NEW r \in Runs, NothingToDo(r) PROVE SaveInv'
  BY <1>15 DEF TypeOK, SaveInv, Saving, NothingToDo, Goto, fileVars, lockVars, guiVars, counts, Concludes, ToSave
<1>16. ASSUME NEW r \in Runs, CloseLock(r) PROVE SaveInv'
  BY <1>16 DEF TypeOK, SaveInv, Saving, CloseLock, Goto, fileVars, lockVars, guiVars, counts
<1>17. ASSUME NEW r \in Runs, RemoveLock(r) PROVE SaveInv'
  BY <1>17 DEF TypeOK, SaveInv, Saving, RemoveLock, Goto, fileVars, lockVars, guiVars, counts, Return
<1>18. ASSUME NEW c \in Checks, StartCheck(c) PROVE SaveInv'
  BY <1>18 DEF TypeOK, SaveInv, Saving, StartCheck, Goto, fileVars, lockVars, guiVars, counts
<1>19. ASSUME NEW c \in Checks, SetReport(c) PROVE SaveInv'
  BY <1>19 DEF TypeOK, SaveInv, Saving, SetReport, Goto, fileVars, lockVars, guiVars, counts
<1>20. ASSUME NEW c \in Checks, ShowStatus(c) PROVE SaveInv'
  BY <1>20 DEF TypeOK, SaveInv, Saving, ShowStatus, Goto, fileVars, lockVars, guiVars, counts
<1>21. ASSUME NEW c \in Checks, EndCheck(c) PROVE SaveInv'
  BY <1>21 DEF TypeOK, SaveInv, Saving, EndCheck, Goto, fileVars, lockVars, guiVars, counts
<1>22. ASSUME NEW d \in Dialogs, OpenDialog(d) PROVE SaveInv'
  BY <1>22 DEF TypeOK, SaveInv, Saving, OpenDialog, Goto, fileVars, lockVars, guiVars, counts, Opens, Loads, AfterLoad
<1>23. ASSUME NEW d \in Dialogs, EditDialog(d) PROVE SaveInv'
  BY <1>23 DEF TypeOK, SaveInv, Saving, EditDialog, Goto, fileVars, lockVars, guiVars, counts, EditorQuiet
<1>24. ASSUME NEW d \in Dialogs, CancelDialog(d) PROVE SaveInv'
  BY <1>24 DEF TypeOK, SaveInv, Saving, CancelDialog, Goto, fileVars, lockVars, guiVars, counts, EditorQuiet, Drop
<1>25. ASSUME NEW s \in Setups, StartSetup(s) PROVE SaveInv'
  BY <1>25 DEF TypeOK, SaveInv, Saving, StartSetup, Goto, fileVars, lockVars, guiVars, counts, Opens, Loads, AfterLoad
<1>26. ASSUME NEW s \in Setups, MergeSetup(s) PROVE SaveInv'
  BY <1>26 DEF TypeOK, SaveInv, Saving, MergeSetup, Goto, fileVars, lockVars, guiVars, counts, EditorQuiet
<1>27. ASSUME NEW s \in Setups, SetupFails(s) PROVE SaveInv'
  BY <1>27 DEF TypeOK, SaveInv, Saving, SetupFails, Goto, fileVars, lockVars, guiVars, counts, EditorQuiet, Drop
<1>29. ASSUME NEW r \in Runs, NoCertificates(r) PROVE SaveInv'
  BY <1>29 DEF TypeOK, SaveInv, Saving, NoCertificates, Goto, fileVars, lockVars, guiVars, counts, Concludes, Return, Drop
<1>30. ASSUME NEW r \in Runs, LockFails(r) PROVE SaveInv'
  BY <1>30 DEF TypeOK, SaveInv, Saving, LockFails, Goto, fileVars, lockVars, guiVars, counts, Concludes, Return, Drop
<1>31. ASSUME NEW c \in Checks, Panics(c) PROVE SaveInv'
  BY <1>31 DEF TypeOK, SaveInv, Saving, Panics, Goto, fileVars, lockVars, guiVars, counts, Concludes, Drop
<1>28. CASE UNCHANGED vars
  BY <1>28 DEF TypeOK, SaveInv, Saving, vars, fileVars, lockVars, guiVars, counts
<1> QED
  BY <1>1, <1>2, <1>3, <1>4, <1>5, <1>6, <1>7, <1>8, <1>9, <1>10, <1>11, <1>12, <1>13, <1>14, <1>15, <1>16, <1>17, <1>18, <1>19, <1>20, <1>21, <1>22, <1>23, <1>24, <1>25, <1>26, <1>27, <1>28, <1>29, <1>30, <1>31
     DEF Next, SaveStep, RunStep, CheckStep, DialogStep, SetupStep

-----------------------------------------------------------------------------
(* The check of the GUI. *)

CheckInv ==
  /\ \A c \in Checks : pc[c] # "idle" => checking
  /\ \A b, c \in Checks : pc[b] # "idle" /\ pc[c] # "idle" => b = c
  /\ \A c \in Checks : pc[c] \notin {"idle", "show", "end"} => report = "none"
  /\ \A c \in Checks : pc[c] \in {"show", "end"} =>
        report = IF outcome[c] = "broken" THEN "none" ELSE outcome[c]
  /\ \A c \in Checks : pc[c] = "end" => status = StatusFor(outcome[c])
  /\ StatusMatchesReport

\* CheckInv is kept.
LEMMA CheckInvStep == TypeOK /\ CheckInv /\ [Next]_vars => CheckInv'
<1> SUFFICES ASSUME TypeOK, CheckInv, [Next]_vars PROVE CheckInv'
  OBVIOUS
<1> USE Kinds, SharedConfigAssumption
<1>1. ASSUME NEW a \in Actors, SaveOpen(a) PROVE CheckInv'
  BY <1>1 DEF TypeOK, CheckInv, StatusMatchesReport, SaveOpen, Goto, fileVars, lockVars, guiVars, counts, MuFree
<1>2. ASSUME NEW a \in Actors, SaveWrite(a) PROVE CheckInv'
  BY <1>2 DEF TypeOK, CheckInv, StatusMatchesReport, SaveWrite, Goto, fileVars, lockVars, guiVars, counts
<1>3. ASSUME NEW a \in Actors, SaveRename(a) PROVE CheckInv'
  BY <1>3 DEF TypeOK, CheckInv, StatusMatchesReport, SaveRename, Goto, fileVars, lockVars, guiVars, counts, Saved, AfterLoad, Drop
<1>4. ASSUME NEW a \in Actors, SaveCollides(a) PROVE CheckInv'
  BY <1>4 DEF TypeOK, CheckInv, StatusMatchesReport, SaveCollides, Goto, fileVars, lockVars, guiVars, counts, Saved, AfterLoad, Drop
<1>5. ASSUME NEW a \in Actors, SaveFails(a) PROVE CheckInv'
  BY <1>5 DEF TypeOK, CheckInv, StatusMatchesReport, SaveFails, Goto, fileVars, lockVars, guiVars, counts, Saved, AfterLoad, Drop
<1>6. ASSUME NEW a \in Actors, Crash(a) PROVE CheckInv'
  <2>1. CASE Checks \cap {b \in Actors : SameProcess(a, b)} = {}
    BY <1>6, <2>1 DEF TypeOK, CheckInv, StatusMatchesReport, Crash, guiVars
  <2>2. CASE Checks \cap {b \in Actors : SameProcess(a, b)} # {}
    <3>1. \A c \in Checks : SameProcess(a, c)
      BY <2>2 DEF SameProcess
    <3>2. ~checking' /\ status' = "idle" /\ report' = "none"
      BY <1>6, <2>2 DEF Crash
    <3>3. \A c \in Checks : pc'[c] = "idle"
      BY <1>6, <3>1 DEF Crash
    <3>4. StatusFor("none") = "idle"
      BY DEF StatusFor
    <3> QED
      BY <3>2, <3>3, <3>4 DEF CheckInv, StatusMatchesReport
  <2> QED
    BY <2>1, <2>2
<1>7. ASSUME NEW r \in Runs, StartTask(r) PROVE CheckInv'
  BY <1>7 DEF TypeOK, CheckInv, StatusMatchesReport, StartTask, Goto, fileVars, lockVars, guiVars, counts
<1>8. ASSUME NEW r \in Runs, LoadForRun(r) PROVE CheckInv'
  BY <1>8 DEF TypeOK, CheckInv, StatusMatchesReport, LoadForRun, Goto, fileVars, lockVars, guiVars, counts, Loads, AfterLoad, Concludes, Return
<1>9. ASSUME NEW r \in Runs, LoadFails(r) PROVE CheckInv'
  BY <1>9 DEF TypeOK, CheckInv, StatusMatchesReport, LoadFails, Goto, fileVars, lockVars, guiVars, counts, Concludes, Return
<1>10. ASSUME NEW r \in Runs, OpenLock(r) PROVE CheckInv'
  BY <1>10 DEF TypeOK, CheckInv, StatusMatchesReport, OpenLock, Goto, fileVars, lockVars, guiVars, counts
<1>11. ASSUME NEW r \in Runs, TryLock(r) PROVE CheckInv'
  BY <1>11 DEF TypeOK, CheckInv, StatusMatchesReport, TryLock, Goto, fileVars, lockVars, guiVars, counts, Held
<1>12. ASSUME NEW r \in Runs, AlreadyRunning(r) PROVE CheckInv'
  BY <1>12 DEF TypeOK, CheckInv, StatusMatchesReport, AlreadyRunning, Goto, fileVars, lockVars, guiVars, counts, Concludes, Return, Drop
<1>13. ASSUME NEW r \in Runs, Acts(r) PROVE CheckInv'
  BY <1>13 DEF TypeOK, CheckInv, StatusMatchesReport, Acts, Goto, fileVars, lockVars, guiVars, counts, Concludes, ToSave
<1>14. ASSUME NEW r \in Runs, Closes(r) PROVE CheckInv'
  BY <1>14 DEF TypeOK, CheckInv, StatusMatchesReport, Closes, Goto, fileVars, lockVars, guiVars, counts, Concludes, ToSave
<1>15. ASSUME NEW r \in Runs, NothingToDo(r) PROVE CheckInv'
  BY <1>15 DEF TypeOK, CheckInv, StatusMatchesReport, NothingToDo, Goto, fileVars, lockVars, guiVars, counts, Concludes, ToSave
<1>16. ASSUME NEW r \in Runs, CloseLock(r) PROVE CheckInv'
  BY <1>16 DEF TypeOK, CheckInv, StatusMatchesReport, CloseLock, Goto, fileVars, lockVars, guiVars, counts
<1>17. ASSUME NEW r \in Runs, RemoveLock(r) PROVE CheckInv'
  BY <1>17 DEF TypeOK, CheckInv, StatusMatchesReport, RemoveLock, Goto, fileVars, lockVars, guiVars, counts, Return
<1>18. ASSUME NEW c \in Checks, StartCheck(c) PROVE CheckInv'
  BY <1>18 DEF TypeOK, CheckInv, StatusMatchesReport, StartCheck, Goto, fileVars, lockVars, guiVars, counts
<1>19. ASSUME NEW c \in Checks, SetReport(c) PROVE CheckInv'
  BY <1>19 DEF TypeOK, CheckInv, StatusMatchesReport, SetReport, Goto, fileVars, lockVars, guiVars, counts
<1>20. ASSUME NEW c \in Checks, ShowStatus(c) PROVE CheckInv'
  BY <1>20 DEF TypeOK, CheckInv, StatusMatchesReport, ShowStatus, Goto, fileVars, lockVars, guiVars, counts
<1>21. ASSUME NEW c \in Checks, EndCheck(c) PROVE CheckInv'
  <2>1. StatusFor("broken") = "failed"
    BY DEF StatusFor
  <2> QED
    BY <1>21, <2>1 DEF TypeOK, CheckInv, StatusMatchesReport, EndCheck, Goto, fileVars, lockVars, guiVars, counts
<1>22. ASSUME NEW d \in Dialogs, OpenDialog(d) PROVE CheckInv'
  BY <1>22 DEF TypeOK, CheckInv, StatusMatchesReport, OpenDialog, Goto, fileVars, lockVars, guiVars, counts, Opens, Loads, AfterLoad
<1>23. ASSUME NEW d \in Dialogs, EditDialog(d) PROVE CheckInv'
  BY <1>23 DEF TypeOK, CheckInv, StatusMatchesReport, EditDialog, Goto, fileVars, lockVars, guiVars, counts, EditorQuiet
<1>24. ASSUME NEW d \in Dialogs, CancelDialog(d) PROVE CheckInv'
  BY <1>24 DEF TypeOK, CheckInv, StatusMatchesReport, CancelDialog, Goto, fileVars, lockVars, guiVars, counts, EditorQuiet, Drop
<1>25. ASSUME NEW s \in Setups, StartSetup(s) PROVE CheckInv'
  BY <1>25 DEF TypeOK, CheckInv, StatusMatchesReport, StartSetup, Goto, fileVars, lockVars, guiVars, counts, Opens, Loads, AfterLoad
<1>26. ASSUME NEW s \in Setups, MergeSetup(s) PROVE CheckInv'
  BY <1>26 DEF TypeOK, CheckInv, StatusMatchesReport, MergeSetup, Goto, fileVars, lockVars, guiVars, counts, EditorQuiet
<1>27. ASSUME NEW s \in Setups, SetupFails(s) PROVE CheckInv'
  BY <1>27 DEF TypeOK, CheckInv, StatusMatchesReport, SetupFails, Goto, fileVars, lockVars, guiVars, counts, EditorQuiet, Drop
<1>29. ASSUME NEW r \in Runs, NoCertificates(r) PROVE CheckInv'
  BY <1>29 DEF TypeOK, CheckInv, StatusMatchesReport, NoCertificates, Goto, fileVars, lockVars, guiVars, counts, Concludes, Return, Drop
<1>30. ASSUME NEW r \in Runs, LockFails(r) PROVE CheckInv'
  BY <1>30 DEF TypeOK, CheckInv, StatusMatchesReport, LockFails, Goto, fileVars, lockVars, guiVars, counts, Concludes, Return, Drop
<1>31. ASSUME NEW c \in Checks, Panics(c) PROVE CheckInv'
  BY <1>31 DEF TypeOK, CheckInv, StatusMatchesReport, Panics, Goto, fileVars, lockVars, guiVars, counts, Concludes, Drop
<1>28. CASE UNCHANGED vars
  BY <1>28 DEF TypeOK, CheckInv, StatusMatchesReport, vars, fileVars, lockVars, guiVars, counts
<1> QED
  BY <1>1, <1>2, <1>3, <1>4, <1>5, <1>6, <1>7, <1>8, <1>9, <1>10, <1>11, <1>12, <1>13, <1>14, <1>15, <1>16, <1>17, <1>18, <1>19, <1>20, <1>21, <1>22, <1>23, <1>24, <1>25, <1>26, <1>27, <1>28, <1>29, <1>30, <1>31
     DEF Next, SaveStep, RunStep, CheckStep, DialogStep, SetupStep

-----------------------------------------------------------------------------
(* Theorems. *)

IInv == TypeOK /\ LockInv /\ SaveInv /\ CheckInv

LEMMA IInvInit == Init => IInv
<1> SUFFICES ASSUME Init PROVE IInv
  OBVIOUS
<1> USE SharedConfigAssumption, Kinds, DocTypes
<1>1. TypeOK
  <2>1. file \in Docs
    BY DEF Init, Docs, Default
  <2>2. doc \in [Actors -> Docs] /\ handle \in [Runs -> LockFiles \cup {NoFile}]
    BY DEF Init
  <2>3. pc \in [Actors -> Labels] /\ outcome \in [Checks -> Outcomes]
    BY DEF Init, Labels, Outcomes, Reports
  <2>4. edits \in 0 .. MaxEdits /\ faults \in 0 .. MaxFaults
    BY DEF Init
  <2>5. checking \in BOOLEAN /\ mixed \in BOOLEAN /\ report \in Reports
        /\ status \in {"idle", "running", "succeeded", "failed"}
    BY DEF Init, Outcomes, Reports
  <2> QED
    BY <2>1, <2>2, <2>3, <2>4, <2>5 DEF Init, TypeOK
<1>2. LockInv
  BY DEF Init, LockInv, RunsExclusive, Holding
<1>3. SaveInv
  <2>1. file \in Docs
    BY DEF Init, Docs, Default
  <2> QED
    BY <2>1 DEF Init, SaveInv, Saving
<1>4. CheckInv
  <2>1. StatusFor("none") = "idle"
    BY DEF StatusFor
  <2> QED
    BY <2>1 DEF Init, CheckInv, StatusMatchesReport
<1> QED
  BY <1>1, <1>2, <1>3, <1>4 DEF IInv

LEMMA IInvAlways == Spec => []IInv
<1>1. IInv /\ [Next]_vars => IInv'
  BY TypeStep, LockStep, SaveStepKeeps, CheckInvStep DEF IInv
<1> QED
  BY IInvInit, <1>1, PTL DEF Spec

\* Every variable keeps its type, whatever the processes do.
THEOREM TypeCorrect == Spec => []TypeOK
<1>1. IInv => TypeOK
  BY DEF IInv
<1> QED
  BY IInvAlways, <1>1, PTL

\* At most one run has the lock, although every run removes the lock file
\* (auto.go:161).
THEOREM RunsExclusiveAlways == Spec => []RunsExclusive
<1>1. IInv => RunsExclusive
  BY DEF IInv, LockInv
<1> QED
  BY IInvAlways, <1>1, PTL

\* config.json is whole unless a save without the lock overlapped another
\* (config.go:401).
THEOREM FileWholeAlways == Spec => []FileWhole
<1>1. IInv => FileWhole
  BY DocTypes DEF IInv, SaveInv, FileWhole
<1> QED
  BY IInvAlways, <1>1, PTL

\* Between checks the GUI shows what the last check reported (background.go:271).
THEOREM StatusMatchesReportAlways == Spec => []StatusMatchesReport
<1>1. IInv => StatusMatchesReport
  BY DEF IInv, CheckInv
<1> QED
  BY IInvAlways, <1>1, PTL

-----------------------------------------------------------------------------
(* SharedConfig implements ConfigSpec. *)

HeldDocs == [a \in Actors |-> InHand(a)]

LEMMA SameActors == Register!Actors = Actors
  BY DEF Register!Actors, Actors, Editors

LEMMA InHandIs ==
  ASSUME NEW a \in Actors
  PROVE  /\ mixed => InHand(a) = Unknown
         /\ ~mixed /\ Works(a) => InHand(a) = doc[a]
         /\ ~mixed /\ ~Works(a) => InHand(a) = Nothing
  BY DEF InHand

LEMMA SpecialDocs == Nothing \notin Docs /\ Unknown \notin Docs
  BY DEF Nothing, Unknown, Docs

\* Overlapping saves are not forgotten.
LEMMA MixedStays == ASSUME TypeOK, mixed, [Next]_vars PROVE mixed' /\ HeldDocs' = HeldDocs
<1>1. mixed'
  BY DEF Next, SaveStep, RunStep, CheckStep, DialogStep, SetupStep, SaveOpen, SaveWrite,
     SaveRename, SaveCollides, SaveFails, Crash, StartTask, LoadForRun, LoadFails, NoCertificates, LockFails, Panics, OpenLock,
     TryLock, AlreadyRunning, Acts, Closes, NothingToDo, ToSave, CloseLock, RemoveLock,
     StartCheck, SetReport, ShowStatus, EndCheck, OpenDialog, Opens, Loads, AfterLoad, EditDialog, EditorQuiet,
     CancelDialog, StartSetup, MergeSetup, SetupFails, fileVars, vars
<1>2. \A a \in Actors : InHand(a) = Unknown
  BY InHandIs
<1>3. \A a \in Actors : InHand(a)' = Unknown
  BY <1>1 DEF InHand, Unknown
<1> QED
  BY <1>1, <1>2, <1>3 DEF HeldDocs

OthersStay(a) ==
  /\ \A b \in Actors \ {a} : pc'[b] = pc[b] /\ doc'[b] = doc[b]
  /\ loading' \subseteq loading \cup {a}

LEMMA HeldChange ==
  ASSUME NEW a \in Actors, ~mixed, ~mixed', OthersStay(a)
  PROVE  HeldDocs' = [HeldDocs EXCEPT ![a] = InHand(a)']
<1>1. ASSUME NEW b \in Actors, b # a PROVE InHand(b)' = InHand(b)
  BY <1>1 DEF InHand, Works, OthersStay, Nothing
<1> QED
  BY <1>1 DEF HeldDocs

\* What a step of one actor comes to, by what it then has in hand.
LEMMA RegisterMoves ==
  ASSUME NEW a \in Actors, ~mixed, ~mixed', OthersStay(a), file' = file,
         \/ InHand(a)' \in {InHand(a), Nothing}
         \/ InHand(a) = Nothing /\ InHand(a)' = file
  PROVE  [Register!Next]_(Register!vars)
<1>1. HeldDocs' = [HeldDocs EXCEPT ![a] = InHand(a)'] /\ HeldDocs[a] = InHand(a)
  BY HeldChange DEF HeldDocs
<1>2. CASE InHand(a)' = InHand(a)
  BY <1>1, <1>2 DEF Register!vars, HeldDocs
<1>3. CASE InHand(a)' = Nothing
  <2>1. HeldDocs' = [b \in Actors |-> IF b \in {a} THEN Nothing ELSE HeldDocs[b]]
    BY <1>1, <1>3 DEF HeldDocs
  <2>2. Register!Forget({a})
    BY <2>1, SameActors DEF Register!Forget, HeldDocs
  <2> QED
    BY <2>2, SameActors DEF Register!Next
<1>4. CASE InHand(a) = Nothing /\ InHand(a)' = file
  <2>1. Register!Load(a)
    BY <1>1, <1>4 DEF Register!Load, Register!Holds, HeldDocs
  <2> QED
    BY <2>1, SameActors DEF Register!Next
<1> QED
  BY <1>2, <1>3, <1>4

\* A document in hand that is changed.
LEMMA RegisterWorks ==
  ASSUME TypeOK, NEW a \in Actors, ~mixed, ~mixed', OthersStay(a), file' = file,
         Works(a), Works(a)',
         \/ doc'[a] = doc[a]
         \/ /\ a \in Runs /\ doc[a].entry = "open"
            /\ doc'[a] \in {[doc[a] EXCEPT !.done = @ + 1], [doc[a] EXCEPT !.entry = "closed"]}
         \/ a \in Dialogs /\ doc'[a] = Default
         \/ /\ a \in Setups /\ doc[a].entry = "absent"
            /\ doc'[a] = [doc[a] EXCEPT !.entry = "open"]
  PROVE  [Register!Next]_(Register!vars)
<1>1. HeldDocs' = [HeldDocs EXCEPT ![a] = doc'[a]] /\ HeldDocs[a] = doc[a]
  <2>1. InHand(a) = doc[a]
    BY InHandIs
  <2>2. InHand(a)' = doc'[a]
    BY DEF InHand
  <2> QED
    BY <2>1, <2>2, HeldChange DEF HeldDocs
<1>2. doc[a] \in Docs
  BY DEF TypeOK
<1>3. CASE doc'[a] = doc[a]
  BY <1>1, <1>3 DEF Register!vars, HeldDocs
<1>4. CASE a \in Runs /\ doc[a].entry = "open"
           /\ doc'[a] \in {[doc[a] EXCEPT !.done = @ + 1], [doc[a] EXCEPT !.entry = "closed"]}
  <2>1. Register!Act(a)
    BY <1>1, <1>2, <1>4 DEF Register!Act, Register!Open, Register!Holds, HeldDocs
  <2> QED
    BY <2>1, <1>4 DEF Register!Next
<1>5. CASE a \in Dialogs /\ doc'[a] = Default
  <2>1. Register!Remove(a)
    BY <1>1, <1>2, <1>5 DEF Register!Remove, Register!Holds, HeldDocs, Default
  <2> QED
    BY <2>1, <1>5 DEF Register!Next
<1>6. CASE a \in Setups /\ doc[a].entry = "absent" /\ doc'[a] = [doc[a] EXCEPT !.entry = "open"]
  <2>1. Register!Add(a)
    BY <1>1, <1>2, <1>6 DEF Register!Add, Register!Holds, HeldDocs
  <2> QED
    BY <2>1, <1>6 DEF Register!Next
<1> QED
  BY <1>3, <1>4, <1>5, <1>6

LEMMA RegisterStep ==
  ASSUME TypeOK, SaveInv, [Next]_vars PROVE [Register!Next]_(Register!vars)
<1> USE Kinds, SharedConfigAssumption
<1>1. CASE mixed
  BY <1>1, MixedStays DEF Register!vars, HeldDocs
<1>2. CASE ~mixed /\ mixed'
  <2>1. HeldDocs' = [a \in Actors |-> Unknown]
    BY <1>2 DEF HeldDocs, InHand, Unknown
  <2> QED
    BY <1>2, <2>1, SameActors DEF Register!Next, Register!Muddle, HeldDocs, Unknown
<1> SUFFICES ASSUME ~mixed, ~mixed' PROVE [Register!Next]_(Register!vars)
  BY <1>1, <1>2
<1>3. file \in Docs /\ file # Torn
  BY DocTypes DEF SaveInv
<1>4. ASSUME NEW a \in Actors, SaveOpen(a) \/ SaveWrite(a) PROVE [Register!Next]_(Register!vars)
  <2>1. OthersStay(a) /\ file' = file /\ doc'[a] = doc[a] /\ Works(a) /\ Works(a)'
    BY <1>4 DEF SaveOpen, SaveWrite, Goto, Works, OthersStay, TypeOK
  <2> QED
    BY <2>1, RegisterWorks
<1>5. ASSUME NEW a \in Actors, SaveRename(a) PROVE [Register!Next]_(Register!vars)
  <2>1. OthersStay(a) /\ file' = doc[a] /\ Works(a) /\ doc[a] \in Docs
    BY <1>5 DEF SaveRename, SaveInv, Saved, AfterLoad, Drop, Goto, Works, OthersStay, TypeOK
  <2>2. ~Works(a)' \/ (Works(a)' /\ doc'[a] = doc[a])
    BY <1>5 DEF SaveRename, Saved, AfterLoad, Drop, Goto, Works, TypeOK
  <2>3. InHand(a)' \in {doc[a], Nothing}
    BY <2>2 DEF InHand, Nothing
  <2>4. HeldDocs[a] = doc[a]
    BY <2>1, InHandIs DEF HeldDocs
  <2>5. HeldDocs' \in {HeldDocs, [HeldDocs EXCEPT ![a] = Nothing]}
    BY <2>1, <2>3, <2>4, HeldChange DEF HeldDocs
  <2>6. Register!Save(a)
    BY <2>1, <2>4, <2>5 DEF Register!Save, HeldDocs
  <2> QED
    BY <2>6, SameActors DEF Register!Next
<1>6. ASSUME NEW a \in Actors, SaveCollides(a) \/ SaveFails(a)
      PROVE  [Register!Next]_(Register!vars)
  <2>1. OthersStay(a) /\ file' = file /\ Works(a)
    BY <1>6 DEF SaveCollides, SaveFails, Saved, AfterLoad, Drop, Goto, Works, OthersStay, TypeOK, fileVars
  <2>2. ~Works(a)' \/ (Works(a)' /\ doc'[a] = doc[a])
    BY <1>6 DEF SaveCollides, SaveFails, Saved, AfterLoad, Drop, Goto, Works, TypeOK
  <2>3. CASE Works(a)' /\ doc'[a] = doc[a]
    BY <2>1, <2>3, RegisterWorks
  <2>4. CASE ~Works(a)'
    <3>1. InHand(a)' = Nothing
      BY <2>4 DEF InHand, Nothing
    <3> QED
      BY <2>1, <3>1, RegisterMoves
  <2> QED
    BY <2>2, <2>3, <2>4
<1>7. ASSUME NEW a \in Actors, Crash(a) PROVE [Register!Next]_(Register!vars)
  <2> DEFINE dead == {b \in Actors : SameProcess(a, b)}
  <2>1. file' = file
    BY <1>7 DEF Crash
  <2>2. ASSUME NEW b \in Actors
        PROVE  InHand(b)' = IF b \in dead THEN Nothing ELSE InHand(b)
    <3>1. CASE b \in dead
      <4>1. pc'[b] = "idle"
        BY <1>7, <3>1 DEF Crash
      <4> QED
        BY <3>1, <4>1 DEF InHand, Works, Nothing
    <3>2. CASE b \notin dead
      <4>1. pc'[b] = pc[b] /\ doc'[b] = doc[b]
        BY <1>7, <3>2 DEF Crash
      <4> QED
        BY <3>2, <4>1 DEF InHand, Works, Nothing
    <3> QED
      BY <3>1, <3>2
  <2>3. HeldDocs' = [b \in Actors |-> IF b \in dead THEN Nothing ELSE HeldDocs[b]]
    BY <2>2 DEF HeldDocs
  <2>4. Register!Forget(dead) /\ dead \in SUBSET Actors
    BY <2>1, <2>3, SameActors DEF Register!Forget, HeldDocs
  <2> QED
    BY <2>4, SameActors DEF Register!Next
<1>8. ASSUME NEW r \in Runs,
             StartTask(r) \/ LoadFails(r) \/ CloseLock(r) \/ RemoveLock(r)
      PROVE  [Register!Next]_(Register!vars)
  <2>1. OthersStay(r) /\ file' = file /\ ~Works(r) /\ ~Works(r)'
    BY <1>8 DEF StartTask, LoadFails, CloseLock, RemoveLock, Return, Goto, Works, OthersStay,
       TypeOK, fileVars
  <2>2. InHand(r)' = InHand(r)
    BY <2>1, InHandIs DEF InHand, Nothing
  <2> QED
    BY <2>1, <2>2, RegisterMoves
<1>9. ASSUME NEW r \in Runs, LoadForRun(r) PROVE [Register!Next]_(Register!vars)
  <2>1. OthersStay(r) /\ file' = file /\ ~Works(r) /\ doc'[r] = file
    BY <1>9 DEF LoadForRun, Loads, AfterLoad, Return, Goto, Works, OthersStay, TypeOK, fileVars
  <2>2. InHand(r) = Nothing /\ InHand(r)' \in {Nothing, file}
    BY <2>1, InHandIs DEF InHand, Nothing
  <2> QED
    BY <2>1, <2>2, RegisterMoves
<1>10. ASSUME NEW r \in Runs, OpenLock(r) \/ TryLock(r) PROVE [Register!Next]_(Register!vars)
  <2>1. OthersStay(r) /\ file' = file /\ doc'[r] = doc[r] /\ Works(r) /\ Works(r)'
    BY <1>10 DEF OpenLock, TryLock, Goto, Works, OthersStay, TypeOK, fileVars
  <2> QED
    BY <2>1, RegisterWorks
<1>11. ASSUME NEW r \in Runs, \/ NoCertificates(r) \/ AlreadyRunning(r) \/ LockFails(r)
                              \/ r \in Checks /\ Panics(r)
       PROVE  [Register!Next]_(Register!vars)
  <2>1. OthersStay(r) /\ file' = file /\ ~Works(r)'
    BY <1>11 DEF AlreadyRunning, NoCertificates, LockFails, Panics, Return, Drop, Goto, Works, OthersStay, TypeOK, fileVars
  <2>2. InHand(r)' = Nothing
    BY <2>1 DEF InHand, Nothing
  <2> QED
    BY <2>1, <2>2, RegisterMoves
<1>12. ASSUME NEW r \in Runs, Acts(r) \/ Closes(r) \/ NothingToDo(r)
       PROVE  [Register!Next]_(Register!vars)
  <2>1. OthersStay(r) /\ file' = file /\ Works(r) /\ Works(r)'
    BY <1>12 DEF Acts, Closes, NothingToDo, ToSave, Goto, Works, OthersStay, TypeOK, fileVars
  <2>2. \/ doc'[r] = doc[r]
        \/ /\ doc[r].entry = "open"
           /\ doc'[r] \in {[doc[r] EXCEPT !.done = @ + 1], [doc[r] EXCEPT !.entry = "closed"]}
    BY <1>12 DEF Acts, Closes, NothingToDo, TypeOK
  <2> QED
    BY <2>1, <2>2, RegisterWorks
<1>13. ASSUME NEW c \in Checks,
              StartCheck(c) \/ SetReport(c) \/ ShowStatus(c) \/ EndCheck(c)
       PROVE  [Register!Next]_(Register!vars)
  <2>1. OthersStay(c) /\ file' = file /\ ~Works(c) /\ ~Works(c)'
    BY <1>13 DEF StartCheck, SetReport, ShowStatus, EndCheck, Goto, Works, OthersStay,
       TypeOK, fileVars
  <2>2. InHand(c)' = InHand(c)
    BY <2>1, InHandIs DEF InHand, Nothing
  <2> QED
    BY <2>1, <2>2, RegisterMoves
<1>14. ASSUME NEW a \in Actors, (a \in Dialogs /\ OpenDialog(a)) \/ (a \in Setups /\ StartSetup(a))
       PROVE  [Register!Next]_(Register!vars)
  <2>1. OthersStay(a) /\ file' = file /\ ~Works(a) /\ doc'[a] = file
    BY <1>3, <1>14 DEF OpenDialog, StartSetup, Opens, Loads, AfterLoad, Goto, Works, OthersStay, TypeOK,
       fileVars
  <2>2. InHand(a) = Nothing /\ InHand(a)' \in {Nothing, file}
    BY <2>1, InHandIs DEF InHand, Nothing
  <2> QED
    BY <2>1, <2>2, RegisterMoves
<1>15. ASSUME NEW a \in Actors, (a \in Dialogs /\ EditDialog(a)) \/ (a \in Setups /\ MergeSetup(a))
       PROVE  [Register!Next]_(Register!vars)
  <2>1. OthersStay(a) /\ file' = file /\ Works(a) /\ Works(a)'
    BY <1>15 DEF EditDialog, MergeSetup, EditorQuiet, Goto, Works, OthersStay, TypeOK, fileVars
  <2>2. \/ doc'[a] = doc[a]
        \/ a \in Dialogs /\ doc'[a] = Default
        \/ /\ a \in Setups /\ doc[a].entry = "absent"
           /\ doc'[a] = [doc[a] EXCEPT !.entry = "open"]
    BY <1>15 DEF EditDialog, MergeSetup, TypeOK, Docs
  <2> QED
    BY <2>1, <2>2, RegisterWorks
<1>16. ASSUME NEW a \in Actors, (a \in Dialogs /\ CancelDialog(a)) \/ (a \in Setups /\ SetupFails(a))
       PROVE  [Register!Next]_(Register!vars)
  <2>1. OthersStay(a) /\ file' = file /\ ~Works(a)'
    BY <1>16 DEF CancelDialog, SetupFails, EditorQuiet, Drop, Goto, Works, OthersStay, TypeOK,
       fileVars
  <2>2. InHand(a)' = Nothing
    BY <2>1 DEF InHand, Nothing
  <2> QED
    BY <2>1, <2>2, RegisterMoves
<1>17. CASE UNCHANGED vars
  <2>1. \A a \in Actors : InHand(a)' = InHand(a)
    BY <1>17 DEF InHand, Works, Nothing, vars, fileVars
  <2> QED
    BY <1>17, <2>1 DEF Register!vars, vars, fileVars
<1> QED
  BY <1>4, <1>5, <1>6, <1>7, <1>8, <1>9, <1>10, <1>11, <1>12, <1>13, <1>14, <1>15, <1>16, <1>17
     DEF Next, SaveStep, RunStep, CheckStep, DialogStep, SetupStep

\* Whoever saves replaces the document at one instant by the one he loaded and changed,
\* or leaves it alone, unless a save without the lock meets another.
THEOREM SavesAtomicallyAlways == Spec => SavesAtomically
<1>1. Init => Register!Init
  <2> SUFFICES ASSUME Init PROVE Register!Init
    OBVIOUS
  <2>1. file \in Docs /\ ~mixed
    BY IInvInit DEF Init, IInv, SaveInv
  <2>2. \A a \in Actors : InHand(a) = Nothing
    BY <2>1, InHandIs DEF Init, Works
  <2> QED
    BY <2>1, <2>2, SameActors DEF Register!Init
<1>2. IInv /\ [Next]_vars => [Register!Next]_(Register!vars)
  BY RegisterStep DEF IInv
<1> QED
  BY IInvAlways, <1>1, <1>2, PTL DEF Spec, SavesAtomically, Register!Spec

-----------------------------------------------------------------------------
(* What RecordKept needs: that no two have a document in hand at once, as    *)
(* they would not if runs loaded under the lock and editors took it.         *)

LoneHand == \A a, b \in Actors : Works(a) /\ Works(b) => a = b

\* e records no less than d, if both have the entry.
Grown(d, e) == {d.entry, e.entry} \subseteq {"open", "closed"} => e.done >= d.done

RecordInv ==
  /\ ~mixed
  /\ \A a \in Actors : Works(a) => Grown(file, doc[a])
  /\ \A s \in Setups : pc[s] = "edit" \/ s \in loading => doc[s] = file

LEMMA GrownSame == ASSUME NEW d \in Docs PROVE Grown(d, d)
  BY SharedConfigAssumption DEF Grown, Docs

LEMMA AloneNotMixed ==
  ASSUME TypeOK, LoneHand, ~mixed, [Next]_vars PROVE ~mixed'
<1>1. ASSUME NEW a \in Actors, SaveOpen(a) PROVE ~mixed'
  <2>1. Works(a) /\ ~Saving(a) /\ \A b \in Actors : Saving(b) => Works(b)
    BY <1>1 DEF SaveOpen, Works, Saving
  <2>2. \A b \in Actors : ~Saving(b)
    BY <2>1 DEF LoneHand
  <2> QED
    BY <1>1, <2>2 DEF SaveOpen
<1> QED
  BY <1>1 DEF Next, SaveStep, RunStep, CheckStep, DialogStep, SetupStep, SaveWrite,
     SaveRename, SaveCollides, SaveFails, Crash, StartTask, LoadForRun, LoadFails, NoCertificates, LockFails, Panics, OpenLock,
     TryLock, AlreadyRunning, Acts, Closes, NothingToDo, ToSave, CloseLock, RemoveLock,
     StartCheck, SetReport, ShowStatus, EndCheck, OpenDialog, Opens, Loads, AfterLoad, EditDialog, EditorQuiet,
     CancelDialog, StartSetup, MergeSetup, SetupFails, fileVars, vars

\* Only a rename changes config.json, and what it installs has grown.
LEMMA FileGrows ==
  ASSUME TypeOK, SaveInv, RecordInv, [Next]_vars
  PROVE  file' = file \/ \E a \in Actors : SaveRename(a) /\ file' = doc[a] /\ Grown(file, file')
<1>1. ASSUME NEW a \in Actors, SaveRename(a) PROVE file' = doc[a] /\ Grown(file, file')
  BY <1>1 DEF SaveRename, SaveInv, RecordInv, Works
<1> QED
  BY <1>1 DEF Next, SaveStep, RunStep, CheckStep, DialogStep, SetupStep, SaveOpen, SaveWrite,
     SaveCollides, SaveFails, Crash, StartTask, LoadForRun, LoadFails, NoCertificates, LockFails, Panics, OpenLock, TryLock,
     AlreadyRunning, Acts, Closes, NothingToDo, ToSave, CloseLock, RemoveLock, StartCheck,
     SetReport, ShowStatus, EndCheck, OpenDialog, Opens, Loads, AfterLoad, EditDialog, EditorQuiet,
     CancelDialog, StartSetup, MergeSetup, SetupFails, fileVars, vars

\* A step that leaves config.json alone, by what it does to the document of its actor.
LEMMA RecordMoves ==
  ASSUME TypeOK', RecordInv, ~mixed', NEW a \in Actors, OthersStay(a), file' = file,
         Works(a)' => Grown(file, doc'[a]),
         a \in Setups /\ (pc'[a] = "edit" \/ a \in loading') => doc'[a] = file
  PROVE  RecordInv'
<1>1. ASSUME NEW b \in Actors, Works(b)' PROVE Grown(file, doc'[b])
  BY <1>1 DEF RecordInv, OthersStay, Works
<1>2. ASSUME NEW s \in Setups, pc'[s] = "edit" \/ s \in loading' PROVE doc'[s] = file
  BY <1>2, Kinds DEF RecordInv, OthersStay
<1> QED
  BY <1>1, <1>2 DEF RecordInv

LEMMA RecordStep ==
  ASSUME TypeOK, TypeOK', LockInv, SaveInv, RecordInv, LoneHand, [Next]_vars PROVE RecordInv'
<1> USE Kinds, SharedConfigAssumption
<1>1. ~mixed' /\ ~mixed
  BY AloneNotMixed DEF RecordInv
<1>2. file \in Docs
  BY <1>1 DEF SaveInv
<1>3. ASSUME NEW a \in Actors, SaveRename(a) PROVE RecordInv'
  <2>1. file' = doc[a] /\ doc[a] \in Docs /\ Works(a)
    BY <1>1, <1>3 DEF SaveRename, SaveInv, TypeOK, Works
  <2>2. ASSUME NEW b \in Actors, Works(b)' PROVE doc'[b] = doc[a] /\ b = a
    <3>1. b # a => Works(b)
      BY <1>3, <2>2 DEF SaveRename, Saved, AfterLoad, Drop, Goto, Works, TypeOK
    <3>2. b = a
      BY <2>1, <3>1 DEF LoneHand
    <3> QED
      BY <1>3, <2>2, <3>2 DEF SaveRename, Saved, AfterLoad, Drop, Goto, Works, TypeOK
  <2>3. ASSUME NEW s \in Setups, pc'[s] = "edit" \/ s \in loading' PROVE doc'[s] = doc[a]
    <3>1. CASE s = a
      BY <1>3, <2>3, <3>1 DEF SaveRename, Saved, AfterLoad, Goto, TypeOK, Editors
    <3>2. CASE s # a
      <4>1. pc[s] = "edit" \/ s \in loading
        BY <1>3, <2>3, <3>2 DEF SaveRename, Saved, Goto, TypeOK
      <4>2. Works(s)
        BY <4>1 DEF Works, LockInv
      <4> QED
        BY <2>1, <3>2, <4>2 DEF LoneHand
    <3> QED
      BY <3>1, <3>2
  <2> QED
    BY <1>1, <2>1, <2>2, <2>3, GrownSame DEF RecordInv
<1>4. ASSUME NEW a \in Actors, SaveOpen(a) \/ SaveWrite(a) \/ SaveCollides(a) \/ SaveFails(a)
      PROVE  RecordInv'
  <2>1. /\ OthersStay(a) /\ file' = file /\ Works(a)
        /\ Works(a)' => doc'[a] = doc[a]
        /\ pc'[a] = "edit" \/ a \in loading' => a \in Dialogs \/ (a \in loading /\ doc'[a] = doc[a])
    BY <1>4 DEF SaveOpen, SaveWrite, SaveCollides, SaveFails, Saved, AfterLoad, Drop, Goto, Works,
       OthersStay, TypeOK, fileVars
  <2> QED
    BY <1>1, <2>1, RecordMoves DEF RecordInv
<1>5. ASSUME NEW a \in Actors, Crash(a) PROVE RecordInv'
  <2>1. /\ file' = file
        /\ \A b \in Actors : pc'[b] = "idle" \/ (pc'[b] = pc[b] /\ doc'[b] = doc[b])
        /\ \A b \in Actors : b \in loading' => b \in loading /\ doc'[b] = doc[b]
    BY <1>5 DEF Crash
  <2> QED
    BY <1>1, <2>1 DEF RecordInv, Works
<1>6. ASSUME NEW r \in Runs,
             \/ StartTask(r) \/ LoadFails(r) \/ CloseLock(r) \/ RemoveLock(r)
             \/ NoCertificates(r) \/ AlreadyRunning(r) \/ LockFails(r)
             \/ r \in Checks /\ Panics(r)
      PROVE  RecordInv'
  <2>1. OthersStay(r) /\ file' = file /\ ~Works(r)' /\ r \notin Setups
    BY <1>6 DEF StartTask, LoadFails, CloseLock, RemoveLock, NoCertificates, AlreadyRunning,
       LockFails, Panics, Return, Drop, Goto,
       Works, OthersStay, TypeOK, fileVars
  <2> QED
    BY <1>1, <2>1, RecordMoves
<1>7. ASSUME NEW r \in Runs, LoadForRun(r) \/ OpenLock(r) \/ TryLock(r) PROVE RecordInv'
  <2>1. /\ OthersStay(r) /\ file' = file /\ r \notin Setups
        /\ doc'[r] = file \/ (doc'[r] = doc[r] /\ Works(r))
    BY <1>7 DEF LoadForRun, OpenLock, TryLock, Loads, AfterLoad, Goto, Works, OthersStay, TypeOK, fileVars
  <2> QED
    BY <1>1, <1>2, <2>1, GrownSame, RecordMoves DEF RecordInv
<1>8. ASSUME NEW r \in Runs, Acts(r) \/ Closes(r) \/ NothingToDo(r) PROVE RecordInv'
  <2>1. OthersStay(r) /\ file' = file /\ r \notin Setups /\ Works(r)
    BY <1>8 DEF Acts, Closes, NothingToDo, ToSave, Works, OthersStay, TypeOK, fileVars, Goto
  <2>2. Grown(file, doc[r]) /\ doc[r] \in Docs
    BY <2>1 DEF RecordInv, TypeOK
  <2>3. Grown(file, doc'[r])
    BY <1>2, <1>8, <2>2 DEF Acts, Closes, NothingToDo, TypeOK, Grown, Docs
  <2> QED
    BY <1>1, <2>1, <2>3, RecordMoves
<1>9. ASSUME NEW c \in Checks,
             StartCheck(c) \/ SetReport(c) \/ ShowStatus(c) \/ EndCheck(c)
      PROVE  RecordInv'
  <2>1. OthersStay(c) /\ file' = file /\ ~Works(c)' /\ c \notin Setups
    BY <1>9 DEF StartCheck, SetReport, ShowStatus, EndCheck, Goto, Works, OthersStay, TypeOK,
       fileVars
  <2> QED
    BY <1>1, <2>1, RecordMoves
<1>10. ASSUME NEW a \in Actors, (a \in Dialogs /\ OpenDialog(a)) \/ (a \in Setups /\ StartSetup(a))
       PROVE  RecordInv'
  <2>1. OthersStay(a) /\ file' = file /\ doc'[a] = file
    BY <1>2, <1>10, DocTypes DEF OpenDialog, StartSetup, Opens, Loads, AfterLoad, Goto, OthersStay, TypeOK,
       fileVars
  <2> QED
    BY <1>1, <1>2, <2>1, GrownSame, RecordMoves
<1>11. ASSUME NEW d \in Dialogs, EditDialog(d) PROVE RecordInv'
  <2>1. OthersStay(d) /\ file' = file /\ d \notin Setups /\ Works(d)
        /\ doc'[d] \in {doc[d], Default}
    BY <1>11 DEF EditDialog, EditorQuiet, Goto, Works, OthersStay, TypeOK, fileVars
  <2>2. Grown(file, doc'[d])
    BY <2>1 DEF RecordInv, Grown, Default
  <2> QED
    BY <1>1, <2>1, <2>2, RecordMoves
<1>12. ASSUME NEW s \in Setups, MergeSetup(s) PROVE RecordInv'
  <2>1. OthersStay(s) /\ file' = file /\ pc'[s] = "save" /\ doc[s] = file /\ s \notin loading'
    BY <1>12 DEF MergeSetup, EditorQuiet, Goto, OthersStay, TypeOK, fileVars, RecordInv, LockInv
  <2>2. Grown(file, doc'[s])
    BY <1>2, <1>12, <2>1 DEF MergeSetup, TypeOK, Grown, Docs
  <2> QED
    BY <1>1, <2>1, <2>2, RecordMoves
<1>13. ASSUME NEW a \in Actors, (a \in Dialogs /\ CancelDialog(a)) \/ (a \in Setups /\ SetupFails(a))
       PROVE  RecordInv'
  <2>1. OthersStay(a) /\ file' = file /\ pc'[a] = "idle" /\ a \notin loading'
    BY <1>13 DEF CancelDialog, SetupFails, EditorQuiet, Drop, Goto, OthersStay, TypeOK, fileVars,
       LockInv
  <2> QED
    BY <1>1, <2>1, RecordMoves DEF Works
<1>14. CASE UNCHANGED vars
  BY <1>1, <1>14 DEF RecordInv, Works, vars, fileVars
<1> QED
  BY <1>3, <1>4, <1>5, <1>6, <1>7, <1>8, <1>9, <1>10, <1>11, <1>12, <1>13, <1>14
     DEF Next, SaveStep, RunStep, CheckStep, DialogStep, SetupStep

\* What has been done stays recorded in config.json as long as no two processes or
\* goroutines have a document in hand at once: the overlap is all that loses it
\* (auto.go:2084, where runs load before they ask for the lock).
THEOREM RecordKeptAlone == Spec /\ []LoneHand => RecordKept
<1>1. Init => RecordInv
  <2> SUFFICES ASSUME Init PROVE RecordInv
    OBVIOUS
  <2>1. \A a \in Actors : ~Works(a) /\ pc[a] # "edit"
    BY DEF Init, Works
  <2> QED
    BY <2>1, Kinds DEF Init, RecordInv
<1>2. IInv /\ IInv' /\ RecordInv /\ LoneHand /\ [Next]_vars => RecordInv'
  BY RecordStep DEF IInv
<1>3. IInv /\ RecordInv /\ [Next]_vars
        => [(\A f \in {file, file'} : f.entry \in {"open", "closed"})
              => file'.done >= file.done]_vars
  <2> SUFFICES ASSUME IInv, RecordInv, [Next]_vars,
                      {file.entry, file'.entry} \subseteq {"open", "closed"}
               PROVE  file'.done >= file.done
    OBVIOUS
  <2>1. CASE file' = file
    <3>1. file \in Docs
      BY DEF IInv, SaveInv, RecordInv
    <3> QED
      BY <2>1, <3>1, SharedConfigAssumption DEF Docs
  <2>2. CASE Grown(file, file')
    BY <2>2 DEF Grown
  <2> QED
    BY <2>1, <2>2, FileGrows DEF IInv
<1> QED
  BY IInvAlways, <1>1, <1>2, <1>3, PTL DEF Spec, RecordKept

===============================================================================
