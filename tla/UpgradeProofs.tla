---------------------------- MODULE UpgradeProofs ----------------------------
(***************************************************************************)
(* Theorems about Upgrade, for any processes, releases, updates and        *)
(* failures.                                                               *)
(***************************************************************************)
EXTENDS Upgrade, TLAPS

\* The kinds of files are told apart, and so are the places of an image.
LEMMA Kinds ==
  /\ Torn \notin Versions /\ Absent \notin Versions /\ Torn # Absent
  /\ Torn \notin Rejected /\ Absent \notin Rejected
  /\ Unlisted \in Rejected /\ Unsigned \in Rejected
  /\ \A f \in Rejected : f \notin Versions /\ f # Absent /\ f # Torn
  /\ Versions \subseteq Files /\ Rejected \subseteq Files /\ Torn \in Files /\ Absent \in Files
  /\ \A f \in Files \ Rejected : f \in Versions \/ f = Torn \/ f = Absent
  BY UpgradeAssumption DEF Rejected, Files

LEMMA Places ==
  /\ Exe \notin Stamps /\ None \notin Stamps /\ Exe # None
  /\ None \notin Versions
  /\ \A s \in Stamps : s \in Int
  BY UpgradeAssumption DEF Exe, None, Stamps, Versions

-----------------------------------------------------------------------------
(* Types, and the file a process works with. *)

\* The file a process works with has been found, checked, and given a time stamp.
WorkInv ==
  \A u \in Updaters :
    /\ pc[u] \in Installing \cup {"download", "verify", "ready"} => want[u] \in Versions
    /\ pc[u] = "verify" => got[u] \in {want[u]} \cup Rejected
    /\ pc[u] \in Installing \cup {"ready"} => got[u] \in Versions
    /\ pc[u] \in Installing => stamp[u] \in Stamps /\ stamp[u] < clock

TypeWork == TypeOK /\ WorkInv

LEMMA TypeInit == Init => TypeWork
<1> SUFFICES ASSUME Init PROVE TypeWork
  OBVIOUS
<1>1. 1 \in Versions /\ 1 \in 1 .. MaxUpdates + 1 /\ 0 \in 0 .. MaxFaults
  BY UpgradeAssumption DEF Versions
<1>2. \A u \in Updaters : pc[u] = "off" /\ image[u] = None
  BY DEF Init
<1>3. TypeOK
  BY <1>1, <1>2, Kinds DEF Init, TypeOK, Labels
<1>4. WorkInv
  BY <1>2 DEF WorkInv, Installing
<1> QED
  BY <1>3, <1>4 DEF TypeWork

\* What the two ways out of a rename change.
LEMMA ReturnTypes ==
  ASSUME TypeOK, NEW u \in Updaters, stamp[u] \in Stamps, Return(u) \/ ReturnFails(u)
  PROVE  /\ exe' \in Files /\ bak' \in [Stamps -> Files]
         /\ image' \in [Updaters -> Stamps \cup {Exe, None}]
         /\ \A w \in Updaters : (image'[w] = None) = (image[w] = None)
         /\ faults' \in 0 .. MaxFaults
         /\ UNCHANGED <<writing, doomed, version, want, got, stamp, latest, clock, hist>>
<1>1. CASE Return(u)
  <2>1. \A w \in Updaters : image'[w] \in {image[w], Exe} /\ (image[w] = None => image'[w] = None)
    BY <1>1, Places DEF Return, Moved, TypeOK
  <2>2. image' \in [Updaters -> Stamps \cup {Exe, None}]
    BY <1>1, <2>1 DEF Return, Moved, TypeOK
  <2>3. faults' = faults
    BY <1>1 DEF Return
  <2> QED
    BY <1>1, <2>1, <2>2, <2>3, Kinds, Places DEF Return, TypeOK
<1>2. CASE ReturnFails(u)
  BY <1>2, UpgradeAssumption DEF ReturnFails, Fails, Quiet, TypeOK, fileVars, procVars
<1> QED
  BY <1>1, <1>2


\* The end of an update, however it went.
LEMMA ForgetTypes ==
  ASSUME TypeWork, NEW u \in Updaters, pc[u] \notin {"off", "on"}, Forget(u) \/ Retry(u),
         doomed' \subseteq Stamps,
         UNCHANGED <<exe, bak, writing, image, version, latest, clock, overlap, crashed, faults>>
  PROVE  TypeWork'
<1>1. \/ pc' = [pc EXCEPT ![u] = "on"] /\ want' = [want EXCEPT ![u] = None]
      \/ pc' = [pc EXCEPT ![u] = "download"] /\ UNCHANGED want
  BY DEF Forget, Retry, Goto
<1>2. got' = [got EXCEPT ![u] = Absent] /\ stamp' = [stamp EXCEPT ![u] = None]
  BY DEF Forget, Retry
<1>3. want[u] \in Versions
  BY DEF TypeWork, TypeOK, WorkInv, Labels
<1>4. TypeOK'
  BY <1>1, <1>2, Kinds DEF TypeWork, TypeOK, Labels
<1>5. WorkInv'
  BY <1>1, <1>2, <1>3 DEF TypeWork, TypeOK, WorkInv, Installing
<1> QED
  BY <1>4, <1>5 DEF TypeWork


\* Every step keeps the types and what is known of the file.
LEMMA TypeStep == TypeWork /\ [Next]_vars => TypeWork'
<1> SUFFICES ASSUME TypeWork, [Next]_vars PROVE TypeWork'
  OBVIOUS
<1> USE Kinds, Places, UpgradeAssumption DEF Labels, Installing
<1>1. ASSUME NEW u \in Updaters, Start(u) PROVE TypeWork'
  BY <1>1 DEF TypeWork, TypeOK, WorkInv, Stamps, Versions, Start, fileVars,
     procVars, hist, Goto
<1>2. ASSUME NEW u \in Updaters, CheckUpdate(u) PROVE TypeWork'
  BY <1>2 DEF TypeWork, TypeOK, WorkInv, Stamps, Versions, CheckUpdate,
     fileVars, procVars, hist, Goto
<1>3. ASSUME NEW u \in Updaters, Download(u) PROVE TypeWork'
  BY <1>3 DEF TypeWork, TypeOK, WorkInv, Stamps, Versions, Download, fileVars,
     procVars, hist, Goto
<1>4. ASSUME NEW u \in Updaters, Verify(u) PROVE TypeWork'
  <2>1. UNCHANGED <<exe, bak, writing, doomed, image, version, latest, clock, overlap, crashed, faults>>
    BY <1>4 DEF Verify, fileVars, hist
  <2>2. got[u] \in {want[u]} \cup Rejected /\ want[u] \in Versions /\ pc[u] = "verify"
    BY <1>4 DEF Verify, TypeWork, WorkInv
  <2>3. CASE SumMatches(got[u]) /\ SignatureValid(got[u])
    <3>1. got[u] \in Versions
      BY <2>2, <2>3 DEF SumMatches, SignatureValid, Rejected
    <3>2. pc' = [pc EXCEPT ![u] = "ready"] /\ UNCHANGED <<want, got, stamp>>
      BY <1>4, <2>3 DEF Verify, Goto
    <3>3. TypeOK'
      BY <2>1, <2>2, <3>2 DEF TypeWork, TypeOK
    <3>4. WorkInv'
      BY <2>1, <2>2, <3>1, <3>2 DEF TypeWork, TypeOK, WorkInv
    <3> QED
      BY <3>3, <3>4 DEF TypeWork
  <2>4. CASE ~ (SumMatches(got[u]) /\ SignatureValid(got[u]))
    <3>1. Forget(u) \/ Retry(u)
      BY <1>4, <2>4 DEF Verify
    <3>2. doomed' \subseteq Stamps /\ pc[u] \notin {"off", "on"}
      BY <2>1, <2>2 DEF TypeWork, TypeOK
    <3> QED
      BY <2>1, <3>1, <3>2, ForgetTypes
  <2> QED
    BY <2>3, <2>4
<1>5. ASSUME NEW u \in Updaters, GiveUp(u) PROVE TypeWork'
  BY <1>5, ForgetTypes DEF TypeWork, TypeOK, GiveUp, fileVars, hist
<1>6. ASSUME NEW u \in Updaters, Prepare(u) PROVE TypeWork'
  BY <1>6 DEF TypeWork, TypeOK, WorkInv, Stamps, Versions, Prepare, fileVars,
     procVars, hist, Goto
<1>7. ASSUME NEW u \in Updaters, StepAside(u) PROVE TypeWork'
  BY <1>7 DEF TypeWork, TypeOK, WorkInv, Stamps, Versions, StepAside,
     fileVars, procVars, hist, Goto, CanStepAside, Moved
<1>8. ASSUME NEW u \in Updaters, StepAsideFails(u) PROVE TypeWork'
  BY <1>8 DEF TypeWork, TypeOK, WorkInv, Stamps, Versions, StepAsideFails,
     fileVars, procVars, hist, Goto, CanStepAside, Fails, Quiet
<1>9. ASSUME NEW u \in Updaters, Open(u) PROVE TypeWork'
  BY <1>9 DEF TypeWork, TypeOK, WorkInv, Stamps, Versions, Open, fileVars,
     procVars, hist, Goto, Quiet
<1>10. ASSUME NEW u \in Updaters, Write(u) PROVE TypeWork'
  BY <1>10 DEF TypeWork, TypeOK, WorkInv, Stamps, Versions, Write, fileVars,
     procVars, hist, Goto, Source, Quiet
<1>11. ASSUME NEW u \in Updaters, CopyFails(u) PROVE TypeWork'
  BY <1>11 DEF TypeWork, TypeOK, WorkInv, Stamps, Versions, CopyFails,
     fileVars, procVars, hist, Goto, Fails, Quiet
<1>12. ASSUME NEW u \in Updaters, Restore(u) PROVE TypeWork'
  <2>1. pc[u] = "restore" /\ stamp[u] \in Stamps
    BY <1>12 DEF Restore, TypeWork, WorkInv
  <2>2. Return(u) \/ ReturnFails(u)
    BY <1>12 DEF Restore
  <2>3. PICK l \in {"undo"} : pc' = [pc EXCEPT ![u] = l]
    BY <1>12 DEF Restore, Goto
  <2>4. TypeOK
    BY DEF TypeWork
  <2>5. /\ exe' \in Files /\ bak' \in [Stamps -> Files]
        /\ image' \in [Updaters -> Stamps \cup {Exe, None}]
        /\ \A w \in Updaters : (image'[w] = None) = (image[w] = None)
        /\ faults' \in 0 .. MaxFaults
        /\ UNCHANGED <<writing, doomed, version, want, got, stamp, latest, clock, overlap, crashed>>
    BY <2>1, <2>2, <2>4, ReturnTypes DEF hist
  <2>6. \A w \in Updaters : (image'[w] = None) = (pc'[w] = "off")
    BY <2>1, <2>3, <2>4, <2>5 DEF TypeOK
  <2>7. pc' \in [Updaters -> Labels]
    BY <2>3, <2>4 DEF TypeOK
  <2>8. TypeOK'
    BY <2>4, <2>5, <2>6, <2>7 DEF TypeOK
  <2>9. WorkInv'
    BY <2>1, <2>3, <2>4, <2>5 DEF TypeWork, TypeOK, WorkInv
  <2> QED
    BY <2>8, <2>9 DEF TypeWork
<1>13. ASSUME NEW u \in Updaters, Finish(u) PROVE TypeWork'
  <2>1. UNCHANGED <<exe, bak, writing, image, version, latest, clock, overlap, crashed, faults>>
    BY <1>13 DEF Finish, hist
  <2>2. doomed' \subseteq Stamps
    BY <1>13 DEF Finish, TypeWork, TypeOK, WorkInv
  <2> QED
    BY <1>13, <2>1, <2>2, ForgetTypes DEF Finish
<1>14. ASSUME NEW u \in Updaters, NothingToUndo(u) PROVE TypeWork'
  BY <1>14 DEF TypeWork, TypeOK, WorkInv, Stamps, Versions, NothingToUndo,
     fileVars, procVars, hist, Goto, Quiet
<1>15. ASSUME NEW u \in Updaters, RemoveExe(u) PROVE TypeWork'
  BY <1>15 DEF TypeWork, TypeOK, WorkInv, Stamps, Versions, RemoveExe,
     fileVars, procVars, hist, Goto, Fails, Quiet
<1>16. ASSUME NEW u \in Updaters, GoBack(u) PROVE TypeWork'
  <2>1. pc[u] = "back" /\ stamp[u] \in Stamps
    BY <1>16 DEF GoBack, TypeWork, WorkInv
  <2>2. Return(u) \/ ReturnFails(u)
    BY <1>16 DEF GoBack
  <2>3. PICK l \in {"failed", "recopy"} : pc' = [pc EXCEPT ![u] = l]
    BY <1>16 DEF GoBack, Goto
  <2>4. TypeOK
    BY DEF TypeWork
  <2>5. /\ exe' \in Files /\ bak' \in [Stamps -> Files]
        /\ image' \in [Updaters -> Stamps \cup {Exe, None}]
        /\ \A w \in Updaters : (image'[w] = None) = (image[w] = None)
        /\ faults' \in 0 .. MaxFaults
        /\ UNCHANGED <<writing, doomed, version, want, got, stamp, latest, clock, overlap, crashed>>
    BY <2>1, <2>2, <2>4, ReturnTypes DEF hist
  <2>6. \A w \in Updaters : (image'[w] = None) = (pc'[w] = "off")
    BY <2>1, <2>3, <2>4, <2>5 DEF TypeOK
  <2>7. pc' \in [Updaters -> Labels]
    BY <2>3, <2>4 DEF TypeOK
  <2>8. TypeOK'
    BY <2>4, <2>5, <2>6, <2>7 DEF TypeOK
  <2>9. WorkInv'
    BY <2>1, <2>3, <2>4, <2>5 DEF TypeWork, TypeOK, WorkInv
  <2> QED
    BY <2>8, <2>9 DEF TypeWork
<1>17. ASSUME NEW u \in Updaters, Failed(u) PROVE TypeWork'
  BY <1>17, ForgetTypes DEF TypeWork, TypeOK, Failed, fileVars, hist
<1>18. ASSUME NEW u \in Updaters, Exit(u) PROVE TypeWork'
  BY <1>18 DEF TypeWork, TypeOK, WorkInv, Stamps, Versions, Exit, fileVars,
     procVars, hist, Goto
<1>19. ASSUME Reboot PROVE TypeWork'
  BY <1>19 DEF TypeWork, TypeOK, WorkInv, Stamps, Versions, Reboot, fileVars,
     procVars, hist, Goto
<1>20. ASSUME Release PROVE TypeWork'
  BY <1>20 DEF TypeWork, TypeOK, WorkInv, Stamps, Versions, Release, fileVars,
     procVars, hist, Goto
<1>21. CASE UNCHANGED vars
  BY <1>21 DEF TypeWork, TypeOK, WorkInv, Stamps, Versions, vars, fileVars,
     procVars, hist, Goto
<1> QED
  BY <1>1, <1>2, <1>3, <1>4, <1>5, <1>6, <1>7, <1>8, <1>9, <1>10, <1>11,
     <1>12, <1>13, <1>14, <1>15, <1>16, <1>17, <1>18, <1>19, <1>20, <1>21
     DEF Next, Obtain, Apply, Rollback

LEMMA TypeAlways == Spec => []TypeWork
  BY TypeInit, TypeStep, PTL DEF Spec

\* Every variable keeps its type: the files of the tool, where each process is and
\* what it works with.
THEOREM TypeCorrect == Spec => []TypeOK
  BY TypeAlways, PTL DEF TypeWork

-----------------------------------------------------------------------------
(* What a rename back, and a step aside, do to the files.                  *)

LEMMA Returned ==
  ASSUME TypeOK, NEW u \in Updaters, stamp[u] \in Stamps, Return(u)
  PROVE  /\ bak[stamp[u]] # Absent /\ Free
         /\ exe' = bak[stamp[u]] /\ bak'[stamp[u]] = Absent
         /\ \A s \in Stamps : s # stamp[u] => bak'[s] = bak[s]
         /\ \A w \in Updaters :
              image'[w] = IF image[w] = stamp[u] THEN Exe ELSE image[w]
         /\ UNCHANGED <<writing, doomed, clock, stamp, got, overlap, crashed, faults>>
  BY DEF Return, CanReturn, Moved, TypeOK, hist

LEMMA NotReturned ==
  ASSUME NEW u \in Updaters, ReturnFails(u)
  PROVE  UNCHANGED <<exe, bak, image, writing, doomed, clock, stamp, got, overlap, crashed>>
  BY DEF ReturnFails, Quiet, fileVars, procVars, hist

LEMMA SteppedAside ==
  ASSUME TypeOK, NEW u \in Updaters, stamp[u] \in Stamps, StepAside(u)
  PROVE  /\ exe # Absent /\ writing = {} /\ ~InUse(stamp[u])
         /\ exe' = Absent /\ bak'[stamp[u]] = exe
         /\ \A s \in Stamps : s # stamp[u] => bak'[s] = bak[s]
         /\ \A w \in Updaters :
              image'[w] = IF image[w] = Exe THEN stamp[u] ELSE image[w]
         /\ UNCHANGED <<writing, doomed, clock, stamp, got, overlap, crashed, faults>>
  BY DEF StepAside, CanStepAside, Moved, TypeOK, hist

-----------------------------------------------------------------------------
(* Only what was verified is installed.                                    *)

VerifiedInv ==
  /\ exe \in Files \ Rejected
  /\ \A s \in Stamps : bak[s] \in Files \ Rejected


\* No step puts a file in place that was not verified.
LEMMA VerifiedStep == TypeWork /\ VerifiedInv /\ [Next]_vars => VerifiedInv'
<1> SUFFICES ASSUME TypeWork, VerifiedInv, [Next]_vars PROVE VerifiedInv'
  OBVIOUS
<1> USE Kinds
<1>1. ASSUME NEW u \in Updaters, Start(u) PROVE VerifiedInv'
  BY <1>1 DEF VerifiedInv, TypeWork, TypeOK, WorkInv, Installing, Start,
     fileVars, procVars, hist, Goto
<1>2. ASSUME NEW u \in Updaters, CheckUpdate(u) PROVE VerifiedInv'
  BY <1>2 DEF VerifiedInv, TypeWork, TypeOK, WorkInv, Installing, CheckUpdate,
     fileVars, procVars, hist, Goto
<1>3. ASSUME NEW u \in Updaters, Download(u) PROVE VerifiedInv'
  BY <1>3 DEF VerifiedInv, TypeWork, TypeOK, WorkInv, Installing, Download,
     fileVars, procVars, hist, Goto
<1>4. ASSUME NEW u \in Updaters, Verify(u) PROVE VerifiedInv'
  BY <1>4 DEF VerifiedInv, TypeWork, TypeOK, WorkInv, Installing, Verify,
     fileVars, procVars, hist, Goto, Forget, Retry, SumMatches, SignatureValid
<1>5. ASSUME NEW u \in Updaters, GiveUp(u) PROVE VerifiedInv'
  BY <1>5 DEF VerifiedInv, TypeWork, TypeOK, WorkInv, Installing, GiveUp,
     fileVars, procVars, hist, Goto, Forget, Retry
<1>6. ASSUME NEW u \in Updaters, Prepare(u) PROVE VerifiedInv'
  BY <1>6 DEF VerifiedInv, TypeWork, TypeOK, WorkInv, Installing, Prepare,
     fileVars, procVars, hist, Goto
<1>7. ASSUME NEW u \in Updaters, StepAside(u) PROVE VerifiedInv'
  <2>1. stamp[u] \in Stamps /\ TypeOK
    BY <1>7 DEF StepAside, TypeWork, WorkInv, Installing
  <2> QED
    BY <1>7, <2>1, SteppedAside, Kinds DEF VerifiedInv
<1>8. ASSUME NEW u \in Updaters, StepAsideFails(u) PROVE VerifiedInv'
  BY <1>8 DEF VerifiedInv, TypeWork, TypeOK, WorkInv, Installing,
     StepAsideFails, fileVars, procVars, hist, Goto, CanStepAside, Fails,
     Quiet
<1>9. ASSUME NEW u \in Updaters, Open(u) PROVE VerifiedInv'
  BY <1>9 DEF VerifiedInv, TypeWork, TypeOK, WorkInv, Installing, Open,
     fileVars, procVars, hist, Goto, Quiet
<1>10. ASSUME NEW u \in Updaters, Write(u) PROVE VerifiedInv'
  BY <1>10 DEF VerifiedInv, TypeWork, TypeOK, WorkInv, Installing, Write,
     fileVars, procVars, hist, Goto, Source, Quiet
<1>11. ASSUME NEW u \in Updaters, CopyFails(u) PROVE VerifiedInv'
  BY <1>11 DEF VerifiedInv, TypeWork, TypeOK, WorkInv, Installing, CopyFails,
     fileVars, procVars, hist, Goto, Fails, Quiet
<1>12. ASSUME NEW u \in Updaters, Restore(u) PROVE VerifiedInv'
  <2>1. stamp[u] \in Stamps /\ TypeOK /\ pc[u] = "restore"
    BY <1>12 DEF Restore, TypeWork, WorkInv, Installing
  <2>2. CASE Return(u)
    BY <1>12, <2>1, <2>2, Returned DEF VerifiedInv, TypeWork, Restore, Goto, TypeOK
  <2>3. CASE ReturnFails(u)
    BY <1>12, <2>1, <2>3, NotReturned DEF VerifiedInv, TypeWork, Restore, Goto, TypeOK
  <2> QED
    BY <1>12, <2>2, <2>3 DEF Restore
<1>13. ASSUME NEW u \in Updaters, Finish(u) PROVE VerifiedInv'
  BY <1>13 DEF VerifiedInv, TypeWork, TypeOK, WorkInv, Installing, Finish,
     fileVars, procVars, hist, Goto, Forget, Retry
<1>14. ASSUME NEW u \in Updaters, NothingToUndo(u) PROVE VerifiedInv'
  BY <1>14 DEF VerifiedInv, TypeWork, TypeOK, WorkInv, Installing,
     NothingToUndo, fileVars, procVars, hist, Goto, Quiet
<1>15. ASSUME NEW u \in Updaters, RemoveExe(u) PROVE VerifiedInv'
  BY <1>15 DEF VerifiedInv, TypeWork, TypeOK, WorkInv, Installing, RemoveExe,
     fileVars, procVars, hist, Goto, Fails, Quiet
<1>16. ASSUME NEW u \in Updaters, GoBack(u) PROVE VerifiedInv'
  <2>1. stamp[u] \in Stamps /\ TypeOK /\ pc[u] = "back"
    BY <1>16 DEF GoBack, TypeWork, WorkInv, Installing
  <2>2. CASE Return(u)
    BY <1>16, <2>1, <2>2, Returned DEF VerifiedInv, TypeWork, GoBack, Goto, TypeOK
  <2>3. CASE ReturnFails(u)
    BY <1>16, <2>1, <2>3, NotReturned DEF VerifiedInv, TypeWork, GoBack, Goto, TypeOK
  <2> QED
    BY <1>16, <2>2, <2>3 DEF GoBack
<1>17. ASSUME NEW u \in Updaters, Failed(u) PROVE VerifiedInv'
  BY <1>17 DEF VerifiedInv, TypeWork, TypeOK, WorkInv, Installing, Failed,
     fileVars, procVars, hist, Goto, Forget, Retry
<1>18. ASSUME NEW u \in Updaters, Exit(u) PROVE VerifiedInv'
  BY <1>18 DEF VerifiedInv, TypeWork, TypeOK, WorkInv, Installing, Exit,
     fileVars, procVars, hist, Goto
<1>19. ASSUME Reboot PROVE VerifiedInv'
  BY <1>19 DEF VerifiedInv, TypeWork, TypeOK, WorkInv, Installing, Reboot,
     fileVars, procVars, hist, Goto
<1>20. ASSUME Release PROVE VerifiedInv'
  BY <1>20 DEF VerifiedInv, TypeWork, TypeOK, WorkInv, Installing, Release,
     fileVars, procVars, hist, Goto
<1>21. CASE UNCHANGED vars
  BY <1>21 DEF VerifiedInv, TypeWork, TypeOK, WorkInv, Installing, vars,
     fileVars, procVars, hist, Goto
<1> QED
  BY <1>1, <1>2, <1>3, <1>4, <1>5, <1>6, <1>7, <1>8, <1>9, <1>10, <1>11,
     <1>12, <1>13, <1>14, <1>15, <1>16, <1>17, <1>18, <1>19, <1>20, <1>21
     DEF Next, Obtain, Apply, Rollback

LEMMA VerifiedAlways == Spec => []VerifiedInv
<1>1. Init => VerifiedInv
  BY UpgradeAssumption, Kinds DEF Init, VerifiedInv, Versions
<1> QED
  BY <1>1, TypeAlways, VerifiedStep, PTL DEF Spec

\* Only a release that was verified is ever installed, or kept as a backup.
THEOREM OnlyVerifiedAlways == Spec => []OnlyVerified
<1>1. VerifiedInv => OnlyVerified
  BY DEF VerifiedInv, OnlyVerified
<1> QED
  BY <1>1, VerifiedAlways, PTL

-----------------------------------------------------------------------------
(* Open files and time stamps.                                             *)


\* Whoever writes the executable has it open; nothing uses a time stamp to come.
FileInv ==
  /\ \A u \in Updaters : u \in writing <=> pc[u] \in {"write", "rewrite"}
  /\ \A s \in Stamps : s >= clock => bak[s] = Absent /\ s \notin doomed /\ ~InUse(s)

\* Every step keeps open files open, and leaves the time stamps to come alone.
LEMMA FileStep == TypeWork /\ FileInv /\ [Next]_vars => FileInv'
<1> SUFFICES ASSUME TypeWork, FileInv, [Next]_vars PROVE FileInv'
  OBVIOUS
<1> USE Places DEF Stamps
<1>1. ASSUME NEW u \in Updaters, Start(u) PROVE FileInv'
  BY <1>1 DEF FileInv, TypeWork, TypeOK, WorkInv, Installing, InUse, Start,
     fileVars, procVars, hist, Goto
<1>2. ASSUME NEW u \in Updaters, CheckUpdate(u) PROVE FileInv'
  BY <1>2 DEF FileInv, TypeWork, TypeOK, WorkInv, Installing, InUse,
     CheckUpdate, fileVars, procVars, hist, Goto
<1>3. ASSUME NEW u \in Updaters, Download(u) PROVE FileInv'
  BY <1>3 DEF FileInv, TypeWork, TypeOK, WorkInv, Installing, InUse, Download,
     fileVars, procVars, hist, Goto
<1>4. ASSUME NEW u \in Updaters, Verify(u) PROVE FileInv'
  BY <1>4 DEF FileInv, TypeWork, TypeOK, WorkInv, Installing, InUse, Verify,
     fileVars, procVars, hist, Goto, Forget, Retry, SumMatches, SignatureValid
<1>5. ASSUME NEW u \in Updaters, GiveUp(u) PROVE FileInv'
  BY <1>5 DEF FileInv, TypeWork, TypeOK, WorkInv, Installing, InUse, GiveUp,
     fileVars, procVars, hist, Goto, Forget, Retry
<1>6. ASSUME NEW u \in Updaters, Prepare(u) PROVE FileInv'
  BY <1>6 DEF FileInv, TypeWork, TypeOK, WorkInv, Installing, InUse, Prepare,
     fileVars, procVars, hist, Goto
<1>7. ASSUME NEW u \in Updaters, StepAside(u) PROVE FileInv'
  <2>1. stamp[u] \in Stamps /\ stamp[u] < clock /\ TypeOK
    BY <1>7 DEF StepAside, TypeWork, WorkInv, Installing
  <2>2. \A s \in Stamps : s >= clock => s # stamp[u]
    BY <2>1 DEF Stamps, TypeWork, TypeOK
  <2>3. pc[u] = "aside" /\ pc' = [pc EXCEPT ![u] = "copy"]
    BY <1>7 DEF StepAside, Goto
  <2>4. \A w \in Updaters : w \in writing' <=> pc'[w] \in {"write", "rewrite"}
    BY <1>7, <2>1, <2>3, SteppedAside DEF FileInv, TypeOK
  <2>5. \A s \in Stamps : s >= clock => bak'[s] = Absent /\ s \notin doomed' /\ ~InUse(s)'
    BY <1>7, <2>1, <2>2, SteppedAside DEF FileInv, InUse
  <2> QED
    BY <1>7, <2>1, <2>4, <2>5, SteppedAside DEF FileInv
<1>8. ASSUME NEW u \in Updaters, StepAsideFails(u) PROVE FileInv'
  BY <1>8 DEF FileInv, TypeWork, TypeOK, WorkInv, Installing, InUse,
     StepAsideFails, fileVars, procVars, hist, Goto, CanStepAside, Fails,
     Quiet
<1>9. ASSUME NEW u \in Updaters, Open(u) PROVE FileInv'
  BY <1>9 DEF FileInv, TypeWork, TypeOK, WorkInv, Installing, InUse, Open,
     fileVars, procVars, hist, Goto, Quiet
<1>10. ASSUME NEW u \in Updaters, Write(u) PROVE FileInv'
  BY <1>10 DEF FileInv, TypeWork, TypeOK, WorkInv, Installing, InUse, Write,
     fileVars, procVars, hist, Goto, Source, Quiet
<1>11. ASSUME NEW u \in Updaters, CopyFails(u) PROVE FileInv'
  BY <1>11 DEF FileInv, TypeWork, TypeOK, WorkInv, Installing, InUse,
     CopyFails, fileVars, procVars, hist, Goto, Fails, Quiet
<1>12. ASSUME NEW u \in Updaters, Restore(u) PROVE FileInv'
  <2>1. stamp[u] \in Stamps /\ TypeOK /\ pc[u] = "restore"
    BY <1>12 DEF Restore, TypeWork, WorkInv, Installing
  <2>2. CASE Return(u)
    BY <1>12, <2>1, <2>2, Returned, Places
      DEF FileInv, TypeWork, WorkInv, InUse, Installing, Restore, Goto, TypeOK
  <2>3. CASE ReturnFails(u)
    BY <1>12, <2>1, <2>3, NotReturned, Places
      DEF FileInv, TypeWork, WorkInv, InUse, Installing, Restore, Goto, TypeOK
  <2> QED
    BY <1>12, <2>2, <2>3 DEF Restore
<1>13. ASSUME NEW u \in Updaters, Finish(u) PROVE FileInv'
  BY <1>13 DEF FileInv, TypeWork, TypeOK, WorkInv, Installing, InUse, Finish,
     fileVars, procVars, hist, Goto, Forget, Retry
<1>14. ASSUME NEW u \in Updaters, NothingToUndo(u) PROVE FileInv'
  BY <1>14 DEF FileInv, TypeWork, TypeOK, WorkInv, Installing, InUse,
     NothingToUndo, fileVars, procVars, hist, Goto, Quiet
<1>15. ASSUME NEW u \in Updaters, RemoveExe(u) PROVE FileInv'
  BY <1>15 DEF FileInv, TypeWork, TypeOK, WorkInv, Installing, InUse,
     RemoveExe, fileVars, procVars, hist, Goto, Fails, Quiet
<1>16. ASSUME NEW u \in Updaters, GoBack(u) PROVE FileInv'
  <2>1. stamp[u] \in Stamps /\ TypeOK /\ pc[u] = "back"
    BY <1>16 DEF GoBack, TypeWork, WorkInv, Installing
  <2>2. CASE Return(u)
    BY <1>16, <2>1, <2>2, Returned, Places
      DEF FileInv, TypeWork, WorkInv, InUse, Installing, GoBack, Goto, TypeOK
  <2>3. CASE ReturnFails(u)
    BY <1>16, <2>1, <2>3, NotReturned, Places
      DEF FileInv, TypeWork, WorkInv, InUse, Installing, GoBack, Goto, TypeOK
  <2> QED
    BY <1>16, <2>2, <2>3 DEF GoBack
<1>17. ASSUME NEW u \in Updaters, Failed(u) PROVE FileInv'
  BY <1>17 DEF FileInv, TypeWork, TypeOK, WorkInv, Installing, InUse, Failed,
     fileVars, procVars, hist, Goto, Forget, Retry
<1>18. ASSUME NEW u \in Updaters, Exit(u) PROVE FileInv'
  BY <1>18 DEF FileInv, TypeWork, TypeOK, WorkInv, Installing, InUse, Exit,
     fileVars, procVars, hist, Goto
<1>19. ASSUME Reboot PROVE FileInv'
  BY <1>19 DEF FileInv, TypeWork, TypeOK, WorkInv, Installing, InUse, Reboot,
     fileVars, procVars, hist, Goto
<1>20. ASSUME Release PROVE FileInv'
  BY <1>20 DEF FileInv, TypeWork, TypeOK, WorkInv, Installing, InUse, Release,
     fileVars, procVars, hist, Goto
<1>21. CASE UNCHANGED vars
  BY <1>21 DEF FileInv, TypeWork, TypeOK, WorkInv, Installing, InUse, vars,
     fileVars, procVars, hist, Goto
<1> QED
  BY <1>1, <1>2, <1>3, <1>4, <1>5, <1>6, <1>7, <1>8, <1>9, <1>10, <1>11,
     <1>12, <1>13, <1>14, <1>15, <1>16, <1>17, <1>18, <1>19, <1>20, <1>21
     DEF Next, Obtain, Apply, Rollback

LEMMA FileAlways == Spec => []FileInv
<1>1. Init => FileInv
  BY Places DEF Init, FileInv, InUse
<1> QED
  BY <1>1, TypeAlways, FileStep, PTL DEF Spec


-----------------------------------------------------------------------------
(* An update nobody else meets.                                            *)

\* What a lone update finds where it is.
LoneInv ==
  overlap \/ \A u \in Updaters : pc[u] \in Installing =>
    /\ \A w \in Updaters \ {u} : pc[w] \notin Installing
    /\ stamp[u] \notin doomed
    /\ pc[u] = "aside" => bak[stamp[u]] = Absent /\ ~InUse(stamp[u])
    /\ Between(u) => exe \notin Versions /\ ~InUse(Exe)
    /\ pc[u] \in {"write", "rewrite"} => exe = Torn
    /\ pc[u] = "finish" => exe = got[u]

\* One process after another: all else is at work as before, or at rest.
LoneBase == TypeWork /\ FileInv /\ LoneInv


\* Every step leaves a lone update what it had, unless another begins.
LEMMA LoneStep == LoneBase /\ [Next]_vars => LoneInv'
<1> SUFFICES ASSUME LoneBase, [Next]_vars PROVE LoneInv'
  OBVIOUS
<1> USE Kinds, Places
<1>1. ASSUME NEW u \in Updaters, Start(u) PROVE LoneInv'
  BY <1>1 DEF LoneBase, LoneInv, TypeWork, TypeOK, WorkInv, FileInv,
     Installing, InUse, Between, Start, fileVars, procVars, hist, Goto
<1>2. ASSUME NEW u \in Updaters, CheckUpdate(u) PROVE LoneInv'
  BY <1>2 DEF LoneBase, LoneInv, TypeWork, TypeOK, WorkInv, FileInv,
     Installing, InUse, Between, CheckUpdate, fileVars, procVars, hist, Goto
<1>3. ASSUME NEW u \in Updaters, Download(u) PROVE LoneInv'
  BY <1>3 DEF LoneBase, LoneInv, TypeWork, TypeOK, WorkInv, FileInv,
     Installing, InUse, Between, Download, fileVars, procVars, hist, Goto
<1>4. ASSUME NEW u \in Updaters, Verify(u) PROVE LoneInv'
  BY <1>4 DEF LoneBase, LoneInv, TypeWork, TypeOK, WorkInv, FileInv,
     Installing, InUse, Between, Verify, fileVars, procVars, hist, Goto,
     Forget, Retry, SumMatches, SignatureValid
<1>5. ASSUME NEW u \in Updaters, GiveUp(u) PROVE LoneInv'
  BY <1>5 DEF LoneBase, LoneInv, TypeWork, TypeOK, WorkInv, FileInv,
     Installing, InUse, Between, GiveUp, fileVars, procVars, hist, Goto,
     Forget, Retry
<1>6. ASSUME NEW u \in Updaters, Prepare(u) PROVE LoneInv'
  <2>1. pc' = [pc EXCEPT ![u] = "aside"] /\ stamp' = [stamp EXCEPT ![u] = clock]
        /\ clock \in Stamps /\ UNCHANGED <<exe, bak, writing, doomed, image>>
    BY <1>6 DEF Prepare, Goto, fileVars, LoneBase, TypeWork, TypeOK, Stamps
  <2>2. overlap' \/ \A w \in Updaters : pc[w] \notin Installing
    BY <1>6 DEF Prepare
  <2>3. ASSUME ~overlap', NEW w \in Updaters, pc'[w] \in Installing
        PROVE  w = u
    BY <2>1, <2>2, <2>3 DEF LoneBase, TypeWork, TypeOK
  <2>4. bak[clock] = Absent /\ clock \notin doomed /\ ~InUse(clock)
    BY <2>1 DEF LoneBase, FileInv, TypeWork, TypeOK
  <2>5. pc'[u] = "aside" /\ stamp'[u] = clock
    BY <2>1 DEF LoneBase, TypeWork, TypeOK
  <2>6. \A w \in Updaters : image'[w] # clock
    BY <2>1, <2>4 DEF InUse
  <2>7. ~InUse(stamp[u])'
    BY <2>5, <2>6, <2>1 DEF InUse
  <2>8. bak'[stamp'[u]] = Absent /\ stamp'[u] \notin doomed'
    BY <2>1, <2>4, <2>5
  <2> QED
    BY <2>3, <2>5, <2>7, <2>8 DEF LoneInv, Between
<1>7. ASSUME NEW u \in Updaters, StepAside(u) PROVE LoneInv'
  BY <1>7 DEF LoneBase, LoneInv, TypeWork, TypeOK, WorkInv, FileInv,
     Installing, InUse, Between, StepAside, fileVars, procVars, hist, Goto,
     CanStepAside, Moved
<1>8. ASSUME NEW u \in Updaters, StepAsideFails(u) PROVE LoneInv'
  BY <1>8 DEF LoneBase, LoneInv, TypeWork, TypeOK, WorkInv, FileInv,
     Installing, InUse, Between, StepAsideFails, fileVars, procVars, hist,
     Goto, CanStepAside, Fails, Quiet
<1>9. ASSUME NEW u \in Updaters, Open(u) PROVE LoneInv'
  BY <1>9 DEF LoneBase, LoneInv, TypeWork, TypeOK, WorkInv, FileInv,
     Installing, InUse, Between, Open, fileVars, procVars, hist, Goto, Quiet
<1>10. ASSUME NEW u \in Updaters, Write(u) PROVE LoneInv'
  BY <1>10 DEF LoneBase, LoneInv, TypeWork, TypeOK, WorkInv, FileInv,
     Installing, InUse, Between, Write, fileVars, procVars, hist, Goto,
     Source, Quiet
<1>11. ASSUME NEW u \in Updaters, CopyFails(u) PROVE LoneInv'
  BY <1>11 DEF LoneBase, LoneInv, TypeWork, TypeOK, WorkInv, FileInv,
     Installing, InUse, Between, CopyFails, fileVars, procVars, hist, Goto,
     Fails, Quiet
<1>12. ASSUME NEW u \in Updaters, Restore(u) PROVE LoneInv'
  BY <1>12 DEF LoneBase, LoneInv, TypeWork, TypeOK, WorkInv, FileInv,
     Installing, InUse, Between, Restore, fileVars, procVars, hist, Goto,
     Return, ReturnFails, CanReturn, Moved, Fails, Quiet
<1>13. ASSUME NEW u \in Updaters, Finish(u) PROVE LoneInv'
  BY <1>13 DEF LoneBase, LoneInv, TypeWork, TypeOK, WorkInv, FileInv,
     Installing, InUse, Between, Finish, fileVars, procVars, hist, Goto,
     Forget, Retry
<1>14. ASSUME NEW u \in Updaters, NothingToUndo(u) PROVE LoneInv'
  BY <1>14 DEF LoneBase, LoneInv, TypeWork, TypeOK, WorkInv, FileInv,
     Installing, InUse, Between, NothingToUndo, fileVars, procVars, hist,
     Goto, Quiet
<1>15. ASSUME NEW u \in Updaters, RemoveExe(u) PROVE LoneInv'
  BY <1>15 DEF LoneBase, LoneInv, TypeWork, TypeOK, WorkInv, FileInv,
     Installing, InUse, Between, RemoveExe, fileVars, procVars, hist, Goto,
     Fails, Quiet
<1>16. ASSUME NEW u \in Updaters, GoBack(u) PROVE LoneInv'
  BY <1>16 DEF LoneBase, LoneInv, TypeWork, TypeOK, WorkInv, FileInv,
     Installing, InUse, Between, GoBack, fileVars, procVars, hist, Goto,
     Return, ReturnFails, CanReturn, Moved, Fails, Quiet
<1>17. ASSUME NEW u \in Updaters, Failed(u) PROVE LoneInv'
  BY <1>17 DEF LoneBase, LoneInv, TypeWork, TypeOK, WorkInv, FileInv,
     Installing, InUse, Between, Failed, fileVars, procVars, hist, Goto,
     Forget, Retry
<1>18. ASSUME NEW u \in Updaters, Exit(u) PROVE LoneInv'
  BY <1>18 DEF LoneBase, LoneInv, TypeWork, TypeOK, WorkInv, FileInv,
     Installing, InUse, Between, Exit, fileVars, procVars, hist, Goto
<1>19. ASSUME Reboot PROVE LoneInv'
  BY <1>19 DEF LoneBase, LoneInv, TypeWork, TypeOK, WorkInv, FileInv,
     Installing, InUse, Between, Reboot, fileVars, procVars, hist, Goto
<1>20. ASSUME Release PROVE LoneInv'
  BY <1>20 DEF LoneBase, LoneInv, TypeWork, TypeOK, WorkInv, FileInv,
     Installing, InUse, Between, Release, fileVars, procVars, hist, Goto
<1>21. CASE UNCHANGED vars
  BY <1>21 DEF LoneBase, LoneInv, TypeWork, TypeOK, WorkInv, FileInv,
     Installing, InUse, Between, vars, fileVars, procVars, hist, Goto
<1> QED
  BY <1>1, <1>2, <1>3, <1>4, <1>5, <1>6, <1>7, <1>8, <1>9, <1>10, <1>11,
     <1>12, <1>13, <1>14, <1>15, <1>16, <1>17, <1>18, <1>19, <1>20, <1>21
     DEF Next, Obtain, Apply, Rollback

LEMMA LoneAlways == Spec => [](FileInv /\ LoneInv)
<1>1. Init => LoneInv
  BY DEF Init, LoneInv, Installing
<1>2. TypeWork /\ FileInv /\ LoneInv <=> LoneBase
  BY DEF LoneBase
<1> QED
  BY <1>1, <1>2, TypeAlways, FileAlways, LoneStep, PTL DEF Spec

\* An update that reports success has left its version under the tool's name, unless
\* another was installed at the same time.
THEOREM SuccessInstalledAlways == Spec => SuccessInstalled
<1> DEFINE Sits == \A u \in Updaters : Finish(u) => exe = got[u] \/ overlap
<1>1. LoneInv /\ [Next]_vars => [Sits]_vars
  BY DEF LoneInv, Finish, Installing
<1>2. SuccessInstalled <=> [][Sits]_vars
  BY DEF SuccessInstalled
<1> QED
  BY <1>1, <1>2, LoneAlways, PTL DEF Spec

-----------------------------------------------------------------------------
(* The last copy.                                                          *)

\* A whole version that will not be removed.
CopyInv ==
  overlap \/ exe \in Versions \/ \E s \in Stamps \ doomed : bak[s] \in Versions

CopyBase == LoneBase /\ CopyInv


\* No step of a lone update gives the last whole version away.
LEMMA CopyStep == CopyBase /\ [Next]_vars => CopyInv'
<1> SUFFICES ASSUME CopyBase, [Next]_vars PROVE CopyInv'
  OBVIOUS
<1> USE Kinds, Places
<1>1. ASSUME NEW u \in Updaters, Start(u) PROVE CopyInv'
  BY <1>1 DEF CopyBase, CopyInv, LoneBase, LoneInv, TypeWork, TypeOK, WorkInv,
     FileInv, Installing, InUse, Between, Start, fileVars, procVars, hist,
     Goto
<1>2. ASSUME NEW u \in Updaters, CheckUpdate(u) PROVE CopyInv'
  BY <1>2 DEF CopyBase, CopyInv, LoneBase, LoneInv, TypeWork, TypeOK, WorkInv,
     FileInv, Installing, InUse, Between, CheckUpdate, fileVars, procVars,
     hist, Goto
<1>3. ASSUME NEW u \in Updaters, Download(u) PROVE CopyInv'
  BY <1>3 DEF CopyBase, CopyInv, LoneBase, LoneInv, TypeWork, TypeOK, WorkInv,
     FileInv, Installing, InUse, Between, Download, fileVars, procVars, hist,
     Goto
<1>4. ASSUME NEW u \in Updaters, Verify(u) PROVE CopyInv'
  BY <1>4 DEF CopyBase, CopyInv, LoneBase, LoneInv, TypeWork, TypeOK, WorkInv,
     FileInv, Installing, InUse, Between, Verify, fileVars, procVars, hist,
     Goto, Forget, Retry, SumMatches, SignatureValid
<1>5. ASSUME NEW u \in Updaters, GiveUp(u) PROVE CopyInv'
  BY <1>5 DEF CopyBase, CopyInv, LoneBase, LoneInv, TypeWork, TypeOK, WorkInv,
     FileInv, Installing, InUse, Between, GiveUp, fileVars, procVars, hist,
     Goto, Forget, Retry
<1>6. ASSUME NEW u \in Updaters, Prepare(u) PROVE CopyInv'
  BY <1>6 DEF CopyBase, CopyInv, LoneBase, LoneInv, TypeWork, TypeOK, WorkInv,
     FileInv, Installing, InUse, Between, Prepare, fileVars, procVars, hist,
     Goto
<1>7. ASSUME NEW u \in Updaters, StepAside(u) PROVE CopyInv'
  BY <1>7 DEF CopyBase, CopyInv, LoneBase, LoneInv, TypeWork, TypeOK, WorkInv,
     FileInv, Installing, InUse, Between, StepAside, fileVars, procVars, hist,
     Goto, CanStepAside, Moved
<1>8. ASSUME NEW u \in Updaters, StepAsideFails(u) PROVE CopyInv'
  BY <1>8 DEF CopyBase, CopyInv, LoneBase, LoneInv, TypeWork, TypeOK, WorkInv,
     FileInv, Installing, InUse, Between, StepAsideFails, fileVars, procVars,
     hist, Goto, CanStepAside, Fails, Quiet
<1>9. ASSUME NEW u \in Updaters, Open(u) PROVE CopyInv'
  BY <1>9 DEF CopyBase, CopyInv, LoneBase, LoneInv, TypeWork, TypeOK, WorkInv,
     FileInv, Installing, InUse, Between, Open, fileVars, procVars, hist,
     Goto, Quiet
<1>10. ASSUME NEW u \in Updaters, Write(u) PROVE CopyInv'
  BY <1>10 DEF CopyBase, CopyInv, LoneBase, LoneInv, TypeWork, TypeOK,
     WorkInv, FileInv, Installing, InUse, Between, Write, fileVars, procVars,
     hist, Goto, Source, Quiet
<1>11. ASSUME NEW u \in Updaters, CopyFails(u) PROVE CopyInv'
  BY <1>11 DEF CopyBase, CopyInv, LoneBase, LoneInv, TypeWork, TypeOK,
     WorkInv, FileInv, Installing, InUse, Between, CopyFails, fileVars,
     procVars, hist, Goto, Fails, Quiet
<1>12. ASSUME NEW u \in Updaters, Restore(u) PROVE CopyInv'
  BY <1>12 DEF CopyBase, CopyInv, LoneBase, LoneInv, TypeWork, TypeOK,
     WorkInv, FileInv, Installing, InUse, Between, Restore, fileVars,
     procVars, hist, Goto, Return, ReturnFails, CanReturn, Moved, Fails, Quiet
<1>13. ASSUME NEW u \in Updaters, Finish(u) PROVE CopyInv'
  BY <1>13 DEF CopyBase, CopyInv, LoneBase, LoneInv, TypeWork, TypeOK,
     WorkInv, FileInv, Installing, InUse, Between, Finish, fileVars, procVars,
     hist, Goto, Forget, Retry
<1>14. ASSUME NEW u \in Updaters, NothingToUndo(u) PROVE CopyInv'
  BY <1>14 DEF CopyBase, CopyInv, LoneBase, LoneInv, TypeWork, TypeOK,
     WorkInv, FileInv, Installing, InUse, Between, NothingToUndo, fileVars,
     procVars, hist, Goto, Quiet
<1>15. ASSUME NEW u \in Updaters, RemoveExe(u) PROVE CopyInv'
  BY <1>15 DEF CopyBase, CopyInv, LoneBase, LoneInv, TypeWork, TypeOK,
     WorkInv, FileInv, Installing, InUse, Between, RemoveExe, fileVars,
     procVars, hist, Goto, Fails, Quiet
<1>16. ASSUME NEW u \in Updaters, GoBack(u) PROVE CopyInv'
  BY <1>16 DEF CopyBase, CopyInv, LoneBase, LoneInv, TypeWork, TypeOK,
     WorkInv, FileInv, Installing, InUse, Between, GoBack, fileVars, procVars,
     hist, Goto, Return, ReturnFails, CanReturn, Moved, Fails, Quiet
<1>17. ASSUME NEW u \in Updaters, Failed(u) PROVE CopyInv'
  BY <1>17 DEF CopyBase, CopyInv, LoneBase, LoneInv, TypeWork, TypeOK,
     WorkInv, FileInv, Installing, InUse, Between, Failed, fileVars, procVars,
     hist, Goto, Forget, Retry
<1>18. ASSUME NEW u \in Updaters, Exit(u) PROVE CopyInv'
  BY <1>18 DEF CopyBase, CopyInv, LoneBase, LoneInv, TypeWork, TypeOK,
     WorkInv, FileInv, Installing, InUse, Between, Exit, fileVars, procVars,
     hist, Goto
<1>19. ASSUME Reboot PROVE CopyInv'
  BY <1>19 DEF CopyBase, CopyInv, LoneBase, LoneInv, TypeWork, TypeOK,
     WorkInv, FileInv, Installing, InUse, Between, Reboot, fileVars, procVars,
     hist, Goto
<1>20. ASSUME Release PROVE CopyInv'
  BY <1>20 DEF CopyBase, CopyInv, LoneBase, LoneInv, TypeWork, TypeOK,
     WorkInv, FileInv, Installing, InUse, Between, Release, fileVars,
     procVars, hist, Goto
<1>21. CASE UNCHANGED vars
  BY <1>21 DEF CopyBase, CopyInv, LoneBase, LoneInv, TypeWork, TypeOK,
     WorkInv, FileInv, Installing, InUse, Between, vars, fileVars, procVars,
     hist, Goto
<1> QED
  BY <1>1, <1>2, <1>3, <1>4, <1>5, <1>6, <1>7, <1>8, <1>9, <1>10, <1>11,
     <1>12, <1>13, <1>14, <1>15, <1>16, <1>17, <1>18, <1>19, <1>20, <1>21
     DEF Next, Obtain, Apply, Rollback

\* Some whole version of the tool is left under its name or as a backup, unless two
\* updates were installed at the same time.
THEOREM LastCopyKeptAlways == Spec => []LastCopyKept
<1>1. Init => CopyInv
  BY UpgradeAssumption DEF Init, CopyInv, Versions
<1>2. TypeWork /\ FileInv /\ LoneInv /\ CopyInv <=> CopyBase
  BY DEF CopyBase, LoneBase
<1>3. CopyInv => LastCopyKept
  BY DEF CopyInv, LastCopyKept
<1> QED
  BY <1>1, <1>2, <1>3, TypeAlways, LoneAlways, CopyStep, PTL DEF Spec

-----------------------------------------------------------------------------
(* What undoing costs.                                                     *)

\* How far a lone update has been undone, and at the cost of how many failures.
HealthInv ==
  ~overlap /\ ~crashed /\ faults < 4 =>
    /\ (\A u \in Updaters : pc[u] \notin Installing) => exe \in Versions
    /\ \A u \in Updaters :
         /\ pc[u] \in {"aside", "finish", "failed"} => exe \in Versions
         /\ pc[u] \in {"copy", "write"} => bak[stamp[u]] \in Versions
         /\ pc[u] = "restore" => bak[stamp[u]] \in Versions /\ faults >= 1
         /\ pc[u] = "undo" => \/ bak[stamp[u]] = Absent /\ exe \in Versions
                              \/ bak[stamp[u]] \in Versions /\ faults >= 2
         /\ pc[u] = "back" => bak[stamp[u]] \in Versions /\ faults >= 2
         /\ pc[u] \in {"recopy", "rewrite"} => bak[stamp[u]] \in Versions /\ faults >= 3

HealthBase == LoneBase /\ HealthInv


\* Every failure of a lone update is undone, or counted.
LEMMA HealthStep == HealthBase /\ [Next]_vars => HealthInv'
<1> SUFFICES ASSUME HealthBase, [Next]_vars PROVE HealthInv'
  OBVIOUS
<1> USE Kinds, Places
<1>1. ASSUME NEW u \in Updaters, Start(u) PROVE HealthInv'
  BY <1>1 DEF HealthBase, HealthInv, LoneBase, LoneInv, TypeWork, TypeOK,
     WorkInv, FileInv, Installing, InUse, Between, Start, fileVars, procVars,
     hist, Goto
<1>2. ASSUME NEW u \in Updaters, CheckUpdate(u) PROVE HealthInv'
  BY <1>2 DEF HealthBase, HealthInv, LoneBase, LoneInv, TypeWork, TypeOK,
     WorkInv, FileInv, Installing, InUse, Between, CheckUpdate, fileVars,
     procVars, hist, Goto
<1>3. ASSUME NEW u \in Updaters, Download(u) PROVE HealthInv'
  BY <1>3 DEF HealthBase, HealthInv, LoneBase, LoneInv, TypeWork, TypeOK,
     WorkInv, FileInv, Installing, InUse, Between, Download, fileVars,
     procVars, hist, Goto
<1>4. ASSUME NEW u \in Updaters, Verify(u) PROVE HealthInv'
  BY <1>4 DEF HealthBase, HealthInv, LoneBase, LoneInv, TypeWork, TypeOK,
     WorkInv, FileInv, Installing, InUse, Between, Verify, fileVars, procVars,
     hist, Goto, Forget, Retry, SumMatches, SignatureValid
<1>5. ASSUME NEW u \in Updaters, GiveUp(u) PROVE HealthInv'
  BY <1>5 DEF HealthBase, HealthInv, LoneBase, LoneInv, TypeWork, TypeOK,
     WorkInv, FileInv, Installing, InUse, Between, GiveUp, fileVars, procVars,
     hist, Goto, Forget, Retry
<1>6. ASSUME NEW u \in Updaters, Prepare(u) PROVE HealthInv'
  BY <1>6 DEF HealthBase, HealthInv, LoneBase, LoneInv, TypeWork, TypeOK,
     WorkInv, FileInv, Installing, InUse, Between, Prepare, fileVars,
     procVars, hist, Goto
<1>7. ASSUME NEW u \in Updaters, StepAside(u) PROVE HealthInv'
  BY <1>7 DEF HealthBase, HealthInv, LoneBase, LoneInv, TypeWork, TypeOK,
     WorkInv, FileInv, Installing, InUse, Between, StepAside, fileVars,
     procVars, hist, Goto, CanStepAside, Moved
<1>8. ASSUME NEW u \in Updaters, StepAsideFails(u) PROVE HealthInv'
  BY <1>8 DEF HealthBase, HealthInv, LoneBase, LoneInv, TypeWork, TypeOK,
     WorkInv, FileInv, Installing, InUse, Between, StepAsideFails, fileVars,
     procVars, hist, Goto, CanStepAside, Fails, Quiet
<1>9. ASSUME NEW u \in Updaters, Open(u) PROVE HealthInv'
  BY <1>9 DEF HealthBase, HealthInv, LoneBase, LoneInv, TypeWork, TypeOK,
     WorkInv, FileInv, Installing, InUse, Between, Open, fileVars, procVars,
     hist, Goto, Quiet
<1>10. ASSUME NEW u \in Updaters, Write(u) PROVE HealthInv'
  BY <1>10 DEF HealthBase, HealthInv, LoneBase, LoneInv, TypeWork, TypeOK,
     WorkInv, FileInv, Installing, InUse, Between, Write, fileVars, procVars,
     hist, Goto, Source, Quiet
<1>11. ASSUME NEW u \in Updaters, CopyFails(u) PROVE HealthInv'
  BY <1>11 DEF HealthBase, HealthInv, LoneBase, LoneInv, TypeWork, TypeOK,
     WorkInv, FileInv, Installing, InUse, Between, CopyFails, fileVars,
     procVars, hist, Goto, Fails, Quiet
<1>12. ASSUME NEW u \in Updaters, Restore(u) PROVE HealthInv'
  <2>1. SUFFICES ASSUME (~overlap /\ ~crashed /\ faults < 4)' PROVE HealthInv'
    BY DEF HealthInv
  <2>2. stamp[u] \in Stamps /\ TypeOK /\ pc[u] = "restore" /\ faults \in Nat
    BY <1>12 DEF Restore, HealthBase, LoneBase, TypeWork, TypeOK, WorkInv, Installing
  <2>3. ~overlap /\ ~crashed /\ faults < 4
    <3>1. CASE Return(u)
      BY <2>1, <2>2, <3>1, Returned
    <3>2. CASE ReturnFails(u)
      BY <2>1, <2>2, <3>2, NotReturned DEF ReturnFails, Fails
    <3> QED
      BY <1>12, <3>1, <3>2 DEF Restore
  <2>4. /\ bak[stamp[u]] \in Versions /\ faults >= 1
        /\ \A w \in Updaters \ {u} : pc[w] \notin Installing
        /\ ~InUse(Exe)
    BY <2>2, <2>3 DEF HealthBase, HealthInv, LoneBase, LoneInv, Installing, Between
  <2>5. writing = {}
    BY <2>2, <2>4 DEF HealthBase, LoneBase, FileInv, Installing, TypeOK
  <2>6. \A w \in Updaters \ {u} : pc'[w] = pc[w]
    BY <1>12, <2>2 DEF Restore, Goto, TypeOK
  <2>7. CASE Return(u)
    <3>1. exe' \in Versions /\ bak'[stamp[u]] = Absent /\ UNCHANGED stamp
      BY <2>2, <2>4, <2>7, Returned
    <3>2. pc'[u] = "undo"
      BY <1>12, <2>2, <2>4, <2>5, <2>7
        DEF Restore, Goto, TypeOK, ReturnFails, fileVars, Return
    <3> QED
      BY <2>4, <2>6, <3>1, <3>2 DEF HealthInv, Installing
  <2>8. CASE ReturnFails(u)
    <3>1. faults' >= 2 /\ UNCHANGED <<bak, stamp>>
      BY <2>2, <2>4, <2>5, <2>8, NotReturned, Kinds
        DEF ReturnFails, Fails, CanReturn, Free
    <3>2. bak'[stamp'[u]] \in Versions
      BY <2>4, <3>1
    <3>3. pc'[u] = "undo"
      <4>1. ~Return(u)
        BY <2>2, <2>4, <3>1, Kinds, Returned
      <4> QED
        BY <1>12, <2>2, <4>1 DEF Restore, Goto, TypeOK
    <3> QED
      BY <2>4, <2>6, <3>1, <3>2, <3>3, <2>1 DEF HealthInv, Installing
  <2> QED
    BY <1>12, <2>7, <2>8 DEF Restore
<1>13. ASSUME NEW u \in Updaters, Finish(u) PROVE HealthInv'
  BY <1>13 DEF HealthBase, HealthInv, LoneBase, LoneInv, TypeWork, TypeOK,
     WorkInv, FileInv, Installing, InUse, Between, Finish, fileVars, procVars,
     hist, Goto, Forget, Retry
<1>14. ASSUME NEW u \in Updaters, NothingToUndo(u) PROVE HealthInv'
  BY <1>14 DEF HealthBase, HealthInv, LoneBase, LoneInv, TypeWork, TypeOK,
     WorkInv, FileInv, Installing, InUse, Between, NothingToUndo, fileVars,
     procVars, hist, Goto, Quiet
<1>15. ASSUME NEW u \in Updaters, RemoveExe(u) PROVE HealthInv'
  BY <1>15 DEF HealthBase, HealthInv, LoneBase, LoneInv, TypeWork, TypeOK,
     WorkInv, FileInv, Installing, InUse, Between, RemoveExe, fileVars,
     procVars, hist, Goto, Fails, Quiet
<1>16. ASSUME NEW u \in Updaters, GoBack(u) PROVE HealthInv'
  <2>1. SUFFICES ASSUME (~overlap /\ ~crashed /\ faults < 4)' PROVE HealthInv'
    BY DEF HealthInv
  <2>2. stamp[u] \in Stamps /\ TypeOK /\ pc[u] = "back" /\ faults \in Nat
    BY <1>16 DEF GoBack, HealthBase, LoneBase, TypeWork, TypeOK, WorkInv, Installing
  <2>3. ~overlap /\ ~crashed /\ faults < 4
    <3>1. CASE Return(u)
      BY <2>1, <2>2, <3>1, Returned
    <3>2. CASE ReturnFails(u)
      BY <2>1, <2>2, <3>2, NotReturned DEF ReturnFails, Fails
    <3> QED
      BY <1>16, <3>1, <3>2 DEF GoBack
  <2>4. /\ bak[stamp[u]] \in Versions /\ faults >= 2
        /\ \A w \in Updaters \ {u} : pc[w] \notin Installing
        /\ ~InUse(Exe)
    BY <2>2, <2>3 DEF HealthBase, HealthInv, LoneBase, LoneInv, Installing, Between
  <2>5. writing = {}
    BY <2>2, <2>4 DEF HealthBase, LoneBase, FileInv, Installing, TypeOK
  <2>6. \A w \in Updaters \ {u} : pc'[w] = pc[w]
    BY <1>16, <2>2 DEF GoBack, Goto, TypeOK
  <2>7. CASE Return(u)
    <3>1. exe' \in Versions /\ bak'[stamp[u]] = Absent /\ UNCHANGED stamp
      BY <2>2, <2>4, <2>7, Returned
    <3>2. pc'[u] = "failed"
      BY <1>16, <2>2, <2>4, <2>5, <2>7
        DEF GoBack, Goto, TypeOK, ReturnFails, fileVars, Return
    <3> QED
      BY <2>4, <2>6, <3>1, <3>2 DEF HealthInv, Installing
  <2>8. CASE ReturnFails(u)
    <3>1. faults' >= 3 /\ UNCHANGED <<bak, stamp>>
      BY <2>2, <2>4, <2>5, <2>8, NotReturned, Kinds
        DEF ReturnFails, Fails, CanReturn, Free
    <3>2. bak'[stamp'[u]] \in Versions
      BY <2>4, <3>1
    <3>3. pc'[u] = "recopy"
      <4>1. ~Return(u)
        BY <2>2, <2>4, <3>1, Kinds, Returned
      <4> QED
        BY <1>16, <2>2, <4>1 DEF GoBack, Goto, TypeOK
    <3> QED
      BY <2>4, <2>6, <3>1, <3>2, <3>3, <2>1 DEF HealthInv, Installing
  <2> QED
    BY <1>16, <2>7, <2>8 DEF GoBack
<1>17. ASSUME NEW u \in Updaters, Failed(u) PROVE HealthInv'
  BY <1>17 DEF HealthBase, HealthInv, LoneBase, LoneInv, TypeWork, TypeOK,
     WorkInv, FileInv, Installing, InUse, Between, Failed, fileVars, procVars,
     hist, Goto, Forget, Retry
<1>18. ASSUME NEW u \in Updaters, Exit(u) PROVE HealthInv'
  <2>1. SUFFICES ASSUME (~overlap /\ ~crashed /\ faults < 4)' PROVE HealthInv'
    BY DEF HealthInv
  <2>2. ~overlap /\ ~crashed /\ faults < 4 /\ pc[u] \notin Installing
    BY <1>18, <2>1 DEF Exit
  <2>3. /\ pc'[u] = "off" /\ UNCHANGED <<exe, bak, faults>>
        /\ \A w \in Updaters \ {u} : pc'[w] = pc[w] /\ stamp'[w] = stamp[w]
    BY <1>18 DEF Exit, HealthBase, LoneBase, TypeWork, TypeOK
  <2>4. \A w \in Updaters : pc'[w] \notin Installing => pc[w] \notin Installing
    BY <2>2, <2>3
  <2>5. (\A w \in Updaters : pc'[w] \notin Installing) => exe \in Versions
    BY <2>2, <2>4 DEF HealthBase, HealthInv
  <2> QED
    BY <2>2, <2>3, <2>5 DEF HealthBase, HealthInv
<1>19. ASSUME Reboot PROVE HealthInv'
  BY <1>19 DEF HealthBase, HealthInv, LoneBase, LoneInv, TypeWork, TypeOK,
     WorkInv, FileInv, Installing, InUse, Between, Reboot, fileVars, procVars,
     hist, Goto
<1>20. ASSUME Release PROVE HealthInv'
  BY <1>20 DEF HealthBase, HealthInv, LoneBase, LoneInv, TypeWork, TypeOK,
     WorkInv, FileInv, Installing, InUse, Between, Release, fileVars,
     procVars, hist, Goto
<1>21. CASE UNCHANGED vars
  BY <1>21 DEF HealthBase, HealthInv, LoneBase, LoneInv, TypeWork, TypeOK,
     WorkInv, FileInv, Installing, InUse, Between, vars, fileVars, procVars,
     hist, Goto
<1> QED
  BY <1>1, <1>2, <1>3, <1>4, <1>5, <1>6, <1>7, <1>8, <1>9, <1>10, <1>11,
     <1>12, <1>13, <1>14, <1>15, <1>16, <1>17, <1>18, <1>19, <1>20, <1>21
     DEF Next, Obtain, Apply, Rollback

\* The tool can be started when nobody is installing, unless a process was killed
\* while it was, two updates met, or four file operations failed.
THEOREM StartableAlways == Spec => []Startable
<1>1. Init => HealthInv
  BY UpgradeAssumption DEF Init, HealthInv, Versions
<1>2. TypeWork /\ FileInv /\ LoneInv /\ HealthInv <=> HealthBase
  BY DEF HealthBase, LoneBase
<1>3. HealthInv => Startable
  BY DEF HealthInv, Startable
<1> QED
  BY <1>1, <1>2, <1>3, TypeAlways, LoneAlways, HealthStep, PTL DEF Spec

-----------------------------------------------------------------------------
(* Upgrade implements UpdateSpec.                                          *)

\* A process looks for, and fetches, a version newer than its own.
NewerInv ==
  \A u \in Updaters :
    /\ pc[u] # "off" => version[u] \in Versions
    /\ pc[u] \in Installing \cup {"download", "verify", "ready"} => want[u] > version[u]
    /\ pc[u] \in Installing \cup {"ready"} => got[u] > version[u]

LEMMA NewerStep == TypeWork /\ NewerInv /\ [Next]_vars => NewerInv'
<1> SUFFICES ASSUME TypeWork, NewerInv, [Next]_vars PROVE NewerInv'
  OBVIOUS
<1> USE Places DEF Installing
<1>1. ASSUME NEW u \in Updaters, Start(u) PROVE NewerInv'
  BY <1>1 DEF NewerInv, TypeWork, TypeOK, Start, Goto
<1>2. ASSUME NEW u \in Updaters, CheckUpdate(u) PROVE NewerInv'
  BY <1>2 DEF NewerInv, TypeWork, TypeOK, CheckUpdate, Goto
<1>3. ASSUME NEW u \in Updaters, Download(u) PROVE NewerInv'
  BY <1>3 DEF NewerInv, TypeWork, TypeOK, Download, Goto
<1>4. ASSUME NEW u \in Updaters, Verify(u) PROVE NewerInv'
  <2>1. got[u] \in {want[u]} \cup Rejected /\ want[u] > version[u]
    BY <1>4 DEF Verify, TypeWork, WorkInv, NewerInv
  <2>2. SumMatches(got[u]) /\ SignatureValid(got[u]) => got[u] > version[u]
    BY <2>1 DEF SumMatches, SignatureValid, Rejected
  <2> QED
    BY <1>4, <2>2 DEF NewerInv, TypeWork, TypeOK, Verify, Goto, Forget, Retry
<1>5. ASSUME NEW u \in Updaters, Exit(u) PROVE NewerInv'
  BY <1>5 DEF NewerInv, TypeWork, TypeOK, Exit
<1>6. ASSUME NEW u \in Updaters, GiveUp(u) \/ Finish(u) \/ Failed(u) PROVE NewerInv'
  BY <1>6 DEF NewerInv, TypeWork, TypeOK, GiveUp, Finish, Failed, Forget, Retry, Goto

\* Whatever an update does to the files, it works with the version it has.
<1>7. ASSUME NEW u \in Updaters, NEW label \in Installing, pc[u] \in Installing \cup {"ready"},
             pc' = [pc EXCEPT ![u] = label],
             UNCHANGED <<version, want, got>>
      PROVE  NewerInv'
  BY <1>7 DEF NewerInv, TypeWork, TypeOK
<1>8. ASSUME NEW u \in Updaters, Prepare(u) PROVE NewerInv'
  BY <1>7, <1>8 DEF Prepare, Goto
<1>9. ASSUME NEW u \in Updaters, StepAside(u) \/ StepAsideFails(u) PROVE NewerInv'
  <2>1. PICK label \in {"copy", "undo"} : pc' = [pc EXCEPT ![u] = label]
    BY <1>9 DEF StepAside, StepAsideFails, Goto
  <2> QED
    BY <1>7, <1>9, <2>1 DEF StepAside, StepAsideFails, Quiet, procVars
<1>10. ASSUME NEW u \in Updaters, Open(u) \/ Write(u) \/ CopyFails(u) PROVE NewerInv'
  <2>1. PICK label \in Installing : pc' = [pc EXCEPT ![u] = label]
    BY <1>10 DEF Open, Write, CopyFails, Goto
  <2> QED
    BY <1>7, <1>10, <2>1 DEF Open, Write, CopyFails, Quiet, procVars
<1>11. ASSUME NEW u \in Updaters, Restore(u) \/ GoBack(u) PROVE NewerInv'
  <2>1. PICK label \in Installing : pc' = [pc EXCEPT ![u] = label]
    BY <1>11 DEF Restore, GoBack, Goto
  <2>2. UNCHANGED <<version, want, got>>
    BY <1>11 DEF Restore, GoBack, Return, ReturnFails, Quiet, procVars
  <2> QED
    BY <1>7, <1>11, <2>1, <2>2 DEF Restore, GoBack
<1>12. ASSUME NEW u \in Updaters, NothingToUndo(u) \/ RemoveExe(u) PROVE NewerInv'
  <2>1. PICK label \in Installing : pc' = [pc EXCEPT ![u] = label]
    BY <1>12 DEF NothingToUndo, RemoveExe, Goto
  <2> QED
    BY <1>7, <1>12, <2>1 DEF NothingToUndo, RemoveExe, Quiet, procVars
<1>13. CASE Reboot \/ Release \/ UNCHANGED vars
  BY <1>13 DEF NewerInv, Reboot, Release, vars, procVars
<1> QED
  BY <1>1, <1>2, <1>3, <1>4, <1>5, <1>6, <1>8, <1>9, <1>10, <1>11, <1>12, <1>13
     DEF Next, Obtain, Apply, Rollback

\* Where the tool is.
ToolFacts ==
  /\ Trouble => Tool = Unknown
  /\ ~Trouble =>
       /\ \A u \in Updaters : Between(u) => Tool = bak[stamp[u]]
       /\ (\A u \in Updaters : ~Between(u)) => Tool = exe

LEMMA ToolIs == LoneInv => ToolFacts
<1> SUFFICES ASSUME LoneInv PROVE ToolFacts
  OBVIOUS
<1>1. ASSUME ~Trouble, NEW u \in Updaters, Between(u) PROVE Tool = bak[stamp[u]]
  <2> DEFINE c == CHOOSE w \in Updaters : Between(w)
  <2>1. c \in Updaters /\ Between(c)
    BY <1>1
  <2>2. \A w \in Updaters : Between(w) => pc[w] \in Installing
    BY DEF Between, Installing
  <2>3. c = u
    BY <1>1, <2>1, <2>2 DEF LoneInv, Trouble
  <2>4. Tool = bak[stamp[c]]
    BY <1>1 DEF Tool
  <2> QED
    BY <2>3, <2>4
<1> QED
  BY <1>1 DEF ToolFacts, Tool

LEMMA ToolIsNext == LoneInv' => ToolFacts'
  BY ToolIs, PTL

\* Phases and files follow the labels.
LEMMA PhaseStep ==
  ASSUME TypeOK, NEW u \in Updaters, NEW label, pc' = [pc EXCEPT ![u] = label]
  PROVE  Phase' = [Phase EXCEPT ![u] = PhaseOf(label)]
BY DEF Phase, TypeOK

LEMMA FetchedStep ==
  ASSUME TypeOK, NEW u \in Updaters, NEW label, pc' = [pc EXCEPT ![u] = label],
         NEW f, got' = [got EXCEPT ![u] = f]
  PROVE  /\ label \in Installing \cup {"ready"} => File' = [File EXCEPT ![u] = f]
         /\ label \notin Installing \cup {"ready"} => File' = [File EXCEPT ![u] = None]
BY DEF File, TypeOK

LEMMA FetchedSame ==
  ASSUME TypeOK, NEW u \in Updaters, NEW label, pc' = [pc EXCEPT ![u] = label],
         got' = got,
         label \in Installing \cup {"ready"} <=> pc[u] \in Installing \cup {"ready"}
  PROVE  File' = File
BY DEF File, TypeOK

LEMMA PhaseFacts ==
  /\ PhaseOf("off") = "off" /\ PhaseOf("ready") = "ready"
  /\ PhaseOf("finish") = "installed"
  /\ \A label \in {"on", "download", "verify"} : PhaseOf(label) = "idle"
  /\ \A label \in Installing \ {"finish"} : PhaseOf(label) = "installing"
  /\ \A label \in Labels :
       (PhaseOf(label) \in {"installing", "installed"}) = (label \in Installing)
BY DEF PhaseOf, Installing, Labels

AtomBase == HealthBase /\ NewerInv

\* What every step knows: the invariants before it and, of the files, after it.
StepBase == AtomBase /\ LoneInv' /\ HealthInv' /\ TypeWork'

LEMMA StepFacts ==
  ASSUME StepBase
  PROVE  /\ TypeOK /\ WorkInv /\ LoneInv /\ HealthInv /\ NewerInv /\ FileInv
         /\ ToolFacts /\ ToolFacts' /\ LoneInv' /\ HealthInv'
         /\ faults \in Int /\ faults' \in Int
BY ToolIs, ToolIsNext DEF StepBase, AtomBase, HealthBase, LoneBase, TypeWork, TypeOK

\* A step in the midst of an update, and a failure that is counted.
LEMMA MidstStep ==
  ASSUME StepBase, NEW u \in Updaters, NEW label \in Installing \ {"finish"},
         pc[u] \in Installing \ {"finish"}, pc' = [pc EXCEPT ![u] = label],
         UNCHANGED <<version, got, overlap, crashed>>,
         faults' \in {faults, faults + 1}, ~Trouble' => Tool' = Tool
  PROVE  [Update!Next]_(Update!vars)
<1>1. TypeOK /\ ToolFacts /\ ToolFacts'
  BY StepFacts
<1>2. Phase' = Phase /\ Phase[u] = "installing"
  BY <1>1, PhaseStep, PhaseFacts DEF Phase
<1>3. File' = File
  BY <1>1, FetchedSame
<1>4. Update!Becomes(Tool)
  BY <1>1 DEF Update!Becomes, ToolFacts, Trouble, Update!Trouble
<1>5. CASE faults' = faults
  BY <1>1, <1>2, <1>3, <1>5 DEF Update!vars, ToolFacts, Trouble
<1>6. CASE faults' = faults + 1
  BY <1>2, <1>3, <1>4, <1>6 DEF Update!Fault, Update!Next
<1> QED
  BY <1>5, <1>6

\* A lone update is met by no other, before and after its steps.
LEMMA AloneBetween ==
  ASSUME StepBase, ~Trouble, NEW u \in Updaters, pc[u] \in Installing,
         \A w \in Updaters \ {u} : pc'[w] = pc[w]
  PROVE  \A w \in Updaters \ {u} : ~Between(w) /\ ~Between(w)'
BY StepFacts DEF LoneInv, Trouble, Between, Installing

\* The steps of an update that failures may stop leave the tool what it was.
LEMMA ToolUndone ==
  ASSUME StepBase, NEW u \in Updaters, ~Trouble, ~Trouble',
         \/ StepAside(u) \/ StepAsideFails(u) \/ Open(u) \/ CopyFails(u)
         \/ Restore(u) \/ NothingToUndo(u) \/ RemoveExe(u) \/ GoBack(u)
         \/ Write(u) /\ pc[u] = "rewrite"
  PROVE  Tool' = Tool
<1> USE Kinds, StepFacts
<1>1. pc[u] \in Installing /\ stamp[u] \in Stamps /\ stamp' = stamp
  BY DEF StepAside, StepAsideFails, Open, CopyFails, Restore, NothingToUndo, RemoveExe,
         GoBack, Write, Return, ReturnFails, Quiet, procVars, Installing, WorkInv
<1>2. \A w \in Updaters \ {u} : pc'[w] = pc[w]
  BY DEF StepAside, StepAsideFails, Open, CopyFails, Restore, NothingToUndo, RemoveExe,
         GoBack, Write, Goto, TypeOK
<1>3. \A w \in Updaters \ {u} : ~Between(w) /\ ~Between(w)'
  BY <1>1, <1>2, AloneBetween
<1>4. /\ Between(u) => Tool = bak[stamp[u]]
      /\ ~Between(u) => Tool = exe
      /\ Between(u)' => Tool' = bak'[stamp[u]]
      /\ ~Between(u)' => Tool' = exe'
  BY <1>1, <1>3 DEF ToolFacts
<1>5. CASE StepAside(u)
  <2>1. ~Between(u) /\ Between(u)'
    BY <1>5 DEF StepAside, Goto, Between, TypeOK
  <2> QED
    BY <1>1, <1>4, <1>5, <2>1, SteppedAside
<1>6. CASE StepAsideFails(u)
  <2>1. pc[u] = "aside" /\ pc'[u] = "undo" /\ UNCHANGED <<exe, bak>>
    BY <1>6 DEF StepAsideFails, Goto, TypeOK, fileVars
  <2>2. bak[stamp[u]] = Absent
    BY <2>1 DEF LoneInv, Trouble, Installing
  <2> QED
    BY <1>1, <1>4, <2>1, <2>2 DEF Between
<1>7. CASE Open(u)
  <2>1. Between(u) /\ Between(u)' /\ bak' = bak
    BY <1>7 DEF Open, Goto, Between, TypeOK
  <2> QED
    BY <1>4, <2>1
<1>8. CASE CopyFails(u)
  <2>1. CASE pc[u] \in {"copy", "write"}
    <3>1. Between(u) /\ Between(u)' /\ bak' = bak
      BY <1>8, <2>1 DEF CopyFails, Goto, Between, TypeOK
    <3> QED
      BY <1>4, <3>1
  <2>2. CASE pc[u] \in {"recopy", "rewrite"}
    <3>1. pc'[u] = "failed" /\ exe' \in {exe, Torn}
      BY <1>8, <2>2 DEF CopyFails, Goto, TypeOK
    <3>2. exe' \in Versions
      BY <3>1 DEF HealthInv, Trouble
    <3>3. exe \notin Versions
      BY <2>2 DEF LoneInv, Trouble, Between, Installing
    <3> QED
      BY <3>1, <3>2, <3>3
  <2> QED
    BY <1>8, <2>1, <2>2 DEF CopyFails
<1>9. CASE Restore(u) \/ GoBack(u)
  <2>1. Between(u) /\ bak[stamp[u]] # Absent
    BY <1>9 DEF Restore, GoBack, Between, HealthInv, Trouble
  <2>2. CASE Return(u)
    <3>1. exe' = bak[stamp[u]] /\ bak'[stamp[u]] = Absent
      BY <1>1, <2>2, Returned
    <3>2. pc'[u] # "recopy"
      <4>1. ~ReturnFails(u)
        BY <2>1, <3>1 DEF ReturnFails, fileVars
      <4> QED
        BY <1>9, <4>1 DEF Restore, GoBack, Goto, TypeOK
    <3>3. pc'[u] \in {"undo", "failed", "recopy"}
      BY <1>9 DEF Restore, GoBack, Goto, TypeOK
    <3>4. ~Between(u)'
      BY <1>1, <3>1, <3>2, <3>3 DEF Between
    <3> QED
      BY <1>4, <2>1, <3>1, <3>4
  <2>3. CASE ReturnFails(u)
    <3>1. bak' = bak /\ exe' = exe
      BY <2>3 DEF ReturnFails, fileVars
    <3>2. pc'[u] \in {"undo", "recopy"}
      <4>1. ~Return(u)
        BY <1>1, <2>1, <3>1, Returned
      <4> QED
        BY <1>9, <4>1 DEF Restore, GoBack, Goto, TypeOK
    <3>3. Between(u)'
      BY <1>1, <2>1, <3>1, <3>2 DEF Between
    <3> QED
      BY <1>4, <2>1, <3>1, <3>3
  <2> QED
    BY <1>9, <2>2, <2>3 DEF Restore, GoBack
<1>10. CASE NothingToUndo(u)
  <2>1. ~Between(u) /\ ~Between(u)' /\ exe' = exe
    BY <1>10 DEF NothingToUndo, Goto, Between, TypeOK, fileVars
  <2> QED
    BY <1>4, <2>1
<1>11. CASE RemoveExe(u)
  <2>1. Between(u) /\ Between(u)' /\ bak' = bak
    BY <1>11 DEF RemoveExe, Goto, Between, TypeOK
  <2> QED
    BY <1>4, <2>1
<1>12. CASE Write(u) /\ pc[u] = "rewrite"
  <2>1. Between(u) /\ pc'[u] = "failed" /\ ~Between(u)'
    BY <1>12 DEF Write, Goto, Between, TypeOK
  <2>2. exe' \in Versions
    BY <2>1 DEF HealthInv, Trouble
  <2>3. exe' = bak[stamp[u]]
    BY <1>12, <2>2 DEF Write, Source
  <2> QED
    BY <1>4, <2>1, <2>3
<1> QED
  BY <1>5, <1>6, <1>7, <1>8, <1>9, <1>10, <1>11, <1>12

\* The steps outside of the installation.
LEMMA ToolElsewhere ==
  ASSUME StepBase, NEW u \in Updaters, ~Trouble, ~Trouble', exe' = exe, bak' = bak,
         ~Between(u), ~Between(u)',
         \A w \in Updaters \ {u} : pc'[w] = pc[w] /\ stamp'[w] = stamp[w]
  PROVE  Tool' = Tool
<1>1. \A w \in Updaters \ {u} : Between(w)' = Between(w)
  BY DEF Between
<1>2. CASE \E w \in Updaters : Between(w)
  <2>1. PICK w \in Updaters \ {u} : Between(w)
    BY <1>2
  <2>2. Tool = bak[stamp[w]] /\ Tool' = bak'[stamp'[w]]
    BY <1>1, <2>1, StepFacts DEF ToolFacts
  <2> QED
    BY <2>1, <2>2
<1>3. CASE ~\E w \in Updaters : Between(w)
  <2>1. Tool = exe /\ Tool' = exe'
    BY <1>1, <1>3, StepFacts DEF ToolFacts
  <2> QED
    BY <2>1
<1> QED
  BY <1>2, <1>3

LEMMA UpdateStep == StepBase /\ [Next]_vars => [Update!Next]_(Update!vars)
<1> SUFFICES ASSUME StepBase, [Next]_vars PROVE [Update!Next]_(Update!vars)
  OBVIOUS
<1> USE StepFacts, PhaseFacts
<1>1. ASSUME NEW u \in Updaters, Start(u) PROVE Update!Start(u)
  <2>1. pc[u] = "off" /\ pc' = [pc EXCEPT ![u] = "on"] /\ got' = got
        /\ UNCHANGED <<exe, bak, stamp, overlap, crashed, faults>>
    BY <1>1 DEF Start, Goto, fileVars, hist
  <2>2. Phase[u] = "off" /\ Phase' = [Phase EXCEPT ![u] = "idle"] /\ File' = File
    <3>1. Phase' = [Phase EXCEPT ![u] = PhaseOf("on")]
      BY <2>1, PhaseStep
    <3>2. File' = File
      BY <2>1, FetchedSame DEF Installing
    <3> QED
      BY <2>1, <3>1, <3>2 DEF Phase
  <2>3. Tool' = Tool
    <3>1. CASE Trouble
      BY <2>1, <3>1 DEF ToolFacts, Trouble
    <3>2. CASE ~Trouble
      <4>1. ~Between(u) /\ ~Between(u)' /\ ~Trouble'
        BY <2>1, <3>2 DEF Between, TypeOK, Trouble
      <4> QED
        BY <2>1, <3>2, <4>1, ToolElsewhere DEF TypeOK
    <3> QED
      BY <3>1, <3>2
  <2>4. exe \in IF Tool = Unknown THEN Versions ELSE {Tool}
    <3>1. exe \in Versions
      BY <1>1 DEF Start
    <3>2. CASE Trouble
      BY <3>1, <3>2 DEF ToolFacts
    <3>3. CASE ~Trouble
      <4>1. \A w \in Updaters : ~Between(w)
        BY <3>1, <3>3 DEF LoneInv, Trouble, Between, Installing
      <4> QED
        BY <3>1, <3>3, <4>1 DEF ToolFacts
    <3> QED
      BY <3>2, <3>3
  <2> QED
    BY <1>1, <2>1, <2>2, <2>3, <2>4 DEF Start, Update!Start, Update!Move
<1>2. ASSUME NEW u \in Updaters, NEW label \in {"on", "download", "verify"},
             pc[u] \in {"on", "download", "verify"}, pc' = [pc EXCEPT ![u] = label],
             UNCHANGED <<exe, bak, version, overlap, crashed, faults>>,
             \A w \in Updaters \ {u} : stamp'[w] = stamp[w] /\ got'[w] = got[w]
      PROVE  UNCHANGED Update!vars
  <2>1. Phase' = Phase
    BY <1>2, PhaseStep DEF Phase
  <2>2. File' = File
    BY <1>2 DEF File, Installing, TypeOK
  <2>3. Tool' = Tool
    <3>1. CASE Trouble
      BY <1>2, <3>1 DEF ToolFacts, Trouble
    <3>2. CASE ~Trouble
      <4>1. ~Between(u) /\ ~Between(u)' /\ ~Trouble'
        BY <1>2, <3>2 DEF Between, TypeOK, Trouble
      <4> QED
        BY <1>2, <3>2, <4>1, ToolElsewhere DEF TypeOK
    <3> QED
      BY <3>1, <3>2
  <2> QED
    BY <1>2, <2>1, <2>2, <2>3 DEF Update!vars
<1>3. ASSUME NEW u \in Updaters, CheckUpdate(u) \/ Download(u) PROVE UNCHANGED Update!vars
  <2>1. PICK label \in {"download", "verify"} : pc' = [pc EXCEPT ![u] = label]
    BY <1>3 DEF CheckUpdate, Download, Goto
  <2> QED
    BY <1>2, <1>3, <2>1 DEF CheckUpdate, Download, fileVars, hist, TypeOK

\* The end of an update, and of the attempt to begin one.
<1>4. ASSUME NEW u \in Updaters, pc[u] \in Installing \cup {"ready"}, ~Between(u), Forget(u) \/ Retry(u),
             UNCHANGED <<exe, bak, version, overlap, crashed, faults>>
      PROVE  Update!Leave(u)
  <2>1. PICK label \in {"on", "download"} :
          /\ pc' = [pc EXCEPT ![u] = label] /\ got' = [got EXCEPT ![u] = Absent]
          /\ stamp' = [stamp EXCEPT ![u] = None]
    BY <1>4 DEF Forget, Retry, Goto
  <2>2. Phase' = [Phase EXCEPT ![u] = "idle"] /\ File' = [File EXCEPT ![u] = None]
    <3>1. Phase' = [Phase EXCEPT ![u] = PhaseOf(label)] /\ PhaseOf(label) = "idle"
      BY <2>1, PhaseStep
    <3>2. File' = [File EXCEPT ![u] = None]
      BY <2>1, FetchedStep DEF Installing
    <3> QED
      BY <3>1, <3>2
  <2>3. Phase[u] \in {"ready", "installing", "installed"}
    BY <1>4 DEF Phase, PhaseOf, Installing
  <2>4. Tool' = Tool
    <3>1. CASE Trouble
      BY <1>4, <3>1 DEF ToolFacts, Trouble
    <3>2. CASE ~Trouble
      <4>1. ~Between(u)' /\ ~Trouble'
        BY <1>4, <2>1, <3>2 DEF Between, TypeOK, Trouble
      <4> QED
        BY <1>4, <2>1, <3>2, <4>1, ToolElsewhere DEF TypeOK
    <3> QED
      BY <3>1, <3>2
  <2> QED
    BY <1>4, <2>2, <2>3, <2>4 DEF Update!Leave, Update!Move
<1>5. ASSUME NEW u \in Updaters, GiveUp(u) PROVE [Update!Next]_(Update!vars)
  <2>1. CASE pc[u] = "ready"
    BY <1>4, <1>5, <2>1 DEF GiveUp, Between, fileVars, hist, Update!Next
  <2>2. CASE pc[u] = "download"
    <3>1. \A w \in Updaters \ {u} : stamp'[w] = stamp[w] /\ got'[w] = got[w]
      BY <1>5 DEF GiveUp, Forget, Retry, TypeOK
    <3> QED
      BY <1>2, <1>5, <2>2, <3>1 DEF GiveUp, Forget, Retry, Goto, fileVars, hist
  <2> QED
    BY <1>5, <2>1, <2>2 DEF GiveUp
<1>6. ASSUME NEW u \in Updaters, Finish(u) \/ Failed(u) PROVE Update!Leave(u)
  <2>1. ~Between(u) /\ pc[u] \in Installing /\ (Forget(u) \/ Retry(u))
    BY <1>6 DEF Finish, Failed, Between, Installing
  <2> QED
    BY <1>4, <1>6, <2>1 DEF Finish, Failed, fileVars, hist
<1>7. ASSUME NEW u \in Updaters, Verify(u) PROVE [Update!Next]_(Update!vars)
  <2>1. pc[u] = "verify" /\ UNCHANGED <<exe, bak, version, overlap, crashed, faults>>
    BY <1>7 DEF Verify, fileVars, hist
  <2>2. CASE SumMatches(got[u]) /\ SignatureValid(got[u])
    <3>1. pc' = [pc EXCEPT ![u] = "ready"] /\ UNCHANGED <<got, stamp>>
      BY <1>7, <2>2 DEF Verify, Goto
    <3>2. got[u] \in {want[u]} \cup Rejected /\ want[u] \in Versions /\ want[u] > version[u]
      BY <2>1 DEF WorkInv, NewerInv
    <3>3. got[u] \in Versions /\ got[u] > version[u]
      BY <2>2, <3>2 DEF SumMatches, SignatureValid, Rejected
    <3>4. Phase[u] = "idle" /\ Phase' = [Phase EXCEPT ![u] = "ready"]
      <4>1. Phase' = [Phase EXCEPT ![u] = PhaseOf("ready")]
        BY <3>1, PhaseStep
      <4> QED
        BY <2>1, <4>1 DEF Phase
    <3>5. File' = [File EXCEPT ![u] = got[u]]
      BY <2>1, <3>1 DEF File, TypeOK, Installing
    <3>6. Tool' = Tool
      <4>1. CASE Trouble
        BY <2>1, <4>1 DEF ToolFacts, Trouble
      <4>2. CASE ~Trouble
        <5>1. ~Between(u) /\ ~Between(u)' /\ ~Trouble'
          BY <2>1, <3>1, <4>2 DEF Between, TypeOK, Trouble
        <5> QED
          BY <2>1, <3>1, <4>2, <5>1, ToolElsewhere DEF TypeOK
      <4> QED
        BY <4>1, <4>2
    <3> QED
      BY <2>1, <3>3, <3>4, <3>5, <3>6 DEF Update!Fetch, Update!Move, Update!Next
  <2>3. CASE ~(SumMatches(got[u]) /\ SignatureValid(got[u]))
    <3>1. Forget(u) \/ Retry(u)
      BY <1>7, <2>3 DEF Verify
    <3>2. \A w \in Updaters \ {u} : stamp'[w] = stamp[w] /\ got'[w] = got[w]
      BY <3>1 DEF Forget, Retry, TypeOK
    <3> QED
      BY <1>2, <2>1, <3>1, <3>2 DEF Forget, Retry, Goto
  <2> QED
    BY <2>2, <2>3
<1>8. ASSUME NEW u \in Updaters, Prepare(u) PROVE Update!Begin(u)
  <2>1. /\ pc[u] = "ready" /\ pc' = [pc EXCEPT ![u] = "aside"] /\ UNCHANGED <<exe, bak, got>>
        /\ stamp' = [stamp EXCEPT ![u] = clock] /\ UNCHANGED <<version, crashed, faults>>
        /\ overlap' = (overlap \/ \E w \in Updaters : pc[w] \in Installing)
    BY <1>8 DEF Prepare, Goto, fileVars
  <2>2. Phase[u] = "ready" /\ Phase' = [Phase EXCEPT ![u] = "installing"] /\ File' = File
    <3>1. Phase' = [Phase EXCEPT ![u] = PhaseOf("aside")] /\ "aside" \in Installing \ {"finish"}
      BY <2>1, PhaseStep DEF Installing
    <3>2. File' = File
      BY <2>1, FetchedSame DEF Installing
    <3> QED
      BY <2>1, <3>1, <3>2 DEF Phase
  <2>3. \A w \in Updaters : Update!InMidst(w) = (pc[w] \in Installing)
    BY DEF Phase, Update!InMidst, TypeOK
  <2>4. Update!Becomes(Tool)
    <3>1. ASSUME ~Trouble' PROVE Tool' = Tool
      <4>1. ~Between(u) /\ ~Between(u)' /\ ~Trouble
        BY <2>1, <3>1 DEF Between, TypeOK, Trouble
      <4> QED
        BY <2>1, <3>1, <4>1, ToolElsewhere DEF TypeOK
    <3> QED
      BY <3>1 DEF Update!Becomes, ToolFacts, Trouble, Update!Trouble
  <2> QED
    BY <2>1, <2>2, <2>3, <2>4 DEF Update!Begin, Update!Move
<1>9. ASSUME NEW u \in Updaters, Write(u), pc[u] = "write" PROVE Update!Install(u)
  <2>1. /\ pc' = [pc EXCEPT ![u] = "finish"]
        /\ UNCHANGED <<version, got, stamp, overlap, crashed, faults>>
    BY <1>9 DEF Write, Goto, Quiet, procVars, hist
  <2>2. Phase[u] = "installing" /\ Phase' = [Phase EXCEPT ![u] = "installed"]
    <3>1. Phase' = [Phase EXCEPT ![u] = PhaseOf("finish")] /\ pc[u] \in Installing \ {"finish"}
      BY <1>9, <2>1, PhaseStep DEF Installing
    <3> QED
      BY <3>1 DEF Phase
  <2>3. File' = File /\ File[u] = got[u]
    BY <1>9, <2>1, FetchedSame DEF File, Installing
  <2>4. Update!Becomes(got[u])
    <3>1. ASSUME ~Trouble' PROVE Tool' = got[u]
      <4>1. pc'[u] = "finish" /\ ~Trouble /\ ~Between(u)'
        BY <2>1, <3>1 DEF TypeOK, Trouble, Between
      <4>2. exe' = got[u]
        BY <2>1, <3>1, <4>1 DEF LoneInv, Trouble, Installing
      <4>3. \A w \in Updaters \ {u} : ~Between(w)'
        BY <1>9, <2>1, <4>1, AloneBetween DEF TypeOK, Installing
      <4> QED
        BY <3>1, <4>1, <4>2, <4>3 DEF ToolFacts
    <3> QED
      BY <3>1 DEF Update!Becomes, ToolFacts, Trouble, Update!Trouble
  <2> QED
    BY <2>1, <2>2, <2>3, <2>4 DEF Update!Install, Update!Move

\* The rest of an installation, failures included.
<1>10. ASSUME NEW u \in Updaters,
              \/ StepAside(u) \/ StepAsideFails(u) \/ Open(u) \/ CopyFails(u)
              \/ Restore(u) \/ NothingToUndo(u) \/ RemoveExe(u) \/ GoBack(u)
              \/ Write(u) /\ pc[u] = "rewrite"
       PROVE  [Update!Next]_(Update!vars)
  <2>1. PICK label \in Installing \ {"finish"} : pc' = [pc EXCEPT ![u] = label]
    BY <1>10 DEF StepAside, StepAsideFails, Open, CopyFails, Restore, NothingToUndo,
         RemoveExe, GoBack, Write, Goto, Installing
  <2>2. pc[u] \in Installing \ {"finish"}
    BY <1>10 DEF StepAside, StepAsideFails, Open, CopyFails, Restore, NothingToUndo,
         RemoveExe, GoBack, Write, Installing
  <2>3. UNCHANGED <<version, got, overlap, crashed>> /\ faults' \in {faults, faults + 1}
    BY <1>10 DEF StepAside, StepAsideFails, Open, CopyFails, Restore, NothingToUndo,
         RemoveExe, GoBack, Write, Return, ReturnFails, Fails, Quiet, procVars, hist
  <2>4. ASSUME ~Trouble' PROVE Tool' = Tool
    <3>1. ~Trouble
      BY <2>3, <2>4 DEF Trouble
    <3> QED
      BY <1>10, <2>4, <3>1, ToolUndone
  <2> QED
    BY <2>1, <2>2, <2>3, <2>4, MidstStep
<1>11. ASSUME NEW u \in Updaters, Exit(u) PROVE Update!End(u)
  <2>1. /\ pc[u] # "off" /\ pc' = [pc EXCEPT ![u] = "off"]
        /\ got' = [got EXCEPT ![u] = Absent] /\ stamp' = [stamp EXCEPT ![u] = None]
        /\ version' = [version EXCEPT ![u] = None]
        /\ UNCHANGED <<exe, bak, overlap, faults>>
        /\ crashed' = (crashed \/ pc[u] \in Installing)
    BY <1>11 DEF Exit
  <2>2. /\ Phase[u] # "off" /\ Phase' = [Phase EXCEPT ![u] = "off"]
        /\ File' = [File EXCEPT ![u] = None]
    <3>1. PhaseOf(pc[u]) # "off"
      BY <2>1 DEF PhaseOf
    <3>2. Phase' = [Phase EXCEPT ![u] = PhaseOf("off")]
      BY <2>1, PhaseStep
    <3>3. File' = [File EXCEPT ![u] = None]
      BY <2>1, FetchedStep DEF Installing
    <3> QED
      BY <3>1, <3>2, <3>3 DEF Phase
  <2>3. Update!InMidst(u) = (pc[u] \in Installing)
    BY DEF Phase, Update!InMidst, TypeOK
  <2>4. Update!Becomes(Tool)
    <3>1. ASSUME ~Trouble' PROVE Tool' = Tool
      <4>1. ~Between(u) /\ ~Between(u)' /\ ~Trouble
        BY <2>1, <3>1 DEF Between, TypeOK, Trouble, Installing
      <4> QED
        BY <2>1, <3>1, <4>1, ToolElsewhere DEF TypeOK
    <3> QED
      BY <3>1 DEF Update!Becomes, ToolFacts, Trouble, Update!Trouble
  <2> QED
    BY <2>1, <2>2, <2>3, <2>4 DEF Update!End, Update!Move
<1>12. ASSUME UNCHANGED <<pc, version, got, stamp, overlap, crashed, faults, exe>>,
              \A w \in Updaters : Between(w) => bak'[stamp[w]] = bak[stamp[w]]
                                  /\ Between(w)',
              \A w \in Updaters : Between(w)' => Between(w)
       PROVE  UNCHANGED Update!vars
  <2>1. Phase' = Phase /\ File' = File
    BY <1>12 DEF Phase, File
  <2>2. Tool' = Tool
    <3>1. Trouble' = Trouble
      BY <1>12 DEF Trouble
    <3>2. CASE \E w \in Updaters : Between(w)
      BY <1>12, <3>1, <3>2 DEF ToolFacts
    <3>3. CASE ~\E w \in Updaters : Between(w)
      BY <1>12, <3>1, <3>3 DEF ToolFacts
    <3> QED
      BY <3>2, <3>3
  <2> QED
    BY <1>12, <2>1, <2>2 DEF Update!vars
<1>13. CASE Reboot
  <2>1. \A w \in Updaters : ~Between(w)
    BY <1>13 DEF Reboot, Between
  <2>2. \A w \in Updaters : ~Between(w)'
    BY <1>13 DEF Reboot, Between
  <2> QED
    BY <1>12, <1>13, <2>1, <2>2 DEF Reboot, procVars, hist
<1>14. CASE Release
  BY <1>12, <1>14 DEF Release, fileVars, procVars, hist, Between
<1>15. CASE UNCHANGED vars
  BY <1>12, <1>15 DEF vars, fileVars, procVars, hist, Between
<1>16. ASSUME NEW u \in Updaters, Write(u) PROVE [Update!Next]_(Update!vars)
  BY <1>9, <1>10, <1>16 DEF Write, Update!Next
<1> QED
  BY <1>1, <1>3, <1>5, <1>6, <1>7, <1>8, <1>10, <1>11, <1>13, <1>14, <1>15, <1>16
     DEF Next, Obtain, Apply, Rollback, Update!Next

LEMMA UpdateInit == Init => Update!Init
<1> SUFFICES ASSUME Init PROVE Update!Init
  OBVIOUS
<1>1. Tool = 1 /\ 1 \in Versions
  BY UpgradeAssumption DEF Init, Tool, Trouble, Between, Versions
<1>2. Phase = [u \in Updaters |-> "off"]
  BY PhaseFacts DEF Init, Phase
<1>3. File = [u \in Updaters |-> None]
  BY DEF Init, File, Installing
<1> QED
  BY <1>1, <1>2, <1>3 DEF Init, Update!Init

\* An update changes the tool at one instant, from the version there was to a
\* verified one that is newer than the process that installs it, or not at all.
THEOREM UpdatesAtomicallyAlways == Spec => UpdatesAtomically
<1>1. Init => HealthInv /\ NewerInv
  BY UpgradeAssumption DEF Init, HealthInv, NewerInv, Versions, Installing
<1>2. TypeWork /\ FileInv /\ LoneInv /\ HealthInv <=> HealthBase
  BY DEF HealthBase, LoneBase
<1>3. HealthBase /\ NewerInv /\ TypeWork' /\ LoneInv' /\ HealthInv' => StepBase
  BY DEF StepBase, AtomBase
<1> QED
  BY <1>1, <1>2, <1>3, TypeAlways, LoneAlways, HealthStep, NewerStep, UpdateInit, UpdateStep,
     PTL DEF Spec, UpdatesAtomically, Update!Spec

=============================================================================
