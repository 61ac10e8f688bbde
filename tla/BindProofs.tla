----------------------------- MODULE BindProofs -----------------------------
(***************************************************************************)
(* Theorems about BindVerify, for every set of callers, certificates and   *)
(* parameters and every bound.                                             *)
(***************************************************************************)
EXTENDS BindVerify, TLAPS

Changing == Phases \ {"idle", "capture"}

\* A task under way knows the certificate it is to bind, and that certificate
\* is in MY.
WantInv ==
  \A p \in Callers : pc[p] # "idle" => want[p] \in Certs /\ HomeStore[want[p]] = "MY"

TypeInv == TypeOK /\ WantInv

\* A binding is missing only while a task that has deleted it is under way, or
\* after one that raised the alarm.
LossInv ==
  origin # NoBinding /\ binding = NoBinding =>
    alarm \/ \E p \in Callers : pc[p] \in Changing \ {"unbind"}

\* No binding names a store its certificate is not in.
StoreInv == binding # NoBinding => HomeStore[binding.cert] = binding.store

Alone == \A p, q \in Callers : pc[p] # "idle" /\ pc[q] # "idle" => p = q

\* What each step of a task that runs alone and meets at most one failure finds.
StepInv(p) ==
  /\ pc[p] \in {"idle", "capture", "unbind"} => faults[p] = 0
  /\ pc[p] \in {"capture", "unbind"} => binding # NoBinding
  /\ pc[p] \in Changing =>
       old[p] # NoBinding /\ HomeStore[old[p].bind.cert] = old[p].bind.store
  /\ pc[p] = "unbind" => binding.cert = old[p].bind.cert
  /\ pc[p] = "add" =>
       IF binding = NoBinding THEN faults[p] = 0
       ELSE faults[p] = 1 /\ binding.cert = old[p].bind.cert
  /\ pc[p] \in {"verify", "again"} =>
       IF binding = NoBinding THEN faults[p] = 1
       ELSE binding.cert \in {want[p], old[p].bind.cert}
  /\ pc[p] # "drop"
  /\ pc[p] = "readd" => binding = NoBinding /\ faults[p] = 1
  /\ pc[p] = "check" => binding # NoBinding

SoloInv ==
  ~excused /\ origin # NoBinding =>
    /\ Alone
    /\ \A p \in Callers : StepInv(p)
    /\ Quiet => binding # NoBinding

\* The settings of the endpoint are kept, in the binding and in the snapshots.
KeptIn(b) ==
  b.app = origin.app /\ (warned \/ origin.adv \cap Writable \subseteq b.adv)

SettingsInv ==
  ~excused /\ origin # NoBinding =>
    /\ binding # NoBinding => KeptIn(binding)
    /\ \A p \in Callers : old[p] # NoBinding =>
         KeptIn(old[p].bind) /\ (warned \/ old[p].full)

-----------------------------------------------------------------------------
(***************************************************************************)
(* Queries and the bindings a task adds                                    *)
(***************************************************************************)

\* A query that finds a binding finds the one that is there, with its AppID,
\* and unless it went through netsh with everything else.
LEMMA AnswerFacts ==
  ASSUME TypeOK, NEW ans \in Answers, ans # Unknown
  PROVE  /\ ans \in Snapshots \cup {NoBinding}
         /\ ans # NoBinding =>
              /\ ans \in Snapshots /\ binding \in Bindings
              /\ binding # NoBinding
              /\ ans.bind.cert = binding.cert
              /\ ans.bind.app = binding.app
              /\ ans.full => ans.bind = binding
<1>1. CASE ans = NoBinding
  BY <1>1
<1>2. CASE ans # NoBinding
  <2>1. binding # NoBinding /\ binding \in Bindings
    BY <1>2 DEF Answers, queryFullBinding, queryBindingByNetsh, TypeOK
  <2>2. CASE ans = queryFullBinding
    <3>1. ans = [bind |-> binding, full |-> TRUE]
      BY <2>1, <2>2 DEF queryFullBinding
    <3> QED BY <2>1, <3>1 DEF Snapshots
  <2>3. CASE ans = queryBindingByNetsh
    <3> DEFINE seen == [binding EXCEPT !.adv = {},
                                       !.store = IF ReadsStore THEN @ ELSE "MY"]
    <3>1. ans = [bind |-> seen, full |-> FALSE]
      BY <2>1, <2>3 DEF queryBindingByNetsh
    <3>2. seen \in Bindings /\ seen.cert = binding.cert /\ seen.app = binding.app
      BY <2>1 DEF Bindings, Stores
    <3> HIDE DEF seen
    <3> QED BY <2>1, <3>1, <3>2 DEF Snapshots
  <2> QED BY <1>2, <2>2, <2>3 DEF Answers
<1> QED BY <1>1, <1>2

\* What a task adds is a binding, of the certificate wanted or found, with the
\* AppID captured.
LEMMA NewBindingFacts ==
  ASSUME TypeInv, NEW p \in Callers, pc[p] # "idle"
  PROVE  /\ NewBinding(p) \in Bindings
         /\ NewBinding(p).cert = want[p]
         /\ NewBinding(p).store = "MY"
<1>1. want[p] \in Certs /\ old[p] \in Snapshots \cup {NoBinding}
  BY DEF TypeInv, TypeOK, WantInv
<1>2. CASE old[p] = NoBinding
  BY <1>1, <1>2 DEF NewBinding, Bindings, Stores
<1>3. CASE old[p] # NoBinding
  <2>1. old[p] \in Snapshots /\ old[p].bind.app \in {"default", "own"}
    BY <1>1, <1>3 DEF Snapshots, Bindings
  <2>2. WriteBack(old[p]) \in SUBSET Params
    BY <2>1 DEF WriteBack, Snapshots, Bindings
  <2> QED BY <1>1, <1>3, <2>1, <2>2 DEF NewBinding, Bindings, Stores
<1> QED BY <1>2, <1>3

LEMMA OldBindingFacts ==
  ASSUME TypeOK, NEW p \in Callers, old[p] # NoBinding
  PROVE  /\ OldBinding(p) \in Bindings
         /\ OldBinding(p).cert = old[p].bind.cert
         /\ OldBinding(p).app = old[p].bind.app
         /\ OldBinding(p).store = old[p].bind.store
         /\ OldBinding(p).adv = WriteBack(old[p])
<1>1. old[p] \in Snapshots /\ old[p].bind \in Bindings
  BY DEF TypeOK, Snapshots
<1>2. WriteBack(old[p]) \in SUBSET Params
  BY <1>1 DEF WriteBack, Bindings
<1> QED BY <1>1, <1>2 DEF OldBinding, Bindings

\* NoBinding is no binding.
LEMMA BindingsAreBindings == NoBinding \notin Bindings /\ NoBinding \notin Certs
BY BindAssumption

-----------------------------------------------------------------------------
(***************************************************************************)
(* Types                                                                   *)
(***************************************************************************)

LEMMA TypeInit == Init => TypeInv
<1> SUFFICES ASSUME Init PROVE TypeInv
  OBVIOUS
<1>1. binding \in Bindings \cup {NoBinding} /\ origin = binding
  BY DEF Init
<1>2. WantInv
  BY DEF Init, WantInv
<1>3. /\ want \in [Callers -> Certs \cup {NoBinding}]
      /\ old \in [Callers -> Snapshots \cup {NoBinding}]
  BY DEF Init
<1>4. /\ pc \in [Callers -> Phases] /\ verdict \in [Callers -> Verdicts]
      /\ faults \in [Callers -> Nat]
      /\ \A p \in Callers : pc[p] = "idle"
  BY DEF Init, Phases, Verdicts
<1> QED BY <1>1, <1>2, <1>3, <1>4 DEF Init, TypeInv, TypeOK

LEMMA EndFacts ==
  ASSUME TypeInv, NEW p \in Callers, Leave(p)
  PROVE  /\ pc' \in [Callers -> Phases] /\ pc'[p] = "idle"
         /\ \A q \in Callers \ {p} : pc'[q] = pc[q] /\ want'[q] = want[q] /\ old'[q] = old[q]
         /\ want' \in [Callers -> Certs \cup {NoBinding}]
         /\ old' \in [Callers -> Snapshots \cup {NoBinding}]
         /\ faults' \in [Callers -> Nat]
         /\ WantInv'
BY DEF Leave, TypeInv, TypeOK, WantInv, Phases

LEMMA TypeStep == TypeInv /\ [Next]_vars => TypeInv'
<1> SUFFICES ASSUME TypeInv, [Next]_vars PROVE TypeInv'
  OBVIOUS
<1> USE BindingsAreBindings
<1>1. ASSUME NEW p \in Callers, NEW c \in Certs, Begin(p, c) PROVE TypeInv'
  BY <1>1 DEF TypeInv, TypeOK, WantInv, Begin, Step, Phases, Verdicts, Quiet
<1>2. ASSUME NEW p \in Callers, CaptureUnknown(p) PROVE TypeInv'
  <2>1. Leave(p)
    BY <1>2 DEF CaptureUnknown, End
  <2> QED BY <1>2, <2>1, EndFacts
        DEF CaptureUnknown, End, TypeInv, TypeOK, Verdicts, Asked, Excuse
<1>3. ASSUME NEW p \in Callers, Capture(p) PROVE TypeInv'
  <2>1. PICK ans \in Answers \ {Unknown} :
          /\ old' = [old EXCEPT ![p] = ans]
          /\ warned' = (warned \/ (ans # NoBinding /\ ~ans.full))
          /\ Asked(ans)
          /\ Count(p, FALSE, InError(ans) \/ GuessedStore(ans))
    BY <1>3 DEF Capture
  <2>2. ans \in Snapshots \cup {NoBinding}
    BY AnswerFacts DEF TypeInv
  <2>3. warned' \in BOOLEAN
    BY <2>1, <2>2 DEF TypeInv, TypeOK, Snapshots
  <2> QED BY <1>3, <2>1, <2>2, <2>3
        DEF Capture, TypeInv, TypeOK, WantInv, Step, Phases, Asked, Count, Failures, Excuse
<1>4. ASSUME NEW p \in Callers, Unbind(p) PROVE TypeInv'
  BY <1>4 DEF Unbind, TypeInv, TypeOK, WantInv, Step, Phases, Asked, Count, Failures,
    Excuse, taskVars
<1>5. ASSUME NEW p \in Callers, Add(p) PROVE TypeInv'
  <2>1. NewBinding(p) \in Bindings
    BY <1>5, NewBindingFacts DEF Add, Step
  <2> QED BY <1>5, <2>1
        DEF Add, TypeInv, TypeOK, WantInv, Step, Phases, Count, Failures, Excuse, taskVars
<1>6. ASSUME NEW p \in Callers, Served(p) PROVE TypeInv'
  <2>1. Leave(p)
    BY <1>6 DEF Served, End
  <2> QED BY <1>6, <2>1, EndFacts
        DEF Served, End, TypeInv, TypeOK, Verdicts, Asked, Excuse
<1>7. ASSUME NEW p \in Callers, Verify(p) PROVE TypeInv'
  BY <1>7 DEF Verify, TypeInv, TypeOK, WantInv, Step, Phases, Asked, Count, Failures,
    Excuse, taskVars
<1>8. ASSUME NEW p \in Callers, StateUnknown(p) PROVE TypeInv'
  <2>1. Leave(p)
    BY <1>8 DEF StateUnknown, End
  <2> QED BY <1>8, <2>1, EndFacts
        DEF StateUnknown, End, TypeInv, TypeOK, Verdicts, Asked, Excuse
<1>9. ASSUME NEW p \in Callers, NothingToRestore(p) PROVE TypeInv'
  <2>1. Leave(p)
    BY <1>9 DEF NothingToRestore, End
  <2> QED BY <1>9, <2>1, EndFacts
        DEF NothingToRestore, End, TypeInv, TypeOK, Verdicts, Asked, Excuse
<1>10. ASSUME NEW p \in Callers, StillThere(p) PROVE TypeInv'
  <2>1. Leave(p)
    BY <1>10 DEF StillThere, End
  <2> QED BY <1>10, <2>1, EndFacts
        DEF StillThere, End, TypeInv, TypeOK, Verdicts, Asked, Excuse
<1>11. ASSUME NEW p \in Callers, Rollback(p) PROVE TypeInv'
  BY <1>11 DEF Rollback, TypeInv, TypeOK, WantInv, Step, Phases, Asked, Count, Failures,
    Excuse, taskVars
<1>12. ASSUME NEW p \in Callers, DropCurrent(p) PROVE TypeInv'
  BY <1>12 DEF DropCurrent, TypeInv, TypeOK, WantInv, Step, Phases, Asked, Count,
     Failures,
    Excuse, taskVars
<1>13. ASSUME NEW p \in Callers, DropFails(p) PROVE TypeInv'
  <2>1. Leave(p)
    BY <1>13 DEF DropFails, End
  <2> QED BY <1>13, <2>1, EndFacts
        DEF DropFails, End, TypeInv, TypeOK, Verdicts, Asked, Excuse
<1>14. ASSUME NEW p \in Callers, ReAdd(p) PROVE TypeInv'
  <2>1. OldBinding(p) \in Bindings
    BY <1>14, OldBindingFacts DEF ReAdd, Step, TypeInv, TypeOK
  <2> QED BY <1>14, <2>1
        DEF ReAdd, TypeInv, TypeOK, WantInv, Step, Phases, Count, Failures, Excuse, taskVars
<1>15. ASSUME NEW p \in Callers, Restored(p) PROVE TypeInv'
  <2>1. Leave(p)
    BY <1>15 DEF Restored, End
  <2> QED BY <1>15, <2>1, EndFacts
        DEF Restored, End, TypeInv, TypeOK, Verdicts, Asked, Excuse
<1>16. ASSUME NEW p \in Callers, NotRestored(p) PROVE TypeInv'
  <2>1. Leave(p)
    BY <1>16 DEF NotRestored, End
  <2> QED BY <1>16, <2>1, EndFacts
        DEF NotRestored, End, TypeInv, TypeOK, Verdicts, Asked, Excuse
<1>17. ASSUME NEW p \in Callers, Crash(p) PROVE TypeInv'
  <2>1. Leave(p)
    BY <1>17 DEF Crash, End
  <2> QED BY <1>17, <2>1, EndFacts
        DEF Crash, End, TypeInv, TypeOK, Verdicts, Asked, Excuse
<1>18. CASE UNCHANGED vars
  BY <1>18 DEF vars, TypeInv, TypeOK, WantInv
<1> QED BY <1>1, <1>2, <1>3, <1>4, <1>5, <1>6, <1>7, <1>8, <1>9, <1>10, <1>11, <1>12,
           <1>13, <1>14, <1>15, <1>16, <1>17, <1>18 DEF Next, Task

\* Every variable has its type; the task that goes on knows what it found, and
\* one that restores found something.
THEOREM TypeCorrect == Spec => []TypeOK
<1>1. TypeInv => TypeOK
  BY DEF TypeInv
<1> QED BY <1>1, TypeInit, TypeStep, PTL DEF Spec

-----------------------------------------------------------------------------
(***************************************************************************)
(* No loss is silent                                                       *)
(***************************************************************************)

LEMMA LossStep == TypeInv /\ LossInv /\ [Next]_vars => LossInv'
<1> SUFFICES ASSUME TypeInv, LossInv, [Next]_vars, (origin # NoBinding)', (binding = NoBinding)'
             PROVE  alarm' \/ \E p \in Callers : pc'[p] \in Changing \ {"unbind"}
  BY DEF LossInv
<1> USE BindingsAreBindings DEF Changing, Phases
<1>0. pc \in [Callers -> Phases]
  BY DEF TypeInv, TypeOK
<1>1. ASSUME NEW p \in Callers, NEW c \in Certs, Begin(p, c)
      PROVE  alarm' \/ \E q \in Callers : pc'[q] \in Changing \ {"unbind"}
  BY <1>0, <1>1 DEF LossInv, Begin, Step
<1>2. ASSUME NEW p \in Callers, CaptureUnknown(p)
      PROVE  alarm' \/ \E q \in Callers : pc'[q] \in Changing \ {"unbind"}
  BY <1>0, <1>2 DEF LossInv, CaptureUnknown, End, Leave
<1>3. ASSUME NEW p \in Callers, Capture(p)
      PROVE  alarm' \/ \E q \in Callers : pc'[q] \in Changing \ {"unbind"}
  BY <1>0, <1>3 DEF LossInv, Capture, Step
<1>4. ASSUME NEW p \in Callers, Unbind(p)
      PROVE  alarm' \/ \E q \in Callers : pc'[q] \in Changing \ {"unbind"}
  BY <1>0, <1>4 DEF LossInv, Unbind, Step
<1>5. ASSUME NEW p \in Callers, Add(p)
      PROVE  alarm' \/ \E q \in Callers : pc'[q] \in Changing \ {"unbind"}
  BY <1>0, <1>5 DEF LossInv, Add, Step
<1>6. ASSUME NEW p \in Callers, Served(p)
      PROVE  alarm' \/ \E q \in Callers : pc'[q] \in Changing \ {"unbind"}
  <2>1. binding' # NoBinding
    BY <1>6, AnswerFacts DEF Served, Shows, TypeInv, TypeOK
  <2> QED BY <2>1
<1>7. ASSUME NEW p \in Callers, Verify(p)
      PROVE  alarm' \/ \E q \in Callers : pc'[q] \in Changing \ {"unbind"}
  BY <1>0, <1>7 DEF LossInv, Verify, Step
<1>8. ASSUME NEW p \in Callers, StateUnknown(p)
      PROVE  alarm' \/ \E q \in Callers : pc'[q] \in Changing \ {"unbind"}
  BY <1>8 DEF StateUnknown, End
<1>9. ASSUME NEW p \in Callers, NothingToRestore(p)
      PROVE  alarm' \/ \E q \in Callers : pc'[q] \in Changing \ {"unbind"}
  BY <1>9 DEF NothingToRestore, End
<1>10. ASSUME NEW p \in Callers, StillThere(p)
      PROVE  alarm' \/ \E q \in Callers : pc'[q] \in Changing \ {"unbind"}
  <2>1. binding' # NoBinding
    BY <1>10, AnswerFacts DEF StillThere, Shows, TypeInv, TypeOK
  <2> QED BY <2>1
<1>11. ASSUME NEW p \in Callers, Rollback(p)
      PROVE  alarm' \/ \E q \in Callers : pc'[q] \in Changing \ {"unbind"}
  BY <1>0, <1>11 DEF LossInv, Rollback, Step
<1>12. ASSUME NEW p \in Callers, DropCurrent(p)
      PROVE  alarm' \/ \E q \in Callers : pc'[q] \in Changing \ {"unbind"}
  BY <1>0, <1>12 DEF LossInv, DropCurrent, Step
<1>13. ASSUME NEW p \in Callers, DropFails(p)
      PROVE  alarm' \/ \E q \in Callers : pc'[q] \in Changing \ {"unbind"}
  BY <1>13 DEF DropFails, End
<1>14. ASSUME NEW p \in Callers, ReAdd(p)
      PROVE  alarm' \/ \E q \in Callers : pc'[q] \in Changing \ {"unbind"}
  BY <1>0, <1>14 DEF LossInv, ReAdd, Step
<1>15. ASSUME NEW p \in Callers, Restored(p)
      PROVE  alarm' \/ \E q \in Callers : pc'[q] \in Changing \ {"unbind"}
  <2>1. binding' # NoBinding
    BY <1>15, AnswerFacts DEF Restored, Shows, TypeInv, TypeOK
  <2> QED BY <2>1
<1>16. ASSUME NEW p \in Callers, NotRestored(p)
      PROVE  alarm' \/ \E q \in Callers : pc'[q] \in Changing \ {"unbind"}
  BY <1>16 DEF NotRestored, End
<1>17. ASSUME NEW p \in Callers, Crash(p)
      PROVE  alarm' \/ \E q \in Callers : pc'[q] \in Changing \ {"unbind"}
  BY <1>17 DEF Crash
<1>18. CASE UNCHANGED vars
  BY <1>18 DEF LossInv, vars
<1> QED BY <1>1, <1>2, <1>3, <1>4, <1>5, <1>6, <1>7, <1>8, <1>9, <1>10, <1>11, <1>12,
           <1>13, <1>14, <1>15, <1>16, <1>17, <1>18 DEF Next, Task

\* Whatever fails, overlaps or answers in error, a site is never lost silently.
THEOREM LossReportedAlways == Spec => []LossReported
<1>1. Init => LossInv
  BY DEF Init, LossInv
<1>2. LossInv => LossReported
  BY DEF LossInv, LossReported, Quiet, Changing
<1> QED BY <1>1, <1>2, TypeInit, TypeStep, LossStep, PTL DEF Spec

-----------------------------------------------------------------------------
(***************************************************************************)
(* One failure takes no site down                                          *)
(***************************************************************************)

\* A step of p leaves the other callers' tasks alone, excuses stay, and a task
\* that begins beside another is an excuse.
LEMMA Frame ==
  ASSUME TypeInv, NEW p \in Callers, Task(p)
  PROVE  /\ \A q \in Callers \ {p} : pc'[q] = pc[q] /\ faults'[q] = faults[q] /\ old'[q] = old[q]
         /\ excused => excused'
         /\ origin' = origin
         /\ warned => warned'
         /\ pc[p] = "idle" => excused' \/ Quiet
<1> DEFINE Goal ==
      /\ \A q \in Callers \ {p} : pc'[q] = pc[q] /\ faults'[q] = faults[q] /\ old'[q] = old[q]
      /\ excused => excused'
      /\ origin' = origin
      /\ warned => warned'
      /\ pc[p] = "idle" => excused' \/ Quiet
<1> SUFFICES Goal
  OBVIOUS
<1>0. /\ pc \in [Callers -> Phases] /\ faults \in [Callers -> Nat]
      /\ old \in [Callers -> Snapshots \cup {NoBinding}]
  BY DEF TypeInv, TypeOK
<1>1. ASSUME NEW c \in Certs, Begin(p, c) PROVE Goal
  BY <1>0, <1>1 DEF Begin, Step
<1>2. CASE CaptureUnknown(p)
  BY <1>0, <1>2 DEF CaptureUnknown, End, Leave
<1>3. CASE Capture(p)
  BY <1>0, <1>3 DEF Capture, Step, taskVars, Count, Excuse
<1>4. CASE Unbind(p)
  BY <1>0, <1>4 DEF Unbind, Step, taskVars, Count, Excuse
<1>5. CASE Add(p)
  BY <1>0, <1>5 DEF Add, Step, taskVars, Count, Excuse
<1>6. CASE Served(p)
  BY <1>0, <1>6 DEF Served, End, Leave
<1>7. CASE Verify(p)
  BY <1>0, <1>7 DEF Verify, Step, taskVars, Count, Excuse
<1>8. CASE StateUnknown(p)
  BY <1>0, <1>8 DEF StateUnknown, End, Leave, Excuse
<1>9. CASE NothingToRestore(p)
  BY <1>0, <1>9 DEF NothingToRestore, End, Leave, Excuse
<1>10. CASE StillThere(p)
  BY <1>0, <1>10 DEF StillThere, End, Leave
<1>11. CASE Rollback(p)
  BY <1>0, <1>11 DEF Rollback, Step, taskVars, Count, Excuse
<1>12. CASE DropCurrent(p)
  BY <1>0, <1>12 DEF DropCurrent, Step, taskVars, Count, Excuse
<1>13. CASE DropFails(p)
  BY <1>0, <1>13 DEF DropFails, End, Leave, Excuse
<1>14. CASE ReAdd(p)
  BY <1>0, <1>14 DEF ReAdd, Step, taskVars, Count, Excuse
<1>15. CASE Restored(p)
  BY <1>0, <1>15 DEF Restored, End, Leave
<1>16. CASE NotRestored(p)
  BY <1>0, <1>16 DEF NotRestored, End, Leave, Excuse
<1>17. CASE Crash(p)
  BY <1>0, <1>17 DEF Crash, Leave
<1> QED BY <1>1, <1>2, <1>3, <1>4, <1>5, <1>6, <1>7, <1>8, <1>9, <1>10, <1>11, <1>12,
           <1>13, <1>14, <1>15, <1>16, <1>17 DEF Task

LEMMA StoreStep == TypeInv /\ StoreInv /\ [Next]_vars => StoreInv'
<1> SUFFICES ASSUME TypeInv, StoreInv, [Next]_vars PROVE StoreInv'
  OBVIOUS
<1>1. CASE binding' \in {binding, NoBinding}
  BY <1>1 DEF StoreInv
<1>2. CASE binding' \notin {binding, NoBinding}
  <2>1. PICK p \in Callers : Task(p)
    BY <1>2 DEF Next, vars
  <2>2. Add(p) \/ ReAdd(p)
    BY <1>2, <2>1 DEF Task, Begin, CaptureUnknown, Capture, Unbind, Served, Verify,
       StateUnknown, NothingToRestore, StillThere, Rollback, DropCurrent, DropFails,
       Restored, NotRestored, Crash
  <2>3. \E b : CanAdd(b) /\ binding' = b
    BY <1>2, <2>2 DEF Add, ReAdd
  <2> QED BY <2>3 DEF CanAdd, StoreInv
<1> QED BY <1>1, <1>2

\* It is enough to look at the task that takes the step.
LEMMA SoloStep == TypeInv /\ StoreInv /\ SoloInv /\ [Next]_vars => SoloInv'
<1> SUFFICES ASSUME TypeInv, StoreInv, SoloInv, [Next]_vars PROVE SoloInv'
  OBVIOUS
<1>1. CASE UNCHANGED vars
  BY <1>1 DEF vars, SoloInv, Alone, Quiet, StepInv
<1>2. ASSUME NEW p \in Callers, Task(p), ~excused', origin' # NoBinding
      PROVE  Alone' /\ (\A q \in Callers : StepInv(q)') /\ (Quiet => binding # NoBinding)'
  <2> USE DEF Changing, Phases
  <2>0. /\ ~excused /\ origin # NoBinding
        /\ \A q \in Callers \ {p} : pc[q] = "idle" /\ faults[q] = 0
        /\ \A q \in Callers \ {p} : pc'[q] = "idle" /\ faults'[q] = 0
        /\ StepInv(p)
        /\ pc[p] = "idle" => binding # NoBinding
    <3>1. ~excused /\ origin # NoBinding
      BY <1>2, Frame
    <3>2. StepInv(p) /\ \A q \in Callers : pc[q] = "idle" => faults[q] = 0
      BY <3>1 DEF SoloInv, StepInv
    <3>3. pc[p] = "idle" => Quiet /\ binding # NoBinding
      BY <1>2, <3>1, Frame DEF SoloInv
    <3>4. \A q \in Callers \ {p} : pc[q] = "idle"
      BY <3>1, <3>3 DEF SoloInv, Alone, Quiet
    <3> QED BY <1>2, <3>1, <3>2, <3>3, <3>4, Frame
  <2>1. SUFFICES StepInv(p)' /\ (pc'[p] = "idle" => binding' # NoBinding)
    BY <2>0 DEF Alone, Quiet, StepInv
  <2>2. /\ pc \in [Callers -> Phases] /\ faults \in [Callers -> Nat]
        /\ old \in [Callers -> Snapshots \cup {NoBinding}]
        /\ want \in [Callers -> Certs \cup {NoBinding}]
    BY DEF TypeInv, TypeOK
  <2>3. ASSUME NEW c \in Certs, Begin(p, c)
        PROVE  StepInv(p)' /\ (pc'[p] = "idle" => binding' # NoBinding)
    BY <2>0, <2>2, <2>3 DEF Begin, Step, StepInv
  <2>4. ASSUME CaptureUnknown(p)
        PROVE  StepInv(p)' /\ (pc'[p] = "idle" => binding' # NoBinding)
    <3>1. pc'[p] = "idle" /\ faults'[p] = 0
      BY <2>2, <2>4 DEF CaptureUnknown, End, Leave
    <3>2. binding' # NoBinding
      BY <2>0, <2>4 DEF CaptureUnknown, StepInv
    <3> QED BY <3>1, <3>2 DEF StepInv
  <2>5. ASSUME Capture(p)
        PROVE  StepInv(p)' /\ (pc'[p] = "idle" => binding' # NoBinding)
    <3>1. PICK ans \in Answers \ {Unknown} :
            /\ old' = [old EXCEPT ![p] = ans]
            /\ Count(p, FALSE, InError(ans) \/ GuessedStore(ans))
      BY <2>5 DEF Capture
    <3>2. pc[p] = "capture" /\ pc'[p] = "unbind" /\ binding' = binding /\ binding # NoBinding
      BY <2>0, <2>2, <2>5 DEF Capture, Step, StepInv
    <3>3. faults'[p] = 0
      BY <2>0, <2>2, <3>1, <3>2 DEF Count, Failures, StepInv
    <3>4. ans # NoBinding /\ ans.bind.store = binding.store
      BY <1>2, <3>1, <3>2 DEF Count, Excuse, InError, GuessedStore
    <3>5. ans.bind.cert = binding.cert
      BY <3>4, AnswerFacts DEF TypeInv
    <3>6. /\ old'[p] # NoBinding /\ binding.cert = old'[p].bind.cert
          /\ HomeStore[old'[p].bind.cert] = old'[p].bind.store
      BY <2>2, <3>1, <3>2, <3>4, <3>5 DEF StoreInv
    <3> QED BY <3>2, <3>3, <3>6 DEF StepInv
  <2>6. ASSUME Unbind(p)
        PROVE  StepInv(p)' /\ (pc'[p] = "idle" => binding' # NoBinding)
    <3>1. pc[p] = "unbind" /\ pc'[p] = "add" /\ old' = old
      BY <2>2, <2>6 DEF Unbind, Step, taskVars
    <3>2. PICK done \in BOOLEAN :
            /\ binding' = IF done THEN NoBinding ELSE binding
            /\ Count(p, ~done /\ binding # NoBinding, FALSE)
      BY <2>6 DEF Unbind
    <3>3. faults'[p] = IF done THEN 0 ELSE 1
      BY <2>0, <2>2, <3>1, <3>2 DEF StepInv, Count, Failures
    <3> QED BY <2>0, <3>1, <3>2, <3>3 DEF StepInv
  <2>7. ASSUME Add(p)
        PROVE  StepInv(p)' /\ (pc'[p] = "idle" => binding' # NoBinding)
    <3>1. pc[p] = "add" /\ pc'[p] = "verify" /\ old' = old /\ want' = want
      BY <2>2, <2>7 DEF Add, Step, taskVars
    <3>2. NewBinding(p).cert = want[p] /\ NewBinding(p).store = "MY" /\ NewBinding(p) # NoBinding
          /\ HomeStore[want[p]] = "MY"
      BY <3>1, NewBindingFacts, BindingsAreBindings DEF TypeInv, WantInv
    <3>3. PICK done \in BOOLEAN :
            /\ done => CanAdd(NewBinding(p))
            /\ binding' = IF done THEN NewBinding(p) ELSE binding
            /\ Count(p, ~done /\ CanAdd(NewBinding(p)), FALSE)
      BY <2>7 DEF Add
    <3>4. binding = NoBinding /\ ~done => faults'[p] = 1
      BY <2>0, <2>2, <3>1, <3>2, <3>3 DEF StepInv, CanAdd, Count, Failures
    <3>5. binding' # NoBinding => binding'.cert \in {want'[p], old'[p].bind.cert}
      BY <2>0, <3>1, <3>2, <3>3 DEF StepInv
    <3> QED BY <2>0, <3>1, <3>2, <3>3, <3>4, <3>5 DEF StepInv
  <2>8. ASSUME Served(p)
        PROVE  StepInv(p)' /\ (pc'[p] = "idle" => binding' # NoBinding)
    <3>1. pc'[p] = "idle" /\ faults'[p] = 0
      BY <2>2, <2>8 DEF Served, End, Leave
    <3>2. binding' # NoBinding
      BY <2>8, AnswerFacts DEF Served, Shows, TypeInv
    <3> QED BY <3>1, <3>2 DEF StepInv
  <2>9. ASSUME Verify(p)
        PROVE  StepInv(p)' /\ (pc'[p] = "idle" => binding' # NoBinding)
    <3>1. pc[p] = "verify" /\ pc'[p] = "again" /\ old' = old /\ want' = want /\ binding' = binding
      BY <2>2, <2>9 DEF Verify, Step, taskVars
    <3>2. faults'[p] = faults[p]
      BY <2>2, <2>9 DEF Verify, Count, Failures
    <3> QED BY <2>0, <3>1, <3>2 DEF StepInv
  <2>10. ASSUME StateUnknown(p)
        PROVE  StepInv(p)' /\ (pc'[p] = "idle" => binding' # NoBinding)
    <3>1. pc'[p] = "idle" /\ faults'[p] = 0
      BY <2>2, <2>10 DEF StateUnknown, End, Leave
    <3>2. binding' # NoBinding
      <4>1. pc[p] = "again" /\ binding' = binding /\ ~(Failures(p, TRUE) >= 2)
        BY <1>2, <2>2, <2>10 DEF StateUnknown, Excuse, Failures
      <4>2. faults[p] # 1
        BY <4>1 DEF Failures
      <4> QED BY <2>0, <4>1, <4>2 DEF StepInv
    <3> QED BY <3>1, <3>2 DEF StepInv
  <2>11. ASSUME NothingToRestore(p)
        PROVE  StepInv(p)' /\ (pc'[p] = "idle" => binding' # NoBinding)
    <3>1. pc'[p] = "idle" /\ faults'[p] = 0
      BY <2>2, <2>11 DEF NothingToRestore, End, Leave
    <3>2. binding' # NoBinding
      BY <2>0, <2>11 DEF NothingToRestore, StepInv
    <3> QED BY <3>1, <3>2 DEF StepInv
  <2>12. ASSUME StillThere(p)
        PROVE  StepInv(p)' /\ (pc'[p] = "idle" => binding' # NoBinding)
    <3>1. pc'[p] = "idle" /\ faults'[p] = 0
      BY <2>2, <2>12 DEF StillThere, End, Leave
    <3>2. binding' # NoBinding
      BY <2>12, AnswerFacts DEF StillThere, Shows, TypeInv
    <3> QED BY <3>1, <3>2 DEF StepInv
  <2>13. ASSUME Rollback(p)
        PROVE  StepInv(p)' /\ (pc'[p] = "idle" => binding' # NoBinding)
    <3>1. PICK ans \in Answers \ {Unknown} :
            /\ ~Shows(ans, want[p]) /\ ~Shows(ans, old[p].bind.cert)
            /\ Step(p, "again", IF ans = NoBinding THEN "readd" ELSE "drop")
            /\ Count(p, FALSE, InError(ans))
      BY <2>13 DEF Rollback
    <3>2. pc[p] = "again" /\ old' = old /\ binding' = binding
      BY <3>1, <2>13 DEF Rollback, Step, taskVars
    <3>3. ans = NoBinding
      BY <2>0, <3>1, <3>2, AnswerFacts DEF Shows, StepInv, TypeInv
    <3>4. binding = NoBinding
      BY <1>2, <3>1, <3>3 DEF Count, Excuse, InError
    <3>5. pc'[p] = "readd" /\ faults'[p] = faults[p]
      BY <2>2, <3>1, <3>3 DEF Step, Count, Failures
    <3> QED BY <2>0, <3>2, <3>4, <3>5 DEF StepInv
  <2>14. ASSUME DropCurrent(p)
        PROVE  StepInv(p)' /\ (pc'[p] = "idle" => binding' # NoBinding)
    BY <2>0, <2>14 DEF DropCurrent, Step, StepInv
  <2>15. ASSUME DropFails(p)
        PROVE  StepInv(p)' /\ (pc'[p] = "idle" => binding' # NoBinding)
    <3>1. pc'[p] = "idle" /\ faults'[p] = 0
      BY <2>2, <2>15 DEF DropFails, End, Leave
    <3>2. binding' # NoBinding
      BY <2>0, <2>15 DEF DropFails, StepInv
    <3> QED BY <3>1, <3>2 DEF StepInv
  <2>16. ASSUME ReAdd(p)
        PROVE  StepInv(p)' /\ (pc'[p] = "idle" => binding' # NoBinding)
    <3>1. pc[p] = "readd" /\ pc'[p] = "check" /\ old' = old
      BY <2>2, <2>16 DEF ReAdd, Step, taskVars
    <3>2. CanAdd(OldBinding(p)) /\ OldBinding(p) # NoBinding
      BY <2>0, <3>1, OldBindingFacts, BindingsAreBindings DEF StepInv, CanAdd, TypeInv
    <3>3. PICK done \in BOOLEAN :
            /\ binding' = IF done THEN OldBinding(p) ELSE binding
            /\ Count(p, ~done /\ CanAdd(OldBinding(p)), FALSE)
      BY <2>16 DEF ReAdd
    <3>4. done
      <4>1. ~done => ~(Failures(p, TRUE) >= 2)
        BY <1>2, <3>2, <3>3 DEF Count, Excuse, Failures
      <4>2. Failures(p, TRUE) >= 2
        BY <2>0, <3>1 DEF StepInv, Failures
      <4> QED BY <4>1, <4>2
    <3> QED BY <2>0, <3>1, <3>2, <3>3, <3>4 DEF StepInv
  <2>17. ASSUME Restored(p)
        PROVE  StepInv(p)' /\ (pc'[p] = "idle" => binding' # NoBinding)
    <3>1. pc'[p] = "idle" /\ faults'[p] = 0
      BY <2>2, <2>17 DEF Restored, End, Leave
    <3>2. binding' # NoBinding
      BY <2>17, AnswerFacts DEF Restored, Shows, TypeInv
    <3> QED BY <3>1, <3>2 DEF StepInv
  <2>18. ASSUME NotRestored(p)
        PROVE  StepInv(p)' /\ (pc'[p] = "idle" => binding' # NoBinding)
    <3>1. pc'[p] = "idle" /\ faults'[p] = 0
      BY <2>2, <2>18 DEF NotRestored, End, Leave
    <3>2. binding' # NoBinding
      BY <2>0, <2>18 DEF NotRestored, StepInv
    <3> QED BY <3>1, <3>2 DEF StepInv
  <2>19. ASSUME Crash(p)
        PROVE  StepInv(p)' /\ (pc'[p] = "idle" => binding' # NoBinding)
    <3>1. pc'[p] = "idle" /\ faults'[p] = 0
      BY <2>2, <2>19 DEF Crash, Leave
    <3>2. binding' # NoBinding
      BY <1>2, <2>0, <2>2, <2>19 DEF Crash, StepInv
    <3> QED BY <3>1, <3>2 DEF StepInv
  <2> QED BY <1>2, <2>3, <2>4, <2>5, <2>6, <2>7, <2>8, <2>9, <2>10, <2>11, <2>12,
             <2>13, <2>14, <2>15, <2>16, <2>17, <2>18, <2>19 DEF Task
<1>3. CASE Next
  BY <1>2, <1>3 DEF Next, SoloInv
<1> QED BY <1>1, <1>3

\* With no task under way, an endpoint that had a binding has one, unless one
\* of the excuses has happened.
THEOREM SurvivesOneFaultAlways == Spec => []SurvivesOneFault
<1>1. Init => StoreInv /\ SoloInv
  BY DEF Init, StoreInv, SoloInv, Alone, StepInv, Changing, Phases
<1>2. SoloInv => SurvivesOneFault
  BY DEF SoloInv, SurvivesOneFault
<1> QED BY <1>1, <1>2, TypeInit, TypeStep, StoreStep, SoloStep, PTL DEF Spec

-----------------------------------------------------------------------------
(***************************************************************************)
(* Settings are kept or the warning is logged                              *)
(***************************************************************************)

\* Only Capture takes a snapshot, and only Add and ReAdd make a binding.
LEMMA Kept ==
  ASSUME TypeInv, NEW p \in Callers, Task(p), ~Capture(p), ~Add(p), ~ReAdd(p)
  PROVE  /\ binding' \in {binding, NoBinding}
         /\ \A q \in Callers : old'[q] \in {old[q], NoBinding}
<1>0. old \in [Callers -> Snapshots \cup {NoBinding}]
  BY DEF TypeInv, TypeOK
<1> DEFINE Goal == /\ binding' \in {binding, NoBinding}
                   /\ \A q \in Callers : old'[q] \in {old[q], NoBinding}
<1>1. ASSUME NEW c \in Certs, Begin(p, c) PROVE Goal
  BY <1>1 DEF Begin
<1>2. CASE CaptureUnknown(p)
  BY <1>0, <1>2 DEF CaptureUnknown, End, Leave
<1>3. CASE Unbind(p)
  BY <1>0, <1>3 DEF Unbind, taskVars
<1>4. CASE Served(p)
  BY <1>0, <1>4 DEF Served, End, Leave
<1>5. CASE Verify(p)
  BY <1>0, <1>5 DEF Verify, taskVars
<1>6. CASE StateUnknown(p)
  BY <1>0, <1>6 DEF StateUnknown, End, Leave
<1>7. CASE NothingToRestore(p)
  BY <1>0, <1>7 DEF NothingToRestore, End, Leave
<1>8. CASE StillThere(p)
  BY <1>0, <1>8 DEF StillThere, End, Leave
<1>9. CASE Rollback(p)
  BY <1>0, <1>9 DEF Rollback, taskVars
<1>10. CASE DropCurrent(p)
  BY <1>0, <1>10 DEF DropCurrent, taskVars
<1>11. CASE DropFails(p)
  BY <1>0, <1>11 DEF DropFails, End, Leave
<1>12. CASE Restored(p)
  BY <1>0, <1>12 DEF Restored, End, Leave
<1>13. CASE NotRestored(p)
  BY <1>0, <1>13 DEF NotRestored, End, Leave
<1>14. CASE Crash(p)
  BY <1>0, <1>14 DEF Crash, Leave
<1> QED BY <1>1, <1>2, <1>3, <1>4, <1>5, <1>6, <1>7, <1>8, <1>9, <1>10, <1>11, <1>12,
           <1>13, <1>14 DEF Task

LEMMA SettingsStep ==
  TypeInv /\ SoloInv /\ SettingsInv /\ [Next]_vars => SettingsInv'
<1> SUFFICES ASSUME TypeInv, SoloInv, SettingsInv, [Next]_vars PROVE SettingsInv'
  OBVIOUS
<1>1. CASE UNCHANGED vars
  BY <1>1 DEF vars, SettingsInv, KeptIn
<1>2. ASSUME NEW p \in Callers, Task(p), ~excused', origin' # NoBinding
      PROVE  /\ binding' # NoBinding => KeptIn(binding)'
             /\ \A q \in Callers : old'[q] # NoBinding =>
                  KeptIn(old[q].bind)' /\ (warned' \/ old'[q].full)
  <2>1. /\ ~excused /\ origin # NoBinding /\ origin' = origin /\ (warned => warned')
        /\ \A q \in Callers \ {p} : old'[q] = old[q]
    BY <1>2, Frame
  <2>2. \A b : KeptIn(b) => b.app = origin'.app
                            /\ (warned' \/ origin'.adv \cap Writable \subseteq b.adv)
    BY <2>1 DEF KeptIn
  <2>3. /\ binding # NoBinding => KeptIn(binding)
        /\ \A q \in Callers : old[q] # NoBinding =>
             KeptIn(old[q].bind) /\ (warned \/ old[q].full)
    BY <2>1 DEF SettingsInv
  <2>4. old \in [Callers -> Snapshots \cup {NoBinding}]
    BY DEF TypeInv, TypeOK
  <2>5. ASSUME binding' \in {binding, NoBinding},
               \A q \in Callers : old'[q] \in {old[q], NoBinding}
        PROVE  /\ binding' # NoBinding => KeptIn(binding)'
               /\ \A q \in Callers : old'[q] # NoBinding =>
                    KeptIn(old[q].bind)' /\ (warned' \/ old'[q].full)
    <3>1. ASSUME binding' # NoBinding PROVE KeptIn(binding)'
      <4>1. binding' = binding
        BY <2>5, <3>1
      <4> QED BY <2>2, <2>3, <3>1, <4>1 DEF KeptIn
    <3>2. ASSUME NEW q \in Callers, old'[q] # NoBinding
          PROVE  KeptIn(old[q].bind)' /\ (warned' \/ old'[q].full)
      <4>1. old'[q] = old[q]
        BY <2>5, <3>2
      <4> QED BY <2>1, <2>2, <2>3, <3>2, <4>1 DEF KeptIn
    <3> QED BY <3>1, <3>2
  \* A binding built from a snapshot keeps what the snapshot has.
  <2>6. ASSUME NEW b, old[p] # NoBinding, old' = old,
               b.app = old[p].bind.app, b.adv = WriteBack(old[p]),
               binding' \in {binding, b}
        PROVE  /\ binding' # NoBinding => KeptIn(binding)'
               /\ \A q \in Callers : old'[q] # NoBinding =>
                    KeptIn(old[q].bind)' /\ (warned' \/ old'[q].full)
    <3>1. KeptIn(b)
      BY <2>3, <2>6 DEF KeptIn, WriteBack
    <3>2. binding' # NoBinding => KeptIn(binding)'
      BY <2>2, <2>3, <2>6, <3>1 DEF KeptIn
    <3>3. ASSUME NEW q \in Callers, old'[q] # NoBinding
          PROVE  KeptIn(old[q].bind)' /\ (warned' \/ old'[q].full)
      BY <2>1, <2>2, <2>3, <2>6, <3>3 DEF KeptIn
    <3> QED BY <3>2, <3>3
  <2>7. CASE Capture(p)
    <3>1. PICK ans \in Answers \ {Unknown} :
            /\ old' = [old EXCEPT ![p] = ans]
            /\ warned' = (warned \/ (ans # NoBinding /\ ~ans.full))
      BY <2>7 DEF Capture
    <3>2. binding' = binding
      BY <2>7 DEF Capture
    <3>3. old'[p] = ans
      BY <2>4, <3>1
    <3>4. binding' # NoBinding => KeptIn(binding)'
      BY <2>2, <2>3, <3>2 DEF KeptIn
    <3>5. ASSUME ans # NoBinding PROVE KeptIn(old[p].bind)' /\ (warned' \/ ans.full)
      <4>1. /\ binding # NoBinding /\ ans.bind.app = binding.app
            /\ ans.full => ans.bind = binding
        BY <3>5, AnswerFacts DEF TypeInv
      <4>2. warned' \/ ans.full
        BY <3>1, <3>5
      <4> QED BY <2>2, <2>3, <3>3, <4>1, <4>2 DEF KeptIn
    <3>6. ASSUME NEW q \in Callers, q # p, old'[q] # NoBinding
          PROVE  KeptIn(old[q].bind)' /\ (warned' \/ old'[q].full)
      BY <2>1, <2>2, <2>3, <3>6 DEF KeptIn
    <3> QED BY <3>3, <3>4, <3>5, <3>6
  <2>8. CASE Add(p)
    <3>1. old[p] # NoBinding /\ old' = old /\ binding' \in {binding, NewBinding(p)}
      BY <2>1, <2>8 DEF Add, Step, taskVars, SoloInv, StepInv, Changing, Phases
    <3>2. NewBinding(p).app = old[p].bind.app /\ NewBinding(p).adv = WriteBack(old[p])
      BY <3>1 DEF NewBinding
    <3> QED BY <2>6, <3>1, <3>2
  <2>9. CASE ReAdd(p)
    <3>1. old[p] # NoBinding /\ old' = old /\ binding' \in {binding, OldBinding(p)}
      BY <2>1, <2>9 DEF ReAdd, Step, taskVars, SoloInv, StepInv, Changing, Phases
    <3> QED BY <2>6, <3>1, OldBindingFacts DEF TypeInv
  <2> QED BY <1>2, <2>5, <2>7, <2>8, <2>9, Kept
<1>3. CASE Next
  BY <1>2, <1>3 DEF Next, SettingsInv
<1> QED BY <1>1, <1>3

\* Replacing certificates again and again keeps the AppID of the endpoint, and
\* its writable parameters unless the warning was logged.
THEOREM SettingsKeptAlways == Spec => []SettingsKept
<1>1. Init => StoreInv /\ SoloInv /\ SettingsInv
  BY DEF Init, StoreInv, SoloInv, Alone, StepInv, Changing, Phases, SettingsInv, KeptIn
<1>2. SettingsInv => SettingsKept
  BY DEF SettingsInv, KeptIn, SettingsKept
<1> QED BY <1>1, <1>2, TypeInit, TypeStep, StoreStep, SoloStep, SettingsStep,
           PTL DEF Spec

-----------------------------------------------------------------------------
(***************************************************************************)
(* BindVerify implements BindingSpec                                       *)
(***************************************************************************)

LEMMA PhaseStep ==
  ASSUME TypeInv, NEW p \in Callers, NEW step, pc' = [pc EXCEPT ![p] = step]
  PROVE  Phase' = [Phase EXCEPT ![p] = PhaseOf(step)]
BY DEF Phase, TypeInv, TypeOK

LEMMA FoundStep ==
  ASSUME TypeInv, NEW p \in Callers, NEW s, old' = [old EXCEPT ![p] = s]
  PROVE  Found' = [Found EXCEPT ![p] = CertOf(s)]
BY DEF Found, TypeInv, TypeOK

\* The end of a task, and its death.
LEMMA LeaveStep ==
  ASSUME TypeInv, NEW p \in Callers, Leave(p) PROVE Promise!Leave(p)
<1>1. Phase' = [Phase EXCEPT ![p] = "idle"]
  BY PhaseStep DEF Leave, PhaseOf
<1>2. Found' = [Found EXCEPT ![p] = NoBinding]
  BY FoundStep DEF Leave, CertOf
<1> QED BY <1>1, <1>2 DEF Leave, Promise!Leave

\* A query that shows a certificate shows the one that is served.
LEMMA ShowsServing ==
  ASSUME TypeInv, NEW c, NEW ans \in Answers, Shows(ans, c)
  PROVE  Serving = c /\ binding # NoBinding
BY AnswerFacts DEF Shows, Serving, TypeInv

LEMMA PromiseInit == Init => Promise!Init
<1> SUFFICES ASSUME Init PROVE Promise!Init
  OBVIOUS
<1>1. Serving \in Certs \cup {NoBinding}
  BY DEF Init, Serving, Bindings
<1>2. Phase = [p \in Callers |-> "idle"]
  BY DEF Init, Phase, PhaseOf
<1>3. Found = [p \in Callers |-> NoBinding]
  BY DEF Init, Found, CertOf
<1> QED BY <1>1, <1>2, <1>3 DEF Init, Promise!Init, Promise!OptCerts

LEMMA PromiseStep == TypeInv /\ [Next]_vars => [Promise!Next]_(Promise!vars)
<1> SUFFICES ASSUME TypeInv, [Next]_vars, ~UNCHANGED Promise!vars PROVE Promise!Next
  OBVIOUS
<1>0. Next
  <2> SUFFICES ASSUME UNCHANGED vars PROVE UNCHANGED Promise!vars
    OBVIOUS
  <2> QED BY DEF vars, Promise!vars, Serving, Phase, Found
<1>1. PICK p \in Callers : Task(p)
  BY <1>0 DEF Next
<1>2. ASSUME NEW c \in Certs, Begin(p, c) PROVE Promise!Begin(p, c)
  <2>1. Phase' = [Phase EXCEPT ![p] = "looking"]
    BY <1>2, PhaseStep DEF Begin, Step, PhaseOf
  <2>2. Phase[p] = "idle" /\ Serving' = Serving /\ Found' = Found
    BY <1>2 DEF Begin, Step, Phase, PhaseOf, Serving, Found
  <2> QED BY <1>2, <2>1, <2>2 DEF Begin, Promise!Begin
<1>3. CASE CaptureUnknown(p)
  <2>1. Phase[p] = "looking" /\ Serving' = Serving
    BY <1>3 DEF CaptureUnknown, Phase, PhaseOf, Serving
  <2> QED BY <1>3, <2>1, LeaveStep DEF CaptureUnknown, End, Promise!Finish, Promise!Next
<1>4. CASE Capture(p)
  <2>1. PICK ans \in Answers \ {Unknown} : old' = [old EXCEPT ![p] = ans]
    BY <1>4 DEF Capture
  <2>2. CertOf(ans) \in {Serving, NoBinding}
    BY <2>1, AnswerFacts DEF CertOf, Serving, TypeInv
  <2>3. Phase[p] = "looking" /\ Serving' = Serving
    BY <1>4 DEF Capture, Step, Phase, PhaseOf, Serving
  <2>5. PhaseOf("unbind") = "changing"
    BY DEF PhaseOf
  <2>6. pc' = [pc EXCEPT ![p] = "unbind"]
    BY <1>4 DEF Capture, Step
  <2>7. Phase' = [Phase EXCEPT ![p] = "changing"]
    BY <2>5, <2>6, PhaseStep
  <2>4. Found' = [Found EXCEPT ![p] = CertOf(ans)]
    BY <2>1, FoundStep
  <2> QED BY <1>4, <2>2, <2>3, <2>4, <2>7 DEF Capture, Promise!Commit, Promise!Next

\* A command or a query inside a task is a change of the endpoint or nothing.
<1>5. ASSUME pc[p] \in Changing, NEW step \in Changing, pc' = [pc EXCEPT ![p] = step],
             old' = old, want' = want, verdict' = verdict,
             Serving' \in {Serving, NoBinding, want[p], Found[p]}
      PROVE  Promise!Next
  <2>1. Phase[p] = "changing" /\ Phase' = [Phase EXCEPT ![p] = "changing"]
    BY <1>5, PhaseStep DEF Phase, PhaseOf, Changing, Phases
  <2>2. Phase' = Phase /\ Found' = Found
    BY <1>5, <2>1 DEF Phase, Found
  <2>3. Serving' # Serving
    BY <1>5, <2>2 DEF Promise!vars
  <2> QED BY <1>5, <2>1, <2>2, <2>3 DEF Promise!Change, Promise!Next
<1>6. CASE Unbind(p)
  BY <1>5, <1>6 DEF Unbind, Step, taskVars, Serving, Changing, Phases
<1>7. CASE Add(p)
  <2>1. NewBinding(p) # NoBinding /\ NewBinding(p).cert = want[p]
    BY <1>7, NewBindingFacts, BindingsAreBindings DEF Add, Step
  <2> QED BY <1>5, <1>7, <2>1 DEF Add, Step, taskVars, Serving, Changing, Phases
<1>8. CASE Verify(p)
  BY <1>5, <1>8 DEF Verify, Step, taskVars, Serving, Changing, Phases
<1>9. CASE Rollback(p)
  <2>1. PICK step \in Changing : Step(p, "again", step)
    BY <1>9 DEF Rollback, Changing, Phases
  <2> QED BY <1>5, <1>9, <2>1 DEF Rollback, Step, taskVars, Serving, Changing, Phases
<1>10. CASE DropCurrent(p)
  BY <1>5, <1>10 DEF DropCurrent, Step, taskVars, Serving, Changing, Phases
<1>11. CASE ReAdd(p)
  <2>1. old[p] # NoBinding
    BY <1>11 DEF ReAdd, Step, TypeInv, TypeOK
  <2>2. OldBinding(p) # NoBinding /\ OldBinding(p).cert = Found[p]
    BY <2>1, OldBindingFacts, BindingsAreBindings DEF TypeInv, Found, CertOf
  <2> QED BY <1>5, <1>11, <2>2 DEF ReAdd, Step, taskVars, Serving, Changing, Phases

<1>12. ASSUME pc[p] \in Changing PROVE Phase[p] = "changing"
  BY <1>12 DEF Phase, PhaseOf, Changing, Phases
<1>13. CASE Served(p)
  <2>1. Serving = want[p] /\ Phase[p] = "changing" /\ Serving' = Serving
    BY <1>12, <1>13, ShowsServing DEF Served, Serving, Changing, Phases
  <2> QED BY <1>13, <2>1, LeaveStep DEF Served, End, Promise!Finish, Promise!Next
<1>14. CASE StillThere(p) \/ Restored(p)
  <2>1. /\ pc[p] \in {"again", "check"} /\ old[p] # NoBinding /\ Serving' = Serving
        /\ End(p, "restored")
    BY <1>14 DEF StillThere, Restored, Serving, TypeInv, TypeOK
  <2>2. Serving = Found[p] /\ Serving # NoBinding
    <3>1. PICK ans \in Answers : Shows(ans, old[p].bind.cert)
      BY <1>14 DEF StillThere, Restored
    <3>2. Serving = old[p].bind.cert
      BY <3>1, ShowsServing
    <3>3. old[p].bind.cert \in Certs
      BY <2>1 DEF TypeInv, TypeOK, Snapshots, Bindings
    <3> QED BY <2>1, <3>2, <3>3, BindingsAreBindings DEF Found, CertOf
  <2>3. Phase[p] = "changing"
    BY <1>12, <2>1 DEF Changing, Phases
  <2> QED BY <2>1, <2>2, <2>3, LeaveStep DEF End, Promise!Finish, Promise!Next
<1>15. CASE StateUnknown(p) \/ NothingToRestore(p) \/ DropFails(p) \/ NotRestored(p)
  <2>1. /\ pc[p] \in {"again", "drop", "check"} /\ End(p, "failed")
        /\ Serving' \in {Serving, NoBinding}
    BY <1>15 DEF StateUnknown, NothingToRestore, DropFails, NotRestored, Serving
  <2>2. Phase[p] = "changing"
    BY <1>12, <2>1 DEF Changing, Phases
  <2> QED BY <2>1, <2>2, LeaveStep DEF End, Promise!Finish, Promise!Next
<1>16. CASE Crash(p)
  <2>1. Phase[p] # "idle" /\ Serving' = Serving
    BY <1>16 DEF Crash, Phase, PhaseOf, Serving
  <2> QED BY <1>16, <2>1, LeaveStep DEF Crash, Promise!Die, Promise!Next
<1> QED BY <1>1, <1>2, <1>3, <1>4, <1>6, <1>7, <1>8, <1>9, <1>10, <1>11, <1>13, <1>14,
           <1>15, <1>16 DEF Task, Promise!Next

\* A task's answer is true of the endpoint when it is given, whatever other
\* callers do meanwhile, and a task that refused has touched nothing.
THEOREM PromiseKept == Spec => KeepsPromise
BY TypeInit, TypeStep, PromiseInit, PromiseStep, PTL DEF Spec, KeepsPromise,
   Promise!Spec

=============================================================================
