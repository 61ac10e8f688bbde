----------------------------- MODULE BindVerify -----------------------------
(***************************************************************************)
(* Replacing the certificate of ONE HTTP.sys endpoint with netsh: capture  *)
(* the binding, delete it, add the new one, look again, and put the old    *)
(* one back if the new one is not there.  Source: src/iis/netsh.go         *)
(* (bindAndVerify and what it calls) and src/iis/netsh_state.go.           *)
(*                                                                         *)
(* The callers are the deployment run, setup and the GUI dialog.  Nothing  *)
(* but the run's own lock keeps them apart, so their tasks interleave, and *)
(* each may die between two commands.  A command may work or not whatever  *)
(* it reports.  A query is answered by httpapi in full, by netsh with the  *)
(* minimal fields, or not at all; and a netsh that ran and failed for some *)
(* other reason reads as "no binding".                                     *)
(***************************************************************************)
EXTENDS Naturals, FiniteSets

CONSTANTS
  Callers,
  Certs,
  HomeStore,   \* the store each certificate is installed in
  Params,      \* advanced SSL parameters an administrator may have set
  Writable,    \* those sslParamNetshArgs can write back
  ReadsStore,  \* the store's name is recognised in netsh's output (en, zh)
  MaxTasks,    \* bound: tasks of all callers
  MaxMisreads, \* bound: queries answered "no binding" in error
  NoBinding,
  Unknown      \* a query without an answer

Stores == {"MY", "other"}
Bindings == [cert : Certs, app : {"default", "own"}, adv : SUBSET Params, store : Stores]
Snapshots == [bind : Bindings, full : BOOLEAN]   \* capturedBinding

ASSUME BindAssumption ==
  /\ HomeStore \in [Certs -> Stores]
  /\ Writable \subseteq Params
  /\ ReadsStore \in BOOLEAN
  /\ MaxTasks \in Nat /\ MaxMisreads \in Nat
  /\ NoBinding \notin Bindings \cup Snapshots \cup Certs
  /\ Unknown \notin Snapshots \cup {NoBinding}

VARIABLES
  binding,    \* the endpoint in HTTP.sys
  pc,         \* next step of each caller's task; "idle" without one
  want,       \* certHash of the task
  old,        \* oldBinding: what the task captured
  verdict,    \* what the caller's last task returned
  \* history
  origin,     \* the binding before any task
  tasks,      \* tasks begun
  misreads,   \* queries answered "no binding" in error
  faults,     \* commands and queries of the task that failed
  warned,     \* a replacement logged that advanced parameters may be lost
  alarm,      \* a task failed or died since one was last successful
  excused     \* what no single-caller argument covers has happened:
              \* overlapping tasks, a death half-way, an answer in error,
              \* a store guessed wrong, two failures in one task

taskVars == <<want, old>>
history == <<origin, tasks, misreads, faults, warned, alarm, excused>>
vars == <<binding, pc, want, old, verdict, origin, tasks, misreads, faults,
          warned, alarm, excused>>

Phases == {"idle", "capture", "unbind", "add", "verify", "again", "drop", "readd", "check"}
Verdicts == {"none", "served", "restored", "refused", "failed"}

Init ==
  /\ binding \in {NoBinding} \cup {b \in Bindings : b.store = HomeStore[b.cert]}
  /\ origin = binding
  /\ pc = [p \in Callers |-> "idle"]
  /\ want = [p \in Callers |-> NoBinding]
  /\ old = [p \in Callers |-> NoBinding]
  /\ verdict = [p \in Callers |-> "none"]
  /\ tasks = 0 /\ misreads = 0
  /\ faults = [p \in Callers |-> 0]
  /\ warned = FALSE /\ alarm = FALSE /\ excused = FALSE

Quiet == \A p \in Callers : pc[p] = "idle"

(***************************************************************************)
(* Queries                                                                 *)
(***************************************************************************)

\* httpapi answers with every parameter.
queryFullBinding ==
  IF binding = NoBinding THEN NoBinding ELSE [bind |-> binding, full |-> TRUE]

\* netsh's output gives the hash and the AppID in any language, the store's
\* name only in a known one, and no advanced parameters.
queryBindingByNetsh ==
  IF binding = NoBinding THEN NoBinding
  ELSE [bind |-> [binding EXCEPT !.adv = {},
                                 !.store = IF ReadsStore THEN @ ELSE "MY"],
        full |-> FALSE]

\* Answers of queryBindingByKey, those in error included.
Answers ==
  {queryFullBinding, queryBindingByNetsh, Unknown}
    \cup (IF misreads < MaxMisreads THEN {NoBinding} ELSE {})

InError(ans) == ans = NoBinding /\ binding # NoBinding

\* What a query does to the history.
Asked(ans) ==
  misreads' = IF InError(ans) THEN misreads + 1 ELSE misreads

Shows(ans, c) == ans \notin {NoBinding, Unknown} /\ ans.bind.cert = c

(***************************************************************************)
(* The bindings a task adds (buildRebindArgs)                              *)
(***************************************************************************)

WriteBack(s) == IF s.full THEN s.bind.adv \cap Writable ELSE {}

\* Mutant: the new binding is not built from the captured one.
FreshBinding(p) ==
  [cert |-> want[p], app |-> "default", adv |-> {}, store |-> "MY"]

NewBinding(p) ==
  IF old[p] = NoBinding
  THEN [cert |-> want[p], app |-> "default", adv |-> {}, store |-> "MY"]
  ELSE [cert |-> want[p], app |-> old[p].bind.app, adv |-> WriteBack(old[p]), store |-> "MY"]

OldBinding(p) == [old[p].bind EXCEPT !.adv = WriteBack(old[p])]

\* netsh adds nothing over a binding, and no certificate that is not in the
\* store it is told.
CanAdd(b) == binding = NoBinding /\ HomeStore[b.cert] = b.store

Step(p, from, to) == pc[p] = from /\ pc' = [pc EXCEPT ![p] = to]

Failures(p, failed) == IF failed THEN faults[p] + 1 ELSE faults[p]

\* bad is an excuse by itself.
Excuse(p, failed, bad) ==
  excused' = (excused \/ bad \/ Failures(p, failed) >= 2)

Count(p, failed, bad) ==
  /\ faults' = [faults EXCEPT ![p] = Failures(p, failed)]
  /\ Excuse(p, failed, bad)

\* The variables of a task go with it.
Leave(p) ==
  /\ pc' = [pc EXCEPT ![p] = "idle"]
  /\ want' = [want EXCEPT ![p] = NoBinding]
  /\ old' = [old EXCEPT ![p] = NoBinding]
  /\ faults' = [faults EXCEPT ![p] = 0]

End(p, v) ==
  /\ Leave(p)
  /\ verdict' = [verdict EXCEPT ![p] = v]
  /\ alarm' = CASE v \in {"served", "restored"} -> FALSE
                [] v = "failed" -> TRUE
                [] OTHER -> alarm

(***************************************************************************)
(* bindAndVerify, one action per command or query                          *)
(***************************************************************************)

Begin(p, c) ==
  /\ tasks < MaxTasks
  /\ HomeStore[c] = "MY"
  /\ Step(p, "idle", "capture")
  /\ want' = [want EXCEPT ![p] = c]
  /\ verdict' = [verdict EXCEPT ![p] = "none"]
  /\ tasks' = tasks + 1
  /\ excused' = (excused \/ ~Quiet)
  /\ UNCHANGED <<binding, old, origin, misreads, faults, warned, alarm>>

\* The endpoint's state cannot be told: nothing is touched.
CaptureUnknown(p) ==
  /\ pc[p] = "capture"
  /\ End(p, "refused")
  /\ UNCHANGED <<binding, origin, tasks, misreads, warned, excused>>

GuessedStore(ans) == ans # NoBinding /\ ans.bind.store # binding.store

Capture(p) ==
  /\ Step(p, "capture", "unbind")
  /\ \E ans \in Answers \ {Unknown} :
       /\ old' = [old EXCEPT ![p] = ans]
       /\ warned' = (warned \/ (ans # NoBinding /\ ~ans.full))
       /\ Asked(ans)
       /\ Count(p, FALSE, InError(ans) \/ GuessedStore(ans))
  /\ UNCHANGED <<binding, want, verdict, origin, tasks, alarm>>

\* What the delete command reports is ignored.
Unbind(p) ==
  /\ Step(p, "unbind", "add")
  /\ \E done \in BOOLEAN :
       /\ binding' = IF done THEN NoBinding ELSE binding
       /\ Count(p, ~done /\ binding # NoBinding, FALSE)
  /\ UNCHANGED <<taskVars, verdict, origin, tasks, misreads, warned, alarm>>

\* So is what the add command reports.
Add(p) ==
  /\ Step(p, "add", "verify")
  /\ \E done \in BOOLEAN :
       /\ done => CanAdd(NewBinding(p))
       /\ binding' = IF done THEN NewBinding(p) ELSE binding
       /\ Count(p, ~done /\ CanAdd(NewBinding(p)), FALSE)
  /\ UNCHANGED <<taskVars, verdict, origin, tasks, misreads, warned, alarm>>

\* Mutant: a binding whose state cannot be told is taken for the new one.
ServedOrUnknown(p) ==
  /\ pc[p] \in {"verify", "again"}
  /\ \E ans \in Answers : ans = Unknown \/ Shows(ans, want[p])
  /\ End(p, "served")
  /\ UNCHANGED <<binding, origin, tasks, misreads, warned, excused>>

\* The new binding is there, at the first look or at the second.
Served(p) ==
  /\ pc[p] \in {"verify", "again"}
  /\ \E ans \in Answers : Shows(ans, want[p])
  /\ End(p, "served")
  /\ UNCHANGED <<binding, origin, tasks, misreads, warned, excused>>

\* It is not, or the query failed: once more after bindVerifyRetryDelay.
Verify(p) ==
  /\ Step(p, "verify", "again")
  /\ \E ans \in Answers :
       /\ ~Shows(ans, want[p])
       /\ Asked(ans)
       /\ Count(p, FALSE, InError(ans))
  /\ UNCHANGED <<binding, taskVars, verdict, origin, tasks, warned, alarm>>

\* Nobody knows what the endpoint serves: a rollback might delete the new binding.
StateUnknown(p) ==
  /\ pc[p] = "again"
  /\ Excuse(p, TRUE, FALSE)
  /\ End(p, "failed")
  /\ UNCHANGED <<binding, origin, tasks, misreads, warned>>

\* Mutant: a captured binding is not put back.
GivesUp(p) ==
  /\ pc[p] = "again"
  /\ \E ans \in Answers \ {Unknown} :
       /\ ~Shows(ans, want[p])
       /\ Asked(ans)
       /\ Excuse(p, FALSE, InError(ans))
  /\ End(p, "failed")
  /\ UNCHANGED <<binding, origin, tasks, warned>>

\* The new binding is not there and none was captured.
NothingToRestore(p) ==
  /\ pc[p] = "again"
  /\ old[p] = NoBinding
  /\ \E ans \in Answers \ {Unknown} :
       /\ ~Shows(ans, want[p])
       /\ Asked(ans)
       /\ Excuse(p, FALSE, InError(ans))
  /\ End(p, "failed")
  /\ UNCHANGED <<binding, origin, tasks, warned>>

\* The old certificate never went away.
StillThere(p) ==
  /\ pc[p] = "again"
  /\ old[p] # NoBinding
  /\ \E ans \in Answers : ~Shows(ans, want[p]) /\ Shows(ans, old[p].bind.cert)
  /\ End(p, "restored")
  /\ UNCHANGED <<binding, origin, tasks, misreads, warned, excused>>

\* A third certificate is there, or none: the old one is put back.
Rollback(p) ==
  /\ old[p] # NoBinding
  /\ \E ans \in Answers \ {Unknown} :
       /\ ~Shows(ans, want[p]) /\ ~Shows(ans, old[p].bind.cert)
       /\ Step(p, "again", IF ans = NoBinding THEN "readd" ELSE "drop")
       /\ Asked(ans)
       /\ Count(p, FALSE, InError(ans))
  /\ UNCHANGED <<binding, taskVars, verdict, origin, tasks, warned, alarm>>

DropCurrent(p) ==
  /\ Step(p, "drop", "readd")
  /\ \E done \in BOOLEAN :
       /\ binding' = IF done THEN NoBinding ELSE binding
       /\ Count(p, ~done /\ binding # NoBinding, FALSE)
  /\ UNCHANGED <<taskVars, verdict, origin, tasks, misreads, warned, alarm>>

\* deleteCurrent reports an error, whether or not it worked: nothing is added.
DropFails(p) ==
  /\ pc[p] = "drop"
  /\ \E done \in BOOLEAN : binding' = IF done THEN NoBinding ELSE binding
  /\ Excuse(p, TRUE, FALSE)
  /\ End(p, "failed")
  /\ UNCHANGED <<origin, tasks, misreads, warned>>

ReAdd(p) ==
  /\ Step(p, "readd", "check")
  /\ \E done \in BOOLEAN :
       /\ done => CanAdd(OldBinding(p))
       /\ binding' = IF done THEN OldBinding(p) ELSE binding
       /\ Count(p, ~done /\ CanAdd(OldBinding(p)), FALSE)
  /\ UNCHANGED <<taskVars, verdict, origin, tasks, misreads, warned, alarm>>

\* Mutant: the old binding is taken to be back once it was added.
RestoredUnseen(p) ==
  /\ pc[p] = "check"
  /\ End(p, "restored")
  /\ UNCHANGED <<binding, origin, tasks, misreads, warned, excused>>

\* Only a look at the endpoint tells whether the old binding is back.
Restored(p) ==
  /\ pc[p] = "check"
  /\ \E ans \in Answers : Shows(ans, old[p].bind.cert)
  /\ End(p, "restored")
  /\ UNCHANGED <<binding, origin, tasks, misreads, warned, excused>>

NotRestored(p) ==
  /\ pc[p] = "check"
  /\ \E ans \in Answers :
       /\ ~Shows(ans, old[p].bind.cert)
       /\ Asked(ans)
       /\ Excuse(p, ans = Unknown, InError(ans))
  /\ End(p, "failed")
  /\ UNCHANGED <<binding, origin, tasks, warned>>

\* The process dies between two commands; nothing of the task is persisted.
Crash(p) ==
  /\ pc[p] # "idle"
  /\ Leave(p)
  /\ alarm' = TRUE
  /\ excused' = (excused \/ pc[p] # "capture")
  /\ UNCHANGED <<binding, verdict, origin, tasks, misreads, warned>>

Task(p) ==
  \/ \E c \in Certs : Begin(p, c)
  \/ CaptureUnknown(p) \/ Capture(p)
  \/ Unbind(p) \/ Add(p)
  \/ Served(p) \/ Verify(p)
  \/ StateUnknown(p) \/ NothingToRestore(p) \/ StillThere(p) \/ Rollback(p)
  \/ DropCurrent(p) \/ DropFails(p) \/ ReAdd(p)
  \/ Restored(p) \/ NotRestored(p)
  \/ Crash(p)

Next == \E p \in Callers : Task(p)

Spec == Init /\ [][Next]_vars

(***************************************************************************)
(* Properties                                                              *)
(***************************************************************************)

\* Every variable has its type; the task that goes on knows what it found,
\* and one that restores found something.
TypeOK ==
  /\ binding \in Bindings \cup {NoBinding}
  /\ origin \in Bindings \cup {NoBinding}
  /\ pc \in [Callers -> Phases]
  /\ want \in [Callers -> Certs \cup {NoBinding}]
  /\ old \in [Callers -> Snapshots \cup {NoBinding}]
  /\ \A p \in Callers : pc[p] \in {"drop", "readd", "check"} => old[p] # NoBinding
  /\ verdict \in [Callers -> Verdicts]
  /\ tasks \in Nat /\ misreads \in Nat
  /\ faults \in [Callers -> Nat]
  /\ warned \in BOOLEAN /\ alarm \in BOOLEAN /\ excused \in BOOLEAN

\* One failure never takes a site down: with no task under way, an endpoint
\* that had a binding has one, unless tasks overlapped, one died half-way, an
\* answer was in error, netsh's output hid the store, or two commands or
\* queries of one task failed.
SurvivesOneFault ==
  Quiet /\ origin # NoBinding /\ binding = NoBinding => excused

\* Replacing certificates again and again keeps the AppID of the endpoint, and
\* its advanced parameters as far as netsh can write them, unless a minimal
\* capture logged the warning (bindAndVerify, lines 229-238).
SettingsKept ==
  origin # NoBinding /\ binding # NoBinding /\ ~excused =>
    /\ binding.app = origin.app
    /\ warned \/ origin.adv \cap Writable \subseteq binding.adv

\* Whatever fails, overlaps or answers in error, a site is never lost
\* silently: if the endpoint has no binding and no task is under way, a task
\* failed or died after the last one that reported a binding in place.
LossReported ==
  Quiet /\ origin # NoBinding /\ binding = NoBinding => alarm

\* The endpoint and the tasks as BindingSpec sees them.
Serving == IF binding = NoBinding THEN NoBinding ELSE binding.cert

PhaseOf(step) ==
  CASE step = "idle" -> "idle"
    [] step = "capture" -> "looking"
    [] OTHER -> "changing"

Phase == [p \in Callers |-> PhaseOf(pc[p])]

CertOf(snapshot) == IF snapshot = NoBinding THEN NoBinding ELSE snapshot.bind.cert

Found == [p \in Callers |-> CertOf(old[p])]

Promise == INSTANCE BindingSpec WITH
  serving <- Serving, phase <- Phase, found <- Found, told <- verdict

\* A task's answer is true of the endpoint when it is given, whatever other
\* callers do meanwhile; a task that refused has touched nothing, and no task
\* binds anything but the certificate it was given or the one it found
\* (bindAndVerify, lines 219-275).
KeepsPromise == Promise!Spec

=============================================================================
