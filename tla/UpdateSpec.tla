----------------------------- MODULE UpdateSpec -----------------------------
(***************************************************************************)
(* What an update of the tool promises: it happens at one instant or not   *)
(* at all.  Whoever starts the tool, while an update is under way or       *)
(* after it, runs the version there was or the one that was checked, and   *)
(* an update that fails has changed nothing.  The promise ends when two    *)
(* updates meet, a process is killed in the middle of one, or more         *)
(* operations fail than there are ways of undoing.                         *)
(***************************************************************************)
EXTENDS Integers

CONSTANTS Updaters, Versions, None, Unknown

VARIABLES
  tool,     \* the version of the tool; Unknown when nothing is promised
  phase,    \* "off", "idle", "ready", "installing" or "installed"
  version,  \* version a process runs
  file,     \* version it is going to install
  overlap, crashed, faults

vars == <<tool, phase, version, file, overlap, crashed, faults>>

\* An update that cannot be installed is undone in three ways.
Trouble == overlap \/ crashed \/ faults > 3

Becomes(v) == tool' = IF Trouble' THEN Unknown ELSE v

InMidst(u) == phase[u] \in {"installing", "installed"}

Init ==
  /\ tool \in Versions
  /\ phase = [u \in Updaters |-> "off"]
  /\ version = [u \in Updaters |-> None] /\ file = [u \in Updaters |-> None]
  /\ overlap = FALSE /\ crashed = FALSE /\ faults = 0

Move(u, step) == phase' = [phase EXCEPT ![u] = step]

Start(u) ==
  /\ phase[u] = "off" /\ Move(u, "idle")
  /\ \E v \in IF tool = Unknown THEN Versions ELSE {tool} :
       version' = [version EXCEPT ![u] = v]
  /\ UNCHANGED <<tool, file, overlap, crashed, faults>>

\* Only a version newer than the one that runs is fetched, and kept if it is
\* what it should be.
Fetch(u) ==
  /\ phase[u] = "idle" /\ Move(u, "ready")
  /\ \E v \in Versions : v > version[u] /\ file' = [file EXCEPT ![u] = v]
  /\ UNCHANGED <<tool, version, overlap, crashed, faults>>

Begin(u) ==
  /\ phase[u] = "ready" /\ Move(u, "installing")
  /\ overlap' = (overlap \/ \E w \in Updaters : InMidst(w))
  /\ Becomes(tool)
  /\ UNCHANGED <<version, file, crashed, faults>>

Install(u) ==
  /\ phase[u] = "installing" /\ Move(u, "installed")
  /\ Becomes(file[u])
  /\ UNCHANGED <<version, file, overlap, crashed, faults>>

Fault(u) ==
  /\ phase[u] = "installing" /\ faults' = faults + 1
  /\ Becomes(tool)
  /\ UNCHANGED <<phase, version, file, overlap, crashed>>

\* An update is over, or given up before it began.  It succeeds if it was installed.
Leave(u) ==
  /\ phase[u] \in {"ready", "installing", "installed"} /\ Move(u, "idle")
  /\ file' = [file EXCEPT ![u] = None]
  /\ UNCHANGED <<tool, version, overlap, crashed, faults>>

End(u) ==
  /\ phase[u] # "off" /\ Move(u, "off")
  /\ version' = [version EXCEPT ![u] = None] /\ file' = [file EXCEPT ![u] = None]
  /\ crashed' = (crashed \/ InMidst(u))
  /\ Becomes(tool)
  /\ UNCHANGED <<overlap, faults>>

Next ==
  \E u \in Updaters :
    Start(u) \/ Fetch(u) \/ Begin(u) \/ Install(u) \/ Fault(u) \/ Leave(u) \/ End(u)

Spec == Init /\ [][Next]_vars

=============================================================================
