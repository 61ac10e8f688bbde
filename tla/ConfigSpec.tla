----------------------------- MODULE ConfigSpec -----------------------------
(***************************************************************************)
(* What config.json promises to the processes that share it: a register.   *)
(* Whoever saves replaces the whole document at one instant by the one he  *)
(* holds, or changes nothing; what he holds is what was there when he      *)
(* loaded, with his own changes.  It does not promise that nobody has      *)
(* saved since.  Nothing is promised any more when a save without the      *)
(* lock, of an editor or of an older document, meets another.              *)
(***************************************************************************)
EXTENDS Integers

CONSTANTS Runs, Dialogs, Setups, Docs, Nothing, Unknown

Actors == Runs \cup Dialogs \cup Setups

VARIABLES
  config,  \* the document; Unknown when nothing is promised
  held     \* the document each actor works on

vars == <<config, held>>

Init == config \in Docs /\ held = [a \in Actors |-> Nothing]

Holds(a, d) == held' = [held EXCEPT ![a] = d] /\ UNCHANGED config

Load(a) == held[a] = Nothing /\ Holds(a, config)

Open(a) == held[a] \in Docs /\ held[a].entry = "open"

\* Only an open entry is acted for, and only runs do it; they may close it.
Act(r) ==
  /\ Open(r)
  /\ \/ Holds(r, [held[r] EXCEPT !.done = @ + 1])
     \/ Holds(r, [held[r] EXCEPT !.entry = "closed"])

Remove(d) == held[d] \in Docs /\ Holds(d, [entry |-> "absent", done |-> 0])

Add(s) ==
  /\ held[s] \in Docs /\ held[s].entry = "absent"
  /\ Holds(s, [held[s] EXCEPT !.entry = "open"])

\* Who has saved may go on with it: a dialog, and whoever loads an older document.
Save(a) ==
  /\ held[a] \in Docs /\ config' = held[a]
  /\ held' \in {held, [held EXCEPT ![a] = Nothing]}

\* Given up, not saved, or lost with the process.
Forget(S) ==
  /\ held' = [a \in Actors |-> IF a \in S THEN Nothing ELSE held[a]]
  /\ UNCHANGED config

Muddle == config' = Unknown /\ held' = [a \in Actors |-> Unknown]

Next ==
  \/ \E a \in Actors : Load(a) \/ Save(a)
  \/ \E r \in Runs : Act(r)
  \/ \E d \in Dialogs : Remove(d)
  \/ \E s \in Setups : Add(s)
  \/ \E S \in SUBSET Actors : Forget(S)
  \/ Muddle

Spec == Init /\ [][Next]_vars

=============================================================================
