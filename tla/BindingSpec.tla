----------------------------- MODULE BindingSpec -----------------------------
(***************************************************************************)
(* What replacing the certificate of one HTTP.sys endpoint promises its    *)
(* callers.  A task looks at the endpoint before it may touch it; from     *)
(* then on the endpoint may serve nothing, the certificate wanted or the   *)
(* one found; and whatever the task says at its end is true of the         *)
(* endpoint at that moment.  Nothing is promised about a task cut short.   *)
(***************************************************************************)
CONSTANTS Callers, Certs, NoBinding

VARIABLES
  serving,  \* certificate of the endpoint
  phase,    \* "idle", "looking" or "changing"
  want,     \* certificate the caller's task is to bind
  found,    \* certificate the task found when it decided to go on
  told      \* what the caller's last task answered

vars == <<serving, phase, want, found, told>>

OptCerts == Certs \cup {NoBinding}

Init ==
  /\ serving \in OptCerts
  /\ phase = [p \in Callers |-> "idle"]
  /\ want = [p \in Callers |-> NoBinding]
  /\ found = [p \in Callers |-> NoBinding]
  /\ told = [p \in Callers |-> "none"]

Begin(p, c) ==
  /\ phase[p] = "idle"
  /\ phase' = [phase EXCEPT ![p] = "looking"]
  /\ want' = [want EXCEPT ![p] = c]
  /\ told' = [told EXCEPT ![p] = "none"]
  /\ UNCHANGED <<serving, found>>

\* A certificate is found only if it is there; none may be found in error.
Commit(p) ==
  /\ phase[p] = "looking"
  /\ phase' = [phase EXCEPT ![p] = "changing"]
  /\ \E f \in {serving, NoBinding} : found' = [found EXCEPT ![p] = f]
  /\ UNCHANGED <<serving, want, told>>

Change(p) ==
  /\ phase[p] = "changing"
  /\ serving' \in {NoBinding, want[p], found[p]}
  /\ UNCHANGED <<phase, want, found, told>>

\* The task's knowledge goes with it.
Leave(p) ==
  /\ phase' = [phase EXCEPT ![p] = "idle"]
  /\ want' = [want EXCEPT ![p] = NoBinding]
  /\ found' = [found EXCEPT ![p] = NoBinding]

\* A failure may come with a last change: a command that reports an error may
\* have worked.
Finish(p, v) ==
  /\ \/ v = "refused" /\ phase[p] = "looking" /\ UNCHANGED serving
     \/ v = "served" /\ phase[p] = "changing" /\ serving = want[p] /\ UNCHANGED serving
     \/ v = "restored" /\ phase[p] = "changing" /\ UNCHANGED serving
        /\ serving = found[p] /\ serving # NoBinding
     \/ v = "failed" /\ phase[p] = "changing" /\ serving' \in {serving, NoBinding}
  /\ Leave(p)
  /\ told' = [told EXCEPT ![p] = v]

Die(p) ==
  /\ phase[p] # "idle"
  /\ Leave(p)
  /\ UNCHANGED <<serving, told>>

Next ==
  \E p \in Callers :
    \/ \E c \in Certs : Begin(p, c)
    \/ Commit(p) \/ Change(p) \/ Die(p)
    \/ \E v \in {"refused", "served", "restored", "failed"} : Finish(p, v)

Spec == Init /\ [][Next]_vars

=============================================================================
