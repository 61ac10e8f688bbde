----------------------------- MODULE DeploySpec -----------------------------
(***************************************************************************)
(* What the deployment rounds of a certificate promise to who reads        *)
(* config.json, IIS and the reports.  A binding is touched only while the  *)
(* record on disk says that there is something to do: an attempt has begun *)
(* or bindings have failed.  A certificate is recorded as deployed only    *)
(* after a round that bound it, together with exactly the bindings that    *)
(* failed.  An outcome is reported once, when it is what the record says.  *)
(* A round that is cut short leaves the record as it was.                  *)
(***************************************************************************)
CONSTANTS Sites, Movable, Serials, NoCert

VARIABLES
  iis,     \* certificate each binding serves
  record,  \* certificate deployed, failed bindings, and whether an attempt has
           \* "begun", the certificate is "closed", or neither ("open")
  round,   \* certificate being bound, bindings to do, bound and failed
  owed     \* outcome recorded and not reported yet

vars == <<iis, record, round, owed>>

NoRound == [cert |-> NoCert, todo |-> {}, good |-> {}, bad |-> {}]

Init ==
  /\ record \in [cert : Serials \cup {NoCert}, failed : SUBSET Sites, mark : {"open"}]
  /\ iis = [s \in Sites |-> IF s \in record.failed THEN NoCert ELSE record.cert]
  /\ round = NoRound /\ owed = "none"

Idle == round = NoRound /\ owed = "none"
Over == round # NoRound /\ round.todo = {}
Untouched == Over /\ round.good = {} /\ round.bad = {}

\* What is to be done is on record first.
Begin ==
  /\ Idle /\ record.mark # "closed"
  /\ \E c \in Serials : round' = [NoRound EXCEPT !.cert = c]
  /\ record' = [record EXCEPT !.mark = IF record.failed = {} THEN "begun" ELSE "open"]
  /\ UNCHANGED <<iis, owed>>

Wanted == IF record.failed = {} THEN Sites ELSE record.failed

Aim ==
  /\ Untouched
  /\ \E T \in SUBSET Wanted :
       Wanted \ T \subseteq Movable /\ round' = [round EXCEPT !.todo = T]
  /\ UNCHANGED <<iis, record, owed>>

Done(s, good, bad) ==
  round' = [cert |-> round.cert, todo |-> round.todo \ {s}, good |-> good, bad |-> bad]

Bind(s) ==
  /\ s \in round.todo
  /\ \/ /\ iis' = [iis EXCEPT ![s] = round.cert]
        /\ Done(s, round.good \cup {s}, round.bad)
     \/ /\ \E c \in {iis[s], NoCert, round.cert} : iis' = [iis EXCEPT ![s] = c]
        /\ Done(s, round.good, round.bad \cup {s})
  /\ UNCHANGED <<record, owed>>

Settle(r, outcome) ==
  /\ Over /\ round' = NoRound
  /\ record' = r /\ owed' = outcome
  /\ UNCHANGED iis

Deployed(mark) == [cert |-> round.cert, failed |-> round.bad, mark |-> mark]

Adopt ==
  /\ round.good # {}
  /\ Settle(Deployed("open"), IF round.bad = {} THEN "success" ELSE "partial")

\* Bound everywhere, but it is the certificate that was deployed before.
Judge ==
  /\ round.good # {} /\ round.bad = {} /\ round.cert = record.cert
  /\ \E m \in {"open", "closed"} : Settle(Deployed(m), "unchanged")

Fail ==
  \E m \in {"open", "closed"} : Settle([record EXCEPT !.mark = m], "failure")

Withdraw == Untouched /\ Settle([record EXCEPT !.mark = "open"], "none")

Report ==
  /\ owed # "none" /\ owed' = "none"
  /\ UNCHANGED <<iis, record, round>>

\* The process dies, or what it did cannot be recorded.
Stop ==
  /\ round' = NoRound /\ owed' = "none"
  /\ \/ UNCHANGED iis
     \/ \E s \in round.todo, c \in {NoCert, round.cert} : iis' = [iis EXCEPT ![s] = c]
  /\ UNCHANGED record

Close ==
  /\ Idle /\ record' = [record EXCEPT !.mark = "closed"]
  /\ UNCHANGED <<iis, round, owed>>

Next ==
  \/ Begin \/ Aim \/ (\E s \in Sites : Bind(s))
  \/ Adopt \/ Judge \/ Fail \/ Withdraw \/ Report \/ Stop \/ Close

Spec == Init /\ [][Next]_vars

=============================================================================
