---------------------------- MODULE IssuanceSpec ----------------------------
(***************************************************************************)
(* What the life cycle of a certificate promises, as its owner and the     *)
(* deploy server see it.  A CSR leaves this machine only while its key is  *)
(* kept where the next run finds it, and only when the certificate of the  *)
(* CSR before it is in use.  The key of a CSR that is on its way, or that  *)
(* the server has accepted, is not given up.  What is put to use is what   *)
(* the server offered, if the key to it is there.  Once closed, nothing of *)
(* this happens any more, and keys may go.                                 *)
(***************************************************************************)
CONSTANTS OwnKeys, OtherKeys, ApiKeys, FirstKey, NoKey

VARIABLES
  order,    \* status and CSR of the order's action
  sent,     \* CSR on its way to the server
  held,     \* own keys that a run starting now would find
  offered,  \* certificate that the run under way was shown
  served,   \* certificate in use
  closed    \* nothing is done for the certificate any more

vars == <<order, sent, held, offered, served, closed>>

Init ==
  /\ order = [status |-> "active", csr |-> FirstKey]
  /\ sent = NoKey /\ held = {} /\ offered = NoKey
  /\ served = FirstKey /\ closed = FALSE

\* Only the certificate of an active order is offered.
Look ==
  /\ ~closed /\ order.status = "active"
  /\ offered' = order.csr
  /\ UNCHANGED <<order, sent, held, served, closed>>

\* Keys are stored, or given up when nobody needs them; a run ends; the
\* certificate is closed.
Keep ==
  /\ closed' \in {closed, TRUE} /\ offered' \in {offered, NoKey}
  /\ held' \in SUBSET OwnKeys
  /\ closed' \/ held \cap {order.csr, sent} \subseteq held'
  /\ UNCHANGED <<order, sent, served>>

Submit ==
  /\ ~closed /\ offered # NoKey /\ sent = NoKey
  /\ order.csr \in OwnKeys => served = order.csr
  /\ sent' \in held \ {order.csr}
  /\ UNCHANGED <<order, held, offered, served, closed>>

\* A key that the API hands out need not be held.
Serve ==
  /\ ~closed /\ offered \in held \cup ApiKeys
  /\ served' = offered
  /\ UNCHANGED <<order, sent, held, offered, closed>>

\* An active order takes a CSR as the start of a new action.
Accept ==
  /\ sent # NoKey /\ order.status = "active"
  /\ order' = [status |-> "processing", csr |-> sent] /\ sent' = NoKey
  /\ UNCHANGED <<held, offered, served, closed>>

Lose ==
  /\ sent' = NoKey
  /\ UNCHANGED <<order, held, offered, served, closed>>

\* The order proceeds, stops or recovers, or another submitter renews it.
Proceed ==
  /\ \/ \E s \in {"active", "processing", "terminal"} : order' = [order EXCEPT !.status = s]
     \/ /\ order.status = "active"
        /\ \E k \in OtherKeys : order' = [status |-> "processing", csr |-> k]
  /\ UNCHANGED <<sent, held, offered, served, closed>>

Next == Look \/ Keep \/ Submit \/ Serve \/ Accept \/ Lose \/ Proceed

Spec == Init /\ [][Next]_vars

=============================================================================
