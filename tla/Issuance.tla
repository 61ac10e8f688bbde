------------------------------- MODULE Issuance -------------------------------
(***************************************************************************)
(* The local-mode issuance life cycle of ONE managed certificate: from the *)
(* decision to renew, through the key pair generated on this machine and   *)
(* the CSR submitted for it, to the deployment of the certificate issued   *)
(* for that CSR.  Source: src/deploy/auto.go (handleLocalKeyMode and what  *)
(* it calls), src/deploy/lifecycle.go and src/cert/keystore.go.            *)
(*                                                                         *)
(* A run of the tool is sequential, so one program counter is enough.  The *)
(* steps are cut where the code writes the configuration file, touches a   *)
(* key file, or sends or receives a request: between any two of them the   *)
(* process may crash, and the deploy server may move.  A fresh run starts  *)
(* from what is on disk.                                                   *)
(*                                                                         *)
(* A key pair, the CSR made from it, the hash of that CSR and the          *)
(* certificate issued for it are all named by the key.                     *)
(***************************************************************************)
EXTENDS Naturals, FiniteSets

CONSTANTS
  OwnKeys,       \* key pairs this machine can still generate
  OtherKeys,     \* key pairs other submitters (server, other machines) use
  ApiKeys,       \* those of OtherKeys whose private key the API hands out
  FirstKey,      \* key of the certificate deployed when management began
  NoKey,         \* no key, no hash, no file
  MaxIssueRetries,
  MaxFaults      \* bound: crashes, I/O failures and lost responses

ASSUME IssuanceAssumption ==
  /\ OwnKeys \cap OtherKeys = {}
  /\ FirstKey \in OtherKeys
  /\ ApiKeys \subseteq OtherKeys
  /\ NoKey \notin OwnKeys \cup OtherKeys
  /\ MaxIssueRetries \in Nat \ {0}
  /\ MaxFaults \in Nat

Keys == OwnKeys \cup OtherKeys
OptKeys == Keys \cup {NoKey}

VARIABLES
  \* the tool
  pc,        \* where the run is; "idle" between runs
  mem,       \* the certificate's metadata in the running process
  disk,      \* the same metadata in config.json
  pend,      \* key in pending-keys/<cert>/pending-key.pem
  official,  \* key in the order directory
  iis,       \* key of the certificate bound in IIS
  seen,      \* the order as the run's GET returned it
  own,       \* verdict of checkPendingOwnership in this run
  before,    \* metadata copied before a change that may be rolled back
  resume,    \* where a finished clean-up of the pending key returns to
  hash0,     \* CSR hash when the run started
  track,     \* what settleNoProgress will do at the end of the run
  \* the deploy server and the network
  srv,       \* status and CSR of the order's current action
  net,       \* CSR of the POST on its way to the server
  reply,     \* the answer on its way back
  life,      \* remaining validity of the certificate of each key
  \* history
  used,      \* keys generated or used for an action so far
  attempts,  \* POSTs since the last accepted deployment, refused credentials aside
  owed,      \* active certificate without a key for which no CSR could be made
  faults     \* faults so far

toolVars == <<mem, disk, pend, official, iis>>
runVars  == <<seen, own, before, resume, hash0, track>>
srvVars  == <<srv, net, reply, life>>
histVars == <<used, attempts, owed, faults>>
vars == <<pc, toolVars, runVars, srvVars, histVars>>

-----------------------------------------------------------------------------
(* State spaces. *)

IssueStates == {"", "processing", "active", "CAPPED", "EXPIRED"}
Terminal == {"CAPPED", "EXPIRED"}

\* hash stands for LastCSRHash and CSRSubmittedAt, which the code sets and
\* clears together; cert for CertExpiresAt and CertSerial of the certificate
\* adopted last; failed for a non-empty FailedBindings; np for a running
\* NoProgressSince clock.
Metadata == [st : IssueStates, hash : OptKeys, count : Nat,
             resubmit : BOOLEAN, cleanup : BOOLEAN, failed : BOOLEAN,
             np : BOOLEAN, cert : OptKeys]

OrderStatuses == {"active", "processing", "terminal"}
Seen == [status : OrderStatuses, csr : OptKeys, cert : Keys]
Lives == {"fresh", "due", "margin", "expired"}

PCs == {"idle", "gate", "query", "own", "confirm_save", "decide",
        "drop_save", "drop_remove", "drop_saved", "stall_save", "stall_remove",
        "reset_save", "submit", "mark_save", "gen", "intent_save", "post",
        "wait", "posted_save", "deploy", "adopt", "promote_save",
        "promote_remove", "accept_save", "finish"}

TypeOK ==
  /\ pc \in PCs
  /\ mem \in Metadata /\ disk \in Metadata /\ before \in Metadata
  /\ pend \in OwnKeys \cup {NoKey}
  /\ official \in OwnKeys \cup {NoKey}
  /\ iis \in Keys
  /\ seen \in Seen
  /\ own \in {"none", "confirmed", "mismatch", "orphan"}
  /\ resume \in {"decide", "finish"}
  /\ hash0 \in OptKeys
  /\ track \in {"none", "count", "progress"}
  /\ srv \in [status : OrderStatuses, csr : Keys]
  /\ net \in OptKeys
  /\ reply \in {"none", "ok", "auth", "in_progress", "refused"}
  /\ life \in [Keys -> Lives]
  /\ used \in SUBSET Keys
  /\ attempts \in Nat /\ (pc = "wait" => attempts > 0)
  /\ owed \in OptKeys
  /\ faults \in 0 .. MaxFaults

Fresh(c) == [st |-> "", hash |-> NoKey, count |-> 0, resubmit |-> FALSE,
             cleanup |-> FALSE, failed |-> FALSE, np |-> FALSE, cert |-> c]

NotSeen == [status |-> "terminal", csr |-> NoKey, cert |-> FirstKey]

\* setup has deployed FirstKey's certificate; a certificate added in the GUI
\* has no known expiry yet.  setup keeps no private key in the order directory.
Init ==
  /\ pc = "idle"
  /\ disk \in {Fresh(FirstKey), Fresh(NoKey)}
  /\ mem = disk
  /\ pend = NoKey /\ official = NoKey /\ iis = FirstKey
  /\ seen = NotSeen /\ own = "none" /\ before = Fresh(NoKey)
  /\ resume = "finish" /\ hash0 = NoKey /\ track = "none"
  /\ srv = [status |-> "active", csr |-> FirstKey]
  /\ net = NoKey /\ reply = "none"
  /\ life = [k \in Keys |-> "fresh"]
  /\ used = {FirstKey} /\ attempts = 0 /\ owed = NoKey /\ faults = 0

Goto(label) == pc' = label

\* The run is over; what it had in memory is gone.
EndRun ==
  /\ Goto("idle") /\ mem' = disk'
  /\ seen' = NotSeen /\ own' = "none" /\ before' = Fresh(NoKey)
  /\ resume' = "finish" /\ hash0' = NoKey /\ track' = "none"

\* A fault is counted against the bound.
Fault == faults < MaxFaults /\ faults' = faults + 1

\* config.Save writes a temporary file and renames it: the whole new content
\* or nothing reaches the disk.
SaveOK == disk' = mem
SaveFails == Fault /\ UNCHANGED disk

MarkCapped(m) == [m EXCEPT !.st = "CAPPED", !.resubmit = FALSE]

-----------------------------------------------------------------------------
(* Start of a run, and the gates that precede the first request. *)

\* Mutant: the gates come before the recovery of an interrupted clean-up.
StartRunGateFirst ==
  /\ pc = "idle" /\ net = NoKey
  /\ hash0' = disk.hash /\ reply' = "none" /\ Goto("gate")
  /\ UNCHANGED <<toolVars, seen, own, before, resume, track, srv, net, life,
                 histVars>>

\* A run loads config.json.  A POST of an earlier run has been answered,
\* refused or lost by then: runs are a day apart, a POST lives seconds.
StartRun ==
  /\ pc = "idle" /\ net = NoKey
  /\ hash0' = disk.hash /\ reply' = "none"
  /\ IF disk.cleanup THEN Goto("drop_remove") ELSE Goto("gate")
  /\ UNCHANGED <<toolVars, seen, own, before, resume, track, srv, net, life,
                 histVars>>

Expired(c) == c # NoKey /\ life[c] = "expired"
InMargin(c) == c # NoKey /\ life[c] \in {"margin", "expired"}

\* evaluateAutoActionGate: past the expiry the certificate turns EXPIRED,
\* whatever its state was; a closed certificate is left alone.
GateExpired ==
  /\ pc = "gate" /\ Expired(mem.cert)
  /\ mem' = [mem EXCEPT !.st = "EXPIRED", !.resubmit =
                          IF mem.st = "EXPIRED" THEN mem.resubmit ELSE FALSE]
  /\ Goto("finish")
  /\ UNCHANGED <<disk, pend, official, iis, runVars, srvVars, histVars>>

GateClosed ==
  /\ pc = "gate" /\ ~Expired(mem.cert) /\ mem.st \in Terminal
  /\ Goto("finish")
  /\ UNCHANGED <<toolVars, runVars, srvVars, histVars>>

\* Mutant: only the expiry closes the gate.
GateOpenAnyState == pc = "gate" /\ ~Expired(mem.cert)

GateOpen == pc = "gate" /\ ~Expired(mem.cert) /\ mem.st \notin Terminal

\* stalledTooLong: the clock, once running, may have reached its limit.
GateStall ==
  /\ GateOpen /\ mem.np
  /\ mem' = MarkCapped([mem EXCEPT !.np = FALSE, !.cleanup = TRUE])
  /\ Goto("stall_save")
  /\ UNCHANGED <<disk, pend, official, iis, runVars, srvVars, histVars>>

GatePass ==
  /\ GateOpen
  /\ Goto("query")
  /\ UNCHANGED <<toolVars, runVars, srvVars, histVars>>

\* No API client can be built, or its credentials are on this run's black list.
GateSkip ==
  /\ GateOpen /\ Fault
  /\ Goto("finish")
  /\ UNCHANGED <<toolVars, runVars, srvVars, used, attempts, owed>>

-----------------------------------------------------------------------------
(* markStalled: the terminal state is on disk before the pending key goes.  *)

StallSaved ==
  /\ pc = "stall_save"
  /\ SaveOK /\ Goto("stall_remove")
  /\ UNCHANGED <<mem, pend, official, iis, runVars, srvVars, histVars>>

StallSaveFails ==
  /\ pc = "stall_save"
  /\ SaveFails /\ Goto("finish")
  /\ UNCHANGED <<mem, pend, official, iis, runVars, srvVars, used, attempts, owed>>

StallRemoved ==
  /\ pc = "stall_remove"
  /\ pend' = NoKey
  /\ mem' = [mem EXCEPT !.hash = NoKey, !.cleanup = FALSE]
  /\ Goto("finish")
  /\ UNCHANGED <<disk, official, iis, runVars, srvVars, histVars>>

StallRemoveFails ==
  /\ pc = "stall_remove" /\ Fault
  /\ pend' \in {pend, NoKey} /\ Goto("finish")
  /\ UNCHANGED <<mem, disk, official, iis, runVars, srvVars, used, attempts, owed>>

-----------------------------------------------------------------------------
(* Giving up a pending key: the decision is on disk before the files go,    *)
(* and a run that finds the decision on disk only finishes it               *)
(* (discardPendingIntent, recoverPendingCleanup, the refusal branch of      *)
(* submitPendingCSR).                                                       *)

DropSaved ==
  /\ pc = "drop_save"
  /\ SaveOK /\ Goto("drop_remove")
  /\ UNCHANGED <<mem, pend, official, iis, runVars, srvVars, histVars>>

DropSaveFails ==
  /\ pc = "drop_save"
  /\ SaveFails /\ Goto("finish")
  /\ UNCHANGED <<mem, pend, official, iis, runVars, srvVars, used, attempts, owed>>

\* Mutant: the clean-up mark is not cleared with the files.
DropRemovedKeepsMark ==
  /\ pc = "drop_remove"
  /\ pend' = NoKey /\ Goto("drop_saved")
  /\ UNCHANGED <<mem, disk, official, iis, runVars, srvVars, histVars>>

DropRemoved ==
  /\ pc = "drop_remove"
  /\ pend' = NoKey /\ mem' = [mem EXCEPT !.cleanup = FALSE]
  /\ Goto("drop_saved")
  /\ UNCHANGED <<disk, official, iis, runVars, srvVars, histVars>>

\* RemoveAll works file by file: the key may be gone although it fails.
DropRemoveFails ==
  /\ pc = "drop_remove" /\ Fault
  /\ pend' \in {pend, NoKey} /\ Goto("finish")
  /\ UNCHANGED <<mem, disk, official, iis, runVars, srvVars, used, attempts, owed>>

DropDone ==
  /\ pc = "drop_saved"
  /\ SaveOK /\ Goto(resume)
  /\ UNCHANGED <<mem, pend, official, iis, runVars, srvVars, histVars>>

DropDoneFails ==
  /\ pc = "drop_saved"
  /\ SaveFails /\ mem' = [mem EXCEPT !.cleanup = TRUE] /\ Goto("finish")
  /\ UNCHANGED <<pend, official, iis, runVars, srvVars, used, attempts, owed>>

\* Mutant: giving up a CSR also forgets how many were submitted.
AbandonForgets(m, state) == [m EXCEPT !.st = state, !.hash = NoKey, !.count = 0,
                                      !.resubmit = FALSE, !.cleanup = TRUE]

Abandon(m, state) == [m EXCEPT !.st = state, !.hash = NoKey,
                               !.resubmit = FALSE, !.cleanup = TRUE]

-----------------------------------------------------------------------------
(* The query, and whose CSR the order's current action carries              *)
(* (checkPendingOwnership).                                                 *)

\* What the caller does when there is nothing to deploy: an order that is active
\* with no issuance under way is healthy, and the no-progress clock is stopped.
NothingToDeploy(m) ==
  /\ Goto("finish")
  /\ IF seen.status = "active" /\ m.st = ""
       THEN mem' = [m EXCEPT !.np = FALSE] /\ track' = "none"
       ELSE mem' = m /\ UNCHANGED track

\* The answer may lack the CSR, or carry one that cannot be verified.
QueryAnswered ==
  /\ pc = "query"
  /\ \E c \in {srv.csr, NoKey} :
        seen' = [status |-> srv.status, csr |-> c, cert |-> srv.csr]
  /\ track' = "count" /\ Goto("own")
  /\ UNCHANGED <<toolVars, own, before, resume, hash0, srvVars, histVars>>

\* An authentication refusal does not feed the no-progress clock, any other does.
QueryFails ==
  /\ pc = "query" /\ Fault
  /\ track' \in {"none", "count"} /\ Goto("finish")
  /\ UNCHANGED <<toolVars, seen, own, before, resume, hash0, srvVars,
                 used, attempts, owed>>

OwnNone ==
  /\ pc = "own" /\ pend = NoKey
  /\ own' = "none" /\ Goto("decide")
  /\ UNCHANGED <<toolVars, seen, before, resume, hash0, track, srvVars, histVars>>

\* What a discarded pending key leaves behind depends on the order's status.
Discard(verdict) ==
  /\ own' = verdict /\ resume' = "decide"
  /\ mem' = Abandon(mem, IF seen.status = "active" THEN "" ELSE "processing")
  /\ Goto("drop_save")
  /\ UNCHANGED <<disk, pend, official, iis, seen, before, hash0, track,
                 srvVars, histVars>>

\* A pending key without intent on disk was never submitted.
OwnOrphan == pc = "own" /\ pend # NoKey /\ mem.hash = NoKey /\ Discard("orphan")

\* Mutant: an answer without a CSR counts as a mismatch.
OwnMismatchWhenMissing ==
  /\ pc = "own" /\ pend # NoKey /\ mem.hash # NoKey
  /\ ~(seen.csr = pend /\ seen.csr = mem.hash)
  /\ Discard("mismatch")

OwnMismatch ==
  /\ pc = "own" /\ pend # NoKey /\ mem.hash # NoKey
  /\ seen.csr # NoKey /\ ~(seen.csr = pend /\ seen.csr = mem.hash)
  /\ Discard("mismatch")

OwnUnknown ==
  /\ pc = "own" /\ pend # NoKey /\ mem.hash # NoKey /\ seen.csr = NoKey
  /\ NothingToDeploy(mem)
  /\ UNCHANGED <<disk, pend, official, iis, seen, own, before, resume, hash0,
                 srvVars, histVars>>

OwnConfirmed ==
  /\ pc = "own" /\ pend # NoKey
  /\ seen.csr = pend /\ seen.csr = mem.hash
  /\ own' = "confirmed" /\ mem' = [mem EXCEPT !.resubmit = FALSE]
  /\ IF mem.resubmit THEN Goto("confirm_save") ELSE Goto("decide")
  /\ UNCHANGED <<disk, pend, official, iis, seen, before, resume, hash0, track,
                 srvVars, histVars>>

ConfirmSaved ==
  /\ pc = "confirm_save"
  /\ SaveOK /\ Goto("decide")
  /\ UNCHANGED <<mem, pend, official, iis, runVars, srvVars, histVars>>

ConfirmSaveFails ==
  /\ pc = "confirm_save"
  /\ SaveFails /\ Goto("finish")
  /\ UNCHANGED <<mem, pend, official, iis, runVars, srvVars, used, attempts, owed>>

-----------------------------------------------------------------------------
(* handleLocalKeyMode, after the ownership of the pending key is settled.   *)

ApiKeyPairs == seen.cert \in ApiKeys
LocalKeyPairs == official = seen.cert

\* The certificate may be deployed with a key that is not a pending one.
StoredKeyPairs == ApiKeyPairs \/ LocalKeyPairs

\* The order is not, or no longer, the one this machine asked for.
ForeignAction ==
  \/ own \in {"mismatch", "orphan"}
  \/ mem.resubmit /\ own = "none"

WaitingForIssue == mem.st \in {"processing", "active"} \/ pend # NoKey

\* Mutant: an order whose certificate is not issued yet is served like an active one.
DecideUnlessTerminal == pc = "decide" /\ seen.status # "terminal"

DecideActive == pc = "decide" /\ seen.status = "active"

\* On its way, or unknown: follow it with queries only.
DecideWaiting ==
  /\ pc = "decide" /\ seen.status = "processing"
  /\ NothingToDeploy([mem EXCEPT !.st = "processing"])
  /\ UNCHANGED <<disk, pend, official, iis, seen, own, before, resume, hash0,
                 srvVars, histVars>>

\* A terminal order is displayed, never acted upon.
DecideTerminal ==
  /\ pc = "decide" /\ seen.status = "terminal"
  /\ Goto("finish")
  /\ UNCHANGED <<toolVars, runVars, srvVars, histVars>>

ForeignDeploys ==
  /\ DecideActive /\ ForeignAction /\ StoredKeyPairs
  /\ Goto("deploy")
  /\ UNCHANGED <<toolVars, runVars, srvVars, histVars>>

ForeignResubmits ==
  /\ DecideActive /\ ForeignAction /\ ~StoredKeyPairs
  /\ Goto("submit")
  /\ UNCHANGED <<toolVars, runVars, srvVars, histVars>>

\* selectIssuedPrivateKey: a pending key has priority and must pair; the API's
\* and the stored key are used only once it is gone.
IssuedKeyFound == IF pend # NoKey THEN pend = seen.cert ELSE StoredKeyPairs

IssuedDeploys ==
  /\ DecideActive /\ ~ForeignAction /\ WaitingForIssue /\ IssuedKeyFound
  /\ mem' = [mem EXCEPT !.st = "active"] /\ Goto("deploy")
  /\ UNCHANGED <<disk, pend, official, iis, runVars, srvVars, histVars>>

\* resetIssueStateForResubmit: the order is active, its key is nowhere.
IssuedKeyMissing ==
  /\ DecideActive /\ ~ForeignAction /\ WaitingForIssue
  /\ pend = NoKey /\ ~StoredKeyPairs
  /\ before' = [mem EXCEPT !.st = "active"]
  /\ mem' = [mem EXCEPT !.st = "", !.hash = NoKey, !.resubmit = TRUE]
  /\ Goto("reset_save")
  /\ UNCHANGED <<disk, pend, official, iis, seen, own, resume, hash0, track,
                 srvVars, histVars>>

ResetSaved ==
  /\ pc = "reset_save"
  /\ SaveOK /\ Goto("submit")
  /\ UNCHANGED <<mem, pend, official, iis, runVars, srvVars, histVars>>

ResetSaveFails ==
  /\ pc = "reset_save"
  /\ SaveFails /\ mem' = before /\ Goto("finish")
  /\ UNCHANGED <<pend, official, iis, runVars, srvVars, used, attempts, owed>>

Settled == DecideActive /\ ~ForeignAction /\ ~WaitingForIssue

\* Bindings the last deployment left behind are served before any renewal.
RetryBindings ==
  /\ Settled /\ mem.failed
  /\ IF StoredKeyPairs THEN Goto("deploy") ELSE Goto("finish")
  /\ UNCHANGED <<toolVars, runVars, srvVars, histVars>>

\* checkRenewalNeeded says no, and the clock of the stalled is stopped.
HealthySkip ==
  /\ Settled /\ ~mem.failed /\ life[seen.cert] \in {"fresh", "expired"}
  /\ NothingToDeploy(mem)
  /\ UNCHANGED <<disk, pend, official, iis, seen, own, before, resume, hash0,
                 srvVars, histVars>>

\* Days are cut off: one that has expired less than a day ago counts as due today.
RenewalDue ==
  /\ Settled /\ ~mem.failed /\ life[seen.cert] \in {"due", "margin", "expired"}
  /\ mem' = [mem EXCEPT !.st = ""] /\ Goto("submit")
  /\ UNCHANGED <<disk, pend, official, iis, runVars, srvVars, histVars>>

-----------------------------------------------------------------------------
(* submitNewCSR and submitPendingCSR.  No pending key and no clean-up mark  *)
(* is left when a run gets here (SubmitStartsClean), so the branches that   *)
(* look for them first are not repeated.                                    *)

SubmitTooLate ==
  /\ pc = "submit" /\ InMargin(mem.cert)
  /\ owed' = IF StoredKeyPairs THEN NoKey ELSE seen.cert
  /\ NothingToDeploy(mem)
  /\ UNCHANGED <<disk, pend, official, iis, seen, own, before, resume, hash0,
                 srvVars, used, attempts, faults>>

SubmitCapped ==
  /\ pc = "submit" /\ ~InMargin(mem.cert) /\ mem.count >= MaxIssueRetries
  /\ mem' = MarkCapped(mem) /\ Goto("finish")
  /\ UNCHANGED <<disk, pend, official, iis, runVars, srvVars, histVars>>

\* The recovery mark reaches the disk before a key is generated.
SubmitMarks ==
  /\ pc = "submit" /\ ~InMargin(mem.cert) /\ mem.count < MaxIssueRetries
  /\ before' = mem /\ mem' = [mem EXCEPT !.resubmit = TRUE]
  /\ IF mem.resubmit THEN Goto("gen") ELSE Goto("mark_save")
  /\ UNCHANGED <<disk, pend, official, iis, seen, own, resume, hash0, track,
                 srvVars, histVars>>

MarkSaved ==
  /\ pc = "mark_save"
  /\ SaveOK /\ Goto("gen")
  /\ UNCHANGED <<mem, pend, official, iis, runVars, srvVars, histVars>>

MarkSaveFails ==
  /\ pc = "mark_save"
  /\ SaveFails /\ mem' = before /\ Goto("finish")
  /\ UNCHANGED <<pend, official, iis, runVars, srvVars, used, attempts, owed>>

\* GenerateCSR and the two pending files, the key last.
Generate ==
  /\ pc = "gen"
  /\ \E k \in OwnKeys \ used : pend' = k /\ used' = used \cup {k}
  /\ Goto("intent_save") /\ before' = mem
  /\ LET k == pend' IN
       mem' = [mem EXCEPT !.count = @ + 1, !.hash = k, !.st = "processing",
                          !.resubmit = TRUE]
  /\ UNCHANGED <<disk, official, iis, seen, own, resume, hash0, track, srvVars,
                 attempts, owed, faults>>

\* No key pair can be generated, or its files cannot be written.
GenerateFails ==
  /\ pc = "gen"
  /\ Goto("finish")
  /\ UNCHANGED <<toolVars, runVars, srvVars, histVars>>

\* Mutant: the request leaves before the intent is on disk.
IntentNotSaved ==
  /\ pc = "intent_save"
  /\ Goto("post")
  /\ UNCHANGED <<toolVars, runVars, srvVars, histVars>>

\* The intent is on disk before the request may leave.
IntentSaved ==
  /\ pc = "intent_save"
  /\ SaveOK /\ Goto("post")
  /\ UNCHANGED <<mem, pend, official, iis, runVars, srvVars, histVars>>

IntentSaveFails ==
  /\ pc = "intent_save"
  /\ SaveFails /\ mem' = before /\ Goto("finish")
  /\ UNCHANGED <<pend, official, iis, runVars, srvVars, used, attempts, owed>>

Post ==
  /\ pc = "post"
  /\ net' = mem.hash /\ reply' = "none" /\ attempts' = attempts + 1
  /\ Goto("wait")
  /\ UNCHANGED <<toolVars, runVars, srv, life, used, owed, faults>>

ReplyAccepted ==
  /\ pc = "wait" /\ reply = "ok"
  /\ mem' = [mem EXCEPT !.resubmit = FALSE, !.st = "processing"]
  /\ Goto("posted_save")
  /\ UNCHANGED <<disk, pend, official, iis, runVars, srvVars, histVars>>

PostedSaved ==
  /\ pc = "posted_save"
  /\ SaveOK /\ Goto("finish")
  /\ UNCHANGED <<mem, pend, official, iis, runVars, srvVars, histVars>>

PostedSaveFails ==
  /\ pc = "posted_save"
  /\ SaveFails /\ Goto("finish")
  /\ UNCHANGED <<mem, pend, official, iis, runVars, srvVars, used, attempts, owed>>

\* Refused credentials cost no attempt: the metadata go back to what they were.
ReplyAuth ==
  /\ pc = "wait" /\ reply = "auth"
  /\ mem' = [before EXCEPT !.cleanup = TRUE] /\ track' = "none"
  /\ attempts' = attempts - 1 /\ resume' = "finish" /\ Goto("drop_save")
  /\ UNCHANGED <<disk, pend, official, iis, seen, own, before, hash0, srvVars,
                 used, owed, faults>>

\* order_in_progress: another action won the race; any other refusal.
ReplyRefused ==
  /\ pc = "wait" /\ reply \in {"in_progress", "refused"}
  /\ mem' = Abandon(mem, IF reply = "in_progress" THEN "processing" ELSE "")
  /\ resume' = "finish" /\ Goto("drop_save")
  /\ UNCHANGED <<disk, pend, official, iis, seen, own, before, hash0, track,
                 srvVars, histVars>>

\* A time-out, a cut connection, an HTTP 5xx, whatever the server made of the
\* request: everything is kept.  The attempts bound how often.
ReplyUncertain ==
  /\ pc = "wait"
  /\ Goto("finish")
  /\ UNCHANGED <<toolVars, runVars, srvVars, histVars>>

-----------------------------------------------------------------------------
(* Deployment and adoption of the certificate with its key.  The counting   *)
(* of deployment attempts is the subject of DeployAttempt; here a           *)
(* deployment succeeds for at least one binding or it does not.             *)

Deploy ==
  /\ pc = "deploy"
  /\ before' = mem /\ iis' = seen.cert /\ owed' = NoKey
  /\ Goto("adopt")
  /\ UNCHANGED <<mem, disk, pend, official, seen, own, resume, hash0, track,
                 srvVars, used, attempts, faults>>

\* Every binding failed, or the attempt could not be recorded; the deployment
\* counter may have reached its limit.
DeployFails ==
  /\ pc = "deploy" /\ Fault
  /\ mem' \in {mem, MarkCapped(mem)} /\ Goto("finish")
  /\ UNCHANGED <<disk, pend, official, iis, runVars, srvVars, used, attempts, owed>>

\* SaveCertificate, then finalizeSuccessfulDeployment promotes the pending key.
Adopt ==
  /\ pc = "adopt"
  /\ IF pend # NoKey THEN Goto("promote_save") ELSE Goto("accept_save")
  /\ IF pend # NoKey
       THEN UNCHANGED <<mem, track>>
       ELSE \E partly \in BOOLEAN :
              /\ mem' = [Fresh(seen.cert) EXCEPT !.failed = partly]
              /\ track' = "progress"
  /\ UNCHANGED <<disk, pend, official, iis, seen, own, before, resume, hash0,
                 srvVars, histVars>>

AdoptFails ==
  /\ pc = "adopt" /\ Fault
  /\ mem' \in {mem, MarkCapped(mem)} /\ Goto("finish")
  /\ UNCHANGED <<disk, pend, official, iis, runVars, srvVars, used, attempts, owed>>

\* The key is stored with the order before the pending copy is removed.
PromoteSaved ==
  /\ pc = "promote_save"
  /\ official' = pend /\ Goto("promote_remove")
  /\ UNCHANGED <<mem, disk, pend, iis, runVars, srvVars, histVars>>

PromoteRemoved ==
  /\ pc = "promote_remove"
  /\ pend' = NoKey /\ Goto("accept_save") /\ track' = "progress"
  /\ \E partly \in BOOLEAN : mem' = [Fresh(seen.cert) EXCEPT !.failed = partly]
  /\ UNCHANGED <<disk, official, iis, seen, own, before, resume, hash0, srvVars,
                 histVars>>

\* The promotion failed before, or after, the pending key was removed.
PromoteFails ==
  /\ pc \in {"promote_save", "promote_remove"} /\ Fault
  /\ pend' \in IF pc = "promote_save" THEN {pend} ELSE {pend, NoKey}
  /\ mem' \in {mem, MarkCapped(mem)} /\ Goto("finish")
  /\ UNCHANGED <<disk, official, iis, runVars, srvVars, used, attempts, owed>>

AcceptSaved ==
  /\ pc = "accept_save"
  /\ SaveOK /\ attempts' = 0 /\ Goto("finish")
  /\ UNCHANGED <<mem, pend, official, iis, runVars, srvVars, used, owed, faults>>

AcceptSaveFails ==
  /\ pc = "accept_save"
  /\ SaveFails /\ mem' = before /\ track' = "count" /\ Goto("finish")
  /\ UNCHANGED <<pend, official, iis, seen, own, before, resume, hash0, srvVars,
                 used, attempts, owed>>

-----------------------------------------------------------------------------
(* End of a run: settleNoProgress, then the certificate's metadata are      *)
(* written once more, whatever happened.                                    *)

\* Mutant: the clock of the stalled is stopped but never started.
NoProgressClockNeverRuns ==
  IF track = "progress" \/ mem.hash # hash0 THEN FALSE ELSE mem.np

NoProgressClock ==
  IF track = "none" THEN mem.np ELSE track = "count" /\ mem.hash = hash0

FinishSaved ==
  /\ pc = "finish"
  /\ disk' = [mem EXCEPT !.np = NoProgressClock]
  /\ EndRun
  /\ UNCHANGED <<pend, official, iis, srvVars, histVars>>

FinishSaveFails ==
  /\ pc = "finish"
  /\ SaveFails /\ EndRun
  /\ UNCHANGED <<pend, official, iis, srvVars, used, attempts, owed>>

\* The process dies; the next run will know only what is on disk.
Crash ==
  /\ pc # "idle" /\ Fault
  /\ UNCHANGED disk /\ EndRun
  /\ UNCHANGED <<pend, official, iis, srvVars, used, attempts, owed>>

-----------------------------------------------------------------------------
(* The deploy server, as the tool relies on it: an order has one action at  *)
(* a time, an active order accepts a CSR as the start of a successor        *)
(* action, any other order refuses it.  An answer nobody waits for is lost.  *)

Answer(r) == IF pc = "wait" THEN r ELSE "none"

ServerAccepts ==
  /\ net # NoKey /\ srv.status = "active"
  /\ srv' = [status |-> "processing", csr |-> net]
  /\ net' = NoKey /\ reply' = Answer("ok")
  /\ UNCHANGED <<pc, toolVars, runVars, life, histVars>>

ServerRefuses ==
  /\ net # NoKey
  /\ \E r \in {"auth", "refused", "in_progress"} :
       /\ r = "in_progress" => srv.status # "active"
       /\ reply' = Answer(r)
  /\ net' = NoKey
  /\ UNCHANGED <<pc, toolVars, runVars, srv, life, histVars>>

RequestLost ==
  /\ net # NoKey /\ Fault
  /\ net' = NoKey
  /\ UNCHANGED <<pc, toolVars, runVars, srv, reply, life, used, attempts, owed>>

ServerIssues ==
  /\ srv.status = "processing"
  /\ srv' = [srv EXCEPT !.status = "active"]
  /\ UNCHANGED <<pc, toolVars, runVars, net, reply, life, histVars>>

\* An order fails, is cancelled or revoked; it may recover by itself.
ServerStops ==
  /\ srv.status # "terminal"
  /\ srv' = [srv EXCEPT !.status = "terminal"]
  /\ UNCHANGED <<pc, toolVars, runVars, net, reply, life, histVars>>

ServerRecovers ==
  /\ srv.status = "terminal"
  /\ srv' = [srv EXCEPT !.status = "processing"]
  /\ UNCHANGED <<pc, toolVars, runVars, net, reply, life, histVars>>

\* Another submitter renews or reissues the order.
OtherSubmits ==
  /\ srv.status = "active"
  /\ \E k \in OtherKeys \ used :
        srv' = [status |-> "processing", csr |-> k] /\ used' = used \cup {k}
  /\ UNCHANGED <<pc, toolVars, runVars, net, reply, life, attempts, owed, faults>>

NextLife(l) ==
  CASE l = "fresh" -> "due" [] l = "due" -> "margin" [] OTHER -> "expired"

\* Time passes for the certificate on the order and for the one in use.  The
\* thresholds are days apart and a run takes minutes: it sees one date.
Age ==
  /\ pc = "idle"
  /\ \E k \in Keys :
       /\ k = disk.cert \/ (k = srv.csr /\ srv.status = "active")
       /\ life[k] # "expired"
       /\ life' = [life EXCEPT ![k] = NextLife(@)]
  /\ UNCHANGED <<pc, toolVars, runVars, srv, net, reply, histVars>>

-----------------------------------------------------------------------------
Gate == GateExpired \/ GateClosed \/ GateStall \/ GatePass \/ GateSkip
Stall == StallSaved \/ StallSaveFails \/ StallRemoved \/ StallRemoveFails
Drop == DropSaved \/ DropSaveFails \/ DropRemoved \/ DropRemoveFails
          \/ DropDone \/ DropDoneFails
Query == QueryAnswered \/ QueryFails
Ownership == OwnNone \/ OwnOrphan \/ OwnMismatch \/ OwnUnknown \/ OwnConfirmed
               \/ ConfirmSaved \/ ConfirmSaveFails
Decide == DecideWaiting \/ DecideTerminal \/ ForeignDeploys \/ ForeignResubmits
            \/ IssuedDeploys \/ IssuedKeyMissing \/ ResetSaved \/ ResetSaveFails
            \/ RetryBindings \/ HealthySkip \/ RenewalDue
Submit == SubmitTooLate \/ SubmitCapped \/ SubmitMarks \/ MarkSaved
            \/ MarkSaveFails \/ Generate \/ GenerateFails \/ IntentSaved
            \/ IntentSaveFails \/ Post
Reply == ReplyAccepted \/ PostedSaved \/ PostedSaveFails \/ ReplyAuth
           \/ ReplyRefused \/ ReplyUncertain
Adoption == Deploy \/ DeployFails \/ Adopt \/ AdoptFails \/ PromoteSaved
              \/ PromoteRemoved \/ PromoteFails \/ AcceptSaved \/ AcceptSaveFails
Finish == FinishSaved \/ FinishSaveFails

Run == StartRun \/ Gate \/ Stall \/ Drop \/ Query \/ Ownership \/ Decide
         \/ Submit \/ Reply \/ Adoption \/ Finish
Server == ServerAccepts \/ ServerRefuses \/ RequestLost \/ ServerIssues
            \/ ServerStops \/ ServerRecovers \/ OtherSubmits

Next == Run \/ Crash \/ Server \/ Age

Spec == Init /\ [][Next]_vars

-----------------------------------------------------------------------------
(* Properties. *)

\* The private key of a CSR that the server has accepted, or that is on its way
\* to the server, can be found again after a crash: it is stored with the order,
\* or it is the pending key and the intent on disk says so.  Only a certificate
\* that was closed (CAPPED, EXPIRED) may have lost it.
AcceptedKeyRecoverable ==
  \A k \in OwnKeys :
    (srv.csr = k \/ net = k) /\ disk.st \notin Terminal
      => official = k \/ (pend = k /\ disk.hash = k)

\* Crashes, failed writes and lost answers included, the server sees at most
\* MaxIssueRetries submissions between two accepted deployments
\* (issue_retry_count is written before the request leaves).
AttemptsBounded == attempts <= MaxIssueRetries

\* submitNewCSR never finds a pending key or an unfinished clean-up: the query
\* that precedes it has settled both.
SubmitStartsClean == pc = "submit" => pend = NoKey /\ ~mem.cleanup

\* No second issuance while the certificate of an own, earlier one waits on the
\* server: a POST leaves only when that certificate has been deployed.
IssuedIsDeployedFirst ==
  [][pc = "post" /\ pc' = "wait" /\ srv.csr \in OwnKeys => iis = srv.csr]_vars

\* Once closed, a certificate stays closed and the tool stays silent about it:
\* nothing is deployed and nothing is submitted.
ClosedIsFinal ==
  [][disk.st \in Terminal
       => disk'.st \in Terminal /\ iis' = iis /\ net' \in {net, NoKey}]_vars

\* The life cycle as IssuanceSpec sees it.
Held == {k \in OwnKeys : official = k \/ (pend = k /\ disk.hash = k)}

Offered == IF seen.status = "active" THEN seen.cert ELSE NoKey

Promise == INSTANCE IssuanceSpec WITH
  order <- srv, sent <- net, held <- Held, offered <- Offered, served <- iis,
  closed <- disk.st \in Terminal

\* Whatever fails and whenever the run dies, a CSR leaves only with its key held and
\* after the certificate before it is in use, the key of a CSR that may have been
\* accepted is not given up, and only what the server offered and the key fits is put
\* to use (handleLocalKeyMode, submitPendingCSR, processOneCertWithSaveAndGate).
KeepsLifeCycle == Promise!Spec

-----------------------------------------------------------------------------
(* Fairness: runs are scheduled daily and go on; a request is answered; the *)
(* no-progress clock, once it keeps running, reaches its limit.             *)
FairSpec ==
  /\ Spec
  /\ WF_vars(Run)
  /\ SF_vars(GateStall)
  /\ WF_vars(ServerAccepts \/ ServerRefuses)

\* An action the server has accepted from this machine does not stay open for
\* ever: its certificate is adopted, or another action replaces it, or the
\* certificate is closed.
AcceptedIsSettled ==
  \A k \in OwnKeys :
    srv.csr = k ~> (iis = k /\ official = k) \/ srv.csr # k \/ disk.st \in Terminal

\* A clean-up of key files that a crash or a failed removal interrupted is taken
\* up again and completed: the mark of it does not stay on disk for ever.
CleanupCompletes == disk.cleanup ~> ~disk.cleanup

=============================================================================
