---------------------------- MODULE IssuanceProofs ----------------------------
(***************************************************************************)
(* The inductive invariant behind the safety properties of Issuance, and   *)
(* the proofs, for any number of keys, retries and faults.                 *)
(***************************************************************************)
EXTENDS Issuance, TLAPS

(* The certificate of an own key that the order carries needs no pending key. *)
Homed == srv.csr \in OwnKeys => official = srv.csr

(* What AcceptedKeyRecoverable asks, of metadata m instead of those on disk. *)
Recoverable(m) ==
  m.st \notin Terminal =>
    \A k \in OwnKeys :
      srv.csr = k \/ net = k => official = k \/ (pend = k /\ m.hash = k)

(* A clean-up that m calls for loses nothing. *)
CleanupSafe(m) == m.cleanup /\ m.st \notin Terminal => net = NoKey /\ Homed

(* Where a run can be once the closed state is on disk. *)
ClosedPCs == {"idle", "gate", "drop_remove", "drop_saved", "stall_remove", "finish"}

(* Where a run still may act for the certificate. *)
OpenPCs == {"query", "own", "confirm_save", "decide", "reset_save", "submit",
            "mark_save", "gen", "intent_save", "posted_save", "accept_save"}

(* Where a run has no clean-up to finish. *)
CleanPCs == {"gate", "query", "own", "confirm_save", "decide", "reset_save",
             "submit", "mark_save", "gen", "intent_save", "post", "wait",
             "posted_save", "deploy", "adopt", "promote_save", "promote_remove",
             "accept_save"}

AdoptionPCs == {"deploy", "adopt", "promote_save", "promote_remove"}

IdleInv == pc = "idle" => mem = disk /\ resume = "finish"

ClosedInv ==
  disk.st \in Terminal =>
    mem.st \in Terminal /\ pc \in ClosedPCs

StallInv ==
  /\ pc = "stall_save" => mem.st \in Terminal
  /\ pc = "stall_remove" => disk.st \in Terminal

OpenInv ==
  /\ pc \in OpenPCs => mem.st \notin Terminal
  /\ pc \in {"drop_save", "drop_remove", "drop_saved"} /\ mem.st \in Terminal
       => resume = "finish"

CleanInv ==
  /\ pc \in CleanPCs => ~mem.cleanup /\ ~disk.cleanup
  /\ pc = "drop_saved" => ~mem.cleanup

DropInv ==
  /\ pc \in {"drop_save", "intent_save", "post"} => Homed
  /\ pc \in {"drop_remove", "drop_saved"} => Homed \/ disk.st \in Terminal

NetInv ==
  /\ net # NoKey => pc \in {"wait", "finish", "idle"} /\ Homed
  /\ pc = "wait" /\ reply # "none" => net = NoKey
  /\ pc = "wait" /\ reply \in {"auth", "in_progress", "refused"} => Homed

NoPendingInv ==
  /\ pc \in {"reset_save", "submit", "mark_save", "gen", "accept_save", "drop_saved"}
       => pend = NoKey
  /\ pc = "decide" /\ own # "confirmed" => pend = NoKey
  /\ pc = "confirm_save" => own = "confirmed"

IntentInv ==
  /\ pc = "intent_save" => mem.hash = pend
  /\ pc \in {"post", "wait"} => mem.hash = pend /\ disk.hash = pend

AdoptionInv ==
  /\ pc \in AdoptionPCs /\ pend # NoKey => pend = seen.cert
  /\ pc = "promote_remove" => official = pend /\ pend # NoKey
  /\ pc = "promote_save" => pend # NoKey

SeenInv ==
  pc \in {"own", "confirm_save"} \/ (pc \in AdoptionPCs \cup {"decide"} /\ pend # NoKey)
    => /\ seen.csr \in {NoKey, seen.cert}
       /\ srv.csr \in OwnKeys => seen.cert = srv.csr

IInv ==
  /\ TypeOK
  /\ Recoverable(disk) /\ Recoverable(mem)
  /\ CleanupSafe(disk) /\ CleanupSafe(mem)
  /\ IdleInv /\ ClosedInv /\ StallInv /\ OpenInv /\ CleanInv /\ DropInv
  /\ NetInv /\ NoPendingInv /\ IntentInv /\ AdoptionInv /\ SeenInv

(***************************************************************************)
(* Type correctness.                                                       *)
(***************************************************************************)

LEMMA KeyFacts ==
  /\ NoKey \in OptKeys /\ FirstKey \in Keys
  /\ Keys \subseteq OptKeys /\ OwnKeys \subseteq Keys /\ OtherKeys \subseteq Keys
BY IssuanceAssumption DEF Keys, OptKeys

LEMMA FreshType == ASSUME NEW c \in OptKeys PROVE Fresh(c) \in Metadata
BY KeyFacts DEF Fresh, Metadata, IssueStates

LEMMA FreshFields ==
  ASSUME NEW c
  PROVE  Fresh(c).count = 0 /\ Fresh(c).cleanup = FALSE /\ Fresh(c).st = ""
BY DEF Fresh

LEMMA FreshFailedType ==
  ASSUME NEW c \in OptKeys, NEW f \in BOOLEAN
  PROVE  [Fresh(c) EXCEPT !.failed = f] \in Metadata
BY FreshType DEF Metadata

LEMMA MarkCappedType == ASSUME NEW m \in Metadata PROVE MarkCapped(m) \in Metadata
BY DEF MarkCapped, Metadata, IssueStates

LEMMA AbandonType ==
  ASSUME NEW m \in Metadata, NEW s \in IssueStates PROVE Abandon(m, s) \in Metadata
BY KeyFacts DEF Abandon, Metadata

LEMMA NotSeenType == NotSeen \in Seen
BY KeyFacts DEF NotSeen, Seen, OrderStatuses

LEMMA GateType == ASSUME TypeOK, Gate PROVE TypeOK'
<1> USE DEF vars, toolVars, runVars, srvVars, histVars, Goto
<1>1. CASE GateExpired
  <2>1. mem' \in Metadata
    BY <1>1, IssuanceAssumption DEF GateExpired, Expired, TypeOK, Metadata,
         IssueStates, Keys, OptKeys
  <2>. QED BY <1>1, <2>1 DEF GateExpired, Expired, TypeOK, PCs
<1>2. CASE GateClosed
  BY <1>2 DEF GateClosed, Expired, TypeOK, PCs
<1>3. CASE GateStall
  <2>1. mem' \in Metadata
    BY <1>3, IssuanceAssumption DEF GateStall, MarkCapped, GateOpen, Expired,
         TypeOK, Metadata, IssueStates, Keys, OptKeys
  <2>. QED BY <1>3, <2>1 DEF GateStall, MarkCapped, GateOpen, Expired, TypeOK,
       PCs
<1>4. CASE GatePass
  BY <1>4 DEF GatePass, GateOpen, Expired, TypeOK, PCs
<1>5. CASE GateSkip
  BY <1>5, IssuanceAssumption DEF GateSkip, Fault, GateOpen, Expired, TypeOK,
       PCs
<1>. QED BY <1>1, <1>2, <1>3, <1>4, <1>5 DEF Gate

LEMMA StallType == ASSUME TypeOK, Stall PROVE TypeOK'
<1> USE DEF vars, toolVars, runVars, srvVars, histVars, Goto
<1>1. CASE StallSaved
  <2>1. disk' \in Metadata
    BY <1>1 DEF StallSaved, SaveOK, TypeOK, Metadata
  <2>. QED BY <1>1, <2>1 DEF StallSaved, SaveOK, TypeOK, PCs
<1>2. CASE StallSaveFails
  BY <1>2, IssuanceAssumption DEF StallSaveFails, Fault, SaveFails, TypeOK, PCs
<1>3. CASE StallRemoved
  <2>1. mem' \in Metadata
    BY <1>3, IssuanceAssumption DEF StallRemoved, TypeOK, Metadata,
         IssueStates, Keys, OptKeys
  <2>. QED BY <1>3, <2>1 DEF StallRemoved, TypeOK, PCs
<1>4. CASE StallRemoveFails
  BY <1>4, IssuanceAssumption DEF StallRemoveFails, Fault, TypeOK, PCs
<1>. QED BY <1>1, <1>2, <1>3, <1>4 DEF Stall

LEMMA DropType == ASSUME TypeOK, Drop PROVE TypeOK'
<1> USE DEF vars, toolVars, runVars, srvVars, histVars, Goto
<1>1. CASE DropSaved
  <2>1. disk' \in Metadata
    BY <1>1 DEF DropSaved, SaveOK, TypeOK, Metadata
  <2>. QED BY <1>1, <2>1 DEF DropSaved, SaveOK, TypeOK, PCs
<1>2. CASE DropSaveFails
  BY <1>2, IssuanceAssumption DEF DropSaveFails, Fault, SaveFails, TypeOK, PCs
<1>3. CASE DropRemoved
  <2>1. mem' \in Metadata
    BY <1>3, IssuanceAssumption DEF DropRemoved, TypeOK, Metadata, IssueStates,
         Keys, OptKeys
  <2>. QED BY <1>3, <2>1 DEF DropRemoved, TypeOK, PCs
<1>4. CASE DropRemoveFails
  BY <1>4, IssuanceAssumption DEF DropRemoveFails, Fault, TypeOK, PCs
<1>5. CASE DropDone
  <2>1. disk' \in Metadata
    BY <1>5 DEF DropDone, SaveOK, TypeOK, Metadata
  <2>. QED BY <1>5, <2>1 DEF DropDone, SaveOK, TypeOK, PCs
<1>6. CASE DropDoneFails
  <2>1. mem' \in Metadata
    BY <1>6, IssuanceAssumption DEF DropDoneFails, Fault, SaveFails, TypeOK,
         Metadata, IssueStates, Keys, OptKeys
  <2>. QED BY <1>6, <2>1, IssuanceAssumption DEF DropDoneFails, Fault,
       SaveFails, TypeOK, PCs
<1>. QED BY <1>1, <1>2, <1>3, <1>4, <1>5, <1>6 DEF Drop

LEMMA QueryType == ASSUME TypeOK, Query PROVE TypeOK'
<1> USE DEF vars, toolVars, runVars, srvVars, histVars, Goto
<1>1. CASE QueryAnswered
  <2>1. seen' \in Seen
    BY <1>1, IssuanceAssumption DEF QueryAnswered, TypeOK, Seen, OptKeys,
         OrderStatuses, Keys
  <2>. QED BY <1>1, <2>1 DEF QueryAnswered, TypeOK, PCs
<1>2. CASE QueryFails
  BY <1>2, IssuanceAssumption DEF QueryFails, Fault, TypeOK, PCs
<1>. QED BY <1>1, <1>2 DEF Query

LEMMA OwnershipType == ASSUME TypeOK, Ownership PROVE TypeOK'
<1> USE DEF vars, toolVars, runVars, srvVars, histVars, Goto
<1>1. CASE OwnNone
  BY <1>1 DEF OwnNone, TypeOK, PCs
<1>2. CASE OwnOrphan
  <2>1. mem' \in Metadata
    BY <1>2, AbandonType DEF OwnOrphan, Discard, TypeOK, IssueStates
  <2>. QED BY <1>2, <2>1 DEF OwnOrphan, Discard, TypeOK, PCs
<1>3. CASE OwnMismatch
  <2>1. mem' \in Metadata
    BY <1>3, AbandonType DEF OwnMismatch, Discard, TypeOK, IssueStates
  <2>. QED BY <1>3, <2>1 DEF OwnMismatch, Discard, TypeOK, PCs
<1>4. CASE OwnUnknown
  <2>1. mem' \in Metadata
    BY <1>4 DEF OwnUnknown, NothingToDeploy, TypeOK, Metadata
  <2>. QED BY <1>4, <2>1 DEF OwnUnknown, NothingToDeploy, TypeOK, PCs
<1>5. CASE OwnConfirmed
  <2>1. mem' \in Metadata
    BY <1>5, IssuanceAssumption DEF OwnConfirmed, TypeOK, Metadata,
         IssueStates, Keys, OptKeys
  <2>. QED BY <1>5, <2>1 DEF OwnConfirmed, TypeOK, PCs
<1>6. CASE ConfirmSaved
  <2>1. disk' \in Metadata
    BY <1>6 DEF ConfirmSaved, SaveOK, TypeOK, Metadata
  <2>. QED BY <1>6, <2>1 DEF ConfirmSaved, SaveOK, TypeOK, PCs
<1>7. CASE ConfirmSaveFails
  BY <1>7, IssuanceAssumption DEF ConfirmSaveFails, Fault, SaveFails, TypeOK,
       PCs
<1>. QED BY <1>1, <1>2, <1>3, <1>4, <1>5, <1>6, <1>7 DEF Ownership

LEMMA DecideType == ASSUME TypeOK, Decide PROVE TypeOK'
<1> USE DEF vars, toolVars, runVars, srvVars, histVars, Goto
<1>1. CASE DecideWaiting
  <2>1. mem' \in Metadata
    BY <1>1 DEF DecideWaiting, NothingToDeploy, TypeOK, Metadata, IssueStates
  <2>. QED BY <1>1, <2>1 DEF DecideWaiting, NothingToDeploy, TypeOK, PCs
<1>2. CASE DecideTerminal
  BY <1>2 DEF DecideTerminal, TypeOK, PCs
<1>3. CASE ForeignDeploys
  BY <1>3 DEF ForeignDeploys, DecideActive, ForeignAction, StoredKeyPairs,
       ApiKeyPairs, LocalKeyPairs, TypeOK, PCs
<1>4. CASE ForeignResubmits
  BY <1>4 DEF ForeignResubmits, DecideActive, ForeignAction, StoredKeyPairs,
       ApiKeyPairs, LocalKeyPairs, TypeOK, PCs
<1>5. CASE IssuedDeploys
  <2>1. mem' \in Metadata
    BY <1>5, IssuanceAssumption DEF IssuedDeploys, DecideActive, ForeignAction,
         WaitingForIssue, StoredKeyPairs, ApiKeyPairs, LocalKeyPairs,
              IssuedKeyFound, TypeOK, Metadata, IssueStates, Keys, OptKeys
  <2>. QED BY <1>5, <2>1 DEF IssuedDeploys, DecideActive, ForeignAction,
       WaitingForIssue, StoredKeyPairs, ApiKeyPairs, LocalKeyPairs,
            IssuedKeyFound, TypeOK, PCs
<1>6. CASE IssuedKeyMissing
  <2>1. mem' \in Metadata
    BY <1>6, IssuanceAssumption DEF IssuedKeyMissing, DecideActive,
         ForeignAction, WaitingForIssue, StoredKeyPairs, ApiKeyPairs,
              LocalKeyPairs, TypeOK, Metadata, IssueStates, Keys, OptKeys
  <2>2. before' \in Metadata
    BY <1>6, <2>1, IssuanceAssumption DEF IssuedKeyMissing, DecideActive,
         ForeignAction, WaitingForIssue, StoredKeyPairs, ApiKeyPairs,
              LocalKeyPairs, TypeOK, Metadata, IssueStates, Keys, OptKeys
  <2>. QED BY <1>6, <2>1, <2>2 DEF IssuedKeyMissing, DecideActive,
       ForeignAction, WaitingForIssue, StoredKeyPairs, ApiKeyPairs,
            LocalKeyPairs, TypeOK, PCs
<1>7. CASE ResetSaved
  <2>1. disk' \in Metadata
    BY <1>7 DEF ResetSaved, SaveOK, TypeOK, Metadata
  <2>. QED BY <1>7, <2>1 DEF ResetSaved, SaveOK, TypeOK, PCs
<1>8. CASE ResetSaveFails
  <2>1. mem' \in Metadata
    BY <1>8, IssuanceAssumption DEF ResetSaveFails, Fault, SaveFails, TypeOK,
         Metadata, IssueStates, Keys, OptKeys
  <2>. QED BY <1>8, <2>1, IssuanceAssumption DEF ResetSaveFails, Fault,
       SaveFails, TypeOK, PCs
<1>9. CASE RetryBindings
  BY <1>9 DEF RetryBindings, DecideActive, ForeignAction, WaitingForIssue,
       Settled, StoredKeyPairs, ApiKeyPairs, LocalKeyPairs, TypeOK, PCs
<1>10. CASE HealthySkip
  <2>1. mem' \in Metadata
    BY <1>10 DEF HealthySkip, NothingToDeploy, TypeOK, Metadata, IssueStates
  <2>. QED BY <1>10, <2>1 DEF HealthySkip, NothingToDeploy, TypeOK, PCs
<1>11. CASE RenewalDue
  <2>1. mem' \in Metadata
    BY <1>11, IssuanceAssumption DEF RenewalDue, DecideActive, ForeignAction,
         WaitingForIssue, Settled, TypeOK, Metadata, IssueStates, Keys, OptKeys
  <2>. QED BY <1>11, <2>1 DEF RenewalDue, DecideActive, ForeignAction,
       WaitingForIssue, Settled, TypeOK, PCs
<1>. QED BY <1>1, <1>2, <1>3, <1>4, <1>5, <1>6, <1>7, <1>8, <1>9, <1>10, <1>11
     DEF Decide

LEMMA SubmitType == ASSUME TypeOK, Submit PROVE TypeOK'
<1> USE DEF vars, toolVars, runVars, srvVars, histVars, Goto
<1>1. CASE SubmitTooLate
  <2>1. mem' \in Metadata
    BY <1>1 DEF SubmitTooLate, NothingToDeploy, TypeOK, Metadata
  <2>2. owed' \in OptKeys
    BY <1>1, KeyFacts DEF SubmitTooLate, TypeOK, Seen
  <2>. QED BY <1>1, <2>1, <2>2 DEF SubmitTooLate, NothingToDeploy, TypeOK, PCs
<1>2. CASE SubmitCapped
  <2>1. mem' \in Metadata
    BY <1>2, IssuanceAssumption DEF SubmitCapped, MarkCapped, InMargin, TypeOK,
         Metadata, IssueStates, Keys, OptKeys
  <2>. QED BY <1>2, <2>1 DEF SubmitCapped, MarkCapped, InMargin, TypeOK, PCs
<1>3. CASE SubmitMarks
  <2>1. mem' \in Metadata
    BY <1>3, IssuanceAssumption DEF SubmitMarks, InMargin, TypeOK, Metadata,
         IssueStates, Keys, OptKeys
  <2>2. before' \in Metadata
    BY <1>3, <2>1, IssuanceAssumption DEF SubmitMarks, InMargin, TypeOK,
         Metadata, IssueStates, Keys, OptKeys
  <2>. QED BY <1>3, <2>1, <2>2 DEF SubmitMarks, InMargin, TypeOK, PCs
<1>4. CASE MarkSaved
  <2>1. disk' \in Metadata
    BY <1>4 DEF MarkSaved, SaveOK, TypeOK, Metadata
  <2>. QED BY <1>4, <2>1 DEF MarkSaved, SaveOK, TypeOK, PCs
<1>5. CASE MarkSaveFails
  <2>1. mem' \in Metadata
    BY <1>5, IssuanceAssumption DEF MarkSaveFails, Fault, SaveFails, TypeOK,
         Metadata, IssueStates, Keys, OptKeys
  <2>. QED BY <1>5, <2>1, IssuanceAssumption DEF MarkSaveFails, Fault,
       SaveFails, TypeOK, PCs
<1>6. CASE Generate
  <2>1. PICK k \in OwnKeys : pend' = k /\ used' = used \cup {k}
    BY <1>6 DEF Generate
  <2>2. k \in OptKeys /\ used' \in SUBSET Keys
    BY <2>1, KeyFacts DEF TypeOK
  <2>3. mem' = [mem EXCEPT !.count = @ + 1, !.hash = k, !.st = "processing",
                           !.resubmit = TRUE]
    BY <1>6, <2>1 DEF Generate
  <2>4. mem \in Metadata /\ mem.count + 1 \in Nat
    BY DEF TypeOK, Metadata
  <2>5. mem' \in Metadata
    BY <2>2, <2>3, <2>4 DEF Metadata, IssueStates
  <2>. QED BY <1>6, <2>1, <2>2, <2>5 DEF Generate, TypeOK, PCs
<1>7. CASE GenerateFails
  BY <1>7 DEF GenerateFails, TypeOK, PCs
<1>8. CASE IntentSaved
  <2>1. disk' \in Metadata
    BY <1>8 DEF IntentSaved, SaveOK, TypeOK, Metadata
  <2>. QED BY <1>8, <2>1 DEF IntentSaved, SaveOK, TypeOK, PCs
<1>9. CASE IntentSaveFails
  <2>1. mem' \in Metadata
    BY <1>9, IssuanceAssumption DEF IntentSaveFails, Fault, SaveFails, TypeOK,
         Metadata, IssueStates, Keys, OptKeys
  <2>. QED BY <1>9, <2>1, IssuanceAssumption DEF IntentSaveFails, Fault,
       SaveFails, TypeOK, PCs
<1>10. CASE Post
  <2>1. net' \in OptKeys
    BY <1>10 DEF Post, TypeOK, Metadata
  <2>. QED BY <1>10, <2>1 DEF Post, TypeOK, PCs
<1>. QED BY <1>1, <1>2, <1>3, <1>4, <1>5, <1>6, <1>7, <1>8, <1>9, <1>10 DEF
     Submit

LEMMA ReplyType == ASSUME TypeOK, Reply PROVE TypeOK'
<1> USE DEF vars, toolVars, runVars, srvVars, histVars, Goto
<1>1. CASE ReplyAccepted
  <2>1. mem' \in Metadata
    BY <1>1, IssuanceAssumption DEF ReplyAccepted, TypeOK, Metadata,
         IssueStates, Keys, OptKeys
  <2>. QED BY <1>1, <2>1 DEF ReplyAccepted, TypeOK, PCs
<1>2. CASE PostedSaved
  <2>1. disk' \in Metadata
    BY <1>2 DEF PostedSaved, SaveOK, TypeOK, Metadata
  <2>. QED BY <1>2, <2>1 DEF PostedSaved, SaveOK, TypeOK, PCs
<1>3. CASE PostedSaveFails
  BY <1>3, IssuanceAssumption DEF PostedSaveFails, Fault, SaveFails, TypeOK, PCs
<1>4. CASE ReplyAuth
  <2>1. mem' \in Metadata
    BY <1>4 DEF ReplyAuth, TypeOK, Metadata
  <2>2. attempts' \in Nat
    BY <1>4 DEF ReplyAuth, TypeOK
  <2>. QED BY <1>4, <2>1, <2>2 DEF ReplyAuth, TypeOK, PCs
<1>5. CASE ReplyRefused
  <2>1. mem' \in Metadata
    BY <1>5, IssuanceAssumption DEF ReplyRefused, Abandon, TypeOK, Metadata,
         IssueStates, Keys, OptKeys
  <2>. QED BY <1>5, <2>1 DEF ReplyRefused, Abandon, TypeOK, PCs
<1>6. CASE ReplyUncertain
  BY <1>6, IssuanceAssumption DEF ReplyUncertain, Fault, TypeOK, PCs
<1>. QED BY <1>1, <1>2, <1>3, <1>4, <1>5, <1>6 DEF Reply

LEMMA AdoptionType == ASSUME TypeOK, Adoption PROVE TypeOK'
<1> USE DEF vars, toolVars, runVars, srvVars, histVars, Goto
<1>1. CASE Deploy
  <2>1. iis' \in Keys /\ owed' \in OptKeys
    BY <1>1, KeyFacts DEF Deploy, TypeOK, Seen
  <2>. QED BY <1>1, <2>1 DEF Deploy, TypeOK, PCs
<1>2. CASE DeployFails
  <2>1. mem' \in Metadata
    BY <1>2, MarkCappedType DEF DeployFails, TypeOK
  <2>. QED BY <1>2, <2>1, IssuanceAssumption DEF DeployFails, Fault, TypeOK, PCs
<1>3. CASE Adopt
  <2>1. seen.cert \in OptKeys
    BY KeyFacts DEF TypeOK, Seen
  <2>2. mem' \in Metadata
    BY <1>3, <2>1, FreshFailedType DEF Adopt, TypeOK
  <2>. QED BY <1>3, <2>2 DEF Adopt, TypeOK, PCs
<1>4. CASE AdoptFails
  <2>1. mem' \in Metadata
    BY <1>4, MarkCappedType DEF AdoptFails, TypeOK
  <2>. QED BY <1>4, <2>1, IssuanceAssumption DEF AdoptFails, Fault, TypeOK, PCs
<1>5. CASE PromoteSaved
  BY <1>5 DEF PromoteSaved, TypeOK, PCs
<1>6. CASE PromoteRemoved
  <2>1. seen.cert \in OptKeys
    BY KeyFacts DEF TypeOK, Seen
  <2>2. mem' \in Metadata
    BY <1>6, <2>1, FreshFailedType DEF PromoteRemoved, TypeOK
  <2>. QED BY <1>6, <2>2 DEF PromoteRemoved, TypeOK, PCs
<1>7. CASE PromoteFails
  <2>1. mem' \in Metadata
    BY <1>7, MarkCappedType DEF PromoteFails, TypeOK
  <2>. QED BY <1>7, <2>1, IssuanceAssumption DEF PromoteFails, Fault, TypeOK,
       PCs
<1>8. CASE AcceptSaved
  <2>1. disk' \in Metadata
    BY <1>8 DEF AcceptSaved, SaveOK, TypeOK, Metadata
  <2>. QED BY <1>8, <2>1 DEF AcceptSaved, SaveOK, TypeOK, PCs
<1>9. CASE AcceptSaveFails
  <2>1. mem' \in Metadata
    BY <1>9, IssuanceAssumption DEF AcceptSaveFails, Fault, SaveFails, TypeOK,
         Metadata, IssueStates, Keys, OptKeys
  <2>. QED BY <1>9, <2>1, IssuanceAssumption DEF AcceptSaveFails, Fault,
       SaveFails, TypeOK, PCs
<1>. QED BY <1>1, <1>2, <1>3, <1>4, <1>5, <1>6, <1>7, <1>8, <1>9 DEF Adoption

LEMMA FinishType == ASSUME TypeOK, Finish PROVE TypeOK'
<1> USE DEF vars, toolVars, runVars, srvVars, histVars, Goto
<1>1. CASE FinishSaved
  <2>1. disk' \in Metadata
    BY <1>1 DEF FinishSaved, NoProgressClock, TypeOK, Metadata
  <2>2. seen' \in Seen /\ before' \in Metadata
    BY <1>1, NotSeenType, FreshType, KeyFacts DEF FinishSaved, EndRun
  <2>. QED BY <1>1, <2>1, <2>2, KeyFacts DEF FinishSaved, EndRun, TypeOK, PCs
<1>2. CASE FinishSaveFails
  <2>1. seen' \in Seen /\ before' \in Metadata
    BY <1>2, NotSeenType, FreshType, KeyFacts DEF FinishSaveFails, EndRun
  <2>. QED BY <1>2, <2>1, KeyFacts, IssuanceAssumption DEF FinishSaveFails,
       SaveFails, Fault, EndRun, TypeOK, PCs
<1>. QED BY <1>1, <1>2 DEF Finish

LEMMA ServerType == ASSUME TypeOK, Server PROVE TypeOK'
<1> USE DEF vars, toolVars, runVars, srvVars, histVars, Goto
<1>1. CASE ServerAccepts
  <2>1. srv' \in [status : OrderStatuses, csr : Keys]
    BY <1>1 DEF ServerAccepts, TypeOK, OrderStatuses, OptKeys
  <2>. QED BY <1>1, <2>1, KeyFacts DEF ServerAccepts, Answer, TypeOK, PCs
<1>2. CASE ServerRefuses
  BY <1>2, KeyFacts DEF ServerRefuses, Answer, TypeOK, PCs
<1>3. CASE RequestLost
  BY <1>3, KeyFacts, IssuanceAssumption DEF RequestLost, Fault, TypeOK
<1>4. CASE ServerIssues
  <2>1. srv' \in [status : OrderStatuses, csr : Keys]
    BY <1>4, IssuanceAssumption DEF ServerIssues, TypeOK, OrderStatuses, Keys,
         OptKeys
  <2>. QED BY <1>4, <2>1 DEF ServerIssues, TypeOK, PCs
<1>5. CASE ServerStops
  <2>1. srv' \in [status : OrderStatuses, csr : Keys]
    BY <1>5, IssuanceAssumption DEF ServerStops, TypeOK, OrderStatuses, Keys,
         OptKeys
  <2>. QED BY <1>5, <2>1 DEF ServerStops, TypeOK, PCs
<1>6. CASE ServerRecovers
  <2>1. srv' \in [status : OrderStatuses, csr : Keys]
    BY <1>6, IssuanceAssumption DEF ServerRecovers, TypeOK, OrderStatuses,
         Keys, OptKeys
  <2>. QED BY <1>6, <2>1 DEF ServerRecovers, TypeOK, PCs
<1>7. CASE OtherSubmits
  <2>1. srv' \in [status : OrderStatuses, csr : Keys]
    BY <1>7, IssuanceAssumption DEF OtherSubmits, TypeOK, OrderStatuses, Keys,
         OptKeys
  <2>. QED BY <1>7, <2>1 DEF OtherSubmits, TypeOK, PCs
<1>. QED BY <1>1, <1>2, <1>3, <1>4, <1>5, <1>6, <1>7 DEF Server

LEMMA StartRunType == ASSUME TypeOK, StartRun PROVE TypeOK'
<1> USE DEF vars, toolVars, runVars, srvVars, histVars, Goto
<1>1. CASE StartRun
  <2>1. hash0' \in OptKeys
    BY <1>1 DEF StartRun, TypeOK, Metadata
  <2>. QED BY <1>1, <2>1 DEF StartRun, TypeOK, PCs
<1>. QED BY <1>1

LEMMA CrashType == ASSUME TypeOK, Crash PROVE TypeOK'
<1> USE DEF vars, toolVars, runVars, srvVars, histVars, Goto
<1>1. CASE Crash
  <2>1. seen' \in Seen /\ before' \in Metadata
    BY <1>1, NotSeenType, FreshType, KeyFacts DEF Crash, EndRun
  <2>. QED BY <1>1, <2>1, KeyFacts, IssuanceAssumption DEF Crash, Fault,
       EndRun, TypeOK, PCs
<1>. QED BY <1>1

LEMMA AgeType == ASSUME TypeOK, Age PROVE TypeOK'
<1> USE DEF vars, toolVars, runVars, srvVars, histVars, Goto
<1>1. CASE Age
  <2>1. life' \in [Keys -> Lives]
    BY <1>1 DEF Age, NextLife, TypeOK, Lives
  <2>. QED BY <1>1, <2>1 DEF Age, TypeOK
<1>. QED BY <1>1
LEMMA TypeStep == ASSUME TypeOK, [Next]_vars PROVE TypeOK'
<1>1. CASE UNCHANGED vars
  BY <1>1 DEF TypeOK, vars, toolVars, runVars, srvVars, histVars
<1>2. CASE Run
  BY <1>2, StartRunType, GateType, StallType, DropType, QueryType,
       OwnershipType, DecideType, SubmitType, ReplyType, AdoptionType,
            FinishType DEF Run
<1>3. CASE Crash \/ Server \/ Age
  BY <1>3, CrashType, ServerType, AgeType
<1>. QED BY <1>1, <1>2, <1>3 DEF Next

LEMMA TypeInit == ASSUME Init PROVE TypeOK
<1>1. disk \in Metadata /\ before \in Metadata
  BY FreshType, KeyFacts DEF Init
<1>2. seen \in Seen
  BY NotSeenType DEF Init
<1>3. srv \in [status : OrderStatuses, csr : Keys] /\ life \in [Keys -> Lives]
  BY KeyFacts DEF Init, OrderStatuses, Lives
<1>. QED BY <1>1, <1>2, <1>3, KeyFacts, IssuanceAssumption DEF Init, TypeOK, PCs

\* Every variable keeps its type in every reachable state of the issuance life
\* cycle, whatever the keys, the retry limit and the number of faults.
THEOREM TypeCorrect == Spec => []TypeOK
BY TypeInit, TypeStep, PTL DEF Spec

(***************************************************************************)
(* The inductive invariant.                                                *)
(***************************************************************************)

LEMMA GateStep == ASSUME IInv, TypeOK', Gate PROVE IInv'
<1> USE DEF vars, toolVars, runVars, srvVars, histVars, Goto, IInv,
            Recoverable, CleanupSafe, IdleInv, ClosedInv, StallInv, OpenInv,
                 CleanInv, DropInv, NetInv, NoPendingInv, IntentInv,
                      AdoptionInv, SeenInv, Homed, Terminal, ClosedPCs,
                           OpenPCs, CleanPCs, AdoptionPCs
<1>1. CASE GateExpired
  BY <1>1, IssuanceAssumption DEF GateExpired, Expired, TypeOK, Metadata
<1>2. CASE GateClosed
  BY <1>2, IssuanceAssumption DEF GateClosed, Expired, TypeOK, Metadata
<1>3. CASE GateStall
  BY <1>3, IssuanceAssumption DEF GateStall, MarkCapped, GateOpen, Expired,
       TypeOK, Metadata
<1>4. CASE GatePass
  BY <1>4, IssuanceAssumption DEF GatePass, GateOpen, Expired, TypeOK, Metadata
<1>5. CASE GateSkip
  BY <1>5, IssuanceAssumption DEF GateSkip, Fault, GateOpen, Expired, TypeOK,
       Metadata
<1>. QED BY <1>1, <1>2, <1>3, <1>4, <1>5 DEF Gate

LEMMA StallStep == ASSUME IInv, TypeOK', Stall PROVE IInv'
<1> USE DEF vars, toolVars, runVars, srvVars, histVars, Goto, IInv,
            Recoverable, CleanupSafe, IdleInv, ClosedInv, StallInv, OpenInv,
                 CleanInv, DropInv, NetInv, NoPendingInv, IntentInv,
                      AdoptionInv, SeenInv, Homed, Terminal, ClosedPCs,
                           OpenPCs, CleanPCs, AdoptionPCs
<1>1. CASE StallSaved
  BY <1>1, IssuanceAssumption DEF StallSaved, SaveOK, TypeOK, Metadata
<1>2. CASE StallSaveFails
  BY <1>2, IssuanceAssumption DEF StallSaveFails, Fault, SaveFails, TypeOK,
       Metadata
<1>3. CASE StallRemoved
  BY <1>3, IssuanceAssumption DEF StallRemoved, TypeOK, Metadata
<1>4. CASE StallRemoveFails
  BY <1>4, IssuanceAssumption DEF StallRemoveFails, Fault, TypeOK, Metadata
<1>. QED BY <1>1, <1>2, <1>3, <1>4 DEF Stall

LEMMA DropStep == ASSUME IInv, TypeOK', Drop PROVE IInv'
<1> USE DEF vars, toolVars, runVars, srvVars, histVars, Goto, IInv,
            Recoverable, CleanupSafe, IdleInv, ClosedInv, StallInv, OpenInv,
                 CleanInv, DropInv, NetInv, NoPendingInv, IntentInv,
                      AdoptionInv, SeenInv, Homed, Terminal, ClosedPCs,
                           OpenPCs, CleanPCs, AdoptionPCs
<1>1. CASE DropSaved
  BY <1>1 DEF DropSaved, SaveOK
<1>2. CASE DropSaveFails
  BY <1>2, IssuanceAssumption DEF DropSaveFails, Fault, SaveFails, TypeOK,
       Metadata
<1>3. CASE DropRemoved
  BY <1>3, IssuanceAssumption DEF DropRemoved, TypeOK, Metadata
<1>4. CASE DropRemoveFails
  BY <1>4, IssuanceAssumption DEF DropRemoveFails, Fault, TypeOK, Metadata
<1>5. CASE DropDone
  <2>1. resume \in {"decide", "finish"}
    BY DEF TypeOK
  <2>. QED BY <1>5, <2>1 DEF DropDone, SaveOK
<1>6. CASE DropDoneFails
  BY <1>6, IssuanceAssumption DEF DropDoneFails, Fault, SaveFails, TypeOK,
       Metadata
<1>. QED BY <1>1, <1>2, <1>3, <1>4, <1>5, <1>6 DEF Drop

LEMMA QueryStep == ASSUME IInv, TypeOK', Query PROVE IInv'
<1> USE DEF vars, toolVars, runVars, srvVars, histVars, Goto, IInv,
            Recoverable, CleanupSafe, IdleInv, ClosedInv, StallInv, OpenInv,
                 CleanInv, DropInv, NetInv, NoPendingInv, IntentInv,
                      AdoptionInv, SeenInv, Homed, Terminal, ClosedPCs,
                           OpenPCs, CleanPCs, AdoptionPCs
<1>1. CASE QueryAnswered
  BY <1>1, IssuanceAssumption DEF QueryAnswered, TypeOK, Metadata
<1>2. CASE QueryFails
  BY <1>2, IssuanceAssumption DEF QueryFails, Fault, TypeOK, Metadata
<1>. QED BY <1>1, <1>2 DEF Query

LEMMA OwnershipStep == ASSUME IInv, TypeOK', Ownership PROVE IInv'
<1> USE DEF vars, toolVars, runVars, srvVars, histVars, Goto, IInv,
            Recoverable, CleanupSafe, IdleInv, ClosedInv, StallInv, OpenInv,
                 CleanInv, DropInv, NetInv, NoPendingInv, IntentInv,
                      AdoptionInv, SeenInv, Homed, Terminal, ClosedPCs,
                           OpenPCs, CleanPCs, AdoptionPCs
<1>1. CASE OwnNone
  BY <1>1, IssuanceAssumption DEF OwnNone, TypeOK, Metadata
<1>2. CASE OwnOrphan
  BY <1>2, IssuanceAssumption DEF OwnOrphan, Abandon, Discard, TypeOK, Metadata
<1>3. CASE OwnMismatch
  BY <1>3, IssuanceAssumption DEF OwnMismatch, Abandon, Discard, TypeOK,
       Metadata
<1>4. CASE OwnUnknown
  <2>1. /\ mem'.st = mem.st /\ mem'.hash = mem.hash
        /\ mem'.cleanup = mem.cleanup
    BY <1>4 DEF OwnUnknown, NothingToDeploy, TypeOK, Metadata
  <2>. QED BY <1>4, <2>1 DEF OwnUnknown, NothingToDeploy
<1>5. CASE OwnConfirmed
  BY <1>5, IssuanceAssumption DEF OwnConfirmed, TypeOK, Metadata
<1>6. CASE ConfirmSaved
  BY <1>6, IssuanceAssumption DEF ConfirmSaved, SaveOK, TypeOK, Metadata
<1>7. CASE ConfirmSaveFails
  BY <1>7, IssuanceAssumption DEF ConfirmSaveFails, Fault, SaveFails, TypeOK,
       Metadata
<1>. QED BY <1>1, <1>2, <1>3, <1>4, <1>5, <1>6, <1>7 DEF Ownership

LEMMA DecideStep == ASSUME IInv, TypeOK', Decide PROVE IInv'
<1> USE DEF vars, toolVars, runVars, srvVars, histVars, Goto, IInv,
            Recoverable, CleanupSafe, IdleInv, ClosedInv, StallInv, OpenInv,
                 CleanInv, DropInv, NetInv, NoPendingInv, IntentInv,
                      AdoptionInv, SeenInv, Homed, Terminal, ClosedPCs,
                           OpenPCs, CleanPCs, AdoptionPCs
<1>1. CASE DecideWaiting
  BY <1>1, IssuanceAssumption DEF DecideWaiting, NothingToDeploy, TypeOK,
       Metadata
<1>2. CASE DecideTerminal
  BY <1>2, IssuanceAssumption DEF DecideTerminal, TypeOK, Metadata
<1>3. CASE ForeignDeploys
  BY <1>3, IssuanceAssumption DEF ForeignDeploys, DecideActive, ForeignAction,
       StoredKeyPairs, ApiKeyPairs, LocalKeyPairs, TypeOK, Metadata
<1>4. CASE ForeignResubmits
  BY <1>4, IssuanceAssumption DEF ForeignResubmits, DecideActive,
       ForeignAction, StoredKeyPairs, ApiKeyPairs, LocalKeyPairs, TypeOK,
            Metadata
<1>5. CASE IssuedDeploys
  BY <1>5, IssuanceAssumption DEF IssuedDeploys, DecideActive, ForeignAction,
       WaitingForIssue, StoredKeyPairs, ApiKeyPairs, LocalKeyPairs,
            IssuedKeyFound, TypeOK, Metadata
<1>6. CASE IssuedKeyMissing
  BY <1>6, IssuanceAssumption DEF IssuedKeyMissing, DecideActive,
       ForeignAction, WaitingForIssue, StoredKeyPairs, ApiKeyPairs,
            LocalKeyPairs, TypeOK, Metadata
<1>7. CASE ResetSaved
  BY <1>7 DEF ResetSaved, SaveOK
<1>8. CASE ResetSaveFails
  BY <1>8, IssuanceAssumption DEF ResetSaveFails, Fault, SaveFails, TypeOK,
       Metadata
<1>9. CASE RetryBindings
  BY <1>9, IssuanceAssumption DEF RetryBindings, DecideActive, ForeignAction,
       WaitingForIssue, Settled, StoredKeyPairs, ApiKeyPairs, LocalKeyPairs,
            TypeOK, Metadata
<1>10. CASE HealthySkip
  <2>1. /\ mem'.st = mem.st /\ mem'.hash = mem.hash
        /\ mem'.cleanup = mem.cleanup
    BY <1>10 DEF HealthySkip, NothingToDeploy, TypeOK, Metadata
  <2>. QED BY <1>10, <2>1 DEF HealthySkip, NothingToDeploy, Settled,
       DecideActive, WaitingForIssue
<1>11. CASE RenewalDue
  <2>1. /\ mem'.st = "" /\ mem'.hash = mem.hash
        /\ mem'.cleanup = mem.cleanup
    BY <1>11 DEF RenewalDue, TypeOK, Metadata
  <2>. QED BY <1>11, <2>1 DEF RenewalDue, Settled, DecideActive, WaitingForIssue
<1>. QED BY <1>1, <1>2, <1>3, <1>4, <1>5, <1>6, <1>7, <1>8, <1>9, <1>10, <1>11
     DEF Decide

LEMMA SubmitStep == ASSUME IInv, TypeOK', Submit PROVE IInv'
<1> USE DEF vars, toolVars, runVars, srvVars, histVars, Goto, IInv,
            Recoverable, CleanupSafe, IdleInv, ClosedInv, StallInv, OpenInv,
                 CleanInv, DropInv, NetInv, NoPendingInv, IntentInv,
                      AdoptionInv, SeenInv, Homed, Terminal, ClosedPCs,
                           OpenPCs, CleanPCs, AdoptionPCs
<1>1. CASE SubmitTooLate
  <2>1. /\ mem'.st = mem.st /\ mem'.hash = mem.hash
        /\ mem'.cleanup = mem.cleanup
    BY <1>1 DEF SubmitTooLate, NothingToDeploy, TypeOK, Metadata
  <2>. QED BY <1>1, <2>1 DEF SubmitTooLate, NothingToDeploy
<1>2. CASE SubmitCapped
  BY <1>2, IssuanceAssumption DEF SubmitCapped, MarkCapped, InMargin, TypeOK,
       Metadata
<1>3. CASE SubmitMarks
  BY <1>3, IssuanceAssumption DEF SubmitMarks, InMargin, TypeOK, Metadata
<1>4. CASE MarkSaved
  BY <1>4 DEF MarkSaved, SaveOK
<1>5. CASE MarkSaveFails
  BY <1>5, IssuanceAssumption DEF MarkSaveFails, Fault, SaveFails, TypeOK,
       Metadata
<1>6. CASE Generate
  BY <1>6, IssuanceAssumption DEF Generate, TypeOK, Metadata
<1>7. CASE GenerateFails
  BY <1>7, IssuanceAssumption DEF GenerateFails, TypeOK, Metadata
<1>8. CASE IntentSaved
  BY <1>8 DEF IntentSaved, SaveOK
<1>9. CASE IntentSaveFails
  BY <1>9, IssuanceAssumption DEF IntentSaveFails, Fault, SaveFails, TypeOK,
       Metadata
<1>10. CASE Post
  BY <1>10, IssuanceAssumption DEF Post, TypeOK, Metadata
<1>. QED BY <1>1, <1>2, <1>3, <1>4, <1>5, <1>6, <1>7, <1>8, <1>9, <1>10 DEF
     Submit

LEMMA ReplyStep == ASSUME IInv, TypeOK', Reply PROVE IInv'
<1> USE DEF vars, toolVars, runVars, srvVars, histVars, Goto, IInv,
            Recoverable, CleanupSafe, IdleInv, ClosedInv, StallInv, OpenInv,
                 CleanInv, DropInv, NetInv, NoPendingInv, IntentInv,
                      AdoptionInv, SeenInv, Homed, Terminal, ClosedPCs,
                           OpenPCs, CleanPCs, AdoptionPCs
<1>1. CASE ReplyAccepted
  <2>1. /\ mem'.st = "processing" /\ mem'.hash = mem.hash
        /\ mem'.cleanup = mem.cleanup
    BY <1>1 DEF ReplyAccepted, TypeOK, Metadata
  <2>. QED BY <1>1, <2>1 DEF ReplyAccepted
<1>2. CASE PostedSaved
  BY <1>2, IssuanceAssumption DEF PostedSaved, SaveOK, TypeOK, Metadata
<1>3. CASE PostedSaveFails
  BY <1>3, IssuanceAssumption DEF PostedSaveFails, Fault, SaveFails, TypeOK,
       Metadata
<1>4. CASE ReplyAuth
  BY <1>4, IssuanceAssumption DEF ReplyAuth, TypeOK, Metadata
<1>5. CASE ReplyRefused
  BY <1>5, IssuanceAssumption DEF ReplyRefused, Abandon, TypeOK, Metadata
<1>6. CASE ReplyUncertain
  BY <1>6, IssuanceAssumption DEF ReplyUncertain, Fault, TypeOK, Metadata
<1>. QED BY <1>1, <1>2, <1>3, <1>4, <1>5, <1>6 DEF Reply

LEMMA AdoptionStep == ASSUME IInv, TypeOK', Adoption PROVE IInv'
<1> USE DEF vars, toolVars, runVars, srvVars, histVars, Goto, IInv,
            Recoverable, CleanupSafe, IdleInv, ClosedInv, StallInv, OpenInv,
                 CleanInv, DropInv, NetInv, NoPendingInv, IntentInv,
                      AdoptionInv, SeenInv, Homed, Terminal, ClosedPCs,
                           OpenPCs, CleanPCs, AdoptionPCs
<1>1. CASE Deploy
  BY <1>1, IssuanceAssumption DEF Deploy, TypeOK, Metadata
<1>2. CASE DeployFails
  BY <1>2, IssuanceAssumption DEF DeployFails, Fault, MarkCapped, TypeOK,
       Metadata
<1>3. CASE Adopt
  <2>1. CASE pend # NoKey
    BY <1>3, <2>1 DEF Adopt
  <2>2. CASE pend = NoKey
    <3>1. mem'.cleanup = FALSE /\ mem'.st = ""
      BY <1>3, <2>2 DEF Adopt, Fresh
    <3>2. net = NoKey /\ Homed
      BY <1>3, <2>2, IssuanceAssumption DEF Adopt
    <3>3. /\ pc' = "accept_save"
          /\ UNCHANGED <<disk, pend, official, iis, seen, own, resume, srv,
               net, reply>>
      BY <1>3, <2>2 DEF Adopt
    <3>. QED BY <1>3, <2>2, <3>1, <3>2, <3>3, IssuanceAssumption DEF Adopt
  <2>. QED BY <2>1, <2>2
<1>4. CASE AdoptFails
  BY <1>4, IssuanceAssumption DEF AdoptFails, Fault, MarkCapped, TypeOK,
       Metadata
<1>5. CASE PromoteSaved
  BY <1>5, IssuanceAssumption DEF PromoteSaved, TypeOK, Metadata
<1>6. CASE PromoteRemoved
  BY <1>6, IssuanceAssumption DEF PromoteRemoved, Fresh, TypeOK, Metadata
<1>7. CASE PromoteFails
  BY <1>7, IssuanceAssumption DEF PromoteFails, Fault, MarkCapped, TypeOK,
       Metadata
<1>8. CASE AcceptSaved
  BY <1>8, IssuanceAssumption DEF AcceptSaved, SaveOK, TypeOK, Metadata
<1>9. CASE AcceptSaveFails
  BY <1>9, IssuanceAssumption DEF AcceptSaveFails, Fault, SaveFails, TypeOK,
       Metadata
<1>. QED BY <1>1, <1>2, <1>3, <1>4, <1>5, <1>6, <1>7, <1>8, <1>9 DEF Adoption

LEMMA FinishStep == ASSUME IInv, TypeOK', Finish PROVE IInv'
<1> USE DEF vars, toolVars, runVars, srvVars, histVars, Goto, IInv,
            Recoverable, CleanupSafe, IdleInv, ClosedInv, StallInv, OpenInv,
                 CleanInv, DropInv, NetInv, NoPendingInv, IntentInv,
                      AdoptionInv, SeenInv, Homed, Terminal, ClosedPCs,
                           OpenPCs, CleanPCs, AdoptionPCs
<1>1. CASE FinishSaved
  BY <1>1, IssuanceAssumption DEF FinishSaved, EndRun, NoProgressClock, Fresh,
       NotSeen, TypeOK, Metadata
<1>2. CASE FinishSaveFails
  BY <1>2, IssuanceAssumption DEF FinishSaveFails, EndRun, Fault, SaveFails,
       Fresh, NotSeen, TypeOK, Metadata
<1>. QED BY <1>1, <1>2 DEF Finish

LEMMA ServerStep == ASSUME IInv, TypeOK', Server PROVE IInv'
<1> USE DEF vars, toolVars, runVars, srvVars, histVars, Goto, IInv,
            Recoverable, CleanupSafe, IdleInv, ClosedInv, StallInv, OpenInv,
                 CleanInv, DropInv, NetInv, NoPendingInv, IntentInv,
                      AdoptionInv, SeenInv, Homed, Terminal, ClosedPCs,
                           OpenPCs, CleanPCs, AdoptionPCs
<1>1. CASE ServerAccepts
  BY <1>1, IssuanceAssumption DEF ServerAccepts, Answer, TypeOK, Metadata
<1>2. CASE ServerRefuses
  BY <1>2, IssuanceAssumption DEF ServerRefuses, Answer, TypeOK, Metadata
<1>3. CASE RequestLost
  BY <1>3, IssuanceAssumption DEF RequestLost, Fault, TypeOK, Metadata
<1>4. CASE ServerIssues
  BY <1>4, IssuanceAssumption DEF ServerIssues, TypeOK, Metadata
<1>5. CASE ServerStops
  BY <1>5, IssuanceAssumption DEF ServerStops, TypeOK, Metadata
<1>6. CASE ServerRecovers
  BY <1>6, IssuanceAssumption DEF ServerRecovers, TypeOK, Metadata
<1>7. CASE OtherSubmits
  BY <1>7, IssuanceAssumption DEF OtherSubmits, TypeOK, Metadata
<1>. QED BY <1>1, <1>2, <1>3, <1>4, <1>5, <1>6, <1>7 DEF Server

LEMMA StartRunStep == ASSUME IInv, TypeOK', StartRun PROVE IInv'
<1> USE DEF vars, toolVars, runVars, srvVars, histVars, Goto, IInv,
            Recoverable, CleanupSafe, IdleInv, ClosedInv, StallInv, OpenInv,
                 CleanInv, DropInv, NetInv, NoPendingInv, IntentInv,
                      AdoptionInv, SeenInv, Homed, Terminal, ClosedPCs,
                           OpenPCs, CleanPCs, AdoptionPCs
<1>1. CASE StartRun
  BY <1>1, IssuanceAssumption DEF StartRun, TypeOK, Metadata
<1>. QED BY <1>1 DEF IInv

LEMMA CrashStep == ASSUME IInv, TypeOK', Crash PROVE IInv'
<1> USE DEF vars, toolVars, runVars, srvVars, histVars, Goto, IInv,
            Recoverable, CleanupSafe, IdleInv, ClosedInv, StallInv, OpenInv,
                 CleanInv, DropInv, NetInv, NoPendingInv, IntentInv,
                      AdoptionInv, SeenInv, Homed, Terminal, ClosedPCs,
                           OpenPCs, CleanPCs, AdoptionPCs
<1>1. CASE Crash
  BY <1>1 DEF Crash, EndRun
<1>. QED BY <1>1 DEF IInv

LEMMA AgeStep == ASSUME IInv, TypeOK', Age PROVE IInv'
<1> USE DEF vars, toolVars, runVars, srvVars, histVars, Goto, IInv,
            Recoverable, CleanupSafe, IdleInv, ClosedInv, StallInv, OpenInv,
                 CleanInv, DropInv, NetInv, NoPendingInv, IntentInv,
                      AdoptionInv, SeenInv, Homed, Terminal, ClosedPCs,
                           OpenPCs, CleanPCs, AdoptionPCs
<1>1. CASE Age
  BY <1>1, IssuanceAssumption DEF Age, NextLife, TypeOK, Metadata
<1>. QED BY <1>1 DEF IInv
LEMMA InvStep == ASSUME IInv, [Next]_vars PROVE IInv'
<1>0. TypeOK'
  BY TypeStep DEF IInv
<1>1. CASE UNCHANGED vars
  BY <1>1 DEF IInv, TypeOK, Recoverable, CleanupSafe, IdleInv, ClosedInv, StallInv, OpenInv, CleanInv, DropInv, NetInv, NoPendingInv, IntentInv, AdoptionInv, SeenInv, Homed, vars, toolVars, runVars, srvVars, histVars
<1>2. CASE Run
  BY <1>2, StartRunStep, GateStep, StallStep, DropStep, QueryStep, OwnershipStep, DecideStep, SubmitStep, ReplyStep, AdoptionStep, FinishStep, <1>0 DEF Run
<1>3. CASE Crash \/ Server \/ Age
  BY <1>3, CrashStep, ServerStep, AgeStep, <1>0
<1>. QED BY <1>1, <1>2, <1>3 DEF Next

LEMMA InvInit == ASSUME Init PROVE IInv
<1>1. TypeOK
  BY TypeInit
<1>2. disk = Fresh(FirstKey) \/ disk = Fresh(NoKey)
  BY DEF Init
<1>3. disk.cleanup = FALSE /\ disk.st = ""
  BY <1>2, FreshFields
<1>4. /\ srv.csr \notin OwnKeys /\ net = NoKey /\ pc = "idle" /\ mem = disk
      /\ resume = "finish"
  BY IssuanceAssumption DEF Init
<1>. QED BY <1>1, <1>3, <1>4, IssuanceAssumption
        DEF IInv, Recoverable, CleanupSafe, IdleInv, ClosedInv, StallInv, OpenInv,
            CleanInv, DropInv, NetInv, NoPendingInv, IntentInv, AdoptionInv, SeenInv,
            Homed, Terminal, ClosedPCs, OpenPCs, CleanPCs, AdoptionPCs

LEMMA Invariance == Spec => []IInv
BY InvInit, InvStep, PTL DEF Spec

\* A crash, a failed write or a lost answer never costs the private key of a
\* CSR that the server may have accepted: the pending key, its intent on disk
\* and the key stored with the order hand over to each other in that order.
THEOREM RecoverableAlways == Spec => []AcceptedKeyRecoverable
<1>1. IInv => AcceptedKeyRecoverable
  BY DEF IInv, Recoverable, AcceptedKeyRecoverable
<1>. QED BY <1>1, Invariance, PTL

\* submitNewCSR finds neither a pending key nor an unfinished clean-up.
THEOREM SubmitStartsCleanAlways == Spec => []SubmitStartsClean
<1>1. IInv => SubmitStartsClean
  BY DEF IInv, NoPendingInv, CleanInv, CleanPCs, SubmitStartsClean
<1>. QED BY <1>1, Invariance, PTL

(***************************************************************************)
(* A closed certificate.                                                   *)
(***************************************************************************)

(* What ClosedIsFinal allows a step to do. *)
StaysClosed ==
  disk.st \in Terminal
    => disk'.st \in Terminal /\ iis' = iis /\ net' \in {net, NoKey}

LEMMA GateFinal == ASSUME TypeOK, ClosedInv, Gate PROVE StaysClosed
<1> USE DEF toolVars, srvVars, Goto, StaysClosed, ClosedInv, ClosedPCs
<1>1. CASE GateExpired
  BY <1>1 DEF GateExpired
<1>2. CASE GateClosed
  BY <1>2 DEF GateClosed
<1>3. CASE GateStall
  BY <1>3 DEF GateStall, GateOpen
<1>4. CASE GatePass
  BY <1>4 DEF GatePass, GateOpen
<1>5. CASE GateSkip
  BY <1>5 DEF GateSkip, GateOpen
<1>. QED BY <1>1, <1>2, <1>3, <1>4, <1>5 DEF Gate

LEMMA StallFinal == ASSUME TypeOK, ClosedInv, Stall PROVE StaysClosed
<1> USE DEF toolVars, srvVars, Goto, StaysClosed, ClosedInv, ClosedPCs
<1>1. CASE StallSaved
  BY <1>1 DEF StallSaved, SaveOK
<1>2. CASE StallSaveFails
  BY <1>2 DEF StallSaveFails, SaveFails
<1>3. CASE StallRemoved
  BY <1>3 DEF StallRemoved
<1>4. CASE StallRemoveFails
  BY <1>4 DEF StallRemoveFails
<1>. QED BY <1>1, <1>2, <1>3, <1>4 DEF Stall

LEMMA DropFinal == ASSUME TypeOK, ClosedInv, Drop PROVE StaysClosed
<1> USE DEF toolVars, srvVars, Goto, StaysClosed, ClosedInv, ClosedPCs
<1>1. CASE DropSaved
  BY <1>1 DEF DropSaved, SaveOK
<1>2. CASE DropSaveFails
  BY <1>2 DEF DropSaveFails, SaveFails
<1>3. CASE DropRemoved
  BY <1>3 DEF DropRemoved
<1>4. CASE DropRemoveFails
  BY <1>4 DEF DropRemoveFails
<1>5. CASE DropDone
  BY <1>5 DEF DropDone, SaveOK
<1>6. CASE DropDoneFails
  BY <1>6 DEF DropDoneFails, SaveFails
<1>. QED BY <1>1, <1>2, <1>3, <1>4, <1>5, <1>6 DEF Drop

LEMMA QueryFinal == ASSUME TypeOK, ClosedInv, Query PROVE StaysClosed
<1> USE DEF toolVars, srvVars, Goto, StaysClosed, ClosedInv, ClosedPCs
<1>1. CASE QueryAnswered
  BY <1>1 DEF QueryAnswered
<1>2. CASE QueryFails
  BY <1>2 DEF QueryFails
<1>. QED BY <1>1, <1>2 DEF Query

LEMMA OwnershipFinal == ASSUME TypeOK, ClosedInv, Ownership PROVE StaysClosed
<1> USE DEF toolVars, srvVars, Goto, StaysClosed, ClosedInv, ClosedPCs
<1>1. CASE OwnNone
  BY <1>1 DEF OwnNone
<1>2. CASE OwnOrphan
  BY <1>2 DEF OwnOrphan, Discard
<1>3. CASE OwnMismatch
  BY <1>3 DEF OwnMismatch, Discard
<1>4. CASE OwnUnknown
  BY <1>4 DEF OwnUnknown
<1>5. CASE OwnConfirmed
  BY <1>5 DEF OwnConfirmed
<1>6. CASE ConfirmSaved
  BY <1>6 DEF ConfirmSaved, SaveOK
<1>7. CASE ConfirmSaveFails
  BY <1>7 DEF ConfirmSaveFails, SaveFails
<1>. QED BY <1>1, <1>2, <1>3, <1>4, <1>5, <1>6, <1>7 DEF Ownership

LEMMA DecideFinal == ASSUME TypeOK, ClosedInv, Decide PROVE StaysClosed
<1> USE DEF toolVars, srvVars, Goto, StaysClosed, ClosedInv, ClosedPCs
<1>1. CASE DecideWaiting
  BY <1>1 DEF DecideWaiting
<1>2. CASE DecideTerminal
  BY <1>2 DEF DecideTerminal
<1>3. CASE ForeignDeploys
  BY <1>3 DEF ForeignDeploys, DecideActive
<1>4. CASE ForeignResubmits
  BY <1>4 DEF ForeignResubmits, DecideActive
<1>5. CASE IssuedDeploys
  BY <1>5 DEF IssuedDeploys, DecideActive
<1>6. CASE IssuedKeyMissing
  BY <1>6 DEF IssuedKeyMissing, DecideActive
<1>7. CASE ResetSaved
  BY <1>7 DEF ResetSaved, SaveOK
<1>8. CASE ResetSaveFails
  BY <1>8 DEF ResetSaveFails, SaveFails
<1>9. CASE RetryBindings
  BY <1>9 DEF RetryBindings, DecideActive, Settled
<1>10. CASE HealthySkip
  BY <1>10 DEF HealthySkip, DecideActive, Settled
<1>11. CASE RenewalDue
  BY <1>11 DEF RenewalDue, DecideActive, Settled
<1>. QED BY <1>1, <1>2, <1>3, <1>4, <1>5, <1>6, <1>7, <1>8, <1>9, <1>10, <1>11
     DEF Decide

LEMMA SubmitFinal == ASSUME TypeOK, ClosedInv, Submit PROVE StaysClosed
<1> USE DEF toolVars, srvVars, Goto, StaysClosed, ClosedInv, ClosedPCs
<1>1. CASE SubmitTooLate
  BY <1>1 DEF SubmitTooLate
<1>2. CASE SubmitCapped
  BY <1>2 DEF SubmitCapped
<1>3. CASE SubmitMarks
  BY <1>3 DEF SubmitMarks
<1>4. CASE MarkSaved
  BY <1>4 DEF MarkSaved, SaveOK
<1>5. CASE MarkSaveFails
  BY <1>5 DEF MarkSaveFails, SaveFails
<1>6. CASE Generate
  BY <1>6 DEF Generate
<1>7. CASE GenerateFails
  BY <1>7 DEF GenerateFails
<1>8. CASE IntentSaved
  BY <1>8 DEF IntentSaved, SaveOK
<1>9. CASE IntentSaveFails
  BY <1>9 DEF IntentSaveFails, SaveFails
<1>10. CASE Post
  BY <1>10 DEF Post
<1>. QED BY <1>1, <1>2, <1>3, <1>4, <1>5, <1>6, <1>7, <1>8, <1>9, <1>10 DEF
     Submit

LEMMA ReplyFinal == ASSUME TypeOK, ClosedInv, Reply PROVE StaysClosed
<1> USE DEF toolVars, srvVars, Goto, StaysClosed, ClosedInv, ClosedPCs
<1>1. CASE ReplyAccepted
  BY <1>1 DEF ReplyAccepted
<1>2. CASE PostedSaved
  BY <1>2 DEF PostedSaved, SaveOK
<1>3. CASE PostedSaveFails
  BY <1>3 DEF PostedSaveFails, SaveFails
<1>4. CASE ReplyAuth
  BY <1>4 DEF ReplyAuth
<1>5. CASE ReplyRefused
  BY <1>5 DEF ReplyRefused
<1>6. CASE ReplyUncertain
  BY <1>6 DEF ReplyUncertain
<1>. QED BY <1>1, <1>2, <1>3, <1>4, <1>5, <1>6 DEF Reply

LEMMA AdoptionFinal == ASSUME TypeOK, ClosedInv, Adoption PROVE StaysClosed
<1> USE DEF toolVars, srvVars, Goto, StaysClosed, ClosedInv, ClosedPCs
<1>1. CASE Deploy
  BY <1>1 DEF Deploy
<1>2. CASE DeployFails
  BY <1>2 DEF DeployFails
<1>3. CASE Adopt
  BY <1>3 DEF Adopt
<1>4. CASE AdoptFails
  BY <1>4 DEF AdoptFails
<1>5. CASE PromoteSaved
  BY <1>5 DEF PromoteSaved
<1>6. CASE PromoteRemoved
  BY <1>6 DEF PromoteRemoved
<1>7. CASE PromoteFails
  BY <1>7 DEF PromoteFails
<1>8. CASE AcceptSaved
  BY <1>8 DEF AcceptSaved, SaveOK
<1>9. CASE AcceptSaveFails
  BY <1>9 DEF AcceptSaveFails, SaveFails
<1>. QED BY <1>1, <1>2, <1>3, <1>4, <1>5, <1>6, <1>7, <1>8, <1>9 DEF Adoption

LEMMA FinishFinal == ASSUME TypeOK, ClosedInv, Finish PROVE StaysClosed
<1> USE DEF toolVars, srvVars, Goto, StaysClosed, ClosedInv, ClosedPCs
<1>1. CASE FinishSaved
  BY <1>1 DEF FinishSaved, EndRun
<1>2. CASE FinishSaveFails
  BY <1>2 DEF FinishSaveFails, EndRun, SaveFails
<1>. QED BY <1>1, <1>2 DEF Finish

LEMMA ServerFinal == ASSUME TypeOK, ClosedInv, Server PROVE StaysClosed
<1> USE DEF toolVars, srvVars, Goto, StaysClosed, ClosedInv, ClosedPCs
<1>1. CASE ServerAccepts
  BY <1>1 DEF ServerAccepts
<1>2. CASE ServerRefuses
  BY <1>2 DEF ServerRefuses
<1>3. CASE RequestLost
  BY <1>3 DEF RequestLost
<1>4. CASE ServerIssues
  BY <1>4 DEF ServerIssues
<1>5. CASE ServerStops
  BY <1>5 DEF ServerStops
<1>6. CASE ServerRecovers
  BY <1>6 DEF ServerRecovers
<1>7. CASE OtherSubmits
  BY <1>7 DEF OtherSubmits
<1>. QED BY <1>1, <1>2, <1>3, <1>4, <1>5, <1>6, <1>7 DEF Server

LEMMA StartRunFinal == ASSUME TypeOK, ClosedInv, StartRun PROVE StaysClosed
<1> USE DEF toolVars, srvVars, Goto, StaysClosed, ClosedInv, ClosedPCs
<1>1. CASE StartRun
  BY <1>1 DEF StartRun
<1>. QED BY <1>1 DEF StaysClosed

LEMMA CrashFinal == ASSUME TypeOK, ClosedInv, Crash PROVE StaysClosed
<1> USE DEF toolVars, srvVars, Goto, StaysClosed, ClosedInv, ClosedPCs
<1>1. CASE Crash
  BY <1>1 DEF Crash, EndRun
<1>. QED BY <1>1 DEF StaysClosed

LEMMA AgeFinal == ASSUME TypeOK, ClosedInv, Age PROVE StaysClosed
<1> USE DEF toolVars, srvVars, Goto, StaysClosed, ClosedInv, ClosedPCs
<1>1. CASE Age
  BY <1>1 DEF Age
<1>. QED BY <1>1 DEF StaysClosed

LEMMA StepClosed == ASSUME TypeOK, ClosedInv, [Next]_vars PROVE StaysClosed
<1>1. CASE UNCHANGED vars
  BY <1>1 DEF StaysClosed, toolVars, srvVars, vars
<1>2. CASE Run
  BY <1>2, StartRunFinal, GateFinal, StallFinal, DropFinal, QueryFinal, OwnershipFinal, DecideFinal, SubmitFinal, ReplyFinal, AdoptionFinal, FinishFinal DEF Run
<1>3. CASE Crash \/ Server \/ Age
  BY <1>3, CrashFinal, ServerFinal, AgeFinal
<1>. QED BY <1>1, <1>2, <1>3 DEF Next

\* CAPPED and EXPIRED are final: no schedule of runs, crashes and answers makes
\* the tool deploy or submit anything for a closed certificate.
THEOREM ClosedIsFinalAlways == Spec => ClosedIsFinal
<1>1. IInv /\ [Next]_vars => [StaysClosed]_vars
  BY StepClosed DEF IInv
<1>. QED BY <1>1, Invariance, PTL DEF Spec, ClosedIsFinal, StaysClosed

(***************************************************************************)
(* The number of submissions.                                              *)
(***************************************************************************)

(* The counter on disk is ahead of the submissions the server may have seen. *)
CountInv ==
  /\ attempts <= disk.count
  /\ pc # "accept_save" => attempts <= mem.count
  /\ pc \in {"reset_save", "mark_save", "intent_save", "post", "adopt",
            "promote_save", "promote_remove", "accept_save"}
       => attempts <= before.count
  /\ pc = "intent_save" => attempts < mem.count
  /\ pc = "post" => attempts < mem.count /\ attempts < disk.count
  /\ pc = "wait" => attempts - 1 <= before.count
  /\ disk.count <= MaxIssueRetries /\ mem.count <= MaxIssueRetries
  /\ before.count <= MaxIssueRetries
  /\ pc \in {"mark_save", "gen"} => mem.count < MaxIssueRetries

LEMMA GateCount ==
  ASSUME TypeOK, IdleInv, CountInv, Gate PROVE CountInv'
<1> USE DEF vars, toolVars, runVars, srvVars, histVars, Goto, CountInv, IdleInv
<1>1. CASE GateExpired
  BY <1>1, IssuanceAssumption DEF GateExpired, Expired, TypeOK, Metadata
<1>2. CASE GateClosed
  BY <1>2, IssuanceAssumption DEF GateClosed, Expired, TypeOK, Metadata
<1>3. CASE GateStall
  BY <1>3, IssuanceAssumption DEF GateStall, MarkCapped, GateOpen, Expired,
       TypeOK, Metadata
<1>4. CASE GatePass
  BY <1>4, IssuanceAssumption DEF GatePass, GateOpen, Expired, TypeOK, Metadata
<1>5. CASE GateSkip
  BY <1>5, IssuanceAssumption DEF GateSkip, Fault, GateOpen, Expired, TypeOK,
       Metadata
<1>. QED BY <1>1, <1>2, <1>3, <1>4, <1>5 DEF Gate

LEMMA StallCount ==
  ASSUME TypeOK, IdleInv, CountInv, Stall PROVE CountInv'
<1> USE DEF vars, toolVars, runVars, srvVars, histVars, Goto, CountInv, IdleInv
<1>1. CASE StallSaved
  BY <1>1, IssuanceAssumption DEF StallSaved, SaveOK, TypeOK, Metadata
<1>2. CASE StallSaveFails
  BY <1>2, IssuanceAssumption DEF StallSaveFails, Fault, SaveFails, TypeOK,
       Metadata
<1>3. CASE StallRemoved
  BY <1>3, IssuanceAssumption DEF StallRemoved, TypeOK, Metadata
<1>4. CASE StallRemoveFails
  BY <1>4, IssuanceAssumption DEF StallRemoveFails, Fault, TypeOK, Metadata
<1>. QED BY <1>1, <1>2, <1>3, <1>4 DEF Stall

LEMMA DropCount ==
  ASSUME TypeOK, IdleInv, CountInv, Drop PROVE CountInv'
<1> USE DEF vars, toolVars, runVars, srvVars, histVars, Goto, CountInv, IdleInv
<1>1. CASE DropSaved
  BY <1>1, IssuanceAssumption DEF DropSaved, SaveOK, TypeOK, Metadata
<1>2. CASE DropSaveFails
  BY <1>2, IssuanceAssumption DEF DropSaveFails, Fault, SaveFails, TypeOK,
       Metadata
<1>3. CASE DropRemoved
  BY <1>3, IssuanceAssumption DEF DropRemoved, TypeOK, Metadata
<1>4. CASE DropRemoveFails
  BY <1>4, IssuanceAssumption DEF DropRemoveFails, Fault, TypeOK, Metadata
<1>5. CASE DropDone
  BY <1>5, IssuanceAssumption DEF DropDone, SaveOK, TypeOK, Metadata
<1>6. CASE DropDoneFails
  BY <1>6, IssuanceAssumption DEF DropDoneFails, Fault, SaveFails, TypeOK,
       Metadata
<1>. QED BY <1>1, <1>2, <1>3, <1>4, <1>5, <1>6 DEF Drop

LEMMA QueryCount ==
  ASSUME TypeOK, IdleInv, CountInv, Query PROVE CountInv'
<1> USE DEF vars, toolVars, runVars, srvVars, histVars, Goto, CountInv, IdleInv
<1>1. CASE QueryAnswered
  BY <1>1, IssuanceAssumption DEF QueryAnswered, TypeOK, Metadata
<1>2. CASE QueryFails
  BY <1>2, IssuanceAssumption DEF QueryFails, Fault, TypeOK, Metadata
<1>. QED BY <1>1, <1>2 DEF Query

LEMMA OwnershipCount ==
  ASSUME TypeOK, IdleInv, CountInv, Ownership PROVE CountInv'
<1> USE DEF vars, toolVars, runVars, srvVars, histVars, Goto, CountInv, IdleInv
<1>1. CASE OwnNone
  BY <1>1, IssuanceAssumption DEF OwnNone, TypeOK, Metadata
<1>2. CASE OwnOrphan
  BY <1>2, IssuanceAssumption DEF OwnOrphan, Abandon, Discard, TypeOK, Metadata
<1>3. CASE OwnMismatch
  BY <1>3, IssuanceAssumption DEF OwnMismatch, Abandon, Discard, TypeOK,
       Metadata
<1>4. CASE OwnUnknown
  BY <1>4, IssuanceAssumption DEF OwnUnknown, NothingToDeploy, TypeOK, Metadata
<1>5. CASE OwnConfirmed
  BY <1>5, IssuanceAssumption DEF OwnConfirmed, TypeOK, Metadata
<1>6. CASE ConfirmSaved
  BY <1>6, IssuanceAssumption DEF ConfirmSaved, SaveOK, TypeOK, Metadata
<1>7. CASE ConfirmSaveFails
  BY <1>7, IssuanceAssumption DEF ConfirmSaveFails, Fault, SaveFails, TypeOK,
       Metadata
<1>. QED BY <1>1, <1>2, <1>3, <1>4, <1>5, <1>6, <1>7 DEF Ownership

LEMMA DecideCount ==
  ASSUME TypeOK, IdleInv, CountInv, Decide PROVE CountInv'
<1> USE DEF vars, toolVars, runVars, srvVars, histVars, Goto, CountInv, IdleInv
<1>1. CASE DecideWaiting
  BY <1>1, IssuanceAssumption DEF DecideWaiting, NothingToDeploy, TypeOK,
       Metadata
<1>2. CASE DecideTerminal
  BY <1>2, IssuanceAssumption DEF DecideTerminal, TypeOK, Metadata
<1>3. CASE ForeignDeploys
  BY <1>3, IssuanceAssumption DEF ForeignDeploys, DecideActive, ForeignAction,
       StoredKeyPairs, ApiKeyPairs, LocalKeyPairs, TypeOK, Metadata
<1>4. CASE ForeignResubmits
  BY <1>4, IssuanceAssumption DEF ForeignResubmits, DecideActive,
       ForeignAction, StoredKeyPairs, ApiKeyPairs, LocalKeyPairs, TypeOK,
            Metadata
<1>5. CASE IssuedDeploys
  BY <1>5, IssuanceAssumption DEF IssuedDeploys, DecideActive, ForeignAction,
       WaitingForIssue, StoredKeyPairs, ApiKeyPairs, LocalKeyPairs,
            IssuedKeyFound, TypeOK, Metadata
<1>6. CASE IssuedKeyMissing
  BY <1>6, IssuanceAssumption DEF IssuedKeyMissing, DecideActive,
       ForeignAction, WaitingForIssue, StoredKeyPairs, ApiKeyPairs,
            LocalKeyPairs, TypeOK, Metadata
<1>7. CASE ResetSaved
  BY <1>7, IssuanceAssumption DEF ResetSaved, SaveOK, TypeOK, Metadata
<1>8. CASE ResetSaveFails
  BY <1>8, IssuanceAssumption DEF ResetSaveFails, Fault, SaveFails, TypeOK,
       Metadata
<1>9. CASE RetryBindings
  BY <1>9, IssuanceAssumption DEF RetryBindings, DecideActive, ForeignAction,
       WaitingForIssue, Settled, StoredKeyPairs, ApiKeyPairs, LocalKeyPairs,
            TypeOK, Metadata
<1>10. CASE HealthySkip
  BY <1>10, IssuanceAssumption DEF HealthySkip, NothingToDeploy, DecideActive,
       ForeignAction, WaitingForIssue, Settled, TypeOK, Metadata
<1>11. CASE RenewalDue
  BY <1>11, IssuanceAssumption DEF RenewalDue, DecideActive, ForeignAction,
       WaitingForIssue, Settled, TypeOK, Metadata
<1>. QED BY <1>1, <1>2, <1>3, <1>4, <1>5, <1>6, <1>7, <1>8, <1>9, <1>10, <1>11
     DEF Decide

LEMMA SubmitCount ==
  ASSUME TypeOK, IdleInv, CountInv, Submit PROVE CountInv'
<1> USE DEF vars, toolVars, runVars, srvVars, histVars, Goto, CountInv, IdleInv
<1>1. CASE SubmitTooLate
  BY <1>1, IssuanceAssumption DEF SubmitTooLate, NothingToDeploy,
       StoredKeyPairs, ApiKeyPairs, LocalKeyPairs, InMargin, TypeOK, Metadata
<1>2. CASE SubmitCapped
  BY <1>2, IssuanceAssumption DEF SubmitCapped, MarkCapped, InMargin, TypeOK,
       Metadata
<1>3. CASE SubmitMarks
  BY <1>3, IssuanceAssumption DEF SubmitMarks, InMargin, TypeOK, Metadata
<1>4. CASE MarkSaved
  BY <1>4, IssuanceAssumption DEF MarkSaved, SaveOK, TypeOK, Metadata
<1>5. CASE MarkSaveFails
  BY <1>5, IssuanceAssumption DEF MarkSaveFails, Fault, SaveFails, TypeOK,
       Metadata
<1>6. CASE Generate
  BY <1>6, IssuanceAssumption DEF Generate, TypeOK, Metadata
<1>7. CASE GenerateFails
  BY <1>7, IssuanceAssumption DEF GenerateFails, TypeOK, Metadata
<1>8. CASE IntentSaved
  BY <1>8, IssuanceAssumption DEF IntentSaved, SaveOK, TypeOK, Metadata
<1>9. CASE IntentSaveFails
  BY <1>9, IssuanceAssumption DEF IntentSaveFails, Fault, SaveFails, TypeOK,
       Metadata
<1>10. CASE Post
  BY <1>10, IssuanceAssumption DEF Post, TypeOK, Metadata
<1>. QED BY <1>1, <1>2, <1>3, <1>4, <1>5, <1>6, <1>7, <1>8, <1>9, <1>10 DEF
     Submit

LEMMA ReplyCount ==
  ASSUME TypeOK, IdleInv, CountInv, Reply PROVE CountInv'
<1> USE DEF vars, toolVars, runVars, srvVars, histVars, Goto, CountInv, IdleInv
<1>1. CASE ReplyAccepted
  BY <1>1, IssuanceAssumption DEF ReplyAccepted, TypeOK, Metadata
<1>2. CASE PostedSaved
  BY <1>2, IssuanceAssumption DEF PostedSaved, SaveOK, TypeOK, Metadata
<1>3. CASE PostedSaveFails
  BY <1>3, IssuanceAssumption DEF PostedSaveFails, Fault, SaveFails, TypeOK,
       Metadata
<1>4. CASE ReplyAuth
  BY <1>4, IssuanceAssumption DEF ReplyAuth, TypeOK, Metadata
<1>5. CASE ReplyRefused
  BY <1>5, IssuanceAssumption DEF ReplyRefused, Abandon, TypeOK, Metadata
<1>6. CASE ReplyUncertain
  BY <1>6, IssuanceAssumption DEF ReplyUncertain, Fault, TypeOK, Metadata
<1>. QED BY <1>1, <1>2, <1>3, <1>4, <1>5, <1>6 DEF Reply

LEMMA AdoptionCount ==
  ASSUME TypeOK, IdleInv, CountInv, Adoption PROVE CountInv'
<1> USE DEF vars, toolVars, runVars, srvVars, histVars, Goto, CountInv, IdleInv
<1>1. CASE Deploy
  BY <1>1, IssuanceAssumption DEF Deploy, TypeOK, Metadata
<1>2. CASE DeployFails
  BY <1>2, IssuanceAssumption DEF DeployFails, Fault, MarkCapped, TypeOK,
       Metadata
<1>3. CASE Adopt
  <2>1. /\ attempts \in Nat /\ disk.count \in Nat /\ mem.count \in Nat
        /\ before.count \in Nat /\ MaxIssueRetries \in Nat
    BY IssuanceAssumption DEF TypeOK, Metadata
  <2>2. mem' = mem \/ mem'.count = 0
    BY <1>3 DEF Adopt, Fresh
  <2>. QED BY <1>3, <2>1, <2>2 DEF Adopt
<1>4. CASE AdoptFails
  BY <1>4, IssuanceAssumption DEF AdoptFails, Fault, MarkCapped, TypeOK,
       Metadata
<1>5. CASE PromoteSaved
  BY <1>5, IssuanceAssumption DEF PromoteSaved, TypeOK, Metadata
<1>6. CASE PromoteRemoved
  <2>1. /\ attempts \in Nat /\ disk.count \in Nat /\ mem.count \in Nat
        /\ before.count \in Nat /\ MaxIssueRetries \in Nat
    BY IssuanceAssumption DEF TypeOK, Metadata
  <2>2. mem'.count = 0
    BY <1>6 DEF PromoteRemoved, Fresh
  <2>. QED BY <1>6, <2>1, <2>2 DEF PromoteRemoved
<1>7. CASE PromoteFails
  BY <1>7, IssuanceAssumption DEF PromoteFails, Fault, MarkCapped, TypeOK,
       Metadata
<1>8. CASE AcceptSaved
  BY <1>8, IssuanceAssumption DEF AcceptSaved, SaveOK, TypeOK, Metadata
<1>9. CASE AcceptSaveFails
  BY <1>9, IssuanceAssumption DEF AcceptSaveFails, Fault, SaveFails, TypeOK,
       Metadata
<1>. QED BY <1>1, <1>2, <1>3, <1>4, <1>5, <1>6, <1>7, <1>8, <1>9 DEF Adoption

LEMMA FinishCount ==
  ASSUME TypeOK, IdleInv, CountInv, Finish PROVE CountInv'
<1> USE DEF vars, toolVars, runVars, srvVars, histVars, Goto, CountInv, IdleInv
<1>1. CASE FinishSaved
  <2>1. /\ attempts \in Nat /\ disk.count \in Nat /\ mem.count \in Nat
        /\ before.count \in Nat /\ MaxIssueRetries \in Nat
    BY IssuanceAssumption DEF TypeOK, Metadata
  <2>2. disk'.count = mem.count /\ mem' = disk' /\ before'.count = 0
    BY <1>1 DEF FinishSaved, EndRun, Fresh, TypeOK, Metadata
  <2>. QED BY <1>1, <2>1, <2>2 DEF FinishSaved, EndRun
<1>2. CASE FinishSaveFails
  <2>1. /\ attempts \in Nat /\ disk.count \in Nat /\ mem.count \in Nat
        /\ before.count \in Nat /\ MaxIssueRetries \in Nat
    BY IssuanceAssumption DEF TypeOK, Metadata
  <2>2. disk' = disk /\ mem' = disk' /\ before'.count = 0
    BY <1>2 DEF FinishSaveFails, EndRun, Fresh, SaveFails
  <2>. QED BY <1>2, <2>1, <2>2 DEF FinishSaveFails, EndRun
<1>. QED BY <1>1, <1>2 DEF Finish

LEMMA ServerCount ==
  ASSUME TypeOK, IdleInv, CountInv, Server PROVE CountInv'
<1> USE DEF vars, toolVars, runVars, srvVars, histVars, Goto, CountInv, IdleInv
<1>1. CASE ServerAccepts
  BY <1>1, IssuanceAssumption DEF ServerAccepts, Answer, TypeOK, Metadata
<1>2. CASE ServerRefuses
  BY <1>2, IssuanceAssumption DEF ServerRefuses, Answer, TypeOK, Metadata
<1>3. CASE RequestLost
  BY <1>3, IssuanceAssumption DEF RequestLost, Fault, TypeOK, Metadata
<1>4. CASE ServerIssues
  BY <1>4, IssuanceAssumption DEF ServerIssues, TypeOK, Metadata
<1>5. CASE ServerStops
  BY <1>5, IssuanceAssumption DEF ServerStops, TypeOK, Metadata
<1>6. CASE ServerRecovers
  BY <1>6, IssuanceAssumption DEF ServerRecovers, TypeOK, Metadata
<1>7. CASE OtherSubmits
  BY <1>7, IssuanceAssumption DEF OtherSubmits, TypeOK, Metadata
<1>. QED BY <1>1, <1>2, <1>3, <1>4, <1>5, <1>6, <1>7 DEF Server

LEMMA StartRunCount ==
  ASSUME TypeOK, IdleInv, CountInv, StartRun PROVE CountInv'
<1> USE DEF vars, toolVars, runVars, srvVars, histVars, Goto, CountInv, IdleInv
<1>1. CASE StartRun
  BY <1>1, IssuanceAssumption DEF StartRun, TypeOK, Metadata
<1>. QED BY <1>1 DEF CountInv

LEMMA CrashCount ==
  ASSUME TypeOK, IdleInv, CountInv, Crash PROVE CountInv'
<1> USE DEF vars, toolVars, runVars, srvVars, histVars, Goto, CountInv, IdleInv
<1>1. CASE Crash
  <2>1. /\ attempts \in Nat /\ disk.count \in Nat /\ mem.count \in Nat
        /\ before.count \in Nat /\ MaxIssueRetries \in Nat
    BY IssuanceAssumption DEF TypeOK, Metadata
  <2>2. disk' = disk /\ mem' = disk /\ before' = Fresh(NoKey)
    BY <1>1 DEF Crash, EndRun
  <2>3. before'.count = 0
    BY <2>2 DEF Fresh
  <2>. QED BY <1>1, <2>1, <2>2, <2>3 DEF Crash, EndRun
<1>. QED BY <1>1 DEF CountInv

LEMMA AgeCount ==
  ASSUME TypeOK, IdleInv, CountInv, Age PROVE CountInv'
<1> USE DEF vars, toolVars, runVars, srvVars, histVars, Goto, CountInv, IdleInv
<1>1. CASE Age
  BY <1>1, IssuanceAssumption DEF Age, NextLife, TypeOK, Metadata
<1>. QED BY <1>1 DEF CountInv

LEMMA CountStep ==
  ASSUME TypeOK, IdleInv, CountInv, [Next]_vars PROVE CountInv'
<1>1. CASE UNCHANGED vars
  BY <1>1 DEF CountInv, vars, toolVars, runVars, srvVars, histVars
<1>2. CASE Run
  BY <1>2, StartRunCount, GateCount, StallCount, DropCount, QueryCount, OwnershipCount, DecideCount, SubmitCount, ReplyCount, AdoptionCount, FinishCount DEF Run
<1>3. CASE Crash \/ Server \/ Age
  BY <1>3, CrashCount, ServerCount, AgeCount
<1>. QED BY <1>1, <1>2, <1>3 DEF Next

LEMMA CountInit == ASSUME Init PROVE CountInv
<1>1. disk = Fresh(FirstKey) \/ disk = Fresh(NoKey)
  BY DEF Init
<1>2. disk.count = 0
  BY <1>1, FreshFields
<1>3. before.count = 0
  BY DEF Init, Fresh
<1>. QED BY <1>2, <1>3, IssuanceAssumption DEF Init, CountInv

\* The server sees at most MaxIssueRetries submissions between two accepted
\* deployments, however often runs crash between writing and sending.
THEOREM AttemptsBoundedAlways == Spec => []AttemptsBounded
<1>1. Spec => []CountInv
  <2>1. IInv /\ CountInv /\ [Next]_vars => CountInv'
    BY CountStep DEF IInv
  <2>. QED BY <2>1, CountInit, Invariance, PTL DEF Spec
<1>2. TypeOK /\ CountInv => AttemptsBounded
  BY IssuanceAssumption DEF TypeOK, Metadata, CountInv, AttemptsBounded
<1>. QED BY <1>1, <1>2, TypeCorrect, PTL

(***************************************************************************)
(* No second issuance before the first is deployed.                        *)
(***************************************************************************)

(* Where the order as the run saw it is still the order to act upon. *)
Acting ==
  \/ pc \in AdoptionPCs \cup {"own", "confirm_save", "decide"}
  \/ pc \in {"drop_save", "drop_remove", "drop_saved"} /\ resume = "decide"

DeployedInv ==
  /\ official \in used \cup {NoKey} /\ pend \in used \cup {NoKey}
  /\ srv.csr \in OwnKeys /\ official = srv.csr => iis = srv.csr
  /\ pc \in {"intent_save", "post"} => official # pend
  /\ net # NoKey => official # net
  /\ pc \in {"adopt", "promote_save", "promote_remove"} => iis = seen.cert
  /\ Acting /\ srv.csr \in OwnKeys => seen.cert = srv.csr

LEMMA GateDeployed ==
  ASSUME TypeOK, NetInv, IntentInv, AdoptionInv, IdleInv, DeployedInv, Gate
  PROVE  DeployedInv'
<1> USE DEF vars, toolVars, runVars, srvVars, histVars, Goto, DeployedInv,
            NetInv, IntentInv, AdoptionInv, IdleInv, Acting, AdoptionPCs
<1>1. CASE GateExpired
  BY <1>1, IssuanceAssumption DEF GateExpired, Expired
<1>2. CASE GateClosed
  BY <1>2, IssuanceAssumption DEF GateClosed, Expired
<1>3. CASE GateStall
  BY <1>3, IssuanceAssumption DEF GateStall, GateOpen, Expired
<1>4. CASE GatePass
  BY <1>4, IssuanceAssumption DEF GatePass, GateOpen, Expired
<1>5. CASE GateSkip
  BY <1>5, IssuanceAssumption DEF GateSkip, GateOpen, Expired
<1>. QED BY <1>1, <1>2, <1>3, <1>4, <1>5 DEF Gate

LEMMA StallDeployed ==
  ASSUME TypeOK, NetInv, IntentInv, AdoptionInv, IdleInv, DeployedInv, Stall
  PROVE  DeployedInv'
<1> USE DEF vars, toolVars, runVars, srvVars, histVars, Goto, DeployedInv,
            NetInv, IntentInv, AdoptionInv, IdleInv, Acting, AdoptionPCs
<1>1. CASE StallSaved
  BY <1>1, IssuanceAssumption DEF StallSaved
<1>2. CASE StallSaveFails
  BY <1>2, IssuanceAssumption DEF StallSaveFails
<1>3. CASE StallRemoved
  BY <1>3, IssuanceAssumption DEF StallRemoved
<1>4. CASE StallRemoveFails
  BY <1>4, IssuanceAssumption DEF StallRemoveFails
<1>. QED BY <1>1, <1>2, <1>3, <1>4 DEF Stall

LEMMA DropDeployed ==
  ASSUME TypeOK, NetInv, IntentInv, AdoptionInv, IdleInv, DeployedInv, Drop
  PROVE  DeployedInv'
<1> USE DEF vars, toolVars, runVars, srvVars, histVars, Goto, DeployedInv,
            NetInv, IntentInv, AdoptionInv, IdleInv, Acting, AdoptionPCs
<1>1. CASE DropSaved
  BY <1>1, IssuanceAssumption DEF DropSaved
<1>2. CASE DropSaveFails
  BY <1>2, IssuanceAssumption DEF DropSaveFails
<1>3. CASE DropRemoved
  BY <1>3, IssuanceAssumption DEF DropRemoved
<1>4. CASE DropRemoveFails
  BY <1>4, IssuanceAssumption DEF DropRemoveFails
<1>5. CASE DropDone
  <2>1. resume \in {"decide", "finish"}
    BY DEF TypeOK
  <2>. QED BY <1>5, <2>1 DEF DropDone
<1>6. CASE DropDoneFails
  BY <1>6, IssuanceAssumption DEF DropDoneFails
<1>. QED BY <1>1, <1>2, <1>3, <1>4, <1>5, <1>6 DEF Drop

LEMMA QueryDeployed ==
  ASSUME TypeOK, NetInv, IntentInv, AdoptionInv, IdleInv, DeployedInv, Query
  PROVE  DeployedInv'
<1> USE DEF vars, toolVars, runVars, srvVars, histVars, Goto, DeployedInv,
            NetInv, IntentInv, AdoptionInv, IdleInv, Acting, AdoptionPCs
<1>1. CASE QueryAnswered
  BY <1>1, IssuanceAssumption DEF QueryAnswered
<1>2. CASE QueryFails
  BY <1>2, IssuanceAssumption DEF QueryFails
<1>. QED BY <1>1, <1>2 DEF Query

LEMMA OwnershipDeployed ==
  ASSUME TypeOK, NetInv, IntentInv, AdoptionInv, IdleInv, DeployedInv, Ownership
  PROVE  DeployedInv'
<1> USE DEF vars, toolVars, runVars, srvVars, histVars, Goto, DeployedInv,
            NetInv, IntentInv, AdoptionInv, IdleInv, Acting, AdoptionPCs
<1>1. CASE OwnNone
  BY <1>1, IssuanceAssumption DEF OwnNone
<1>2. CASE OwnOrphan
  <2>1. /\ pc = "own" /\ pc' = "drop_save"
        /\ UNCHANGED <<official, pend, iis, seen, srv, net, used>>
    BY <1>2 DEF OwnOrphan, Discard
  <2>. QED BY <2>1
<1>3. CASE OwnMismatch
  <2>1. /\ pc = "own" /\ pc' = "drop_save"
        /\ UNCHANGED <<official, pend, iis, seen, srv, net, used>>
    BY <1>3 DEF OwnMismatch, Discard
  <2>. QED BY <2>1
<1>4. CASE OwnUnknown
  BY <1>4, IssuanceAssumption DEF OwnUnknown, NothingToDeploy
<1>5. CASE OwnConfirmed
  BY <1>5, IssuanceAssumption DEF OwnConfirmed
<1>6. CASE ConfirmSaved
  BY <1>6, IssuanceAssumption DEF ConfirmSaved
<1>7. CASE ConfirmSaveFails
  BY <1>7, IssuanceAssumption DEF ConfirmSaveFails
<1>. QED BY <1>1, <1>2, <1>3, <1>4, <1>5, <1>6, <1>7 DEF Ownership

LEMMA DecideDeployed ==
  ASSUME TypeOK, NetInv, IntentInv, AdoptionInv, IdleInv, DeployedInv, Decide
  PROVE  DeployedInv'
<1> USE DEF vars, toolVars, runVars, srvVars, histVars, Goto, DeployedInv,
            NetInv, IntentInv, AdoptionInv, IdleInv, Acting, AdoptionPCs
<1>1. CASE DecideWaiting
  BY <1>1, IssuanceAssumption DEF DecideWaiting, NothingToDeploy
<1>2. CASE DecideTerminal
  BY <1>2, IssuanceAssumption DEF DecideTerminal
<1>3. CASE ForeignDeploys
  BY <1>3, IssuanceAssumption DEF ForeignDeploys, DecideActive, ForeignAction,
       StoredKeyPairs, ApiKeyPairs, LocalKeyPairs
<1>4. CASE ForeignResubmits
  BY <1>4, IssuanceAssumption DEF ForeignResubmits, DecideActive,
       ForeignAction, StoredKeyPairs, ApiKeyPairs, LocalKeyPairs
<1>5. CASE IssuedDeploys
  BY <1>5, IssuanceAssumption DEF IssuedDeploys, DecideActive, ForeignAction,
       WaitingForIssue, StoredKeyPairs, ApiKeyPairs, LocalKeyPairs,
            IssuedKeyFound
<1>6. CASE IssuedKeyMissing
  BY <1>6, IssuanceAssumption DEF IssuedKeyMissing, DecideActive,
       ForeignAction, WaitingForIssue, StoredKeyPairs, ApiKeyPairs,
            LocalKeyPairs
<1>7. CASE ResetSaved
  BY <1>7, IssuanceAssumption DEF ResetSaved
<1>8. CASE ResetSaveFails
  BY <1>8, IssuanceAssumption DEF ResetSaveFails
<1>9. CASE RetryBindings
  BY <1>9, IssuanceAssumption DEF RetryBindings, DecideActive, ForeignAction,
       WaitingForIssue, Settled, StoredKeyPairs, ApiKeyPairs, LocalKeyPairs
<1>10. CASE HealthySkip
  BY <1>10, IssuanceAssumption DEF HealthySkip, DecideActive, ForeignAction,
       WaitingForIssue, Settled, NothingToDeploy
<1>11. CASE RenewalDue
  BY <1>11, IssuanceAssumption DEF RenewalDue, DecideActive, ForeignAction,
       WaitingForIssue, Settled
<1>. QED BY <1>1, <1>2, <1>3, <1>4, <1>5, <1>6, <1>7, <1>8, <1>9, <1>10, <1>11
     DEF Decide

LEMMA SubmitDeployed ==
  ASSUME TypeOK, NetInv, IntentInv, AdoptionInv, IdleInv, DeployedInv, Submit
  PROVE  DeployedInv'
<1> USE DEF vars, toolVars, runVars, srvVars, histVars, Goto, DeployedInv,
            NetInv, IntentInv, AdoptionInv, IdleInv, Acting, AdoptionPCs
<1>1. CASE SubmitTooLate
  BY <1>1, IssuanceAssumption DEF SubmitTooLate, StoredKeyPairs, ApiKeyPairs,
       LocalKeyPairs, InMargin, NothingToDeploy
<1>2. CASE SubmitCapped
  BY <1>2, IssuanceAssumption DEF SubmitCapped, InMargin
<1>3. CASE SubmitMarks
  BY <1>3, IssuanceAssumption DEF SubmitMarks, InMargin
<1>4. CASE MarkSaved
  BY <1>4, IssuanceAssumption DEF MarkSaved
<1>5. CASE MarkSaveFails
  BY <1>5, IssuanceAssumption DEF MarkSaveFails
<1>6. CASE Generate
  BY <1>6, IssuanceAssumption DEF Generate
<1>7. CASE GenerateFails
  BY <1>7, IssuanceAssumption DEF GenerateFails
<1>8. CASE IntentSaved
  BY <1>8, IssuanceAssumption DEF IntentSaved
<1>9. CASE IntentSaveFails
  BY <1>9, IssuanceAssumption DEF IntentSaveFails
<1>10. CASE Post
  BY <1>10, IssuanceAssumption DEF Post
<1>. QED BY <1>1, <1>2, <1>3, <1>4, <1>5, <1>6, <1>7, <1>8, <1>9, <1>10 DEF
     Submit

LEMMA ReplyDeployed ==
  ASSUME TypeOK, NetInv, IntentInv, AdoptionInv, IdleInv, DeployedInv, Reply
  PROVE  DeployedInv'
<1> USE DEF vars, toolVars, runVars, srvVars, histVars, Goto, DeployedInv,
            NetInv, IntentInv, AdoptionInv, IdleInv, Acting, AdoptionPCs
<1>1. CASE ReplyAccepted
  BY <1>1, IssuanceAssumption DEF ReplyAccepted
<1>2. CASE PostedSaved
  BY <1>2, IssuanceAssumption DEF PostedSaved
<1>3. CASE PostedSaveFails
  BY <1>3, IssuanceAssumption DEF PostedSaveFails
<1>4. CASE ReplyAuth
  BY <1>4, IssuanceAssumption DEF ReplyAuth
<1>5. CASE ReplyRefused
  BY <1>5, IssuanceAssumption DEF ReplyRefused
<1>6. CASE ReplyUncertain
  BY <1>6, IssuanceAssumption DEF ReplyUncertain
<1>. QED BY <1>1, <1>2, <1>3, <1>4, <1>5, <1>6 DEF Reply

LEMMA AdoptionDeployed ==
  ASSUME TypeOK, NetInv, IntentInv, AdoptionInv, IdleInv, DeployedInv, Adoption
  PROVE  DeployedInv'
<1> USE DEF vars, toolVars, runVars, srvVars, histVars, Goto, DeployedInv,
            NetInv, IntentInv, AdoptionInv, IdleInv, Acting, AdoptionPCs
<1>1. CASE Deploy
  <2>1. /\ pc = "deploy" /\ pc' = "adopt" /\ iis' = seen.cert
        /\ UNCHANGED <<official, pend, seen, srv, net, used>>
    BY <1>1 DEF Deploy
  <2>. QED BY <2>1
<1>2. CASE DeployFails
  BY <1>2, IssuanceAssumption DEF DeployFails
<1>3. CASE Adopt
  BY <1>3, IssuanceAssumption DEF Adopt
<1>4. CASE AdoptFails
  BY <1>4, IssuanceAssumption DEF AdoptFails
<1>5. CASE PromoteSaved
  BY <1>5, IssuanceAssumption DEF PromoteSaved
<1>6. CASE PromoteRemoved
  BY <1>6, IssuanceAssumption DEF PromoteRemoved
<1>7. CASE PromoteFails
  BY <1>7, IssuanceAssumption DEF PromoteFails
<1>8. CASE AcceptSaved
  BY <1>8, IssuanceAssumption DEF AcceptSaved
<1>9. CASE AcceptSaveFails
  BY <1>9, IssuanceAssumption DEF AcceptSaveFails
<1>. QED BY <1>1, <1>2, <1>3, <1>4, <1>5, <1>6, <1>7, <1>8, <1>9 DEF Adoption

LEMMA FinishDeployed ==
  ASSUME TypeOK, NetInv, IntentInv, AdoptionInv, IdleInv, DeployedInv, Finish
  PROVE  DeployedInv'
<1> USE DEF vars, toolVars, runVars, srvVars, histVars, Goto, DeployedInv,
            NetInv, IntentInv, AdoptionInv, IdleInv, Acting, AdoptionPCs
<1>1. CASE FinishSaved
  BY <1>1, IssuanceAssumption DEF FinishSaved, EndRun
<1>2. CASE FinishSaveFails
  BY <1>2, IssuanceAssumption DEF FinishSaveFails, EndRun
<1>. QED BY <1>1, <1>2 DEF Finish

LEMMA ServerDeployed ==
  ASSUME TypeOK, NetInv, IntentInv, AdoptionInv, IdleInv, DeployedInv, Server
  PROVE  DeployedInv'
<1> USE DEF vars, toolVars, runVars, srvVars, histVars, Goto, DeployedInv,
            NetInv, IntentInv, AdoptionInv, IdleInv, Acting, AdoptionPCs
<1>1. CASE ServerAccepts
  BY <1>1, IssuanceAssumption DEF ServerAccepts
<1>2. CASE ServerRefuses
  BY <1>2, IssuanceAssumption DEF ServerRefuses
<1>3. CASE RequestLost
  BY <1>3, IssuanceAssumption DEF RequestLost
<1>4. CASE ServerIssues
  BY <1>4, IssuanceAssumption DEF ServerIssues
<1>5. CASE ServerStops
  BY <1>5, IssuanceAssumption DEF ServerStops
<1>6. CASE ServerRecovers
  BY <1>6, IssuanceAssumption DEF ServerRecovers
<1>7. CASE OtherSubmits
  BY <1>7, IssuanceAssumption DEF OtherSubmits
<1>. QED BY <1>1, <1>2, <1>3, <1>4, <1>5, <1>6, <1>7 DEF Server

LEMMA StartRunDeployed ==
  ASSUME TypeOK, NetInv, IntentInv, AdoptionInv, IdleInv, DeployedInv, StartRun
  PROVE  DeployedInv'
<1> USE DEF vars, toolVars, runVars, srvVars, histVars, Goto, DeployedInv,
            NetInv, IntentInv, AdoptionInv, IdleInv, Acting, AdoptionPCs
<1>1. CASE StartRun
  BY <1>1, IssuanceAssumption DEF StartRun
<1>. QED BY <1>1 DEF DeployedInv

LEMMA CrashDeployed ==
  ASSUME TypeOK, NetInv, IntentInv, AdoptionInv, IdleInv, DeployedInv, Crash
  PROVE  DeployedInv'
<1> USE DEF vars, toolVars, runVars, srvVars, histVars, Goto, DeployedInv,
            NetInv, IntentInv, AdoptionInv, IdleInv, Acting, AdoptionPCs
<1>1. CASE Crash
  BY <1>1, IssuanceAssumption DEF Crash, EndRun
<1>. QED BY <1>1 DEF DeployedInv

LEMMA AgeDeployed ==
  ASSUME TypeOK, NetInv, IntentInv, AdoptionInv, IdleInv, DeployedInv, Age
  PROVE  DeployedInv'
<1> USE DEF vars, toolVars, runVars, srvVars, histVars, Goto, DeployedInv,
            NetInv, IntentInv, AdoptionInv, IdleInv, Acting, AdoptionPCs
<1>1. CASE Age
  BY <1>1, IssuanceAssumption DEF Age, NextLife
<1>. QED BY <1>1 DEF DeployedInv

LEMMA DeployedStep ==
  ASSUME TypeOK, NetInv, IntentInv, AdoptionInv, IdleInv, DeployedInv, [Next]_vars
  PROVE  DeployedInv'
<1>1. CASE UNCHANGED vars
  BY <1>1 DEF DeployedInv, Acting, vars, toolVars, runVars, srvVars, histVars
<1>2. CASE Run
  BY <1>2, StartRunDeployed, GateDeployed, StallDeployed, DropDeployed, QueryDeployed, OwnershipDeployed, DecideDeployed, SubmitDeployed, ReplyDeployed, AdoptionDeployed, FinishDeployed DEF Run
<1>3. CASE Crash \/ Server \/ Age
  BY <1>3, CrashDeployed, ServerDeployed, AgeDeployed
<1>. QED BY <1>1, <1>2, <1>3 DEF Next

LEMMA DeployedInit == ASSUME Init PROVE DeployedInv
BY IssuanceAssumption DEF Init, DeployedInv, Acting, AdoptionPCs

(* What IssuedIsDeployedFirst asks of a step. *)
PostsAfterDeployment ==
  pc = "post" /\ pc' = "wait" /\ srv.csr \in OwnKeys => iis = srv.csr

\* While the certificate of an accepted CSR of this machine is on the order, no
\* further CSR is submitted before that certificate is in IIS.
THEOREM IssuedIsDeployedFirstAlways == Spec => IssuedIsDeployedFirst
<1>1. Spec => []DeployedInv
  <2>1. IInv /\ DeployedInv /\ [Next]_vars => DeployedInv'
    BY DeployedStep DEF IInv
  <2>. QED BY <2>1, DeployedInit, Invariance, PTL DEF Spec
<1>2. IInv /\ DeployedInv => [PostsAfterDeployment]_vars
  BY DEF IInv, DropInv, Homed, DeployedInv, PostsAfterDeployment
<1>. QED BY <1>1, <1>2, Invariance, PTL DEF IssuedIsDeployedFirst, PostsAfterDeployment

(***************************************************************************)
(* Issuance implements IssuanceSpec.                                       *)
(***************************************************************************)

(* On the way to a CSR: the order the run saw was active. *)
SubmittingPCs == {"reset_save", "submit", "mark_save", "gen", "intent_save", "post"}

(* What a run that may still deploy knows of the key. *)
OfferInv ==
  /\ pc \in SubmittingPCs \cup {"deploy"} => seen.status = "active"
  /\ pc \in {"gate", "query", "own", "confirm_save"} => mem.hash = disk.hash
  /\ pc \in {"confirm_save", "decide", "deploy"} /\ pend # NoKey => disk.hash = pend
  /\ pc = "deploy" => IssuedKeyFound
  /\ pc \in {"intent_save", "post"} => pend # NoKey

LEMMA OfferElsewhere ==
  ASSUME pc' \notin SubmittingPCs \cup {"deploy", "gate", "query", "own", "confirm_save", "decide"}
  PROVE  OfferInv'
BY DEF OfferInv, SubmittingPCs

LEMMA OwnershipOffer == ASSUME IInv, OfferInv, Ownership PROVE OfferInv'
<1> USE DEF OfferInv, SubmittingPCs, Goto, toolVars, runVars
<1>1. CASE OwnNone
  BY <1>1 DEF OwnNone
<1>2. CASE OwnOrphan
  BY <1>2 DEF OwnOrphan, Discard
<1>3. CASE OwnMismatch
  BY <1>3 DEF OwnMismatch, Discard
<1>4. CASE OwnUnknown
  BY <1>4 DEF OwnUnknown, NothingToDeploy
<1>5. CASE OwnConfirmed
  <2>1. mem'.hash = mem.hash
    BY <1>5 DEF OwnConfirmed, IInv, TypeOK, Metadata
  <2> QED
    BY <1>5, <2>1 DEF OwnConfirmed
<1>6. CASE ConfirmSaved \/ ConfirmSaveFails
  <2>1. pc = "confirm_save" /\ pend' = pend /\ pc' \in {"decide", "finish"}
    BY <1>6 DEF ConfirmSaved, ConfirmSaveFails
  <2>2. pc' = "decide" => disk' = mem
    BY <1>6 DEF ConfirmSaved, ConfirmSaveFails, SaveOK
  <2> QED
    BY <2>1, <2>2
<1> QED
  BY <1>1, <1>2, <1>3, <1>4, <1>5, <1>6 DEF Ownership

LEMMA DecideOffer == ASSUME IInv, OfferInv, Decide PROVE OfferInv'
<1> USE DEF OfferInv, SubmittingPCs, Goto, toolVars, runVars
<1>1. pc = "decide" /\ own # "confirmed" => pend = NoKey
  BY DEF IInv, NoPendingInv
<1>2. CASE DecideWaiting
  BY <1>2 DEF DecideWaiting, NothingToDeploy
<1>3. CASE DecideTerminal
  BY <1>3 DEF DecideTerminal
<1>4. CASE ForeignDeploys
  <2>1. pc' = "deploy" /\ UNCHANGED <<pend, disk, official, seen>> /\ StoredKeyPairs
        /\ pc = "decide" /\ seen.status = "active"
    BY <1>4 DEF ForeignDeploys, DecideActive
  <2>2. pend = NoKey
    BY <1>1, <1>4 DEF ForeignDeploys, ForeignAction, DecideActive
  <2> QED
    BY <2>1, <2>2 DEF IssuedKeyFound, StoredKeyPairs, ApiKeyPairs, LocalKeyPairs
<1>5. CASE ForeignResubmits
  BY <1>5 DEF ForeignResubmits, DecideActive
<1>6. CASE IssuedDeploys
  <2>1. pc' = "deploy" /\ UNCHANGED <<pend, disk, official, seen>> /\ IssuedKeyFound
        /\ pc = "decide" /\ seen.status = "active"
    BY <1>6 DEF IssuedDeploys, DecideActive
  <2> QED
    BY <2>1 DEF IssuedKeyFound, StoredKeyPairs, ApiKeyPairs, LocalKeyPairs
<1>7. CASE IssuedKeyMissing
  BY <1>7 DEF IssuedKeyMissing, DecideActive
<1>8. CASE ResetSaved \/ ResetSaveFails
  BY <1>8 DEF ResetSaved, ResetSaveFails
<1>9. CASE RetryBindings
  <2>1. pc' \in {"deploy", "finish"} /\ UNCHANGED <<pend, disk, official, seen>>
        /\ pc = "decide" /\ seen.status = "active" /\ pend = NoKey
        /\ (pc' = "deploy" => StoredKeyPairs)
    BY <1>9 DEF RetryBindings, Settled, WaitingForIssue, DecideActive
  <2> QED
    BY <2>1 DEF IssuedKeyFound, StoredKeyPairs, ApiKeyPairs, LocalKeyPairs
<1>10. CASE HealthySkip
  BY <1>10 DEF HealthySkip, NothingToDeploy
<1>11. CASE RenewalDue
  BY <1>11 DEF RenewalDue, Settled, DecideActive
<1> QED
  BY <1>2, <1>3, <1>4, <1>5, <1>6, <1>7, <1>8, <1>9, <1>10, <1>11 DEF Decide

LEMMA SubmitOffer == ASSUME IInv, OfferInv, Submit PROVE OfferInv'
<1>1. pc \in SubmittingPCs /\ seen' = seen
  BY DEF Submit, SubmitTooLate, SubmitCapped, SubmitMarks, MarkSaved, MarkSaveFails, Generate,
     GenerateFails, IntentSaved, IntentSaveFails, Post, SubmittingPCs, runVars
<1>2. pc' \in SubmittingPCs \cup {"wait", "finish"}
  BY DEF Submit, SubmitTooLate, SubmitCapped, SubmitMarks, MarkSaved, MarkSaveFails, Generate,
     GenerateFails, IntentSaved, IntentSaveFails, Post, SubmittingPCs, NothingToDeploy, Goto
<1>3. pc' \in {"intent_save", "post"} => pend' # NoKey
  <2>1. CASE Generate
    BY <2>1, IssuanceAssumption DEF Generate
  <2>2. CASE ~Generate
    BY <2>2 DEF OfferInv, Submit, SubmitTooLate, SubmitCapped, SubmitMarks, MarkSaved,
       MarkSaveFails, GenerateFails, IntentSaved, IntentSaveFails, Post, NothingToDeploy, Goto
  <2> QED
    BY <2>1, <2>2
<1> QED
  BY <1>1, <1>2, <1>3 DEF OfferInv, SubmittingPCs

LEMMA OfferStep == ASSUME IInv, OfferInv, [Next]_vars PROVE OfferInv'
<1> USE DEF Goto, SubmittingPCs
<1>1. CASE StartRun
  <2>1. pc' \in {"gate", "drop_remove"} /\ mem' = mem /\ disk' = disk /\ mem = disk
    BY <1>1 DEF StartRun, toolVars, IInv, IdleInv
  <2> QED
    BY <2>1 DEF OfferInv
<1>2. CASE Gate
  <2>1. pc' \in {"query", "finish", "stall_save"}
    BY <1>2 DEF Gate, GateExpired, GateClosed, GateStall, GatePass, GateSkip
  <2>2. pc' = "query" => pc = "gate" /\ UNCHANGED <<mem, disk>>
    BY <1>2 DEF Gate, GateExpired, GateClosed, GateStall, GatePass, GateSkip, GateOpen, toolVars
  <2> QED
    BY <2>1, <2>2 DEF OfferInv
<1>3. CASE Stall
  BY <1>3, OfferElsewhere DEF Stall, StallSaved, StallSaveFails, StallRemoved, StallRemoveFails
<1>4. CASE Drop
  <2>1. pc' \in {"drop_remove", "finish", "drop_saved", "decide"}
    BY <1>4 DEF Drop, DropSaved, DropSaveFails, DropRemoved, DropRemoveFails, DropDone,
       DropDoneFails, IInv, TypeOK
  <2>2. pc' = "decide" => pend' = NoKey
    BY <1>4 DEF Drop, DropSaved, DropSaveFails, DropRemoved, DropRemoveFails, DropDone,
       DropDoneFails, IInv, NoPendingInv
  <2> QED
    BY <2>1, <2>2 DEF OfferInv
<1>5. CASE Query
  <2>1. pc' \in {"own", "finish"} /\ UNCHANGED <<mem, disk>> /\ pc = "query"
    BY <1>5 DEF Query, QueryAnswered, QueryFails, toolVars
  <2> QED
    BY <2>1 DEF OfferInv
<1>6. CASE Reply
  BY <1>6, OfferElsewhere DEF Reply, ReplyAccepted, PostedSaved, PostedSaveFails, ReplyAuth,
     ReplyRefused, ReplyUncertain
<1>7. CASE Adoption
  BY <1>7, OfferElsewhere DEF Adoption, Deploy, DeployFails, Adopt, AdoptFails, PromoteSaved,
     PromoteRemoved, PromoteFails, AcceptSaved, AcceptSaveFails
<1>8. CASE Finish \/ Crash
  BY <1>8, OfferElsewhere DEF Finish, FinishSaved, FinishSaveFails, Crash, EndRun
<1>9. CASE Server \/ Age \/ UNCHANGED vars
  <2>1. UNCHANGED <<pc, mem, disk, pend, official, seen>>
    BY <1>9 DEF Server, ServerAccepts, ServerRefuses, RequestLost, ServerIssues, ServerStops,
       ServerRecovers, OtherSubmits, Age, vars, toolVars, runVars
  <2> QED
    BY <2>1 DEF OfferInv, IssuedKeyFound, StoredKeyPairs, ApiKeyPairs, LocalKeyPairs
<1> QED
  BY <1>1, <1>2, <1>3, <1>4, <1>5, <1>6, <1>7, <1>8, <1>9, OwnershipOffer, DecideOffer,
     SubmitOffer DEF Next, Run

(* What the other steps of a run leave to the server and to IIS. *)
LEMMA QuietStep ==
  ASSUME Run \/ Crash \/ Age \/ UNCHANGED vars, ~QueryAnswered, ~Post, ~Deploy
  PROVE  UNCHANGED <<srv, net, iis>> /\ seen' \in {seen, NotSeen}
<1> USE DEF toolVars, runVars, srvVars
<1>1. CASE StartRun \/ Gate
  BY <1>1 DEF StartRun, Gate, GateExpired, GateClosed, GateStall, GatePass, GateSkip
<1>2. CASE Stall \/ Drop
  BY <1>2 DEF Stall, StallSaved, StallSaveFails, StallRemoved, StallRemoveFails,
     Drop, DropSaved, DropSaveFails, DropRemoved, DropRemoveFails, DropDone, DropDoneFails
<1>3. CASE Query \/ Ownership
  BY <1>3 DEF Query, QueryFails, Ownership, OwnNone, OwnOrphan, OwnMismatch, Discard,
     OwnUnknown, OwnConfirmed, ConfirmSaved, ConfirmSaveFails
<1>4. CASE Decide
  BY <1>4 DEF Decide, DecideWaiting, DecideTerminal, ForeignDeploys, ForeignResubmits,
     IssuedDeploys, IssuedKeyMissing, ResetSaved, ResetSaveFails, RetryBindings, HealthySkip,
     RenewalDue
<1>5. CASE Submit
  BY <1>5 DEF Submit, SubmitTooLate, SubmitCapped, SubmitMarks, MarkSaved, MarkSaveFails,
     Generate, GenerateFails, IntentSaved, IntentSaveFails
<1>6. CASE Reply
  BY <1>6 DEF Reply, ReplyAccepted, PostedSaved, PostedSaveFails, ReplyAuth, ReplyRefused,
     ReplyUncertain
<1>7. CASE Adoption
  BY <1>7 DEF Adoption, DeployFails, Adopt, AdoptFails, PromoteSaved, PromoteRemoved,
     PromoteFails, AcceptSaved, AcceptSaveFails
<1>8. CASE Finish \/ Crash
  BY <1>8 DEF Finish, FinishSaved, FinishSaveFails, Crash, EndRun
<1>9. CASE Age \/ UNCHANGED vars
  BY <1>9 DEF Age, vars
<1> QED
  BY <1>1, <1>2, <1>3, <1>4, <1>5, <1>6, <1>7, <1>8, <1>9 DEF Run

LEMMA PromiseStep ==
  ASSUME IInv, IInv', DeployedInv, OfferInv, [Next]_vars
  PROVE  [Promise!Next]_(Promise!vars)
<1> DEFINE Closed == disk.st \in Terminal
<1>0. TypeOK /\ StaysClosed
  BY StepClosed DEF IInv
<1>1. CASE QueryAnswered
  <2>1. pc = "query" /\ UNCHANGED <<srv, net, iis, disk, pend, official>>
        /\ seen'.status = srv.status /\ seen'.cert = srv.csr
    BY <1>1 DEF QueryAnswered, toolVars, srvVars
  <2>2. ~Closed
    BY <2>1 DEF IInv, ClosedInv, ClosedPCs
  <2>3. Held' = Held
    BY <2>1 DEF Held
  <2>4. CASE srv.status = "active"
    BY <2>1, <2>2, <2>3, <2>4 DEF Promise!Look, Promise!Next, Offered
  <2>5. CASE srv.status # "active"
    BY <2>1, <2>2, <2>3, <2>5 DEF Promise!Keep, Promise!Next, Offered, Held
  <2> QED
    BY <2>4, <2>5
<1>2. CASE Post
  <2>1. /\ pc = "post" /\ pc' = "wait" /\ net' = mem.hash
        /\ UNCHANGED <<srv, iis, disk, pend, official, seen>>
    BY <1>2 DEF Post, Goto, toolVars, runVars
  <2>2. ~Closed /\ net = NoKey /\ mem.hash = pend /\ disk.hash = pend
    BY <2>1 DEF IInv, ClosedInv, ClosedPCs, NetInv, IntentInv
  <2>3. Offered = seen.cert /\ seen.cert # NoKey
    BY <2>1, <1>0, IssuanceAssumption DEF OfferInv, SubmittingPCs, Offered, TypeOK, Seen, Keys
  <2>4. srv.csr \in OwnKeys => iis = srv.csr /\ official = srv.csr
    BY <2>1 DEF IInv, DropInv, Homed, DeployedInv
  <2>5. pend \in OwnKeys
    BY <1>0, <2>1 DEF TypeOK, OfferInv
  <2>6. pend # srv.csr
    BY <2>1, <2>4, <2>5 DEF DeployedInv
  <2>7. mem.hash \in Held \ {srv.csr}
    BY <2>2, <2>5, <2>6 DEF Held
  <2> QED
    BY <2>1, <2>2, <2>3, <2>4, <2>7 DEF Promise!Submit, Promise!Next, Held, Offered
<1>3. CASE Deploy
  <2>1. pc = "deploy" /\ iis' = seen.cert /\ UNCHANGED <<srv, net, disk, pend, official, seen>>
    BY <1>3 DEF Deploy, srvVars
  <2>2. ~Closed /\ Offered = seen.cert
    BY <2>1 DEF IInv, ClosedInv, ClosedPCs, OfferInv, Offered
  <2>3. seen.cert \in Held \cup ApiKeys
    <3>1. CASE pend # NoKey
      BY <1>0, <2>1, <3>1 DEF OfferInv, IssuedKeyFound, Held, TypeOK
    <3>2. CASE pend = NoKey /\ seen.cert \notin ApiKeys
      <4>1. official = seen.cert /\ seen.cert # NoKey
        BY <1>0, <2>1, <3>2, IssuanceAssumption DEF OfferInv, IssuedKeyFound, StoredKeyPairs,
           ApiKeyPairs, LocalKeyPairs, TypeOK, Seen, Keys
      <4> QED
        BY <1>0, <4>1 DEF Held, TypeOK
    <3> QED
      BY <3>1, <3>2
  <2> QED
    BY <2>1, <2>2, <2>3 DEF Promise!Serve, Promise!Next, Held, Offered
<1>4. CASE (Run \/ Crash \/ Age \/ UNCHANGED vars) /\ ~QueryAnswered /\ ~Post /\ ~Deploy
  <2>1. UNCHANGED <<srv, net, iis>> /\ seen' \in {seen, NotSeen}
    BY <1>4, QuietStep
  <2>2. Offered' \in {Offered, NoKey}
    BY <2>1 DEF Offered, NotSeen
  <2>3. Closed => Closed'
    BY <1>0 DEF StaysClosed
  <2>4. ASSUME ~Closed', NEW k \in Held, k \in {srv.csr, net} PROVE k \in Held'
    BY <2>1, <2>4 DEF IInv, Recoverable, Held
  <2>5. Held' \in SUBSET OwnKeys
    BY DEF Held
  <2>6. (disk.st \in Terminal)' \in {disk.st \in Terminal, TRUE}
    <3>1. disk.st \in Terminal => disk'.st \in Terminal
      BY <2>3
    <3>2. (disk.st \in Terminal)' = (disk.st \in Terminal) \/ (disk.st \in Terminal)' = TRUE
      BY <3>1, SMT
    <3> QED
      BY <3>2, Zenon
  <2>7. Closed' \/ Held \cap {srv.csr, net} \subseteq Held'
    BY <2>4
  <2>8. Promise!Keep
    BY <2>1, <2>2, <2>5, <2>6, <2>7 DEF Promise!Keep
  <2> QED
    BY <2>8 DEF Promise!Next
<1>5. CASE Server
  <2>1. UNCHANGED <<iis, disk, pend, official, seen>>
    BY <1>5 DEF Server, ServerAccepts, ServerRefuses, RequestLost, ServerIssues, ServerStops,
       ServerRecovers, OtherSubmits, toolVars, runVars
  <2>2. Held' = Held /\ Offered' = Offered /\ Closed' = Closed
    BY <2>1 DEF Held, Offered
  <2>3. CASE ServerAccepts
    BY <2>1, <2>2, <2>3 DEF ServerAccepts, Promise!Accept, Promise!Next
  <2>4. CASE ServerRefuses \/ RequestLost
    BY <2>1, <2>2, <2>4 DEF ServerRefuses, RequestLost, Promise!Lose, Promise!Next
  <2>5. CASE ServerIssues \/ ServerStops \/ ServerRecovers \/ OtherSubmits
    BY <2>1, <2>2, <2>5 DEF ServerIssues, ServerStops, ServerRecovers, OtherSubmits,
       Promise!Proceed, Promise!Next
  <2> QED
    BY <1>5, <2>3, <2>4, <2>5 DEF Server
<1> QED
  BY <1>1, <1>2, <1>3, <1>4, <1>5 DEF Next

LEMMA PromiseInit == ASSUME Init PROVE Promise!Init
<1>1. disk.st = ""
  BY FreshFields DEF Init
<1>2. Offered = NoKey
  BY DEF Init, Offered, NotSeen
<1>3. Held = {}
  BY IssuanceAssumption DEF Init, Held
<1>4. (disk.st \in Terminal) = FALSE
  <2>1. disk.st \notin Terminal
    BY <1>1 DEF Terminal
  <2> QED
    BY <2>1, SMT
<1>5. /\ srv = [status |-> "active", csr |-> FirstKey]
      /\ net = NoKey /\ iis = FirstKey
  BY DEF Init
<1> QED
  BY <1>2, <1>3, <1>4, <1>5 DEF Promise!Init

\* Whatever fails and whenever the run dies, a CSR leaves only with its key held and
\* after the certificate before it is in use, the key of a CSR that may have been
\* accepted is not given up, and only what the server offered and the key fits is put
\* to use.
THEOREM LifeCycleKept == Spec => KeepsLifeCycle
<1>1. Init => OfferInv
  BY DEF Init, OfferInv, SubmittingPCs
<1>2. Spec => []DeployedInv
  <2>1. IInv /\ DeployedInv /\ [Next]_vars => DeployedInv'
    BY DeployedStep DEF IInv
  <2>. QED BY <2>1, DeployedInit, Invariance, PTL DEF Spec
<1>3. Spec => []OfferInv
  <2>1. IInv /\ OfferInv /\ [Next]_vars => OfferInv'
    BY OfferStep
  <2>. QED BY <1>1, <2>1, Invariance, PTL DEF Spec
<1>4. Init => Promise!Init
  BY PromiseInit
<1>5. IInv /\ IInv' /\ DeployedInv /\ OfferInv /\ [Next]_vars => [Promise!Next]_(Promise!vars)
  BY PromiseStep
<1> QED
  BY <1>2, <1>3, <1>4, <1>5, Invariance, PTL DEF Spec, KeepsLifeCycle, Promise!Spec

===============================================================================
