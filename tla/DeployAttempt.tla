---------------------------- MODULE DeployAttempt ----------------------------
(***************************************************************************)
(* Deployment rounds of ONE managed certificate in pull mode: the deploy   *)
(* server renews the certificate, each run fetches it, installs it on the  *)
(* IIS bindings of the certificate, and keeps count.  Source:              *)
(* src/deploy/auto.go, processOneCertWithSaveAndGate and what it calls.    *)
(* In local mode the same rounds start where Issuance has obtained a       *)
(* certificate with its key; the counting and binding are the same.        *)
(*                                                                         *)
(* Two quotas meet here.  A round over all bindings persists a deployment  *)
(* attempt before it touches IIS and is replayed, not counted again, after *)
(* a crash.  A round that served some bindings adopts the certificate, and *)
(* the bindings that failed get rounds and a quota of their own.           *)
(*                                                                         *)
(* Certificates are named by their serial number, in the order the server  *)
(* issues them; NoCert is no certificate.                                  *)
(***************************************************************************)
EXTENDS Naturals, FiniteSets

CONSTANTS
  Sites,              \* IIS bindings of the certificate
  Movable,            \* those that may be missing from a round that finds others:
                      \* lost to a conflicting certificate, or not in IIS
  MaxSerial,          \* bound: certificates the server issues
  MaxDeployAttempts,
  UnchangedLimit,     \* config.CertUnchangedRounds
  MaxFaults           \* bound: crashes, I/O failures, unusable answers

ASSUME DeployAssumption ==
  /\ IsFiniteSet(Sites) /\ Sites # {}
  /\ Movable \subseteq Sites
  /\ MaxSerial \in Nat \ {0}
  /\ MaxDeployAttempts \in Nat \ {0}
  /\ UnchangedLimit \in Nat \ {0}
  /\ MaxFaults \in Nat

NoCert == 0
Serials == 1 .. MaxSerial
OptSerials == 0 .. MaxSerial

VARIABLES
  \* the tool
  pc,        \* where the run is; "idle" between runs
  mem,       \* the certificate's metadata in the running process
  disk,      \* the same metadata in config.json
  snap,      \* metadata on disk before the round's outcome (persistedCertCfg)
  replaying, \* the round takes up a persisted attempt
  got,       \* certificate this run fetched
  todo, good, bad, \* bindings still to do, bound, failed in this round
  rep,       \* the round's deployReport
  iis,       \* certificate each binding serves
  \* the deploy server and the clock
  srv,       \* status and certificate of the order
  life,      \* remaining validity of each certificate
  \* history
  base,      \* certificate adopted by the last round over all bindings
  hurt,      \* bindings whose last attempt did not succeed
  starts,    \* new rounds over all bindings since the last saved adoption
  same,      \* successful rounds in a row that installed the same certificate
  reported,  \* the outcome of the persisted attempt was called back
  faults     \* faults so far

toolVars == <<mem, disk, iis>>
runVars  == <<snap, replaying, got, todo, good, bad, rep>>
srvVars  == <<srv, life>>
histVars == <<base, hurt, starts, same, reported, faults>>
vars == <<pc, toolVars, runVars, srvVars, histVars>>

-----------------------------------------------------------------------------
(* State spaces. *)

\* rounds stands for UnchangedCertRounds, which the code only compares with
\* the limit: it stays there once it has reached it.
Metadata == [st : {"", "CAPPED", "EXPIRED"}, count : Nat, started : BOOLEAN,
             cert : OptSerials, failed : SUBSET Sites, retries : Nat,
             rounds : 0 .. UnchangedLimit]

Reports == {"none", "success", "partial", "unchanged", "failure"}

TypeOK ==
  /\ pc \in {"idle", "gate", "retry_save", "query", "rollback_save", "attempt",
             "cap_save", "intent_save", "deploy", "bind", "result_save",
             "callback", "finish"}
  /\ mem \in Metadata /\ disk \in Metadata /\ snap \in Metadata
  /\ replaying \in BOOLEAN
  /\ got \in OptSerials /\ (pc \in {"attempt", "intent_save", "deploy", "bind"} => got # NoCert)
  /\ todo \subseteq Sites /\ good \subseteq Sites /\ bad \subseteq Sites
  /\ rep \in Reports
  /\ iis \in [Sites -> OptSerials]
  /\ srv \in [status : {"active", "waiting", "terminal"}, cert : Serials]
  /\ life \in [Serials -> {"fresh", "due", "expired"}]
  /\ base \in OptSerials
  /\ hurt \subseteq Sites
  /\ starts \in Nat /\ same \in Nat
  /\ reported \in BOOLEAN
  /\ faults \in 0 .. MaxFaults

Metadata0(c, F) == [st |-> "", count |-> 0, started |-> FALSE, cert |-> c,
                    failed |-> F, retries |-> 0, rounds |-> 0]

\* Either setup has deployed the first certificate, on all bindings or on some
\* of them, or the certificate was added in the GUI and never deployed.
Init ==
  /\ pc = "idle"
  /\ \/ \E F \in SUBSET Sites \ {Sites} :
          /\ disk = Metadata0(1, F)
          /\ iis = [s \in Sites |-> IF s \in F THEN NoCert ELSE 1]
          /\ base = 1 /\ hurt = F
     \/ /\ disk = Metadata0(NoCert, {})
        /\ iis = [s \in Sites |-> NoCert]
        /\ base = NoCert /\ hurt = {}
  /\ mem = disk /\ snap = disk
  /\ replaying = FALSE /\ got = NoCert
  /\ todo = {} /\ good = {} /\ bad = {} /\ rep = "none"
  /\ srv = [status |-> "active", cert |-> 1]
  /\ life = [c \in Serials |-> "fresh"]
  /\ starts = 0 /\ same = 0 /\ reported = FALSE /\ faults = 0

Goto(label) == pc' = label

Fault ==
  /\ faults < MaxFaults
  /\ faults' = faults + 1
  /\ UNCHANGED <<base, starts, same, reported>>

\* The run is over; what it had in memory is gone.
EndRun ==
  /\ Goto("idle") /\ mem' = disk' /\ snap' = disk'
  /\ replaying' = FALSE /\ got' = NoCert
  /\ todo' = {} /\ good' = {} /\ bad' = {} /\ rep' = "none"

-----------------------------------------------------------------------------
(* Before the query: the gate, and the quota of the failed bindings. *)

Closed(m) == m.st # ""

Expired(c) == c # NoCert /\ life[c] = "expired"

\* The round is for the bindings that failed after an adoption.
Retry == snap.failed # {}

\* bindingRetry is decided as the code decides it, on the metadata at the
\* start; snap keeps that for the rest of the run.
StartRun ==
  /\ pc = "idle"
  /\ Goto("gate")
  /\ UNCHANGED <<toolVars, runVars, srvVars, histVars>>

GateExpires ==
  /\ pc = "gate" /\ Expired(mem.cert)
  /\ mem' = [mem EXCEPT !.st = "EXPIRED"]
  /\ Goto("finish")
  /\ UNCHANGED <<disk, iis, runVars, srvVars, histVars>>

GateClosed ==
  /\ pc = "gate" /\ ~Expired(mem.cert) /\ Closed(mem)
  /\ Goto("finish")
  /\ UNCHANGED <<toolVars, runVars, srvVars, histVars>>

GateOpen ==
  /\ pc = "gate" /\ ~Expired(mem.cert) /\ ~Closed(mem) /\ ~Retry
  /\ Goto("query")
  /\ UNCHANGED <<toolVars, runVars, srvVars, histVars>>

RetryExhausted ==
  /\ pc = "gate" /\ ~Expired(mem.cert) /\ ~Closed(mem) /\ Retry
  /\ mem.retries >= MaxDeployAttempts
  /\ Goto("finish")
  /\ UNCHANGED <<toolVars, runVars, srvVars, histVars>>

\* Mutant: the round for the failed bindings is not counted.
RetryForgotten ==
  /\ pc = "gate" /\ ~Expired(mem.cert) /\ ~Closed(mem) /\ Retry
  /\ mem.retries < MaxDeployAttempts
  /\ Goto("retry_save")
  /\ UNCHANGED <<toolVars, runVars, srvVars, histVars>>

RetryCounts ==
  /\ pc = "gate" /\ ~Expired(mem.cert) /\ ~Closed(mem) /\ Retry
  /\ mem.retries < MaxDeployAttempts
  /\ mem' = [mem EXCEPT !.retries = @ + 1]
  /\ Goto("retry_save")
  /\ UNCHANGED <<disk, iis, runVars, srvVars, histVars>>

RetrySaved ==
  /\ pc = "retry_save"
  /\ disk' = mem
  /\ reported' = FALSE
  /\ Goto("query")
  /\ UNCHANGED <<mem, iis, runVars, srvVars, base, hurt, starts, same, faults>>

\* A failed save takes back what it was to persist.
SaveFails ==
  /\ pc \in {"retry_save", "cap_save", "intent_save"}
  /\ mem' = snap
  /\ Goto("finish")
  /\ Fault
  /\ UNCHANGED <<disk, iis, runVars, srvVars, hurt>>

-----------------------------------------------------------------------------
(* The query. *)

\* No answer, or one that cannot be deployed: unreadable expiry, no
\* intermediate certificate, too large.  A binding retry stays counted.
QueryUseless ==
  /\ pc = "query"
  /\ Goto("finish")
  /\ Fault
  /\ UNCHANGED <<toolVars, runVars, srvVars, hurt>>

QueryStopped ==
  /\ pc = "query" /\ srv.status = "terminal"
  /\ Goto("finish")
  /\ UNCHANGED <<toolVars, runVars, srvVars, histVars>>

QueryWaiting ==
  /\ pc = "query" /\ srv.status = "waiting" /\ ~Retry
  /\ Goto("finish")
  /\ UNCHANGED <<toolVars, runVars, srvVars, histVars>>

\* rollbackBindingRetry: nothing to deploy yet does not use the quota up.
RetryWaits ==
  /\ pc = "query" /\ srv.status = "waiting" /\ Retry
  /\ mem' = [mem EXCEPT !.retries = @ - 1]
  /\ Goto("rollback_save")
  /\ UNCHANGED <<disk, iis, runVars, srvVars, histVars>>

RollbackSaved ==
  /\ pc = "rollback_save"
  /\ disk' = mem
  /\ Goto("finish")
  /\ UNCHANGED <<mem, iis, runVars, srvVars, histVars>>

RollbackSaveFails ==
  /\ pc = "rollback_save"
  /\ mem' = [mem EXCEPT !.retries = @ + 1]
  /\ Goto("finish")
  /\ Fault
  /\ UNCHANGED <<disk, iis, runVars, srvVars, hurt>>

QueryExpired ==
  /\ pc = "query" /\ srv.status = "active" /\ Expired(srv.cert)
  /\ mem' = [mem EXCEPT !.st = "EXPIRED"]
  /\ Goto("finish")
  /\ UNCHANGED <<disk, iis, runVars, srvVars, histVars>>

\* The order's certificate is far from its expiry.
HealthySkip ==
  /\ pc = "query" /\ srv.status = "active" /\ ~Retry
  /\ life[srv.cert] = "fresh"
  /\ Goto("finish")
  /\ UNCHANGED <<toolVars, runVars, srvVars, histVars>>

Fetch ==
  /\ pc = "query" /\ srv.status = "active"
  /\ life[srv.cert] = "due" \/ (Retry /\ life[srv.cert] = "fresh")
  /\ got' = srv.cert
  /\ Goto("attempt")
  /\ UNCHANGED <<toolVars, snap, replaying, todo, good, bad, rep, srvVars, histVars>>

-----------------------------------------------------------------------------
(* persistDeployAttempt: the intent is on disk before IIS is touched. *)

MarkCapped(m) == [m EXCEPT !.st = "CAPPED"]

\* What is in memory and, in all these cases, on disk is what a failed save of
\* the outcome will fall back to.
BeginRound(m, again) ==
  /\ snap' = m /\ replaying' = again
  /\ Goto("deploy")

AttemptOfRetry ==
  /\ pc = "attempt" /\ Retry
  /\ BeginRound(mem, FALSE)
  /\ UNCHANGED <<toolVars, got, todo, good, bad, rep, srvVars, histVars>>

AttemptReplays ==
  /\ pc = "attempt" /\ ~Retry /\ mem.started
  /\ BeginRound(mem, TRUE)
  /\ UNCHANGED <<toolVars, got, todo, good, bad, rep, srvVars, histVars>>

AttemptCapped ==
  /\ pc = "attempt" /\ ~Retry /\ ~mem.started
  /\ mem.count >= MaxDeployAttempts
  /\ mem' = MarkCapped(mem)
  /\ Goto("cap_save")
  /\ UNCHANGED <<disk, iis, runVars, srvVars, histVars>>

CapSaved ==
  /\ pc = "cap_save"
  /\ disk' = mem
  /\ Goto("finish")
  /\ UNCHANGED <<mem, iis, runVars, srvVars, histVars>>

AttemptCounts ==
  /\ pc = "attempt" /\ ~Retry /\ ~mem.started
  /\ mem.count < MaxDeployAttempts
  /\ mem' = [mem EXCEPT !.count = @ + 1, !.started = TRUE]
  /\ Goto("intent_save")
  /\ UNCHANGED <<disk, iis, runVars, srvVars, histVars>>

\* Mutant: the attempt is only in memory when IIS is touched.
IntentUnsaved ==
  /\ pc = "intent_save"
  /\ BeginRound(mem, FALSE)
  /\ UNCHANGED <<toolVars, got, todo, good, bad, rep, srvVars, histVars>>

IntentSaved ==
  /\ pc = "intent_save"
  /\ disk' = mem
  /\ reported' = FALSE
  /\ BeginRound(mem, FALSE)
  /\ UNCHANGED <<mem, iis, got, todo, good, bad, rep, srvVars,
                 base, hurt, starts, same, faults>>

-----------------------------------------------------------------------------
(* deployCertWithRules and deployCertAutoMode. *)

\* A replay is not a new round.
Counted(n) == IF Retry \/ replaying THEN n ELSE n + 1

\* reconcileFailedDeploy, when no binding was processed and when some were.
Withdrawn(m) ==
  [m EXCEPT !.count = IF replaying \/ @ = 0 THEN @ ELSE @ - 1, !.started = FALSE]

Reconciled(m) ==
  LET ended == [m EXCEPT !.started = FALSE] IN
  IF ended.count >= MaxDeployAttempts THEN MarkCapped(ended) ELSE ended

\* Bindings this round is for: all, or those that failed after an adoption.
Wanted == IF Retry THEN snap.failed ELSE Sites

\* None of them is found: the round does nothing.
NoTarget ==
  /\ pc = "deploy"
  /\ mem' = Withdrawn(mem) /\ rep' = "none"
  /\ Goto("result_save")
  /\ UNCHANGED <<disk, iis, snap, replaying, got, todo, good, bad, srvVars, histVars>>

\* Wrong private key, no PFX, certificate store refuses, bindings unreadable.
InstallFails ==
  /\ pc = "deploy"
  /\ mem' = Reconciled(mem) /\ rep' = "failure"
  /\ starts' = Counted(starts)
  /\ Goto("result_save")
  /\ UNCHANGED <<disk, iis, snap, replaying, got, todo, good, bad, srvVars,
                 base, hurt, same, reported, faults>>

Install ==
  /\ pc = "deploy"
  /\ \E T \in SUBSET Wanted :
       /\ T # {} /\ Wanted \ T \subseteq Movable
       /\ todo' = T
  /\ starts' = Counted(starts)
  /\ Goto("bind")
  /\ UNCHANGED <<toolVars, snap, replaying, got, good, bad, rep, srvVars,
                 base, hurt, same, reported, faults>>

BindOk(s) ==
  /\ pc = "bind" /\ s \in todo
  /\ iis' = [iis EXCEPT ![s] = got]
  /\ todo' = todo \ {s} /\ good' = good \cup {s}
  /\ hurt' = hurt \ {s}
  /\ UNCHANGED <<pc, mem, disk, snap, replaying, got, bad, rep, srvVars,
                 base, starts, same, reported, faults>>

\* Mutant: the loop over the bindings stops at the first failure.
BindFailsBreaks(s) ==
  /\ pc = "bind" /\ s \in todo
  /\ \E c \in {iis[s], NoCert, got} : iis' = [iis EXCEPT ![s] = c]
  /\ todo' = {} /\ bad' = bad \cup {s}
  /\ hurt' = hurt \cup {s}
  /\ UNCHANGED <<pc, mem, disk, snap, replaying, got, good, rep, srvVars,
                 base, starts, same, reported, faults>>

\* After a failed bind the old certificate is back, or the binding is lost, or
\* it does serve the new certificate and the verification could not see it.
BindFails(s) ==
  /\ pc = "bind" /\ s \in todo
  /\ \E c \in {iis[s], NoCert, got} : iis' = [iis EXCEPT ![s] = c]
  /\ todo' = todo \ {s} /\ bad' = bad \cup {s}
  /\ hurt' = hurt \cup {s}
  /\ UNCHANGED <<pc, mem, disk, snap, replaying, got, good, rep, srvVars,
                 base, starts, same, reported, faults>>

-----------------------------------------------------------------------------
(* The outcome: adopt the certificate, or count a failure. *)

Bound == pc = "bind" /\ todo = {}

\* Mutant: the mark of the attempt under way survives the adoption.
AdoptedStarted == [mem EXCEPT !.st = "", !.count = 0, !.cert = got,
                              !.failed = {}, !.retries = 0]

\* updateCertMetadata and updateCertSerial.
Adopted == [mem EXCEPT !.st = "", !.count = 0, !.started = FALSE, !.cert = got,
                       !.failed = {}, !.retries = 0]

\* trackCertUnchanged, on the serial number before the round.
SameSerial == snap.cert # NoCert /\ snap.cert = got
\* Mutant: the adoption clears the rounds before they are counted on.
NextRoundsCleared == 1

NextRounds == IF snap.rounds < UnchangedLimit THEN snap.rounds + 1 ELSE snap.rounds
UnchangedTooLong == SameSerial /\ NextRounds >= UnchangedLimit

Outcome(m, r) ==
  /\ mem' = m /\ rep' = r
  /\ Goto("result_save")
  /\ UNCHANGED <<disk, iis, snap, replaying, got, todo, good, bad, srvVars>>

\* Mutant: a round that failed everywhere is treated as one that did nothing.
AllFailedWithdrawn ==
  /\ Bound /\ good = {}
  /\ Outcome(Withdrawn(mem), "failure")
  /\ UNCHANGED histVars

AllFailed ==
  /\ Bound /\ good = {}
  /\ Outcome(Reconciled(mem), "failure")
  /\ UNCHANGED histVars

AllBound ==
  /\ Bound /\ bad = {} /\ ~UnchangedTooLong
  /\ Outcome([Adopted EXCEPT !.rounds = IF SameSerial THEN NextRounds ELSE 0], "success")
  /\ UNCHANGED histVars

\* All bound, but the server keeps handing out the same certificate: judged a
\* failure, and preserveUnchangedFailureState keeps the attempt counted.
AllBoundUnchanged ==
  /\ Bound /\ bad = {} /\ UnchangedTooLong
  /\ Outcome(Reconciled([Adopted EXCEPT !.count = snap.count, !.cert = snap.cert,
                                        !.rounds = NextRounds]), "unchanged")
  /\ UNCHANGED histVars

SomeBound ==
  /\ Bound /\ good # {} /\ bad # {}
  /\ Outcome([Adopted EXCEPT !.failed = bad,
                             !.retries = IF Retry THEN snap.retries ELSE 0], "partial")
  /\ UNCHANGED histVars

\* The certificate or its private key cannot be stored in the order directory.
AdoptionFails ==
  /\ Bound /\ good # {}
  /\ Outcome(Reconciled(mem), "failure")
  /\ Fault
  /\ UNCHANGED hurt

\* The outcome is on disk.
ResultSaved ==
  LET accepted == rep \in {"success", "partial"} IN
  /\ pc = "result_save"
  /\ disk' = mem
  /\ Goto(IF rep = "none" THEN "finish" ELSE "callback")
  /\ starts' = IF accepted THEN 0 ELSE starts
  /\ base' = IF accepted /\ ~Retry THEN got ELSE base
  /\ same' = IF Retry \/ rep \in {"none", "failure"} THEN same
             ELSE IF rep # "partial" /\ SameSerial THEN same + 1 ELSE 0
  /\ UNCHANGED <<mem, iis, runVars, srvVars, hurt, reported, faults>>

\* Mutant: the outcome is called back although it is not on disk.
ResultSaveFailsReports ==
  /\ pc = "result_save"
  /\ mem' = snap
  /\ Goto("callback")
  /\ Fault
  /\ UNCHANGED <<disk, iis, runVars, srvVars, hurt>>

ResultSaveFails ==
  /\ pc = "result_save"
  /\ mem' = snap
  /\ Goto("finish")
  /\ Fault
  /\ UNCHANGED <<disk, iis, runVars, srvVars, hurt>>

\* emitDeployCallback: once, after the outcome is saved.
Callback ==
  /\ pc = "callback"
  /\ reported' = TRUE
  /\ Goto("finish")
  /\ UNCHANGED <<toolVars, runVars, srvVars, base, hurt, starts, same, faults>>

\* The run's closing save.
FinishSaved ==
  /\ pc = "finish"
  /\ disk' = mem
  /\ EndRun
  /\ UNCHANGED <<iis, srvVars, histVars>>

FinishSaveFails ==
  /\ pc = "finish"
  /\ UNCHANGED <<disk, iis, srvVars, hurt>>
  /\ EndRun
  /\ Fault

-----------------------------------------------------------------------------
(* The process, the server, the clock. *)

\* The process dies; while a binding is replaced, that binding is lost or new.
Crash ==
  /\ pc # "idle"
  /\ UNCHANGED <<disk, srvVars>>
  /\ EndRun
  /\ Fault
  /\ \/ UNCHANGED <<iis, hurt>>
     \/ \E s \in todo, c \in {NoCert, got} :
          /\ pc = "bind"
          /\ iis' = [iis EXCEPT ![s] = c]
          /\ hurt' = hurt \cup {s}

ServerReissues ==
  /\ srv.status = "active" /\ srv.cert < MaxSerial
  /\ srv' = [srv EXCEPT !.status = "waiting"]
  /\ UNCHANGED <<pc, toolVars, runVars, life, histVars>>

ServerIssues ==
  /\ srv.status = "waiting"
  /\ srv' = [status |-> "active", cert |-> srv.cert + 1]
  /\ UNCHANGED <<pc, toolVars, runVars, life, histVars>>

ServerStops ==
  /\ srv.status = "active"
  /\ srv' = [srv EXCEPT !.status = "terminal"]
  /\ Fault
  /\ UNCHANGED <<pc, toolVars, runVars, life, hurt>>

ServerRecovers ==
  /\ srv.status = "terminal"
  /\ srv' = [srv EXCEPT !.status = "active"]
  /\ UNCHANGED <<pc, toolVars, runVars, life, histVars>>

\* A certificate comes near its expiry, then expires; an older one does so
\* first.  A run is short: validity only changes between runs.
Age ==
  /\ pc = "idle"
  /\ \E c \in Serials :
       /\ c <= srv.cert /\ life[c] # "expired"
       /\ \A o \in Serials : o < c => life[o] # "fresh"
       /\ life[c] = "due" => \A o \in Serials : o < c => life[o] = "expired"
       /\ life' = [life EXCEPT ![c] = IF @ = "fresh" THEN "due" ELSE "expired"]
  /\ UNCHANGED <<pc, toolVars, runVars, srv, histVars>>

-----------------------------------------------------------------------------
Before == \/ StartRun \/ GateExpires \/ GateClosed \/ GateOpen
          \/ RetryExhausted \/ RetryCounts \/ RetrySaved \/ SaveFails
Query == \/ QueryUseless \/ QueryStopped \/ QueryWaiting \/ RetryWaits
         \/ RollbackSaved \/ RollbackSaveFails \/ QueryExpired
         \/ HealthySkip \/ Fetch
Attempt == \/ AttemptOfRetry \/ AttemptReplays \/ AttemptCapped \/ CapSaved
           \/ AttemptCounts \/ IntentSaved
Round == \/ NoTarget \/ InstallFails \/ Install
         \/ \E s \in Sites : BindOk(s) \/ BindFails(s)
Result == \/ AllFailed \/ AllBound \/ AllBoundUnchanged \/ SomeBound
          \/ AdoptionFails \/ ResultSaved \/ ResultSaveFails \/ Callback
          \/ FinishSaved \/ FinishSaveFails
Environment == \/ ServerReissues \/ ServerIssues \/ ServerStops
               \/ ServerRecovers \/ Age

Run == Before \/ Query \/ Attempt \/ Round \/ Result
Next == Run \/ Crash \/ Environment

Spec == Init /\ [][Next]_vars

\* The scheduled task starts a run every day and a run goes on to its end.
FairSpec == Spec /\ WF_vars(Run)

-----------------------------------------------------------------------------
(* What the rounds promise (DeploySpec). *)

Recorded(m) ==
  [cert |-> m.cert, failed |-> m.failed,
   mark |-> IF Closed(m) THEN "closed" ELSE IF m.started THEN "begun" ELSE "open"]

InRound == pc \in {"deploy", "bind", "result_save"}

Underway == [cert |-> IF InRound THEN got ELSE NoCert,
             todo |-> IF InRound THEN todo ELSE {},
             good |-> IF InRound THEN good ELSE {},
             bad |-> IF InRound THEN bad ELSE {}]

Account == INSTANCE DeploySpec WITH
  record <- Recorded(disk), round <- Underway,
  owed <- IF pc = "callback" THEN rep ELSE "none"

\* No binding is touched before the attempt is on disk; what is recorded as
\* deployed was bound, with the failures of that round and no others; what is
\* called back is on record (persistDeployAttempt, finalizeSuccessfulDeployment,
\* emitDeployCallback).
RoundsAccountedFor == Account!Spec

-----------------------------------------------------------------------------
(* Properties. *)

\* At most MaxDeployAttempts new rounds over all bindings between two saved
\* adoptions, replays aside: the intent is persisted before IIS is touched, and
\* only a new round that processed no binding gives its attempt back, never a
\* replay, whose attempt has been used (beginDeployAttempt,
\* reconcileFailedDeploy).
AttemptsBounded == starts <= MaxDeployAttempts

\* Bindings that failed after an adoption never use up the certificate's own
\* quota: as long as some are remembered no deployment attempt is counted or
\* under way and the certificate is not capped.
RetryKeepsQuota ==
  \A m \in {mem, disk} :
    m.failed # {} => m.count = 0 /\ ~m.started /\ m.st # "CAPPED"

\* A binding whose last attempt failed, or was cut short by a crash, is not
\* forgotten: it is in the failed set, or the whole certificate still counts
\* as not deployed, or it is closed.
FailedSiteRemembered ==
  pc = "idle" =>
    \A s \in hurt \ Movable :
      s \in disk.failed \/ disk.count > 0 \/ disk.started \/ Closed(disk)

\* Every binding that is not known to have failed serves at least the
\* certificate adopted by the last round over all bindings.
HealthyServeAdopted ==
  pc = "idle" =>
    \A s \in Sites \ (Movable \cup hurt \cup disk.failed) : iis[s] >= base

\* The outcome of one persisted attempt is called back at most once, however
\* often the attempt is interrupted and replayed.
ReportedOnce == pc = "callback" => ~reported

\* A server that keeps handing out the same certificate cannot make the tool
\* install it for ever: trackCertUnchanged turns the rounds into failures and
\* preserveUnchangedFailureState keeps them counted until the cap.
SameCertBounded == same <= MaxDeployAttempts + UnchangedLimit - 1

\* The failed bindings are not retried for ever: they recover, or use up their
\* quota, or the certificate is closed, or the server never answers with a
\* certificate again.
PartialSettles ==
  disk.failed # {} ~>
    \/ disk.failed = {} \/ disk.retries = MaxDeployAttempts \/ Closed(disk)
    \/ [](srv.status = "waiting")

-----------------------------------------------------------------------------
(* What the repository says and the code does not do. *)

\* deploy-spec.md 3.8: failed bindings must not keep the healthy ones from
\* receiving a new certificate.  As in HealthyServeAdopted, but for the
\* certificate the metadata says is deployed.
HealthyServeRecorded ==
  pc = "idle" =>
    \A s \in Sites \ (Movable \cup hurt \cup disk.failed) : iis[s] >= disk.cert

\* README.md: the daily run renews certificates.  A run does not skip the
\* renewed certificate the server offers while the deployed one runs out.
RenewalNotSkipped ==
  [][HealthySkip => ~(mem.cert # NoCert /\ life[mem.cert] # "fresh"
                      /\ srv.cert > mem.cert)]_vars

=============================================================================
