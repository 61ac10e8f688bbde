----------------------------- MODULE DeployProofs -----------------------------
(***************************************************************************)
(* The inductive invariants behind the safety properties of DeployAttempt, *)
(* and the proofs, for any set of bindings, any limits and any number of   *)
(* certificates and faults.                                                *)
(***************************************************************************)
EXTENDS DeployAttempt, TLAPS

(* A binding retry is counted before the query, so that it can be taken back. *)
RetryCounted == pc \in {"retry_save", "query"} /\ Retry => mem.retries > 0

(* The server only withdraws a certificate that it can replace by a next one. *)
NextIssuable == srv.status = "waiting" => srv.cert < MaxSerial

TypeInv == TypeOK /\ RetryCounted /\ NextIssuable

(* What memory, the disk and the snapshot have to do with each other. *)
SnapInv ==
  /\ pc \in {"idle", "gate", "query", "attempt", "deploy", "bind", "callback"}
       => mem = disk
  /\ pc \in {"idle", "gate", "retry_save", "cap_save", "intent_save", "deploy",
             "bind", "result_save"} => snap = disk
  /\ pc \in {"query", "attempt"} /\ ~Retry => snap = disk
  /\ pc \in {"retry_save", "query", "rollback_save", "attempt", "cap_save",
             "intent_save"} => mem.failed = snap.failed
  /\ pc \in {"cap_save", "intent_save"} => ~Retry
  /\ pc \in {"retry_save", "rollback_save"} => Retry
  /\ pc \in {"retry_save", "query", "rollback_save", "attempt", "intent_save",
             "deploy", "bind"} => ~Closed(mem)
  /\ pc \in {"intent_save", "deploy", "bind"} /\ ~Retry => mem.started

(* The quota of the failed bindings leaves the certificate's own alone, and an
   attempt under way is a counted one. *)
Quota(m) ==
  /\ m.failed # {} => m.count = 0 /\ ~m.started /\ m.st # "CAPPED"
  /\ m.started => m.count > 0
  /\ m.count <= MaxDeployAttempts

QuotaInv == Quota(mem) /\ Quota(disk) /\ Quota(snap)

(* The rounds that began are on disk as counted attempts, and still in memory
   unless an adoption is about to clear them. *)
CountInv ==
  /\ starts <= disk.count
  /\ ~(pc = "result_save" /\ rep \in {"success", "partial"}) => starts <= mem.count
  /\ pc = "intent_save" => starts < mem.count
  /\ pc = "deploy" /\ ~replaying /\ ~Retry => starts < mem.count

(* As long as an attempt is under way its outcome was not called back. *)
ReportInv ==
  /\ pc \in {"deploy", "bind", "result_save", "callback"} => ~reported
  /\ pc \in {"query", "attempt"} /\ Retry => ~reported
  /\ disk.started \/ (pc # "intent_save" /\ mem.started) => ~reported
  /\ pc \in {"result_save", "callback"} => ~mem.started

(* Rounds in a row with the same certificate are counted in rounds up to the
   limit, and from there on as attempts. *)
SameOK(m, n) ==
  /\ m.rounds < UnchangedLimit => n <= m.rounds
  /\ m.rounds = UnchangedLimit => n < UnchangedLimit + m.count
  /\ m.rounds = UnchangedLimit /\ m.started => n + 1 < UnchangedLimit + m.count
  /\ m.failed # {} => n = 0

NextSame == IF Retry \/ rep \in {"none", "failure"} THEN same
            ELSE IF rep # "partial" /\ SameSerial THEN same + 1 ELSE 0

SameInv ==
  /\ SameOK(disk, same)
  /\ SameOK(mem, IF pc = "result_save" THEN NextSame ELSE same)

(* The bindings of the round under way. *)
RoundInv ==
  /\ pc \notin {"bind", "result_save", "callback", "finish"}
       => todo = {} /\ good = {} /\ bad = {}
  /\ pc = "bind" =>
       /\ todo \cup good \cup bad \subseteq Wanted
       /\ Wanted \ Movable \subseteq todo \cup good \cup bad
       /\ todo \cap (good \cup bad) = {}
       /\ good \cap hurt = {} /\ bad \subseteq hurt
       /\ \A s \in good : iis[s] = got

(* The failed bindings are known to metadata m. *)
Remembers(m) ==
  \A s \in hurt \ Movable :
    s \in m.failed \/ m.count > 0 \/ m.started \/ Closed(m)

RememberInv == Remembers(mem) /\ Remembers(disk)

(* A new attempt of a certificate with bindings that failed is not its first:
   giving the attempt back leaves one counted. *)
PaidInv ==
  pc = "intent_save" \/ (pc = "deploy" /\ ~Retry /\ ~replaying)
    => hurt \ Movable = {} \/ mem.count > 1

(* All other bindings serve certificate c or a later one. *)
Serve(m, c) == \A s \in Sites \ (Movable \cup hurt \cup m.failed) : iis[s] >= c

ServeInv ==
  /\ base <= srv.cert
  /\ pc \in {"attempt", "intent_save", "deploy", "bind", "result_save"}
       => base <= got /\ got <= srv.cert
  /\ Serve(mem, base) /\ Serve(disk, base)
  /\ pc = "result_save" /\ rep \in {"success", "partial"} /\ ~Retry
       => Serve(mem, got)

(***************************************************************************)
(* Type correctness.                                                       *)
(***************************************************************************)

LEMMA MarkCappedType ==
  ASSUME NEW m \in Metadata PROVE MarkCapped(m) \in Metadata
BY DEF MarkCapped, Metadata

LEMMA WithdrawnType == ASSUME NEW m \in Metadata PROVE Withdrawn(m) \in Metadata
<1>1. m.count \in Nat
  BY DEF Metadata
<1>2. (IF replaying \/ m.count = 0 THEN m.count ELSE m.count - 1) \in Nat
  BY <1>1
<1>. QED BY <1>2 DEF Withdrawn, Metadata

LEMMA ReconciledType ==
  ASSUME NEW m \in Metadata PROVE Reconciled(m) \in Metadata
<1>1. [m EXCEPT !.started = FALSE] \in Metadata
  BY DEF Metadata
<1>. QED BY <1>1, MarkCappedType DEF Reconciled

LEMMA AdoptedType == ASSUME TypeInv PROVE Adopted \in Metadata
BY DEF Adopted, TypeInv, TypeOK, Metadata

LEMMA NextRoundsType == ASSUME TypeInv PROVE NextRounds \in 0 .. UnchangedLimit
<1>1. snap.rounds \in 0 .. UnchangedLimit
  BY DEF TypeInv, TypeOK, Metadata
<1>. QED BY <1>1, DeployAssumption DEF NextRounds

LEMMA FaultType ==
  ASSUME TypeInv, Fault
  PROVE  faults' \in 0 .. MaxFaults /\ UNCHANGED <<base, starts, same, reported>>
BY DeployAssumption DEF Fault, TypeInv, TypeOK

LEMMA BeforeType == ASSUME TypeInv, Before PROVE TypeInv'
<1> USE DEF vars, toolVars, runVars, srvVars, histVars, Goto
<1>1. CASE StartRun
  BY <1>1 DEF StartRun, TypeInv, TypeOK, RetryCounted, NextIssuable, Retry
<1>2. CASE GateExpires
  <2>1. mem' \in Metadata
    BY <1>2 DEF GateExpires, Expired, TypeInv, TypeOK, RetryCounted, Metadata,
     OptSerials
  <2>. QED BY <1>2, <2>1 DEF GateExpires, Expired, TypeInv, TypeOK,
      RetryCounted,
     NextIssuable, Retry
<1>3. CASE GateClosed
  BY <1>3 DEF GateClosed, Closed, Expired, TypeInv, TypeOK, RetryCounted,
     NextIssuable, Retry
<1>4. CASE GateOpen
  BY <1>4 DEF GateOpen, Closed, Retry, Expired, TypeInv, TypeOK, RetryCounted,
     NextIssuable
<1>5. CASE RetryExhausted
  BY <1>5 DEF RetryExhausted, Closed, Retry, Expired, TypeInv, TypeOK,
     RetryCounted, NextIssuable
<1>6. CASE RetryCounts
  <2>1. mem \in Metadata /\ mem.retries \in Nat
    BY DEF TypeInv, TypeOK, Metadata
  <2>2. mem.retries + 1 \in Nat /\ mem.retries + 1 > 0
    BY <2>1
  <2>3. mem' \in Metadata /\ mem'.retries > 0
    BY <1>6, <2>1, <2>2 DEF RetryCounts, Metadata
  <2>. QED BY <1>6, <2>3 DEF RetryCounts, TypeInv, TypeOK, RetryCounted,
    NextIssuable
<1>7. CASE RetrySaved
  BY <1>7 DEF RetrySaved, TypeInv, TypeOK, RetryCounted, NextIssuable, Retry
<1>8. CASE SaveFails
  <2>1. mem' \in Metadata
    BY <1>8 DEF SaveFails, Fault, TypeInv, TypeOK, RetryCounted, Metadata,
     OptSerials
  <2>. QED BY <1>8, <2>1, DeployAssumption DEF SaveFails, Fault, TypeInv,
      TypeOK,
     RetryCounted, NextIssuable, Retry
<1>. QED BY <1>1, <1>2, <1>3, <1>4, <1>5, <1>6, <1>7, <1>8 DEF Before

LEMMA QueryType == ASSUME TypeInv, Query PROVE TypeInv'
<1> USE DEF vars, toolVars, runVars, srvVars, histVars, Goto
<1>1. CASE QueryUseless
  BY <1>1, DeployAssumption DEF QueryUseless, Fault, TypeInv, TypeOK,
     RetryCounted, NextIssuable, Retry
<1>2. CASE QueryStopped
  BY <1>2 DEF QueryStopped, TypeInv, TypeOK, RetryCounted, NextIssuable, Retry
<1>3. CASE QueryWaiting
  BY <1>3 DEF QueryWaiting, Retry, TypeInv, TypeOK, RetryCounted, NextIssuable
<1>4. CASE RetryWaits
  <2>1. mem \in Metadata /\ mem.retries \in Nat /\ mem.retries > 0
    BY <1>4 DEF RetryWaits, TypeInv, TypeOK, RetryCounted, Metadata
  <2>2. mem.retries - 1 \in Nat
    BY <2>1
  <2>3. mem' = [mem EXCEPT !.retries = mem.retries - 1]
    BY <1>4 DEF RetryWaits
  <2>4. mem' \in Metadata
    BY <2>1, <2>2, <2>3 DEF Metadata
  <2>. QED BY <1>4, <2>4 DEF RetryWaits, TypeInv, TypeOK, RetryCounted,
    NextIssuable
<1>5. CASE RollbackSaved
  BY <1>5 DEF RollbackSaved, TypeInv, TypeOK, RetryCounted, NextIssuable, Retry
<1>6. CASE RollbackSaveFails
  <2>1. mem \in Metadata /\ mem.retries \in Nat
    BY DEF TypeInv, TypeOK, Metadata
  <2>2. mem.retries + 1 \in Nat
    BY <2>1
  <2>3. mem' \in Metadata
    BY <1>6, <2>1, <2>2 DEF RollbackSaveFails, Metadata
  <2>. QED BY <1>6, <2>3, DeployAssumption
    DEF RollbackSaveFails, Fault, TypeInv, TypeOK, RetryCounted, NextIssuable
<1>7. CASE QueryExpired
  <2>1. mem' \in Metadata
    BY <1>7 DEF QueryExpired, Expired, TypeInv, TypeOK, RetryCounted, Metadata,
     OptSerials
  <2>. QED BY <1>7, <2>1 DEF QueryExpired, Expired, TypeInv, TypeOK,
     RetryCounted, NextIssuable, Retry
<1>8. CASE HealthySkip
  BY <1>8 DEF HealthySkip, Retry, TypeInv, TypeOK, RetryCounted, NextIssuable
<1>9. CASE Fetch
  <2>1. got' \in OptSerials /\ got' # NoCert
    BY <1>9, DeployAssumption DEF Fetch, TypeInv, TypeOK, Serials, OptSerials,
       NoCert
  <2>. QED BY <1>9, <2>1 DEF Fetch, TypeInv, TypeOK, RetryCounted, NextIssuable
<1>. QED BY <1>1, <1>2, <1>3, <1>4, <1>5, <1>6, <1>7, <1>8, <1>9 DEF Query

LEMMA AttemptType == ASSUME TypeInv, Attempt PROVE TypeInv'
<1> USE DEF vars, toolVars, runVars, srvVars, histVars, Goto
<1>1. CASE AttemptOfRetry
  BY <1>1 DEF AttemptOfRetry, Retry, BeginRound, TypeInv, TypeOK, RetryCounted,
     NextIssuable
<1>2. CASE AttemptReplays
  BY <1>2 DEF AttemptReplays, Retry, BeginRound, TypeInv, TypeOK, RetryCounted,
     NextIssuable
<1>3. CASE AttemptCapped
  <2>1. mem' \in Metadata
    BY <1>3 DEF AttemptCapped, Retry, MarkCapped, TypeInv, TypeOK,
        RetryCounted,
     Metadata, OptSerials
  <2>. QED BY <1>3, <2>1 DEF AttemptCapped, Retry, MarkCapped, TypeInv, TypeOK,
     RetryCounted, NextIssuable
<1>4. CASE CapSaved
  BY <1>4 DEF CapSaved, TypeInv, TypeOK, RetryCounted, NextIssuable, Retry
<1>5. CASE AttemptCounts
  <2>1. mem \in Metadata /\ mem.count \in Nat
    BY DEF TypeInv, TypeOK, Metadata
  <2>2. mem.count + 1 \in Nat
    BY <2>1
  <2>3. mem' \in Metadata
    BY <1>5, <2>1, <2>2 DEF AttemptCounts, Metadata
  <2>. QED BY <1>5, <2>3 DEF AttemptCounts, TypeInv, TypeOK, RetryCounted,
    NextIssuable
<1>6. CASE IntentSaved
  BY <1>6 DEF IntentSaved, BeginRound, TypeInv, TypeOK, RetryCounted,
     NextIssuable, Retry
<1>. QED BY <1>1, <1>2, <1>3, <1>4, <1>5, <1>6 DEF Attempt

LEMMA RoundType == ASSUME TypeInv, Round PROVE TypeInv'
<1> USE DEF vars, toolVars, runVars, srvVars, histVars, Goto
<1>1. CASE NoTarget
  <2>1. mem' \in Metadata
    BY <1>1, WithdrawnType DEF NoTarget, TypeInv, TypeOK
  <2>. QED BY <1>1, <2>1 DEF NoTarget, TypeInv, TypeOK, RetryCounted,
    NextIssuable, Reports
<1>2. CASE InstallFails
  <2>1. mem' \in Metadata
    BY <1>2, ReconciledType DEF InstallFails, TypeInv, TypeOK
  <2>2. starts' \in Nat
    BY <1>2 DEF InstallFails, Counted, TypeInv, TypeOK
  <2>. QED BY <1>2, <2>1, <2>2 DEF InstallFails, TypeInv, TypeOK, RetryCounted,
    NextIssuable,
           Reports
<1>3. CASE Install
  <2>1. Wanted \subseteq Sites
    BY DEF Wanted, TypeInv, TypeOK, Metadata
  <2>2. todo' \subseteq Sites
    BY <1>3, <2>1 DEF Install
  <2>3. starts' \in Nat
    BY <1>3 DEF Install, Counted, TypeInv, TypeOK
  <2>. QED BY <1>3, <2>2, <2>3 DEF Install, TypeInv, TypeOK, RetryCounted,
    NextIssuable
<1>4. ASSUME NEW s \in Sites, BindOk(s) PROVE TypeInv'
  BY <1>4 DEF BindOk, TypeInv, TypeOK, RetryCounted, NextIssuable, Retry,
     Reports, Serials, OptSerials
<1>5. ASSUME NEW s \in Sites, BindFails(s) PROVE TypeInv'
  <2>1. PICK c \in {iis[s], NoCert, got} : iis' = [iis EXCEPT ![s] = c]
    BY <1>5 DEF BindFails
  <2>2. c \in OptSerials
    BY DeployAssumption DEF TypeInv, TypeOK, OptSerials, NoCert
  <2>3. iis' \in [Sites -> OptSerials]
    BY <2>1, <2>2 DEF TypeInv, TypeOK
  <2>4. todo' \subseteq Sites /\ bad' \subseteq Sites /\ hurt' \subseteq Sites
    BY <1>5 DEF BindFails, TypeInv, TypeOK
  <2>. QED BY <1>5, <2>3, <2>4 DEF BindFails, TypeInv, TypeOK, RetryCounted,
    NextIssuable, Retry
<1>. QED BY <1>1, <1>2, <1>3, <1>4, <1>5 DEF Round

LEMMA ResultType == ASSUME TypeInv, Result PROVE TypeInv'
<1> USE DEF vars, toolVars, runVars, srvVars, histVars, Goto
<1>1. CASE AllFailed
  <2>1. mem' \in Metadata
    BY <1>1, ReconciledType DEF AllFailed, Outcome, TypeInv, TypeOK
  <2>. QED BY <1>1, <2>1 DEF AllFailed, Outcome, TypeInv, TypeOK, RetryCounted,
    NextIssuable,
           Reports
<1>2. CASE AllBound
  <2>1. Adopted \in Metadata /\ (IF SameSerial THEN NextRounds ELSE 0) \in 0 ..
    UnchangedLimit
    BY AdoptedType, NextRoundsType, DeployAssumption
  <2>2. mem' \in Metadata
    BY <1>2, <2>1 DEF AllBound, Outcome, Metadata
  <2>. QED BY <1>2, <2>2 DEF AllBound, Outcome, TypeInv, TypeOK, RetryCounted,
    NextIssuable,
           Reports
<1>3. CASE AllBoundUnchanged
  <2>1. [Adopted EXCEPT !.count = snap.count, !.cert = snap.cert,
                        !.rounds = NextRounds] \in Metadata
    BY AdoptedType, NextRoundsType DEF TypeInv, TypeOK, Metadata
  <2>2. mem' \in Metadata
    BY <1>3, <2>1, ReconciledType DEF AllBoundUnchanged, Outcome
  <2>. QED BY <1>3, <2>2 DEF AllBoundUnchanged, Outcome, TypeInv, TypeOK,
           RetryCounted, NextIssuable, Reports
<1>4. CASE SomeBound
  <2>1. (IF Retry THEN snap.retries ELSE 0) \in Nat /\ bad \in SUBSET Sites
    BY DEF TypeInv, TypeOK, Metadata
  <2>2. mem' \in Metadata
    BY <1>4, <2>1, AdoptedType DEF SomeBound, Outcome, Metadata
  <2>. QED BY <1>4, <2>2 DEF SomeBound, Outcome, TypeInv, TypeOK, RetryCounted,
    NextIssuable,
           Reports
<1>5. CASE AdoptionFails
  <2>1. mem' \in Metadata
    BY <1>5, ReconciledType DEF AdoptionFails, Outcome, TypeInv, TypeOK
  <2>. QED BY <1>5, <2>1, DeployAssumption
    DEF AdoptionFails, Outcome, Fault, TypeInv, TypeOK, RetryCounted,
      NextIssuable, Reports
<1>6. CASE ResultSaved
  BY <1>6 DEF ResultSaved, Retry, SameSerial, TypeInv, TypeOK, RetryCounted,
     NextIssuable, Reports
<1>7. CASE ResultSaveFails
  <2>1. mem' \in Metadata
    BY <1>7 DEF ResultSaveFails, Fault, TypeInv, TypeOK, RetryCounted,
        Metadata,
     OptSerials
  <2>. QED BY <1>7, <2>1, DeployAssumption DEF ResultSaveFails, Fault, TypeInv,
     TypeOK, RetryCounted, NextIssuable, Retry, Reports
<1>8. CASE Callback
  BY <1>8 DEF Callback, TypeInv, TypeOK, RetryCounted, NextIssuable, Retry,
     Reports
<1>9. CASE FinishSaved
  <2>1. mem' \in Metadata /\ disk' \in Metadata /\ snap' \in Metadata
    BY <1>9 DEF FinishSaved, EndRun, TypeInv, TypeOK
  <2>2. got' \in OptSerials /\ rep' \in Reports
    BY <1>9, DeployAssumption DEF FinishSaved, EndRun, OptSerials, NoCert,
       Reports
  <2>. QED BY <1>9, <2>1, <2>2 DEF FinishSaved, EndRun, TypeInv, TypeOK,
           RetryCounted, NextIssuable
<1>10. CASE FinishSaveFails
  <2>1. mem' \in Metadata /\ disk' \in Metadata /\ snap' \in Metadata
    BY <1>10 DEF FinishSaveFails, EndRun, TypeInv, TypeOK
  <2>2. got' \in OptSerials /\ rep' \in Reports
    BY <1>10, DeployAssumption DEF FinishSaveFails, EndRun, OptSerials, NoCert,
       Reports
  <2>. QED BY <1>10, <2>1, <2>2, FaultType
    DEF FinishSaveFails, EndRun, TypeInv, TypeOK, RetryCounted, NextIssuable
<1>. QED BY <1>1, <1>2, <1>3, <1>4, <1>5, <1>6, <1>7, <1>8, <1>9, <1>10 DEF
  Result

LEMMA CrashType == ASSUME TypeInv, Crash PROVE TypeInv'
<1> USE DEF vars, toolVars, runVars, srvVars, histVars, Goto
<1>1. mem' \in Metadata /\ disk' \in Metadata /\ snap' \in Metadata
  BY DEF Crash, EndRun, TypeInv, TypeOK
<1>2. got' \in OptSerials /\ rep' \in Reports /\ NoCert \in OptSerials
  BY DeployAssumption DEF Crash, EndRun, OptSerials, NoCert, Reports
<1>3. iis' \in [Sites -> OptSerials] /\ hurt' \subseteq Sites
  <2>1. CASE UNCHANGED <<iis, hurt>>
    BY <2>1 DEF TypeInv, TypeOK
  <2>2. ASSUME NEW s \in todo, NEW c \in {NoCert, got},
               iis' = [iis EXCEPT ![s] = c], hurt' = hurt \cup {s}
        PROVE  iis' \in [Sites -> OptSerials] /\ hurt' \subseteq Sites
    BY <2>2, <1>2 DEF TypeInv, TypeOK
  <2>. QED BY <2>1, <2>2 DEF Crash
<1>. QED BY <1>1, <1>2, <1>3, FaultType
  DEF Crash, EndRun, TypeInv, TypeOK, RetryCounted, NextIssuable

LEMMA EnvironmentType == ASSUME TypeInv, Environment PROVE TypeInv'
<1> USE DEF vars, toolVars, runVars, srvVars, histVars, Goto
<1>1. CASE ServerReissues
  BY <1>1 DEF ServerReissues, TypeInv, TypeOK, RetryCounted, NextIssuable,
     Retry, Serials, OptSerials
<1>2. CASE ServerIssues
  <2>1. srv' = [status |-> "active", cert |-> srv.cert + 1]
    BY <1>2 DEF ServerIssues
  <2>2. srv.cert \in 1 .. MaxSerial
    BY DEF TypeInv, TypeOK, Serials
  <2>3. srv.cert + 1 \in Serials
    BY <1>2, <2>2, DeployAssumption DEF ServerIssues, Serials, TypeInv,
       NextIssuable
  <2>. QED BY <1>2, <2>1, <2>3 DEF ServerIssues, TypeInv, TypeOK, RetryCounted,
    NextIssuable, Retry
<1>3. CASE ServerStops
  BY <1>3, DeployAssumption DEF ServerStops, Fault, TypeInv, TypeOK,
     RetryCounted, NextIssuable, Retry, Serials, OptSerials
<1>4. CASE ServerRecovers
  BY <1>4 DEF ServerRecovers, TypeInv, TypeOK, RetryCounted, NextIssuable,
     Retry, Serials, OptSerials
<1>5. CASE Age
  BY <1>5 DEF Age, TypeInv, TypeOK, RetryCounted, NextIssuable, Retry, Serials,
     OptSerials
<1>. QED BY <1>1, <1>2, <1>3, <1>4, <1>5 DEF Environment

LEMMA TypeInit == ASSUME Init PROVE TypeInv
<1>1. disk \in Metadata
  <2>1. 1 \in OptSerials /\ NoCert \in OptSerials /\ 0 \in 0 .. UnchangedLimit
    BY DeployAssumption DEF OptSerials, NoCert
  <2>2. \A F \in SUBSET Sites : Metadata0(1, F) \in Metadata
    BY <2>1 DEF Metadata0, Metadata
  <2>3. Metadata0(NoCert, {}) \in Metadata
    BY <2>1 DEF Metadata0, Metadata
  <2>. QED BY <2>2, <2>3 DEF Init
<1>2. iis \in [Sites -> OptSerials] /\ base \in OptSerials /\ got \in OptSerials
  BY DeployAssumption DEF Init, OptSerials, NoCert
<1>3. srv \in [status : {"active", "waiting", "terminal"}, cert : Serials]
  BY DeployAssumption DEF Init, Serials
<1>4. life \in [Serials -> {"fresh", "due", "expired"}]
  BY DEF Init
<1>5. mem \in Metadata /\ snap \in Metadata /\ hurt \subseteq Sites
  BY <1>1 DEF Init
<1>6. RetryCounted /\ NextIssuable
  BY DEF Init, RetryCounted, NextIssuable
<1>7. pc = "idle" /\ starts = 0 /\ same = 0 /\ faults \in 0 .. MaxFaults
  BY DeployAssumption DEF Init
<1>8. rep \in Reports /\ reported \in BOOLEAN /\ replaying \in BOOLEAN
      /\ todo = {} /\ good = {} /\ bad = {}
  BY DEF Init, Reports
<1>. QED BY <1>1, <1>2, <1>3, <1>4, <1>5, <1>6, <1>7, <1>8 DEF TypeInv, TypeOK

LEMMA TypeStep == ASSUME TypeInv, [Next]_vars PROVE TypeInv'
<1>1. CASE UNCHANGED vars
  BY <1>1 DEF TypeInv, TypeOK, RetryCounted, NextIssuable, Retry, vars,
      toolVars, runVars,
     srvVars, histVars
<1>. QED BY <1>1, BeforeType, QueryType, AttemptType, RoundType, ResultType,
  CrashType, EnvironmentType DEF Next, Run

LEMMA TypeInvariance == Spec => []TypeInv
BY TypeInit, TypeStep, PTL DEF Spec

\* Every variable of the deployment rounds keeps its type in every reachable
\* state, whatever the bindings, the limits and the number of faults.
THEOREM TypeCorrect == Spec => []TypeOK
<1>1. TypeInv => TypeOK
  BY DEF TypeInv
<1>. QED BY <1>1, TypeInvariance, PTL

(***************************************************************************)
(* What the steps do to the fields of the metadata.                        *)
(***************************************************************************)

LEMMA FieldTypes ==
  ASSUME NEW m \in Metadata
  PROVE  /\ m.st \in {"", "CAPPED", "EXPIRED"} /\ m.count \in Nat
         /\ m.started \in BOOLEAN /\ m.failed \subseteq Sites
         /\ m.retries \in Nat /\ m.rounds \in 0 .. UnchangedLimit
BY DEF Metadata

LEMMA MetadataFacts ==
  ASSUME TypeInv
  PROVE  /\ mem \in Metadata /\ disk \in Metadata /\ snap \in Metadata
         /\ mem.count \in Nat /\ disk.count \in Nat /\ snap.count \in Nat
         /\ mem.started \in BOOLEAN /\ disk.started \in BOOLEAN
         /\ snap.started \in BOOLEAN
         /\ starts \in Nat /\ same \in Nat
         /\ mem.rounds \in 0 .. UnchangedLimit /\ disk.rounds \in 0 .. UnchangedLimit
         /\ snap.rounds \in 0 .. UnchangedLimit
<1>1. /\ mem \in Metadata /\ disk \in Metadata /\ snap \in Metadata
      /\ starts \in Nat /\ same \in Nat
  BY DEF TypeInv, TypeOK
<1>. QED BY <1>1, FieldTypes

LEMMA MarkCappedFields ==
  ASSUME NEW m \in Metadata
  PROVE  /\ MarkCapped(m).st = "CAPPED" /\ MarkCapped(m).count = m.count
         /\ MarkCapped(m).started = m.started /\ MarkCapped(m).failed = m.failed
         /\ MarkCapped(m).rounds = m.rounds
BY DEF MarkCapped, Metadata

LEMMA WithdrawnFields ==
  ASSUME NEW m \in Metadata
  PROVE  /\ Withdrawn(m).st = m.st /\ ~Withdrawn(m).started
         /\ Withdrawn(m).failed = m.failed /\ Withdrawn(m).rounds = m.rounds
         /\ Withdrawn(m).count = IF replaying \/ m.count = 0 THEN m.count
                                 ELSE m.count - 1
BY DEF Withdrawn, Metadata

LEMMA ReconciledFields ==
  ASSUME NEW m \in Metadata
  PROVE  /\ Reconciled(m).st =
              IF m.count >= MaxDeployAttempts THEN "CAPPED" ELSE m.st
         /\ ~Reconciled(m).started /\ Reconciled(m).count = m.count
         /\ Reconciled(m).failed = m.failed /\ Reconciled(m).rounds = m.rounds
<1> DEFINE e == [m EXCEPT !.started = FALSE]
<1>1. e \in Metadata
  BY DEF Metadata
<1>2. e.st = m.st /\ e.count = m.count /\ ~e.started /\ e.failed = m.failed
      /\ e.rounds = m.rounds
  BY DEF Metadata
<1>3. Reconciled(m) = IF e.count >= MaxDeployAttempts THEN MarkCapped(e) ELSE e
  BY DEF Reconciled
<1> HIDE DEF e
<1>. QED BY <1>1, <1>2, <1>3, MarkCappedFields

LEMMA CountsFields ==
  ASSUME TypeInv, AttemptCounts
  PROVE  /\ mem'.st = mem.st /\ mem'.count = mem.count + 1 /\ mem'.started
         /\ mem'.failed = mem.failed /\ mem'.rounds = mem.rounds
BY MetadataFacts DEF AttemptCounts, Metadata

LEMMA NoTargetFields ==
  ASSUME TypeInv, NoTarget
  PROVE  /\ mem'.st = mem.st /\ ~mem'.started
         /\ mem'.failed = mem.failed /\ mem'.rounds = mem.rounds
         /\ mem'.count = IF replaying \/ mem.count = 0 THEN mem.count
                         ELSE mem.count - 1
BY MetadataFacts, WithdrawnFields DEF NoTarget

LEMMA FailureFields ==
  ASSUME TypeInv, InstallFails \/ AllFailed \/ AdoptionFails
  PROVE  /\ mem'.st = IF mem.count >= MaxDeployAttempts THEN "CAPPED" ELSE mem.st
         /\ ~mem'.started /\ mem'.count = mem.count
         /\ mem'.failed = mem.failed /\ mem'.rounds = mem.rounds
BY MetadataFacts, ReconciledFields DEF InstallFails, AllFailed, AdoptionFails,
    Outcome

LEMMA AdoptedFields ==
  ASSUME TypeInv
  PROVE  /\ Adopted \in Metadata /\ Adopted.st = "" /\ Adopted.count = 0
         /\ ~Adopted.started /\ Adopted.failed = {} /\ Adopted.rounds = mem.rounds
BY MetadataFacts, AdoptedType DEF Adopted, Metadata

LEMMA AllBoundFields ==
  ASSUME TypeInv, AllBound
  PROVE  /\ mem'.st = "" /\ mem'.count = 0 /\ ~mem'.started /\ mem'.failed = {}
         /\ mem'.rounds = IF SameSerial THEN NextRounds ELSE 0
<1>1. mem' = [Adopted EXCEPT !.rounds = IF SameSerial THEN NextRounds ELSE 0]
  BY DEF AllBound, Outcome
<1>. QED BY <1>1, AdoptedFields DEF Metadata

LEMMA UnchangedFields ==
  ASSUME TypeInv, AllBoundUnchanged
  PROVE  /\ mem'.st = IF snap.count >= MaxDeployAttempts THEN "CAPPED" ELSE ""
         /\ ~mem'.started /\ mem'.count = snap.count
         /\ mem'.failed = {} /\ mem'.rounds = NextRounds
<1> DEFINE m == [Adopted EXCEPT !.count = snap.count, !.cert = snap.cert,
                                !.rounds = NextRounds]
<1>1. m \in Metadata
  BY AdoptedType, NextRoundsType DEF TypeInv, TypeOK, Metadata
<1>2. m.st = "" /\ m.count = snap.count /\ m.failed = {} /\ m.rounds = NextRounds
  BY AdoptedFields DEF Metadata
<1>3. mem' = Reconciled(m)
  BY DEF AllBoundUnchanged, Outcome
<1> HIDE DEF m
<1>. QED BY <1>1, <1>2, <1>3, ReconciledFields

LEMMA SomeBoundFields ==
  ASSUME TypeInv, SomeBound
  PROVE  /\ mem'.st = "" /\ mem'.count = 0 /\ ~mem'.started /\ mem'.failed = bad
         /\ mem'.rounds = mem.rounds
<1>1. mem' = [Adopted EXCEPT !.failed = bad,
                             !.retries = IF Retry THEN snap.retries ELSE 0]
  BY DEF SomeBound, Outcome
<1>. QED BY <1>1, AdoptedFields DEF Metadata

LEMMA InitFields ==
  ASSUME Init
  PROVE  /\ mem = disk /\ snap = disk /\ disk.st = "" /\ disk.count = 0
         /\ ~disk.started /\ disk.rounds = 0
<1>1. \E c, F : disk = Metadata0(c, F)
  BY DEF Init
<1>2. ASSUME NEW c, NEW F, disk = Metadata0(c, F)
      PROVE  disk.st = "" /\ disk.count = 0 /\ ~disk.started /\ disk.rounds = 0
  BY <1>2 DEF Metadata0
<1>. QED BY <1>1, <1>2 DEF Init

(***************************************************************************)
(* Memory, disk and snapshot.                                              *)
(***************************************************************************)

LEMMA BeforeSnap ==
  ASSUME TypeInv, SnapInv, Before
  PROVE  SnapInv'
<1> USE DEF vars, toolVars, runVars, srvVars, histVars, Goto, SnapInv
<1>1. CASE StartRun \/ GateClosed \/ GateOpen \/ RetryExhausted
  BY <1>1, MetadataFacts
    DEF StartRun, GateClosed, GateOpen, RetryExhausted, Closed, Retry
<1>2. CASE GateExpires
  BY <1>2, MetadataFacts
    DEF GateExpires, Retry, Closed, Metadata
<1>3. CASE RetryCounts
  BY <1>3, MetadataFacts
    DEF RetryCounts, Closed, Retry, Metadata
<1>4. CASE RetrySaved
  BY <1>4, MetadataFacts
    DEF RetrySaved, Retry, Closed
<1>5. CASE SaveFails
  BY <1>5, MetadataFacts
    DEF SaveFails, Fault, Retry, Closed
<1>. QED BY <1>1, <1>2, <1>3, <1>4, <1>5 DEF Before

LEMMA QuerySnap ==
  ASSUME TypeInv, SnapInv, Query
  PROVE  SnapInv'
<1> USE DEF vars, toolVars, runVars, srvVars, histVars, Goto, SnapInv
<1>1. CASE QueryUseless \/ QueryStopped \/ QueryWaiting \/ HealthySkip
  BY <1>1, MetadataFacts
    DEF QueryUseless, QueryStopped, QueryWaiting, HealthySkip, Fault, Retry,
      Closed
<1>2. CASE RetryWaits
  BY <1>2, MetadataFacts
    DEF RetryWaits, Retry, Closed, Metadata
<1>3. CASE RollbackSaved
  BY <1>3, MetadataFacts
    DEF RollbackSaved, Retry, Closed
<1>4. CASE RollbackSaveFails
  BY <1>4, MetadataFacts
    DEF RollbackSaveFails, Fault, Retry, Closed, Metadata
<1>5. CASE QueryExpired
  BY <1>5, MetadataFacts
    DEF QueryExpired, Retry, Closed, Metadata
<1>6. CASE Fetch
  <2>1. pc = "query" /\ pc' = "attempt" /\ UNCHANGED <<mem, disk, snap, faults>>
    BY <1>6 DEF Fetch
  <2>. QED BY <2>1 DEF SnapInv, Retry, Closed
<1>. QED BY <1>1, <1>2, <1>3, <1>4, <1>5, <1>6 DEF Query

LEMMA AttemptSnap ==
  ASSUME TypeInv, SnapInv, Attempt
  PROVE  SnapInv'
<1> USE DEF vars, toolVars, runVars, srvVars, histVars, Goto, SnapInv
<1>1. CASE AttemptOfRetry
  BY <1>1, MetadataFacts
    DEF AttemptOfRetry, Retry, BeginRound, Closed
<1>2. CASE AttemptReplays
  BY <1>2, MetadataFacts
    DEF AttemptReplays, Retry, BeginRound, Closed
<1>3. CASE AttemptCapped
  BY <1>3, MetadataFacts
    DEF AttemptCapped, Retry, MarkCapped, Closed, Metadata
<1>4. CASE CapSaved
  BY <1>4, MetadataFacts
    DEF CapSaved, Retry, Closed
<1>5. CASE AttemptCounts
  BY <1>5, MetadataFacts, CountsFields
    DEF AttemptCounts, Retry, Closed
<1>6. CASE IntentSaved
  BY <1>6, MetadataFacts
    DEF IntentSaved, BeginRound, Retry, Closed
<1>. QED BY <1>1, <1>2, <1>3, <1>4, <1>5, <1>6 DEF Attempt

LEMMA RoundSnap ==
  ASSUME TypeInv, SnapInv, Round
  PROVE  SnapInv'
<1> USE DEF vars, toolVars, runVars, srvVars, histVars, Goto, SnapInv
<1>1. CASE NoTarget
  BY <1>1, MetadataFacts, NoTargetFields
    DEF NoTarget, Retry, Wanted, Closed
<1>2. CASE InstallFails
  BY <1>2, MetadataFacts, FailureFields
    DEF InstallFails, Retry, Counted, Closed
<1>3. CASE Install
  BY <1>3, MetadataFacts
    DEF Install, Retry, Counted, Wanted, Closed
<1>4. ASSUME NEW s \in Sites, BindOk(s) PROVE SnapInv'
  BY <1>4, MetadataFacts
    DEF BindOk, Retry, Closed
<1>5. ASSUME NEW s \in Sites, BindFails(s) PROVE SnapInv'
  BY <1>5, MetadataFacts
    DEF BindFails, Retry, Closed
<1>. QED BY <1>1, <1>2, <1>3, <1>4, <1>5 DEF Round

LEMMA ResultSnap ==
  ASSUME TypeInv, SnapInv, Result
  PROVE  SnapInv'
<1> USE DEF vars, toolVars, runVars, srvVars, histVars, Goto, SnapInv
<1>1. CASE AllFailed
  BY <1>1, MetadataFacts, FailureFields
    DEF AllFailed, Bound, Outcome, Retry, Closed
<1>2. CASE AllBound
  BY <1>2, MetadataFacts, AllBoundFields
    DEF AllBound, Bound, SameSerial, UnchangedTooLong, Outcome, Retry, Closed
<1>3. CASE AllBoundUnchanged
  BY <1>3, MetadataFacts, UnchangedFields
    DEF AllBoundUnchanged, Bound, SameSerial, UnchangedTooLong, Outcome, Retry,
      Closed
<1>4. CASE SomeBound
  BY <1>4, MetadataFacts, SomeBoundFields
    DEF SomeBound, Retry, Bound, Outcome, Closed
<1>5. CASE AdoptionFails
  BY <1>5, MetadataFacts, FailureFields
    DEF AdoptionFails, Fault, Bound, Outcome, Retry, Closed
<1>6. CASE ResultSaved
  BY <1>6, MetadataFacts
    DEF ResultSaved, Retry, SameSerial, Closed
<1>7. CASE ResultSaveFails
  BY <1>7, MetadataFacts
    DEF ResultSaveFails, Fault, Retry, Closed
<1>8. CASE Callback
  BY <1>8, MetadataFacts
    DEF Callback, Retry, Closed
<1>9. CASE FinishSaved \/ FinishSaveFails
  BY <1>9, MetadataFacts
    DEF FinishSaved, FinishSaveFails, EndRun, Fault, Retry, Closed
<1>. QED BY <1>1, <1>2, <1>3, <1>4, <1>5, <1>6, <1>7, <1>8, <1>9 DEF Result

LEMMA CrashSnap ==
  ASSUME TypeInv, SnapInv, Crash
  PROVE  SnapInv'
<1> USE DEF vars, toolVars, runVars, srvVars, histVars, Goto, SnapInv
<1>1. SnapInv'
  BY MetadataFacts
    DEF Crash, EndRun, Fault, Retry, Closed
<1>. QED BY <1>1

LEMMA EnvironmentSnap ==
  ASSUME TypeInv, SnapInv, Environment
  PROVE  SnapInv'
<1> USE DEF vars, toolVars, runVars, srvVars, histVars, Goto, SnapInv
<1>1. CASE ServerReissues \/ ServerIssues \/ ServerStops \/ ServerRecovers \/
  Age
  BY <1>1, MetadataFacts
    DEF ServerReissues, ServerIssues, ServerStops, ServerRecovers, Age, Fault,
      Retry, Closed
<1>. QED BY <1>1 DEF Environment

LEMMA SnapStep ==
  ASSUME TypeInv, SnapInv, [Next]_vars
  PROVE  SnapInv'
<1>1. CASE UNCHANGED vars
  BY <1>1 DEF vars, toolVars, runVars, srvVars, histVars, SnapInv, Retry,
      Closed
<1>. QED BY <1>1, BeforeSnap, QuerySnap, AttemptSnap, RoundSnap, ResultSnap,
  CrashSnap, EnvironmentSnap DEF Next, Run

LEMMA SnapInit == ASSUME Init PROVE SnapInv
BY DEF Init, SnapInv, Retry

LEMMA SnapAlways == Spec => []SnapInv
BY SnapInit, SnapStep, TypeInvariance, PTL DEF Spec

(***************************************************************************)
(* The quota of the failed bindings and that of the certificate.           *)
(***************************************************************************)

LEMMA BeforeQuota ==
  ASSUME TypeInv, SnapInv, QuotaInv, Before
  PROVE  QuotaInv'
<1> USE DEF vars, toolVars, runVars, srvVars, histVars, Goto, QuotaInv
<1>1. CASE StartRun \/ GateClosed \/ GateOpen \/ RetryExhausted
  BY <1>1, MetadataFacts, DeployAssumption
    DEF StartRun, GateClosed, GateOpen, RetryExhausted, Closed, Retry, SnapInv,
      Quota
<1>2. CASE GateExpires
  BY <1>2, MetadataFacts, DeployAssumption
    DEF GateExpires, SnapInv, Quota, Retry, Metadata
<1>3. CASE RetryCounts
  BY <1>3, MetadataFacts, DeployAssumption
    DEF RetryCounts, Closed, Retry, SnapInv, Quota, Metadata
<1>4. CASE RetrySaved
  BY <1>4, MetadataFacts, DeployAssumption
    DEF RetrySaved, SnapInv, Quota, Retry
<1>5. CASE SaveFails
  BY <1>5, MetadataFacts, DeployAssumption
    DEF SaveFails, Fault, SnapInv, Quota, Retry
<1>. QED BY <1>1, <1>2, <1>3, <1>4, <1>5 DEF Before

LEMMA QueryQuota ==
  ASSUME TypeInv, SnapInv, QuotaInv, Query
  PROVE  QuotaInv'
<1> USE DEF vars, toolVars, runVars, srvVars, histVars, Goto, QuotaInv
<1>1. CASE QueryUseless \/ QueryStopped \/ QueryWaiting \/ HealthySkip
  BY <1>1, MetadataFacts, DeployAssumption
    DEF QueryUseless, QueryStopped, QueryWaiting, HealthySkip, Fault, Retry,
      SnapInv, Quota
<1>2. CASE RetryWaits
  BY <1>2, MetadataFacts, DeployAssumption
    DEF RetryWaits, Retry, SnapInv, Quota, Metadata
<1>3. CASE RollbackSaved
  BY <1>3, MetadataFacts, DeployAssumption
    DEF RollbackSaved, SnapInv, Quota, Retry
<1>4. CASE RollbackSaveFails
  BY <1>4, MetadataFacts, DeployAssumption
    DEF RollbackSaveFails, Fault, SnapInv, Quota, Retry, Metadata
<1>5. CASE QueryExpired
  BY <1>5, MetadataFacts, DeployAssumption
    DEF QueryExpired, SnapInv, Quota, Retry, Metadata
<1>6. CASE Fetch
  BY <1>6, MetadataFacts, DeployAssumption
    DEF Fetch, Retry, SnapInv, Quota
<1>. QED BY <1>1, <1>2, <1>3, <1>4, <1>5, <1>6 DEF Query

LEMMA AttemptQuota ==
  ASSUME TypeInv, SnapInv, QuotaInv, Attempt
  PROVE  QuotaInv'
<1> USE DEF vars, toolVars, runVars, srvVars, histVars, Goto, QuotaInv
<1>1. CASE AttemptOfRetry
  BY <1>1, MetadataFacts, DeployAssumption
    DEF AttemptOfRetry, Retry, BeginRound, SnapInv, Quota
<1>2. CASE AttemptReplays
  BY <1>2, MetadataFacts, DeployAssumption
    DEF AttemptReplays, Retry, BeginRound, SnapInv, Quota
<1>3. CASE AttemptCapped
  BY <1>3, MetadataFacts, DeployAssumption
    DEF AttemptCapped, Retry, MarkCapped, SnapInv, Quota, Metadata
<1>4. CASE CapSaved
  BY <1>4, MetadataFacts, DeployAssumption
    DEF CapSaved, SnapInv, Quota, Retry
<1>5. CASE AttemptCounts
  BY <1>5, MetadataFacts, CountsFields, DeployAssumption
    DEF AttemptCounts, Retry, SnapInv, Quota
<1>6. CASE IntentSaved
  BY <1>6, MetadataFacts, DeployAssumption
    DEF IntentSaved, BeginRound, SnapInv, Quota, Retry
<1>. QED BY <1>1, <1>2, <1>3, <1>4, <1>5, <1>6 DEF Attempt

LEMMA RoundQuota ==
  ASSUME TypeInv, SnapInv, QuotaInv, Round
  PROVE  QuotaInv'
<1> USE DEF vars, toolVars, runVars, srvVars, histVars, Goto, QuotaInv
<1>1. CASE NoTarget
  BY <1>1, MetadataFacts, NoTargetFields, DeployAssumption
    DEF NoTarget, Retry, Wanted, SnapInv, Quota
<1>2. CASE InstallFails
  BY <1>2, MetadataFacts, FailureFields, DeployAssumption
    DEF InstallFails, Retry, Counted, SnapInv, Quota
<1>3. CASE Install
  BY <1>3, MetadataFacts, DeployAssumption
    DEF Install, Retry, Counted, Wanted, SnapInv, Quota
<1>4. ASSUME NEW s \in Sites, BindOk(s) PROVE QuotaInv'
  BY <1>4, MetadataFacts, DeployAssumption
    DEF BindOk, SnapInv, Quota, Retry
<1>5. ASSUME NEW s \in Sites, BindFails(s) PROVE QuotaInv'
  BY <1>5, MetadataFacts, DeployAssumption
    DEF BindFails, SnapInv, Quota, Retry
<1>. QED BY <1>1, <1>2, <1>3, <1>4, <1>5 DEF Round

LEMMA ResultQuota ==
  ASSUME TypeInv, SnapInv, QuotaInv, Result
  PROVE  QuotaInv'
<1> USE DEF vars, toolVars, runVars, srvVars, histVars, Goto, QuotaInv
<1>1. CASE AllFailed
  BY <1>1, MetadataFacts, FailureFields, DeployAssumption
    DEF AllFailed, Bound, Outcome, SnapInv, Quota, Retry
<1>2. CASE AllBound
  <2>a. mem'.st = "" /\ mem'.count = 0 /\ ~mem'.started
    BY <1>2, AllBoundFields
  <2>b. 0 <= MaxDeployAttempts
    BY DeployAssumption
  <2>1. Quota(mem)'
    BY <2>a, <2>b DEF Quota
  <2>2. UNCHANGED <<disk, snap>>
    BY <1>2 DEF AllBound, Outcome
  <2>. QED BY <2>1, <2>2 DEF Quota
<1>3. CASE AllBoundUnchanged
  BY <1>3, MetadataFacts, UnchangedFields, DeployAssumption
    DEF AllBoundUnchanged, Bound, SameSerial, UnchangedTooLong, Outcome,
        SnapInv,
      Quota, Retry
<1>4. CASE SomeBound
  <2>a. mem'.st = "" /\ mem'.count = 0 /\ ~mem'.started
    BY <1>4, SomeBoundFields
  <2>b. 0 <= MaxDeployAttempts
    BY DeployAssumption
  <2>1. Quota(mem)'
    BY <2>a, <2>b DEF Quota
  <2>2. UNCHANGED <<disk, snap>>
    BY <1>4 DEF SomeBound, Outcome
  <2>. QED BY <2>1, <2>2 DEF Quota
<1>5. CASE AdoptionFails
  BY <1>5, MetadataFacts, FailureFields, DeployAssumption
    DEF AdoptionFails, Fault, Bound, Outcome, SnapInv, Quota, Retry
<1>6. CASE ResultSaved
  BY <1>6, MetadataFacts, DeployAssumption
    DEF ResultSaved, Retry, SameSerial, SnapInv, Quota
<1>7. CASE ResultSaveFails
  BY <1>7, MetadataFacts, DeployAssumption
    DEF ResultSaveFails, Fault, SnapInv, Quota, Retry
<1>8. CASE Callback
  BY <1>8, MetadataFacts, DeployAssumption
    DEF Callback, SnapInv, Quota, Retry
<1>9. CASE FinishSaved \/ FinishSaveFails
  BY <1>9, MetadataFacts, DeployAssumption
    DEF FinishSaved, FinishSaveFails, EndRun, Fault, SnapInv, Quota, Retry
<1>. QED BY <1>1, <1>2, <1>3, <1>4, <1>5, <1>6, <1>7, <1>8, <1>9 DEF Result

LEMMA CrashQuota ==
  ASSUME TypeInv, SnapInv, QuotaInv, Crash
  PROVE  QuotaInv'
<1> USE DEF vars, toolVars, runVars, srvVars, histVars, Goto, QuotaInv
<1>1. QuotaInv'
  BY MetadataFacts, DeployAssumption
    DEF Crash, EndRun, Fault, SnapInv, Quota, Retry
<1>. QED BY <1>1

LEMMA EnvironmentQuota ==
  ASSUME TypeInv, SnapInv, QuotaInv, Environment
  PROVE  QuotaInv'
<1> USE DEF vars, toolVars, runVars, srvVars, histVars, Goto, QuotaInv
<1>1. CASE ServerReissues \/ ServerIssues \/ ServerStops \/ ServerRecovers \/
  Age
  BY <1>1, MetadataFacts, DeployAssumption
    DEF ServerReissues, ServerIssues, ServerStops, ServerRecovers, Age, Fault,
      SnapInv, Quota, Retry
<1>. QED BY <1>1 DEF Environment

LEMMA QuotaStep ==
  ASSUME TypeInv, SnapInv, QuotaInv, [Next]_vars
  PROVE  QuotaInv'
<1>1. CASE UNCHANGED vars
  BY <1>1 DEF vars, toolVars, runVars, srvVars, histVars, QuotaInv, SnapInv,
     Quota, Retry
<1>. QED BY <1>1, BeforeQuota, QueryQuota, AttemptQuota, RoundQuota,
  ResultQuota, CrashQuota, EnvironmentQuota DEF Next, Run

LEMMA QuotaInit == ASSUME Init PROVE QuotaInv
<1>1. mem = disk /\ snap = disk
  BY DEF Init
<1>2. disk.count = 0 /\ ~disk.started /\ disk.st = ""
  BY InitFields
<1>3. 0 <= MaxDeployAttempts
  BY DeployAssumption
<1>. QED BY <1>1, <1>2, <1>3 DEF QuotaInv, Quota

LEMMA QuotaAlways == Spec => []QuotaInv
BY QuotaInit, QuotaStep, TypeInvariance, SnapAlways, PTL DEF Spec

\* Bindings that failed after an adoption never use up the certificate's own
\* quota (updateCertMetadata, persistDeployAttempt, reconcileFailedDeploy).
THEOREM RetryKeepsQuotaAlways == Spec => []RetryKeepsQuota
<1>1. QuotaInv => RetryKeepsQuota
  BY DEF QuotaInv, Quota, RetryKeepsQuota
<1>. QED BY <1>1, QuotaAlways, PTL

(***************************************************************************)
(* Rounds over all bindings are bounded.                                   *)
(***************************************************************************)

LEMMA BeforeCount ==
  ASSUME TypeInv, SnapInv, QuotaInv, CountInv, Before
  PROVE  CountInv'
<1> USE DEF vars, toolVars, runVars, srvVars, histVars, Goto, CountInv
<1>1. CASE StartRun \/ GateClosed \/ GateOpen \/ RetryExhausted
  BY <1>1, MetadataFacts, DeployAssumption
    DEF StartRun, GateClosed, GateOpen, RetryExhausted, Closed, Retry, SnapInv,
      QuotaInv, Quota
<1>2. CASE GateExpires
  BY <1>2, MetadataFacts, DeployAssumption
    DEF GateExpires, SnapInv, QuotaInv, Quota, Retry, Metadata
<1>3. CASE RetryCounts
  BY <1>3, MetadataFacts, DeployAssumption
    DEF RetryCounts, Closed, Retry, SnapInv, QuotaInv, Quota, Metadata
<1>4. CASE RetrySaved
  BY <1>4, MetadataFacts, DeployAssumption
    DEF RetrySaved, SnapInv, QuotaInv, Quota, Retry
<1>5. CASE SaveFails
  BY <1>5, MetadataFacts, DeployAssumption
    DEF SaveFails, Fault, SnapInv, QuotaInv, Quota, Retry
<1>. QED BY <1>1, <1>2, <1>3, <1>4, <1>5 DEF Before

LEMMA QueryCount ==
  ASSUME TypeInv, SnapInv, QuotaInv, CountInv, Query
  PROVE  CountInv'
<1> USE DEF vars, toolVars, runVars, srvVars, histVars, Goto, CountInv
<1>1. CASE QueryUseless \/ QueryStopped \/ QueryWaiting \/ HealthySkip
  BY <1>1, MetadataFacts, DeployAssumption
    DEF QueryUseless, QueryStopped, QueryWaiting, HealthySkip, Fault, Retry,
      SnapInv, QuotaInv, Quota
<1>2. CASE RetryWaits
  BY <1>2, MetadataFacts, DeployAssumption
    DEF RetryWaits, Retry, SnapInv, QuotaInv, Quota, Metadata
<1>3. CASE RollbackSaved
  BY <1>3, MetadataFacts, DeployAssumption
    DEF RollbackSaved, SnapInv, QuotaInv, Quota, Retry
<1>4. CASE RollbackSaveFails
  BY <1>4, MetadataFacts, DeployAssumption
    DEF RollbackSaveFails, Fault, SnapInv, QuotaInv, Quota, Retry, Metadata
<1>5. CASE QueryExpired
  BY <1>5, MetadataFacts, DeployAssumption
    DEF QueryExpired, SnapInv, QuotaInv, Quota, Retry, Metadata
<1>6. CASE Fetch
  BY <1>6, MetadataFacts, DeployAssumption
    DEF Fetch, Retry, SnapInv, QuotaInv, Quota
<1>. QED BY <1>1, <1>2, <1>3, <1>4, <1>5, <1>6 DEF Query

LEMMA AttemptCount ==
  ASSUME TypeInv, SnapInv, QuotaInv, CountInv, Attempt
  PROVE  CountInv'
<1> USE DEF vars, toolVars, runVars, srvVars, histVars, Goto, CountInv
<1>1. CASE AttemptOfRetry
  BY <1>1, MetadataFacts, DeployAssumption
    DEF AttemptOfRetry, Retry, BeginRound, SnapInv, QuotaInv, Quota
<1>2. CASE AttemptReplays
  BY <1>2, MetadataFacts, DeployAssumption
    DEF AttemptReplays, Retry, BeginRound, SnapInv, QuotaInv, Quota
<1>3. CASE AttemptCapped
  BY <1>3, MetadataFacts, DeployAssumption
    DEF AttemptCapped, Retry, MarkCapped, SnapInv, QuotaInv, Quota, Metadata
<1>4. CASE CapSaved
  BY <1>4, MetadataFacts, DeployAssumption
    DEF CapSaved, SnapInv, QuotaInv, Quota, Retry
<1>5. CASE AttemptCounts
  BY <1>5, MetadataFacts, CountsFields, DeployAssumption
    DEF AttemptCounts, Retry, SnapInv, QuotaInv, Quota
<1>6. CASE IntentSaved
  BY <1>6, MetadataFacts, DeployAssumption
    DEF IntentSaved, BeginRound, SnapInv, QuotaInv, Quota, Retry
<1>. QED BY <1>1, <1>2, <1>3, <1>4, <1>5, <1>6 DEF Attempt

LEMMA RoundCount ==
  ASSUME TypeInv, SnapInv, QuotaInv, CountInv, Round
  PROVE  CountInv'
<1> USE DEF vars, toolVars, runVars, srvVars, histVars, Goto, CountInv
<1>1. CASE NoTarget
  BY <1>1, MetadataFacts, NoTargetFields, DeployAssumption
    DEF NoTarget, Retry, Wanted, SnapInv, QuotaInv, Quota
<1>2. CASE InstallFails
  BY <1>2, MetadataFacts, FailureFields, DeployAssumption
    DEF InstallFails, Retry, Counted, SnapInv, QuotaInv, Quota
<1>3. CASE Install
  BY <1>3, MetadataFacts, DeployAssumption
    DEF Install, Retry, Counted, Wanted, SnapInv, QuotaInv, Quota
<1>4. ASSUME NEW s \in Sites, BindOk(s) PROVE CountInv'
  BY <1>4, MetadataFacts, DeployAssumption
    DEF BindOk, SnapInv, QuotaInv, Quota, Retry
<1>5. ASSUME NEW s \in Sites, BindFails(s) PROVE CountInv'
  BY <1>5, MetadataFacts, DeployAssumption
    DEF BindFails, SnapInv, QuotaInv, Quota, Retry
<1>. QED BY <1>1, <1>2, <1>3, <1>4, <1>5 DEF Round

LEMMA ResultCount ==
  ASSUME TypeInv, SnapInv, QuotaInv, CountInv, Result
  PROVE  CountInv'
<1> USE DEF vars, toolVars, runVars, srvVars, histVars, Goto, CountInv
<1>1. CASE AllFailed
  BY <1>1, MetadataFacts, FailureFields, DeployAssumption
    DEF AllFailed, Bound, Outcome, SnapInv, QuotaInv, Quota, Retry
<1>2. CASE AllBound
  BY <1>2, MetadataFacts, AllBoundFields, DeployAssumption
    DEF AllBound, Bound, SameSerial, UnchangedTooLong, Outcome, SnapInv,
      QuotaInv, Quota, Retry
<1>3. CASE AllBoundUnchanged
  BY <1>3, MetadataFacts, UnchangedFields, DeployAssumption
    DEF AllBoundUnchanged, Bound, SameSerial, UnchangedTooLong, Outcome,
        SnapInv,
      QuotaInv, Quota, Retry
<1>4. CASE SomeBound
  BY <1>4, MetadataFacts, SomeBoundFields, DeployAssumption
    DEF SomeBound, Retry, Bound, Outcome, SnapInv, QuotaInv, Quota
<1>5. CASE AdoptionFails
  BY <1>5, MetadataFacts, FailureFields, DeployAssumption
    DEF AdoptionFails, Fault, Bound, Outcome, SnapInv, QuotaInv, Quota, Retry
<1>6. CASE ResultSaved
  BY <1>6, MetadataFacts, DeployAssumption
    DEF ResultSaved, Retry, SameSerial, SnapInv, QuotaInv, Quota
<1>7. CASE ResultSaveFails
  BY <1>7, MetadataFacts, DeployAssumption
    DEF ResultSaveFails, Fault, SnapInv, QuotaInv, Quota, Retry
<1>8. CASE Callback
  BY <1>8, MetadataFacts, DeployAssumption
    DEF Callback, SnapInv, QuotaInv, Quota, Retry
<1>9. CASE FinishSaved \/ FinishSaveFails
  BY <1>9, MetadataFacts, DeployAssumption
    DEF FinishSaved, FinishSaveFails, EndRun, Fault, SnapInv, QuotaInv, Quota,
      Retry
<1>. QED BY <1>1, <1>2, <1>3, <1>4, <1>5, <1>6, <1>7, <1>8, <1>9 DEF Result

LEMMA CrashCount ==
  ASSUME TypeInv, SnapInv, QuotaInv, CountInv, Crash
  PROVE  CountInv'
<1> USE DEF vars, toolVars, runVars, srvVars, histVars, Goto, CountInv
<1>1. CountInv'
  BY MetadataFacts, DeployAssumption
    DEF Crash, EndRun, Fault, SnapInv, QuotaInv, Quota, Retry
<1>. QED BY <1>1

LEMMA EnvironmentCount ==
  ASSUME TypeInv, SnapInv, QuotaInv, CountInv, Environment
  PROVE  CountInv'
<1> USE DEF vars, toolVars, runVars, srvVars, histVars, Goto, CountInv
<1>1. CASE ServerReissues \/ ServerIssues \/ ServerStops \/ ServerRecovers \/
  Age
  BY <1>1, MetadataFacts, DeployAssumption
    DEF ServerReissues, ServerIssues, ServerStops, ServerRecovers, Age, Fault,
      SnapInv, QuotaInv, Quota, Retry
<1>. QED BY <1>1 DEF Environment

LEMMA CountStep ==
  ASSUME TypeInv, SnapInv, QuotaInv, CountInv, [Next]_vars
  PROVE  CountInv'
<1>1. CASE UNCHANGED vars
  BY <1>1 DEF vars, toolVars, runVars, srvVars, histVars, CountInv, SnapInv,
     QuotaInv, Quota, Retry
<1>. QED BY <1>1, BeforeCount, QueryCount, AttemptCount, RoundCount,
  ResultCount, CrashCount, EnvironmentCount DEF Next, Run

LEMMA CountInit == ASSUME Init PROVE CountInv
<1>1. pc = "idle" /\ starts = 0 /\ same = 0 /\ ~reported
  BY DEF Init
<1>2. disk.count = 0 /\ mem.count = 0 /\ ~disk.started /\ ~mem.started
  BY InitFields
<1>. QED BY <1>1, <1>2 DEF CountInv

LEMMA CountAlways == Spec => []CountInv
BY CountInit, CountStep, TypeInvariance, SnapAlways, QuotaAlways, PTL DEF Spec

\* At most MaxDeployAttempts new rounds begin between two saved adoptions: each
\* was counted on disk before it began, and what is given back was not used
\* (persistDeployAttempt, reconcileFailedDeploy).
THEOREM AttemptsBoundedAlways == Spec => []AttemptsBounded
<1>1. TypeInv /\ QuotaInv /\ CountInv => AttemptsBounded
  <2>1. ASSUME TypeInv, QuotaInv, CountInv PROVE starts <= MaxDeployAttempts
    <3>1. starts <= disk.count /\ disk.count <= MaxDeployAttempts
      BY <2>1 DEF QuotaInv, Quota, CountInv
    <3>. QED BY <2>1, <3>1, MetadataFacts, DeployAssumption
  <2>. QED BY <2>1 DEF AttemptsBounded
<1>. QED BY <1>1, TypeInvariance, QuotaAlways, CountAlways, PTL

(***************************************************************************)
(* Each outcome is called back once.                                       *)
(***************************************************************************)

LEMMA BeforeReport ==
  ASSUME TypeInv, SnapInv, ReportInv, Before
  PROVE  ReportInv'
<1> USE DEF vars, toolVars, runVars, srvVars, histVars, Goto, ReportInv
<1>1. CASE StartRun \/ GateClosed \/ GateOpen \/ RetryExhausted
  <2>1. UNCHANGED <<mem, disk, snap, reported>>
    BY <1>1 DEF StartRun, GateClosed, GateOpen, RetryExhausted
  <2>2. pc \in {"idle", "gate"} /\ pc' \in {"gate", "query", "finish"}
        /\ (pc' = "query" => ~Retry)
    BY <1>1 DEF StartRun, GateClosed, GateOpen, RetryExhausted
  <2>. QED BY <2>1, <2>2 DEF Retry
<1>2. CASE GateExpires
  BY <1>2, MetadataFacts
    DEF GateExpires, SnapInv, Retry, Metadata
<1>3. CASE RetryCounts
  BY <1>3, MetadataFacts
    DEF RetryCounts, Closed, Retry, SnapInv, Metadata
<1>4. CASE RetrySaved
  BY <1>4, MetadataFacts
    DEF RetrySaved, SnapInv, Retry
<1>5. CASE SaveFails
  BY <1>5, MetadataFacts
    DEF SaveFails, Fault, SnapInv, Retry
<1>. QED BY <1>1, <1>2, <1>3, <1>4, <1>5 DEF Before

LEMMA QueryReport ==
  ASSUME TypeInv, SnapInv, ReportInv, Query
  PROVE  ReportInv'
<1> USE DEF vars, toolVars, runVars, srvVars, histVars, Goto, ReportInv
<1>1. CASE QueryUseless \/ QueryStopped \/ QueryWaiting \/ HealthySkip
  BY <1>1, MetadataFacts
    DEF QueryUseless, QueryStopped, QueryWaiting, HealthySkip, Fault, Retry,
      SnapInv
<1>2. CASE RetryWaits
  BY <1>2, MetadataFacts
    DEF RetryWaits, Retry, SnapInv, Metadata
<1>3. CASE RollbackSaved
  BY <1>3, MetadataFacts
    DEF RollbackSaved, SnapInv, Retry
<1>4. CASE RollbackSaveFails
  BY <1>4, MetadataFacts
    DEF RollbackSaveFails, Fault, SnapInv, Retry, Metadata
<1>5. CASE QueryExpired
  BY <1>5, MetadataFacts
    DEF QueryExpired, SnapInv, Retry, Metadata
<1>6. CASE Fetch
  BY <1>6, MetadataFacts
    DEF Fetch, Retry, SnapInv
<1>. QED BY <1>1, <1>2, <1>3, <1>4, <1>5, <1>6 DEF Query

LEMMA AttemptReport ==
  ASSUME TypeInv, SnapInv, ReportInv, Attempt
  PROVE  ReportInv'
<1> USE DEF vars, toolVars, runVars, srvVars, histVars, Goto, ReportInv
<1>1. CASE AttemptOfRetry
  BY <1>1, MetadataFacts
    DEF AttemptOfRetry, Retry, BeginRound, SnapInv
<1>2. CASE AttemptReplays
  BY <1>2, MetadataFacts
    DEF AttemptReplays, Retry, BeginRound, SnapInv
<1>3. CASE AttemptCapped
  BY <1>3, MetadataFacts
    DEF AttemptCapped, Retry, MarkCapped, SnapInv, Metadata
<1>4. CASE CapSaved
  BY <1>4, MetadataFacts
    DEF CapSaved, SnapInv, Retry
<1>5. CASE AttemptCounts
  BY <1>5, MetadataFacts, CountsFields
    DEF AttemptCounts, Retry, SnapInv
<1>6. CASE IntentSaved
  BY <1>6, MetadataFacts
    DEF IntentSaved, BeginRound, SnapInv, Retry
<1>. QED BY <1>1, <1>2, <1>3, <1>4, <1>5, <1>6 DEF Attempt

LEMMA RoundReport ==
  ASSUME TypeInv, SnapInv, ReportInv, Round
  PROVE  ReportInv'
<1> USE DEF vars, toolVars, runVars, srvVars, histVars, Goto, ReportInv
<1>1. CASE NoTarget
  BY <1>1, MetadataFacts, NoTargetFields
    DEF NoTarget, Retry, Wanted, SnapInv
<1>2. CASE InstallFails
  BY <1>2, MetadataFacts, FailureFields
    DEF InstallFails, Retry, Counted, SnapInv
<1>3. CASE Install
  BY <1>3, MetadataFacts
    DEF Install, Retry, Counted, Wanted, SnapInv
<1>4. ASSUME NEW s \in Sites, BindOk(s) PROVE ReportInv'
  BY <1>4, MetadataFacts
    DEF BindOk, SnapInv, Retry
<1>5. ASSUME NEW s \in Sites, BindFails(s) PROVE ReportInv'
  BY <1>5, MetadataFacts
    DEF BindFails, SnapInv, Retry
<1>. QED BY <1>1, <1>2, <1>3, <1>4, <1>5 DEF Round

LEMMA ResultReport ==
  ASSUME TypeInv, SnapInv, ReportInv, Result
  PROVE  ReportInv'
<1> USE DEF vars, toolVars, runVars, srvVars, histVars, Goto, ReportInv
<1>1. CASE AllFailed
  BY <1>1, MetadataFacts, FailureFields
    DEF AllFailed, Bound, Outcome, SnapInv, Retry
<1>2. CASE AllBound
  BY <1>2, MetadataFacts, AllBoundFields
    DEF AllBound, Bound, SameSerial, UnchangedTooLong, Outcome, SnapInv, Retry
<1>3. CASE AllBoundUnchanged
  BY <1>3, MetadataFacts, UnchangedFields
    DEF AllBoundUnchanged, Bound, SameSerial, UnchangedTooLong, Outcome,
        SnapInv,
      Retry
<1>4. CASE SomeBound
  BY <1>4, MetadataFacts, SomeBoundFields
    DEF SomeBound, Retry, Bound, Outcome, SnapInv
<1>5. CASE AdoptionFails
  BY <1>5, MetadataFacts, FailureFields
    DEF AdoptionFails, Fault, Bound, Outcome, SnapInv, Retry
<1>6. CASE ResultSaved
  BY <1>6, MetadataFacts
    DEF ResultSaved, Retry, SameSerial, SnapInv
<1>7. CASE ResultSaveFails
  BY <1>7, MetadataFacts
    DEF ResultSaveFails, Fault, SnapInv, Retry
<1>8. CASE Callback
  BY <1>8, MetadataFacts
    DEF Callback, SnapInv, Retry
<1>9. CASE FinishSaved \/ FinishSaveFails
  BY <1>9, MetadataFacts
    DEF FinishSaved, FinishSaveFails, EndRun, Fault, SnapInv, Retry
<1>. QED BY <1>1, <1>2, <1>3, <1>4, <1>5, <1>6, <1>7, <1>8, <1>9 DEF Result

LEMMA CrashReport ==
  ASSUME TypeInv, SnapInv, ReportInv, Crash
  PROVE  ReportInv'
<1> USE DEF vars, toolVars, runVars, srvVars, histVars, Goto, ReportInv
<1>1. ReportInv'
  BY MetadataFacts
    DEF Crash, EndRun, Fault, SnapInv, Retry
<1>. QED BY <1>1

LEMMA EnvironmentReport ==
  ASSUME TypeInv, SnapInv, ReportInv, Environment
  PROVE  ReportInv'
<1> USE DEF vars, toolVars, runVars, srvVars, histVars, Goto, ReportInv
<1>1. CASE ServerReissues \/ ServerIssues \/ ServerStops \/ ServerRecovers \/
  Age
  BY <1>1, MetadataFacts
    DEF ServerReissues, ServerIssues, ServerStops, ServerRecovers, Age, Fault,
      SnapInv, Retry
<1>. QED BY <1>1 DEF Environment

LEMMA ReportStep ==
  ASSUME TypeInv, SnapInv, ReportInv, [Next]_vars
  PROVE  ReportInv'
<1>1. CASE UNCHANGED vars
  BY <1>1 DEF vars, toolVars, runVars, srvVars, histVars, ReportInv, SnapInv,
     Retry
<1>. QED BY <1>1, BeforeReport, QueryReport, AttemptReport, RoundReport,
  ResultReport, CrashReport, EnvironmentReport DEF Next, Run

LEMMA ReportInit == ASSUME Init PROVE ReportInv
<1>1. pc = "idle" /\ starts = 0 /\ same = 0 /\ ~reported
  BY DEF Init
<1>2. disk.count = 0 /\ mem.count = 0 /\ ~disk.started /\ ~mem.started
  BY InitFields
<1>. QED BY <1>1, <1>2 DEF ReportInv

LEMMA ReportAlways == Spec => []ReportInv
BY ReportInit, ReportStep, TypeInvariance, SnapAlways, PTL DEF Spec

\* The outcome of one persisted attempt is called back at most once, across
\* failed saves, crashes and replays (emitDeployCallback after the save).
THEOREM ReportedOnceAlways == Spec => []ReportedOnce
<1>1. ReportInv => ReportedOnce
  BY DEF ReportInv, ReportedOnce
<1>. QED BY <1>1, ReportAlways, PTL

(***************************************************************************)
(* A server that never changes the certificate is cut off.                 *)
(***************************************************************************)

LEMMA BeforeSame ==
  ASSUME TypeInv, SnapInv, QuotaInv, SameInv, Before
  PROVE  SameInv'
<1> USE DEF vars, toolVars, runVars, srvVars, histVars, Goto, SameInv
<1>1. CASE StartRun \/ GateClosed \/ GateOpen \/ RetryExhausted
  BY <1>1, MetadataFacts, DeployAssumption
    DEF StartRun, GateClosed, GateOpen, RetryExhausted, Closed, Retry, SnapInv,
      QuotaInv, Quota, SameOK, NextSame, SameSerial
<1>2. CASE GateExpires
  BY <1>2, MetadataFacts, DeployAssumption
    DEF GateExpires, SnapInv, QuotaInv, Quota, Retry, SameOK, NextSame,
      SameSerial, Metadata
<1>3. CASE RetryCounts
  BY <1>3, MetadataFacts, DeployAssumption
    DEF RetryCounts, Closed, Retry, SnapInv, QuotaInv, Quota, SameOK, NextSame,
      SameSerial, Metadata
<1>4. CASE RetrySaved
  BY <1>4, MetadataFacts, DeployAssumption
    DEF RetrySaved, SnapInv, QuotaInv, Quota, Retry, SameOK, NextSame,
        SameSerial
<1>5. CASE SaveFails
  BY <1>5, MetadataFacts, DeployAssumption
    DEF SaveFails, Fault, SnapInv, QuotaInv, Quota, Retry, SameOK, NextSame,
      SameSerial
<1>. QED BY <1>1, <1>2, <1>3, <1>4, <1>5 DEF Before

LEMMA QuerySame ==
  ASSUME TypeInv, SnapInv, QuotaInv, SameInv, Query
  PROVE  SameInv'
<1> USE DEF vars, toolVars, runVars, srvVars, histVars, Goto, SameInv
<1>1. CASE QueryUseless \/ QueryStopped \/ QueryWaiting \/ HealthySkip
  BY <1>1, MetadataFacts, DeployAssumption
    DEF QueryUseless, QueryStopped, QueryWaiting, HealthySkip, Fault, Retry,
      SnapInv, QuotaInv, Quota, SameOK, NextSame, SameSerial
<1>2. CASE RetryWaits
  BY <1>2, MetadataFacts, DeployAssumption
    DEF RetryWaits, Retry, SnapInv, QuotaInv, Quota, SameOK, NextSame,
      SameSerial, Metadata
<1>3. CASE RollbackSaved
  BY <1>3, MetadataFacts, DeployAssumption
    DEF RollbackSaved, SnapInv, QuotaInv, Quota, Retry, SameOK, NextSame,
      SameSerial
<1>4. CASE RollbackSaveFails
  BY <1>4, MetadataFacts, DeployAssumption
    DEF RollbackSaveFails, Fault, SnapInv, QuotaInv, Quota, Retry, SameOK,
      NextSame, SameSerial, Metadata
<1>5. CASE QueryExpired
  BY <1>5, MetadataFacts, DeployAssumption
    DEF QueryExpired, SnapInv, QuotaInv, Quota, Retry, SameOK, NextSame,
      SameSerial, Metadata
<1>6. CASE Fetch
  BY <1>6, MetadataFacts, DeployAssumption
    DEF Fetch, Retry, SnapInv, QuotaInv, Quota, SameOK, NextSame, SameSerial
<1>. QED BY <1>1, <1>2, <1>3, <1>4, <1>5, <1>6 DEF Query

LEMMA AttemptSame ==
  ASSUME TypeInv, SnapInv, QuotaInv, SameInv, Attempt
  PROVE  SameInv'
<1> USE DEF vars, toolVars, runVars, srvVars, histVars, Goto, SameInv
<1>1. CASE AttemptOfRetry
  BY <1>1, MetadataFacts, DeployAssumption
    DEF AttemptOfRetry, Retry, BeginRound, SnapInv, QuotaInv, Quota, SameOK,
      NextSame, SameSerial
<1>2. CASE AttemptReplays
  BY <1>2, MetadataFacts, DeployAssumption
    DEF AttemptReplays, Retry, BeginRound, SnapInv, QuotaInv, Quota, SameOK,
      NextSame, SameSerial
<1>3. CASE AttemptCapped
  BY <1>3, MetadataFacts, DeployAssumption
    DEF AttemptCapped, Retry, MarkCapped, SnapInv, QuotaInv, Quota, SameOK,
      NextSame, SameSerial, Metadata
<1>4. CASE CapSaved
  BY <1>4, MetadataFacts, DeployAssumption
    DEF CapSaved, SnapInv, QuotaInv, Quota, Retry, SameOK, NextSame, SameSerial
<1>5. CASE AttemptCounts
  BY <1>5, MetadataFacts, CountsFields, DeployAssumption
    DEF AttemptCounts, Retry, SnapInv, QuotaInv, Quota, SameOK, NextSame,
      SameSerial
<1>6. CASE IntentSaved
  BY <1>6, MetadataFacts, DeployAssumption
    DEF IntentSaved, BeginRound, SnapInv, QuotaInv, Quota, Retry, SameOK,
      NextSame, SameSerial
<1>. QED BY <1>1, <1>2, <1>3, <1>4, <1>5, <1>6 DEF Attempt

LEMMA RoundSame ==
  ASSUME TypeInv, SnapInv, QuotaInv, SameInv, Round
  PROVE  SameInv'
<1> USE DEF vars, toolVars, runVars, srvVars, histVars, Goto, SameInv
<1>1. CASE NoTarget
  BY <1>1, MetadataFacts, NoTargetFields, DeployAssumption
    DEF NoTarget, Retry, Wanted, SnapInv, QuotaInv, Quota, SameOK, NextSame,
      SameSerial
<1>2. CASE InstallFails
  BY <1>2, MetadataFacts, FailureFields, DeployAssumption
    DEF InstallFails, Retry, Counted, SnapInv, QuotaInv, Quota, SameOK,
        NextSame,
      SameSerial
<1>3. CASE Install
  BY <1>3, MetadataFacts, DeployAssumption
    DEF Install, Retry, Counted, Wanted, SnapInv, QuotaInv, Quota, SameOK,
      NextSame, SameSerial
<1>4. ASSUME NEW s \in Sites, BindOk(s) PROVE SameInv'
  BY <1>4, MetadataFacts, DeployAssumption
    DEF BindOk, SnapInv, QuotaInv, Quota, Retry, SameOK, NextSame, SameSerial
<1>5. ASSUME NEW s \in Sites, BindFails(s) PROVE SameInv'
  BY <1>5, MetadataFacts, DeployAssumption
    DEF BindFails, SnapInv, QuotaInv, Quota, Retry, SameOK, NextSame,
        SameSerial
<1>. QED BY <1>1, <1>2, <1>3, <1>4, <1>5 DEF Round

LEMMA ResultSame ==
  ASSUME TypeInv, SnapInv, QuotaInv, SameInv, Result
  PROVE  SameInv'
<1> USE DEF vars, toolVars, runVars, srvVars, histVars, Goto, SameInv
<1>1. CASE AllFailed
  BY <1>1, MetadataFacts, FailureFields, DeployAssumption
    DEF AllFailed, Bound, Outcome, SnapInv, QuotaInv, Quota, Retry, SameOK,
      NextSame, SameSerial
<1>2. CASE AllBound
  <2>1. /\ pc' = "result_save" /\ rep' = "success"
        /\ mem = disk /\ snap = disk
        /\ UNCHANGED <<disk, snap, got, same>> /\ ~UnchangedTooLong
    BY <1>2 DEF AllBound, Bound, Outcome, SnapInv
  <2>2. NextSame' = IF Retry THEN same ELSE IF SameSerial THEN same + 1 ELSE 0
    BY <2>1 DEF NextSame, Retry, SameSerial
  <2>3. /\ mem'.count = 0 /\ ~mem'.started /\ mem'.failed = {}
        /\ mem'.rounds = IF SameSerial THEN NextRounds ELSE 0
    BY <1>2, AllBoundFields
  <2>4. SameOK(disk, same)
    OBVIOUS
  <2>5. CASE Retry
    <3>1. same = 0
      BY <2>1, <2>4, <2>5 DEF SameOK, Retry
    <3>. QED BY <2>1, <2>2, <2>3, <2>4, <2>5, <3>1, NextRoundsType,
      DeployAssumption
      DEF SameOK
  <2>6. CASE ~Retry /\ SameSerial
    <3>1. NextRounds < UnchangedLimit
      BY <2>1, <2>6, NextRoundsType, DeployAssumption DEF UnchangedTooLong
    <3>2. disk.rounds < UnchangedLimit /\ NextRounds = disk.rounds + 1
      BY <2>1, <3>1, MetadataFacts, DeployAssumption DEF NextRounds
    <3>3. same + 1 <= NextRounds
      BY <2>4, <3>2, MetadataFacts DEF SameOK
    <3>4. SameOK(mem, NextSame)'
      BY <2>2, <2>3, <2>6, <3>1, <3>3, NextRoundsType, MetadataFacts,
         DeployAssumption DEF SameOK
    <3>. QED BY <2>1, <2>4, <3>4
  <2>7. CASE ~Retry /\ ~SameSerial
    BY <2>1, <2>2, <2>3, <2>4, <2>7, DeployAssumption DEF SameOK
  <2>. QED BY <2>5, <2>6, <2>7
<1>3. CASE AllBoundUnchanged
  <2>1. /\ pc' = "result_save" /\ rep' = "unchanged"
        /\ mem = disk /\ snap = disk
        /\ UNCHANGED <<disk, snap, got, same>> /\ UnchangedTooLong
        /\ ~Retry => mem.started
    BY <1>3 DEF AllBoundUnchanged, Bound, Outcome, SnapInv
  <2>2. NextSame' = IF Retry THEN same ELSE same + 1
    BY <2>1 DEF NextSame, Retry, SameSerial, UnchangedTooLong
  <2>3. /\ mem'.count = disk.count /\ ~mem'.started /\ mem'.failed = {}
        /\ mem'.rounds = NextRounds
    BY <1>3, <2>1, UnchangedFields
  <2>4. SameOK(disk, same)
    OBVIOUS
  <2>5. NextRounds = UnchangedLimit
    BY <2>1, NextRoundsType, DeployAssumption DEF UnchangedTooLong
  <2>6. CASE Retry
    <3>1. same = 0
      BY <2>1, <2>4, <2>6 DEF SameOK, Retry
    <3>. QED BY <2>1, <2>2, <2>3, <2>4, <2>5, <2>6, <3>1, MetadataFacts,
             DeployAssumption DEF SameOK
  <2>7. CASE ~Retry
    <3>1. disk.started /\ disk.count > 0
      BY <2>1, <2>7 DEF QuotaInv, Quota
    <3>2. same + 1 < UnchangedLimit + disk.count
      <4>1. CASE disk.rounds = UnchangedLimit
        BY <2>4, <3>1, <4>1 DEF SameOK
      <4>2. CASE disk.rounds < UnchangedLimit
        <5>1. same <= disk.rounds /\ disk.rounds + 1 = UnchangedLimit
          BY <2>1, <2>4, <2>5, <4>2, MetadataFacts, DeployAssumption
          DEF SameOK, NextRounds
        <5>. QED BY <5>1, <3>1, MetadataFacts, DeployAssumption
      <4>. QED BY <4>1, <4>2, MetadataFacts, DeployAssumption
    <3>3. SameOK(mem, NextSame)'
      BY <2>2, <2>3, <2>5, <2>7, <3>2, MetadataFacts, DeployAssumption DEF
         SameOK
    <3>. QED BY <2>1, <2>4, <3>3
  <2>. QED BY <2>6, <2>7
<1>4. CASE SomeBound
  <2>1. /\ pc' = "result_save" /\ rep' = "partial"
        /\ mem = disk /\ snap = disk
        /\ UNCHANGED <<disk, snap, same>>
    BY <1>4 DEF SomeBound, Bound, Outcome, SnapInv
  <2>2. /\ mem'.count = 0 /\ ~mem'.started /\ mem'.rounds = disk.rounds
    BY <1>4, <2>1, SomeBoundFields
  <2>3. SameOK(disk, same)
    OBVIOUS
  <2>4. NextSame' = 0
    BY <2>1, <2>3 DEF NextSame, Retry, SameOK
  <2>. QED BY <2>1, <2>2, <2>3, <2>4, MetadataFacts,
      DeployAssumption DEF SameOK
<1>5. CASE AdoptionFails
  BY <1>5, MetadataFacts, FailureFields, DeployAssumption
    DEF AdoptionFails, Fault, Bound, Outcome, SnapInv, QuotaInv, Quota, Retry,
      SameOK, NextSame, SameSerial
<1>6. CASE ResultSaved
  BY <1>6, MetadataFacts, DeployAssumption
    DEF ResultSaved, Retry, SameSerial, SnapInv, QuotaInv, Quota, SameOK,
        NextSame
<1>7. CASE ResultSaveFails
  BY <1>7, MetadataFacts, DeployAssumption
    DEF ResultSaveFails, Fault, SnapInv, QuotaInv, Quota, Retry, SameOK,
      NextSame, SameSerial
<1>8. CASE Callback
  BY <1>8, MetadataFacts, DeployAssumption
    DEF Callback, SnapInv, QuotaInv, Quota, Retry, SameOK, NextSame, SameSerial
<1>9. CASE FinishSaved \/ FinishSaveFails
  BY <1>9, MetadataFacts, DeployAssumption
    DEF FinishSaved, FinishSaveFails, EndRun, Fault, SnapInv, QuotaInv, Quota,
      Retry, SameOK, NextSame, SameSerial
<1>. QED BY <1>1, <1>2, <1>3, <1>4, <1>5, <1>6, <1>7, <1>8, <1>9 DEF Result

LEMMA CrashSame ==
  ASSUME TypeInv, SnapInv, QuotaInv, SameInv, Crash
  PROVE  SameInv'
<1> USE DEF vars, toolVars, runVars, srvVars, histVars, Goto, SameInv
<1>1. SameInv'
  BY MetadataFacts, DeployAssumption
    DEF Crash, EndRun, Fault, SnapInv, QuotaInv, Quota, Retry, SameOK,
        NextSame,
      SameSerial
<1>. QED BY <1>1

LEMMA EnvironmentSame ==
  ASSUME TypeInv, SnapInv, QuotaInv, SameInv, Environment
  PROVE  SameInv'
<1> USE DEF vars, toolVars, runVars, srvVars, histVars, Goto, SameInv
<1>1. CASE ServerReissues \/ ServerIssues \/ ServerStops \/ ServerRecovers \/
  Age
  BY <1>1, MetadataFacts, DeployAssumption
    DEF ServerReissues, ServerIssues, ServerStops, ServerRecovers, Age, Fault,
      SnapInv, QuotaInv, Quota, Retry, SameOK, NextSame, SameSerial
<1>. QED BY <1>1 DEF Environment

LEMMA SameStep ==
  ASSUME TypeInv, SnapInv, QuotaInv, SameInv, [Next]_vars
  PROVE  SameInv'
<1>1. CASE UNCHANGED vars
  BY <1>1 DEF vars, toolVars, runVars, srvVars, histVars, SameInv, SnapInv,
     QuotaInv, Quota, Retry, SameOK, NextSame, SameSerial
<1>. QED BY <1>1, BeforeSame, QuerySame, AttemptSame, RoundSame, ResultSame,
  CrashSame, EnvironmentSame DEF Next, Run

LEMMA SameInit == ASSUME Init PROVE SameInv
<1>1. pc = "idle" /\ same = 0 /\ mem = disk
  BY InitFields DEF Init
<1>2. SameOK(disk, 0)
  <2>1. disk.rounds = 0 /\ disk.count = 0
    BY InitFields
  <2>. QED BY <2>1, DeployAssumption DEF SameOK
<1>. QED BY <1>1, <1>2 DEF SameInv

LEMMA SameAlways == Spec => []SameInv
BY SameInit, SameStep, TypeInvariance, SnapAlways, QuotaAlways, PTL DEF Spec

\* However often the server hands out the same certificate, it is installed
\* for it at most MaxDeployAttempts + UnchangedLimit - 1 times in a row
\* (trackCertUnchanged, preserveUnchangedFailureState).
THEOREM SameCertBoundedAlways == Spec => []SameCertBounded
<1>1. TypeInv /\ QuotaInv /\ SameInv => SameCertBounded
  <2>1. ASSUME TypeInv, QuotaInv, SameInv
        PROVE  same <= MaxDeployAttempts + UnchangedLimit - 1
    <3>1. disk.count <= MaxDeployAttempts
      BY <2>1 DEF QuotaInv, Quota
    <3>2. disk.rounds < UnchangedLimit => same <= disk.rounds
      BY <2>1 DEF SameInv, SameOK
    <3>3. disk.rounds = UnchangedLimit => same < UnchangedLimit + disk.count
      BY <2>1 DEF SameInv, SameOK
    <3>. QED BY <2>1, <3>1, <3>2, <3>3, MetadataFacts, DeployAssumption
  <2>. QED BY <2>1 DEF SameCertBounded
<1>. QED BY <1>1, TypeInvariance, QuotaAlways, SameAlways, PTL

(***************************************************************************)
(* The bindings of the round under way.                                    *)
(***************************************************************************)

LEMMA BeforeSites ==
  ASSUME TypeInv, SnapInv, RoundInv, Before
  PROVE  RoundInv'
<1> USE DEF vars, toolVars, runVars, srvVars, histVars, Goto, RoundInv
<1>1. CASE StartRun \/ GateClosed \/ GateOpen \/ RetryExhausted
  BY <1>1, MetadataFacts
    DEF StartRun, GateClosed, GateOpen, RetryExhausted, Closed, Retry, SnapInv,
      Wanted
<1>2. CASE GateExpires
  BY <1>2, MetadataFacts
    DEF GateExpires, SnapInv, Retry, Wanted, Metadata
<1>3. CASE RetryCounts
  BY <1>3, MetadataFacts
    DEF RetryCounts, Closed, Retry, SnapInv, Wanted, Metadata
<1>4. CASE RetrySaved
  BY <1>4, MetadataFacts
    DEF RetrySaved, SnapInv, Retry, Wanted
<1>5. CASE SaveFails
  BY <1>5, MetadataFacts
    DEF SaveFails, Fault, SnapInv, Retry, Wanted
<1>. QED BY <1>1, <1>2, <1>3, <1>4, <1>5 DEF Before

LEMMA QuerySites ==
  ASSUME TypeInv, SnapInv, RoundInv, Query
  PROVE  RoundInv'
<1> USE DEF vars, toolVars, runVars, srvVars, histVars, Goto, RoundInv
<1>1. CASE QueryUseless \/ QueryStopped \/ QueryWaiting \/ HealthySkip
  BY <1>1, MetadataFacts
    DEF QueryUseless, QueryStopped, QueryWaiting, HealthySkip, Fault, Retry,
      SnapInv, Wanted
<1>2. CASE RetryWaits
  BY <1>2, MetadataFacts
    DEF RetryWaits, Retry, SnapInv, Wanted, Metadata
<1>3. CASE RollbackSaved
  BY <1>3, MetadataFacts
    DEF RollbackSaved, SnapInv, Retry, Wanted
<1>4. CASE RollbackSaveFails
  BY <1>4, MetadataFacts
    DEF RollbackSaveFails, Fault, SnapInv, Retry, Wanted, Metadata
<1>5. CASE QueryExpired
  BY <1>5, MetadataFacts
    DEF QueryExpired, SnapInv, Retry, Wanted, Metadata
<1>6. CASE Fetch
  BY <1>6, MetadataFacts
    DEF Fetch, Retry, SnapInv, Wanted
<1>. QED BY <1>1, <1>2, <1>3, <1>4, <1>5, <1>6 DEF Query

LEMMA AttemptSites ==
  ASSUME TypeInv, SnapInv, RoundInv, Attempt
  PROVE  RoundInv'
<1> USE DEF vars, toolVars, runVars, srvVars, histVars, Goto, RoundInv
<1>1. CASE AttemptOfRetry
  BY <1>1, MetadataFacts
    DEF AttemptOfRetry, Retry, BeginRound, SnapInv, Wanted
<1>2. CASE AttemptReplays
  BY <1>2, MetadataFacts
    DEF AttemptReplays, Retry, BeginRound, SnapInv, Wanted
<1>3. CASE AttemptCapped
  BY <1>3, MetadataFacts
    DEF AttemptCapped, Retry, MarkCapped, SnapInv, Wanted, Metadata
<1>4. CASE CapSaved
  BY <1>4, MetadataFacts
    DEF CapSaved, SnapInv, Retry, Wanted
<1>5. CASE AttemptCounts
  BY <1>5, MetadataFacts, CountsFields
    DEF AttemptCounts, Retry, SnapInv, Wanted
<1>6. CASE IntentSaved
  BY <1>6, MetadataFacts
    DEF IntentSaved, BeginRound, SnapInv, Retry, Wanted
<1>. QED BY <1>1, <1>2, <1>3, <1>4, <1>5, <1>6 DEF Attempt

LEMMA RoundSites ==
  ASSUME TypeInv, SnapInv, RoundInv, Round
  PROVE  RoundInv'
<1> USE DEF vars, toolVars, runVars, srvVars, histVars, Goto, RoundInv
<1>1. CASE NoTarget
  BY <1>1, MetadataFacts, NoTargetFields
    DEF NoTarget, Retry, Wanted, SnapInv
<1>2. CASE InstallFails
  BY <1>2, MetadataFacts, FailureFields
    DEF InstallFails, Retry, Counted, SnapInv, Wanted
<1>3. CASE Install
  BY <1>3, MetadataFacts
    DEF Install, Retry, Counted, Wanted, SnapInv
<1>4. ASSUME NEW s \in Sites, BindOk(s) PROVE RoundInv'
  <2>1. /\ pc = "bind" /\ pc' = "bind" /\ s \in todo
        /\ iis' = [iis EXCEPT ![s] = got] /\ UNCHANGED <<got, snap, bad>>
        /\ todo' = todo \ {s} /\ good' = good \cup {s} /\ hurt' = hurt \ {s}
    BY <1>4 DEF BindOk
  <2>2. \A t \in good' : iis'[t] = got
    BY <2>1 DEF TypeInv, TypeOK
  <2>3. s \notin bad
    BY <2>1
  <2>. QED BY <2>1, <2>2, <2>3 DEF Wanted, Retry
<1>5. ASSUME NEW s \in Sites, BindFails(s) PROVE RoundInv'
  BY <1>5, MetadataFacts
    DEF BindFails, SnapInv, Retry, Wanted
<1>. QED BY <1>1, <1>2, <1>3, <1>4, <1>5 DEF Round

LEMMA ResultSites ==
  ASSUME TypeInv, SnapInv, RoundInv, Result
  PROVE  RoundInv'
<1> USE DEF vars, toolVars, runVars, srvVars, histVars, Goto, RoundInv
<1>1. CASE AllFailed
  BY <1>1, MetadataFacts, FailureFields
    DEF AllFailed, Bound, Outcome, SnapInv, Retry, Wanted
<1>2. CASE AllBound
  BY <1>2, MetadataFacts, AllBoundFields
    DEF AllBound, Bound, SameSerial, UnchangedTooLong, Outcome, SnapInv, Retry,
      Wanted
<1>3. CASE AllBoundUnchanged
  BY <1>3, MetadataFacts, UnchangedFields
    DEF AllBoundUnchanged, Bound, SameSerial, UnchangedTooLong, Outcome,
        SnapInv,
      Retry, Wanted
<1>4. CASE SomeBound
  BY <1>4, MetadataFacts, SomeBoundFields
    DEF SomeBound, Retry, Bound, Outcome, SnapInv, Wanted
<1>5. CASE AdoptionFails
  BY <1>5, MetadataFacts, FailureFields
    DEF AdoptionFails, Fault, Bound, Outcome, SnapInv, Retry, Wanted
<1>6. CASE ResultSaved
  BY <1>6, MetadataFacts
    DEF ResultSaved, Retry, SameSerial, SnapInv, Wanted
<1>7. CASE ResultSaveFails
  BY <1>7, MetadataFacts
    DEF ResultSaveFails, Fault, SnapInv, Retry, Wanted
<1>8. CASE Callback
  BY <1>8, MetadataFacts
    DEF Callback, SnapInv, Retry, Wanted
<1>9. CASE FinishSaved \/ FinishSaveFails
  BY <1>9, MetadataFacts
    DEF FinishSaved, FinishSaveFails, EndRun, Fault, SnapInv, Retry, Wanted
<1>. QED BY <1>1, <1>2, <1>3, <1>4, <1>5, <1>6, <1>7, <1>8, <1>9 DEF Result

LEMMA CrashSites ==
  ASSUME TypeInv, SnapInv, RoundInv, Crash
  PROVE  RoundInv'
<1> USE DEF vars, toolVars, runVars, srvVars, histVars, Goto, RoundInv
<1>1. RoundInv'
  BY MetadataFacts
    DEF Crash, EndRun, Fault, SnapInv, Retry, Wanted
<1>. QED BY <1>1

LEMMA EnvironmentSites ==
  ASSUME TypeInv, SnapInv, RoundInv, Environment
  PROVE  RoundInv'
<1> USE DEF vars, toolVars, runVars, srvVars, histVars, Goto, RoundInv
<1>1. CASE ServerReissues \/ ServerIssues \/ ServerStops \/ ServerRecovers \/
  Age
  BY <1>1, MetadataFacts
    DEF ServerReissues, ServerIssues, ServerStops, ServerRecovers, Age, Fault,
      SnapInv, Retry, Wanted
<1>. QED BY <1>1 DEF Environment

LEMMA SitesStep ==
  ASSUME TypeInv, SnapInv, RoundInv, [Next]_vars
  PROVE  RoundInv'
<1>1. CASE UNCHANGED vars
  BY <1>1 DEF vars, toolVars, runVars, srvVars, histVars, RoundInv, SnapInv,
     Retry, Wanted
<1>. QED BY <1>1, BeforeSites, QuerySites, AttemptSites, RoundSites,
  ResultSites, CrashSites, EnvironmentSites DEF Next, Run

LEMMA SitesInit == ASSUME Init PROVE RoundInv
BY DEF Init, RoundInv

LEMMA SitesAlways == Spec => []RoundInv
BY SitesInit, SitesStep, TypeInvariance, SnapAlways, PTL DEF Spec

(***************************************************************************)
(* Failed bindings are remembered.                                         *)
(***************************************************************************)

LEMMA HurtAreWanted ==
  ASSUME TypeInv, SnapInv, QuotaInv, RememberInv, pc \in {"deploy", "bind"}
  PROVE  hurt \ Movable \subseteq Wanted
<1>1. mem = snap /\ ~Closed(mem)
  BY DEF SnapInv
<1>2. CASE Retry
  <2>1. mem.count = 0 /\ ~mem.started
    BY <1>1, <1>2 DEF QuotaInv, Quota, Retry
  <2>. QED BY <1>1, <1>2, <2>1 DEF RememberInv, Remembers, Wanted
<1>3. CASE ~Retry
  BY <1>3 DEF Wanted, TypeInv, TypeOK
<1>. QED BY <1>2, <1>3

LEMMA HurtAreBad ==
  ASSUME TypeInv, SnapInv, QuotaInv, RoundInv, RememberInv, Bound
  PROVE  hurt \ Movable \subseteq bad
BY HurtAreWanted DEF Bound, RoundInv

LEMMA BeforeRemember ==
  ASSUME TypeInv, SnapInv, QuotaInv, RoundInv, RememberInv, Before
  PROVE  RememberInv'
<1> USE DEF vars, toolVars, runVars, srvVars, histVars, Goto, RememberInv
<1>1. CASE StartRun \/ GateClosed \/ GateOpen \/ RetryExhausted
  BY <1>1, MetadataFacts
    DEF StartRun, GateClosed, GateOpen, RetryExhausted, Closed, Retry, SnapInv,
      QuotaInv, Quota, RoundInv, Remembers, Wanted
<1>2. CASE GateExpires
  BY <1>2, MetadataFacts
    DEF GateExpires, SnapInv, QuotaInv, Quota, RoundInv, Remembers, Retry,
      Closed, Wanted, Metadata
<1>3. CASE RetryCounts
  BY <1>3, MetadataFacts
    DEF RetryCounts, Closed, Retry, SnapInv, QuotaInv, Quota, RoundInv,
      Remembers, Wanted, Metadata
<1>4. CASE RetrySaved
  BY <1>4, MetadataFacts
    DEF RetrySaved, SnapInv, QuotaInv, Quota, RoundInv, Remembers, Retry,
        Closed,
      Wanted
<1>5. CASE SaveFails
  BY <1>5, MetadataFacts
    DEF SaveFails, Fault, SnapInv, QuotaInv, Quota, RoundInv, Remembers, Retry,
      Closed, Wanted
<1>. QED BY <1>1, <1>2, <1>3, <1>4, <1>5 DEF Before

LEMMA QueryRemember ==
  ASSUME TypeInv, SnapInv, QuotaInv, RoundInv, RememberInv, Query
  PROVE  RememberInv'
<1> USE DEF vars, toolVars, runVars, srvVars, histVars, Goto, RememberInv
<1>1. CASE QueryUseless \/ QueryStopped \/ QueryWaiting \/ HealthySkip
  BY <1>1, MetadataFacts
    DEF QueryUseless, QueryStopped, QueryWaiting, HealthySkip, Fault, Retry,
      SnapInv, QuotaInv, Quota, RoundInv, Remembers, Closed, Wanted
<1>2. CASE RetryWaits
  BY <1>2, MetadataFacts
    DEF RetryWaits, Retry, SnapInv, QuotaInv, Quota, RoundInv, Remembers,
        Closed,
      Wanted, Metadata
<1>3. CASE RollbackSaved
  BY <1>3, MetadataFacts
    DEF RollbackSaved, SnapInv, QuotaInv, Quota, RoundInv, Remembers, Retry,
      Closed, Wanted
<1>4. CASE RollbackSaveFails
  BY <1>4, MetadataFacts
    DEF RollbackSaveFails, Fault, SnapInv, QuotaInv, Quota, RoundInv,
        Remembers,
      Retry, Closed, Wanted, Metadata
<1>5. CASE QueryExpired
  BY <1>5, MetadataFacts
    DEF QueryExpired, SnapInv, QuotaInv, Quota, RoundInv, Remembers, Retry,
      Closed, Wanted, Metadata
<1>6. CASE Fetch
  BY <1>6, MetadataFacts
    DEF Fetch, Retry, SnapInv, QuotaInv, Quota, RoundInv, Remembers, Closed,
      Wanted
<1>. QED BY <1>1, <1>2, <1>3, <1>4, <1>5, <1>6 DEF Query

LEMMA AttemptRemember ==
  ASSUME TypeInv, SnapInv, QuotaInv, RoundInv, RememberInv, Attempt
  PROVE  RememberInv'
<1> USE DEF vars, toolVars, runVars, srvVars, histVars, Goto, RememberInv
<1>1. CASE AttemptOfRetry
  BY <1>1, MetadataFacts
    DEF AttemptOfRetry, Retry, BeginRound, SnapInv, QuotaInv, Quota, RoundInv,
      Remembers, Closed, Wanted
<1>2. CASE AttemptReplays
  BY <1>2, MetadataFacts
    DEF AttemptReplays, Retry, BeginRound, SnapInv, QuotaInv, Quota, RoundInv,
      Remembers, Closed, Wanted
<1>3. CASE AttemptCapped
  BY <1>3, MetadataFacts
    DEF AttemptCapped, Retry, MarkCapped, SnapInv, QuotaInv, Quota, RoundInv,
      Remembers, Closed, Wanted, Metadata
<1>4. CASE CapSaved
  BY <1>4, MetadataFacts
    DEF CapSaved, SnapInv, QuotaInv, Quota, RoundInv, Remembers, Retry, Closed,
      Wanted
<1>5. CASE AttemptCounts
  BY <1>5, MetadataFacts, CountsFields
    DEF AttemptCounts, Retry, SnapInv, QuotaInv, Quota, RoundInv, Remembers,
      Closed, Wanted
<1>6. CASE IntentSaved
  BY <1>6, MetadataFacts
    DEF IntentSaved, BeginRound, SnapInv, QuotaInv, Quota, RoundInv, Remembers,
      Retry, Closed, Wanted
<1>. QED BY <1>1, <1>2, <1>3, <1>4, <1>5, <1>6 DEF Attempt

LEMMA RoundRemember ==
  ASSUME TypeInv, SnapInv, QuotaInv, RoundInv, RememberInv, PaidInv, Round
  PROVE  RememberInv'
<1> USE DEF vars, toolVars, runVars, srvVars, histVars, Goto, RememberInv
<1>1. CASE NoTarget
  <2>1. CASE Retry \/ replaying
    BY <1>1, <2>1, MetadataFacts, NoTargetFields
      DEF NoTarget, Retry, SnapInv, QuotaInv, Quota, Remembers, Closed
  <2>2. CASE ~Retry /\ ~replaying
    BY <1>1, <2>2, MetadataFacts, NoTargetFields
      DEF NoTarget, PaidInv, Remembers
  <2>. QED BY <2>1, <2>2
<1>2. CASE InstallFails
  BY <1>2, MetadataFacts, FailureFields
    DEF InstallFails, Retry, Counted, SnapInv, QuotaInv, Quota, RoundInv,
      Remembers, Closed, Wanted
<1>3. CASE Install
  BY <1>3, MetadataFacts
    DEF Install, Retry, Counted, Wanted, SnapInv, QuotaInv, Quota, RoundInv,
      Remembers, Closed
<1>4. ASSUME NEW s \in Sites, BindOk(s) PROVE RememberInv'
  BY <1>4, MetadataFacts
    DEF BindOk, SnapInv, QuotaInv, Quota, RoundInv, Remembers, Retry, Closed,
      Wanted
<1>5. ASSUME NEW s \in Sites, BindFails(s) PROVE RememberInv'
  BY <1>5, MetadataFacts
    DEF BindFails, SnapInv, QuotaInv, Quota, RoundInv, Remembers, Retry,
        Closed,
      Wanted
<1>. QED BY <1>1, <1>2, <1>3, <1>4, <1>5 DEF Round

LEMMA ResultRemember ==
  ASSUME TypeInv, SnapInv, QuotaInv, RoundInv, RememberInv, Result
  PROVE  RememberInv'
<1> USE DEF vars, toolVars, runVars, srvVars, histVars, Goto, RememberInv
<1>1. CASE AllFailed
  BY <1>1, MetadataFacts, FailureFields
    DEF AllFailed, Bound, Outcome, SnapInv, QuotaInv, Quota, RoundInv,
        Remembers,
      Retry, Closed, Wanted
<1>2. CASE AllBound
  <2>1. hurt \ Movable = {}
    BY <1>2, HurtAreBad DEF AllBound
  <2>. QED BY <1>2, <2>1 DEF AllBound, Outcome, Remembers
<1>3. CASE AllBoundUnchanged
  <2>1. hurt \ Movable = {}
    BY <1>3, HurtAreBad DEF AllBoundUnchanged
  <2>. QED BY <1>3, <2>1 DEF AllBoundUnchanged, Outcome, Remembers
<1>4. CASE SomeBound
  <2>1. hurt \ Movable \subseteq mem'.failed
    BY <1>4, HurtAreBad, SomeBoundFields DEF SomeBound
  <2>2. UNCHANGED <<disk, hurt>>
    BY <1>4 DEF SomeBound, Outcome
  <2>. QED BY <2>1, <2>2 DEF Remembers, Closed
<1>5. CASE AdoptionFails
  BY <1>5, MetadataFacts, FailureFields
    DEF AdoptionFails, Fault, Bound, Outcome, SnapInv, QuotaInv, Quota,
        RoundInv,
      Remembers, Retry, Closed, Wanted
<1>6. CASE ResultSaved
  BY <1>6, MetadataFacts
    DEF ResultSaved, Retry, SameSerial, SnapInv, QuotaInv, Quota, RoundInv,
      Remembers, Closed, Wanted
<1>7. CASE ResultSaveFails
  BY <1>7, MetadataFacts
    DEF ResultSaveFails, Fault, SnapInv, QuotaInv, Quota, RoundInv, Remembers,
      Retry, Closed, Wanted
<1>8. CASE Callback
  BY <1>8, MetadataFacts
    DEF Callback, SnapInv, QuotaInv, Quota, RoundInv, Remembers, Retry, Closed,
      Wanted
<1>9. CASE FinishSaved \/ FinishSaveFails
  BY <1>9, MetadataFacts
    DEF FinishSaved, FinishSaveFails, EndRun, Fault, SnapInv, QuotaInv, Quota,
      RoundInv, Remembers, Retry, Closed, Wanted
<1>. QED BY <1>1, <1>2, <1>3, <1>4, <1>5, <1>6, <1>7, <1>8, <1>9 DEF Result

LEMMA CrashRemember ==
  ASSUME TypeInv, SnapInv, QuotaInv, RoundInv, RememberInv, Crash
  PROVE  RememberInv'
<1> USE DEF vars, toolVars, runVars, srvVars, histVars, Goto, RememberInv
<1>1. RememberInv'
  BY MetadataFacts
    DEF Crash, EndRun, Fault, SnapInv, QuotaInv, Quota, RoundInv, Remembers,
      Retry, Closed, Wanted
<1>. QED BY <1>1

LEMMA EnvironmentRemember ==
  ASSUME TypeInv, SnapInv, QuotaInv, RoundInv, RememberInv, Environment
  PROVE  RememberInv'
<1> USE DEF vars, toolVars, runVars, srvVars, histVars, Goto, RememberInv
<1>1. CASE ServerReissues \/ ServerIssues \/ ServerStops \/ ServerRecovers \/
  Age
  BY <1>1, MetadataFacts
    DEF ServerReissues, ServerIssues, ServerStops, ServerRecovers, Age, Fault,
      SnapInv, QuotaInv, Quota, RoundInv, Remembers, Retry, Closed, Wanted
<1>. QED BY <1>1 DEF Environment

LEMMA RememberStep ==
  ASSUME TypeInv, SnapInv, QuotaInv, RoundInv, RememberInv, PaidInv, [Next]_vars
  PROVE  RememberInv'
<1>1. CASE UNCHANGED vars
  BY <1>1 DEF vars, toolVars, runVars, srvVars, histVars, RememberInv, SnapInv,
     QuotaInv, Quota, RoundInv, Remembers, Retry, Closed, Wanted
<1>. QED BY <1>1, BeforeRemember, QueryRemember, AttemptRemember,
  RoundRemember, ResultRemember, CrashRemember, EnvironmentRemember DEF Next,
    Run

LEMMA PaidStep ==
  ASSUME TypeInv, SnapInv, QuotaInv, RememberInv, PaidInv, [Next]_vars
  PROVE  PaidInv'
<1> USE DEF vars, toolVars, runVars, srvVars, histVars, Goto, PaidInv
<1>1. CASE AttemptCounts
  <2>1. hurt \ Movable = {} \/ mem.count > 0
    BY <1>1 DEF AttemptCounts, Retry, SnapInv, RememberInv, Remembers
  <2>. QED BY <1>1, <2>1, MetadataFacts, CountsFields DEF AttemptCounts
<1>2. CASE IntentSaved
  BY <1>2 DEF IntentSaved, BeginRound
<1>3. CASE AttemptOfRetry \/ AttemptReplays
  BY <1>3 DEF AttemptOfRetry, AttemptReplays, BeginRound, Retry, SnapInv
<1>4. CASE AttemptCapped \/ CapSaved \/ Before \/ Query
  BY <1>4 DEF AttemptCapped, CapSaved, Before, StartRun, GateExpires, GateClosed,
    GateOpen, RetryExhausted, RetryCounts, RetrySaved, SaveFails, Query,
    QueryUseless, QueryStopped, QueryWaiting, RetryWaits, RollbackSaved,
    RollbackSaveFails, QueryExpired, HealthySkip, Fetch
<1>5. CASE Round
  BY <1>5 DEF Round, NoTarget, InstallFails, Install, BindOk, BindFails
<1>6. CASE Result
  BY <1>6 DEF Result, AllFailed, AllBound, AllBoundUnchanged, SomeBound,
    AdoptionFails, Outcome, ResultSaved, ResultSaveFails, Callback, FinishSaved,
    FinishSaveFails, EndRun, Bound
<1>7. CASE Crash
  BY <1>7 DEF Crash, EndRun
<1>8. CASE Environment \/ UNCHANGED vars
  BY <1>8 DEF Environment, ServerReissues, ServerIssues, ServerStops,
    ServerRecovers, Age, Fault, Retry
<1>. QED BY <1>1, <1>2, <1>3, <1>4, <1>5, <1>6, <1>7, <1>8
  DEF Next, Run, Attempt

LEMMA RememberInit == ASSUME Init PROVE RememberInv
<1>1. mem = disk /\ hurt \subseteq disk.failed
  <2>1. ASSUME NEW F, disk = Metadata0(1, F), hurt = F PROVE hurt \subseteq disk.failed
    BY <2>1 DEF Metadata0
  <2>. QED BY <2>1 DEF Init
<1>. QED BY <1>1 DEF RememberInv, Remembers

LEMMA RememberAlways == Spec => []RememberInv
<1>1. Init => PaidInv
  BY DEF Init, PaidInv
<1>. QED BY <1>1, RememberInit, RememberStep, PaidStep, TypeInvariance,
  SnapAlways, QuotaAlways, SitesAlways, PTL DEF Spec

\* A binding that failed or was cut short, and that takes part in every round,
\* is in the failed set, or the certificate still counts as not deployed, or is
\* closed (updateCertMetadata, reconcileFailedDeploy, the replay after a crash).
THEOREM FailedSiteRememberedAlways == Spec => []FailedSiteRemembered
<1>1. RememberInv => FailedSiteRemembered
  BY DEF RememberInv, Remembers, FailedSiteRemembered
<1>. QED BY <1>1, RememberAlways, PTL

(***************************************************************************)
(* The other bindings serve the adopted certificate.                       *)
(***************************************************************************)

LEMMA SerialFacts ==
  ASSUME TypeInv
  PROVE  base \in Nat /\ got \in Nat /\ srv.cert \in Nat
         /\ \A s \in Sites : iis[s] \in Nat
BY DeployAssumption DEF TypeInv, TypeOK, OptSerials, Serials

LEMMA BoundServes ==
  ASSUME TypeInv, SnapInv, RoundInv, ServeInv, Bound
  PROVE  \A t \in Sites \ (Movable \cup hurt) :
           iis[t] >= base /\ (~Retry => iis[t] >= got)
<1>1. pc = "bind" /\ mem = snap /\ base <= got
  BY DEF Bound, SnapInv, ServeInv
<1> TAKE t \in Sites \ (Movable \cup hurt)
<1>2. CASE t \in Wanted
  <2>1. iis[t] = got
    BY <1>1, <1>2 DEF Bound, RoundInv
  <2>. QED BY <1>1, <2>1, SerialFacts
<1>3. CASE t \notin Wanted
  BY <1>1, <1>3 DEF Wanted, Retry, ServeInv, Serve
<1>. QED BY <1>2, <1>3

LEMMA BeforeServe ==
  ASSUME TypeInv, SnapInv, RoundInv, ServeInv, Before
  PROVE  ServeInv'
<1> USE DEF vars, toolVars, runVars, srvVars, histVars, Goto, ServeInv
<1>1. CASE StartRun \/ GateClosed \/ GateOpen \/ RetryExhausted
  BY <1>1, MetadataFacts, SerialFacts
    DEF StartRun, GateClosed, GateOpen, RetryExhausted, Closed, Retry, SnapInv,
      RoundInv, Serve, Wanted
<1>2. CASE GateExpires
  BY <1>2, MetadataFacts, SerialFacts
    DEF GateExpires, SnapInv, RoundInv, Serve, Retry, Wanted, Metadata
<1>3. CASE RetryCounts
  BY <1>3, MetadataFacts, SerialFacts
    DEF RetryCounts, Closed, Retry, SnapInv, RoundInv, Serve, Wanted, Metadata
<1>4. CASE RetrySaved
  BY <1>4, MetadataFacts, SerialFacts
    DEF RetrySaved, SnapInv, RoundInv, Serve, Retry, Wanted
<1>5. CASE SaveFails
  BY <1>5, MetadataFacts, SerialFacts
    DEF SaveFails, Fault, SnapInv, RoundInv, Serve, Retry, Wanted
<1>. QED BY <1>1, <1>2, <1>3, <1>4, <1>5 DEF Before

LEMMA QueryServe ==
  ASSUME TypeInv, SnapInv, RoundInv, ServeInv, Query
  PROVE  ServeInv'
<1> USE DEF vars, toolVars, runVars, srvVars, histVars, Goto, ServeInv
<1>1. CASE QueryUseless \/ QueryStopped \/ QueryWaiting \/ HealthySkip
  BY <1>1, MetadataFacts, SerialFacts
    DEF QueryUseless, QueryStopped, QueryWaiting, HealthySkip, Fault, Retry,
      SnapInv, RoundInv, Serve, Wanted
<1>2. CASE RetryWaits
  BY <1>2, MetadataFacts, SerialFacts
    DEF RetryWaits, Retry, SnapInv, RoundInv, Serve, Wanted, Metadata
<1>3. CASE RollbackSaved
  BY <1>3, MetadataFacts, SerialFacts
    DEF RollbackSaved, SnapInv, RoundInv, Serve, Retry, Wanted
<1>4. CASE RollbackSaveFails
  BY <1>4, MetadataFacts, SerialFacts
    DEF RollbackSaveFails, Fault, SnapInv, RoundInv, Serve, Retry, Wanted,
      Metadata
<1>5. CASE QueryExpired
  BY <1>5, MetadataFacts, SerialFacts
    DEF QueryExpired, SnapInv, RoundInv, Serve, Retry, Wanted, Metadata
<1>6. CASE Fetch
  BY <1>6, MetadataFacts, SerialFacts
    DEF Fetch, Retry, SnapInv, RoundInv, Serve, Wanted
<1>. QED BY <1>1, <1>2, <1>3, <1>4, <1>5, <1>6 DEF Query

LEMMA AttemptServe ==
  ASSUME TypeInv, SnapInv, RoundInv, ServeInv, Attempt
  PROVE  ServeInv'
<1> USE DEF vars, toolVars, runVars, srvVars, histVars, Goto, ServeInv
<1>1. CASE AttemptOfRetry
  BY <1>1, MetadataFacts, SerialFacts
    DEF AttemptOfRetry, Retry, BeginRound, SnapInv, RoundInv, Serve, Wanted
<1>2. CASE AttemptReplays
  BY <1>2, MetadataFacts, SerialFacts
    DEF AttemptReplays, Retry, BeginRound, SnapInv, RoundInv, Serve, Wanted
<1>3. CASE AttemptCapped
  BY <1>3, MetadataFacts, SerialFacts
    DEF AttemptCapped, Retry, MarkCapped, SnapInv, RoundInv, Serve, Wanted,
      Metadata
<1>4. CASE CapSaved
  BY <1>4, MetadataFacts, SerialFacts
    DEF CapSaved, SnapInv, RoundInv, Serve, Retry, Wanted
<1>5. CASE AttemptCounts
  BY <1>5, MetadataFacts, CountsFields, SerialFacts
    DEF AttemptCounts, Retry, SnapInv, RoundInv, Serve, Wanted
<1>6. CASE IntentSaved
  BY <1>6, MetadataFacts, SerialFacts
    DEF IntentSaved, BeginRound, SnapInv, RoundInv, Serve, Retry, Wanted
<1>. QED BY <1>1, <1>2, <1>3, <1>4, <1>5, <1>6 DEF Attempt

LEMMA RoundServe ==
  ASSUME TypeInv, SnapInv, RoundInv, ServeInv, Round
  PROVE  ServeInv'
<1> USE DEF vars, toolVars, runVars, srvVars, histVars, Goto, ServeInv
<1>1. CASE NoTarget
  BY <1>1, MetadataFacts, NoTargetFields, SerialFacts
    DEF NoTarget, Retry, Wanted, SnapInv, RoundInv, Serve
<1>2. CASE InstallFails
  BY <1>2, MetadataFacts, FailureFields, SerialFacts
    DEF InstallFails, Retry, Counted, SnapInv, RoundInv, Serve, Wanted
<1>3. CASE Install
  BY <1>3, MetadataFacts, SerialFacts
    DEF Install, Retry, Counted, Wanted, SnapInv, RoundInv, Serve
<1>4. ASSUME NEW s \in Sites, BindOk(s) PROVE ServeInv'
  <2>1. /\ pc = "bind" /\ pc' = "bind" /\ iis' = [iis EXCEPT ![s] = got]
        /\ hurt' = hurt \ {s} /\ UNCHANGED <<mem, disk, base, got, srv>>
    BY <1>4 DEF BindOk
  <2>2. iis \in [Sites -> OptSerials] /\ base <= got
    BY <2>1 DEF TypeInv, TypeOK
  <2>3. \A t \in Sites : iis'[t] = IF t = s THEN got ELSE iis[t]
    BY <2>1, <2>2
  <2>4. Serve(mem, base)' /\ Serve(disk, base)'
    BY <2>1, <2>2, <2>3, SerialFacts DEF Serve
  <2>. QED BY <2>1, <2>2, <2>4
<1>5. ASSUME NEW s \in Sites, BindFails(s) PROVE ServeInv'
  <2>1. /\ pc = "bind" /\ pc' = "bind"
        /\ \A t \in Sites \ {s} : iis'[t] = iis[t]
        /\ hurt' = hurt \cup {s} /\ UNCHANGED <<mem, disk, base, got, srv>>
    BY <1>5 DEF BindFails, TypeInv, TypeOK
  <2>2. Serve(mem, base)' /\ Serve(disk, base)'
    BY <2>1 DEF Serve
  <2>. QED BY <2>1, <2>2
<1>. QED BY <1>1, <1>2, <1>3, <1>4, <1>5 DEF Round

LEMMA ResultServe ==
  ASSUME TypeInv, SnapInv, RoundInv, ServeInv, Result
  PROVE  ServeInv'
<1> USE DEF vars, toolVars, runVars, srvVars, histVars, Goto, ServeInv
<1>1. CASE AllFailed
  BY <1>1, MetadataFacts, FailureFields, SerialFacts
    DEF AllFailed, Bound, Outcome, SnapInv, RoundInv, Serve, Retry, Wanted
<1>2. CASE AllBound
  <2>1. /\ pc = "bind" /\ pc' = "result_save" /\ mem'.failed = {}
        /\ UNCHANGED <<disk, iis, base, got, srv, snap, hurt>>
    BY <1>2, AllBoundFields DEF AllBound, Bound, Outcome
  <2>2. Serve(mem, base)' /\ (~Retry => Serve(mem, got)')
    BY <1>2, <2>1, BoundServes DEF AllBound, Serve
  <2>. QED BY <2>1, <2>2 DEF Serve, Retry
<1>3. CASE AllBoundUnchanged
  <2>1. /\ pc = "bind" /\ pc' = "result_save" /\ mem'.failed = {}
        /\ UNCHANGED <<disk, iis, base, got, srv, snap, hurt>>
    BY <1>3, UnchangedFields DEF AllBoundUnchanged, Bound, Outcome
  <2>2. Serve(mem, base)' /\ (~Retry => Serve(mem, got)')
    BY <1>3, <2>1, BoundServes DEF AllBoundUnchanged, Serve
  <2>. QED BY <2>1, <2>2 DEF Serve, Retry
<1>4. CASE SomeBound
  <2>1. /\ pc = "bind" /\ pc' = "result_save"
        /\ UNCHANGED <<disk, iis, base, got, srv, snap, hurt>>
    BY <1>4 DEF SomeBound, Bound, Outcome
  <2>2. Serve(mem, base)' /\ (~Retry => Serve(mem, got)')
    BY <1>4, <2>1, BoundServes DEF SomeBound, Serve
  <2>. QED BY <2>1, <2>2 DEF Serve, Retry
<1>5. CASE AdoptionFails
  BY <1>5, MetadataFacts, FailureFields, SerialFacts
    DEF AdoptionFails, Fault, Bound, Outcome, SnapInv, RoundInv, Serve, Retry,
      Wanted
<1>6. CASE ResultSaved
  BY <1>6, MetadataFacts, SerialFacts
    DEF ResultSaved, Retry, SameSerial, SnapInv, RoundInv, Serve, Wanted
<1>7. CASE ResultSaveFails
  BY <1>7, MetadataFacts, SerialFacts
    DEF ResultSaveFails, Fault, SnapInv, RoundInv, Serve, Retry, Wanted
<1>8. CASE Callback
  BY <1>8, MetadataFacts, SerialFacts
    DEF Callback, SnapInv, RoundInv, Serve, Retry, Wanted
<1>9. CASE FinishSaved \/ FinishSaveFails
  BY <1>9, MetadataFacts, SerialFacts
    DEF FinishSaved, FinishSaveFails, EndRun, Fault, SnapInv, RoundInv, Serve,
      Retry, Wanted
<1>. QED BY <1>1, <1>2, <1>3, <1>4, <1>5, <1>6, <1>7, <1>8, <1>9 DEF Result

LEMMA CrashServe ==
  ASSUME TypeInv, SnapInv, RoundInv, ServeInv, Crash
  PROVE  ServeInv'
<1> USE DEF vars, toolVars, runVars, srvVars, histVars, Goto, ServeInv
<1>1. ServeInv'
  <2>1. /\ mem' = disk /\ disk' = disk /\ pc' = "idle"
        /\ UNCHANGED <<base, srv>>
        /\ hurt \subseteq hurt' /\ \A t \in Sites \ hurt' : iis'[t] = iis[t]
    BY DEF Crash, EndRun, Fault, TypeInv, TypeOK
  <2>2. Serve(disk, base)'
    BY <2>1 DEF Serve
  <2>. QED BY <2>1, <2>2
<1>. QED BY <1>1

LEMMA EnvironmentServe ==
  ASSUME TypeInv, SnapInv, RoundInv, ServeInv, Environment
  PROVE  ServeInv'
<1> USE DEF vars, toolVars, runVars, srvVars, histVars, Goto, ServeInv
<1>1. CASE ServerReissues \/ ServerIssues \/ ServerStops \/ ServerRecovers \/
  Age
  <2>1. UNCHANGED <<pc, mem, disk, iis, base, got, hurt, snap, rep>>
    BY <1>1 DEF ServerReissues, ServerIssues, ServerStops, ServerRecovers, Age,
       Fault
  <2>2. srv.cert <= srv'.cert
    BY <1>1, SerialFacts
    DEF ServerReissues, ServerIssues, ServerStops, ServerRecovers, Age,
        TypeInv,
        TypeOK
  <2>3. srv'.cert \in Nat
    <3>1. TypeInv'
      BY <1>1, EnvironmentType DEF Environment
    <3>. QED BY <3>1, DeployAssumption DEF TypeInv, TypeOK, Serials
  <2>. QED BY <2>1, <2>2, <2>3, SerialFacts DEF Serve, Retry
<1>. QED BY <1>1 DEF Environment

LEMMA ServeStep ==
  ASSUME TypeInv, SnapInv, RoundInv, ServeInv, [Next]_vars
  PROVE  ServeInv'
<1>1. CASE UNCHANGED vars
  BY <1>1 DEF vars, toolVars, runVars, srvVars, histVars, ServeInv, SnapInv,
     RoundInv, Serve, Retry, Wanted
<1>. QED BY <1>1, BeforeServe, QueryServe, AttemptServe, RoundServe,
  ResultServe, CrashServe, EnvironmentServe DEF Next, Run

LEMMA ServeInit == ASSUME Init PROVE ServeInv
<1>1. mem = disk /\ pc = "idle" /\ srv.cert = 1
  BY DEF Init
<1>2. ASSUME NEW F, disk = Metadata0(1, F), base = 1, hurt = F,
             iis = [s \in Sites |-> IF s \in F THEN NoCert ELSE 1]
      PROVE  Serve(disk, base) /\ base <= 1
  BY <1>2 DEF Serve
<1>3. ASSUME base = NoCert, iis = [s \in Sites |-> NoCert]
      PROVE  Serve(disk, base) /\ base <= 1
  BY <1>3 DEF Serve, NoCert
<1>4. Serve(disk, base) /\ base <= 1
  BY <1>2, <1>3 DEF Init
<1>. QED BY <1>1, <1>4 DEF ServeInv

LEMMA ServeAlways == Spec => []ServeInv
BY ServeInit, ServeStep, TypeInvariance, SnapAlways, SitesAlways, PTL DEF Spec

\* Between runs every binding that takes part in every round and is not known to
\* have failed serves the certificate of the last adopted round over all
\* bindings, or a later one (executableRuleTargets, updateCertMetadata).
THEOREM HealthyServeAdoptedAlways == Spec => []HealthyServeAdopted
<1>1. ServeInv => HealthyServeAdopted
  BY DEF ServeInv, Serve, HealthyServeAdopted
<1>. QED BY <1>1, ServeAlways, PTL
(***************************************************************************)
(* The rounds implement DeploySpec.                                        *)
(***************************************************************************)

(* What is recorded of metadata m is what is on disk, but for its closing. *)
Agrees(m) == m.cert = disk.cert /\ m.failed = disk.failed /\ m.started = disk.started

(* What a save will change in the record. *)
AccountInv ==
  /\ pc \in {"retry_save", "rollback_save"} => Agrees(mem) /\ (Closed(mem) <=> Closed(disk))
  /\ pc = "cap_save" => Agrees(mem) /\ Closed(mem)
  /\ pc = "intent_save" =>
       mem.cert = disk.cert /\ mem.started /\ (Closed(mem) <=> Closed(disk))
  /\ pc = "finish" => Agrees(mem) /\ (Closed(disk) => Closed(mem))
  /\ pc = "callback" => rep # "none"
  /\ pc = "bind" => todo \cup good \cup bad # {}
  /\ pc = "result_save" =>
       /\ got # NoCert /\ todo = {} /\ ~mem.started
       /\ rep \in {"none", "failure"} =>
            mem.cert = disk.cert /\ mem.failed = disk.failed
       /\ rep = "none" => good = {} /\ bad = {} /\ ~Closed(mem)
       /\ rep \in {"success", "partial", "unchanged"} =>
            good # {} /\ mem.cert = got /\ mem.failed = bad
       /\ rep \in {"success", "unchanged"} => bad = {}
       /\ rep = "partial" => bad # {}
       /\ rep \in {"success", "partial"} => ~Closed(mem)
       /\ rep = "unchanged" => disk.cert = got

LEMMA CertKept ==
  ASSUME NEW m \in Metadata
  PROVE  Withdrawn(m).cert = m.cert /\ Reconciled(m).cert = m.cert
<1> DEFINE e == [m EXCEPT !.started = FALSE]
<1>1. e \in Metadata /\ e.cert = m.cert
  BY DEF Metadata
<1>2. MarkCapped(e).cert = e.cert
  BY <1>1 DEF MarkCapped, Metadata
<1>3. Reconciled(m) = IF e.count >= MaxDeployAttempts THEN MarkCapped(e) ELSE e
  BY DEF Reconciled
<1>4. Withdrawn(m).cert = m.cert
  BY DEF Withdrawn, Metadata
<1> HIDE DEF e
<1>. QED BY <1>1, <1>2, <1>3, <1>4

LEMMA CertAdopted ==
  ASSUME TypeInv
  PROVE  /\ AllBound \/ SomeBound => mem'.cert = got
         /\ AllBoundUnchanged => mem'.cert = snap.cert
<1>1. Adopted \in Metadata /\ Adopted.cert = got
  BY AdoptedType, MetadataFacts DEF Adopted, Metadata
<1>2. AllBound => mem'.cert = got
  BY <1>1 DEF AllBound, Outcome, Metadata
<1>3. SomeBound => mem'.cert = got
  BY <1>1 DEF SomeBound, Outcome, Metadata
<1>4. ASSUME AllBoundUnchanged PROVE mem'.cert = snap.cert
  <2> DEFINE m == [Adopted EXCEPT !.count = snap.count, !.cert = snap.cert,
                                  !.rounds = NextRounds]
  <2>1. m \in Metadata
    BY AdoptedType, NextRoundsType DEF TypeInv, TypeOK, Metadata
  <2>2. m.cert = snap.cert
    BY <1>1 DEF Metadata
  <2>3. mem' = Reconciled(m)
    BY <1>4 DEF AllBoundUnchanged, Outcome
  <2> HIDE DEF m
  <2>. QED BY <2>1, <2>2, <2>3, CertKept
<1>. QED BY <1>2, <1>3, <1>4

LEMMA BeforeAccount ==
  ASSUME TypeInv, SnapInv, AccountInv, Before
  PROVE  AccountInv'
<1> USE DEF vars, toolVars, runVars, srvVars, histVars, Goto, AccountInv
<1>1. CASE StartRun \/ GateClosed \/ GateOpen \/ RetryExhausted
  BY <1>1, MetadataFacts
    DEF StartRun, GateClosed, GateOpen, RetryExhausted, Closed, Agrees, SnapInv
<1>2. CASE GateExpires
  BY <1>2, MetadataFacts DEF GateExpires, SnapInv, Closed, Agrees, Metadata
<1>3. CASE RetryCounts
  BY <1>3, MetadataFacts DEF RetryCounts, SnapInv, Closed, Agrees, Metadata
<1>4. CASE RetrySaved
  BY <1>4 DEF RetrySaved
<1>5. CASE SaveFails
  BY <1>5, MetadataFacts DEF SaveFails, Fault, SnapInv, Closed, Agrees
<1>. QED BY <1>1, <1>2, <1>3, <1>4, <1>5 DEF Before

LEMMA QueryAccount ==
  ASSUME TypeInv, SnapInv, AccountInv, Query
  PROVE  AccountInv'
<1> USE DEF vars, toolVars, runVars, srvVars, histVars, Goto, AccountInv
<1>1. CASE QueryUseless \/ QueryStopped \/ QueryWaiting \/ HealthySkip
  BY <1>1, MetadataFacts
    DEF QueryUseless, QueryStopped, QueryWaiting, HealthySkip, Fault, SnapInv,
      Closed, Agrees
<1>2. CASE RetryWaits
  BY <1>2, MetadataFacts DEF RetryWaits, SnapInv, Closed, Agrees, Metadata
<1>3. CASE RollbackSaved
  BY <1>3, MetadataFacts DEF RollbackSaved, SnapInv, Closed, Agrees
<1>4. CASE RollbackSaveFails
  BY <1>4, MetadataFacts
    DEF RollbackSaveFails, Fault, SnapInv, Closed, Agrees, Metadata
<1>5. CASE QueryExpired
  BY <1>5, MetadataFacts DEF QueryExpired, SnapInv, Closed, Agrees, Metadata
<1>6. CASE Fetch
  BY <1>6 DEF Fetch
<1>. QED BY <1>1, <1>2, <1>3, <1>4, <1>5, <1>6 DEF Query

LEMMA AttemptAccount ==
  ASSUME TypeInv, SnapInv, AccountInv, Attempt
  PROVE  AccountInv'
<1> USE DEF vars, toolVars, runVars, srvVars, histVars, Goto, AccountInv
<1>1. CASE AttemptOfRetry \/ AttemptReplays \/ IntentSaved
  BY <1>1 DEF AttemptOfRetry, AttemptReplays, IntentSaved, BeginRound
<1>2. CASE AttemptCapped
  BY <1>2, MetadataFacts
    DEF AttemptCapped, MarkCapped, SnapInv, Closed, Agrees, Metadata
<1>3. CASE CapSaved
  BY <1>3, MetadataFacts DEF CapSaved, SnapInv, Closed, Agrees
<1>4. CASE AttemptCounts
  BY <1>4, MetadataFacts DEF AttemptCounts, SnapInv, Closed, Metadata
<1>. QED BY <1>1, <1>2, <1>3, <1>4 DEF Attempt

LEMMA RoundAccount ==
  ASSUME TypeInv, SnapInv, RoundInv, AccountInv, Round
  PROVE  AccountInv'
<1> USE DEF vars, toolVars, runVars, srvVars, histVars, Goto, AccountInv
<1>1. CASE NoTarget
  <2>1. mem'.cert = mem.cert
    BY <1>1, MetadataFacts, CertKept DEF NoTarget
  <2>2. pc = "deploy" /\ mem = disk /\ got # NoCert /\ ~Closed(mem)
    BY <1>1 DEF NoTarget, SnapInv, TypeInv, TypeOK
  <2>3. ~Closed(mem)'
    BY <1>1, <2>2, NoTargetFields DEF Closed
  <2>. QED BY <1>1, <2>1, <2>2, <2>3, NoTargetFields DEF NoTarget, RoundInv
<1>2. CASE InstallFails
  <2>1. mem'.cert = mem.cert
    BY <1>2, MetadataFacts, CertKept DEF InstallFails
  <2>2. pc = "deploy" /\ mem = disk /\ got # NoCert
    BY <1>2 DEF InstallFails, SnapInv, TypeInv, TypeOK
  <2>. QED BY <1>2, <2>1, <2>2, FailureFields DEF InstallFails, RoundInv
<1>3. CASE Install
  BY <1>3 DEF Install
<1>4. ASSUME NEW s \in Sites, BindOk(s) \/ BindFails(s) PROVE AccountInv'
  <2>1. s \in good' \cup bad' /\ pc' = "bind"
    BY <1>4 DEF BindOk, BindFails
  <2>. QED BY <2>1
<1>. QED BY <1>1, <1>2, <1>3, <1>4 DEF Round

LEMMA ResultAccount ==
  ASSUME TypeInv, SnapInv, RoundInv, AccountInv, Result
  PROVE  AccountInv'
<1> USE DEF vars, toolVars, runVars, srvVars, histVars, Goto, AccountInv
<1>1. Bound => mem = disk /\ snap = disk /\ got # NoCert
  BY DEF Bound, SnapInv, TypeInv, TypeOK
<1>2. CASE AllFailed \/ AdoptionFails
  <2>1. mem'.cert = mem.cert
    BY <1>2, MetadataFacts, CertKept DEF AllFailed, AdoptionFails, Outcome
  <2>. QED BY <1>1, <1>2, <2>1, FailureFields
    DEF AllFailed, AdoptionFails, Bound, Outcome
<1>3. CASE AllBound
  <2>1. good # {} /\ mem'.failed = bad
    BY <1>3, AllBoundFields DEF AllBound, Bound
  <2>. QED BY <1>1, <1>3, <2>1, AllBoundFields, CertAdopted
    DEF AllBound, Bound, Outcome, Closed
<1>4. CASE AllBoundUnchanged
  <2>1. good # {} /\ mem'.failed = bad
    BY <1>4, UnchangedFields DEF AllBoundUnchanged, Bound
  <2>. QED BY <1>1, <1>4, <2>1, UnchangedFields, CertAdopted
    DEF AllBoundUnchanged, Bound, Outcome, UnchangedTooLong, SameSerial
<1>5. CASE SomeBound
  BY <1>1, <1>5, SomeBoundFields, CertAdopted DEF SomeBound, Bound, Outcome, Closed
<1>6. CASE ResultSaved
  BY <1>6 DEF ResultSaved, Agrees, Closed
<1>7. CASE ResultSaveFails
  BY <1>7 DEF ResultSaveFails, SnapInv, Agrees, Closed
<1>8. CASE Callback
  BY <1>8 DEF Callback, SnapInv, Agrees, Closed
<1>9. CASE FinishSaved \/ FinishSaveFails
  BY <1>9 DEF FinishSaved, FinishSaveFails, EndRun
<1>. QED BY <1>2, <1>3, <1>4, <1>5, <1>6, <1>7, <1>8, <1>9 DEF Result

LEMMA CrashAccount ==
  ASSUME AccountInv, Crash
  PROVE  AccountInv'
BY DEF Crash, EndRun, Goto, AccountInv

LEMMA EnvironmentAccount ==
  ASSUME AccountInv, Environment
  PROVE  AccountInv'
<1>1. UNCHANGED <<pc, toolVars, runVars>>
  BY DEF Environment, ServerReissues, ServerIssues, ServerStops, ServerRecovers,
    Age, Fault
<1>. QED BY <1>1 DEF AccountInv, Agrees, Closed, toolVars, runVars

LEMMA AccountStep ==
  ASSUME TypeInv, SnapInv, RoundInv, AccountInv, [Next]_vars
  PROVE  AccountInv'
<1>1. CASE UNCHANGED vars
  BY <1>1 DEF vars, toolVars, runVars, AccountInv, Agrees, Closed
<1>. QED BY <1>1, BeforeAccount, QueryAccount, AttemptAccount, RoundAccount,
  ResultAccount, CrashAccount, EnvironmentAccount DEF Next, Run

LEMMA AccountInit == ASSUME Init PROVE AccountInv
BY DEF Init, AccountInv

LEMMA AccountAlways == Spec => []AccountInv
BY AccountInit, AccountStep, TypeInvariance, SnapAlways, SitesAlways, PTL DEF Spec

LEMMA InRoundUnderway ==
  ASSUME InRound
  PROVE  /\ Underway = [cert |-> got, todo |-> todo, good |-> good, bad |-> bad]
         /\ Underway.cert = got /\ Underway.todo = todo
         /\ Underway.good = good /\ Underway.bad = bad
BY DEF Underway

LEMMA NoneUnderway ==
  ASSUME ~InRound
  PROVE  Underway = Account!NoRound /\ Underway.todo = {}
BY DEF Underway, Account!NoRound

(* The same after the step. *)
LEMMA InRoundUnderwayNext ==
  ASSUME InRound'
  PROVE  Underway' = [cert |-> got', todo |-> todo', good |-> good', bad |-> bad']
BY DEF Underway

LEMMA NoneUnderwayNext == ASSUME ~InRound' PROVE Underway' = Account!NoRound
BY DEF Underway, Account!NoRound

(* A step that leaves alone what Account sees. *)
Unseen == /\ UNCHANGED iis /\ Recorded(disk)' = Recorded(disk)
          /\ pc \notin {"deploy", "bind", "callback"} /\ pc' # "callback"
          /\ ~InRound /\ ~InRound'

LEMMA UnseenStutters == ASSUME Unseen PROVE UNCHANGED Account!vars
BY NoneUnderway, NoneUnderwayNext DEF Unseen, Account!vars

LEMMA SameRecord ==
  ASSUME Agrees(mem), (Closed(mem) <=> Closed(disk)), disk' = mem
  PROVE  Recorded(disk)' = Recorded(disk)
BY DEF Agrees, Recorded, Closed

LEMMA BeforeAccounted ==
  ASSUME TypeInv, SnapInv, AccountInv, Before
  PROVE  [Account!Next]_(Account!vars)
<1> USE DEF toolVars, Goto, InRound
<1>1. CASE StartRun \/ GateExpires \/ GateClosed \/ GateOpen \/ RetryExhausted
           \/ RetryCounts \/ SaveFails
  <2>1. disk' = disk /\ iis' = iis
    BY <1>1 DEF StartRun, GateExpires, GateClosed, GateOpen, RetryExhausted,
      RetryCounts, SaveFails
  <2>2. Recorded(disk)' = Recorded(disk)
    BY <2>1 DEF Recorded, Closed
  <2>3. Unseen
    BY <1>1, <2>1, <2>2 DEF Unseen, StartRun, GateExpires, GateClosed, GateOpen,
      RetryExhausted, RetryCounts, SaveFails
  <2>. QED BY <2>3, UnseenStutters
<1>2. CASE RetrySaved
  <2>1. Recorded(disk)' = Recorded(disk)
    BY <1>2, SameRecord DEF RetrySaved, AccountInv
  <2>2. Unseen
    BY <1>2, <2>1 DEF Unseen, RetrySaved
  <2>. QED BY <2>2, UnseenStutters
<1>. QED BY <1>1, <1>2 DEF Before

LEMMA QueryAccounted ==
  ASSUME TypeInv, SnapInv, AccountInv, Query
  PROVE  [Account!Next]_(Account!vars)
<1> USE DEF toolVars, Goto, InRound
<1>1. CASE QueryUseless \/ QueryStopped \/ QueryWaiting \/ RetryWaits
           \/ RollbackSaveFails \/ QueryExpired \/ HealthySkip \/ Fetch
  <2>1. disk' = disk /\ iis' = iis
    BY <1>1 DEF QueryUseless, QueryStopped, QueryWaiting, RetryWaits,
      RollbackSaveFails, QueryExpired, HealthySkip, Fetch
  <2>2. Recorded(disk)' = Recorded(disk)
    BY <2>1 DEF Recorded, Closed
  <2>3. Unseen
    BY <1>1, <2>1, <2>2 DEF Unseen, QueryUseless, QueryStopped, QueryWaiting,
      RetryWaits, RollbackSaveFails, QueryExpired, HealthySkip, Fetch
  <2>. QED BY <2>3, UnseenStutters
<1>2. CASE RollbackSaved
  <2>1. Recorded(disk)' = Recorded(disk)
    BY <1>2, SameRecord DEF RollbackSaved, AccountInv
  <2>2. Unseen
    BY <1>2, <2>1 DEF Unseen, RollbackSaved
  <2>. QED BY <2>2, UnseenStutters
<1>. QED BY <1>1, <1>2 DEF Query

LEMMA ClosesAccounted ==
  ASSUME Agrees(mem), Closed(mem), disk' = mem, UNCHANGED iis,
         ~InRound, ~InRound', pc # "callback", pc' # "callback"
  PROVE  Account!Close
<1>1. Closed(disk)'
  BY DEF Closed
<1>2. disk'.cert = disk.cert /\ disk'.failed = disk.failed
  BY DEF Agrees
<1>3. Recorded(disk)' = [Recorded(disk) EXCEPT !.mark = "closed"]
  BY <1>1, <1>2 DEF Recorded
<1>. QED BY <1>3, NoneUnderway, NoneUnderwayNext DEF Account!Close, Account!Idle

LEMMA StopsAccounted ==
  ASSUME UNCHANGED <<disk, iis>>, ~InRound', pc' # "callback"
  PROVE  Account!Stop
<1>1. Recorded(disk)' = Recorded(disk)
  BY DEF Recorded, Closed
<1>. QED BY <1>1, NoneUnderwayNext DEF Account!Stop

(* A round begins on a record that says why. *)
LEMMA BeginsAccounted ==
  ASSUME TypeInv, pc \in {"attempt", "intent_save"}, pc' = "deploy", got' = got,
         UNCHANGED <<iis, todo, good, bad>>, todo = {}, good = {}, bad = {},
         ~Closed(disk), disk'.cert = disk.cert, disk'.failed = disk.failed,
         disk'.started <=> disk.failed = {}, ~Closed(disk)'
  PROVE  Account!Begin
<1>1. got \in Serials
  BY DEF TypeInv, TypeOK, NoCert, Serials, OptSerials
<1>2. Recorded(disk)' = [Recorded(disk) EXCEPT
         !.mark = IF Recorded(disk).failed = {} THEN "begun" ELSE "open"]
  BY DEF Recorded
<1>3. Underway = Account!NoRound
  BY NoneUnderway DEF InRound
<1>4. Underway' = [Account!NoRound EXCEPT !.cert = got]
  BY InRoundUnderwayNext DEF InRound, Account!NoRound
<1>5. Recorded(disk).mark # "closed"
  BY DEF Recorded
<1>. QED BY <1>1, <1>2, <1>3, <1>4, <1>5 DEF Account!Begin, Account!Idle

LEMMA AttemptAccounted ==
  ASSUME TypeInv, SnapInv, QuotaInv, RoundInv, AccountInv, Attempt
  PROVE  [Account!Next]_(Account!vars)
<1> USE DEF toolVars, Goto
<1>1. CASE AttemptOfRetry \/ AttemptReplays
  <2>1. /\ pc = "attempt" /\ pc' = "deploy"
        /\ UNCHANGED <<got, disk, iis, todo, good, bad>>
        /\ Retry \/ mem.started
    BY <1>1 DEF AttemptOfRetry, AttemptReplays, BeginRound
  <2>2. todo = {} /\ good = {} /\ bad = {}
    BY <2>1 DEF RoundInv
  <2>3. mem = disk /\ ~Closed(disk) /\ mem.failed = snap.failed
    BY <2>1 DEF SnapInv
  <2>4. disk.started <=> disk.failed = {}
    BY <2>1, <2>3, MetadataFacts DEF QuotaInv, Quota, Retry
  <2>5. Account!Begin
    BY <2>1, <2>2, <2>3, <2>4, BeginsAccounted DEF Closed
  <2>. QED BY <2>5 DEF Account!Next
<1>2. CASE IntentSaved
  <2>1. /\ pc = "intent_save" /\ pc' = "deploy" /\ disk' = mem
        /\ UNCHANGED <<mem, got, iis, todo, good, bad>>
    BY <1>2 DEF IntentSaved, BeginRound
  <2>2. todo = {} /\ good = {} /\ bad = {}
    BY <2>1 DEF RoundInv
  <2>3. /\ mem.cert = disk.cert /\ mem.started /\ (Closed(mem) <=> Closed(disk))
        /\ ~Closed(mem) /\ snap = disk /\ mem.failed = snap.failed /\ ~Retry
    BY <2>1 DEF SnapInv, AccountInv
  <2>4. disk'.started <=> disk.failed = {}
    BY <2>1, <2>3, MetadataFacts DEF Retry
  <2>5. Account!Begin
    BY <2>1, <2>2, <2>3, <2>4, BeginsAccounted DEF Closed
  <2>. QED BY <2>5 DEF Account!Next
<1>3. CASE AttemptCapped \/ AttemptCounts
  <2>1. disk' = disk /\ iis' = iis
    BY <1>3 DEF AttemptCapped, AttemptCounts
  <2>2. Recorded(disk)' = Recorded(disk)
    BY <2>1 DEF Recorded, Closed
  <2>3. Unseen
    BY <1>3, <2>1, <2>2 DEF Unseen, InRound, AttemptCapped, AttemptCounts
  <2>. QED BY <2>3, UnseenStutters
<1>4. CASE CapSaved
  <2>1. pc = "cap_save" /\ pc' = "finish" /\ disk' = mem /\ iis' = iis
    BY <1>4 DEF CapSaved
  <2>2. Agrees(mem) /\ Closed(mem)
    BY <2>1 DEF AccountInv
  <2>3. Account!Close
    BY <2>1, <2>2, ClosesAccounted DEF InRound
  <2>. QED BY <2>3 DEF Account!Next
<1>. QED BY <1>1, <1>2, <1>3, <1>4 DEF Attempt

(* The mapped round. *)
LEMMA RoundMapped ==
  ASSUME InRound, got # NoCert, todo = {}
  PROVE  Account!Over /\ (good = {} /\ bad = {} => Account!Untouched)
<1>1. Underway # Account!NoRound
  BY InRoundUnderway DEF Account!NoRound
<1>. QED BY <1>1, InRoundUnderway DEF Account!Over, Account!Untouched

LEMMA RoundAccounted ==
  ASSUME TypeInv, SnapInv, RoundInv, AccountInv, Round
  PROVE  [Account!Next]_(Account!vars)
<1> USE DEF toolVars, Goto
<1>1. CASE NoTarget \/ InstallFails
  <2>1. /\ pc = "deploy" /\ pc' = "result_save"
        /\ UNCHANGED <<disk, iis, got, todo, good, bad>>
    BY <1>1 DEF NoTarget, InstallFails
  <2>2. Recorded(disk)' = Recorded(disk)
    BY <2>1 DEF Recorded, Closed
  <2>3. UNCHANGED Account!vars
    BY <2>1, <2>2, InRoundUnderway, InRoundUnderwayNext DEF Account!vars, InRound
  <2>. QED BY <2>3
<1>2. CASE Install
  <2>1. /\ pc = "deploy" /\ pc' = "bind"
        /\ UNCHANGED <<disk, iis, got, good, bad>>
        /\ todo' \in SUBSET Wanted /\ Wanted \ todo' \subseteq Movable
    BY <1>2 DEF Install
  <2>2. Recorded(disk)' = Recorded(disk)
    BY <2>1 DEF Recorded, Closed
  <2>3. todo = {} /\ good = {} /\ bad = {} /\ got # NoCert
    BY <2>1 DEF RoundInv, TypeInv, TypeOK
  <2>4. Wanted = Account!Wanted
    <3>1. disk.failed = snap.failed
      BY <2>1 DEF SnapInv
    <3>. QED BY <3>1 DEF Wanted, Account!Wanted, Retry, Recorded
  <2>5. Account!Untouched
    BY <2>1, <2>3, RoundMapped DEF InRound
  <2>6. Underway' = [Underway EXCEPT !.todo = todo']
    BY <2>1, InRoundUnderway, InRoundUnderwayNext DEF InRound
  <2>7. Account!Aim
    BY <2>1, <2>2, <2>4, <2>5, <2>6 DEF Account!Aim
  <2>. QED BY <2>7 DEF Account!Next
<1>3. ASSUME NEW s \in Sites, BindOk(s) PROVE [Account!Next]_(Account!vars)
  <2>1. /\ pc = "bind" /\ pc' = "bind" /\ s \in todo
        /\ UNCHANGED <<disk, got, bad>>
        /\ iis' = [iis EXCEPT ![s] = got]
        /\ todo' = todo \ {s} /\ good' = good \cup {s}
    BY <1>3 DEF BindOk
  <2>2. Recorded(disk)' = Recorded(disk)
    BY <2>1 DEF Recorded, Closed
  <2>3. /\ s \in Underway.todo /\ Underway.cert = got
        /\ Underway.good = good /\ Underway.bad = bad
    BY <2>1, InRoundUnderway DEF InRound
  <2>4. Account!Done(s, good \cup {s}, bad)
    BY <2>1, InRoundUnderway, InRoundUnderwayNext DEF InRound, Account!Done
  <2>5. Account!Bind(s)
    BY <2>1, <2>2, <2>3, <2>4 DEF Account!Bind
  <2>. QED BY <2>5 DEF Account!Next
<1>4. ASSUME NEW s \in Sites, BindFails(s) PROVE [Account!Next]_(Account!vars)
  <2>1. /\ pc = "bind" /\ pc' = "bind" /\ s \in todo
        /\ UNCHANGED <<disk, got, good>>
        /\ \E c \in {iis[s], NoCert, got} : iis' = [iis EXCEPT ![s] = c]
        /\ todo' = todo \ {s} /\ bad' = bad \cup {s}
    BY <1>4 DEF BindFails
  <2>2. Recorded(disk)' = Recorded(disk)
    BY <2>1 DEF Recorded, Closed
  <2>3. /\ s \in Underway.todo /\ Underway.cert = got
        /\ Underway.good = good /\ Underway.bad = bad
    BY <2>1, InRoundUnderway DEF InRound
  <2>4. Account!Done(s, good, bad \cup {s})
    BY <2>1, InRoundUnderway, InRoundUnderwayNext DEF InRound, Account!Done
  <2>5. Account!Bind(s)
    BY <2>1, <2>2, <2>3, <2>4 DEF Account!Bind
  <2>. QED BY <2>5 DEF Account!Next
<1>. QED BY <1>1, <1>2, <1>3, <1>4 DEF Round

(* What is saved at the end of a round is one of the outcomes of Account. *)
LEMMA SavedAccounted ==
  ASSUME TypeInv, AccountInv, ResultSaved
  PROVE  Account!Next
<1>1. /\ pc = "result_save" /\ disk' = mem /\ UNCHANGED <<iis, rep>>
      /\ pc' = IF rep = "none" THEN "finish" ELSE "callback"
  BY DEF ResultSaved, Goto, toolVars, runVars
<1>2. rep \in Reports /\ ~disk'.started /\ (Closed(disk)' <=> Closed(mem))
  BY <1>1 DEF TypeInv, TypeOK, AccountInv, Closed
<1>3. InRound /\ Account!Over /\ Underway' = Account!NoRound
  BY <1>1, RoundMapped, NoneUnderwayNext DEF AccountInv, InRound
<1> DEFINE mark == IF Closed(mem) THEN "closed" ELSE "open"
<1>4. mark \in {"open", "closed"}
  OBVIOUS
<1>5. Recorded(disk)' = [cert |-> mem.cert, failed |-> mem.failed, mark |-> mark]
  BY <1>1, <1>2 DEF Recorded
<1> HIDE DEF mark
<1>6. CASE rep = "none"
  <2>1. mem.cert = disk.cert /\ mem.failed = disk.failed /\ ~Closed(mem)
    BY <1>1, <1>6 DEF AccountInv
  <2>2. Recorded(disk)' = [Recorded(disk) EXCEPT !.mark = "open"]
    BY <1>5, <2>1 DEF Recorded, mark
  <2>3. Account!Untouched
    BY <1>1, <1>6, RoundMapped DEF AccountInv, InRound
  <2>. QED BY <1>1, <1>3, <1>6, <2>2, <2>3
    DEF Account!Next, Account!Withdraw, Account!Settle
<1>7. CASE rep = "failure"
  <2>1. mem.cert = disk.cert /\ mem.failed = disk.failed
    BY <1>1, <1>7 DEF AccountInv
  <2>2. Recorded(disk)' = [Recorded(disk) EXCEPT !.mark = mark]
    BY <1>5, <2>1 DEF Recorded
  <2>3. Account!Settle([Recorded(disk) EXCEPT !.mark = mark], "failure")
    BY <1>1, <1>3, <1>7, <2>2 DEF Account!Settle
  <2>. QED BY <1>4, <2>3 DEF Account!Next, Account!Fail
<1>8. CASE rep \in {"success", "partial"}
  <2>1. /\ good # {} /\ mem.cert = got /\ mem.failed = bad /\ ~Closed(mem)
        /\ rep = IF bad = {} THEN "success" ELSE "partial"
    BY <1>1, <1>8 DEF AccountInv
  <2>2. Recorded(disk)' = Account!Deployed("open")
    BY <1>3, <1>5, <2>1, InRoundUnderway DEF Account!Deployed, mark
  <2>. QED BY <1>1, <1>3, <1>8, <2>1, <2>2, InRoundUnderway
    DEF Account!Next, Account!Adopt, Account!Settle
<1>9. CASE rep = "unchanged"
  <2>1. /\ good # {} /\ bad = {} /\ mem.cert = got /\ mem.failed = bad
        /\ disk.cert = got
    BY <1>1, <1>9 DEF AccountInv
  <2>2. Recorded(disk)' = Account!Deployed(mark)
    BY <1>3, <1>5, <2>1, InRoundUnderway DEF Account!Deployed
  <2>3. Account!Settle(Account!Deployed(mark), "unchanged")
    BY <1>1, <1>3, <1>9, <2>2 DEF Account!Settle
  <2>4. Recorded(disk).cert = got
    BY <2>1 DEF Recorded
  <2>. QED BY <1>3, <1>4, <2>1, <2>3, <2>4, InRoundUnderway
    DEF Account!Next, Account!Judge
<1>. QED BY <1>2, <1>6, <1>7, <1>8, <1>9 DEF Reports

LEMMA ResultAccounted ==
  ASSUME TypeInv, SnapInv, RoundInv, AccountInv, Result
  PROVE  [Account!Next]_(Account!vars)
<1> USE DEF toolVars, Goto
<1>1. CASE AllFailed \/ AllBound \/ AllBoundUnchanged \/ SomeBound \/ AdoptionFails
  <2>1. /\ pc = "bind" /\ pc' = "result_save"
        /\ UNCHANGED <<disk, iis, got, todo, good, bad>>
    BY <1>1 DEF AllFailed, AllBound, AllBoundUnchanged, SomeBound, AdoptionFails,
      Bound, Outcome
  <2>2. Recorded(disk)' = Recorded(disk)
    BY <2>1 DEF Recorded, Closed
  <2>3. UNCHANGED Account!vars
    BY <2>1, <2>2, InRoundUnderway, InRoundUnderwayNext DEF Account!vars, InRound
  <2>. QED BY <2>3
<1>2. CASE ResultSaved
  BY <1>2, SavedAccounted
<1>3. CASE ResultSaveFails
  <2>1. /\ pc = "result_save" /\ pc' = "finish" /\ UNCHANGED <<disk, iis>>
    BY <1>3 DEF ResultSaveFails
  <2>2. Account!Stop
    BY <2>1, StopsAccounted DEF InRound
  <2>. QED BY <2>2 DEF Account!Next
<1>4. CASE Callback
  <2>1. /\ pc = "callback" /\ pc' = "finish" /\ UNCHANGED <<disk, iis>> /\ rep # "none"
    BY <1>4 DEF Callback, AccountInv
  <2>2. Recorded(disk)' = Recorded(disk)
    BY <2>1 DEF Recorded, Closed
  <2>3. Account!Report
    BY <2>1, <2>2, NoneUnderway, NoneUnderwayNext DEF Account!Report, InRound
  <2>. QED BY <2>3 DEF Account!Next
<1>5. CASE FinishSaved
  <2>1. /\ pc = "finish" /\ pc' = "idle" /\ disk' = mem /\ UNCHANGED iis
        /\ Agrees(mem) /\ (Closed(disk) => Closed(mem))
    BY <1>5 DEF FinishSaved, EndRun, AccountInv
  <2>2. CASE Closed(mem)
    <3>1. Account!Close
      BY <2>1, <2>2, ClosesAccounted DEF InRound
    <3>. QED BY <3>1 DEF Account!Next
  <2>3. CASE ~Closed(mem)
    <3>1. Closed(mem) <=> Closed(disk)
      BY <2>1, <2>3
    <3>2. Recorded(disk)' = Recorded(disk)
      BY <2>1, <3>1, SameRecord
    <3>3. Unseen
      BY <2>1, <3>2 DEF Unseen, InRound
    <3>. QED BY <3>3, UnseenStutters
  <2>. QED BY <2>2, <2>3
<1>6. CASE FinishSaveFails
  <2>1. pc = "finish" /\ pc' = "idle" /\ UNCHANGED <<disk, iis>>
    BY <1>6 DEF FinishSaveFails, EndRun
  <2>2. Recorded(disk)' = Recorded(disk)
    BY <2>1 DEF Recorded, Closed
  <2>3. Unseen
    BY <2>1, <2>2 DEF Unseen, InRound
  <2>. QED BY <2>3, UnseenStutters
<1>. QED BY <1>1, <1>2, <1>3, <1>4, <1>5, <1>6 DEF Result

LEMMA CrashAccounted ==
  ASSUME Crash
  PROVE  Account!Next
<1>1. pc' = "idle" /\ UNCHANGED disk
  BY DEF Crash, EndRun, Goto
<1>2. CASE UNCHANGED iis
  BY <1>1, <1>2, StopsAccounted DEF InRound, Account!Next
<1>3. CASE \E s \in todo, c \in {NoCert, got} :
             pc = "bind" /\ iis' = [iis EXCEPT ![s] = c]
  <2>1. Underway.todo = todo /\ Underway.cert = got
    BY <1>3, InRoundUnderway DEF InRound
  <2>2. Recorded(disk)' = Recorded(disk) /\ Underway' = Account!NoRound
    BY <1>1, NoneUnderwayNext DEF Recorded, Closed, InRound
  <2>3. Account!Stop
    BY <1>1, <1>3, <2>1, <2>2 DEF Account!Stop
  <2>. QED BY <2>3 DEF Account!Next
<1>. QED BY <1>2, <1>3 DEF Crash

LEMMA EnvironmentAccounted ==
  ASSUME Environment
  PROVE  UNCHANGED Account!vars
<1>1. UNCHANGED <<pc, toolVars, runVars>>
  BY DEF Environment, ServerReissues, ServerIssues, ServerStops, ServerRecovers,
    Age, Fault
<1>2. InRound' = InRound /\ UNCHANGED <<pc, disk, iis, got, todo, good, bad, rep>>
  BY <1>1 DEF toolVars, runVars, InRound
<1>3. Recorded(disk)' = Recorded(disk)
  BY <1>2 DEF Recorded, Closed
<1>4. Underway' = Underway
  BY <1>2, InRoundUnderway, InRoundUnderwayNext, NoneUnderway, NoneUnderwayNext
<1>. QED BY <1>2, <1>3, <1>4 DEF Account!vars

LEMMA AccountedStep ==
  ASSUME TypeInv, SnapInv, QuotaInv, RoundInv, AccountInv, [Next]_vars
  PROVE  [Account!Next]_(Account!vars)
<1>1. CASE UNCHANGED vars
  <2>1. InRound' = InRound /\ UNCHANGED <<pc, disk, iis, got, todo, good, bad, rep>>
    BY <1>1 DEF vars, toolVars, runVars, InRound
  <2>2. Recorded(disk)' = Recorded(disk)
    BY <2>1 DEF Recorded, Closed
  <2>3. Underway' = Underway
    BY <2>1, InRoundUnderway, InRoundUnderwayNext, NoneUnderway, NoneUnderwayNext
  <2>. QED BY <2>1, <2>2, <2>3 DEF Account!vars
<1>. QED BY <1>1, BeforeAccounted, QueryAccounted, AttemptAccounted,
  RoundAccounted, ResultAccounted, CrashAccounted, EnvironmentAccounted DEF Next, Run

LEMMA AccountedInit == ASSUME Init PROVE Account!Init
<1>1. PICK c \in {NoCert, 1}, F \in SUBSET Sites :
        /\ disk = Metadata0(c, F)
        /\ iis = [s \in Sites |-> IF s \in F THEN NoCert ELSE c]
  BY DEF Init
<1>2. c \in Serials \cup {NoCert}
  BY DeployAssumption DEF Serials
<1>3. disk.cert = c /\ disk.failed = F /\ ~Closed(disk) /\ ~disk.started
  BY <1>1 DEF Metadata0, Closed
<1>4. Recorded(disk) = [cert |-> c, failed |-> F, mark |-> "open"]
  BY <1>3 DEF Recorded
<1>5. pc = "idle"
  BY DEF Init
<1>6. Underway = Account!NoRound
  BY <1>5, NoneUnderway DEF InRound
<1>. QED BY <1>1, <1>2, <1>4, <1>5, <1>6 DEF Account!Init

(* DeployAttempt implements DeploySpec: bindings are touched only on a record
   that says so, what is recorded as deployed was bound, with the failures of
   that round, and what is called back is on record (persistDeployAttempt,
   finalizeSuccessfulDeployment, emitDeployCallback). *)
THEOREM AccountedForAlways == Spec => RoundsAccountedFor
<1>1. Init => Account!Init
  BY AccountedInit
<1>2. TypeInv /\ SnapInv /\ QuotaInv /\ RoundInv /\ AccountInv /\ [Next]_vars
        => [Account!Next]_(Account!vars)
  BY AccountedStep
<1>. QED BY <1>1, <1>2, TypeInvariance, SnapAlways, QuotaAlways, SitesAlways,
  AccountAlways, PTL DEF Spec, RoundsAccountedFor, Account!Spec

(***************************************************************************)
(* What HealthyServeRecorded hangs on.                                     *)
(***************************************************************************)

(* A retry of failed bindings gets the certificate the others have. *)
RetriesSame == Retry /\ got # NoCert => got = base

BaseInv == disk.cert = base

LEMMA CertOnDisk ==
  ASSUME TypeInv, SnapInv, AccountInv, [Next]_vars, ~ResultSaved
  PROVE  disk'.cert = disk.cert /\ base' = base
<1> USE DEF toolVars, histVars
<1>1. CASE UNCHANGED vars
  BY <1>1 DEF vars
<1>2. CASE Before
  BY <1>2 DEF Before, StartRun, GateExpires, GateClosed, GateOpen, RetryExhausted,
    RetryCounts, RetrySaved, SaveFails, Fault, AccountInv, Agrees
<1>3. CASE Query
  BY <1>3 DEF Query, QueryUseless, QueryStopped, QueryWaiting, RetryWaits,
    RollbackSaved, RollbackSaveFails, QueryExpired, HealthySkip, Fetch, Fault,
    AccountInv, Agrees
<1>4. CASE Attempt
  BY <1>4 DEF Attempt, AttemptOfRetry, AttemptReplays, AttemptCapped, CapSaved,
    AttemptCounts, IntentSaved, AccountInv, Agrees
<1>5. CASE Round
  BY <1>5 DEF Round, NoTarget, InstallFails, Install, BindOk, BindFails
<1>6. CASE Result
  <2>1. CASE FinishSaved
    BY <2>1 DEF FinishSaved, AccountInv, Agrees
  <2>. QED BY <1>6, <2>1 DEF Result, AllFailed, AllBound, AllBoundUnchanged,
    SomeBound, AdoptionFails, Outcome, ResultSaveFails, Callback,
    FinishSaveFails, Fault
<1>7. CASE Crash \/ Environment
  BY <1>7 DEF Crash, Environment, ServerReissues, ServerIssues, ServerStops,
    ServerRecovers, Age, Fault
<1>. QED BY <1>1, <1>2, <1>3, <1>4, <1>5, <1>6, <1>7 DEF Next, Run

LEMMA BaseStep ==
  ASSUME TypeInv, SnapInv, AccountInv, RetriesSame, BaseInv, [Next]_vars
  PROVE  BaseInv'
<1>1. CASE ~ResultSaved
  BY <1>1, CertOnDisk DEF BaseInv
<1>2. CASE ResultSaved
  <2>1. /\ pc = "result_save" /\ disk' = mem
        /\ base' = IF rep \in {"success", "partial"} /\ ~Retry THEN got ELSE base
    BY <1>2 DEF ResultSaved
  <2>2. rep \in Reports /\ got # NoCert
    BY <2>1 DEF TypeInv, TypeOK, AccountInv
  <2>3. CASE rep \in {"none", "failure"}
    BY <2>1, <2>3 DEF AccountInv, BaseInv
  <2>4. CASE rep \in {"success", "partial"}
    BY <2>1, <2>2, <2>4 DEF AccountInv, BaseInv, RetriesSame
  <2>5. CASE rep = "unchanged"
    BY <2>1, <2>5 DEF AccountInv, BaseInv
  <2>. QED BY <2>2, <2>3, <2>4, <2>5 DEF Reports
<1>. QED BY <1>1, <1>2

LEMMA BaseInit == ASSUME Init PROVE BaseInv
<1>1. \E c, F : disk = Metadata0(c, F) /\ base = c
  BY DEF Init
<1>2. ASSUME NEW c, NEW F, disk = Metadata0(c, F), base = c PROVE disk.cert = base
  <2>1. Metadata0(c, F).cert = c
    BY Zenon DEF Metadata0
  <2>. QED BY <1>2, <2>1
<1>. QED BY <1>1, <1>2 DEF BaseInv

(* The healthy bindings serve the certificate recorded as deployed as long as
   no retry of the failed ones has met a later certificate: the order having
   moved on between the failure and the retry is what the counterexample to
   HealthyServeRecorded needs, and nothing else breaks it
   (isPendingBindingTarget, updateCertMetadata). *)
THEOREM HealthyServeRecordedSame == Spec /\ []RetriesSame => []HealthyServeRecorded
<1>1. Init => BaseInv
  BY BaseInit
<1>2. TypeInv /\ SnapInv /\ AccountInv /\ RetriesSame /\ BaseInv /\ [Next]_vars
        => BaseInv'
  BY BaseStep
<1>3. HealthyServeAdopted /\ BaseInv => HealthyServeRecorded
  BY DEF HealthyServeAdopted, HealthyServeRecorded, BaseInv
<1>. QED BY <1>1, <1>2, <1>3, TypeInvariance, SnapAlways, AccountAlways,
  HealthyServeAdoptedAlways, PTL DEF Spec

===============================================================================
