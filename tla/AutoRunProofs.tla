---------------------------- MODULE AutoRunProofs ----------------------------
(***************************************************************************)
(* Theorems about AutoRun, for any number of entries, any batch size, any  *)
(* credentials, claims, renewal windows and bounds.                        *)
(***************************************************************************)
EXTENDS AutoRun, FiniteSetTheorems, WellFoundedInduction, TLAPS

-----------------------------------------------------------------------------
(* Entries, batches, documents.                                            *)

LEMMA LeastFacts ==
  ASSUME NEW S, S \subseteq Nat, S # {}
  PROVE  Least(S) \in S /\ \A d \in S : Least(S) <= d
<1>1. \E c \in S : \A d \in S : ~ (<<d, c>> \in OpToRel(<, Nat))
  BY NatLessThanWellFounded, WFMin
<1>2. PICK c \in S : \A d \in S : ~ (d < c)
  BY <1>1 DEF OpToRel
<1>3. \A d \in S : c <= d
  BY <1>2
<1> QED
  BY <1>3 DEF Least

LEMMA CertFacts ==
  /\ Certs \subseteq Nat /\ \A c \in Certs : c \in 1 .. N
  /\ IsFiniteSet(Certs) /\ Cardinality(Certs) = N
  BY AutoRunAssumption, FS_Interval DEF Certs

\* The entry being handled is one of the batch.
LEMMA NowFacts ==
  ASSUME todo \subseteq Certs, todo # {}
  PROVE  Now \in todo /\ Now \in Certs
  BY LeastFacts, CertFacts DEF Now

LEMMA SetFacts ==
  ASSUME NEW S \in SUBSET Certs
  PROVE  /\ IsFiniteSet(S) /\ Cardinality(S) \in Nat /\ Cardinality(S) <= N
         /\ \A c \in S : Cardinality(S \ {c}) = Cardinality(S) - 1
<1>1. IsFiniteSet(S) /\ Cardinality(S) <= N
  BY CertFacts, FS_Subset
<1>2. Cardinality(S) \in Nat
  BY <1>1, FS_CardinalityType
<1>3. \A c \in S : Cardinality(S \ {c}) = Cardinality(S) - 1
  BY <1>1, FS_RemoveElement
<1> QED
  BY <1>1, <1>2, <1>3

LEMMA CardinalityOfReport ==
  Cardinality({}) = 0 /\ \A x : Cardinality({x}) = 1
  BY FS_EmptySet, FS_Singleton

\* The parts of a document.
LEMMA DocFacts ==
  ASSUME NEW doc \in Docs
  PROVE  /\ doc.on \subseteq Certs /\ doc.cursor \in 0 .. Stale
         /\ doc.window \in Windows /\ doc.exp \in [Certs -> Days]
         /\ \A c \in Certs : doc.exp[c] \in Int
  BY AutoRunAssumption DEF Docs, Days

LEMMA BatchFacts ==
  ASSUME NEW doc \in Docs
  PROVE  Batch(doc) \subseteq Certs /\ NextCursor(doc) \in 0 .. N
         /\ Batch(doc) \subseteq doc.on
<1>1. Eligible(doc) \subseteq Certs
  BY DocFacts DEF Eligible
<1>2. Batch(doc) \subseteq Certs /\ Remaining(doc) \subseteq Certs
      /\ Batch(doc) \subseteq doc.on
  BY <1>1 DEF Batch, Remaining, Eligible
<1>3. Remaining(doc) # {} => Least(Remaining(doc)) \in 1 .. N
  BY <1>2, LeastFacts, CertFacts
<1> QED
  BY <1>2, <1>3, AutoRunAssumption DEF NextCursor

LEMMA TakenFacts ==
  ASSUME mem \in Docs, NEW w \in Answers, NEW moved \in BOOLEAN
  PROVE  /\ Taken(w, moved) \in Docs
         /\ Taken(w, moved).on = mem.on /\ Taken(w, moved).exp = mem.exp
<1>1. Window(w) \in Windows
  BY DocFacts DEF Window, Answers
<1> DEFINE cur == IF moved /\ mem.cursor = Now THEN Stale ELSE mem.cursor
<1>a. mem = [on |-> mem.on, cursor |-> mem.cursor, window |-> mem.window, exp |-> mem.exp]
  BY DEF Docs
<1>b. Taken(w, moved) = [mem EXCEPT !.window = Window(w), !.cursor = cur]
  BY <1>a DEF Taken
<1> HIDE DEF cur
<1>2. Taken(w, moved) = [on |-> mem.on, cursor |-> cur, window |-> Window(w), exp |-> mem.exp]
  BY <1>a, <1>b
<1>3. cur \in 0 .. Stale
  BY AutoRunAssumption DEF Stale, cur, Docs
<1> QED
  BY <1>1, <1>2, <1>3 DEF Docs

LEMMA WindowFacts ==
  ASSUME mem \in Docs, NEW w \in Answers
  PROVE  /\ [mem EXCEPT !.window = Window(w)] \in Docs
         /\ [mem EXCEPT !.window = Window(w)].on = mem.on
         /\ [mem EXCEPT !.window = Window(w)].exp = mem.exp
<1>1. Window(w) \in Windows
  BY DocFacts DEF Window, Answers
<1> QED
  BY <1>1 DEF Docs

\* A document with another expiry of one entry.
LEMMA ExpFacts ==
  ASSUME NEW doc \in Docs, NEW c \in Certs, NEW x \in Days
  PROVE  /\ [doc EXCEPT !.exp[c] = x] \in Docs
         /\ [doc EXCEPT !.exp[c] = x].on = doc.on
         /\ [doc EXCEPT !.exp[c] = x].exp[c] = x
         /\ \A d \in Certs \ {c} : [doc EXCEPT !.exp[c] = x].exp[d] = doc.exp[d]
<1>1. [doc EXCEPT !.exp[c] = x] =
        [on |-> doc.on, cursor |-> doc.cursor, window |-> doc.window,
         exp |-> [doc.exp EXCEPT ![c] = x]]
  BY DEF Docs
<1>2. [doc.exp EXCEPT ![c] = x] \in [Certs -> Days]
  BY DocFacts
<1> QED
  BY <1>1, <1>2, DocFacts DEF Docs

\* What becomes of the document when an entry is deployed, ...
LEMMA DeployedFacts ==
  ASSUME TypeOK, NEW w \in Answers, Deploys(w)
  PROVE  /\ Now \in todo /\ Now \in Certs
         /\ mem' \in Docs /\ mem'.on = mem.on /\ mem'.exp[Now] = day + Life
         /\ \A d \in Certs \ {Now} : mem'.exp[d] = mem.exp[d]
<1>1. Now \in todo /\ Now \in Certs
  BY NowFacts DEF TypeOK, Deploys, Asks
<1>2. day + Life \in Days
  BY AutoRunAssumption DEF TypeOK, Days
<1>3. PICK moved \in BOOLEAN : mem' = [Taken(w, moved) EXCEPT !.exp[Now] = day + Life]
  BY DEF Deploys
<1>4. Taken(w, moved) \in Docs /\ Taken(w, moved).on = mem.on /\ Taken(w, moved).exp = mem.exp
  BY TakenFacts DEF TypeOK
<1> QED
  BY <1>1, <1>2, <1>3, <1>4, ExpFacts

\* ... when the outcome of its deployment cannot be saved, ...
LEMMA TakenBackFacts ==
  ASSUME TypeOK, SaveCertFails
  PROVE  /\ Now \in todo /\ Now \in Certs
         /\ mem' \in Docs /\ mem'.on = mem.on /\ mem'.exp[Now] = disk.exp[Now]
         /\ \A d \in Certs \ {Now} : mem'.exp[d] = mem.exp[d]
         /\ disk' \in {disk, mem'}
<1>1. Now \in todo /\ Now \in Certs
  BY NowFacts DEF TypeOK, SaveCertFails
<1> DEFINE m == [mem EXCEPT !.cursor = disk.cursor]
<1>2. m \in Docs /\ m.on = mem.on /\ m.exp = mem.exp
  BY DocFacts DEF TypeOK, Docs
<1>3. mem' = [m EXCEPT !.exp[Now] = disk.exp[Now]]
  BY DEF SaveCertFails, TypeOK, Docs
<1>4. disk.exp[Now] \in Days
  BY <1>1, DocFacts DEF TypeOK
<1>5. disk' \in {disk, mem'}
  BY DEF SaveCertFails
<1> HIDE DEF m
<1> QED
  BY <1>1, <1>2, <1>3, <1>4, <1>5, ExpFacts

\* ... and at the end of the run.
LEMMA FinishFacts ==
  ASSUME TypeOK, Finish
  PROVE  disk' \in Docs /\ disk'.on = mem.on /\ disk'.exp = mem.exp
         /\ disk'.window = Applied
<1>1. Applied \in Windows
  BY DocFacts DEF Applied, TypeOK
<1>2. (IF next = Keep THEN mem.cursor ELSE next) \in 0 .. Stale
  BY DocFacts, AutoRunAssumption DEF TypeOK, Keep, Stale
<1>3. disk' = [on |-> mem.on, cursor |-> IF next = Keep THEN mem.cursor ELSE next,
               window |-> Applied, exp |-> mem.exp]
  BY DEF Finish, TypeOK, Docs
<1> QED
  BY <1>1, <1>2, <1>3, DocFacts DEF TypeOK, Docs

LEMMA EditFacts ==
  ASSUME TypeOK, NEW c \in Certs, Edit(c)
  PROVE  disk' \in Docs /\ mem' = disk' /\ disk'.exp = disk.exp
<1> DEFINE on == IF c \in disk.on THEN disk.on \ {c} ELSE disk.on \cup {c}
<1>1. on \in SUBSET Certs
  BY DocFacts DEF TypeOK
<1>2. disk' = [on |-> on, cursor |-> disk.cursor, window |-> disk.window, exp |-> disk.exp]
  BY DEF Edit, TypeOK, Docs
<1>3. mem' = disk'
  BY DEF Edit
<1> QED
  BY <1>1, <1>2, <1>3, DocFacts DEF TypeOK, Docs

-----------------------------------------------------------------------------
(* Types.                                                                  *)

\* The state of a run under way; between runs there is none of it.
RunInv ==
  /\ report # {} => pc = "save" /\ \E w \in Windows \cup {0} : report = {w}
  /\ sent + Cardinality(todo) <= N
  /\ pc = "idle" => /\ mem = disk /\ todo = {} /\ sent = 0 /\ out = {} /\ refused = {}
                    /\ renewSeq = 0 /\ renewDays = 0 /\ changes = {} /\ wrote = {}

TypeInv == TypeOK /\ RunInv


LEMMA TypeInit == Init => TypeInv
<1> SUFFICES ASSUME Init PROVE TypeInv
  OBVIOUS
<1>1. /\ 0 \in 0 .. Stale /\ 0 \in (0 .. N) \cup {Keep} /\ 0 \in 0 .. N /\ 0 \in 0 .. MaxDay
      /\ 0 \in 0 .. MaxEdits /\ 0 \in 0 .. MaxFaults /\ FirstExpiry \subseteq Days
  BY AutoRunAssumption DEF Stale, Days
<1>2. disk \in Docs /\ mem \in Docs
  BY <1>1 DEF Init, Docs
<1>3. TypeOK
  BY <1>1, <1>2 DEF Init, TypeOK
<1>4. RunInv
  BY CardinalityOfReport, AutoRunAssumption DEF Init, RunInv
<1> QED
  BY <1>3, <1>4 DEF TypeInv

\* What an entry leaves alone, whatever its outcome.
LEMMA HandledTypes ==
  ASSUME TypeInv, pc = "cert", Handled, mem' \in Docs,
         blocked' \subseteq {Key(c) : c \in Certs},
         report' = report \/ \E w \in Answers : report' = {w},
         refused' \subseteq Certs, skipped' \subseteq Certs,
         wrote' \subseteq Endpoints \X Certs
  PROVE  TypeInv'
<1>1. /\ pc' = "save" /\ turn' = 0
      /\ UNCHANGED <<disk, todo, next, sent, out, renewSeq, renewDays, changes, day, edits, since, faults>>
  BY DEF Handled, Goto, batchVars, callVars, envVars
<1>2. todo # {} /\ 0 \in 0 .. N
  BY AutoRunAssumption DEF TypeInv, TypeOK
<1>3. report = {}
  BY DEF TypeInv, RunInv
<1>4. report' \subseteq Windows \cup {0} /\ (report' # {} => \E w \in Windows \cup {0} : report' = {w})
  BY <1>3 DEF Answers
<1>5. TypeOK'
  BY <1>1, <1>2, <1>4 DEF TypeInv, TypeOK
<1>6. RunInv'
  BY <1>1, <1>4 DEF TypeInv, RunInv
<1> QED
  BY <1>5, <1>6 DEF TypeInv

\* The run goes on with the next entry.
LEMMA NextTypes ==
  ASSUME TypeInv, pc = "save", NextEntry, mem' \in Docs, disk' \in Docs,
         since' \in [Certs -> SUBSET Certs], faults' \in 0 .. MaxFaults,
         sent' \in {sent, sent + Cardinality(report)},
         out' \subseteq out \cup {[seq |-> sent + 1, before |-> w] : w \in report}
  PROVE  TypeInv'
<1>1. Now \in todo /\ Now \in Certs
  BY NowFacts DEF TypeInv, TypeOK
<1>2. /\ todo' = todo \ {Now} /\ pc' \in {"cert", "finish"} /\ (pc' = "cert" => todo' # {})
      /\ turn' = Now /\ report' = {}
      /\ UNCHANGED <<next, wrote, renewSeq, renewDays, changes, day, edits, blocked, refused, skipped>>
  BY DEF NextEntry, Goto, envVars, gateVars
<1>3. Cardinality(todo') = Cardinality(todo) - 1 /\ Cardinality(todo) \in Nat /\ Cardinality(todo') \in Nat
  BY <1>1, <1>2, SetFacts DEF TypeInv, TypeOK
<1>4. Cardinality(report) \in {0, 1}
  BY CardinalityOfReport DEF TypeInv, RunInv
<1>5. sent' \in 0 .. N /\ sent' + Cardinality(todo') <= N /\ sent + 1 \in 1 .. N
  BY <1>3, <1>4, AutoRunAssumption DEF TypeInv, TypeOK, RunInv
<1>6. out' \subseteq Callbacks
  BY <1>5 DEF TypeInv, TypeOK, Callbacks
<1>7. turn' \in 0 .. N
  BY <1>1, <1>2, CertFacts, AutoRunAssumption
<1>8. TypeOK'
  BY <1>2, <1>5, <1>6, <1>7 DEF TypeInv, TypeOK
<1>9. RunInv'
  BY <1>2, <1>5 DEF RunInv
<1> QED
  BY <1>8, <1>9 DEF TypeInv

\* The process ends.
LEMMA EndTypes ==
  ASSUME TypeInv, ProcessEnds, disk' \in Docs,
         since' \in [Certs -> SUBSET Certs], faults' \in 0 .. MaxFaults
  PROVE  TypeInv'
<1>1. 0 \in 0 .. N /\ 0 \in (0 .. N) \cup {Keep}
  BY AutoRunAssumption
<1>2. TypeOK'
  BY <1>1 DEF TypeInv, TypeOK, ProcessEnds, Goto, envVars
<1>3. RunInv'
  BY CardinalityOfReport, AutoRunAssumption DEF ProcessEnds, Goto, RunInv
<1> QED
  BY <1>2, <1>3 DEF TypeInv


\* Every step keeps the types and the state of the run.
LEMMA TypeStep == TypeInv /\ [Next]_vars => TypeInv'
<1> SUFFICES ASSUME TypeInv, [Next]_vars PROVE TypeInv'
  OBVIOUS
<1> USE AutoRunAssumption, CardinalityOfReport
<1>1. ASSUME StartRun PROVE TypeInv'
  <2>1. /\ mem' = disk /\ todo' = Batch(disk) /\ next' = NextCursor(disk)
        /\ pc' = IF Batch(disk) = {} THEN "finish" ELSE "cert"
        /\ turn' = 0 /\ pc = "idle"
        /\ UNCHANGED <<disk, report, wrote, sent, out, renewSeq, renewDays, changes,
                       blocked, refused, skipped, since, faults, day, edits>>
    BY <1>1 DEF StartRun, Goto, entryVars, callVars, gateVars, envVars
  <2>2. disk \in Docs /\ 0 \in 0 .. N
    BY AutoRunAssumption DEF TypeInv, TypeOK
  <2>3. Batch(disk) \in SUBSET Certs /\ NextCursor(disk) \in 0 .. N
    BY <2>2, BatchFacts
  <2>4. Cardinality(Batch(disk)) <= N /\ Cardinality(Batch(disk)) \in Nat
    BY <2>3, SetFacts
  <2>5. TypeOK'
    BY <2>1, <2>2, <2>3 DEF TypeInv, TypeOK
  <2>6. report = {} /\ sent = 0
    BY <2>1 DEF TypeInv, RunInv
  <2>7. sent' + Cardinality(todo') <= N
    BY <2>1, <2>4, <2>6
  <2>8. pc' # "idle" /\ report' = {}
    BY <2>1, <2>6
  <2>9. RunInv'
    BY <2>7, <2>8 DEF RunInv
  <2> QED
    BY <2>5, <2>9 DEF TypeInv
<1>2. ASSUME NEW c \in Certs, StartOne(c) PROVE TypeInv'
  <2>1. /\ mem' = disk /\ todo' = {c} /\ next' = Keep /\ pc' = "cert"
        /\ turn' = 0 /\ pc = "idle" /\ edits < MaxEdits /\ edits' = edits + 1
        /\ since' = [d \in Certs |-> {}]
        /\ UNCHANGED <<disk, report, wrote, sent, out, renewSeq, renewDays, changes,
                       blocked, refused, skipped, faults, day>>
    BY <1>2 DEF StartOne, Goto, entryVars, callVars, gateVars, Forgive
  <2>2. 0 \in 0 .. N /\ edits' \in 0 .. MaxEdits
    BY <2>1, AutoRunAssumption DEF TypeInv, TypeOK
  <2>3. TypeOK'
    BY <2>1, <2>2 DEF TypeInv, TypeOK
  <2>4. report = {} /\ sent = 0
    BY <2>1 DEF TypeInv, RunInv
  <2>5. sent' + Cardinality(todo') <= N
    <3>1. Cardinality({c}) = 1
      BY CardinalityOfReport
    <3> QED
      BY <2>1, <2>4, <3>1, AutoRunAssumption
  <2>6. RunInv'
    BY <2>1, <2>4, <2>5 DEF RunInv
  <2> QED
    BY <2>3, <2>6 DEF TypeInv
<1>3. ASSUME GateClosed PROVE TypeInv'
  BY <1>3, HandledTypes DEF GateClosed, TypeInv, TypeOK, entryVars, gateVars
<1>4. ASSUME GateSkips PROVE TypeInv'
  <2>1. pc = "cert" /\ Handled /\ UNCHANGED <<mem, report, wrote, blocked, refused>>
    BY <1>4 DEF GateSkips, Asks, entryVars
  <2>2. Now \in Certs
    BY <2>1, NowFacts DEF TypeInv, TypeOK
  <2>3. /\ blocked' \subseteq {Key(c) : c \in Certs}
        /\ refused' \subseteq Certs /\ skipped' \subseteq Certs
    BY <1>4, <2>2 DEF GateSkips, TypeInv, TypeOK
  <2> QED
    BY <2>1, <2>3, HandledTypes DEF TypeInv, TypeOK
<1>5. ASSUME Refused PROVE TypeInv'
  <2>1. pc = "cert" /\ Handled /\ UNCHANGED <<mem, report, wrote, skipped>>
    BY <1>5 DEF Refused, Asks, entryVars
  <2>2. Now \in Certs
    BY <2>1, NowFacts DEF TypeInv, TypeOK
  <2>3. /\ blocked' \subseteq {Key(c) : c \in Certs}
        /\ refused' \subseteq Certs /\ skipped' \subseteq Certs
    BY <1>5, <2>2 DEF Refused, TypeInv, TypeOK
  <2> QED
    BY <2>1, <2>3, HandledTypes DEF TypeInv, TypeOK
<1>6. ASSUME Unanswered PROVE TypeInv'
  BY <1>6, HandledTypes DEF Unanswered, Asks, TypeInv, TypeOK, entryVars, gateVars
<1>7. ASSUME NEW w \in Answers, NothingNew(w) PROVE TypeInv'
  <2>1. mem' \in Docs
    BY <1>7, WindowFacts DEF NothingNew, TypeInv, TypeOK
  <2> QED
    BY <1>7, <2>1, HandledTypes DEF NothingNew, Asks, TypeInv, TypeOK, entryVars, gateVars
<1>8. ASSUME NEW w \in Answers, Deploys(w) PROVE TypeInv'
  <2>1. mem' \in Docs /\ Now \in Certs
    BY <1>8, DeployedFacts DEF TypeInv
  <2>2. \A e \in Targets(Now) : e \in Endpoints
    BY <2>1, AutoRunAssumption DEF Targets
  <2>3. wrote' \subseteq Endpoints \X Certs
    BY <1>8, <2>1, <2>2 DEF Deploys, TypeInv, TypeOK
  <2>4. pc = "cert" /\ Handled /\ report' = {w} /\ UNCHANGED <<blocked, refused, skipped>>
    BY <1>8 DEF Deploys, Asks, gateVars
  <2> QED
    BY <2>1, <2>3, <2>4, HandledTypes DEF TypeInv, TypeOK
<1>9. ASSUME NEW w \in Answers, DeployFails(w) PROVE TypeInv'
  <2>1. mem' \in Docs
    BY <1>9, TakenFacts DEF DeployFails, TypeInv, TypeOK
  <2>2. pc = "cert" /\ Handled /\ report' = {w} /\ UNCHANGED <<wrote, blocked, refused, skipped>>
    BY <1>9 DEF DeployFails, Asks, gateVars
  <2> QED
    BY <2>1, <2>2, HandledTypes DEF TypeInv, TypeOK
<1>10. ASSUME SaveCert PROVE TypeInv'
  <2>1. Now \in Certs
    BY <1>10, NowFacts DEF SaveCert, TypeInv, TypeOK
  <2>2. since' \in [Certs -> SUBSET Certs]
    BY <1>10, <2>1 DEF SaveCert, Forgive, TypeInv, TypeOK
  <2>3. /\ sent' = sent + Cardinality(report)
        /\ out' \subseteq out \cup {[seq |-> sent + 1, before |-> w] : w \in report}
    BY <1>10 DEF SaveCert, SendCallback
  <2> QED
    BY <1>10, <2>2, <2>3, NextTypes DEF SaveCert, TypeInv, TypeOK
<1>11. ASSUME SaveCertFails PROVE TypeInv'
  <2>1. mem' \in Docs /\ disk' \in Docs
    BY <1>11, TakenBackFacts DEF TypeInv, TypeOK
  <2>2. /\ pc = "save" /\ NextEntry /\ sent' = sent /\ out' = out
        /\ since' = [c \in Certs |-> {}] /\ faults < MaxFaults /\ faults' = faults + 1
    BY <1>11 DEF SaveCertFails, Forgive
  <2>3. faults' \in 0 .. MaxFaults
    BY <2>2, AutoRunAssumption DEF TypeInv, TypeOK
  <2> QED
    BY <2>1, <2>2, <2>3, NextTypes
<1>12. ASSUME Finish PROVE TypeInv'
  BY <1>12, FinishFacts, EndTypes DEF Finish, TypeInv, TypeOK
<1>13. ASSUME FinishSaveFails PROVE TypeInv'
  <2>1. faults' \in 0 .. MaxFaults
    BY <1>13, AutoRunAssumption DEF FinishSaveFails, TypeInv, TypeOK
  <2>2. since' \in [Certs -> SUBSET Certs]
    BY <1>13 DEF FinishSaveFails, Forgive
  <2> QED
    BY <1>13, <2>1, <2>2, EndTypes DEF FinishSaveFails, TypeInv, TypeOK
<1>14. ASSUME Crash PROVE TypeInv'
  <2>1. faults' \in 0 .. MaxFaults
    BY <1>14, AutoRunAssumption DEF Crash, TypeInv, TypeOK
  <2>2. since' \in [Certs -> SUBSET Certs]
    BY <1>14 DEF Crash, Forgive
  <2> QED
    BY <1>14, <2>1, <2>2, EndTypes DEF Crash, TypeInv, TypeOK
<1>15. ASSUME NEW cb \in out, CallbackEnds(cb) PROVE TypeInv'
  BY <1>15 DEF TypeInv, TypeOK, RunInv, CallbackEnds, docVars, batchVars,
     callVars, entryVars, envVars, gateVars, runHist, Goto, Quiet
<1>16. ASSUME NEW cb \in out, NEW w \in Windows, CallbackChanges(cb, w) PROVE TypeInv'
  <2>1. /\ out' = out \ {cb} /\ changes' = changes \cup {<<cb.seq, w>>} /\ turn' = 0
        /\ renewSeq' \in {renewSeq, cb.seq} /\ renewDays' \in {renewDays, w}
        /\ UNCHANGED <<pc, disk, mem, todo, next, report, wrote, sent, day, edits,
                       blocked, refused, skipped, since, faults>>
    BY <1>16 DEF CallbackChanges, Quiet, docVars, batchVars, entryVars, envVars, gateVars
  <2>2. cb.seq \in 1 .. N /\ 0 \in 0 .. N
    BY <1>16, AutoRunAssumption DEF TypeInv, TypeOK, Callbacks
  <2>3. TypeOK'
    BY <2>1, <2>2 DEF TypeInv, TypeOK
  <2>4. pc # "idle"
    BY <1>16 DEF TypeInv, RunInv
  <2>5. RunInv'
    BY <2>1, <2>4 DEF TypeInv, RunInv
  <2> QED
    BY <2>3, <2>5 DEF TypeInv
<1>17. ASSUME NextDay PROVE TypeInv'
  BY <1>17 DEF TypeInv, TypeOK, RunInv, NextDay, docVars, batchVars, callVars,
     entryVars, envVars, gateVars, runHist, Goto, Between
<1>18. ASSUME NEW c \in Certs, Edit(c) PROVE TypeInv'
  <2>1. disk' \in Docs /\ mem' = disk'
    BY <1>18, EditFacts DEF TypeInv
  <2>2. /\ since' = [d \in Certs |-> {}] /\ edits < MaxEdits /\ edits' = edits + 1
        /\ UNCHANGED <<pc, todo, next, report, wrote, sent, out, renewSeq, renewDays,
                       changes, blocked, refused, skipped, day, faults>> /\ turn' = 0
    BY <1>18 DEF Edit, Between, Forgive, batchVars, entryVars, callVars, gateVars
  <2>3. edits' \in 0 .. MaxEdits /\ 0 \in 0 .. N
    BY <2>2, AutoRunAssumption DEF TypeInv, TypeOK
  <2>4. TypeOK'
    BY <2>1, <2>2, <2>3 DEF TypeInv, TypeOK
  <2>5. RunInv'
    BY <2>1, <2>2 DEF TypeInv, RunInv
  <2> QED
    BY <2>4, <2>5 DEF TypeInv
<1>19. CASE UNCHANGED vars
  BY <1>19 DEF TypeInv, TypeOK, RunInv, vars, docVars, batchVars, callVars,
     entryVars, envVars, gateVars, runHist, Goto
<1> QED
  BY <1>1, <1>2, <1>3, <1>4, <1>5, <1>6, <1>7, <1>8, <1>9, <1>10, <1>11, <1>12,
     <1>13, <1>14, <1>15, <1>16, <1>17, <1>18, <1>19
     DEF Next, Run, Faulty, Entry, CallbackStep

LEMMA TypeAlways == Spec => []TypeInv
  BY TypeInit, TypeStep, PTL DEF Spec

\* Every variable keeps its type: the document, the batch, the callbacks sent and
\* not answered, and what is remembered of the run.
THEOREM TypeCorrect == Spec => []TypeOK
  BY TypeAlways, PTL DEF TypeInv

-----------------------------------------------------------------------------
(* Refused credentials.                                                    *)

\* The gate knows the credentials that were refused, no more and no fewer.
GateInv ==
  /\ blocked = {Cred[d] : d \in refused}
  /\ RefusedOnce /\ OthersStillAsked

\* Every step keeps the gate and the refusals in agreement.
LEMMA GateStep == TypeInv /\ GateInv /\ [Next]_vars => GateInv'
<1> SUFFICES ASSUME TypeInv, GateInv, [Next]_vars PROVE GateInv'
  OBVIOUS
<1>1. ASSUME StartRun PROVE GateInv'
  BY <1>1 DEF GateInv, RefusedOnce, OthersStillAsked, StartRun, docVars,
     batchVars, callVars, entryVars, envVars, gateVars, runHist, Goto
<1>2. ASSUME NEW c \in Certs, StartOne(c) PROVE GateInv'
  BY <1>2 DEF GateInv, RefusedOnce, OthersStillAsked, StartOne, docVars,
     batchVars, callVars, entryVars, envVars, gateVars, runHist, Goto, Forgive
<1>3. ASSUME GateClosed PROVE GateInv'
  BY <1>3 DEF GateInv, RefusedOnce, OthersStillAsked, GateClosed, docVars,
     batchVars, callVars, entryVars, envVars, gateVars, runHist, Goto, Handled
<1>4. ASSUME GateSkips PROVE GateInv'
  <2>1. Now \in Certs /\ Key(Now) = Cred[Now]
    BY <1>4, NowFacts DEF GateSkips, Asks, TypeInv, TypeOK, Key
  <2> QED
    BY <1>4, <2>1 DEF GateSkips, Asks, GateInv, RefusedOnce, OthersStillAsked, entryVars
<1>5. ASSUME Refused PROVE GateInv'
  <2>1. Now \in Certs /\ Key(Now) = Cred[Now]
    BY <1>5, NowFacts DEF Refused, Asks, TypeInv, TypeOK, Key
  <2> QED
    BY <1>5, <2>1 DEF Refused, Asks, GateInv, RefusedOnce, OthersStillAsked, entryVars
<1>6. ASSUME Unanswered PROVE GateInv'
  BY <1>6 DEF GateInv, RefusedOnce, OthersStillAsked, Unanswered, docVars,
     batchVars, callVars, entryVars, envVars, gateVars, runHist, Goto, Handled,
     Asks
<1>7. ASSUME NEW w \in Answers, NothingNew(w) PROVE GateInv'
  BY <1>7 DEF GateInv, RefusedOnce, OthersStillAsked, NothingNew, docVars,
     batchVars, callVars, entryVars, envVars, gateVars, runHist, Goto, Handled,
     Asks
<1>8. ASSUME NEW w \in Answers, Deploys(w) PROVE GateInv'
  BY <1>8 DEF GateInv, RefusedOnce, OthersStillAsked, Deploys, docVars,
     batchVars, callVars, entryVars, envVars, gateVars, runHist, Goto, Handled,
     Asks
<1>9. ASSUME NEW w \in Answers, DeployFails(w) PROVE GateInv'
  BY <1>9 DEF GateInv, RefusedOnce, OthersStillAsked, DeployFails, docVars,
     batchVars, callVars, entryVars, envVars, gateVars, runHist, Goto, Handled,
     Asks
<1>10. ASSUME SaveCert PROVE GateInv'
  BY <1>10 DEF GateInv, RefusedOnce, OthersStillAsked, SaveCert, docVars,
     batchVars, callVars, entryVars, envVars, gateVars, runHist, Goto,
     NextEntry, SendCallback, Forgive
<1>11. ASSUME SaveCertFails PROVE GateInv'
  BY <1>11 DEF GateInv, RefusedOnce, OthersStillAsked, SaveCertFails, docVars,
     batchVars, callVars, entryVars, envVars, gateVars, runHist, Goto,
     NextEntry, Forgive
<1>12. ASSUME Finish PROVE GateInv'
  BY <1>12 DEF GateInv, RefusedOnce, OthersStillAsked, Finish, docVars,
     batchVars, callVars, entryVars, envVars, gateVars, runHist, Goto,
     ProcessEnds, WaitCallbacks
<1>13. ASSUME FinishSaveFails PROVE GateInv'
  BY <1>13 DEF GateInv, RefusedOnce, OthersStillAsked, FinishSaveFails, docVars,
     batchVars, callVars, entryVars, envVars, gateVars, runHist, Goto,
     ProcessEnds, WaitCallbacks, Forgive
<1>14. ASSUME Crash PROVE GateInv'
  BY <1>14 DEF GateInv, RefusedOnce, OthersStillAsked, Crash, docVars,
     batchVars, callVars, entryVars, envVars, gateVars, runHist, Goto,
     ProcessEnds, Forgive
<1>15. ASSUME NEW cb \in out, CallbackEnds(cb) PROVE GateInv'
  BY <1>15 DEF GateInv, RefusedOnce, OthersStillAsked, CallbackEnds, docVars,
     batchVars, callVars, entryVars, envVars, gateVars, runHist, Goto, Quiet
<1>16. ASSUME NEW cb \in out, NEW w \in Windows, CallbackChanges(cb, w) PROVE GateInv'
  BY <1>16 DEF GateInv, RefusedOnce, OthersStillAsked, CallbackChanges, docVars,
     batchVars, callVars, entryVars, envVars, gateVars, runHist, Goto, Quiet,
     Records
<1>17. ASSUME NextDay PROVE GateInv'
  BY <1>17 DEF GateInv, RefusedOnce, OthersStillAsked, NextDay, docVars,
     batchVars, callVars, entryVars, envVars, gateVars, runHist, Goto, Between
<1>18. ASSUME NEW c \in Certs, Edit(c) PROVE GateInv'
  BY <1>18 DEF GateInv, RefusedOnce, OthersStillAsked, Edit, docVars, batchVars,
     callVars, entryVars, envVars, gateVars, runHist, Goto, Between, Forgive
<1>19. CASE UNCHANGED vars
  BY <1>19 DEF GateInv, RefusedOnce, OthersStillAsked, vars, docVars, batchVars,
     callVars, entryVars, envVars, gateVars, runHist, Goto
<1> QED
  BY <1>1, <1>2, <1>3, <1>4, <1>5, <1>6, <1>7, <1>8, <1>9, <1>10, <1>11, <1>12,
     <1>13, <1>14, <1>15, <1>16, <1>17, <1>18, <1>19
     DEF Next, Run, Faulty, Entry, CallbackStep

LEMMA GateAlways == Spec => []GateInv
<1>1. Init => GateInv
  BY DEF Init, GateInv, RefusedOnce, OthersStillAsked
<1> QED
  BY <1>1, TypeAlways, GateStep, PTL DEF Spec

\* A server that refuses a credential is not asked with it again in this run.
THEOREM RefusedOnceAlways == Spec => []RefusedOnce
  BY GateAlways, PTL DEF GateInv

\* An entry is passed over only when its own credential was refused in this run.
THEOREM OthersStillAskedAlways == Spec => []OthersStillAsked
  BY GateAlways, PTL DEF GateInv

-----------------------------------------------------------------------------
(* The renewal window the callbacks leave.                                 *)

\* The window that is kept is that of the latest callback that changed it.
CallbackInv ==
  /\ changes = {} => renewSeq = 0 /\ renewDays = 0
  /\ changes # {} => <<renewSeq, renewDays>> \in changes
  /\ \A x \in changes : x[1] <= renewSeq

\* Every step keeps the latest change.
LEMMA LatestStep == TypeInv /\ CallbackInv /\ [Next]_vars => CallbackInv'
<1> SUFFICES ASSUME TypeInv, CallbackInv, [Next]_vars PROVE CallbackInv'
  OBVIOUS
<1>1. ASSUME StartRun PROVE CallbackInv'
  BY <1>1 DEF CallbackInv, StartRun, docVars, batchVars, callVars, entryVars,
     envVars, gateVars, runHist, Goto
<1>2. ASSUME NEW c \in Certs, StartOne(c) PROVE CallbackInv'
  BY <1>2 DEF CallbackInv, StartOne, docVars, batchVars, callVars, entryVars,
     envVars, gateVars, runHist, Goto, Forgive
<1>3. ASSUME GateClosed PROVE CallbackInv'
  BY <1>3 DEF CallbackInv, GateClosed, docVars, batchVars, callVars, entryVars,
     envVars, gateVars, runHist, Goto, Handled
<1>4. ASSUME GateSkips PROVE CallbackInv'
  BY <1>4 DEF CallbackInv, GateSkips, docVars, batchVars, callVars, entryVars,
     envVars, gateVars, runHist, Goto, Handled
<1>5. ASSUME Refused PROVE CallbackInv'
  BY <1>5 DEF CallbackInv, Refused, docVars, batchVars, callVars, entryVars,
     envVars, gateVars, runHist, Goto, Handled, Asks
<1>6. ASSUME Unanswered PROVE CallbackInv'
  BY <1>6 DEF CallbackInv, Unanswered, docVars, batchVars, callVars, entryVars,
     envVars, gateVars, runHist, Goto, Handled, Asks
<1>7. ASSUME NEW w \in Answers, NothingNew(w) PROVE CallbackInv'
  BY <1>7 DEF CallbackInv, NothingNew, docVars, batchVars, callVars, entryVars,
     envVars, gateVars, runHist, Goto, Handled, Asks
<1>8. ASSUME NEW w \in Answers, Deploys(w) PROVE CallbackInv'
  BY <1>8 DEF CallbackInv, Deploys, docVars, batchVars, callVars, entryVars,
     envVars, gateVars, runHist, Goto, Handled, Asks
<1>9. ASSUME NEW w \in Answers, DeployFails(w) PROVE CallbackInv'
  BY <1>9 DEF CallbackInv, DeployFails, docVars, batchVars, callVars, entryVars,
     envVars, gateVars, runHist, Goto, Handled, Asks
<1>10. ASSUME SaveCert PROVE CallbackInv'
  BY <1>10 DEF CallbackInv, SaveCert, docVars, batchVars, callVars, entryVars,
     envVars, gateVars, runHist, Goto, NextEntry, SendCallback, Forgive
<1>11. ASSUME SaveCertFails PROVE CallbackInv'
  BY <1>11 DEF CallbackInv, SaveCertFails, docVars, batchVars, callVars,
     entryVars, envVars, gateVars, runHist, Goto, NextEntry, Forgive
<1>12. ASSUME Finish PROVE CallbackInv'
  BY <1>12 DEF CallbackInv, Finish, docVars, batchVars, callVars, entryVars,
     envVars, gateVars, runHist, Goto, ProcessEnds, WaitCallbacks
<1>13. ASSUME FinishSaveFails PROVE CallbackInv'
  BY <1>13 DEF CallbackInv, FinishSaveFails, docVars, batchVars, callVars,
     entryVars, envVars, gateVars, runHist, Goto, ProcessEnds, WaitCallbacks,
     Forgive
<1>14. ASSUME Crash PROVE CallbackInv'
  BY <1>14 DEF CallbackInv, Crash, docVars, batchVars, callVars, entryVars,
     envVars, gateVars, runHist, Goto, ProcessEnds, Forgive
<1>15. ASSUME NEW cb \in out, CallbackEnds(cb) PROVE CallbackInv'
  BY <1>15 DEF CallbackInv, CallbackEnds, docVars, batchVars, callVars,
     entryVars, envVars, gateVars, runHist, Goto, Quiet
<1>16. ASSUME NEW cb \in out, NEW w \in Windows, CallbackChanges(cb, w) PROVE CallbackInv'
  <2>1. /\ changes' = changes \cup {<<cb.seq, w>>}
        /\ IF cb.seq >= renewSeq THEN renewSeq' = cb.seq /\ renewDays' = w
                                 ELSE UNCHANGED <<renewSeq, renewDays>>
    BY <1>16 DEF CallbackChanges, Records
  <2>2. cb.seq \in Nat /\ renewSeq \in Nat /\ \A x \in changes : x[1] \in Nat
    BY <1>16 DEF TypeInv, TypeOK, Callbacks
  <2>3. CASE cb.seq >= renewSeq
    BY <2>1, <2>2, <2>3 DEF CallbackInv
  <2>4. CASE ~ (cb.seq >= renewSeq)
    <3>1. changes # {} /\ cb.seq <= renewSeq
      BY <2>2, <2>4 DEF CallbackInv
    <3> QED
      BY <2>1, <2>4, <3>1 DEF CallbackInv
  <2> QED
    BY <2>3, <2>4
<1>17. ASSUME NextDay PROVE CallbackInv'
  BY <1>17 DEF CallbackInv, NextDay, docVars, batchVars, callVars, entryVars,
     envVars, gateVars, runHist, Goto, Between
<1>18. ASSUME NEW c \in Certs, Edit(c) PROVE CallbackInv'
  BY <1>18 DEF CallbackInv, Edit, docVars, batchVars, callVars, entryVars,
     envVars, gateVars, runHist, Goto, Between, Forgive
<1>19. CASE UNCHANGED vars
  BY <1>19 DEF CallbackInv, vars, docVars, batchVars, callVars, entryVars,
     envVars, gateVars, runHist, Goto
<1> QED
  BY <1>1, <1>2, <1>3, <1>4, <1>5, <1>6, <1>7, <1>8, <1>9, <1>10, <1>11, <1>12,
     <1>13, <1>14, <1>15, <1>16, <1>17, <1>18, <1>19
     DEF Next, Run, Faulty, Entry, CallbackStep

LEMMA LatestAlways == Spec => []CallbackInv
<1>1. Init => CallbackInv
  BY DEF Init, CallbackInv
<1> QED
  BY <1>1, TypeAlways, LatestStep, PTL DEF Spec

\* The window a run leaves is that of the latest callback that changed it,
\* whatever the order in which the answers came.
THEOREM LatestCallbackWinsAlways == Spec => LatestCallbackWins
<1> DEFINE Latest == pc = "finish" /\ disk' # disk /\ changes # {} =>
              \E x \in changes : disk'.window = x[2] /\ \A y \in changes : y[1] <= x[1]
<1>1. TypeInv /\ CallbackInv /\ [Next]_vars => [Latest]_vars
  <2> SUFFICES ASSUME TypeInv, CallbackInv, Next, pc = "finish", disk' # disk, changes # {}
               PROVE  \E x \in changes : disk'.window = x[2] /\ \A y \in changes : y[1] <= x[1]
    OBVIOUS
  <2>1. Finish
    <3>1. ~ Entry
      BY DEF Entry, GateClosed, GateSkips, Refused, Unanswered, NothingNew, Deploys,
        DeployFails, Asks
    <3>2. ~ StartRun /\ ~ SaveCert /\ ~ NextDay /\ ~ \E c \in Certs : Edit(c) \/ StartOne(c)
      BY DEF StartRun, SaveCert, NextDay, Edit, StartOne, Between
    <3>3. ~ Faulty /\ ~ CallbackStep
      BY DEF Faulty, SaveCertFails, FinishSaveFails, Crash, CallbackStep, CallbackEnds,
        CallbackChanges, Quiet, docVars
    <3> QED
      BY <3>1, <3>2, <3>3 DEF Next, Run
  <2>2. disk'.window = Applied
    BY <2>1, FinishFacts DEF TypeInv
  <2>3. <<renewSeq, renewDays>> \in changes
    BY DEF CallbackInv
  <2>4. renewDays # 0
    BY <2>3, AutoRunAssumption DEF TypeInv, TypeOK
  <2>5. disk'.window = renewDays
    BY <2>2, <2>4 DEF Applied
  <2> QED
    BY <2>3, <2>5 DEF CallbackInv
<1>2. LatestCallbackWins <=> [][Latest]_vars
  BY DEF LatestCallbackWins
<1> HIDE DEF Latest
<1> QED
  BY <1>1, <1>2, TypeAlways, LatestAlways, PTL DEF Spec


-----------------------------------------------------------------------------
(* Contested endpoints.                                                    *)

\* A certificate expires within its life, and only the entry being handled has
\* another expiry in memory than on disk.
ExpInv ==
  /\ \A c \in Certs : mem.exp[c] <= day + Life /\ disk.exp[c] <= day + Life
  /\ \A c \in Certs : mem.exp[c] = disk.exp[c] \/ (pc = "save" /\ c = Now)

Waiting == IF pc = "save" THEN todo \ {Now} ELSE todo

\* With expiry x, c goes before d.
Beats(x, c, d) == x > mem.exp[d] \/ (x = mem.exp[d] /\ Order[c] > Order[d])

\* Who has written an endpoint has had its turn, and goes before every claimant
\* still to come, also should its new expiry be taken back.
WriterInv ==
  /\ todo \subseteq mem.on
  /\ \A e \in Endpoints, c \in Certs : <<e, c>> \in wrote =>
       /\ c \in mem.on /\ e \in Claims[c] /\ c \notin Waiting
       /\ \A d \in Waiting \cap Claimants(e) :
            Beats(mem.exp[c], c, d) /\ Beats(disk.exp[c], c, d)
       /\ \A d \in Certs : <<e, d>> \in wrote => c = d

LEMMA OrderFacts ==
  /\ \A c \in Certs : Order[c] \in Nat
  /\ Life \in Nat /\ \A c \in Certs : Claims[c] \subseteq Endpoints
  BY AutoRunAssumption


\* Every step keeps the expiries in step.
LEMMA ExpStep == TypeInv /\ ExpInv /\ [Next]_vars => ExpInv'
<1> SUFFICES ASSUME TypeInv, ExpInv, [Next]_vars PROVE ExpInv'
  OBVIOUS
<1> USE DEF Now
<1>1. ASSUME StartRun PROVE ExpInv'
  BY <1>1 DEF ExpInv, StartRun, docVars, batchVars, callVars, entryVars,
     envVars, gateVars, runHist, Goto
<1>2. ASSUME NEW c \in Certs, StartOne(c) PROVE ExpInv'
  BY <1>2 DEF ExpInv, StartOne, docVars, batchVars, callVars, entryVars,
     envVars, gateVars, runHist, Goto, Forgive
<1>3. ASSUME GateClosed PROVE ExpInv'
  <2>1. pc = "cert" /\ pc' = "save" /\ UNCHANGED <<disk, todo, day>> /\ mem'.exp = mem.exp
    BY <1>3 DEF GateClosed, Handled, Goto, batchVars, envVars, TypeInv, TypeOK
  <2> QED
    BY <2>1 DEF ExpInv
<1>4. ASSUME GateSkips PROVE ExpInv'
  <2>1. pc = "cert" /\ pc' = "save" /\ UNCHANGED <<disk, todo, day>> /\ mem'.exp = mem.exp
    BY <1>4 DEF GateSkips, Handled, Goto, batchVars, envVars, TypeInv, TypeOK
  <2> QED
    BY <2>1 DEF ExpInv
<1>5. ASSUME Refused PROVE ExpInv'
  <2>1. pc = "cert" /\ pc' = "save" /\ UNCHANGED <<disk, todo, day>> /\ mem'.exp = mem.exp
    BY <1>5 DEF Refused, Handled, Goto, batchVars, envVars, TypeInv, TypeOK, Asks
  <2> QED
    BY <2>1 DEF ExpInv
<1>6. ASSUME Unanswered PROVE ExpInv'
  <2>1. pc = "cert" /\ pc' = "save" /\ UNCHANGED <<disk, todo, day>> /\ mem'.exp = mem.exp
    BY <1>6 DEF Unanswered, Handled, Goto, batchVars, envVars, TypeInv, TypeOK, Asks
  <2> QED
    BY <2>1 DEF ExpInv
<1>7. ASSUME NEW w \in Answers, NothingNew(w) PROVE ExpInv'
  <2>1. pc = "cert" /\ pc' = "save" /\ UNCHANGED <<disk, todo, day>> /\ mem'.exp = mem.exp
    BY <1>7, WindowFacts DEF NothingNew, Handled, Goto, batchVars, envVars, TypeInv, TypeOK, Asks
  <2> QED
    BY <2>1 DEF ExpInv
<1>8. ASSUME NEW w \in Answers, Deploys(w) PROVE ExpInv'
  <2>1. /\ Now \in Certs /\ mem'.exp[Now] = day + Life
        /\ \A d \in Certs \ {Now} : mem'.exp[d] = mem.exp[d]
    BY <1>8, DeployedFacts DEF TypeInv
  <2>2. pc = "cert" /\ pc' = "save" /\ UNCHANGED <<disk, todo, day>> /\ Now' = Now
    BY <1>8 DEF Deploys, Asks, Handled, Goto, batchVars, envVars, Now
  <2>3. day \in Nat
    BY DEF TypeInv, TypeOK
  <2> QED
    BY <2>1, <2>2, <2>3, OrderFacts DEF ExpInv
<1>9. ASSUME NEW w \in Answers, DeployFails(w) PROVE ExpInv'
  <2>1. pc = "cert" /\ pc' = "save" /\ UNCHANGED <<disk, todo, day>> /\ mem'.exp = mem.exp
    BY <1>9, TakenFacts DEF DeployFails, Handled, Goto, batchVars, envVars, TypeInv, TypeOK, Asks
  <2> QED
    BY <2>1 DEF ExpInv
<1>10. ASSUME SaveCert PROVE ExpInv'
  <2>1. disk' = mem /\ mem' = mem /\ UNCHANGED day
    BY <1>10 DEF SaveCert, NextEntry, envVars
  <2> QED
    BY <2>1 DEF ExpInv
<1>11. ASSUME SaveCertFails PROVE ExpInv'
  <2>1. /\ Now \in Certs /\ mem'.exp[Now] = disk.exp[Now] /\ disk' \in {disk, mem'}
        /\ \A d \in Certs \ {Now} : mem'.exp[d] = mem.exp[d]
    BY <1>11, TakenBackFacts DEF TypeInv
  <2>2. pc = "save" /\ pc' # "save" /\ UNCHANGED day
    BY <1>11 DEF SaveCertFails, NextEntry, Goto, envVars
  <2>3. \A d \in Certs : mem'.exp[d] = disk.exp[d] /\ disk'.exp[d] = disk.exp[d]
    BY <2>1, <2>2 DEF ExpInv
  <2> QED
    BY <2>2, <2>3 DEF ExpInv
<1>12. ASSUME Finish PROVE ExpInv'
  <2>1. mem' = disk' /\ disk'.exp = mem.exp /\ UNCHANGED day
    BY <1>12, FinishFacts DEF Finish, ProcessEnds, envVars, TypeInv
  <2> QED
    BY <2>1 DEF ExpInv
<1>13. ASSUME FinishSaveFails PROVE ExpInv'
  BY <1>13 DEF ExpInv, FinishSaveFails, docVars, batchVars, callVars, entryVars,
     envVars, gateVars, runHist, Goto, ProcessEnds, WaitCallbacks, Forgive
<1>14. ASSUME Crash PROVE ExpInv'
  BY <1>14 DEF ExpInv, Crash, docVars, batchVars, callVars, entryVars, envVars,
     gateVars, runHist, Goto, ProcessEnds, Forgive
<1>15. ASSUME NEW cb \in out, CallbackEnds(cb) PROVE ExpInv'
  BY <1>15 DEF ExpInv, CallbackEnds, docVars, batchVars, callVars, entryVars,
     envVars, gateVars, runHist, Goto, Quiet
<1>16. ASSUME NEW cb \in out, NEW w \in Windows, CallbackChanges(cb, w) PROVE ExpInv'
  BY <1>16 DEF ExpInv, CallbackChanges, docVars, batchVars, callVars, entryVars,
     envVars, gateVars, runHist, Goto, Quiet, Records
<1>17. ASSUME NextDay PROVE ExpInv'
  <2>1. day' = day + 1 /\ UNCHANGED <<pc, disk, mem, todo>> /\ day \in Nat
    BY <1>17 DEF NextDay, Between, docVars, batchVars, TypeInv, TypeOK
  <2>2. \A c \in Certs : mem.exp[c] \in Int /\ disk.exp[c] \in Int
    BY DocFacts DEF TypeInv, TypeOK
  <2>3. Now' = Now
    BY <2>1 DEF Now
  <2> QED
    BY <2>1, <2>2, <2>3, OrderFacts DEF ExpInv
<1>18. ASSUME NEW c \in Certs, Edit(c) PROVE ExpInv'
  <2>1. mem' = disk' /\ disk'.exp = disk.exp /\ UNCHANGED day
    BY <1>18, EditFacts DEF Edit, TypeInv
  <2> QED
    BY <2>1 DEF ExpInv
<1>19. CASE UNCHANGED vars
  BY <1>19 DEF ExpInv, vars, docVars, batchVars, callVars, entryVars, envVars,
     gateVars, runHist, Goto
<1> QED
  BY <1>1, <1>2, <1>3, <1>4, <1>5, <1>6, <1>7, <1>8, <1>9, <1>10, <1>11, <1>12,
     <1>13, <1>14, <1>15, <1>16, <1>17, <1>18, <1>19
     DEF Next, Run, Faulty, Entry, CallbackStep

\* Every step keeps a contested endpoint with its writer.
LEMMA WriterStep == TypeInv /\ ExpInv /\ WriterInv /\ [Next]_vars => WriterInv'
<1> SUFFICES ASSUME TypeInv, ExpInv, WriterInv, [Next]_vars PROVE WriterInv'
  OBVIOUS
<1> USE DEF Now
<1>1. ASSUME StartRun PROVE WriterInv'
  <2>1. mem' = disk /\ todo' = Batch(disk) /\ wrote' = {}
    BY <1>1 DEF StartRun, entryVars, TypeInv, RunInv
  <2>2. Batch(disk) \subseteq disk.on
    BY BatchFacts DEF TypeInv, TypeOK
  <2> QED
    BY <2>1, <2>2 DEF WriterInv
<1>2. ASSUME NEW c \in Certs, StartOne(c) PROVE WriterInv'
  BY <1>2 DEF WriterInv, Waiting, Claimants, Beats, TypeInv, RunInv, StartOne,
     docVars, batchVars, callVars, entryVars, envVars, gateVars, runHist, Goto,
     Forgive
<1>3. ASSUME GateClosed PROVE WriterInv'
  <2>1. /\ pc = "cert" /\ pc' = "save" /\ UNCHANGED <<disk, todo, wrote>>
        /\ mem'.exp = mem.exp /\ mem'.on = mem.on
    BY <1>3 DEF GateClosed, Handled, Goto, batchVars, entryVars, TypeInv, TypeOK
  <2>2. Waiting' \subseteq Waiting /\ \A e \in Endpoints : Claimants(e)' = Claimants(e)
    BY <2>1 DEF Waiting, Claimants
  <2> QED
    BY <2>1, <2>2 DEF WriterInv, Beats
<1>4. ASSUME GateSkips PROVE WriterInv'
  <2>1. /\ pc = "cert" /\ pc' = "save" /\ UNCHANGED <<disk, todo, wrote>>
        /\ mem'.exp = mem.exp /\ mem'.on = mem.on
    BY <1>4 DEF GateSkips, Handled, Goto, batchVars, entryVars, TypeInv, TypeOK
  <2>2. Waiting' \subseteq Waiting /\ \A e \in Endpoints : Claimants(e)' = Claimants(e)
    BY <2>1 DEF Waiting, Claimants
  <2> QED
    BY <2>1, <2>2 DEF WriterInv, Beats
<1>5. ASSUME Refused PROVE WriterInv'
  <2>1. /\ pc = "cert" /\ pc' = "save" /\ UNCHANGED <<disk, todo, wrote>>
        /\ mem'.exp = mem.exp /\ mem'.on = mem.on
    BY <1>5 DEF Refused, Handled, Goto, batchVars, entryVars, TypeInv, TypeOK, Asks
  <2>2. Waiting' \subseteq Waiting /\ \A e \in Endpoints : Claimants(e)' = Claimants(e)
    BY <2>1 DEF Waiting, Claimants
  <2> QED
    BY <2>1, <2>2 DEF WriterInv, Beats
<1>6. ASSUME Unanswered PROVE WriterInv'
  <2>1. /\ pc = "cert" /\ pc' = "save" /\ UNCHANGED <<disk, todo, wrote>>
        /\ mem'.exp = mem.exp /\ mem'.on = mem.on
    BY <1>6 DEF Unanswered, Handled, Goto, batchVars, entryVars, TypeInv, TypeOK, Asks
  <2>2. Waiting' \subseteq Waiting /\ \A e \in Endpoints : Claimants(e)' = Claimants(e)
    BY <2>1 DEF Waiting, Claimants
  <2> QED
    BY <2>1, <2>2 DEF WriterInv, Beats
<1>7. ASSUME NEW w \in Answers, NothingNew(w) PROVE WriterInv'
  <2>1. /\ pc = "cert" /\ pc' = "save" /\ UNCHANGED <<disk, todo, wrote>>
        /\ mem'.exp = mem.exp /\ mem'.on = mem.on
    BY <1>7, WindowFacts DEF NothingNew, Handled, Goto, batchVars, entryVars, TypeInv, TypeOK, Asks
  <2>2. Waiting' \subseteq Waiting /\ \A e \in Endpoints : Claimants(e)' = Claimants(e)
    BY <2>1 DEF Waiting, Claimants
  <2> QED
    BY <2>1, <2>2 DEF WriterInv, Beats
<1>8. ASSUME NEW w \in Answers, Deploys(w) PROVE WriterInv'
  <2>1. /\ Now \in todo /\ Now \in Certs /\ mem'.on = mem.on /\ mem'.exp[Now] = day + Life
        /\ \A d \in Certs \ {Now} : mem'.exp[d] = mem.exp[d]
    BY <1>8, DeployedFacts DEF TypeInv
  <2>2. /\ pc = "cert" /\ pc' = "save" /\ UNCHANGED <<disk, todo>> /\ Now' = Now
        /\ wrote' = wrote \cup (Targets(Now) \X {Now})
    BY <1>8 DEF Deploys, Asks, Handled, Goto, batchVars, Now
  <2>3. Waiting' = todo \ {Now} /\ Waiting = todo /\ todo \subseteq Certs
    BY <2>2 DEF Waiting, TypeInv, TypeOK
  <2>4. \A e \in Endpoints : Claimants(e)' = Claimants(e)
    BY <2>1 DEF Claimants
  <2>5. disk.exp[Now] = mem.exp[Now] /\ mem.exp[Now] <= day + Life
    BY <2>1, <2>2 DEF ExpInv
  <2>6. /\ day \in Nat /\ \A c \in Certs : mem.exp[c] \in Int /\ disk.exp[c] \in Int
    BY DocFacts DEF TypeInv, TypeOK
  <2>7. ASSUME NEW e \in Targets(Now)
        PROVE  /\ e \in Endpoints /\ e \in Claims[Now] /\ Now \in mem.on
               /\ \A d \in Claimants(e) \ {Now} : Beats(mem.exp[Now], Now, d)
    <3>1. e \in Claims[Now] /\ e \in Endpoints
      BY <2>1, <2>7, OrderFacts DEF Targets
    <3>2. Now \in mem.on
      BY <2>1 DEF WriterInv
    <3>3. \A d \in Claimants(e) \ {Now} : Later(Now, d)
      BY <2>7 DEF Targets, Best
    <3> QED
      BY <3>1, <3>2, <3>3 DEF Later, Beats
  <2>8. ASSUME NEW e \in Endpoints, NEW c \in Certs, <<e, c>> \in wrote'
        PROVE  /\ c \in mem'.on /\ e \in Claims[c] /\ c \notin Waiting'
               /\ \A d \in (Waiting \cap Claimants(e))' :
                    Beats(mem.exp[c], c, d)' /\ Beats(disk.exp[c], c, d)'
               /\ \A d \in Certs : <<e, d>> \in wrote' => c = d
    <3>1. CASE c = Now
      <4>1. e \in Targets(Now) \/ <<e, Now>> \in wrote
        BY <2>2, <2>8, <3>1
      <4>2. <<e, Now>> \notin wrote
        BY <2>1, <2>3 DEF WriterInv
      <4>3. /\ e \in Claims[Now] /\ Now \in mem.on
            /\ \A d \in Claimants(e) \ {Now} : Beats(mem.exp[Now], Now, d)
        BY <2>7, <4>1, <4>2
      <4>4. ASSUME NEW d \in Waiting', d \in Claimants(e)'
            PROVE  Beats(mem.exp[c], c, d)' /\ Beats(disk.exp[c], c, d)'
        <5>1. d \in Claimants(e) \ {Now} /\ d \in Certs /\ mem'.exp[d] = mem.exp[d]
          BY <2>1, <2>3, <2>4, <4>4
        <5>2. Beats(mem.exp[Now], Now, d)
          BY <4>3, <5>1
        <5> QED
          BY <2>1, <2>2, <2>5, <2>6, <3>1, <5>1, <5>2, OrderFacts DEF Beats
      <4>5. ASSUME NEW d \in Certs, <<e, d>> \in wrote', d # Now
            PROVE  FALSE
        <5>1. <<e, d>> \in wrote
          BY <2>2, <4>5
        <5>2. d \in Claimants(e) /\ Beats(mem.exp[d], d, Now)
          BY <2>1, <2>3, <4>3, <5>1 DEF WriterInv, Claimants
        <5>3. Beats(mem.exp[Now], Now, d)
          BY <4>3, <4>5, <5>2
        <5> QED
          BY <2>1, <2>6, <5>2, <5>3, OrderFacts DEF Beats
      <4> QED
        BY <2>1, <2>3, <3>1, <4>3, <4>4, <4>5
    <3>2. CASE c # Now
      <4>1. <<e, c>> \in wrote
        BY <2>2, <2>8, <3>2
      <4>2. /\ c \in mem.on /\ e \in Claims[c] /\ c \notin Waiting
            /\ \A d \in Waiting \cap Claimants(e) : Beats(mem.exp[c], c, d) /\ Beats(disk.exp[c], c, d)
            /\ \A d \in Certs : <<e, d>> \in wrote => c = d
        BY <4>1 DEF WriterInv
      <4>3. ASSUME NEW d \in Waiting', d \in Claimants(e)'
            PROVE  Beats(mem.exp[c], c, d)' /\ Beats(disk.exp[c], c, d)'
        <5>1. d \in Waiting \cap Claimants(e) /\ mem'.exp[d] = mem.exp[d]
          BY <2>1, <2>3, <2>4, <4>3
        <5>2. mem'.exp[c] = mem.exp[c] /\ disk'.exp[c] = disk.exp[c]
          BY <2>1, <2>2, <3>2
        <5> QED
          BY <4>2, <5>1, <5>2 DEF Beats
      <4>4. e \notin Targets(Now)
        <5>1. SUFFICES ASSUME e \in Targets(Now) PROVE FALSE
          OBVIOUS
        <5>2. c \in Claimants(e) /\ Now \in Claimants(e)
          BY <2>7, <4>2, <5>1 DEF Claimants
        <5>3. Beats(mem.exp[Now], Now, c) /\ Beats(mem.exp[c], c, Now)
          BY <2>1, <2>3, <2>7, <3>2, <4>2, <5>1, <5>2
        <5> QED
          BY <2>1, <2>6, <5>3, OrderFacts DEF Beats
      <4>5. \A d \in Certs : <<e, d>> \in wrote' => <<e, d>> \in wrote
        BY <2>2, <4>4
      <4> QED
        BY <2>1, <2>3, <4>2, <4>3, <4>5
    <3> QED
      BY <3>1, <3>2
  <2>9. todo' \subseteq mem'.on
    BY <2>1, <2>2 DEF WriterInv
  <2> QED
    BY <2>8, <2>9 DEF WriterInv
<1>9. ASSUME NEW w \in Answers, DeployFails(w) PROVE WriterInv'
  <2>1. /\ pc = "cert" /\ pc' = "save" /\ UNCHANGED <<disk, todo, wrote>>
        /\ mem'.exp = mem.exp /\ mem'.on = mem.on
    BY <1>9, TakenFacts DEF DeployFails, Handled, Goto, batchVars, entryVars, TypeInv, TypeOK, Asks
  <2>2. Waiting' \subseteq Waiting /\ \A e \in Endpoints : Claimants(e)' = Claimants(e)
    BY <2>1 DEF Waiting, Claimants
  <2> QED
    BY <2>1, <2>2 DEF WriterInv, Beats
<1>10. ASSUME SaveCert PROVE WriterInv'
  <2>1. pc = "save" /\ pc' # "save" /\ mem' = mem /\ disk' = mem /\ todo' = todo \ {Now} /\ wrote' = wrote
    BY <1>10 DEF SaveCert, NextEntry, Goto
  <2>2. Waiting' = Waiting /\ \A e \in Endpoints : Claimants(e)' = Claimants(e)
    BY <2>1 DEF Waiting, Claimants
  <2> QED
    BY <2>1, <2>2 DEF WriterInv, Beats
<1>11. ASSUME SaveCertFails PROVE WriterInv'
  <2>1. /\ Now \in todo /\ Now \in Certs /\ mem'.on = mem.on /\ mem'.exp[Now] = disk.exp[Now]
        /\ \A d \in Certs \ {Now} : mem'.exp[d] = mem.exp[d]
        /\ disk' \in {disk, mem'}
    BY <1>11, TakenBackFacts DEF TypeInv
  <2>2. pc = "save" /\ pc' # "save" /\ todo' = todo \ {Now} /\ wrote' = wrote /\ todo \subseteq Certs
    BY <1>11 DEF SaveCertFails, NextEntry, Goto, TypeInv, TypeOK
  <2>3. Waiting' = Waiting /\ Waiting = todo \ {Now} /\ \A e \in Endpoints : Claimants(e)' = Claimants(e)
    BY <2>1, <2>2 DEF Waiting, Claimants
  <2>4. \A c \in Certs : mem'.exp[c] = disk.exp[c] /\ disk'.exp[c] = disk.exp[c]
    BY <2>1, <2>2 DEF ExpInv
  <2>5. \A d \in Waiting : mem'.exp[d] = mem.exp[d]
    BY <2>1, <2>2, <2>3
  <2>6. todo' \subseteq mem'.on
    BY <2>1, <2>2 DEF WriterInv
  <2> QED
    BY <2>1, <2>2, <2>3, <2>4, <2>5, <2>6 DEF WriterInv, Beats
<1>12. ASSUME Finish PROVE WriterInv'
  BY <1>12 DEF WriterInv, Waiting, Claimants, Beats, TypeInv, RunInv, Finish,
     docVars, batchVars, callVars, entryVars, envVars, gateVars, runHist, Goto,
     ProcessEnds, WaitCallbacks
<1>13. ASSUME FinishSaveFails PROVE WriterInv'
  BY <1>13 DEF WriterInv, Waiting, Claimants, Beats, TypeInv, RunInv,
     FinishSaveFails, docVars, batchVars, callVars, entryVars, envVars,
     gateVars, runHist, Goto, ProcessEnds, WaitCallbacks, Forgive
<1>14. ASSUME Crash PROVE WriterInv'
  BY <1>14 DEF WriterInv, Waiting, Claimants, Beats, TypeInv, RunInv, Crash,
     docVars, batchVars, callVars, entryVars, envVars, gateVars, runHist, Goto,
     ProcessEnds, Forgive
<1>15. ASSUME NEW cb \in out, CallbackEnds(cb) PROVE WriterInv'
  BY <1>15 DEF WriterInv, Waiting, Claimants, Beats, TypeInv, RunInv,
     CallbackEnds, docVars, batchVars, callVars, entryVars, envVars, gateVars,
     runHist, Goto, Quiet
<1>16. ASSUME NEW cb \in out, NEW w \in Windows, CallbackChanges(cb, w) PROVE WriterInv'
  BY <1>16 DEF WriterInv, Waiting, Claimants, Beats, TypeInv, RunInv,
     CallbackChanges, docVars, batchVars, callVars, entryVars, envVars,
     gateVars, runHist, Goto, Quiet, Records
<1>17. ASSUME NextDay PROVE WriterInv'
  BY <1>17 DEF WriterInv, Waiting, Claimants, Beats, TypeInv, RunInv, NextDay,
     docVars, batchVars, callVars, entryVars, envVars, gateVars, runHist, Goto,
     Between
<1>18. ASSUME NEW c \in Certs, Edit(c) PROVE WriterInv'
  <2>1. todo' = {} /\ wrote' = {}
    BY <1>18 DEF Edit, Between, batchVars, entryVars, TypeInv, RunInv
  <2> QED
    BY <2>1 DEF WriterInv
<1>19. CASE UNCHANGED vars
  BY <1>19 DEF WriterInv, Waiting, Claimants, Beats, TypeInv, RunInv, vars,
     docVars, batchVars, callVars, entryVars, envVars, gateVars, runHist, Goto
<1> QED
  BY <1>1, <1>2, <1>3, <1>4, <1>5, <1>6, <1>7, <1>8, <1>9, <1>10, <1>11, <1>12,
     <1>13, <1>14, <1>15, <1>16, <1>17, <1>18, <1>19
     DEF Next, Run, Faulty, Entry, CallbackStep

LEMMA WriterAlways == Spec => []WriterInv
<1>1. Init => WriterInv /\ ExpInv
  <2> SUFFICES ASSUME Init PROVE WriterInv /\ ExpInv
    OBVIOUS
  <2>1. mem = disk /\ todo = {} /\ wrote = {} /\ day = 0
    BY DEF Init
  <2>2. \A c \in Certs : disk.exp[c] <= Life
    <3>1. PICK on \in SUBSET Certs, exp \in [Certs -> FirstExpiry], x \in Windows :
            disk = [on |-> on, cursor |-> 0, window |-> x, exp |-> exp]
      BY DEF Init
    <3>2. \A n \in 1 .. Life : n <= Life
      BY AutoRunAssumption
    <3>3. \A c \in Certs : exp[c] \in 1 .. Life
      BY AutoRunAssumption
    <3>4. disk.exp = exp
      BY <3>1
    <3> QED
      BY <3>2, <3>3, <3>4
  <2> QED
    BY <2>1, <2>2, OrderFacts DEF WriterInv, ExpInv
<1> QED
  BY <1>1, TypeAlways, ExpStep, WriterStep, PTL DEF Spec

\* Of two entries that claim an endpoint only one writes it in a run, although
\* the best of them is judged on metadata the run itself changes.
THEOREM OneWriterPerRunAlways == Spec => []OneWriterPerRun
<1>1. TypeInv /\ WriterInv => OneWriterPerRun
  BY DEF TypeInv, TypeOK, WriterInv, OneWriterPerRun
<1> QED
  BY <1>1, TypeAlways, WriterAlways, PTL

-----------------------------------------------------------------------------
(* Turns.                                                                  *)

\* With h at the head, c has its turn before d.
InOrder(h, c, d) ==
  \/ h <= c /\ c < d
  \/ h <= c /\ d < h
  \/ c < d /\ d < h

\* The next entry to be handled; 0 stands for the first.
Head ==
  IF pc \in {"cert", "save"} THEN Now
  ELSE IF pc = "finish" THEN next
  ELSE IF mem.cursor \in mem.on THEN mem.cursor ELSE 0

\* The batch is followed by the entry the cursor will name, and whoever waits is
\* before all that have had their turn since its own.
TurnInv ==
  /\ next = Keep => \A c \in Certs : since[c] = {}
  /\ next # Keep /\ pc # "idle" => next = 0 \/ next \in mem.on
  /\ next # Keep /\ pc \in {"cert", "save"} =>
       \A c \in mem.on : c >= Now => (c \in todo <=> (next = 0 \/ c < next))
  /\ \A c \in mem.on : \A d \in since[c] : d \in mem.on /\ InOrder(Head, c, d)

TurnBase == TypeInv /\ WriterInv /\ TurnInv

\* The head moves on by one entry: all others stay in order, before the old head.
LEMMA HeadMoves ==
  ASSUME NEW on \in SUBSET Nat, NEW h \in Nat, NEW h2 \in Nat,
         \/ h < h2 /\ \A x \in on : x <= h \/ h2 <= x
         \/ h2 = 0 /\ \A x \in on : x <= h,
         NEW c \in on, NEW d \in on, c # h,
         InOrder(h, c, d) \/ d = h
  PROVE  InOrder(h2, c, d)
<1>1. c \in Nat /\ d \in Nat /\ (c <= h => c < h)
  OBVIOUS
<1>2. CASE h < h2 /\ \A x \in on : x <= h \/ h2 <= x
  <2>1. (c <= h \/ h2 <= c) /\ (d <= h \/ h2 <= d)
    BY <1>2
  <2> QED
    BY <1>1, <1>2, <2>1 DEF InOrder
<1>3. CASE h2 = 0 /\ \A x \in on : x <= h
  <2>1. c < h /\ d <= h
    BY <1>1, <1>3
  <2> QED
    BY <1>1, <1>3, <2>1 DEF InOrder
<1> QED
  BY <1>2, <1>3

\* A batch is the beginning of what is eligible.
LEMMA BatchPrefix ==
  ASSUME NEW doc \in Docs
  PROVE  /\ \A c \in Batch(doc), d \in Remaining(doc) : c < d
         /\ Batch(doc) = {} => Eligible(doc) = {}
<1>1. Eligible(doc) \subseteq Certs /\ Certs \subseteq Nat
      /\ \A y \in Eligible(doc) : y \in Nat
  BY DocFacts, CertFacts DEF Eligible
<1> DEFINE Before(x) == {y \in Eligible(doc) : y < x}
<1>2. \A x : IsFiniteSet(Before(x)) /\ Cardinality(Before(x)) \in Nat
  BY <1>1, SetFacts
<1>3. ASSUME NEW c \in Batch(doc), NEW d \in Remaining(doc) PROVE c < d
  <2>1. c \in Eligible(doc) /\ d \in Eligible(doc) /\ d # c
    BY <1>3 DEF Batch, Remaining
  <2>a. c \in Nat /\ d \in Nat
    BY <1>1, <2>1
  <2>2. SUFFICES ASSUME d < c PROVE FALSE
    BY <2>1, <2>a
  <2>3. Before(d) \subseteq Before(c)
    <3> SUFFICES ASSUME NEW y \in Eligible(doc), y < d PROVE y < c
      OBVIOUS
    <3>1. y \in Nat
      BY <1>1
    <3> QED
      BY <2>a, <2>2, <3>1
  <2>4. Cardinality(Before(d)) <= Cardinality(Before(c))
    BY <1>2, <2>3, FS_Subset
  <2>5. Cardinality(Before(c)) < Limit
    BY <1>3 DEF Batch
  <2>6. Cardinality(Before(d)) < Limit
    BY <1>2, <2>4, <2>5, AutoRunAssumption
  <2> QED
    BY <1>3, <2>1, <2>6 DEF Batch, Remaining
<1>4. ASSUME Eligible(doc) # {} PROVE Batch(doc) # {}
  <2>1. PICK c \in Eligible(doc) : \A d \in Eligible(doc) : c <= d
    BY <1>1, <1>4, LeastFacts
  <2>2. Before(c) = {}
    <3> SUFFICES ASSUME NEW y \in Eligible(doc), y < c PROVE FALSE
      OBVIOUS
    <3>1. y \in Nat /\ c \in Nat
      BY <1>1, <2>1
    <3> QED
      BY <2>1, <3>1
  <2>3. Cardinality(Before(c)) < Limit
    BY <2>2, CardinalityOfReport, AutoRunAssumption
  <2> QED
    BY <2>1, <2>3 DEF Batch
<1> QED
  BY <1>3, <1>4

\* The head of a run is where the cursor is.
LEMMA TurnStart == TurnBase /\ StartRun => TurnInv'
<1> SUFFICES ASSUME TurnBase, StartRun PROVE TurnInv'
  OBVIOUS
<1>1. /\ pc = "idle" /\ mem = disk /\ mem' = disk /\ disk \in Docs
      /\ todo' = Batch(disk) /\ next' = NextCursor(disk) /\ since' = since
      /\ pc' = IF Batch(disk) = {} THEN "finish" ELSE "cert"
  BY DEF TurnBase, TypeInv, TypeOK, RunInv, StartRun, Goto
<1>2. /\ disk.on \subseteq Certs /\ Certs \subseteq Nat /\ 0 \notin Certs
      /\ Batch(disk) \subseteq Eligible(disk) /\ Eligible(disk) \subseteq disk.on
      /\ Remaining(disk) = Eligible(disk) \ Batch(disk)
  BY <1>1, DocFacts, CertFacts DEF Batch, Remaining, Eligible
<1>3. /\ \A c \in Batch(disk), d \in Remaining(disk) : c < d
      /\ Batch(disk) = {} => Eligible(disk) = {}
  BY <1>1, BatchPrefix
<1>4. IF Remaining(disk) = {} THEN next' = 0
      ELSE next' \in Remaining(disk) /\ \A d \in Remaining(disk) : next' <= d
  BY <1>1, <1>2, LeastFacts DEF NextCursor
<1>a. \A c \in disk.on : c \in Nat
  BY <1>2
<1>b. /\ disk.cursor \in disk.on => disk.cursor \in Eligible(disk)
      /\ disk.cursor \notin disk.on => Eligible(disk) = disk.on
      /\ \A c \in Eligible(disk) : disk.cursor \in disk.on => c >= disk.cursor
      /\ \A c \in disk.on : c >= disk.cursor => c \in Eligible(disk)
  <2>1. ASSUME disk.cursor \in disk.on PROVE disk.cursor >= disk.cursor
    BY <1>a, <2>1
  <2> QED
    BY <2>1 DEF Eligible
<1>5. next' # Keep
  BY <1>1, BatchFacts, AutoRunAssumption DEF Keep
<1>6. next' = 0 \/ next' \in mem'.on
  BY <1>1, <1>2, <1>4
<1>7. CASE Batch(disk) = {}
  <2>1. disk.on = {}
    BY <1>3, <1>7, <1>b
  <2> QED
    BY <1>1, <1>5, <1>6, <1>7, <2>1 DEF TurnInv
<1>8. CASE Batch(disk) # {}
  <2>1. Now' \in Batch(disk) /\ \A d \in Batch(disk) : Now' <= d
    BY <1>1, <1>2, <1>8, LeastFacts DEF Now
  <2>2. Now' \in Nat /\ Now' \in Eligible(disk) /\ \A d \in Eligible(disk) : Now' <= d
    <3>1. Now' \in Nat /\ Now' \in Eligible(disk)
      BY <1>2, <1>a, <2>1
    <3>2. ASSUME NEW d \in Remaining(disk) PROVE Now' <= d
      <4>1. Now' < d /\ d \in Nat
        BY <1>2, <1>3, <1>a, <2>1
      <4> QED
        BY <3>1, <4>1
    <3> QED
      BY <1>2, <2>1, <3>1, <3>2
  <2>3. \A c \in mem'.on : c >= Now' => (c \in todo' <=> (next' = 0 \/ c < next'))
    <3> SUFFICES ASSUME NEW c \in disk.on, c >= Now'
                 PROVE  c \in Batch(disk) <=> (next' = 0 \/ c < next')
      BY <1>1
    <3>1. c \in Eligible(disk)
      <4>1. CASE disk.cursor \in disk.on
        <5>1. c >= disk.cursor
          BY <1>a, <1>b, <2>2, <4>1
        <5> QED
          BY <1>b, <5>1
      <4>2. CASE disk.cursor \notin disk.on
        BY <1>b, <4>2
      <4> QED
        BY <4>1, <4>2
    <3>2. c \in Nat /\ (Remaining(disk) # {} => next' \in Nat /\ next' # 0)
      BY <1>2, <1>4
    <3>3. CASE Remaining(disk) = {}
      BY <1>2, <1>4, <3>1, <3>3
    <3>4. CASE Remaining(disk) # {}
      BY <1>2, <1>3, <1>4, <3>1, <3>2, <3>4
    <3> QED
      BY <3>3, <3>4
  <2>4. Head' = Now'
    BY <1>1, <1>8 DEF Head
  <2>5. ASSUME NEW c \in mem'.on, NEW d \in since'[c]
        PROVE  d \in mem'.on /\ InOrder(Head', c, d)
    <3>1. d \in disk.on /\ InOrder(Head, c, d)
      BY <1>1, <2>5 DEF TurnBase, TurnInv
    <3>2. c \in Nat /\ d \in Nat
      BY <1>1, <1>2, <3>1
    <3>3. CASE disk.cursor \in disk.on
      <4>1. disk.cursor \in Eligible(disk) /\ disk.cursor \in Nat
        BY <1>a, <1>b, <3>3
      <4>2. Now' >= disk.cursor
        BY <1>b, <2>2, <3>3
      <4>3. Now' = disk.cursor
        BY <2>2, <4>1, <4>2
      <4> QED
        BY <1>1, <2>4, <3>1, <3>3, <4>3 DEF Head
    <3>4. CASE disk.cursor \notin disk.on
      <4>1. Head = 0
        BY <1>1, <3>4 DEF Head
      <4>2. c \in Eligible(disk)
        BY <1>1, <3>4 DEF Eligible
      <4>3. c < d
        BY <3>1, <3>2, <4>1 DEF InOrder
      <4> QED
        BY <1>1, <2>2, <2>4, <3>1, <4>2, <4>3 DEF InOrder
    <3> QED
      BY <3>3, <3>4
  <2> QED
    BY <1>5, <1>6, <2>3, <2>5 DEF TurnInv
<1> QED
  BY <1>7, <1>8

\* When an entry has had its turn, the head is the entry behind it.
LEMMA HeadAfter ==
  ASSUME TurnBase, pc = "save", next # Keep, NextEntry, mem'.on = mem.on
  PROVE  /\ next' = next /\ (next = 0 \/ next \in mem.on)
         /\ pc' \in {"cert", "save"} =>
              \A c \in mem'.on : c >= Now' => (c \in todo' <=> (next' = 0 \/ c < next'))
         /\ Head' \in Nat
         /\ \/ Now < Head' /\ \A x \in mem.on : x <= Now \/ Head' <= x
            \/ Head' = 0 /\ \A x \in mem.on : x <= Now
<1>1. /\ todo' = todo \ {Now} /\ next' = next
      /\ pc' = IF todo' = {} THEN "finish" ELSE "cert"
  BY DEF NextEntry, Goto
<1>2. todo \subseteq Certs /\ todo # {} /\ mem \in Docs /\ next \in (0 .. N) \cup {Keep}
  BY DEF TurnBase, TypeInv, TypeOK
<1>3. Now \in todo /\ Now \in Certs /\ \A c \in todo : Now <= c
  BY <1>2, NowFacts, LeastFacts, CertFacts DEF Now
<1>4. mem.on \subseteq Certs /\ Certs \subseteq Nat /\ 0 \notin Certs /\ todo \subseteq mem.on
  BY <1>2, DocFacts, CertFacts DEF TurnBase, WriterInv
<1>5. next = 0 \/ next \in mem.on
  BY DEF TurnBase, TurnInv
<1>6. \A c \in mem.on : c >= Now => (c \in todo <=> (next = 0 \/ c < next))
  BY DEF TurnBase, TurnInv
<1>7. Now \in Nat /\ next \in Nat /\ mem.on \subseteq Nat /\ (next = 0 \/ Now < next)
  <2>a. mem.on \subseteq Nat /\ 0 \in Nat
    BY <1>4
  <2>b. Now \in mem.on /\ Now \in Nat
    BY <1>3, <1>4
  <2>c. next \in Nat
    BY <1>5, <2>a
  <2>1. Now \in Nat /\ next \in Nat /\ mem.on \subseteq Nat /\ Now \in mem.on
    BY <2>a, <2>b, <2>c
  <2>2. Now >= Now
    BY <2>1
  <2> QED
    BY <1>3, <1>6, <2>1, <2>2
<1>8. CASE todo' = {}
  <2>1. Head' = next /\ pc' = "finish"
    BY <1>1, <1>8 DEF Head
  <2>2. \A x \in mem.on : x > Now => x \notin todo
    BY <1>1, <1>7, <1>8
  <2>3. \A x \in mem.on : x > Now => ~(next = 0 \/ x < next)
    BY <1>6, <1>7, <2>2
  <2> QED
    BY <1>1, <1>5, <1>7, <2>1, <2>3
<1>9. CASE todo' # {}
  <2>1. Head' = Now'
    BY <1>1, <1>9 DEF Head
  <2>2. Now' \in todo' /\ \A x \in todo' : Now' <= x
    BY <1>1, <1>2, <1>4, <1>9, LeastFacts DEF Now
  <2>3. Now' \in Nat /\ Now' \in todo /\ Now' \in mem.on /\ Now < Now'
    BY <1>1, <1>3, <1>4, <2>2
  <2>4. next = 0 \/ Now' < next
    BY <1>6, <1>7, <2>3
  <2>5. ASSUME NEW x \in mem.on, Now < x, x < Now' PROVE FALSE
    <3>1. x \in Nat /\ (next = 0 \/ x < next)
      BY <1>7, <2>3, <2>4, <2>5
    <3>2. x \in todo'
      BY <1>1, <1>6, <1>7, <2>5, <3>1
    <3> QED
      BY <2>2, <2>3, <2>5, <3>1, <3>2
  <2>6. ASSUME NEW c \in mem.on, c >= Now'
        PROVE  c \in todo' <=> (next = 0 \/ c < next)
    <3>1. c \in Nat /\ c > Now
      BY <1>7, <2>3, <2>6
    <3> QED
      BY <1>1, <1>6, <1>7, <3>1
  <2> QED
    BY <1>1, <1>5, <1>7, <2>1, <2>3, <2>5, <2>6
<1> QED
  BY <1>8, <1>9

\* An entry that has had its turn goes to the end.
LEMMA TurnSave == TurnBase /\ SaveCert => TurnInv'
<1> SUFFICES ASSUME TurnBase, SaveCert PROVE TurnInv'
  OBVIOUS
<1>1. /\ pc = "save" /\ mem' = mem /\ NextEntry /\ next' = next
      /\ todo \subseteq Certs /\ todo # {} /\ mem \in Docs
  BY DEF SaveCert, NextEntry, TurnBase, TypeInv, TypeOK
<1>2. Now \in todo /\ Now \in Certs /\ Now \in Nat /\ Now \in mem.on
  BY <1>1, NowFacts, CertFacts DEF TurnBase, WriterInv
<1>3. mem.on \subseteq Certs /\ mem.on \in SUBSET Nat
  BY <1>1, DocFacts, CertFacts
<1>4. CASE next = Keep
  <2>1. since' = [c \in Certs |-> {}]
    BY <1>4 DEF SaveCert, Forgive
  <2> QED
    BY <1>1, <1>3, <1>4, <2>1 DEF TurnInv
<1>5. CASE next # Keep
  <2>1. since' = [c \in Certs |-> IF c = Now THEN {} ELSE since[c] \cup {Now}]
    BY <1>5 DEF SaveCert
  <2>2. /\ next = 0 \/ next \in mem.on
        /\ pc' \in {"cert", "save"} =>
             \A c \in mem'.on : c >= Now' => (c \in todo' <=> (next' = 0 \/ c < next'))
        /\ Head' \in Nat
        /\ \/ Now < Head' /\ \A x \in mem.on : x <= Now \/ Head' <= x
           \/ Head' = 0 /\ \A x \in mem.on : x <= Now
    BY <1>1, <1>5, HeadAfter
  <2>3. ASSUME NEW c \in mem'.on, NEW d \in since'[c]
        PROVE  d \in mem'.on /\ InOrder(Head', c, d)
    <3>1. c \in mem.on /\ c \in Certs /\ c # Now /\ (d \in since[c] \/ d = Now)
      BY <1>1, <1>3, <2>1, <2>3
    <3>2. Head = Now
      BY <1>1 DEF Head
    <3>3. d \in mem.on /\ (InOrder(Now, c, d) \/ d = Now)
      BY <1>2, <3>1, <3>2 DEF TurnBase, TurnInv
    <3>4. InOrder(Head', c, d)
      BY <1>2, <1>3, <2>2, <3>1, <3>3, HeadMoves
    <3> QED
      BY <1>1, <3>3, <3>4
  <2> QED
    BY <1>1, <1>5, <2>2, <2>3 DEF TurnInv
<1> QED
  BY <1>4, <1>5

\* Nothing is claimed across a fault, but the batch goes on.
LEMMA TurnSaveFails == TurnBase /\ SaveCertFails => TurnInv'
<1> SUFFICES ASSUME TurnBase, SaveCertFails PROVE TurnInv'
  OBVIOUS
<1>1. pc = "save" /\ NextEntry /\ next' = next /\ since' = [c \in Certs |-> {}]
  BY DEF SaveCertFails, NextEntry, Forgive
<1>2. mem'.on = mem.on /\ mem.on \subseteq Certs
  BY TakenBackFacts, DocFacts DEF TurnBase, TypeInv, TypeOK
<1>3. next # Keep =>
        /\ next = 0 \/ next \in mem.on
        /\ pc' \in {"cert", "save"} =>
             \A c \in mem'.on : c >= Now' => (c \in todo' <=> (next' = 0 \/ c < next'))
  BY <1>1, <1>2, HeadAfter
<1> QED
  BY <1>1, <1>2, <1>3 DEF TurnInv

\* The cursor is left at the head.
LEMMA TurnFinish == TurnBase /\ Finish => TurnInv'
<1> SUFFICES ASSUME TurnBase, Finish PROVE TurnInv'
  OBVIOUS
<1>1. /\ pc = "finish" /\ pc' = "idle" /\ next' = 0 /\ since' = since /\ mem' = disk'
      /\ mem \in Docs
  BY DEF Finish, WaitCallbacks, ProcessEnds, Goto, TurnBase, TypeInv, TypeOK
<1>2. mem'.on = mem.on /\ (next # Keep => mem'.cursor = next)
  BY <1>1 DEF Finish, Docs
<1>3. mem.on \subseteq Certs /\ 0 \notin Certs
  BY <1>1, DocFacts, CertFacts
<1>4. next' # Keep
  BY <1>1, AutoRunAssumption DEF Keep
<1>5. next # Keep => Head' = Head
  BY <1>1, <1>2, <1>3 DEF Head, TurnBase, TurnInv
<1>6. ASSUME NEW c \in mem'.on, NEW d \in since'[c]
      PROVE  d \in mem'.on /\ InOrder(Head', c, d)
  BY <1>1, <1>2, <1>3, <1>5, <1>6 DEF TurnBase, TurnInv
<1> QED
  BY <1>1, <1>4, <1>6 DEF TurnInv

\* The handling of an entry leaves the order of turns alone.
LEMMA TurnEntry == TurnBase /\ Entry => TurnInv'
<1> SUFFICES ASSUME TurnBase, Entry PROVE TurnInv'
  OBVIOUS
<1>1. mem'.on = mem.on
  <2>1. ASSUME NEW w \in Answers, NothingNew(w) PROVE mem'.on = mem.on
    BY <2>1, WindowFacts DEF NothingNew, TurnBase, TypeInv, TypeOK
  <2>2. ASSUME NEW w \in Answers, Deploys(w) PROVE mem'.on = mem.on
    BY <2>2, DeployedFacts DEF TurnBase, TypeInv
  <2>3. ASSUME NEW w \in Answers, DeployFails(w) PROVE mem'.on = mem.on
    BY <2>3, TakenFacts DEF DeployFails, TurnBase, TypeInv, TypeOK
  <2> QED
    BY <2>1, <2>2, <2>3 DEF Entry, GateClosed, GateSkips, Refused, Unanswered
<1>2. pc = "cert" /\ pc' = "save" /\ UNCHANGED <<todo, next, since>>
  BY DEF Entry, GateClosed, GateSkips, Refused, Unanswered, NothingNew, Deploys,
     DeployFails, Asks, Handled, Goto, batchVars
<1>3. Now' = Now /\ Head = Now /\ Head' = Now'
  BY <1>2 DEF Now, Head
<1> QED
  BY <1>1, <1>2, <1>3 DEF TurnBase, TurnInv

\* Every step keeps the turns in order.
LEMMA TurnStep == TurnBase /\ [Next]_vars => TurnInv'
<1> SUFFICES ASSUME TurnBase, [Next]_vars PROVE TurnInv'
  OBVIOUS
<1>1. ASSUME NEW c \in Certs, StartOne(c) PROVE TurnInv'
  <2>1. /\ next' = Keep /\ since' = [x \in Certs |-> {}] /\ mem' = disk /\ disk \in Docs
    BY <1>1 DEF StartOne, Forgive, TurnBase, TypeInv, TypeOK
  <2> QED
    BY <2>1, DocFacts DEF TurnInv
<1>2. ASSUME FinishSaveFails \/ Crash PROVE TurnInv'
  <2>1. /\ pc' = "idle" /\ next' = 0 /\ since' = [x \in Certs |-> {}]
        /\ mem' = disk /\ disk \in Docs /\ 0 # Keep
    BY <1>2, AutoRunAssumption DEF FinishSaveFails, Crash, ProcessEnds, Forgive,
       Goto, Keep, TurnBase, TypeInv, TypeOK
  <2> QED
    BY <2>1, DocFacts DEF TurnInv
<1>3. ASSUME CallbackStep PROVE TurnInv'
  <2>1. UNCHANGED <<pc, mem, todo, next, since>>
    BY <1>3 DEF CallbackStep, CallbackEnds, CallbackChanges, Quiet, docVars, batchVars
  <2>2. Now' = Now /\ Head' = Head
    BY <2>1 DEF Now, Head
  <2> QED
    BY <2>1, <2>2 DEF TurnBase, TurnInv
<1>4. ASSUME NextDay \/ UNCHANGED vars PROVE TurnInv'
  <2>1. UNCHANGED <<pc, mem, todo, next, since>>
    BY <1>4 DEF NextDay, Between, vars, docVars, batchVars, runHist
  <2>2. Now' = Now /\ Head' = Head
    BY <2>1 DEF Now, Head
  <2> QED
    BY <2>1, <2>2 DEF TurnBase, TurnInv
<1>5. ASSUME NEW c \in Certs, Edit(c) PROVE TurnInv'
  <2>1. /\ pc' = "idle" /\ since' = [x \in Certs |-> {}] /\ mem' = disk' /\ disk' \in Docs
    BY <1>5, EditFacts DEF Edit, Between, Forgive, TurnBase, TypeInv
  <2>2. disk'.on \subseteq Certs
    BY <2>1, DocFacts
  <2> QED
    BY <2>1, <2>2 DEF TurnInv
<1> QED
  BY <1>1, <1>2, <1>3, <1>4, <1>5, TurnStart, TurnEntry, TurnSave, TurnSaveFails, TurnFinish
     DEF Next, Run, Faulty

\* Between two turns of an enabled entry no other gets two by the task, as long
\* as nothing fails and the configuration is left alone.
THEOREM NobodyOvertakenAlways == Spec => NobodyOvertaken
<1>1. Init => TurnInv
  BY CertFacts, AutoRunAssumption DEF Init, TurnInv, Keep
<1>2. ASSUME TurnBase, Next, NEW c \in Certs,
             turn' # 0, turn' \in since[c], since' # [d \in Certs |-> {}]
      PROVE  c \notin mem.on
  <2>1. SaveCert
    BY <1>2 DEF Next, Run, Faulty, Entry, CallbackStep, StartRun, StartOne, GateClosed,
       GateSkips, Refused, Unanswered, NothingNew, Deploys, DeployFails, Handled,
       SaveCertFails, Forgive, Finish, FinishSaveFails, Crash, ProcessEnds,
       CallbackEnds, CallbackChanges, Quiet, NextDay, Edit, Between
  <2>2. pc = "save" /\ turn' = Now /\ Head = Now
    BY <2>1 DEF SaveCert, NextEntry, Head
  <2>3. Now \in Nat
    <3>1. todo \subseteq Certs /\ todo # {}
      BY <1>2, <2>2 DEF TurnBase, TypeInv, TypeOK
    <3> QED
      BY <3>1, NowFacts, CertFacts
  <2>4. SUFFICES ASSUME c \in mem.on PROVE FALSE
    OBVIOUS
  <2>5. InOrder(Now, c, Now)
    BY <1>2, <2>2, <2>4 DEF TurnBase, TurnInv
  <2>6. c \in Nat
    BY CertFacts
  <2> QED
    BY <2>3, <2>5, <2>6 DEF InOrder
<1>3. TurnBase /\ [Next]_vars =>
        [\A c \in Certs : turn' # 0 /\ turn' \in since[c] /\ since' # [d \in Certs |-> {}]
           => c \notin mem.on]_vars
  BY <1>2
<1>4. TypeInv /\ WriterInv /\ TurnInv <=> TurnBase
  BY DEF TurnBase
<1> QED
  BY <1>1, <1>3, <1>4, TypeAlways, WriterAlways, TurnStep, PTL DEF Spec, NobodyOvertaken

-----------------------------------------------------------------------------
(* The size of a batch.                                                    *)

LEMMA GreatestExists ==
  ASSUME NEW S \in SUBSET Certs, S # {}
  PROVE  \E m \in S : \A d \in S : d <= m
<1> DEFINE T == {N - c : c \in S}
<1>1. \A c \in S : c \in Nat /\ c <= N /\ N - c \in Nat
  BY CertFacts, AutoRunAssumption
<1>2. T \subseteq Nat /\ T # {}
  BY <1>1
<1>3. Least(T) \in T /\ \A t \in T : Least(T) <= t
  BY <1>2, LeastFacts
<1>4. PICK m \in S : Least(T) = N - m
  BY <1>3
<1>5. \A d \in S : N - m <= N - d
  BY <1>3, <1>4
<1>6. \A d \in S : d <= m
  BY <1>1, <1>5, AutoRunAssumption
<1> QED
  BY <1>6

\* A batch is full, or takes all that is eligible.
LEMMA BatchCount ==
  ASSUME NEW doc \in Docs
  PROVE  Cardinality(Batch(doc)) =
           IF Cardinality(Eligible(doc)) < Limit
             THEN Cardinality(Eligible(doc)) ELSE Limit
<1> DEFINE E == Eligible(doc)
           B == Batch(doc)
           Before(x) == {d \in E : d < x}
<1>1. E \in SUBSET Certs /\ B \subseteq E /\ Limit \in Nat
  BY DocFacts, AutoRunAssumption DEF Eligible, Batch
<1>2. \A y \in E : y \in Nat
  BY <1>1, CertFacts
<1>3. /\ IsFiniteSet(E) /\ Cardinality(E) \in Nat
      /\ IsFiniteSet(B) /\ Cardinality(B) \in Nat /\ Cardinality(B) <= Cardinality(E)
      /\ \A x : /\ IsFiniteSet(Before(x)) /\ Cardinality(Before(x)) \in Nat
  BY <1>1, SetFacts, FS_Subset
<1>4. \A c \in E : c \in B <=> Cardinality(Before(c)) < Limit
  BY DEF Batch
<1>5. Remaining(doc) = E \ B
  BY DEF Remaining
<1> HIDE DEF E, B
<1>6. Cardinality(B) <= Limit
  <2>1. CASE B = {}
    BY <1>1, <2>1, FS_EmptySet
  <2>2. CASE B # {}
    <3>1. PICK m \in B : \A d \in B : d <= m
      BY <1>1, <2>2, GreatestExists
    <3>2. B \subseteq Before(m) \cup {m}
      BY <1>1, <1>2, <3>1
    <3>3. /\ IsFiniteSet(Before(m) \cup {m})
          /\ Cardinality(Before(m) \cup {m}) =
               IF m \in Before(m) THEN Cardinality(Before(m)) ELSE Cardinality(Before(m)) + 1
      <4>1. IsFiniteSet(Before(m))
        BY <1>3
      <4> HIDE DEF Before
      <4> QED
        BY <4>1, FS_AddElement
    <3>4. Cardinality(B) <= Cardinality(Before(m) \cup {m})
      BY <3>2, <3>3, FS_Subset
    <3>5. Cardinality(Before(m)) < Limit
      BY <1>1, <1>4, <3>1
    <3>6. Cardinality(Before(m)) \in Nat
      BY <1>3
    <3> QED
      BY <1>1, <1>3, <3>3, <3>4, <3>5, <3>6
  <2> QED
    BY <2>1, <2>2
<1>7. CASE Remaining(doc) = {}
  <2>1. B = E
    BY <1>1, <1>5, <1>7
  <2> QED
    BY <1>1, <1>3, <1>6, <2>1 DEF B, E
<1>8. CASE Remaining(doc) # {}
  <2> DEFINE r == Least(Remaining(doc))
  <2>1. r \in E \ B /\ \A d \in E \ B : r <= d
    BY <1>1, <1>2, <1>5, <1>8, LeastFacts, CertFacts
  <2> HIDE DEF r
  <2>2. Before(r) \subseteq B
    BY <1>2, <2>1
  <2>3. Cardinality(Before(r)) <= Cardinality(B)
    BY <1>3, <2>2, FS_Subset
  <2>4. ~ (Cardinality(Before(r)) < Limit)
    BY <1>4, <2>1
  <2>5. Cardinality(B) = Limit /\ ~ (Cardinality(E) < Limit)
    BY <1>1, <1>3, <1>6, <2>3, <2>4
  <2> QED
    BY <2>5 DEF B, E
<1> QED
  BY <1>7, <1>8

(* A run of the task takes up maxRenewBatch entries, or all that are left of
   the round when they are fewer (selectBatch). *)
THEOREM BatchFilledAlways == Spec => BatchFilled
<1>1. ASSUME TypeInv, StartRun
      PROVE  LET left == Cardinality(Eligible(disk))
             IN  Cardinality(todo') = IF left < Limit THEN left ELSE Limit
  <2>1. disk \in Docs /\ todo' = Batch(disk)
    BY <1>1 DEF TypeInv, TypeOK, StartRun
  <2> QED
    BY <2>1, BatchCount
<1> QED
  BY <1>1, TypeAlways, PTL DEF BatchFilled

===============================================================================
