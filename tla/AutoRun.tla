------------------------------- MODULE AutoRun -------------------------------
(***************************************************************************)
(* Automatic runs over ALL managed certificates: which certificates a run  *)
(* takes up, which of them it may ask the server about, which of two       *)
(* certificates gets an endpoint both claim, and which renewal window the  *)
(* run leaves behind.  Source: src/deploy/auto.go (selectBatch,            *)
(* runAutoDeploy, executableRuleTargets, sendCallback), auth_gate.go,      *)
(* interfaces.go.                                                          *)
(*                                                                         *)
(* What a run does for one certificate is one step here, with the outcomes *)
(* that Issuance (local mode) and DeployAttempt tell apart in detail; the  *)
(* run has the process lock and nobody else writes the file (SharedConfig).*)
(*                                                                         *)
(* Certificates are the entries of config.json, numbered in file order.  An *)
(* entry that is deployed may get a new order number; a cursor that names   *)
(* the old one names no entry any more (Stale).  The new number keeps its   *)
(* rank among the others, which only matters between entries of one expiry. *)
(***************************************************************************)
EXTENDS Integers, FiniteSets

CONSTANTS
  N,           \* entries in the configuration
  Limit,       \* maxRenewBatch
  Order,       \* order number of each entry
  Cred,        \* API credential of each entry: its URL and its token
  Endpoints,
  Claims,      \* endpoints named by the bind rules of each entry
  Windows,     \* renewal windows, in days, the server may ask for
  Life,        \* days a renewed certificate is valid
  FirstExpiry, \* days on which the first certificates may expire
  MaxDay,      \* bound: the last day, on which the clock stands still
  MaxEdits,    \* bound: edits and runs of one entry by the administrator
  MaxFaults    \* bound: crashes and failed saves

Certs == 1 .. N

ASSUME AutoRunAssumption ==
  /\ N \in Nat \ {0} /\ Limit \in Nat \ {0}
  /\ Claims \in [Certs -> SUBSET Endpoints] /\ DOMAIN Cred = Certs
  /\ Order \in [Certs -> Nat] /\ \A c, d \in Certs : Order[c] = Order[d] => c = d
  /\ Life \in Nat /\ MaxDay \in Nat /\ MaxEdits \in Nat /\ MaxFaults \in Nat
  /\ Windows \subseteq Nat \ {0} /\ Windows # {} /\ \A w \in Windows : w < Life
  /\ FirstExpiry \subseteq 1 .. Life

Stale == N + 1
Keep == N + 2    \* a run of one entry leaves the cursor alone
Days == 0 .. MaxDay + Life

VARIABLES
  \* the tool
  pc,        \* "idle", or where the run is: "cert", "save", "finish"
  disk, mem, \* config.json, and the document in the running process
  todo, next,\* entries of the batch still to be handled, cursor for the next run
  blocked,   \* credentials refused in this run (authGate.blocked)
  report,    \* window the client of the entry being handled knows, if its
             \* deployment is to be called back
  sent, out, \* callbacks sent in this run, and those not answered yet
  renewSeq, renewDays, \* Deployer: latest callback that changed the window
  \* around it
  day,
  \* history
  turn,      \* entry handled by the last step, or 0
  since,     \* entries handled since the last turn of each entry
  refused, skipped, \* entries refused by the server, passed over by the gate
  wrote,     \* endpoints written in this run, with the entry that wrote them
  changes,   \* callbacks of this run that changed the window
  edits, faults

docVars  == <<disk, mem>>
batchVars == <<todo, next>>
callVars == <<sent, out, renewSeq, renewDays, changes>>
entryVars == <<report, wrote>>
envVars  == <<day, edits>>
gateVars == <<blocked, refused, skipped>>
runHist  == <<turn, since, faults>>
vars == <<pc, docVars, batchVars, entryVars, callVars, envVars, gateVars, runHist>>

-----------------------------------------------------------------------------
(* State spaces. *)

\* Mutant: the gate keyed by the URL alone.
KeyOfServer(c) == Cred[c][1]

\* apiTokenKey
Key(c) == Cred[c]

Docs == [on : SUBSET Certs, cursor : 0 .. Stale, window : Windows, exp : [Certs -> Days]]

Callbacks == [seq : 1 .. N, before : Windows \cup {0}]

TypeOK ==
  /\ pc \in {"idle", "cert", "save", "finish"}
  /\ disk \in Docs /\ mem \in Docs
  /\ todo \subseteq Certs /\ next \in (0 .. N) \cup {Keep}
  /\ (pc \in {"cert", "save"} => todo # {})
  /\ blocked \subseteq {Key(c) : c \in Certs}
  /\ report \subseteq Windows \cup {0}
  /\ sent \in 0 .. N /\ out \subseteq Callbacks
  /\ renewSeq \in 0 .. N /\ renewDays \in Windows \cup {0}
  /\ day \in 0 .. MaxDay
  /\ turn \in 0 .. N /\ since \in [Certs -> SUBSET Certs]
  /\ refused \subseteq Certs /\ skipped \subseteq Certs
  /\ wrote \subseteq Endpoints \X Certs
  /\ changes \subseteq (1 .. N) \X Windows
  /\ edits \in 0 .. MaxEdits /\ faults \in 0 .. MaxFaults

\* setup has deployed every entry.
Init ==
  /\ pc = "idle"
  /\ \E on \in SUBSET Certs, exp \in [Certs -> FirstExpiry], w \in Windows :
       disk = [on |-> on, cursor |-> 0, window |-> w, exp |-> exp]
  /\ mem = disk
  /\ todo = {} /\ next = 0 /\ blocked = {}
  /\ report = {} /\ sent = 0 /\ out = {} /\ renewSeq = 0 /\ renewDays = 0
  /\ day = 0
  /\ turn = 0 /\ since = [c \in Certs |-> {}]
  /\ refused = {} /\ skipped = {} /\ wrote = {} /\ changes = {}
  /\ edits = 0 /\ faults = 0

Goto(label) == pc' = label

Least(S) == CHOOSE c \in S : \A d \in S : c <= d

Now == Least(todo)    \* the entry being handled

\* Nobody can be said to be overtaken across an edit or a fault.
Forgive == since' = [c \in Certs |-> {}]

-----------------------------------------------------------------------------
(* Choosing the batch: selectBatch. *)

Eligible(doc) == {c \in doc.on : doc.cursor \in doc.on => c >= doc.cursor}

\* Mutant: one entry more than the limit.
BatchOneMore(doc) ==
  {c \in Eligible(doc) : Cardinality({d \in Eligible(doc) : d < c}) <= Limit}

Batch(doc) == {c \in Eligible(doc) : Cardinality({d \in Eligible(doc) : d < c}) < Limit}

Remaining(doc) == Eligible(doc) \ Batch(doc)

\* Mutant: the cursor is the last entry of this batch, one too early.
NextCursorLast(doc) ==
  IF Remaining(doc) = {} THEN 0
  ELSE CHOOSE c \in Batch(doc) : \A d \in Batch(doc) : c >= d

\* Mutant: a batch that reaches the end leaves the cursor where it was.
NextCursorStays(doc) == IF Remaining(doc) = {} THEN doc.cursor ELSE Least(Remaining(doc))

NextCursor(doc) == IF Remaining(doc) = {} THEN 0 ELSE Least(Remaining(doc))

StartRun ==
  /\ pc = "idle"
  /\ mem' = disk
  /\ todo' = Batch(disk) /\ next' = NextCursor(disk)
  /\ Goto(IF Batch(disk) = {} THEN "finish" ELSE "cert")
  /\ turn' = 0
  /\ UNCHANGED <<disk, entryVars, callVars, gateVars, since, faults, envVars>>

\* RunOptions.OnlyOrderID: the administrator runs one entry.
StartOne(c) ==
  /\ pc = "idle" /\ c \in disk.on
  /\ edits < MaxEdits /\ edits' = edits + 1
  /\ mem' = disk
  /\ todo' = {c} /\ next' = Keep
  /\ Goto("cert")
  /\ turn' = 0
  /\ Forgive
  /\ UNCHANGED <<disk, entryVars, callVars, gateVars, faults, day>>

-----------------------------------------------------------------------------
(* One entry: the gates, the request, the deployment. *)

Handled ==
  /\ Goto("save") /\ turn' = 0
  /\ UNCHANGED <<disk, batchVars, callVars, envVars, since, faults>>

Expired(c) == mem.exp[c] <= day

\* An entry that has expired is closed, and any other may be, capped or blocked by
\* policy: nothing is asked, whether its credential was refused or not.
GateClosed ==
  /\ pc = "cert"
  /\ Handled
  /\ UNCHANGED <<mem, entryVars, gateVars>>

GateSkips ==
  /\ pc = "cert" /\ ~Expired(Now) /\ Key(Now) \in blocked
  /\ skipped' = skipped \cup {Now}
  /\ Handled
  /\ UNCHANGED <<mem, entryVars, blocked, refused>>

Asks == pc = "cert" /\ ~Expired(Now) /\ Key(Now) \notin blocked

\* Mutant: the refusal is not recorded.
RefusedForgotten ==
  /\ Asks
  /\ refused' = refused \cup {Now}
  /\ Handled
  /\ UNCHANGED <<mem, entryVars, blocked, skipped>>

Refused ==
  /\ Asks
  /\ blocked' = blocked \cup {Key(Now)}
  /\ refused' = refused \cup {Now}
  /\ Handled
  /\ UNCHANGED <<mem, entryVars, skipped>>

Unanswered ==
  /\ Asks
  /\ Handled
  /\ UNCHANGED <<mem, entryVars, gateVars>>

Due(c) == mem.exp[c] - day <= mem.window

\* The window the answer carries, if any: updateRenewBeforeDays.
Window(w) == IF w = 0 THEN mem.window ELSE w

\* Not due, or due and not issued yet, or no binding is this entry's to change.
NothingNew(w) ==
  /\ Asks
  /\ mem' = [mem EXCEPT !.window = Window(w)]
  /\ Handled
  /\ UNCHANGED <<entryVars, gateVars>>

\* Mutant: the claimant that expires first.
Earlier(c, d) == mem.exp[c] < mem.exp[d] \/ (mem.exp[c] = mem.exp[d] /\ Order[c] < Order[d])

Later(c, d) == mem.exp[c] > mem.exp[d] \/ (mem.exp[c] = mem.exp[d] /\ Order[c] > Order[d])

Claimants(e) == {c \in mem.on : e \in Claims[c]}

\* selectBestCertIndexForDomainByIndexes, on the metadata of this moment.
Best(c, e) == \A d \in Claimants(e) \ {c} : Later(c, d)

\* executableRuleTargets: a contested endpoint is left to its best claimant.
Targets(c) == {e \in Claims[c] : Best(c, e)}

\* The server may have moved the entry to a new order.
Taken(w, moved) ==
  [mem EXCEPT !.window = Window(w), !.cursor = IF moved /\ @ = Now THEN Stale ELSE @]

\* The certificate renewed for this entry is bound and adopted.
Deploys(w) ==
  /\ Asks /\ Due(Now) /\ Targets(Now) # {}
  /\ \E moved \in BOOLEAN :
       mem' = [Taken(w, moved) EXCEPT !.exp[Now] = day + Life]
  /\ wrote' = wrote \cup (Targets(Now) \X {Now})
  /\ report' = {w}
  /\ Handled
  /\ UNCHANGED gateVars

\* Nothing could be installed, or nothing bound.
DeployFails(w) ==
  /\ Asks /\ Due(Now)
  /\ \E moved \in BOOLEAN : mem' = Taken(w, moved)
  /\ report' = {w}
  /\ Handled
  /\ UNCHANGED <<wrote, gateVars>>

-----------------------------------------------------------------------------
(* After each entry the document is saved, whatever the outcome.  The outcome  *)
(* of a deployment is called back once it is on disk: the callback's number    *)
(* is taken when it is sent, and with it the window its client knows then.     *)

SendCallback ==
  /\ sent' = sent + Cardinality(report)
  /\ out' = out \cup {[seq |-> sent + 1, before |-> w] : w \in report}

NextEntry ==
  /\ todo' = todo \ {Now}
  /\ Goto(IF todo' = {} THEN "finish" ELSE "cert")
  /\ turn' = Now
  /\ report' = {}
  /\ UNCHANGED <<next, wrote, renewSeq, renewDays, changes, envVars, gateVars>>

SaveCert ==
  /\ pc = "save"
  /\ disk' = mem
  /\ IF next = Keep
       THEN Forgive
       ELSE since' = [c \in Certs |-> IF c = Now THEN {} ELSE since[c] \cup {Now}]
  /\ SendCallback
  /\ NextEntry
  /\ UNCHANGED <<mem, faults>>

\* The outcome of a deployment is taken back and not called back; the save that
\* follows every entry may still write the rest.
SaveCertFails ==
  /\ pc = "save" /\ faults < MaxFaults
  /\ faults' = faults + 1
  /\ mem' = [mem EXCEPT !.exp[Now] = disk.exp[Now], !.cursor = disk.cursor]
  /\ disk' = disk \/ (report # {} /\ disk' = mem')
  /\ Forgive
  /\ NextEntry
  /\ UNCHANGED <<sent, out>>

-----------------------------------------------------------------------------
(* Callbacks run concurrently with the run and with each other. *)

Quiet ==
  /\ turn' = 0
  /\ UNCHANGED <<pc, docVars, batchVars, entryVars, sent, envVars, gateVars, since, faults>>

\* Mutant: the last answer to arrive wins.
RecordsAny(seq) == TRUE

\* recordCallbackRenewBeforeDays
Records(seq) == seq >= renewSeq

CallbackChanges(cb, w) ==
  /\ cb \in out /\ w # cb.before
  /\ out' = out \ {cb}
  /\ changes' = changes \cup {<<cb.seq, w>>}
  /\ IF Records(cb.seq)
       THEN renewSeq' = cb.seq /\ renewDays' = w
       ELSE UNCHANGED <<renewSeq, renewDays>>
  /\ Quiet

\* The same window as before, none, or no answer at all.
CallbackEnds(cb) ==
  /\ cb \in out
  /\ out' = out \ {cb}
  /\ UNCHANGED <<renewSeq, renewDays, changes>>
  /\ Quiet

-----------------------------------------------------------------------------
(* The end of the run: WaitCallbacks, ApplyCallbackRenewBeforeDays, final save. *)

Applied == IF renewDays = 0 THEN mem.window ELSE renewDays

\* The process ends, and with it everything it knew.
ProcessEnds ==
  /\ Goto("idle")
  /\ mem' = disk'
  /\ todo' = {} /\ next' = 0 /\ report' = {}
  /\ blocked' = {} /\ refused' = {} /\ skipped' = {} /\ wrote' = {}
  /\ sent' = 0 /\ out' = {} /\ renewSeq' = 0 /\ renewDays' = 0 /\ changes' = {}
  /\ turn' = 0
  /\ UNCHANGED envVars

WaitCallbacks == pc = "finish" /\ out = {}

Finish ==
  /\ WaitCallbacks
  /\ disk' = [mem EXCEPT !.window = Applied, !.cursor = IF next = Keep THEN @ ELSE next]
  /\ ProcessEnds
  /\ UNCHANGED <<since, faults>>

FinishSaveFails ==
  /\ WaitCallbacks /\ faults < MaxFaults
  /\ faults' = faults + 1
  /\ UNCHANGED disk
  /\ ProcessEnds
  /\ Forgive

Crash ==
  /\ pc # "idle" /\ faults < MaxFaults
  /\ faults' = faults + 1
  /\ UNCHANGED disk
  /\ ProcessEnds
  /\ Forgive

-----------------------------------------------------------------------------
(* Between runs: the clock and the administrator. *)

Between ==
  /\ pc = "idle" /\ turn' = 0
  /\ UNCHANGED <<pc, batchVars, entryVars, callVars, gateVars, faults>>

NextDay ==
  /\ Between
  /\ day < MaxDay /\ day' = day + 1
  /\ UNCHANGED <<docVars, since, edits>>

\* Enable, disable, add (an entry at the end) or remove an entry.
Edit(c) ==
  /\ Between
  /\ edits < MaxEdits /\ edits' = edits + 1
  /\ disk' = [disk EXCEPT !.on = IF c \in @ THEN @ \ {c} ELSE @ \cup {c}]
  /\ mem' = disk'
  /\ Forgive
  /\ UNCHANGED day

-----------------------------------------------------------------------------

Answers == Windows \cup {0}

Entry ==
  \/ GateClosed \/ GateSkips \/ Refused \/ Unanswered
  \/ \E w \in Answers : NothingNew(w) \/ Deploys(w) \/ DeployFails(w)

CallbackStep ==
  \E cb \in out : CallbackEnds(cb) \/ \E w \in Windows : CallbackChanges(cb, w)

Run == StartRun \/ Entry \/ SaveCert \/ Finish

Faulty == SaveCertFails \/ FinishSaveFails \/ Crash

Next ==
  \/ Run \/ Faulty \/ CallbackStep \/ NextDay
  \/ \E c \in Certs : Edit(c) \/ StartOne(c)

Spec == Init /\ [][Next]_vars

\* The task is started every day and runs to its end; a callback is answered or
\* times out.
FairSpec == Spec /\ WF_vars(Run) /\ WF_vars(CallbackStep)

-----------------------------------------------------------------------------
(* Properties. *)

\* A server that refuses a credential is not asked with it again in this run:
\* two entries are never refused for the same credential (authGate, auto.go:391).
RefusedOnce ==
  \A c, d \in refused : c # d => Cred[c] # Cred[d]

\* An entry is passed over only when its own credential, not just its server or
\* its account, was refused in this run (auth_gate.go:32, apiTokenKey).
OthersStillAsked ==
  \A c \in skipped : \E d \in refused : Cred[d] = Cred[c]

\* Of two entries that claim an endpoint only one writes it in a run, although
\* the best of them is judged on metadata the run itself changes
\* (auto.go:1031, executableRuleTargets).
OneWriterPerRun ==
  \A e \in Endpoints, c, d \in Certs :
    <<e, c>> \in wrote /\ <<e, d>> \in wrote => c = d

\* A run of the task takes up maxRenewBatch entries, or all that are left of the
\* round when they are fewer: the cursor never leaves it with a smaller batch
\* (selectBatch, auto.go:123).
BatchFilled ==
  [][StartRun =>
       LET left == Cardinality(Eligible(disk))
       IN  Cardinality(todo') = IF left < Limit THEN left ELSE Limit]_vars

\* Between two turns of an enabled entry no other entry gets two by the task, as long as
\* nothing fails and the configuration is left alone (selectBatch: the cursor
\* neither skips the first entry of the next batch nor repeats the last one).
NobodyOvertaken ==
  [][\A c \in Certs :
       turn' # 0 /\ turn' \in since[c] /\ since' # [d \in Certs |-> {}] => c \notin mem.on]_vars

\* The window a run leaves is that of the latest callback that changed it,
\* whatever the order in which the answers came (interfaces.go:189).
LatestCallbackWins ==
  [][pc = "finish" /\ disk' # disk /\ changes # {} =>
       \E x \in changes : disk'.window = x[2] /\ \A y \in changes : y[1] <= x[1]]_vars

\* Every entry that stays enabled is handled again and again, however many
\* there are and wherever a crash, an edit or a new order number left the cursor
\* (auto.go:99).
EveryEntryHandled ==
  \A c \in Certs : []<>(turn = c \/ c \notin disk.on)

=============================================================================
