--------------------------- MODULE ValidationFiles ---------------------------
(***************************************************************************)
(* Tokens that prove control of a domain: files a run puts below the web   *)
(* roots of the sites of a certificate while its order is being processed, *)
(* and takes away again.  The client removes only what it owns; what it    *)
(* owns is what the metadata of the certificate records, with the hash of  *)
(* the content.                                                            *)
(*                                                                         *)
(* Sources: src/deploy/validation_files.go, and in src/deploy/auto.go      *)
(* handleProcessingOrder, rollbackValidationToken,                         *)
(* cleanupOwnedValidationFiles with its callers, lifecycle.go markStalled. *)
(*                                                                         *)
(* One relative path below each root: files of different paths do not      *)
(* meet.  Sites are numbered in the order of their names, certificates in  *)
(* the order of the file; a site is its web root.  One run at a time       *)
(* (SharedConfig).  What a run does to an order besides its tokens is one  *)
(* step (Issuance has it in detail).                                       *)
(***************************************************************************)
EXTENDS Integers, FiniteSets

CONSTANTS
  N,         \* certificates in the configuration
  Sites,     \* numbers of the web roots
  Roots,     \* web roots of each certificate: resolveValidationRoots
  Contents,  \* contents of tokens
  None,
  Admin,     \* whoever else writes below a web root
  MaxOrders, \* bound: orders submitted
  MaxEdits,  \* bound: files put, changed or removed by Admin
  MaxFaults  \* bound: crashes and failed operations

Certs == 1 .. N

ASSUME ValidationAssumption ==
  /\ N \in Nat \ {0} /\ Sites \subseteq Nat /\ IsFiniteSet(Sites)
  /\ Roots \in [Certs -> SUBSET Sites]
  /\ None \notin Contents /\ Admin \notin Certs
  /\ MaxOrders \in Nat /\ MaxEdits \in Nat /\ MaxFaults \in Nat

VARIABLES
  file,      \* the file below each root
  disk, mem, \* config.json, and the document of the running process
  token,     \* content the server wants for the order of each certificate, if any
  \* the run
  pc, cur,   \* where it is, and the certificate it handles
  todo,      \* roots still to be looked at
  gone,      \* roots whose record is to be dropped
  \* history
  made,      \* <<c, s, x>>: c once created x below s
  touched,   \* roots Admin changed since the run began to place tokens
  astray,    \* roots where a token was left by a crash or a failed rollback
  orders, edits, faults

runVars == <<pc, cur, todo, gone>>
counts  == <<orders, edits, faults>>
vars == <<file, disk, mem, token, runVars, made, touched, astray, counts>>

-----------------------------------------------------------------------------
(* State spaces. *)

\* "expired" stands for every terminal state but CAPPED by no progress.
States == {"settled", "processing", "stalled", "expired"}

Records == [Certs -> [Sites -> Contents \cup {None}]]

Docs == [state : [Certs -> States], owned : Records]

\* A file and, for the record, who put it there.
Files == [content : Contents, by : Certs \cup {Admin}]

NoToken == [content |-> None, by |-> Admin]

Labels == {"idle", "cert", "place", "own", "undo", "clean", "drop", "save"}

TypeOK ==
  /\ file \in [Sites -> Files \cup {NoToken}]
  /\ disk \in Docs /\ mem \in Docs
  /\ token \in [Certs -> Contents \cup {None}]
  /\ pc \in Labels /\ cur \in Certs
  /\ todo \subseteq Sites /\ gone \subseteq Sites
  /\ (pc \in {"own", "undo"} => todo # {})
  /\ made \subseteq Certs \X Sites \X Contents
  /\ touched \subseteq Sites /\ astray \subseteq Sites
  /\ orders \in 0 .. MaxOrders /\ edits \in 0 .. MaxEdits /\ faults \in 0 .. MaxFaults

Init ==
  /\ file \in [Sites -> [content : Contents, by : {Admin}] \cup {NoToken}]
  /\ disk = [state |-> [c \in Certs |-> "settled"],
             owned |-> [c \in Certs |-> [s \in Sites |-> None]]]
  /\ mem = disk
  /\ token = [c \in Certs |-> None]
  /\ pc = "idle" /\ cur = 1 /\ todo = {} /\ gone = {}
  /\ made = {} /\ touched = {} /\ astray = {}
  /\ orders = 0 /\ edits = 0 /\ faults = 0

Goto(label) == pc' = label

Fault == faults < MaxFaults /\ faults' = faults + 1 /\ UNCHANGED <<orders, edits>>

\* The root whose turn it is.
Now(s) == s \in todo /\ \A t \in todo : s <= t

Done(s) == todo' = todo \ {s}

Empty(s) == file[s] = NoToken

Owned(c) == {s \in Sites : mem.owned[c][s] # None}

-----------------------------------------------------------------------------
(* The run, certificate by certificate. *)

StartRun ==
  /\ pc = "idle"
  /\ Goto("cert")
  /\ UNCHANGED <<file, disk, mem, token, cur, todo, gone, made, touched, astray, counts>>

AtCert(state) == pc = "cert" /\ mem.state[cur] = state

Quiet == UNCHANGED <<file, token, cur, gone, made, touched, astray, counts>>

\* Mutant: nothing is done for a stalled certificate.
NeverRetries == FALSE

\* A stalled certificate that still owns tokens is looked at before the gate.
Retries == AtCert("stalled") /\ Owned(cur) # {}

\* evaluateAutoActionGate
GateCloses ==
  /\ AtCert("expired") \/ (AtCert("stalled") /\ ~Retries)
  /\ Goto("save")
  /\ UNCHANGED <<disk, mem, todo>> /\ Quiet

StalledCleanup ==
  /\ Retries
  /\ Goto("clean") /\ todo' = Owned(cur)
  /\ UNCHANGED <<disk, mem>> /\ Quiet

Asks == AtCert("settled") \/ AtCert("processing")

\* Not due, no answer, a refusal, or processing without a token.
NothingToPlace ==
  /\ Asks
  /\ Goto("save")
  /\ UNCHANGED <<disk, mem, todo>> /\ Quiet

InState(doc, state) == [doc EXCEPT !.state[cur] = state]

Expires ==
  /\ Asks \/ (AtCert("stalled") /\ ~Retries)
  /\ mem' = InState(mem, "expired")
  /\ Goto("save")
  /\ UNCHANGED <<disk, todo>> /\ Quiet

\* A CSR is accepted, the order saved, and the answer names a token.
Submits(x) ==
  /\ Asks
  /\ orders < MaxOrders /\ orders' = orders + 1 /\ UNCHANGED <<edits, faults>>
  /\ mem' = InState(mem, "processing") /\ disk' = mem'
  /\ token' = [token EXCEPT ![cur] = x]
  /\ Goto("place") /\ todo' = Roots[cur]
  /\ UNCHANGED <<file, cur, gone, made, touched, astray>>

\* handleProcessingOrder on a later day
StillProcessing ==
  /\ AtCert("processing")
  /\ Goto("place") /\ todo' = Roots[cur]
  /\ UNCHANGED <<disk, mem>> /\ Quiet

\* Issued, deployed, adopted and saved.
Accepted ==
  /\ Asks
  /\ mem' = InState(mem, "settled") /\ disk' = mem'
  /\ token' = [token EXCEPT ![cur] = None]
  /\ Goto("clean") /\ todo' = Owned(cur)
  /\ UNCHANGED <<file, cur, gone, made, touched, astray, counts>>

\* markStalled: the terminal state is saved before anything is removed.
Stalls ==
  /\ Asks
  /\ mem' = InState(mem, "stalled") /\ disk' = mem'
  /\ Goto("clean") /\ todo' = Owned(cur)
  /\ Quiet

StallNotSaved ==
  /\ Asks
  /\ Fault
  /\ mem' = InState(mem, "stalled")
  /\ Goto("save")
  /\ UNCHANGED <<file, disk, token, cur, todo, gone, made, touched, astray>>

\* The process ends, and with it what it knew.
ProcessEnds == Goto("idle") /\ cur' = 1 /\ mem' = disk'

NextCert ==
  /\ IF cur = N THEN ProcessEnds ELSE Goto("cert") /\ cur' = cur + 1 /\ UNCHANGED mem
  /\ todo' = {} /\ gone' = {} /\ touched' = {}
  /\ UNCHANGED <<file, token, made, astray>>

\* The save that follows every certificate.
SaveCert ==
  /\ pc = "save"
  /\ disk' = mem
  /\ NextCert
  /\ UNCHANGED counts

SaveCertFails ==
  /\ pc = "save" /\ Fault
  /\ UNCHANGED disk
  /\ NextCert

-----------------------------------------------------------------------------
(* Placing: handleProcessingOrder, PlaceToken, rollbackValidationToken. *)

Placing(s) == pc = "place" /\ Now(s)

\* Mutant: what is used is owned.
ReuseOwns(s) ==
  /\ Placing(s) /\ file[s].content = token[cur]
  /\ Goto("own")
  /\ UNCHANGED <<file, disk, mem, token, cur, todo, gone, made, touched, astray, counts>>

\* The same content is there already, made by whomever: used, not owned.
Reuse(s) ==
  /\ Placing(s) /\ file[s].content = token[cur]
  /\ Done(s)
  /\ UNCHANGED <<file, disk, mem, token, pc, cur, gone, made, touched, astray, counts>>

\* Another content is never overwritten; the roots that follow are not tried.
Refuse(s) ==
  /\ Placing(s) /\ file[s].content \notin {None, token[cur]}
  /\ Goto("save")
  /\ UNCHANGED <<file, disk, mem, token, cur, todo, gone, made, touched, astray, counts>>

\* Mutant: a root with a record is taken to hold the token.
CreateUnlessOwned(s) ==
  /\ Placing(s) /\ Empty(s)
  /\ IF mem.owned[cur][s] # None
       THEN Done(s) /\ UNCHANGED <<file, pc, made>>
       ELSE /\ file' = [file EXCEPT ![s] = [content |-> token[cur], by |-> cur]]
            /\ made' = made \cup {<<cur, s, token[cur]>>}
            /\ Goto("own") /\ UNCHANGED todo
  /\ UNCHANGED <<disk, mem, token, cur, gone, touched, astray, counts>>

\* Created exclusively, also where a record says it once was.
Create(s) ==
  /\ Placing(s) /\ Empty(s)
  /\ file' = [file EXCEPT ![s] = [content |-> token[cur], by |-> cur]]
  /\ made' = made \cup {<<cur, s, token[cur]>>}
  /\ Goto("own")
  /\ UNCHANGED <<disk, mem, token, cur, todo, gone, touched, astray, counts>>

\* A site is stopped, a directory or the file cannot be created.
PlaceFails ==
  /\ pc = "place" /\ todo # {}
  /\ Fault
  /\ Goto("save")
  /\ UNCHANGED <<file, disk, mem, token, cur, todo, gone, made, touched, astray>>

\* "CSR submitted, waiting for the certificate"
Placed ==
  /\ pc = "place" /\ todo = {}
  /\ Goto("save")
  /\ UNCHANGED <<disk, mem, todo>> /\ Quiet

\* The record of a new token is on disk before the next root is looked at.
Own(s) ==
  /\ pc = "own" /\ Now(s)
  /\ mem' = [mem EXCEPT !.owned[cur][s] = token[cur]] /\ disk' = mem'
  /\ Goto("place") /\ Done(s)
  /\ UNCHANGED <<file, token, cur, gone, made, touched, astray, counts>>

\* Mutant: a token that could not be recorded stays.
OwnFailsKeeps(s) ==
  /\ pc = "own" /\ Now(s)
  /\ Fault
  /\ Goto("save")
  /\ UNCHANGED <<file, disk, mem, token, cur, todo, gone, made, touched, astray>>

\* The record in memory is what it was, and the new token is taken back.
OwnFails(s) ==
  /\ pc = "own" /\ Now(s)
  /\ Fault
  /\ Goto("undo")
  /\ UNCHANGED <<file, disk, mem, token, cur, todo, gone, made, touched, astray>>

\* RemoveToken: a file that is not what the record says is left alone.
Remove(s, x) ==
  file' = IF file[s].content = x THEN [file EXCEPT ![s] = NoToken] ELSE file

Undo(s) ==
  /\ pc = "undo" /\ Now(s)
  /\ Remove(s, token[cur])
  /\ Goto("save")
  /\ UNCHANGED <<disk, mem, token, cur, todo, gone, made, touched, astray, counts>>

\* It may fail for the reason the save did: no fault of its own is counted.
UndoFails(s) ==
  /\ pc = "undo" /\ Now(s)
  /\ astray' = astray \cup {s}
  /\ Goto("save")
  /\ UNCHANGED <<file, disk, mem, token, cur, todo, gone, made, touched, counts>>

-----------------------------------------------------------------------------
(* Cleaning up: cleanupOwnedValidationFiles. *)

Cleaning(s) == pc = "clean" /\ Now(s)

\* Removed, or missing already: the record can go.
CleanRoot(s) ==
  /\ Cleaning(s)
  /\ Remove(s, mem.owned[cur][s])
  /\ gone' = IF file'[s] = NoToken THEN gone \cup {s} ELSE gone
  /\ Done(s)
  /\ UNCHANGED <<disk, mem, token, pc, cur, made, touched, astray, counts>>

\* The site cannot be resolved, or the file not be removed: the record stays.
CleanFails(s) ==
  /\ Cleaning(s)
  /\ Fault
  /\ Done(s)
  /\ UNCHANGED <<file, disk, mem, token, pc, cur, gone, made, touched, astray>>

EndClean ==
  /\ pc = "clean" /\ todo = {}
  /\ Goto(IF gone = {} THEN "save" ELSE "drop")
  /\ UNCHANGED <<disk, mem, todo>> /\ Quiet

DropRecords ==
  /\ pc = "drop"
  /\ mem' = [mem EXCEPT !.owned[cur] = [s \in Sites |-> IF s \in gone THEN None ELSE @[s]]]
  /\ disk' = mem'
  /\ Goto("save")
  /\ UNCHANGED todo /\ Quiet

\* The records in memory are what they were.
DropFails ==
  /\ pc = "drop"
  /\ Fault
  /\ Goto("save")
  /\ UNCHANGED <<file, disk, mem, token, cur, todo, gone, made, touched, astray>>

-----------------------------------------------------------------------------
(* Around the run. *)

Crash ==
  /\ pc # "idle"
  /\ Fault
  /\ astray' = IF pc \in {"own", "undo"} THEN astray \cup {s \in todo : Now(s)} ELSE astray
  /\ UNCHANGED <<file, disk, token, made>>
  /\ ProcessEnds
  /\ todo' = {} /\ gone' = {} /\ touched' = {}

\* Somebody puts, replaces or removes a file.
AdminEdits(s) ==
  /\ edits < MaxEdits /\ edits' = edits + 1 /\ UNCHANGED <<orders, faults>>
  /\ \E f \in [content : Contents, by : {Admin}] \cup {NoToken} :
       f # file[s] /\ file' = [file EXCEPT ![s] = f]
  /\ touched' = IF pc \in {"place", "own"} THEN touched \cup {s} ELSE touched
  /\ UNCHANGED <<disk, mem, token, runVars, made, astray>>

-----------------------------------------------------------------------------

PlaceStep(s) == Reuse(s) \/ Refuse(s) \/ Create(s) \/ Own(s) \/ Undo(s)

CleanStep == EndClean \/ DropRecords \/ \E s \in Sites : CleanRoot(s)

CertStep ==
  \/ GateCloses \/ StalledCleanup \/ NothingToPlace \/ StillProcessing
  \/ Accepted \/ Stalls \/ Expires
  \/ \E x \in Contents : Submits(x)

Run ==
  \/ StartRun \/ CertStep \/ SaveCert
  \/ Placed \/ \E s \in Sites : PlaceStep(s)
  \/ CleanStep

Faulty ==
  \/ StallNotSaved \/ SaveCertFails \/ PlaceFails \/ DropFails \/ Crash
  \/ \E s \in Sites : OwnFails(s) \/ UndoFails(s) \/ CleanFails(s)

Next == Run \/ Faulty \/ \E s \in Sites : AdminEdits(s)

Spec == Init /\ [][Next]_vars

\* The task is started every day and runs to its end.
FairSpec == Spec /\ WF_vars(Run)

-----------------------------------------------------------------------------
(* Properties. *)

\* A token of the client is recorded by the certificate it was made for, from
\* the moment the run goes on to the next root until it is removed; only a crash
\* before the record is saved, or a rollback that fails as well, leaves one
\* astray (auto.go:1162).
NoTokenAstray ==
  \A s \in Sites :
    \/ file[s].by = Admin
    \/ disk.owned[file[s].by][s] = file[s].content
    \/ s \in astray
    \/ pc \in {"own", "undo"} /\ Now(s)

\* The client removes a file only for a certificate that itself once made one of
\* that content in that place, and replaces none (auto.go:1135,
\* validation_files.go:216).
ForeignFilesKept ==
  [][edits' = edits =>
       \A s \in Sites : ~Empty(s) /\ file'[s] # file[s] =>
         file'[s] = NoToken /\ <<cur, s, file[s].content>> \in made]_vars

\* When a run reports that it waits for the certificate, the token is below every
\* root, those the client recorded on an earlier day included, unless somebody
\* else has just changed it (auto.go:1129).
PlacedEverywhere ==
  [][Placed => \A s \in Roots[cur] \ touched : file[s].content = token[cur]]_vars

\* What a certificate that was stopped for want of progress still owns is removed
\* in the end, whatever failed before, unless somebody has put another file there
\* (auto.go:355).
StalledTokensGo ==
  \A c \in Certs, s \in Sites :
    disk.state[c] = "stalled" ~>
      (disk.owned[c][s] = None \/ file[s].content \notin {None, disk.owned[c][s]})

=============================================================================
