--------------------------- MODULE ValidationProofs ---------------------------
(***************************************************************************)
(* Theorems about ValidationFiles, for any certificates, sites, contents   *)
(* and bounds.                                                             *)
(***************************************************************************)
EXTENDS ValidationFiles, TLAPS

LEMMA NoTokenFacts ==
  /\ NoToken.content = None /\ NoToken.by = Admin
  /\ \A f \in Files : f # NoToken /\ f.content \in Contents /\ f.content # None
                     /\ f.by \in Certs \cup {Admin}
  /\ \A c \in Certs, x \in Contents : [content |-> x, by |-> c] \in Files
  BY ValidationAssumption DEF NoToken, Files

\* One root has its turn at a time.
LEMMA OneNow ==
  ASSUME todo \subseteq Sites, NEW s \in Sites, NEW t \in Sites, Now(s), Now(t)
  PROVE  s = t
<1>1. Sites \subseteq Nat
  BY ValidationAssumption
<1>2. s <= t /\ t <= s
  BY DEF Now
<1> QED
  BY <1>1, <1>2

LEMMA InStateFacts ==
  ASSUME NEW doc \in Docs, NEW st \in States, cur \in Certs
  PROVE  /\ InState(doc, st) \in Docs
         /\ InState(doc, st).owned = doc.owned
         /\ InState(doc, st).state[cur] = st
         /\ \A c \in Certs \ {cur} : InState(doc, st).state[c] = doc.state[c]
<1>1. doc.state \in [Certs -> States] /\ doc.owned \in Records
  BY DEF Docs
<1>2. InState(doc, st) = [state |-> [doc.state EXCEPT ![cur] = st], owned |-> doc.owned]
  BY DEF Docs, InState
<1>3. [doc.state EXCEPT ![cur] = st] \in [Certs -> States]
  BY <1>1
<1> QED
  BY <1>1, <1>2, <1>3 DEF Docs

LEMMA StateNames == {"settled", "processing", "stalled", "expired"} \subseteq States
  BY DEF States

\* The document after a change of the records of the current certificate.
LEMMA OwnedFacts ==
  ASSUME NEW doc \in Docs, NEW r \in [Sites -> Contents \cup {None}], cur \in Certs
  PROVE  /\ [doc EXCEPT !.owned[cur] = r] \in Docs
         /\ [doc EXCEPT !.owned[cur] = r].state = doc.state
         /\ [doc EXCEPT !.owned[cur] = r].owned[cur] = r
         /\ \A c \in Certs \ {cur} : [doc EXCEPT !.owned[cur] = r].owned[c] = doc.owned[c]
<1>1. doc.state \in [Certs -> States] /\ doc.owned \in Records
  BY DEF Docs
<1>2. [doc EXCEPT !.owned[cur] = r] = [state |-> doc.state, owned |-> [doc.owned EXCEPT ![cur] = r]]
  BY DEF Docs
<1>3. [doc.owned EXCEPT ![cur] = r] \in Records
  BY <1>1 DEF Records
<1> QED
  BY <1>1, <1>2, <1>3 DEF Docs, Records

\* What the two steps that change records do to the document.
LEMMA RecordsOf ==
  ASSUME TypeOK
  PROVE  /\ mem.owned \in Records /\ mem.owned[cur] \in [Sites -> Contents \cup {None}]
         /\ \A s \in Sites, x \in Contents \cup {None} :
              [mem EXCEPT !.owned[cur][s] = x]
                = [mem EXCEPT !.owned[cur] = [mem.owned[cur] EXCEPT ![s] = x]]
  BY DEF TypeOK, Docs, Records

-----------------------------------------------------------------------------
(* Types. *)

\* A token is only placed, recorded or taken back for an order that has one.
TokenInv ==
  /\ pc \in {"place", "own", "undo"} => token[cur] # None
  /\ \A c \in Certs : mem.state[c] = "processing" \/ disk.state[c] = "processing"
                      => token[c] # None

TypeInv == TypeOK /\ TokenInv

\* TypeInv is kept.
LEMMA TypeStep == TypeInv /\ [Next]_vars => TypeInv'
<1> SUFFICES ASSUME TypeOK, TokenInv, [Next]_vars PROVE TypeInv'
  BY DEF TypeInv
<1> USE ValidationAssumption
<1>1. ASSUME StartRun PROVE TypeInv'
  BY <1>1 DEF TypeInv, TypeOK, TokenInv, Labels, StartRun, runVars, counts, Goto
<1>2. ASSUME GateCloses PROVE TypeInv'
  BY <1>2 DEF TypeInv, TypeOK, TokenInv, Labels, GateCloses, runVars, counts, Goto, AtCert, Quiet
<1>3. ASSUME StalledCleanup PROVE TypeInv'
  BY <1>3 DEF TypeInv, TypeOK, TokenInv, Labels, StalledCleanup, runVars, counts, Goto, AtCert, Retries, Owned, Quiet
<1>4. ASSUME NothingToPlace PROVE TypeInv'
  BY <1>4 DEF TypeInv, TypeOK, TokenInv, Labels, NothingToPlace, runVars, counts, Goto, Asks, AtCert, Quiet
<1>5. ASSUME StillProcessing PROVE TypeInv'
  BY <1>5 DEF TypeInv, TypeOK, TokenInv, Labels, StillProcessing, runVars, counts, Goto, AtCert, Quiet
<1>6. ASSUME Accepted PROVE TypeInv'
  <2>1. mem' = InState(mem, "settled") /\ disk' \in {disk, mem'}
    BY <1>6 DEF Accepted, Quiet
  <2>2. /\ mem' \in Docs /\ mem'.state[cur] = "settled"
        /\ \A c \in Certs \ {cur} : mem'.state[c] = mem.state[c]
    BY <2>1, InStateFacts, StateNames DEF TypeOK
  <2>3. disk' \in Docs
    BY <2>1, <2>2 DEF TypeOK
  <2>4. TypeOK'
    BY <1>6, <2>2, <2>3 DEF TypeOK, Accepted, Goto, Labels, counts, runVars, Asks, AtCert, Owned
  <2>5. TokenInv'
    BY <1>6, <2>1, <2>2 DEF TokenInv, TypeOK, Accepted, Goto, counts, runVars, Asks, AtCert, Owned
  <2> QED
    BY <2>4, <2>5 DEF TypeInv
<1>7. ASSUME Stalls PROVE TypeInv'
  <2>1. mem' = InState(mem, "stalled") /\ disk' \in {disk, mem'}
    BY <1>7 DEF Stalls, Quiet
  <2>2. /\ mem' \in Docs /\ mem'.state[cur] = "stalled"
        /\ \A c \in Certs \ {cur} : mem'.state[c] = mem.state[c]
    BY <2>1, InStateFacts, StateNames DEF TypeOK
  <2>3. disk' \in Docs
    BY <2>1, <2>2 DEF TypeOK
  <2>4. TypeOK'
    BY <1>7, <2>2, <2>3 DEF TypeOK, Stalls, Goto, Labels, counts, runVars, Asks, AtCert, Owned, Quiet
  <2>5. TokenInv'
    BY <1>7, <2>1, <2>2 DEF TokenInv, TypeOK, Stalls, Goto, counts, runVars, Asks, AtCert, Owned, Quiet
  <2> QED
    BY <2>4, <2>5 DEF TypeInv
<1>8. ASSUME Expires PROVE TypeInv'
  <2>1. mem' = InState(mem, "expired") /\ disk' \in {disk, mem'}
    BY <1>8 DEF Expires, Quiet
  <2>2. /\ mem' \in Docs /\ mem'.state[cur] = "expired"
        /\ \A c \in Certs \ {cur} : mem'.state[c] = mem.state[c]
    BY <2>1, InStateFacts, StateNames DEF TypeOK
  <2>3. disk' \in Docs
    BY <2>1, <2>2 DEF TypeOK
  <2>4. TypeOK'
    BY <1>8, <2>2, <2>3 DEF TypeOK, Expires, Goto, Labels, counts, runVars, Asks, AtCert, Quiet
  <2>5. TokenInv'
    BY <1>8, <2>1, <2>2 DEF TokenInv, TypeOK, Expires, Goto, counts, runVars, Asks, AtCert, Quiet
  <2> QED
    BY <2>4, <2>5 DEF TypeInv
<1>9. ASSUME NEW x \in Contents, Submits(x) PROVE TypeInv'
  <2>1. mem' = InState(mem, "processing") /\ disk' \in {disk, mem'}
    BY <1>9 DEF Submits, Quiet
  <2>2. /\ mem' \in Docs /\ mem'.state[cur] = "processing"
        /\ \A c \in Certs \ {cur} : mem'.state[c] = mem.state[c]
    BY <2>1, InStateFacts, StateNames DEF TypeOK
  <2>3. disk' \in Docs
    BY <2>1, <2>2 DEF TypeOK
  <2>4. TypeOK'
    BY <1>9, <2>2, <2>3 DEF TypeOK, Submits, Goto, Labels, counts, runVars, Asks, AtCert
  <2>5. TokenInv'
    BY <1>9, <2>1, <2>2 DEF TokenInv, TypeOK, Submits, Goto, counts, runVars, Asks, AtCert
  <2> QED
    BY <2>4, <2>5 DEF TypeInv
<1>10. ASSUME SaveCert PROVE TypeInv'
  <2>1. disk' \in {disk, mem} /\ mem' \in {disk', mem} /\ pc' \in {"idle", "cert"}
    BY <1>10 DEF SaveCert, NextCert, ProcessEnds, Goto
  <2>2. mem' \in Docs /\ disk' \in Docs
    BY <2>1 DEF TypeOK
  <2>3. cur' \in Certs
    BY <1>10, ValidationAssumption DEF SaveCert, NextCert, ProcessEnds, TypeOK, Certs
  <2>4. orders' \in 0 .. MaxOrders /\ edits' \in 0 .. MaxEdits /\ faults' \in 0 .. MaxFaults
    BY <1>10 DEF SaveCert, Fault, TypeOK, counts
  <2>5. UNCHANGED <<file, token, made, astray>> /\ todo' = {} /\ gone' = {} /\ touched' = {}
    BY <1>10 DEF SaveCert, NextCert
  <2>6. TypeOK'
    BY <2>1, <2>2, <2>3, <2>4, <2>5 DEF TypeOK, Labels
  <2>7. TokenInv'
    BY <2>1, <2>5 DEF TokenInv
  <2> QED
    BY <2>6, <2>7 DEF TypeInv
<1>11. ASSUME Placed PROVE TypeInv'
  BY <1>11 DEF TypeInv, TypeOK, TokenInv, Labels, Placed, runVars, counts, Goto, Quiet
<1>12. ASSUME NEW s \in Sites, Reuse(s) PROVE TypeInv'
  BY <1>12 DEF TypeInv, TypeOK, TokenInv, Labels, Reuse, runVars, counts, Goto, Placing, Now, Done
<1>13. ASSUME NEW s \in Sites, Refuse(s) PROVE TypeInv'
  BY <1>13 DEF TypeInv, TypeOK, TokenInv, Labels, Refuse, runVars, counts, Goto, Placing
<1>14. ASSUME NEW s \in Sites, Create(s) PROVE TypeInv'
  <2>1. token[cur] \in Contents
    BY <1>14 DEF Create, Placing, TokenInv, TypeOK
  <2>2. file' \in [Sites -> Files \cup {NoToken}]
    BY <1>14, <2>1, NoTokenFacts DEF Create, TypeOK
  <2>3. made' \subseteq Certs \X Sites \X Contents
    BY <1>14, <2>1 DEF Create, TypeOK
  <2>4. s \in todo
    BY <1>14 DEF Create, Placing, Now
  <2> QED
    BY <1>14, <2>2, <2>3, <2>4 DEF TypeInv, TypeOK, TokenInv, Labels, Create, Goto, counts, Placing
<1>15. ASSUME NEW s \in Sites, Own(s) PROVE TypeInv'
  <2> DEFINE r == [mem.owned[cur] EXCEPT ![s] = token[cur]]
  <2>1. r \in [Sites -> Contents \cup {None}]
    BY RecordsOf DEF TypeOK
  <2>2. mem' = [mem EXCEPT !.owned[cur] = r] /\ disk' = mem'
    BY <1>15, RecordsOf DEF Own, TypeOK
  <2> HIDE DEF r
  <2>3. mem' \in Docs /\ mem'.state = mem.state
    BY <2>1, <2>2, OwnedFacts DEF TypeOK
  <2>4. TypeOK'
    BY <1>15, <2>2, <2>3 DEF TypeOK, Own, Done, Goto, Labels, counts, runVars
  <2>5. TokenInv'
    BY <1>15, <2>2, <2>3 DEF TokenInv, TypeOK, Own, Goto
  <2> QED
    BY <2>4, <2>5 DEF TypeInv
<1>16. ASSUME NEW s \in Sites, Undo(s) PROVE TypeInv'
  BY <1>16 DEF TypeInv, TypeOK, TokenInv, Labels, Undo, runVars, counts, Goto, Remove
<1>17. ASSUME EndClean PROVE TypeInv'
  BY <1>17 DEF TypeInv, TypeOK, TokenInv, Labels, EndClean, runVars, counts, Goto, Quiet
<1>18. ASSUME DropRecords PROVE TypeInv'
  <2> DEFINE r == [s \in Sites |-> IF s \in gone THEN None ELSE mem.owned[cur][s]]
  <2>1. r \in [Sites -> Contents \cup {None}]
    BY RecordsOf
  <2>2. mem' = [mem EXCEPT !.owned[cur] = r] /\ disk' = mem'
    BY <1>18, RecordsOf DEF DropRecords, TypeOK
  <2> HIDE DEF r
  <2>3. mem' \in Docs /\ mem'.state = mem.state
    BY <2>1, <2>2, OwnedFacts DEF TypeOK
  <2>4. TypeOK'
    BY <1>18, <2>2, <2>3 DEF TypeOK, DropRecords, Quiet, Goto, Labels, counts, runVars
  <2>5. TokenInv'
    BY <1>18, <2>2, <2>3 DEF TokenInv, TypeOK, DropRecords, Quiet, Goto
  <2> QED
    BY <2>4, <2>5 DEF TypeInv
<1>19. ASSUME NEW s \in Sites, CleanRoot(s) PROVE TypeInv'
  BY <1>19 DEF TypeInv, TypeOK, TokenInv, Labels, CleanRoot, runVars, counts, Goto, Cleaning, Now, Done, Remove
<1>20. ASSUME StallNotSaved PROVE TypeInv'
  <2>1. mem' = InState(mem, "stalled") /\ disk' \in {disk, mem'}
    BY <1>20 DEF StallNotSaved, Quiet
  <2>2. /\ mem' \in Docs /\ mem'.state[cur] = "stalled"
        /\ \A c \in Certs \ {cur} : mem'.state[c] = mem.state[c]
    BY <2>1, InStateFacts, StateNames DEF TypeOK
  <2>3. disk' \in Docs
    BY <2>1, <2>2 DEF TypeOK
  <2>4. TypeOK'
    BY <1>20, <2>2, <2>3 DEF TypeOK, StallNotSaved, Goto, Labels, counts, runVars, Asks, AtCert, Fault
  <2>5. TokenInv'
    BY <1>20, <2>1, <2>2 DEF TokenInv, TypeOK, StallNotSaved, Goto, counts, runVars, Asks, AtCert, Fault
  <2> QED
    BY <2>4, <2>5 DEF TypeInv
<1>21. ASSUME SaveCertFails PROVE TypeInv'
  <2>1. disk' \in {disk, mem} /\ mem' \in {disk', mem} /\ pc' \in {"idle", "cert"}
    BY <1>21 DEF SaveCertFails, NextCert, ProcessEnds, Goto
  <2>2. mem' \in Docs /\ disk' \in Docs
    BY <2>1 DEF TypeOK
  <2>3. cur' \in Certs
    BY <1>21, ValidationAssumption DEF SaveCertFails, NextCert, ProcessEnds, TypeOK, Certs
  <2>4. orders' \in 0 .. MaxOrders /\ edits' \in 0 .. MaxEdits /\ faults' \in 0 .. MaxFaults
    BY <1>21 DEF SaveCertFails, Fault, TypeOK, counts
  <2>5. UNCHANGED <<file, token, made, astray>> /\ todo' = {} /\ gone' = {} /\ touched' = {}
    BY <1>21 DEF SaveCertFails, NextCert
  <2>6. TypeOK'
    BY <2>1, <2>2, <2>3, <2>4, <2>5 DEF TypeOK, Labels
  <2>7. TokenInv'
    BY <2>1, <2>5 DEF TokenInv
  <2> QED
    BY <2>6, <2>7 DEF TypeInv
<1>22. ASSUME PlaceFails PROVE TypeInv'
  BY <1>22 DEF TypeInv, TypeOK, TokenInv, Labels, PlaceFails, runVars, counts, Goto, Fault
<1>23. ASSUME DropFails PROVE TypeInv'
  BY <1>23 DEF TypeInv, TypeOK, TokenInv, Labels, DropFails, runVars, counts, Goto, Fault
<1>24. ASSUME Crash PROVE TypeInv'
  <2>1. pc' = "idle" /\ cur' = 1 /\ mem' = disk /\ UNCHANGED <<file, disk, token, made>>
    BY <1>24 DEF Crash, ProcessEnds, Goto
  <2>2. cur' \in Certs
    BY <2>1 DEF Certs
  <2>3. orders' \in 0 .. MaxOrders /\ edits' \in 0 .. MaxEdits /\ faults' \in 0 .. MaxFaults
    BY <1>24 DEF Crash, Fault, TypeOK
  <2>4. todo' = {} /\ gone' = {} /\ touched' = {} /\ astray' \subseteq Sites
    BY <1>24 DEF Crash, TypeOK
  <2>5. TypeOK'
    BY <2>1, <2>2, <2>3, <2>4 DEF TypeOK, Labels
  <2>6. TokenInv'
    BY <2>1 DEF TokenInv
  <2> QED
    BY <2>5, <2>6 DEF TypeInv
<1>25. ASSUME NEW s \in Sites, OwnFails(s) PROVE TypeInv'
  BY <1>25 DEF TypeInv, TypeOK, TokenInv, Labels, OwnFails, runVars, counts, Goto, Fault
<1>26. ASSUME NEW s \in Sites, UndoFails(s) PROVE TypeInv'
  BY <1>26 DEF TypeInv, TypeOK, TokenInv, Labels, UndoFails, runVars, counts, Goto
<1>27. ASSUME NEW s \in Sites, CleanFails(s) PROVE TypeInv'
  BY <1>27 DEF TypeInv, TypeOK, TokenInv, Labels, CleanFails, runVars, counts, Goto, Cleaning, Fault, Done
<1>28. ASSUME NEW s \in Sites, AdminEdits(s) PROVE TypeInv'
  <2>1. file' \in [Sites -> Files \cup {NoToken}]
    BY <1>28 DEF AdminEdits, TypeOK, Files
  <2> QED
    BY <1>28, <2>1 DEF AdminEdits, TypeInv, TypeOK, TokenInv, runVars
<1>29. CASE UNCHANGED vars
  BY <1>29 DEF TypeInv, TypeOK, TokenInv, Labels, vars, runVars, counts, Goto
<1> QED
  BY <1>1, <1>2, <1>3, <1>4, <1>5, <1>6, <1>7, <1>8, <1>9, <1>10, <1>11,
     <1>12, <1>13, <1>14, <1>15, <1>16, <1>17, <1>18, <1>19, <1>20, <1>21,
     <1>22, <1>23, <1>24, <1>25, <1>26, <1>27, <1>28, <1>29
     DEF Next, Run, Faulty, CertStep, PlaceStep, CleanStep

-----------------------------------------------------------------------------
(* What the steps do to the records. *)

LEMMA OwnRecords ==
  ASSUME TypeOK, NEW s \in Sites, Own(s)
  PROVE  /\ disk' = mem'
         /\ \A c \in Certs, t \in Sites :
              mem'.owned[c][t] = IF c = cur /\ t = s THEN token[cur] ELSE mem.owned[c][t]
<1> DEFINE r == [mem.owned[cur] EXCEPT ![s] = token[cur]]
<1>1. r \in [Sites -> Contents \cup {None}]
  BY RecordsOf DEF TypeOK
<1>2. mem' = [mem EXCEPT !.owned[cur] = r] /\ disk' = mem'
  BY RecordsOf DEF Own, TypeOK
<1>3. \A t \in Sites : r[t] = IF t = s THEN token[cur] ELSE mem.owned[cur][t]
  BY RecordsOf
<1> HIDE DEF r
<1> QED
  BY <1>1, <1>2, <1>3, OwnedFacts DEF TypeOK

LEMMA DropChanges ==
  ASSUME TypeOK, DropRecords
  PROVE  /\ disk' = mem'
         /\ \A c \in Certs, t \in Sites :
              mem'.owned[c][t] = IF c = cur /\ t \in gone THEN None ELSE mem.owned[c][t]
<1> DEFINE r == [s \in Sites |-> IF s \in gone THEN None ELSE mem.owned[cur][s]]
<1>1. r \in [Sites -> Contents \cup {None}]
  BY RecordsOf
<1>2. mem' = [mem EXCEPT !.owned[cur] = r] /\ disk' = mem'
  BY RecordsOf DEF DropRecords, TypeOK
<1>3. \A t \in Sites : r[t] = IF t \in gone THEN None ELSE mem.owned[cur][t]
  OBVIOUS
<1> HIDE DEF r
<1> QED
  BY <1>1, <1>2, <1>3, OwnedFacts DEF TypeOK

\* A change of state leaves the records alone.
LEMMA StateOnly ==
  ASSUME TypeOK, NEW st \in States, mem' = InState(mem, st)
  PROVE  mem'.owned = mem.owned
  BY InStateFacts DEF TypeOK

-----------------------------------------------------------------------------
(* Tokens and the files below the roots. *)

\* Memory and file have the same records; a root whose record is to be dropped
\* holds no token; a token just made is there or somebody else's file is.
OwnInv ==
  /\ mem.owned = disk.owned
  /\ pc \in {"idle", "cert", "place", "own", "undo"} => gone = {}
  /\ \A s \in gone : file[s].by = Admin
  /\ pc \in {"own", "undo"} =>
       \A s \in Sites : Now(s) =>
         file[s].by = Admin \/ file[s] = [content |-> token[cur], by |-> cur]
  /\ NoTokenAstray

\* OwnInv is kept.
LEMMA OwnStep == TypeOK /\ OwnInv /\ [Next]_vars => OwnInv'
<1> SUFFICES ASSUME TypeOK, OwnInv, [Next]_vars PROVE OwnInv'
  OBVIOUS
<1> USE ValidationAssumption
<1>1. ASSUME StartRun PROVE OwnInv'
  BY <1>1 DEF TypeOK, OwnInv, NoTokenAstray, Now, StartRun, runVars, counts, Goto
<1>2. ASSUME GateCloses PROVE OwnInv'
  BY <1>2 DEF TypeOK, OwnInv, NoTokenAstray, Now, GateCloses, runVars, counts, Goto, AtCert, Quiet
<1>3. ASSUME StalledCleanup PROVE OwnInv'
  BY <1>3 DEF TypeOK, OwnInv, NoTokenAstray, Now, StalledCleanup, runVars, counts, Goto, AtCert, Retries, Owned, Quiet
<1>4. ASSUME NothingToPlace PROVE OwnInv'
  BY <1>4 DEF TypeOK, OwnInv, NoTokenAstray, Now, NothingToPlace, runVars, counts, Goto, Asks, AtCert, Quiet
<1>5. ASSUME StillProcessing PROVE OwnInv'
  BY <1>5 DEF TypeOK, OwnInv, NoTokenAstray, Now, StillProcessing, runVars, counts, Goto, AtCert, Quiet
<1>6. ASSUME Accepted PROVE OwnInv'
  <2>1. mem' = InState(mem, "settled") /\ disk' \in {disk, mem'}
    BY <1>6 DEF Accepted
  <2>2. mem'.owned = mem.owned /\ disk'.owned = disk.owned
    BY <2>1, StateOnly, StateNames DEF OwnInv
  <2> QED
    BY <1>6, <2>2 DEF TypeOK, OwnInv, NoTokenAstray, Accepted, Asks, AtCert, Goto, Fault
<1>7. ASSUME Stalls PROVE OwnInv'
  <2>1. mem' = InState(mem, "stalled") /\ disk' \in {disk, mem'}
    BY <1>7 DEF Stalls, Quiet
  <2>2. mem'.owned = mem.owned /\ disk'.owned = disk.owned
    BY <2>1, StateOnly, StateNames DEF OwnInv
  <2> QED
    BY <1>7, <2>2 DEF TypeOK, OwnInv, NoTokenAstray, Stalls, Asks, AtCert, Goto, Fault, Quiet
<1>8. ASSUME Expires PROVE OwnInv'
  <2>1. mem' = InState(mem, "expired") /\ disk' \in {disk, mem'}
    BY <1>8 DEF Expires, Quiet
  <2>2. mem'.owned = mem.owned /\ disk'.owned = disk.owned
    BY <2>1, StateOnly, StateNames DEF OwnInv
  <2> QED
    BY <1>8, <2>2 DEF TypeOK, OwnInv, NoTokenAstray, Expires, Asks, AtCert, Goto, Fault, Quiet
<1>9. ASSUME NEW x \in Contents, Submits(x) PROVE OwnInv'
  <2>1. mem' = InState(mem, "processing") /\ disk' \in {disk, mem'}
    BY <1>9 DEF Submits
  <2>2. mem'.owned = mem.owned /\ disk'.owned = disk.owned
    BY <2>1, StateOnly, StateNames DEF OwnInv
  <2> QED
    BY <1>9, <2>2 DEF TypeOK, OwnInv, NoTokenAstray, Submits, Asks, AtCert, Goto, Fault
<1>10. ASSUME SaveCert PROVE OwnInv'
  <2>1. disk' \in {disk, mem} /\ mem' \in {disk', mem} /\ pc' \in {"idle", "cert"} /\ pc = "save"
    BY <1>10 DEF SaveCert, NextCert, ProcessEnds, Goto
  <2>2. UNCHANGED <<file, astray>> /\ gone' = {}
    BY <1>10 DEF SaveCert, NextCert
  <2> QED
    BY <2>1, <2>2 DEF OwnInv, NoTokenAstray
<1>11. ASSUME Placed PROVE OwnInv'
  BY <1>11 DEF TypeOK, OwnInv, NoTokenAstray, Now, Placed, runVars, counts, Goto, Quiet
<1>12. ASSUME NEW s \in Sites, Reuse(s) PROVE OwnInv'
  BY <1>12 DEF TypeOK, OwnInv, NoTokenAstray, Now, Reuse, runVars, counts, Goto, Placing, Done
<1>13. ASSUME NEW s \in Sites, Refuse(s) PROVE OwnInv'
  BY <1>13 DEF TypeOK, OwnInv, NoTokenAstray, Now, Refuse, runVars, counts, Goto, Placing
<1>14. ASSUME NEW s \in Sites, Create(s) PROVE OwnInv'
  <2>1. /\ pc = "place" /\ pc' = "own" /\ Now(s) /\ file[s] = NoToken
        /\ UNCHANGED <<disk, mem, astray, cur, todo, gone, token>>
    BY <1>14 DEF Create, Placing, Empty, Goto
  <2>2. file'[s] = [content |-> token[cur], by |-> cur] /\ \A t \in Sites : t # s => file'[t] = file[t]
    BY <1>14 DEF Create, TypeOK
  <2>3. \A t \in Sites : (Now(t)' <=> Now(t)) /\ (Now(t) => t = s)
    BY <2>1, OneNow DEF Now, TypeOK
  <2> QED
    BY <2>1, <2>2, <2>3 DEF OwnInv, NoTokenAstray, TypeOK
<1>15. ASSUME NEW s \in Sites, Own(s) PROVE OwnInv'
  <2>1. disk' = mem' /\ \A c \in Certs, t \in Sites :
          mem'.owned[c][t] = IF c = cur /\ t = s THEN token[cur] ELSE mem.owned[c][t]
    BY <1>15, OwnRecords
  <2>2. ASSUME NEW t \in Sites PROVE
          \/ file[t].by = Admin
          \/ disk'.owned[file[t].by][t] = file[t].content
          \/ t \in astray
    <3>1. CASE t = s
      BY <1>15, <2>1, <3>1 DEF Own, OwnInv, TypeOK
    <3>2. CASE t # s
      <4>1. ~ Now(t)
        BY <1>15, <3>2, OneNow DEF Own, TypeOK
      <4>2. file[t].by \in Certs \cup {Admin}
        BY NoTokenFacts DEF TypeOK
      <4> QED
        BY <2>1, <3>2, <4>1, <4>2 DEF OwnInv, NoTokenAstray
    <3> QED
      BY <3>1, <3>2
  <2> QED
    BY <1>15, <2>1, <2>2 DEF Own, Goto, OwnInv, NoTokenAstray
<1>16. ASSUME NEW s \in Sites, Undo(s) PROVE OwnInv'
  <2>1. pc = "undo" /\ pc' = "save" /\ Now(s) /\ UNCHANGED <<disk, mem, gone, astray>>
    BY <1>16 DEF Undo, Goto
  <2>2. file'[s].by = Admin /\ \A t \in Sites : t # s => file'[t] = file[t]
    BY <1>16, <2>1, NoTokenFacts DEF Undo, Remove, OwnInv, TypeOK
  <2>3. \A t \in Sites : Now(t) => t = s
    BY <2>1, OneNow DEF TypeOK
  <2> QED
    BY <2>1, <2>2, <2>3 DEF OwnInv, NoTokenAstray, TypeOK
<1>17. ASSUME EndClean PROVE OwnInv'
  BY <1>17 DEF TypeOK, OwnInv, NoTokenAstray, Now, EndClean, runVars, counts, Goto, Quiet
<1>18. ASSUME DropRecords PROVE OwnInv'
  <2>1. disk' = mem' /\ \A c \in Certs, t \in Sites :
          mem'.owned[c][t] = IF c = cur /\ t \in gone THEN None ELSE mem.owned[c][t]
    BY <1>18, DropChanges
  <2>2. pc = "drop" /\ pc' = "save" /\ UNCHANGED <<file, gone, astray>>
    BY <1>18 DEF DropRecords, Quiet, Goto
  <2>3. ASSUME NEW t \in Sites PROVE
          \/ file[t].by = Admin
          \/ disk'.owned[file[t].by][t] = file[t].content
          \/ t \in astray
    <3>1. file[t].by \in Certs \cup {Admin}
      BY NoTokenFacts DEF TypeOK
    <3> QED
      BY <2>1, <2>2, <3>1 DEF OwnInv, NoTokenAstray
  <2> QED
    BY <2>1, <2>2, <2>3 DEF OwnInv, NoTokenAstray
<1>19. ASSUME NEW s \in Sites, CleanRoot(s) PROVE OwnInv'
  <2>1. pc = "clean" /\ pc' = "clean" /\ UNCHANGED <<disk, mem, astray>>
    BY <1>19 DEF CleanRoot, Cleaning
  <2>2. \A t \in Sites : file'[t] = file[t] \/ file'[t] = NoToken
    BY <1>19 DEF CleanRoot, Remove, TypeOK
  <2>3. gone' = gone \/ (gone' = gone \cup {s} /\ file'[s] = NoToken)
    BY <1>19 DEF CleanRoot
  <2>4. gone' \subseteq Sites
    BY <2>3 DEF TypeOK
  <2> QED
    BY <2>1, <2>2, <2>3, <2>4, NoTokenFacts DEF OwnInv, NoTokenAstray, TypeOK
<1>20. ASSUME StallNotSaved PROVE OwnInv'
  <2>1. mem' = InState(mem, "stalled") /\ disk' \in {disk, mem'}
    BY <1>20 DEF StallNotSaved
  <2>2. mem'.owned = mem.owned /\ disk'.owned = disk.owned
    BY <2>1, StateOnly, StateNames DEF OwnInv
  <2> QED
    BY <1>20, <2>2 DEF TypeOK, OwnInv, NoTokenAstray, StallNotSaved, Asks, AtCert, Goto, Fault
<1>21. ASSUME SaveCertFails PROVE OwnInv'
  <2>1. disk' \in {disk, mem} /\ mem' \in {disk', mem} /\ pc' \in {"idle", "cert"} /\ pc = "save"
    BY <1>21 DEF SaveCertFails, NextCert, ProcessEnds, Goto
  <2>2. UNCHANGED <<file, astray>> /\ gone' = {}
    BY <1>21 DEF SaveCertFails, NextCert
  <2> QED
    BY <2>1, <2>2 DEF OwnInv, NoTokenAstray
<1>22. ASSUME PlaceFails PROVE OwnInv'
  BY <1>22 DEF TypeOK, OwnInv, NoTokenAstray, Now, PlaceFails, runVars, counts, Goto, Fault
<1>23. ASSUME DropFails PROVE OwnInv'
  BY <1>23 DEF TypeOK, OwnInv, NoTokenAstray, Now, DropFails, runVars, counts, Goto, Fault
<1>24. ASSUME Crash PROVE OwnInv'
  <2>1. pc' = "idle" /\ mem' = disk /\ gone' = {} /\ UNCHANGED <<file, disk>>
    BY <1>24 DEF Crash, ProcessEnds, Goto
  <2>2. \A t \in Sites : t \in astray \/ (pc \in {"own", "undo"} /\ Now(t)) => t \in astray'
    BY <1>24 DEF Crash, Now, TypeOK
  <2> QED
    BY <2>1, <2>2 DEF OwnInv, NoTokenAstray
<1>25. ASSUME NEW s \in Sites, OwnFails(s) PROVE OwnInv'
  BY <1>25 DEF TypeOK, OwnInv, NoTokenAstray, Now, OwnFails, runVars, counts, Goto, Fault
<1>26. ASSUME NEW s \in Sites, UndoFails(s) PROVE OwnInv'
  <2>1. \A t \in Sites : Now(t) => t = s
    BY <1>26, OneNow DEF UndoFails, TypeOK
  <2> QED
    BY <1>26, <2>1 DEF UndoFails, Goto, OwnInv, NoTokenAstray
<1>27. ASSUME NEW s \in Sites, CleanFails(s) PROVE OwnInv'
  BY <1>27 DEF TypeOK, OwnInv, NoTokenAstray, Now, CleanFails, runVars, counts, Goto, Cleaning, Fault, Done
<1>28. ASSUME NEW s \in Sites, AdminEdits(s) PROVE OwnInv'
  <2>1. UNCHANGED <<disk, mem, astray, pc, cur, todo, gone, token>>
    BY <1>28 DEF AdminEdits, runVars
  <2>2. file'[s].by = Admin /\ \A t \in Sites : t # s => file'[t] = file[t]
    BY <1>28, NoTokenFacts DEF AdminEdits, TypeOK
  <2>3. \A t \in Sites : Now(t)' <=> Now(t)
    BY <2>1 DEF Now
  <2> QED
    BY <2>1, <2>2, <2>3 DEF OwnInv, NoTokenAstray, TypeOK
<1>29. CASE UNCHANGED vars
  BY <1>29 DEF TypeOK, OwnInv, NoTokenAstray, Now, vars, runVars, counts, Goto
<1> QED
  BY <1>1, <1>2, <1>3, <1>4, <1>5, <1>6, <1>7, <1>8, <1>9, <1>10, <1>11,
     <1>12, <1>13, <1>14, <1>15, <1>16, <1>17, <1>18, <1>19, <1>20, <1>21,
     <1>22, <1>23, <1>24, <1>25, <1>26, <1>27, <1>28, <1>29
     DEF Next, Run, Faulty, CertStep, PlaceStep, CleanStep

-----------------------------------------------------------------------------
(* Records and what the client has made. *)

MadeInv ==
  /\ \A c \in Certs, s \in Sites :
       mem.owned[c][s] # None => <<c, s, mem.owned[c][s]>> \in made
  /\ pc \in {"own", "undo"} => \A s \in Sites : Now(s) => <<cur, s, token[cur]>> \in made

\* MadeInv is kept.
LEMMA MadeStep == TypeOK /\ OwnInv /\ MadeInv /\ [Next]_vars => MadeInv'
<1> SUFFICES ASSUME TypeOK, OwnInv, MadeInv, [Next]_vars PROVE MadeInv'
  OBVIOUS
<1> USE ValidationAssumption
<1>1. ASSUME StartRun PROVE MadeInv'
  BY <1>1 DEF TypeOK, MadeInv, Now, StartRun, runVars, counts, Goto
<1>2. ASSUME GateCloses PROVE MadeInv'
  BY <1>2 DEF TypeOK, MadeInv, Now, GateCloses, runVars, counts, Goto, AtCert, Quiet
<1>3. ASSUME StalledCleanup PROVE MadeInv'
  BY <1>3 DEF TypeOK, MadeInv, Now, StalledCleanup, runVars, counts, Goto, AtCert, Retries, Owned, Quiet
<1>4. ASSUME NothingToPlace PROVE MadeInv'
  BY <1>4 DEF TypeOK, MadeInv, Now, NothingToPlace, runVars, counts, Goto, Asks, AtCert, Quiet
<1>5. ASSUME StillProcessing PROVE MadeInv'
  BY <1>5 DEF TypeOK, MadeInv, Now, StillProcessing, runVars, counts, Goto, AtCert, Quiet
<1>6. ASSUME Accepted PROVE MadeInv'
  <2>1. mem'.owned = mem.owned
    BY <1>6, StateOnly, StateNames DEF Accepted
  <2> QED
    BY <1>6, <2>1 DEF MadeInv, Accepted, Goto
<1>7. ASSUME Stalls PROVE MadeInv'
  <2>1. mem'.owned = mem.owned
    BY <1>7, StateOnly, StateNames DEF Stalls
  <2> QED
    BY <1>7, <2>1 DEF MadeInv, Stalls, Goto, Quiet
<1>8. ASSUME Expires PROVE MadeInv'
  <2>1. mem'.owned = mem.owned
    BY <1>8, StateOnly, StateNames DEF Expires
  <2> QED
    BY <1>8, <2>1 DEF MadeInv, Expires, Goto, Quiet
<1>9. ASSUME NEW x \in Contents, Submits(x) PROVE MadeInv'
  <2>1. mem'.owned = mem.owned
    BY <1>9, StateOnly, StateNames DEF Submits
  <2> QED
    BY <1>9, <2>1 DEF MadeInv, Submits, Goto
<1>10. ASSUME SaveCert PROVE MadeInv'
  <2>1. mem'.owned = mem.owned /\ pc' \in {"idle", "cert"} /\ UNCHANGED made
    BY <1>10 DEF SaveCert, NextCert, ProcessEnds, Goto, OwnInv
  <2> QED
    BY <2>1 DEF MadeInv
<1>11. ASSUME Placed PROVE MadeInv'
  BY <1>11 DEF TypeOK, MadeInv, Now, Placed, runVars, counts, Goto, Quiet
<1>12. ASSUME NEW s \in Sites, Reuse(s) PROVE MadeInv'
  BY <1>12 DEF TypeOK, MadeInv, Now, Reuse, runVars, counts, Goto, Placing, Done
<1>13. ASSUME NEW s \in Sites, Refuse(s) PROVE MadeInv'
  BY <1>13 DEF TypeOK, MadeInv, Now, Refuse, runVars, counts, Goto, Placing
<1>14. ASSUME NEW s \in Sites, Create(s) PROVE MadeInv'
  <2>1. \A t \in Sites : (Now(t)' <=> Now(t)) /\ (Now(t) => t = s)
    BY <1>14, OneNow DEF Create, Placing, Now, TypeOK
  <2> QED
    BY <1>14, <2>1 DEF MadeInv, Create, Goto
<1>15. ASSUME NEW s \in Sites, Own(s) PROVE MadeInv'
  <2> QED
    BY <1>15, OwnRecords DEF MadeInv, Own, Goto
<1>16. ASSUME NEW s \in Sites, Undo(s) PROVE MadeInv'
  BY <1>16 DEF TypeOK, MadeInv, Now, Undo, runVars, counts, Goto, Remove
<1>17. ASSUME EndClean PROVE MadeInv'
  BY <1>17 DEF TypeOK, MadeInv, Now, EndClean, runVars, counts, Goto, Quiet
<1>18. ASSUME DropRecords PROVE MadeInv'
  <2> QED
    BY <1>18, DropChanges DEF MadeInv, DropRecords, Quiet, Goto
<1>19. ASSUME NEW s \in Sites, CleanRoot(s) PROVE MadeInv'
  BY <1>19 DEF TypeOK, MadeInv, Now, CleanRoot, runVars, counts, Goto, Cleaning, Done, Remove
<1>20. ASSUME StallNotSaved PROVE MadeInv'
  <2>1. mem'.owned = mem.owned
    BY <1>20, StateOnly, StateNames DEF StallNotSaved
  <2> QED
    BY <1>20, <2>1 DEF MadeInv, StallNotSaved, Goto
<1>21. ASSUME SaveCertFails PROVE MadeInv'
  <2>1. mem'.owned = mem.owned /\ pc' \in {"idle", "cert"} /\ UNCHANGED made
    BY <1>21 DEF SaveCertFails, NextCert, ProcessEnds, Goto, OwnInv
  <2> QED
    BY <2>1 DEF MadeInv
<1>22. ASSUME PlaceFails PROVE MadeInv'
  BY <1>22 DEF TypeOK, MadeInv, Now, PlaceFails, runVars, counts, Goto, Fault
<1>23. ASSUME DropFails PROVE MadeInv'
  BY <1>23 DEF TypeOK, MadeInv, Now, DropFails, runVars, counts, Goto, Fault
<1>24. ASSUME Crash PROVE MadeInv'
  <2>1. mem'.owned = mem.owned /\ pc' \in {"idle", "cert"} /\ UNCHANGED made
    BY <1>24 DEF Crash, NextCert, ProcessEnds, Goto, OwnInv
  <2> QED
    BY <2>1 DEF MadeInv
<1>25. ASSUME NEW s \in Sites, OwnFails(s) PROVE MadeInv'
  BY <1>25 DEF TypeOK, MadeInv, Now, OwnFails, runVars, counts, Goto, Fault
<1>26. ASSUME NEW s \in Sites, UndoFails(s) PROVE MadeInv'
  BY <1>26 DEF TypeOK, MadeInv, Now, UndoFails, runVars, counts, Goto
<1>27. ASSUME NEW s \in Sites, CleanFails(s) PROVE MadeInv'
  BY <1>27 DEF TypeOK, MadeInv, Now, CleanFails, runVars, counts, Goto, Cleaning, Fault, Done
<1>28. ASSUME NEW s \in Sites, AdminEdits(s) PROVE MadeInv'
  BY <1>28 DEF TypeOK, MadeInv, Now, AdminEdits, runVars, counts, Goto, Empty
<1>29. CASE UNCHANGED vars
  BY <1>29 DEF TypeOK, MadeInv, Now, vars, runVars, counts, Goto
<1> QED
  BY <1>1, <1>2, <1>3, <1>4, <1>5, <1>6, <1>7, <1>8, <1>9, <1>10, <1>11,
     <1>12, <1>13, <1>14, <1>15, <1>16, <1>17, <1>18, <1>19, <1>20, <1>21,
     <1>22, <1>23, <1>24, <1>25, <1>26, <1>27, <1>28, <1>29
     DEF Next, Run, Faulty, CertStep, PlaceStep, CleanStep

-----------------------------------------------------------------------------
(* Roots that are done hold the token. *)

PlaceInv ==
  pc \in {"place", "own"} =>
    \A s \in Roots[cur] \ touched :
      file[s].content = token[cur] \/ (s \in todo /\ (pc = "place" \/ ~ Now(s)))

LEMMA RootsAreSites == \A c \in Certs : Roots[c] \subseteq Sites
  BY ValidationAssumption

\* PlaceInv is kept.
LEMMA PlaceStep1 == TypeOK /\ PlaceInv /\ [Next]_vars => PlaceInv'
<1> SUFFICES ASSUME TypeOK, PlaceInv, [Next]_vars PROVE PlaceInv'
  OBVIOUS
<1> USE ValidationAssumption, RootsAreSites
<1>1. ASSUME StartRun PROVE PlaceInv'
  BY <1>1 DEF TypeOK, PlaceInv, Now, StartRun, runVars, counts, Goto
<1>2. ASSUME GateCloses PROVE PlaceInv'
  BY <1>2 DEF TypeOK, PlaceInv, Now, GateCloses, runVars, counts, Goto, AtCert, Quiet
<1>3. ASSUME StalledCleanup PROVE PlaceInv'
  BY <1>3 DEF TypeOK, PlaceInv, Now, StalledCleanup, runVars, counts, Goto, AtCert, Retries, Owned, Quiet
<1>4. ASSUME NothingToPlace PROVE PlaceInv'
  BY <1>4 DEF TypeOK, PlaceInv, Now, NothingToPlace, runVars, counts, Goto, Asks, AtCert, Quiet
<1>5. ASSUME StillProcessing PROVE PlaceInv'
  BY <1>5 DEF TypeOK, PlaceInv, Now, StillProcessing, runVars, counts, Goto, AtCert, Quiet
<1>6. ASSUME Accepted PROVE PlaceInv'
  BY <1>6 DEF TypeOK, PlaceInv, Now, Accepted, runVars, counts, Goto, Asks, AtCert, Owned
<1>7. ASSUME Stalls PROVE PlaceInv'
  BY <1>7 DEF TypeOK, PlaceInv, Now, Stalls, runVars, counts, Goto, Asks, AtCert, Owned, Quiet
<1>8. ASSUME Expires PROVE PlaceInv'
  BY <1>8 DEF TypeOK, PlaceInv, Now, Expires, runVars, counts, Goto, Asks, AtCert, Quiet
<1>9. ASSUME NEW x \in Contents, Submits(x) PROVE PlaceInv'
  BY <1>9 DEF TypeOK, PlaceInv, Now, Submits, runVars, counts, Goto, Asks, AtCert
<1>10. ASSUME SaveCert PROVE PlaceInv'
  BY <1>10 DEF TypeOK, PlaceInv, Now, SaveCert, runVars, counts, Goto, NextCert, ProcessEnds
<1>11. ASSUME Placed PROVE PlaceInv'
  BY <1>11 DEF TypeOK, PlaceInv, Now, Placed, runVars, counts, Goto, Quiet
<1>12. ASSUME NEW s \in Sites, Reuse(s) PROVE PlaceInv'
  BY <1>12 DEF TypeOK, PlaceInv, Now, Reuse, runVars, counts, Goto, Placing, Done
<1>13. ASSUME NEW s \in Sites, Refuse(s) PROVE PlaceInv'
  BY <1>13 DEF TypeOK, PlaceInv, Now, Refuse, runVars, counts, Goto, Placing
<1>14. ASSUME NEW s \in Sites, Create(s) PROVE PlaceInv'
  <2>1. file'[s].content = token[cur] /\ \A t \in Sites : t # s => file'[t] = file[t]
    BY <1>14 DEF Create, TypeOK
  <2>2. \A t \in Sites : (Now(t)' <=> Now(t)) /\ (Now(t) => t = s)
    BY <1>14, OneNow DEF Create, Placing, Now, TypeOK
  <2> QED
    BY <1>14, <2>1, <2>2 DEF PlaceInv, Create, Placing, Goto, TypeOK
<1>15. ASSUME NEW s \in Sites, Own(s) PROVE PlaceInv'
  <2>1. \A t \in Sites : Now(t) => t = s
    BY <1>15, OneNow DEF Own, TypeOK
  <2> QED
    BY <1>15, <2>1 DEF PlaceInv, Own, Done, Goto, TypeOK
<1>16. ASSUME NEW s \in Sites, Undo(s) PROVE PlaceInv'
  BY <1>16 DEF TypeOK, PlaceInv, Now, Undo, runVars, counts, Goto, Remove
<1>17. ASSUME EndClean PROVE PlaceInv'
  BY <1>17 DEF TypeOK, PlaceInv, Now, EndClean, runVars, counts, Goto, Quiet
<1>18. ASSUME DropRecords PROVE PlaceInv'
  BY <1>18 DEF TypeOK, PlaceInv, Now, DropRecords, runVars, counts, Goto, Quiet
<1>19. ASSUME NEW s \in Sites, CleanRoot(s) PROVE PlaceInv'
  BY <1>19 DEF TypeOK, PlaceInv, Now, CleanRoot, runVars, counts, Goto, Cleaning, Done, Remove
<1>20. ASSUME StallNotSaved PROVE PlaceInv'
  BY <1>20 DEF TypeOK, PlaceInv, Now, StallNotSaved, runVars, counts, Goto, Asks, AtCert, Fault
<1>21. ASSUME SaveCertFails PROVE PlaceInv'
  BY <1>21 DEF TypeOK, PlaceInv, Now, SaveCertFails, runVars, counts, Goto, Fault, NextCert, ProcessEnds
<1>22. ASSUME PlaceFails PROVE PlaceInv'
  BY <1>22 DEF TypeOK, PlaceInv, Now, PlaceFails, runVars, counts, Goto, Fault
<1>23. ASSUME DropFails PROVE PlaceInv'
  BY <1>23 DEF TypeOK, PlaceInv, Now, DropFails, runVars, counts, Goto, Fault
<1>24. ASSUME Crash PROVE PlaceInv'
  BY <1>24 DEF TypeOK, PlaceInv, Now, Crash, runVars, counts, Goto, Fault, ProcessEnds
<1>25. ASSUME NEW s \in Sites, OwnFails(s) PROVE PlaceInv'
  BY <1>25 DEF TypeOK, PlaceInv, Now, OwnFails, runVars, counts, Goto, Fault
<1>26. ASSUME NEW s \in Sites, UndoFails(s) PROVE PlaceInv'
  BY <1>26 DEF TypeOK, PlaceInv, Now, UndoFails, runVars, counts, Goto
<1>27. ASSUME NEW s \in Sites, CleanFails(s) PROVE PlaceInv'
  BY <1>27 DEF TypeOK, PlaceInv, Now, CleanFails, runVars, counts, Goto, Cleaning, Fault, Done
<1>28. ASSUME NEW s \in Sites, AdminEdits(s) PROVE PlaceInv'
  <2>1. UNCHANGED <<pc, cur, todo, token>> /\ \A t \in Sites : t # s => file'[t] = file[t]
    BY <1>28 DEF AdminEdits, runVars, TypeOK
  <2>2. pc \in {"place", "own"} => touched' = touched \cup {s}
    BY <1>28 DEF AdminEdits
  <2>3. \A t \in Sites : Now(t)' <=> Now(t)
    BY <2>1 DEF Now
  <2> QED
    BY <2>1, <2>2, <2>3 DEF PlaceInv, TypeOK
<1>29. CASE UNCHANGED vars
  BY <1>29 DEF TypeOK, PlaceInv, Now, vars, runVars, counts, Goto
<1> QED
  BY <1>1, <1>2, <1>3, <1>4, <1>5, <1>6, <1>7, <1>8, <1>9, <1>10, <1>11,
     <1>12, <1>13, <1>14, <1>15, <1>16, <1>17, <1>18, <1>19, <1>20, <1>21,
     <1>22, <1>23, <1>24, <1>25, <1>26, <1>27, <1>28, <1>29
     DEF Next, Run, Faulty, CertStep, PlaceStep, CleanStep

-----------------------------------------------------------------------------
(* Theorems. *)

IInv == TypeInv /\ OwnInv /\ MadeInv /\ PlaceInv

LEMMA IInvInit == Init => IInv
<1> SUFFICES ASSUME Init PROVE IInv
  OBVIOUS
<1> USE ValidationAssumption
<1>1. disk \in Docs /\ mem = disk
  BY DEF Init, Docs, Records, States
<1>2. file \in [Sites -> Files \cup {NoToken}] /\ \A s \in Sites : file[s].by = Admin
  BY DEF Init, Files, NoToken
<1>3. TypeInv
  BY <1>1, <1>2 DEF Init, TypeInv, TypeOK, TokenInv, Labels, Certs
<1>4. OwnInv /\ MadeInv /\ PlaceInv
  BY <1>1, <1>2 DEF Init, OwnInv, NoTokenAstray, MadeInv, PlaceInv
<1> QED
  BY <1>3, <1>4 DEF IInv

LEMMA IInvAlways == Spec => []IInv
<1>1. IInv /\ [Next]_vars => IInv'
  <2> SUFFICES ASSUME IInv, [Next]_vars PROVE IInv'
    OBVIOUS
  <2>1. TypeOK
    BY DEF IInv, TypeInv
  <2> QED
    BY <2>1, TypeStep, OwnStep, MadeStep, PlaceStep1 DEF IInv
<1> QED
  BY IInvInit, <1>1, PTL DEF Spec

\* Every variable keeps its type.
THEOREM TypeCorrect == Spec => []TypeOK
<1>1. IInv => TypeOK
  BY DEF IInv, TypeInv
<1> QED
  BY IInvAlways, <1>1, PTL

\* Every token of the client has its record, but for one a crash or a failed
\* rollback left behind (auto.go:1162).
THEOREM NoTokenAstrayAlways == Spec => []NoTokenAstray
<1>1. IInv => NoTokenAstray
  BY DEF IInv, OwnInv
<1> QED
  BY IInvAlways, <1>1, PTL

\* Only a file of a content the certificate itself once made in that place is
\* ever removed, and none is replaced (validation_files.go:216).
THEOREM ForeignFilesKeptAlways == Spec => ForeignFilesKept
<1> DEFINE Kept == \A s \in Sites : ~Empty(s) /\ file'[s] # file[s] =>
                     file'[s] = NoToken /\ <<cur, s, file[s].content>> \in made
<1>1. ASSUME IInv, [Next]_vars, edits' = edits PROVE Kept
  <2> SUFFICES ASSUME NEW s \in Sites, ~Empty(s), file'[s] # file[s]
               PROVE  file'[s] = NoToken /\ <<cur, s, file[s].content>> \in made
    OBVIOUS
  <2> USE <1>1 DEF IInv, TypeInv
  <2>1. PICK t \in Sites : Create(t) \/ Undo(t) \/ CleanRoot(t)
    BY <1>1 DEF Next, Run, Faulty, CertStep, PlaceStep, CleanStep, vars, runVars, counts,
       StartRun, GateCloses, StalledCleanup, NothingToPlace, StillProcessing, Accepted, Stalls,
       Expires, Submits, SaveCert, NextCert, Placed, Reuse, Refuse, Own, EndClean, DropRecords,
       StallNotSaved, SaveCertFails, PlaceFails, DropFails, Crash, OwnFails, UndoFails,
       CleanFails, AdminEdits, Quiet, TypeOK
  <2>2. file[s] \in Files
    BY DEF TypeOK, Empty
  <2>3. CASE Create(t)
    BY <2>3 DEF Create, Empty, TypeOK
  <2>4. CASE Undo(t)
    BY <2>4 DEF Undo, Remove, MadeInv, TypeOK
  <2>5. CASE CleanRoot(t)
    <3>1. s = t /\ file[s].content = mem.owned[cur][s] /\ file'[s] = NoToken
      BY <2>5 DEF CleanRoot, Remove, TypeOK
    <3>2. mem.owned[cur][s] # None
      BY <2>2, <3>1, NoTokenFacts
    <3> QED
      BY <3>1, <3>2 DEF MadeInv, TypeOK
  <2> QED
    BY <2>1, <2>3, <2>4, <2>5
<1>2. IInv /\ [Next]_vars => [edits' = edits => Kept]_vars
  BY <1>1
<1> HIDE DEF Kept
<1>3. Spec => [][edits' = edits => Kept]_vars
  BY IInvAlways, <1>2, PTL DEF Spec
<1> QED
  BY <1>3 DEF ForeignFilesKept, Kept

\* A run that reports that it waits has the token below every root that nobody
\* else has just changed (auto.go:1168).
THEOREM PlacedEverywhereAlways == Spec => PlacedEverywhere
<1> DEFINE There == \A s \in Roots[cur] \ touched : file[s].content = token[cur]
<1>1. IInv /\ Placed => There
  BY DEF IInv, PlaceInv, Placed
<1>2. IInv /\ [Next]_vars => [Placed => There]_vars
  BY <1>1
<1> HIDE DEF There
<1>3. Spec => [][Placed => There]_vars
  BY IInvAlways, <1>2, PTL DEF Spec
<1> QED
  BY <1>3 DEF PlacedEverywhere, There

=============================================================================
