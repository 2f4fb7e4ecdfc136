-------------------------- MODULE ImportQueueProofs --------------------------
(***************************************************************************)
(* Proofs about ImportQueue, for every set of drops, files and calls, every *)
(* classification of the files and every bound.                             *)
(***************************************************************************)
EXTENDS ImportQueue, TLAPS

(* The files of a classification lie in one folder, and it has a part.      *)
OneDrop(m, parts, extras) == \A f \in parts \cup extras : DropOf[f] = DropOf[m]
RowsFor(m) == {row \in Rows : m \in row.parts /\ OneDrop(m, row.parts, row.extras)}

(* So do those of a call.                                                   *)
Working == {"preflight", "part", "adopt", "stat", "rename", "record", "nfo"}
Call == [pc : RequestPcs, main : Files \cup {NoFile}, held : BOOLEAN,
         managed : BOOLEAN, parts : SUBSET Files, extras : SUBSET Files, landed : BOOLEAN]
CallOK(c) ==
    /\ c.main \in Files
    /\ OneDrop(c.main, c.parts, c.extras)
    /\ c.pc \in Working => c.parts # {}
GoodCall == {c \in Call : c.pc = "idle" \/ CallOK(c)}

(* The inductive invariant behind type correctness. *)
FilesOK ==
    /\ where \in [Files -> Paths \cup {Coming, Gone, Never}]
    /\ versions \in SUBSET [path : Paths, file : Files]
    /\ sentinel \in SUBSET Drops
    /\ calm \in BOOLEAN /\ faults \in 0 .. MaxFaults /\ calls \in 0 .. MaxCalls
QueueOK ==
    /\ queue \in [Files -> Rows \cup {NoRow}]
    /\ \A m \in Files : queue[m] \in RowsFor(m) \cup {NoRow}
    /\ stale \in SUBSET Files
ScanOK ==
    /\ scan \in [pc : ScanPcs, rows : SUBSET Files, dirs : SUBSET Drops,
                 main : Files \cup {NoFile}, row : Rows \cup {NoRow}]
    /\ scan.pc \in {"process", "enqueue"} => scan.main \in Files /\ scan.row \in RowsFor(scan.main)
CallsOK == req \in [Requests -> GoodCall]
TypeInv == FilesOK /\ QueueOK /\ ScanOK /\ CallsOK

(* A call but for its row id: what dropping rows leaves alone.              *)
SameCall(q) == \E held \in BOOLEAN : req'[q] = [req[q] EXCEPT !.held = held]

----------------------------------------------------------------------------
LEMMA FirstIsMember ==
  ASSUME NEW S \in SUBSET Files, S # {}
  PROVE  First(S, PartNo) \in S /\ Preferred(S) \in S
  <1>1. \E f \in S : \A g \in S : PartNo[f] <= PartNo[g]
    BY FinitenessAssumption
  <1>2. \E f \in S : \A g \in S : Rank[g] <= Rank[f]
    BY FinitenessAssumption
  <1> QED BY <1>1, <1>2 DEF First, Preferred

(* The main file is one of those that lie there. *)
LEMMA MainIsPresent ==
  ASSUME NEW d \in Drops, PresentCandidates(d) # {}
  PROVE  MainOf(d) \in Present(d) /\ (Multipart(d) => MainOf(d) \in Marked(d))
  <1>1. /\ Present(d) \in SUBSET Files /\ \A f \in Present(d) : DropOf[f] = d
        /\ PresentCandidates(d) \in SUBSET Present(d) /\ Marked(d) \in SUBSET Present(d)
    BY DEF Present, PresentCandidates, Marked
  <1>2. CASE Multipart(d)
    <2>1. Marked(d) # {}
      BY <1>2 DEF Multipart
    <2> QED BY <1>1, <1>2, <2>1, FirstIsMember DEF MainOf
  <1>3. CASE ~Multipart(d)
    BY <1>1, <1>3, FirstIsMember DEF MainOf
  <1> QED BY <1>2, <1>3

(* A walk offers a file of the folder, among the parts, with files of the   *)
(* same folder.                                                             *)
LEMMA ClassifiedFromOneDrop ==
  ASSUME NEW d \in Drops, PresentCandidates(d) # {}
  PROVE  MainOf(d) \in Files /\ Classify(d) \in RowsFor(MainOf(d))
  <1>1. /\ Present(d) \in SUBSET Files /\ \A f \in Present(d) : DropOf[f] = d
        /\ PresentCandidates(d) \in SUBSET Present(d) /\ Marked(d) \in SUBSET Present(d)
    BY DEF Present, PresentCandidates, Marked
  <1>2. MainOf(d) \in Present(d) /\ (Multipart(d) => MainOf(d) \in Marked(d))
    BY MainIsPresent
  <1>3. PICK parts \in SUBSET Present(d) :
          MainOf(d) \in parts /\ Classify(d) = [parts |-> parts, extras |-> Present(d) \ parts]
    BY <1>1, <1>2 DEF Classify
  <1> QED BY <1>1, <1>2, <1>3 DEF Rows, RowsFor, OneDrop

LEMMA HeldOnly ==
  ASSUME NEW c \in GoodCall
  PROVE  [c EXCEPT !.held = FALSE] \in GoodCall /\ c = [c EXCEPT !.held = c.held] /\ c.held \in BOOLEAN
  BY DEF GoodCall, CallOK, Call

(* Removing rows leaves every call what it was but for the row it holds.    *)
LEMMA DropRowsKeeps ==
  ASSUME QueueOK, CallsOK, NEW S \in SUBSET Files, DropRows(S)
  PROVE  QueueOK' /\ CallsOK' /\ \A q \in Requests : SameCall(q)
  <1>1. ASSUME NEW q \in Requests PROVE SameCall(q) /\ req'[q] \in GoodCall
    <2>1. req[q] \in GoodCall
      BY DEF CallsOK
    <2>2. req'[q] = IF req[q].main \in S THEN [req[q] EXCEPT !.held = FALSE] ELSE req[q]
      BY DEF DropRows
    <2> QED BY <2>1, <2>2, HeldOnly DEF SameCall
  <1>2. CallsOK'
    BY <1>1 DEF CallsOK, DropRows
  <1>3. QueueOK'
    BY DEF QueueOK, DropRows
  <1> QED BY <1>1, <1>2, <1>3

(* So does the return of a call, to the other calls. *)
LEMMA ReturnKeeps ==
  ASSUME QueueOK, CallsOK, NEW p \in Requests, req[p].main \in Files, NEW ok \in BOOLEAN,
         Return(p, ok)
  PROVE  /\ QueueOK' /\ CallsOK'
         /\ \A q \in Requests : IF q = p THEN req'[q] = IdleRequest ELSE SameCall(q)
  <1> DEFINE left == IF ok /\ req[p].held THEN {req[p].main} ELSE {}
  <1>1. /\ queue' = [f \in Files |-> IF f \in left THEN NoRow ELSE queue[f]]
        /\ stale' = stale \ left
        /\ req' = [q \in Requests |-> IF q = p THEN IdleRequest
                                      ELSE IF req[q].main \in left THEN [req[q] EXCEPT !.held = FALSE]
                                      ELSE req[q]]
    BY DEF Return
  <1> HIDE DEF left
  <1>2. IdleRequest \in GoodCall
    BY DEF IdleRequest, GoodCall, Call, RequestPcs
  <1>3. ASSUME NEW q \in Requests
        PROVE  (IF q = p THEN req'[q] = IdleRequest ELSE SameCall(q)) /\ req'[q] \in GoodCall
    <2>1. req[q] \in GoodCall
      BY DEF CallsOK
    <2>2. req'[q] = IF q = p THEN IdleRequest
                    ELSE IF req[q].main \in left THEN [req[q] EXCEPT !.held = FALSE] ELSE req[q]
      BY <1>1
    <2> QED BY <1>2, <2>1, <2>2, HeldOnly DEF SameCall
  <1>4. CallsOK'
    BY <1>1, <1>3 DEF CallsOK
  <1>5. QueueOK'
    BY <1>1 DEF QueueOK
  <1> QED BY <1>3, <1>4, <1>5

(* What a call is when it has loaded its row. *)
LEMMA BegunIsGood ==
  ASSUME NEW m \in Files, queue[m] \in RowsFor(m), NEW whole \in BOOLEAN, NEW managed \in BOOLEAN
  PROVE  Begun(m, whole, managed) \in GoodCall
  <1> DEFINE parts == IF whole THEN queue[m].parts ELSE {m}
             extras == IF whole THEN queue[m].extras ELSE {}
             pc == IF managed THEN "part" ELSE "preflight"
  <1>1. /\ queue[m].parts \in SUBSET Files /\ queue[m].extras \in SUBSET Files
        /\ m \in queue[m].parts /\ OneDrop(m, queue[m].parts, queue[m].extras)
    BY DEF RowsFor, Rows
  <1>2. /\ parts \in SUBSET Files /\ extras \in SUBSET Files
        /\ m \in parts /\ OneDrop(m, parts, extras)
    BY <1>1 DEF OneDrop
  <1>3. pc \in {"part", "preflight"}
    OBVIOUS
  <1>4. Begun(m, whole, managed) = [IdleRequest EXCEPT !.pc = pc, !.main = m, !.held = TRUE,
                                             !.managed = managed, !.parts = parts, !.extras = extras]
    BY DEF Begun
  <1> HIDE DEF parts, extras, pc
  <1>5. /\ Begun(m, whole, managed) \in Call
        /\ Begun(m, whole, managed).pc = pc /\ Begun(m, whole, managed).main = m
        /\ Begun(m, whole, managed).parts = parts /\ Begun(m, whole, managed).extras = extras
    BY <1>2, <1>3, <1>4 DEF IdleRequest, Call, RequestPcs
  <1> HIDE DEF Begun
  <1> QED BY <1>2, <1>3, <1>5 DEF GoodCall, CallOK, Working

(* What a call is when it has done with a part. *)
LEMMA PartDoneIsGood ==
  ASSUME NEW q \in Requests, req[q] \in Call, CallOK(req[q])
  PROVE  PartDone(q) \in GoodCall
  <1> DEFINE rest == req[q].parts \ {Lead(q)}
             pc == IF rest = {} THEN "extras" ELSE "part"
  <1>1. /\ PartDone(q) \in Call /\ PartDone(q).pc = pc /\ PartDone(q).main = req[q].main
        /\ PartDone(q).parts = rest /\ PartDone(q).extras = req[q].extras
    BY DEF PartDone, Call, RequestPcs
  <1>2. OneDrop(req[q].main, rest, req[q].extras) /\ req[q].main \in Files
    BY DEF CallOK, OneDrop
  <1>3. pc \in {"extras", "part"} /\ (pc = "part" => rest # {})
    OBVIOUS
  <1> HIDE DEF rest, pc
  <1> QED BY <1>1, <1>2, <1>3 DEF GoodCall, CallOK, Working

LEMMA StepKeeps ==
  ASSUME CallsOK, NEW q \in Requests, NEW c \in GoodCall, Step(q, c)
  PROVE  CallsOK'
  BY DEF CallsOK, Step

(* A call goes on to another pc. *)
LEMMA GotoKeeps ==
  ASSUME CallsOK, NEW q \in Requests, CallOK(req[q]), NEW pc \in RequestPcs, Goto(q, pc),
         pc \in Working => req[q].parts # {}
  PROVE  CallsOK'
  <1>1. req[q] \in GoodCall
    BY DEF CallsOK
  <1>2. [req[q] EXCEPT !.pc = pc] \in GoodCall
    BY <1>1 DEF GoodCall, Call, CallOK
  <1> QED BY <1>2, StepKeeps DEF Goto

(* Whoever is not idle is as CallOK says. *)
LEMMA BusyCall ==
  ASSUME CallsOK, NEW q \in Requests, req[q].pc # "idle"
  PROVE  req[q] \in Call /\ CallOK(req[q]) 
  BY DEF CallsOK, GoodCall

(* What a call is at work on. *)
LEMMA LeadIsFile ==
  ASSUME CallsOK, NEW q \in Requests, req[q].pc # "idle", req[q].parts # {}
  PROVE  /\ Lead(q) \in req[q].parts /\ Lead(q) \in Files
         /\ LibraryPath(RecOf[q], PartNo[Lead(q)]) \in Paths
  <1>1. req[q].parts \in SUBSET Files
    BY BusyCall DEF Call
  <1>2. Lead(q) \in req[q].parts
    BY <1>1, FirstIsMember DEF Lead
  <1> QED BY <1>1, <1>2, ConstantsAssumption DEF Paths

LEMMA TypeInvImplies == TypeInv => TypeOK
  <1> SUFFICES ASSUME TypeInv PROVE TypeOK
    OBVIOUS
  <1>1. /\ req \in [Requests -> Call]
        /\ \A q \in Requests : req[q].pc # "idle" => CallOK(req[q])
    BY DEF TypeInv, CallsOK, GoodCall
  <1>2. /\ \A q \in InFlight : req[q].main \in Files
        /\ \A q \in Requests : req[q].pc \in Working => req[q].parts # {}
    BY <1>1 DEF InFlight, CallOK, Working
  <1>3. /\ queue \in [Files -> Rows \cup {NoRow}] /\ stale \in SUBSET Files
        /\ scan \in [pc : ScanPcs, rows : SUBSET Files, dirs : SUBSET Drops,
                     main : Files \cup {NoFile}, row : Rows \cup {NoRow}]
        /\ scan.pc \in {"process", "enqueue"} => scan.main \in Files /\ scan.row \in Rows
    BY DEF TypeInv, QueueOK, ScanOK, RowsFor
  <1> QED BY <1>1, <1>2, <1>3 DEF TypeInv, FilesOK, TypeOK, Working, Call

----------------------------------------------------------------------------
LEMMA InitTypeInv == Init => TypeInv
  <1> SUFFICES ASSUME Init PROVE TypeInv
    OBVIOUS
  <1>1. FilesOK
    <2>1. PICK s \in Starts :
            where = [f \in Files |-> CASE s[f] = "here" -> Src(f)
                                       [] s[f] = "late" -> Coming
                                       [] s[f] = "never" -> Never]
      BY DEF Init
    <2>2. s \in [Files -> {"here", "late", "never"}]
      BY ConstantsAssumption
    <2>3. \A f \in Files : Src(f) \in Paths
      BY DEF Paths
    <2>4. where \in [Files -> Paths \cup {Coming, Gone, Never}]
      BY <2>1, <2>2, <2>3
    <2> QED BY <2>4, ConstantsAssumption DEF Init, FilesOK
  <1>2. QueueOK
    BY DEF Init, QueueOK
  <1>3. ScanOK
    BY DEF Init, ScanOK, IdleScan, ScanPcs
  <1>4. CallsOK
    BY DEF Init, CallsOK, IdleRequest, GoodCall, Call, RequestPcs
  <1> QED BY <1>1, <1>2, <1>3, <1>4 DEF TypeInv

(* Each step of the scanner, of a call, of a download and of a restart      *)
(* keeps the state in its ranges and the classifications in their folders.  *)
LEMMA TypeInvInductive == TypeInv /\ [Next]_vars => TypeInv'
  <1> SUFFICES ASSUME TypeInv, [Next]_vars PROVE TypeInv'
    OBVIOUS
  <1> USE DEF TypeInv
  <1>1. CASE ScanStart
    BY <1>1 DEF ScanStart, FilesOK, QueueOK, ScanOK, CallsOK, IdleScan, ScanPcs, Queued
  <1>2. CASE Reconcile
    <2> DEFINE m == CHOOSE m \in scan.rows : TRUE
    <2>1. m \in Files /\ {m} \in SUBSET Files
      BY <1>2 DEF Reconcile, ScanOK
    <2>2. /\ scan' = [scan EXCEPT !.rows = @ \ {m}] /\ scan.pc = "reconcile"
          /\ UNCHANGED <<where, versions, sentinel, calm, faults, calls>>
          /\ UNCHANGED <<queue, stale, req>> \/ DropRows({m})
      BY <1>2 DEF Reconcile
    <2> HIDE DEF m
    <2>3. QueueOK' /\ CallsOK'
      <3>1. CASE UNCHANGED <<queue, stale, req>>
        BY <3>1 DEF QueueOK, CallsOK
      <3>2. CASE DropRows({m})
        BY <2>1, <3>2, DropRowsKeeps
      <3> QED BY <2>2, <3>1, <3>2
    <2> QED BY <2>2, <2>3 DEF FilesOK, ScanOK
  <1>3. CASE ReconcileDone
    BY <1>3 DEF ReconcileDone, FilesOK, QueueOK, ScanOK, CallsOK, ScanPcs
  <1>4. CASE WalkFolder
    <2> DEFINE d == CHOOSE d \in scan.dirs : TRUE
    <2>1. d \in Drops
      BY <1>4 DEF WalkFolder, ScanOK
    <2>2. /\ scan' = IF d \in sentinel \/ PresentCandidates(d) = {}
                     THEN [scan EXCEPT !.dirs = @ \ {d}]
                     ELSE [scan EXCEPT !.dirs = @ \ {d}, !.pc = "process",
                                       !.main = MainOf(d), !.row = Classify(d)]
          /\ UNCHANGED <<where, queue, stale, versions, sentinel, req, calm, faults, calls>>
          /\ scan.pc = "walk"
      BY <1>4 DEF WalkFolder
    <2> HIDE DEF d
    <2>3. PresentCandidates(d) # {} => MainOf(d) \in Files /\ Classify(d) \in RowsFor(MainOf(d))
      BY <2>1, ClassifiedFromOneDrop
    <2>4. ScanOK'
      BY <2>2, <2>3 DEF ScanOK, ScanPcs, RowsFor
    <2> QED BY <2>2, <2>4 DEF FilesOK, QueueOK, CallsOK
  <1>5. CASE ProcessFile
    BY <1>5 DEF ProcessFile, FilesOK, QueueOK, ScanOK, CallsOK, ScanPcs
  <1>6. CASE EnqueueFile
    BY <1>6 DEF EnqueueFile, FilesOK, QueueOK, ScanOK, CallsOK, ScanPcs, RowsFor
  <1>7. CASE EnqueueFails
    <2>1. faults + 1 \in 0 .. MaxFaults
      BY <1>7, ConstantsAssumption DEF EnqueueFails, FilesOK
    <2> QED BY <1>7, <2>1 DEF EnqueueFails, FilesOK, QueueOK, ScanOK, CallsOK, ScanPcs
  <1>8. CASE Sweep
    <2>1. stale \in SUBSET Files /\ DropRows(stale)
      BY <1>8 DEF Sweep, QueueOK
    <2>2. QueueOK' /\ CallsOK'
      BY <2>1, DropRowsKeeps
    <2> QED BY <1>8, <2>2 DEF Sweep, FilesOK, ScanOK, IdleScan, ScanPcs
  <1> USE DEF RequestPcs, Working
  <1>9. ASSUME NEW q \in Requests, Begin(q) PROVE TypeInv'
    <2>1. PICK m \in Queued, whole, managed \in BOOLEAN : Step(q, Begun(m, whole, managed))
      BY <1>9 DEF Begin
    <2>2. m \in Files /\ queue[m] \in RowsFor(m)
      BY DEF Queued, QueueOK
    <2>3. CallsOK'
      BY <2>1, <2>2, BegunIsGood, StepKeeps
    <2>4. calls' \in 0 .. MaxCalls
      BY <1>9, ConstantsAssumption DEF Begin, FilesOK
    <2> QED BY <1>9, <2>3, <2>4 DEF Begin, Touched, FilesOK, QueueOK, ScanOK
  <1>10. ASSUME NEW q \in Requests, Preflight(q) PROVE TypeInv'
    <2>1. CallOK(req[q]) /\ req[q].main \in Files /\ req[q].pc = "preflight"
      BY <1>10, BusyCall DEF Preflight, CallOK
    <2>2. \/ Goto(q, "part") /\ UNCHANGED <<queue, stale>>
          \/ \E ok \in BOOLEAN : Return(q, ok)
      BY <1>10 DEF Preflight
    <2>3. QueueOK' /\ CallsOK'
      <3>1. CASE Goto(q, "part") /\ UNCHANGED <<queue, stale>>
        <4>1. CallsOK'
          BY <2>1, <3>1, GotoKeeps DEF CallOK
        <4> QED BY <3>1, <4>1 DEF QueueOK
      <3>2. CASE \E ok \in BOOLEAN : Return(q, ok)
        BY <2>1, <3>2, ReturnKeeps
      <3> QED BY <2>2, <3>1, <3>2
    <2> QED BY <1>10, <2>3 DEF Preflight, Touched, FilesOK, ScanOK
  <1>11. ASSUME NEW q \in Requests, Part(q) PROVE TypeInv'
    <2>1. CallOK(req[q]) /\ req[q].pc = "part"
      BY <1>11, BusyCall DEF Part
    <2>2. PICK pc \in {"abort", "adopt", "stat"} :
            Goto(q, pc)
      BY <1>11 DEF Part
    <2>3. CallsOK'
      BY <2>1, <2>2, GotoKeeps DEF CallOK
    <2> QED BY <1>11, <2>3 DEF Part, Touched, FilesOK, QueueOK, ScanOK
  <1>12. ASSUME NEW q \in Requests, Adopt(q) PROVE TypeInv'
    <2>1. CallOK(req[q]) /\ req[q].pc = "adopt" /\ Goto(q, "record")
      BY <1>12, BusyCall DEF Adopt
    <2>2. CallsOK'
      BY <2>1, GotoKeeps DEF CallOK
    <2>3. sentinel' \in SUBSET Drops /\ faults' \in 0 .. MaxFaults
      <3>1. DropOf[req[q].main] \in Drops
        BY <2>1, ConstantsAssumption DEF CallOK
      <3>2. CASE sentinel' = sentinel \cup {DropOf[req[q].main]} /\ UNCHANGED faults
        BY <3>1, <3>2 DEF FilesOK
      <3>3. CASE Faulty /\ UNCHANGED sentinel
        BY <3>3, ConstantsAssumption DEF FilesOK, Faulty
      <3> QED BY <1>12, <3>2, <3>3 DEF Adopt
    <2> QED BY <1>12, <2>2, <2>3 DEF Adopt, Touched, FilesOK, QueueOK, ScanOK
  <1>13. ASSUME NEW q \in Requests, StatTarget(q) PROVE TypeInv'
    <2>1. CallOK(req[q]) /\ req[q].pc = "stat" /\ (Goto(q, "abort") \/ Goto(q, "rename"))
      BY <1>13, BusyCall DEF StatTarget
    <2>2. CallsOK'
      BY <2>1, GotoKeeps DEF CallOK
    <2> QED BY <1>13, <2>2 DEF StatTarget, Touched, FilesOK, QueueOK, ScanOK
  <1>14. ASSUME NEW q \in Requests, Rename(q) PROVE TypeInv'
    <2>1. CallOK(req[q]) /\ req[q].pc = "rename" /\ (Goto(q, "abort") \/ Goto(q, "record"))
      BY <1>14, BusyCall DEF Rename
    <2>2. CallsOK'
      BY <2>1, GotoKeeps DEF CallOK
    <2>3. LibraryPath(RecOf[q], PartNo[Lead(q)]) \in Paths /\ Lead(q) \in Files
      BY <2>1, LeadIsFile DEF CallOK
    <2>4. FilesOK'
      BY <1>14, <2>3 DEF Rename, Moved, FilesOK, Touched
    <2> QED BY <1>14, <2>2, <2>4 DEF Rename, QueueOK, ScanOK
  <1>15. ASSUME NEW q \in Requests, Record(q) PROVE TypeInv'
    <2>1. CallOK(req[q]) /\ req[q].pc = "record" /\ Goto(q, "nfo")
      BY <1>15, BusyCall DEF Record
    <2>2. CallsOK'
      BY <2>1, GotoKeeps DEF CallOK
    <2>3. versions' \in SUBSET [path : Paths, file : Files] /\ faults' \in 0 .. MaxFaults
      <3> DEFINE path == IF req[q].managed THEN Src(Lead(q)) ELSE LibraryPath(RecOf[q], PartNo[Lead(q)])
                 file == CHOOSE f \in Files : where[f] = path
      <3>1. path \in Paths
        <4>1. Lead(q) \in Files /\ LibraryPath(RecOf[q], PartNo[Lead(q)]) \in Paths
          BY <2>1, LeadIsFile DEF CallOK
        <4> QED BY <4>1 DEF Paths
      <3>2. \/ /\ versions' = IF Taken(path) THEN {v \in versions : v.path # path} \cup {[path |-> path, file |-> file]}
                              ELSE versions
               /\ UNCHANGED faults
            \/ Faulty /\ UNCHANGED versions
        BY <1>15 DEF Record
      <3>3. Taken(path) => file \in Files
        BY DEF Taken
      <3> HIDE DEF path, file
      <3> QED BY <3>1, <3>2, <3>3, ConstantsAssumption DEF FilesOK, Faulty
    <2> QED BY <1>15, <2>2, <2>3 DEF Record, Touched, FilesOK, QueueOK, ScanOK
  <1>16. ASSUME NEW q \in Requests, Nfo(q) PROVE TypeInv'
    <2>1. /\ req[q] \in Call /\ CallOK(req[q])
          /\ (Step(q, PartDone(q)) /\ UNCHANGED faults) \/ (Faulty /\ Goto(q, "abort"))
      BY <1>16, BusyCall DEF Nfo
    <2>2. CallsOK'
      <3>1. CASE Step(q, PartDone(q))
        BY <2>1, <3>1, PartDoneIsGood, StepKeeps
      <3>2. CASE Goto(q, "abort")
        BY <2>1, <3>2, GotoKeeps
      <3> QED BY <2>1, <3>1, <3>2
    <2>3. faults' \in 0 .. MaxFaults
      BY <2>1, ConstantsAssumption DEF FilesOK, Faulty
    <2> QED BY <1>16, <2>2, <2>3 DEF Nfo, Touched, FilesOK, QueueOK, ScanOK
  <1>17. ASSUME NEW q \in Requests, Abort(q) PROVE TypeInv'
    <2>1. req[q].main \in Files /\ req[q].landed \in BOOLEAN /\ Return(q, req[q].landed)
      BY <1>17, BusyCall DEF Abort, CallOK, Call
    <2>2. QueueOK' /\ CallsOK'
      BY <2>1, ReturnKeeps
    <2> QED BY <1>17, <2>2 DEF Abort, Touched, FilesOK, ScanOK
  <1>18. ASSUME NEW q \in Requests, Extra(q) PROVE TypeInv'
    <2>1. PICK f \in req[q].extras :
            /\ where' = IF req[q].managed \/ ~Waits(f) THEN where ELSE Moved(f, ExtraPath(RecOf[q], f))
            /\ Step(q, [req[q] EXCEPT !.extras = @ \ {f}])
      BY <1>18 DEF Extra
    <2>2. req[q] \in Call /\ CallOK(req[q]) /\ req[q].pc = "extras"
      BY <1>18, BusyCall DEF Extra
    <2>3. f \in Files /\ ExtraPath(RecOf[q], f) \in Paths
      BY <2>2, ConstantsAssumption DEF Call, Paths
    <2>4. [req[q] EXCEPT !.extras = @ \ {f}] \in GoodCall
      BY <2>2 DEF GoodCall, Call, CallOK, OneDrop
    <2>5. CallsOK'
      BY <2>1, <2>4, StepKeeps
    <2>6. FilesOK'
      BY <1>18, <2>1, <2>3 DEF Extra, Moved, FilesOK, Touched
    <2> QED BY <1>18, <2>5, <2>6 DEF Extra, QueueOK, ScanOK
  <1>19. ASSUME NEW q \in Requests, Finish(q) PROVE TypeInv'
    <2>1. req[q].main \in Files /\ Return(q, TRUE)
      BY <1>19, BusyCall DEF Finish, CallOK
    <2>2. QueueOK' /\ CallsOK'
      BY <2>1, ReturnKeeps
    <2> QED BY <1>19, <2>2 DEF Finish, Touched, FilesOK, ScanOK
  <1>20. ASSUME NEW f \in Files, Settle(f) PROVE TypeInv'
    <2>1. Src(f) \in Paths
      BY DEF Paths
    <2> QED BY <1>20, <2>1 DEF Settle, Touched, FilesOK, QueueOK, ScanOK, CallsOK
  <1>21. CASE CrashRestart
    <2>1. CallsOK'
      BY <1>21 DEF CrashRestart, CallsOK, IdleRequest, GoodCall, Call
    <2>2. faults' \in 0 .. MaxFaults
      BY <1>21, ConstantsAssumption DEF CrashRestart, Faulty, FilesOK
    <2> QED BY <1>21, <2>1, <2>2 DEF CrashRestart, FilesOK, QueueOK, ScanOK, IdleScan, ScanPcs
  <1>22. CASE UNCHANGED vars
    BY <1>22 DEF vars, FilesOK, QueueOK, ScanOK, CallsOK
  <1> QED
    BY <1>1, <1>2, <1>3, <1>4, <1>5, <1>6, <1>7, <1>8, <1>9, <1>10, <1>11, <1>12, <1>13, <1>14,
       <1>15, <1>16, <1>17, <1>18, <1>19, <1>20, <1>21, <1>22 DEF Next, Scanner, Request

(* Whatever is queued, scanned, imported, dropped or lost: every row names  *)
(* files of one folder, and every call works on such files and has a part   *)
(* left to work on.                                                         *)
THEOREM TypeCorrect == Spec => []TypeOK
  <1>1. Init => TypeInv
    BY InitTypeInv
  <1>2. TypeInv /\ [Next]_vars => TypeInv'
    BY TypeInvInductive
  <1>3. TypeInv => TypeOK
    BY TypeInvImplies
  <1> QED BY <1>1, <1>2, <1>3, PTL DEF Spec

----------------------------------------------------------------------------
(* When imports of one recording do not overlap and no two extras share a   *)
(* name, nothing is lost and every version row leads to its file.           *)
Separate == ~Overlap /\ \A f, g \in Files : Name[f] = Name[g] => f = g

(* A file lies where it came, or where an import has put that very file.    *)
OwnPaths(f) == {Src(f)} \cup {LibraryPath(r, PartNo[f]) : r \in Recs} \cup {ExtraPath(r, f) : r \in Recs}
Places == \A f \in Files : where[f] \in OwnPaths(f) \cup {Coming, Never}

(* No two files lie at one place. *)
Apart == \A f, g \in Files : where[f] = where[g] /\ where[f] \in Paths => f = g

(* A row leads to its file, unless that was adopted where it came in and    *)
(* has been moved since.                                                    *)
RowsLead == \A v \in versions : where[v.file] = v.path \/ LeftBehind(v)

(* What was free at the stat is free at the rename: the one call that could *)
(* take it is this one.                                                     *)
OneCallEach == \A p, q \in InFlight : RecOf[p] = RecOf[q] => p = q
Free(q) == req[q].pc = "rename" => ~Taken(LibraryPath(RecOf[q], PartNo[Lead(q)]))
AllFree == \A q \in Requests : Free(q)

SafeInv == Places /\ Apart /\ RowsLead /\ OneCallEach /\ AllFree

Still(q) == req'[q].pc = req[q].pc /\ req'[q].parts = req[q].parts

----------------------------------------------------------------------------
LEMMA OwnPathsArePaths ==
  ASSUME NEW f \in Files
  PROVE  /\ OwnPaths(f) \subseteq Paths
         /\ Coming \notin Paths /\ Never \notin Paths /\ Gone \notin Paths \cup {Coming, Never}
  BY PathsAssumption DEF OwnPaths, Paths

LEMMA SameCallIsStill ==
  ASSUME CallsOK, NEW q \in Requests, SameCall(q)
  PROVE  Still(q)
  <1>1. req[q] \in Call
    BY DEF CallsOK, GoodCall
  <1> QED BY <1>1 DEF SameCall, Still, Call

(* A move to a place that is free and its own loses no file, and leaves     *)
(* behind no row but that of an adopted file.                               *)
LEMMA MoveKeepsFiles ==
  ASSUME TypeInv, SafeInv, NEW f \in Files, Waits(f),
         NEW dest \in OwnPaths(f), ~Taken(dest), where' = Moved(f, dest), UNCHANGED versions
  PROVE  Places' /\ Apart' /\ RowsLead'
  <1>1. /\ where'[f] = dest
        /\ \A g \in Files \ {f} : where'[g] = where[g]
    BY DEF Moved, Taken
  <1>2. Places'
    BY <1>1 DEF SafeInv, Places
  <1>3. ASSUME NEW v \in versions PROVE where'[v.file] = v.path \/ LeftBehind(v)
    <2>1. v.file \in Files /\ (where[v.file] = v.path \/ LeftBehind(v))
      BY DEF TypeInv, FilesOK, SafeInv, RowsLead
    <2> QED BY <1>1, <2>1 DEF Waits, LeftBehind
  <1>4. RowsLead'
    BY <1>3 DEF RowsLead, LeftBehind
  <1>5. Apart'
    BY <1>1 DEF SafeInv, Apart, Taken
  <1> QED BY <1>2, <1>4, <1>5

(* Files stay, and at most call p has moved on: what is free stays free.    *)
LEMMA CallKeepsFree ==
  ASSUME TypeInv, SafeInv, NEW p \in Requests, req[p].pc # "idle",
         \A q \in Requests \ {p} : Still(q),
         UNCHANGED where, req'[p].pc = "rename" => Free(p)'
  PROVE  OneCallEach' /\ AllFree'
  <1>1. InFlight' \subseteq InFlight
    BY DEF InFlight, Still
  <1>2. ASSUME NEW q \in Requests \ {p} PROVE Free(q)'
    <2>1. Lead(q)' = Lead(q) /\ req'[q].pc = req[q].pc
      BY DEF Lead, Still
    <2>2. Free(q)
      BY DEF SafeInv, AllFree
    <2> QED BY <2>1, <2>2 DEF Free, Taken
  <1>3. Free(p)'
    BY DEF Free
  <1> QED BY <1>1, <1>2, <1>3 DEF SafeInv, OneCallEach, AllFree

LEMMA FilesFrame ==
  ASSUME SafeInv, UNCHANGED <<where, versions>>
  PROVE  Places' /\ Apart' /\ RowsLead'
  BY DEF SafeInv, Places, Apart, RowsLead, LeftBehind

LEMMA CallsFrame ==
  ASSUME SafeInv, \A q \in Requests : Still(q), UNCHANGED where
  PROVE  OneCallEach' /\ AllFree'
  <1>1. InFlight' = InFlight
    BY DEF InFlight, Still
  <1>2. ASSUME NEW q \in Requests PROVE Free(q)'
    <2>1. Lead(q)' = Lead(q) /\ req'[q].pc = req[q].pc
      BY DEF Lead, Still
    <2>2. Free(q)
      BY DEF SafeInv, AllFree
    <2> QED BY <2>1, <2>2 DEF Free, Taken
  <1> QED BY <1>1, <1>2 DEF SafeInv, OneCallEach, AllFree

(* After Goto or Step of one call the others are still. *)
LEMMA StepOthers ==
  ASSUME CallsOK, NEW p \in Requests, NEW c, Step(p, c)
  PROVE  req'[p] = c /\ \A q \in Requests \ {p} : Still(q)
  BY DEF CallsOK, Step, Still

LEMMA GotoOthers ==
  ASSUME CallsOK, NEW p \in Requests, req[p] \in Call, NEW pc, Goto(p, pc)
  PROVE  req'[p].pc = pc /\ req'[p].parts = req[p].parts /\ \A q \in Requests \ {p} : Still(q)
  <1>1. [req[p] EXCEPT !.pc = pc].pc = pc /\ [req[p] EXCEPT !.pc = pc].parts = req[p].parts
    BY DEF Call
  <1> QED BY <1>1, StepOthers DEF Goto

LEMMA ReturnOthers ==
  ASSUME TypeInv, NEW p \in Requests, req[p].main \in Files, NEW ok \in BOOLEAN, Return(p, ok)
  PROVE  req'[p].pc = "idle" /\ \A q \in Requests \ {p} : Still(q)
  <1>1. \A q \in Requests : IF q = p THEN req'[q] = IdleRequest ELSE SameCall(q)
    BY ReturnKeeps DEF TypeInv
  <1> QED BY <1>1, SameCallIsStill DEF TypeInv, IdleRequest

----------------------------------------------------------------------------
LEMMA InitSafeInv == Init => SafeInv
  <1> SUFFICES ASSUME Init PROVE SafeInv
    OBVIOUS
  <1>1. Places /\ Apart
    <2>1. PICK s \in Starts :
            where = [f \in Files |-> CASE s[f] = "here" -> Src(f)
                                       [] s[f] = "late" -> Coming
                                       [] s[f] = "never" -> Never]
      BY DEF Init
    <2>2. s \in [Files -> {"here", "late", "never"}]
      BY ConstantsAssumption
    <2>3. \A f \in Files : where[f] \in {Src(f), Coming, Never}
      BY <2>1, <2>2
    <2>4. Apart
      BY <2>3, OwnPathsArePaths DEF Apart, Src
    <2> QED BY <2>3, <2>4 DEF Places, OwnPaths
  <1>2. \A q \in Requests : req[q].pc = "idle"
    BY DEF Init, IdleRequest
  <1> QED BY <1>1, <1>2 DEF Init, SafeInv, RowsLead, OneCallEach, AllFree, Free, InFlight

LEMMA SafeInvInductive ==
  ASSUME Separate, TypeInv, SafeInv, [Next]_vars
  PROVE  SafeInv'
  <1> USE DEF TypeInv
  <1>1. CASE ScanStart \/ ReconcileDone \/ WalkFolder \/ ProcessFile \/ EnqueueFile \/ EnqueueFails
    <2>1. UNCHANGED <<where, versions, req>>
      BY <1>1 DEF ScanStart, ReconcileDone, WalkFolder, ProcessFile, EnqueueFile, EnqueueFails
    <2> QED BY <2>1, FilesFrame, CallsFrame DEF Still, SafeInv
  <1>2. CASE Reconcile
    <2>1. PICK m \in Files : UNCHANGED <<queue, stale, req>> \/ DropRows({m})
      BY <1>2 DEF Reconcile, ScanOK
    <2>2. \A q \in Requests : Still(q)
      <3>1. CASE UNCHANGED req
        BY <3>1 DEF Still
      <3>2. CASE DropRows({m})
        BY <3>2, DropRowsKeeps, SameCallIsStill
      <3> QED BY <2>1, <3>1, <3>2
    <2> QED BY <1>2, <2>2, FilesFrame, CallsFrame DEF Reconcile, SafeInv
  <1>3. CASE Sweep
    <2>1. \A q \in Requests : Still(q)
      BY <1>3, DropRowsKeeps, SameCallIsStill DEF Sweep, QueueOK
    <2> QED BY <1>3, <2>1, FilesFrame, CallsFrame DEF Sweep, SafeInv
  <1>4. ASSUME NEW p \in Requests, Begin(p) PROVE SafeInv'
    <2>1. PICK m \in Queued, whole, managed \in BOOLEAN : Step(p, Begun(m, whole, managed))
      BY <1>4 DEF Begin
    <2>2. m \in Files /\ queue[m] \in RowsFor(m)
      BY DEF Queued, QueueOK
    <2>3. req'[p] = Begun(m, whole, managed) /\ \A q \in Requests \ {p} : Still(q)
      BY <2>1, StepOthers
    <2>4. Begun(m, whole, managed).pc \in {"part", "preflight"}
      BY <2>2 DEF Begun, IdleRequest
    <2>5. /\ req[p].pc = "idle" /\ UNCHANGED <<where, versions>>
          /\ \A q \in InFlight : RecOf[q] # RecOf[p]
      BY <1>4 DEF Begin, Separate
    <2>6. OneCallEach'
      <3>1. InFlight' \subseteq InFlight \cup {p}
        BY <2>3 DEF InFlight, Still
      <3> QED BY <2>5, <3>1 DEF SafeInv, OneCallEach
    <2>7. AllFree'
      <3>1. ASSUME NEW q \in Requests \ {p} PROVE Free(q)'
        <4>1. Lead(q)' = Lead(q) /\ req'[q].pc = req[q].pc /\ Free(q)
          BY <2>3 DEF Lead, Still, SafeInv, AllFree
        <4> QED BY <2>5, <4>1 DEF Free, Taken
      <3>2. Free(p)'
        BY <2>3, <2>4 DEF Free
      <3> QED BY <3>1, <3>2 DEF AllFree
    <2> QED BY <2>5, <2>6, <2>7, FilesFrame DEF SafeInv
  <1>5. ASSUME NEW p \in Requests, Preflight(p) \/ Abort(p) \/ Finish(p) PROVE SafeInv'
    <2>1. req[p].pc # "idle" /\ UNCHANGED <<where, versions>>
      BY <1>5 DEF Preflight, Abort, Finish
    <2>2. req[p] \in Call /\ CallOK(req[p])
      BY <2>1, BusyCall
    <2>3. req[p].main \in Files /\ req[p].landed \in BOOLEAN
      BY <2>2 DEF CallOK, Call
    <2>4. Goto(p, "part") \/ \E ok \in BOOLEAN : Return(p, ok)
      BY <1>5, <2>3 DEF Preflight, Abort, Finish
    <2>5. req'[p].pc # "rename" /\ \A q \in Requests \ {p} : Still(q)
      BY <2>2, <2>3, <2>4, GotoOthers, ReturnOthers
    <2> QED BY <2>1, <2>5, CallKeepsFree, FilesFrame DEF SafeInv
  <1>6. ASSUME NEW p \in Requests, Part(p) \/ Adopt(p) \/ StatTarget(p) PROVE SafeInv'
    <2>1. req[p].pc # "idle" /\ UNCHANGED <<where, versions>>
      BY <1>6 DEF Part, Adopt, StatTarget
    <2>2. req[p] \in Call
      BY <2>1, BusyCall
    <2>3. \/ \E pc \in {"abort", "adopt", "stat", "record"} : Goto(p, pc)
          \/ Goto(p, "rename") /\ ~Taken(LibraryPath(RecOf[p], PartNo[Lead(p)]))
      BY <1>6 DEF Part, Adopt, StatTarget
    <2>4. /\ \A q \in Requests \ {p} : Still(q)
          /\ req'[p].pc = "rename" => Free(p)'
      <3>1. CASE \E pc \in {"abort", "adopt", "stat", "record"} : Goto(p, pc)
        BY <2>2, <3>1, GotoOthers
      <3>2. CASE Goto(p, "rename") /\ ~Taken(LibraryPath(RecOf[p], PartNo[Lead(p)]))
        <4>1. req'[p].parts = req[p].parts /\ \A q \in Requests \ {p} : Still(q)
          BY <2>2, <3>2, GotoOthers
        <4>2. Lead(p)' = Lead(p)
          BY <4>1 DEF Lead
        <4> QED BY <2>1, <3>2, <4>1, <4>2 DEF Free, Taken
      <3> QED BY <2>3, <3>1, <3>2
    <2> QED BY <2>1, <2>4, CallKeepsFree, FilesFrame DEF SafeInv
  <1>7. ASSUME NEW p \in Requests, Rename(p) PROVE SafeInv'
    <2> DEFINE f == Lead(p)
               dest == LibraryPath(RecOf[p], PartNo[f])
    <2>1. /\ req[p] \in Call /\ CallOK(req[p]) /\ req[p].pc = "rename"
          /\ UNCHANGED versions
      BY <1>7, BusyCall DEF Rename
    <2>2. f \in req[p].parts /\ f \in Files
      BY <2>1, LeadIsFile DEF CallOK, Working
    <2>4. dest \in OwnPaths(f) /\ ~Taken(dest)
      BY <2>1, <2>2, ConstantsAssumption DEF OwnPaths, SafeInv, AllFree, Free
    <2>5. CASE Waits(f)
      <3>1. where' = Moved(f, dest) /\ Goto(p, "record")
        BY <1>7, <2>5 DEF Rename
      <3>2. Places' /\ Apart' /\ RowsLead'
        BY <2>1, <2>2, <2>4, <2>5, <3>1, MoveKeepsFiles
      <3>3. req'[p].pc = "record" /\ \A q \in Requests \ {p} : Still(q)
        BY <2>1, <3>1, GotoOthers
      <3>4. OneCallEach'
        <4>1. InFlight' \subseteq InFlight
          BY <2>1, <3>3 DEF InFlight, Still
        <4> QED BY <4>1 DEF SafeInv, OneCallEach
      <3>5. AllFree'
        <4>1. ASSUME NEW q \in Requests \ {p}, req[q].pc = "rename" PROVE Free(q)'
          <5>1. Lead(q)' = Lead(q) /\ Free(q)
            BY <3>3 DEF Lead, Still, SafeInv, AllFree
          <5>2. RecOf[q] # RecOf[p]
            BY <2>1, <4>1 DEF SafeInv, OneCallEach, InFlight
          <5>3. dest # LibraryPath(RecOf[q], PartNo[Lead(q)])
            BY <5>2 DEF LibraryPath
          <5>4. /\ where'[f] = dest
                /\ \A g \in Files \ {f} : where'[g] = where[g]
            BY <2>2, <2>4, <3>1 DEF Moved, Taken
          <5> QED BY <4>1, <5>1, <5>3, <5>4 DEF Free, Taken
        <4>2. ASSUME NEW q \in Requests, q = p \/ req[q].pc # "rename" PROVE Free(q)'
          BY <3>3, <4>2 DEF Free, Still
        <4> QED BY <4>1, <4>2 DEF AllFree
      <3> QED BY <3>2, <3>4, <3>5 DEF SafeInv
    <2>6. CASE ~Waits(f)
      <3>1. Goto(p, "abort") /\ UNCHANGED where
        BY <1>7, <2>6 DEF Rename
      <3>2. req'[p].pc = "abort" /\ \A q \in Requests \ {p} : Still(q)
        BY <2>1, <3>1, GotoOthers
      <3> QED BY <2>1, <3>1, <3>2, CallKeepsFree, FilesFrame DEF SafeInv
    <2> QED BY <2>5, <2>6
  <1>8. ASSUME NEW p \in Requests, Record(p) PROVE SafeInv'
    <2> DEFINE f == Lead(p)
               path == IF req[p].managed THEN Src(f) ELSE LibraryPath(RecOf[p], PartNo[f])
               file == CHOOSE g \in Files : where[g] = path
    <2>1. /\ req[p] \in Call /\ CallOK(req[p]) /\ req[p].pc = "record"
          /\ UNCHANGED where /\ Goto(p, "nfo")
      BY <1>8, BusyCall DEF Record
    <2>2. f \in req[p].parts /\ f \in Files
      BY <2>1, LeadIsFile DEF CallOK, Working
    <2>3. OneCallEach' /\ AllFree'
      BY <2>1, GotoOthers, CallKeepsFree
    <2>4. \/ versions' \subseteq versions \cup {[path |-> path, file |-> file]} /\ Taken(path)
          \/ UNCHANGED versions
      BY <1>8 DEF Record
    <2>5. Taken(path) => where[file] = path
      BY DEF Taken
    <2>6. RowsLead'
      <3> HIDE DEF path, file
      <3> QED BY <2>1, <2>4, <2>5 DEF SafeInv, RowsLead, LeftBehind
    <2>7. Places' /\ Apart'
      BY <2>1 DEF SafeInv, Places, Apart
    <2> QED BY <2>3, <2>6, <2>7 DEF SafeInv
  <1>9. ASSUME NEW p \in Requests, Nfo(p) PROVE SafeInv'
    <2>1. /\ req[p] \in Call /\ req[p].pc = "nfo" /\ UNCHANGED <<where, versions>>
          /\ Step(p, PartDone(p)) \/ Goto(p, "abort")
      BY <1>9, BusyCall DEF Nfo
    <2>2. PartDone(p).pc # "rename"
      BY <2>1 DEF PartDone, Call
    <2>3. req'[p].pc # "rename" /\ \A q \in Requests \ {p} : Still(q)
      BY <2>1, <2>2, StepOthers, GotoOthers
    <2> QED BY <2>1, <2>3, CallKeepsFree, FilesFrame DEF SafeInv
  <1>10. ASSUME NEW p \in Requests, Extra(p) PROVE SafeInv'
    <2>1. PICK f \in req[p].extras :
            /\ where' = IF req[p].managed \/ ~Waits(f) THEN where ELSE Moved(f, ExtraPath(RecOf[p], f))
            /\ Step(p, [req[p] EXCEPT !.extras = @ \ {f}])
      BY <1>10 DEF Extra
    <2> DEFINE c == [req[p] EXCEPT !.extras = @ \ {f}]
               dest == ExtraPath(RecOf[p], f)
    <2>2. /\ req[p] \in Call /\ CallOK(req[p]) /\ req[p].pc = "extras"
          /\ UNCHANGED versions
      BY <1>10, BusyCall DEF Extra
    <2>3. f \in Files /\ c.pc = "extras"
      BY <2>2 DEF Call
    <2>4. req'[p] = c /\ \A q \in Requests \ {p} : Still(q)
      BY <2>1, StepOthers
    <2>5. CASE req[p].managed \/ ~Waits(f)
      BY <2>1, <2>2, <2>3, <2>4, <2>5, CallKeepsFree, FilesFrame DEF SafeInv
    <2>6. CASE ~req[p].managed /\ Waits(f)
      <3> HIDE DEF c
      <3>1. dest \in OwnPaths(f) /\ where' = Moved(f, dest)
        BY <2>1, <2>3, <2>6, ConstantsAssumption DEF OwnPaths
      <3>2. ASSUME NEW g \in Files, where[g] = dest PROVE FALSE
        <4>1. where[g] \in Paths /\ where[g] \in OwnPaths(g) \cup {Coming, Never}
          BY <3>1, <3>2, <2>3, OwnPathsArePaths DEF SafeInv, Places
        <4>2. PICK r \in Recs : where[g] = ExtraPath(r, g)
          BY <3>2, <4>1, OwnPathsArePaths DEF OwnPaths, Src, LibraryPath, ExtraPath
        <4>3. Name[g] = Name[f]
          BY <3>2, <4>2 DEF ExtraPath
        <4>4. g = f
          BY <2>3, <4>3 DEF Separate
        <4> QED BY <2>6, <3>2, <4>4 DEF Waits, Src, ExtraPath
      <3>3. ~Taken(dest)
        BY <3>2 DEF Taken
      <3>4. Places' /\ Apart' /\ RowsLead'
        BY <2>2, <2>3, <2>6, <3>1, <3>3, MoveKeepsFiles
      <3>5. /\ where'[f] = dest
            /\ \A g \in Files \ {f} : where'[g] = where[g]
        BY <2>3, <3>1, <3>3 DEF Moved, Taken
      <3>6. OneCallEach'
        <4>1. InFlight' \subseteq InFlight
          BY <2>2, <2>4 DEF InFlight, Still
        <4> QED BY <4>1 DEF SafeInv, OneCallEach
      <3>7. AllFree'
        <4>1. ASSUME NEW q \in Requests \ {p} PROVE Free(q)'
          <5>1. Lead(q)' = Lead(q) /\ req'[q].pc = req[q].pc /\ Free(q)
            BY <2>4 DEF Lead, Still, SafeInv, AllFree
          <5>2. dest # LibraryPath(RecOf[q], PartNo[Lead(q)])
            BY DEF ExtraPath, LibraryPath
          <5> QED BY <3>5, <5>1, <5>2 DEF Free, Taken
        <4>2. Free(p)'
          BY <2>3, <2>4 DEF Free
        <4> QED BY <4>1, <4>2 DEF AllFree
      <3> QED BY <3>4, <3>6, <3>7 DEF SafeInv
    <2> QED BY <2>5, <2>6
  <1>11. ASSUME NEW f \in Files, Settle(f) PROVE SafeInv'
    <2>1. /\ where[f] = Coming /\ UNCHANGED <<versions, req>>
          /\ where'[f] = Src(f) /\ \A g \in Files \ {f} : where'[g] = where[g]
      BY <1>11 DEF Settle, FilesOK
    <2>2. Places'
      BY <2>1 DEF SafeInv, Places, OwnPaths
    <2>3. RowsLead'
      <3>1. ASSUME NEW v \in versions PROVE where'[v.file] = v.path \/ LeftBehind(v)
        <4>1. v.file \in Files /\ v.path \in Paths /\ (where[v.file] = v.path \/ LeftBehind(v))
          BY DEF FilesOK, SafeInv, RowsLead
        <4> QED BY <2>1, <4>1, PathsAssumption
      <3> QED BY <2>1, <3>1 DEF RowsLead, LeftBehind
    <2>5. Apart'
      <3>1. \A g \in Files \ {f} : where[g] # Src(f)
        BY OwnPathsArePaths DEF SafeInv, Places, OwnPaths, Src, LibraryPath, ExtraPath, Paths
      <3> QED BY <2>1, <3>1 DEF SafeInv, Apart
    <2>4. AllFree'
      <3>1. ASSUME NEW q \in Requests PROVE Free(q)'
        <4>1. Lead(q)' = Lead(q) /\ Free(q)
          BY <2>1 DEF Lead, SafeInv, AllFree
        <4>2. Src(f) # LibraryPath(RecOf[q], PartNo[Lead(q)])
          BY DEF Src, LibraryPath
        <4> QED BY <2>1, <4>1, <4>2 DEF Free, Taken
      <3> QED BY <3>1 DEF AllFree
    <2> QED BY <2>1, <2>2, <2>3, <2>4, <2>5 DEF SafeInv, OneCallEach, InFlight
  <1>12. CASE CrashRestart
    <2>1. \A q \in Requests : req'[q].pc = "idle"
      BY <1>12 DEF CrashRestart, IdleRequest
    <2>2. OneCallEach' /\ AllFree'
      BY <2>1 DEF OneCallEach, InFlight, AllFree, Free
    <2> QED BY <1>12, <2>2, FilesFrame DEF CrashRestart, SafeInv
  <1>13. CASE UNCHANGED vars
    BY <1>13, FilesFrame, CallsFrame DEF vars, Still, SafeInv
  <1> QED
    BY <1>1, <1>2, <1>3, <1>4, <1>5, <1>6, <1>7, <1>8, <1>9, <1>10, <1>11, <1>12, <1>13
       DEF Next, Scanner, Request

LEMMA SafeInvHolds ==
  ASSUME Separate
  PROVE  Spec => [](TypeInv /\ SafeInv)
  <1>1. Init => TypeInv /\ SafeInv
    BY InitTypeInv, InitSafeInv
  <1>2. TypeInv /\ SafeInv /\ [Next]_vars => (TypeInv /\ SafeInv)'
    BY TypeInvInductive, SafeInvInductive
  <1> QED BY <1>1, <1>2, PTL DEF Spec

(* No import destroys a file, whatever fails, crashes or is retried, as     *)
(* long as imports of one recording do not overlap (the stat and the rename *)
(* of Plan.Apply are two calls) and no two extras share a name.             *)
THEOREM NothingLostHolds ==
  ASSUME Separate
  PROVE  Spec => []NothingLost
  <1>1. TypeInv /\ SafeInv => NothingLost
    BY OwnPathsArePaths DEF SafeInv, Places, NothingLost
  <1> QED BY <1>1, SafeInvHolds, PTL

(* Under the same conditions a recording_versions row leads to the file it  *)
(* was written for or, when a later call has moved the adopted file, to     *)
(* nothing: never to another file's bytes.  A call may be managed and its   *)
(* retry not.                                                               *)
THEOREM RowsDescribeTheirFileHolds ==
  ASSUME Separate
  PROVE  Spec => []RowsDescribeTheirFile
  <1>1. ASSUME TypeInv, SafeInv PROVE RowsDescribeTheirFile
    <2> SUFFICES ASSUME NEW v \in versions
                 PROVE  /\ where[v.file] = v.path \/ LeftBehind(v)
                        /\ \A f \in Files : where[f] = v.path => f = v.file
      BY DEF RowsDescribeTheirFile
    <2>1. v.file \in Files /\ v.path \in Paths /\ (where[v.file] = v.path \/ LeftBehind(v))
      BY <1>1 DEF TypeInv, FilesOK, SafeInv, RowsLead
    <2>2. ASSUME NEW f \in Files, where[f] = v.path PROVE f = v.file
      <3>1. CASE where[v.file] = v.path
        BY <1>1, <2>1, <2>2, <3>1 DEF SafeInv, Apart
      <3>2. CASE LeftBehind(v)
        <4>1. where[f] = Src(v.file) /\ where[f] \in OwnPaths(f) \cup {Coming, Never}
          BY <1>1, <2>2, <3>2 DEF LeftBehind, SafeInv, Places
        <4> QED BY <2>1, <2>2, <4>1, PathsAssumption DEF OwnPaths, Src, LibraryPath, ExtraPath
      <3> QED BY <2>1, <3>1, <3>2
    <2> QED BY <2>1, <2>2
  <1> QED BY <1>1, SafeInvHolds, PTL

----------------------------------------------------------------------------
(* A pass nothing disturbs.  What it has stamped waits, and a folder it has *)
(* done with that waits is stamped; the folder it has in hand is neither    *)
(* yet.                                                                     *)
Stamped(m) == queue[m] # NoRow /\ m \notin stale
Offers(d) == d \in Drops \ sentinel /\ PresentCandidates(d) # {}
InHand(m) == scan.pc \in {"process", "enqueue"} /\ scan.main = m

PassFacts ==
    /\ scan.pc = "reconcile" => scan.dirs = Drops
    /\ \A m \in Files : Stamped(m) => m \in Waiting
    /\ \A d \in Drops \ scan.dirs :
         Offers(d) /\ ~InHand(MainOf(d)) /\ ~Tracked(Src(MainOf(d))) => Stamped(MainOf(d))
    /\ scan.pc \in {"process", "enqueue"} => \E d \in Drops : Offers(d) /\ scan.main = MainOf(d)
    /\ scan.pc = "enqueue" => ~Tracked(Src(scan.main))
PassInv == scan.pc # "idle" /\ calm => PassFacts

LEMMA PassInvInductive == TypeInv /\ PassInv /\ [Next]_vars => PassInv'
  <1> SUFFICES ASSUME TypeInv, PassInv, [Next]_vars, (scan.pc # "idle" /\ calm)' PROVE PassFacts'
    BY DEF PassInv
  <1>1. CASE \/ \E q \in Requests : Request(q)
             \/ \E f \in Files : Settle(f)
             \/ EnqueueFails \/ Sweep \/ CrashRestart
    <2>1. ~Sweep /\ ~CrashRestart
      <3>1. scan' # IdleScan
        BY DEF IdleScan
      <3> QED BY <3>1 DEF Sweep, CrashRestart
    <2>2. ~EnqueueFails
      BY DEF EnqueueFails
    <2>3. ASSUME NEW q \in Requests, Request(q) PROVE FALSE
      BY <2>3 DEF Request, Begin, Preflight, Part, Adopt, StatTarget, Rename, Record, Nfo, Abort,
                  Extra, Finish, Touched
    <2>4. ASSUME NEW f \in Files, Settle(f) PROVE FALSE
      BY <2>4 DEF Settle, Touched
    <2> QED BY <1>1, <2>1, <2>2, <2>3, <2>4
  <1>2. CASE ScanStart
    BY <1>2 DEF ScanStart, PassFacts, Stamped, Queued, IdleScan, InHand
  <1> SUFFICES ASSUME Reconcile \/ ReconcileDone \/ WalkFolder \/ ProcessFile \/ EnqueueFile
                        \/ UNCHANGED vars
               PROVE  PassFacts'
    BY <1>1, <1>2 DEF Next, Scanner
  (* The folders are what they were. *)
  <1>3. UNCHANGED <<where, versions, sentinel, calm>> /\ PassFacts
    BY DEF PassInv, Reconcile, ReconcileDone, WalkFolder, ProcessFile, EnqueueFile, vars
  <1>4. /\ Waiting' = Waiting
        /\ \A d : (Offers(d)' <=> Offers(d)) /\ MainOf(d)' = MainOf(d)
                    /\ (Tracked(Src(MainOf(d)))' <=> Tracked(Src(MainOf(d))))
        /\ \A m : Tracked(Src(m))' <=> Tracked(Src(m))
    BY <1>3 DEF Waiting, Offered, Offers, MainOf, Multipart, Marked, PresentCandidates, Present, Waits,
                Tracked, Src
  <1> HIDE DEF Waiting, Offers, MainOf, Tracked, Src
  <1>5. CASE Reconcile
    <2>1. scan.pc = "reconcile" /\ scan'.pc = "reconcile" /\ scan'.dirs = scan.dirs
      BY <1>5 DEF Reconcile, TypeInv, ScanOK
    <2>2. \A m \in Files : Stamped(m)' => Stamped(m)
      BY <1>5 DEF Reconcile, DropRows, Stamped
    <2> QED BY <1>3, <1>4, <2>1, <2>2 DEF PassFacts
  <1>6. CASE ReconcileDone
    <2>1. /\ scan.pc = "reconcile" /\ scan'.pc = "walk" /\ scan'.dirs = scan.dirs
          /\ UNCHANGED <<queue, stale>>
      BY <1>6 DEF ReconcileDone, TypeInv, ScanOK
    <2> QED BY <1>3, <1>4, <2>1 DEF PassFacts, Stamped
  <1>7. CASE WalkFolder
    <2> DEFINE d == CHOOSE d \in scan.dirs : TRUE
    <2>1. d \in Drops
      BY <1>7 DEF WalkFolder, TypeInv, ScanOK
    <2>2. /\ scan.pc = "walk" /\ scan'.dirs = scan.dirs \ {d} /\ UNCHANGED <<queue, stale>>
          /\ IF Offers(d) THEN scan'.pc = "process" /\ scan'.main = MainOf(d)
                          ELSE scan'.pc = "walk"
      BY <1>7, <2>1 DEF WalkFolder, TypeInv, ScanOK, Offers
    <2> HIDE DEF d
    <2>3. \A e \in Drops \ scan'.dirs : Offers(e) /\ ~InHand(MainOf(e))' => e \in Drops \ scan.dirs
      BY <1>4, <2>2 DEF InHand
    <2>4. ~ \E m : InHand(m)
      BY <2>2 DEF InHand
    <2>5. \A e \in Drops \ scan'.dirs :
            Offers(e) /\ ~InHand(MainOf(e))' /\ ~Tracked(Src(MainOf(e))) => Stamped(MainOf(e))'
      BY <1>3, <1>4, <2>2, <2>3, <2>4 DEF PassFacts, Stamped
    <2>6. \A m \in Files : Stamped(m)' => Stamped(m)
      BY <2>2 DEF Stamped
    <2>7. scan'.pc \in {"process", "enqueue"} => \E e \in Drops : Offers(e) /\ scan'.main = MainOf(e)
      BY <2>1, <2>2
    <2>8. scan'.pc # "reconcile" /\ scan'.pc # "enqueue"
      BY <2>2
    <2> QED BY <1>3, <1>4, <2>5, <2>6, <2>7, <2>8 DEF PassFacts, InHand
  <1>8. CASE ProcessFile
    <2>1. PICK d \in Drops : Offers(d) /\ scan.main = MainOf(d)
      BY <1>3, <1>8 DEF PassFacts, ProcessFile
    <2>2. Waits(scan.main)
      BY <2>1, MainIsPresent DEF Offers, Present
    <2>3. /\ scan.pc = "process" /\ scan'.dirs = scan.dirs /\ UNCHANGED <<queue, stale>>
          /\ IF ~Tracked(Src(scan.main)) THEN scan'.pc = "enqueue" /\ scan'.main = scan.main
                                         ELSE scan'.pc = "walk"
      BY <1>8, <2>2 DEF ProcessFile, TypeInv, ScanOK
    <2>4. \A m : ~InHand(m)' /\ ~Tracked(Src(m)) => ~InHand(m)
      BY <2>3 DEF InHand
    <2>5. \A e \in Drops \ scan'.dirs :
            Offers(e) /\ ~InHand(MainOf(e))' /\ ~Tracked(Src(MainOf(e))) => Stamped(MainOf(e))'
      BY <1>3, <1>4, <2>3, <2>4 DEF PassFacts, Stamped
    <2>6. \A m \in Files : Stamped(m)' => Stamped(m)
      BY <2>3 DEF Stamped
    <2>7. /\ scan'.pc \in {"process", "enqueue"} => \E e \in Drops : Offers(e) /\ scan'.main = MainOf(e)
          /\ scan'.pc = "enqueue" => ~Tracked(Src(scan'.main))
          /\ scan'.pc # "reconcile"
      BY <2>1, <2>3
    <2> QED BY <1>3, <1>4, <2>5, <2>6, <2>7 DEF PassFacts, InHand
  <1>9. CASE EnqueueFile
    <2>1. PICK d \in Drops : Offers(d) /\ scan.main = MainOf(d)
      BY <1>3, <1>9 DEF PassFacts, EnqueueFile
    <2>2. scan.main \in Files /\ scan.row # NoRow
      BY <1>9, ConstantsAssumption DEF EnqueueFile, TypeInv, ScanOK, RowsFor, Rows
    <2>3. /\ scan.pc = "enqueue" /\ scan'.pc = "walk" /\ scan'.dirs = scan.dirs
          /\ queue' = [queue EXCEPT ![scan.main] = scan.row] /\ stale' = stale \ {scan.main}
      BY <1>9 DEF EnqueueFile, TypeInv, ScanOK
    <2>4. scan.main \in Waiting
      BY <1>3, <2>1, <2>3 DEF PassFacts, Waiting, Offered, Offers
    <2>5. \A m \in Files : Stamped(m)' <=> Stamped(m) \/ m = scan.main
      BY <2>2, <2>3 DEF Stamped, TypeInv, QueueOK
    <2>6. \A m : InHand(m) => m = scan.main
      BY DEF InHand
    <2>7. \A e \in Drops : Offers(e) => MainOf(e) \in Files
      BY MainIsPresent DEF Offers, Present
    <2>8. \A e \in Drops \ scan'.dirs :
            Offers(e) /\ ~InHand(MainOf(e))' /\ ~Tracked(Src(MainOf(e))) => Stamped(MainOf(e))'
      BY <1>3, <1>4, <2>3, <2>5, <2>6, <2>7 DEF PassFacts
    <2> QED BY <1>3, <1>4, <2>3, <2>4, <2>5, <2>8 DEF PassFacts, InHand
  <1>10. CASE UNCHANGED vars
    BY <1>3, <1>4, <1>10 DEF PassFacts, vars, Stamped, InHand
  <1> QED BY <1>5, <1>6, <1>7, <1>8, <1>9, <1>10

(* Full replace (Scan): whatever the queue held before, a pass that nothing *)
(* disturbs leaves exactly one row per folder that still waits, so the user *)
(* is offered every such folder and none that is imported, marked or gone.  *)
THEOREM PassIsExactHolds == Spec => PassIsExact
  <1>1. Init => PassInv
    BY DEF Init, PassInv, IdleScan
  <1>2. ASSUME TypeInv, PassInv, Sweep, calm
        PROVE  {m \in Files : queue'[m] # NoRow} = Waiting
    <2>1. /\ scan.pc = "walk" /\ scan.dirs = {}
          /\ queue' = [m \in Files |-> IF m \in stale THEN NoRow ELSE queue[m]]
      BY <1>2 DEF Sweep, DropRows
    <2>2. PassFacts /\ \A m : ~InHand(m)
      BY <1>2, <2>1 DEF PassInv, InHand
    <2>3. \A m \in Files : queue'[m] # NoRow <=> Stamped(m)
      BY <2>1 DEF Stamped
    <2>4. \A m \in Waiting : m \in Files /\ Stamped(m)
      <3> SUFFICES ASSUME NEW m \in Waiting PROVE m \in Files /\ Stamped(m)
        OBVIOUS
      <3>1. PICK d \in Drops : Offers(d) /\ m = MainOf(d) /\ ~Tracked(Src(m))
        BY DEF Waiting, Offered, Offers
      <3>2. MainOf(d) \in Files
        BY <3>1, MainIsPresent DEF Offers, Present
      <3> QED BY <2>1, <2>2, <3>1, <3>2 DEF PassFacts
    <2> QED BY <2>2, <2>3, <2>4 DEF PassFacts
  <1>3. TypeInv /\ PassInv /\ [Next]_vars
          => [Sweep /\ calm => {m \in Files : queue'[m] # NoRow} = Waiting]_vars
    BY <1>2
  <1> QED BY <1>1, <1>3, InitTypeInv, TypeInvInductive, PassInvInductive, PTL DEF Spec, PassIsExact
=============================================================================
