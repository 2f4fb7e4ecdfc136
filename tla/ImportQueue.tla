---------------------------- MODULE ImportQueue ----------------------------
(***************************************************************************)
(* The watched-folder scanner and the imports that consume its queue:      *)
(* internal/scanner/scanner.go, internal/storage/import_queue.go, the      *)
(* importQueueEntry resolver (internal/server/graph), the ingest engine    *)
(* (internal/ingest) and the mover (internal/rename/mover.go).             *)
(*                                                                         *)
(* A drop is a folder under the watched root.  Its files are identified    *)
(* with their content: where[f] says under which path the bytes of f lie   *)
(* now, so a rename over an existing file shows as that file being gone.   *)
(* What classifyFolder does with sizes and names is FolderDrop's matter;   *)
(* here a classification is the preferred candidate, or the part-marked    *)
(* files when there are two of them, and everything else as extras.        *)
(***************************************************************************)
EXTENDS Naturals, FiniteSets

CONSTANTS
    Drops,       \* folders under the watched root
    Files,       \* every file of every drop
    DropOf,      \* file -> its folder
    Candidates,  \* the video and audio files among Files
    Rank,        \* file -> preference as the main file, no two of a drop alike
    PartNo,      \* file -> part marker in its name, 0 for none
    Size,        \* file -> bytes
    Name,        \* file -> kind subfolder and base name it gets as an extra
    Recs,        \* recordings
    Requests,    \* importQueueEntry calls
    RecOf,       \* call -> the recording its user names
    Starts,      \* which files are there, being downloaded, or never come
    Overlap,     \* two imports of one recording may overlap
    MaxCalls,    \* bound: calls in a behaviour
    MaxInFlight, \* bound: requests in progress at once
    MaxFaults,   \* bound: faults and failed writes
    Coming, Gone, Never, NoRow, NoFile

ASSUME ConstantsAssumption ==
    /\ DropOf \in [Files -> Drops]
    /\ Candidates \subseteq Files
    /\ Rank \in [Files -> Nat] /\ PartNo \in [Files -> Nat] /\ Size \in [Files -> Nat]
    /\ Starts \subseteq [Files -> {"here", "late", "never"}]
    /\ NoRow \notin [parts : SUBSET Files, extras : SUBSET Files]
    /\ NoFile \notin Files /\ RecOf \in [Requests -> Recs]
    /\ Overlap \in BOOLEAN
    /\ MaxCalls \in Nat /\ MaxInFlight \in Nat /\ MaxFaults \in Nat

(* A folder is finite: of any files one has the least part marker and one   *)
(* is preferred to the others.                                              *)
ASSUME FinitenessAssumption ==
    \A S \in (SUBSET Files) \ {{}} :
        /\ \E f \in S : \A g \in S : PartNo[f] <= PartNo[g]
        /\ \E f \in S : \A g \in S : Rank[g] <= Rank[f]

VARIABLES
    where,    \* file -> path of its bytes, or Coming, Gone or Never
    queue,    \* manual_import_queue: main file -> classification, or NoRow
    stale,    \* rows whose last_seen_at is older than the current pass
    versions, \* recording_versions
    sentinel, \* drops that carry the externally-managed marker
    scan,     \* the scanner's pass
    req,      \* the requests
    calm,     \* nothing but the scanner has moved since the pass began (history)
    faults,
    calls     \* calls begun so far

vars == <<where, queue, stale, versions, sentinel, scan, req, calm, faults, calls>>

(* Paths: under the watched root, and in the library folder of a recording. *)
Src(f) == <<"incoming", DropOf[f], f>>
LibraryPath(r, n) == <<"library", r, n>>
ExtraPath(r, f) == <<"extras", r, Name[f]>>
Paths == {Src(f) : f \in Files} \cup {LibraryPath(r, PartNo[f]) : r \in Recs, f \in Files}
           \cup {ExtraPath(r, f) : r \in Recs, f \in Files}

ASSUME PathsAssumption == 
    {Coming, Gone, Never} \cap Paths = {} /\ Gone \notin {Coming, Never}

Rows == [parts : SUBSET Files, extras : SUBSET Files]
Queued == {m \in Files : queue[m] # NoRow}
Waits(f) == where[f] = Src(f)
Taken(p) == \E f \in Files : where[f] = p
Tracked(p) == \E v \in versions : v.path = p

ScanPcs == {"idle", "reconcile", "walk", "process", "enqueue"}
RequestPcs == {"idle", "preflight", "part", "adopt", "stat", "rename", "record", "nfo",
               "abort", "extras"}
IdleScan == [pc |-> "idle", rows |-> {}, dirs |-> {}, main |-> NoFile, row |-> NoRow]
IdleRequest == [pc |-> "idle", main |-> NoFile, held |-> FALSE, managed |-> FALSE,
                parts |-> {}, extras |-> {}, landed |-> FALSE]
InFlight == {q \in Requests : req[q].pc # "idle"}

Init ==
    /\ \E s \in Starts :
         where = [f \in Files |-> CASE s[f] = "here" -> Src(f)
                                    [] s[f] = "late" -> Coming
                                    [] s[f] = "never" -> Never]
    /\ queue = [m \in Files |-> NoRow]
    /\ stale = {} /\ versions = {} /\ sentinel = {}
    /\ scan = IdleScan
    /\ req = [q \in Requests |-> IdleRequest]
    /\ calm = TRUE
    /\ faults = 0 /\ calls = 0

----------------------------------------------------------------------------
(* What the walk makes of a folder. *)

Present(d) == {f \in Files : DropOf[f] = d /\ Waits(f)}
PresentCandidates(d) == Present(d) \cap Candidates
(* Mutant: the part markers of files that have already left count too. *)
MarkedEver(d) == {f \in Candidates : DropOf[f] = d /\ PartNo[f] > 0}
Marked(d) == {f \in PresentCandidates(d) : PartNo[f] > 0}
Multipart(d) == \E f, g \in Marked(d) : f # g
First(S, key) == CHOOSE f \in S : \A g \in S : key[f] <= key[g]
Preferred(S) == CHOOSE f \in S : \A g \in S : Rank[g] <= Rank[f]
MainOf(d) == IF Multipart(d) THEN First(Marked(d), PartNo) ELSE Preferred(PresentCandidates(d))
Classify(d) ==
    LET parts == IF Multipart(d) THEN Marked(d) ELSE {MainOf(d)}
    IN  [parts |-> parts, extras |-> Present(d) \ parts]

(* validateAssignments: one main, or parts numbered 1 to n. *)
Accepted(parts) ==
    \/ \E f \in parts : parts = {f}
    \/ {PartNo[f] : f \in parts} = 1 .. Cardinality(parts)

(* A row disappears: a request that has loaded it holds an id that is void. *)
DropRows(S) ==
    /\ queue' = [m \in Files |-> IF m \in S THEN NoRow ELSE queue[m]]
    /\ stale' = stale \ S
    /\ req' = [q \in Requests |-> IF req[q].main \in S THEN [req[q] EXCEPT !.held = FALSE] ELSE req[q]]

----------------------------------------------------------------------------
(* The scanner. *)

ScanStart ==
    /\ scan.pc = "idle"
    /\ scan' = [IdleScan EXCEPT !.pc = "reconcile", !.rows = Queued, !.dirs = Drops]
    /\ stale' = Queued
    /\ calm' = (InFlight = {})
    /\ UNCHANGED <<where, queue, versions, sentinel, req, faults, calls>>

(* reconcileMissing: the rows of the listing taken at the start, one by one *)
(* in the order of the listing (a fixed one here, as for the folders).      *)
Reconcile ==
    LET m == CHOOSE m \in scan.rows : TRUE
    IN  /\ scan.pc = "reconcile" /\ scan.rows # {}
        /\ scan' = [scan EXCEPT !.rows = @ \ {m}]
        /\ IF Waits(m) THEN UNCHANGED <<queue, stale, req>> ELSE DropRows({m})
        /\ UNCHANGED <<where, versions, sentinel, calm, faults, calls>>

ReconcileDone ==
    /\ scan.pc = "reconcile" /\ scan.rows = {}
    /\ scan' = [scan EXCEPT !.pc = "walk"]
    /\ UNCHANGED <<where, queue, stale, versions, sentinel, req, calm, faults, calls>>

(* walkFolderUnit: a marked or empty folder yields nothing to process. *)
WalkFolder ==
    LET d == CHOOSE d \in scan.dirs : TRUE
    IN  /\ scan.pc = "walk" /\ scan.dirs # {}
        /\ scan' = IF d \in sentinel \/ PresentCandidates(d) = {}
                   THEN [scan EXCEPT !.dirs = @ \ {d}]
                   ELSE [scan EXCEPT !.dirs = @ \ {d}, !.pc = "process",
                                     !.main = MainOf(d), !.row = Classify(d)]
        /\ UNCHANGED <<where, queue, stale, versions, sentinel, req, calm, faults, calls>>

(* processFile: the stat and the look into recording_versions. *)
ProcessFile ==
    /\ scan.pc = "process"
    /\ scan' = IF Waits(scan.main) /\ ~Tracked(Src(scan.main))
               THEN [scan EXCEPT !.pc = "enqueue"]
               ELSE [scan EXCEPT !.pc = "walk", !.main = NoFile, !.row = NoRow]
    /\ UNCHANGED <<where, queue, stale, versions, sentinel, req, calm, faults, calls>>

(* EnqueueFile: upsert on the path, last_seen_at is now. *)
EnqueueFile ==
    /\ scan.pc = "enqueue"
    /\ queue' = [queue EXCEPT ![scan.main] = scan.row]
    /\ stale' = stale \ {scan.main}
    /\ scan' = [scan EXCEPT !.pc = "walk", !.main = NoFile, !.row = NoRow]
    /\ UNCHANGED <<where, versions, sentinel, req, calm, faults, calls>>

EnqueueFails ==
    /\ scan.pc = "enqueue" /\ faults < MaxFaults
    /\ scan' = [scan EXCEPT !.pc = "walk", !.main = NoFile, !.row = NoRow]
    /\ calm' = FALSE /\ faults' = faults + 1
    /\ UNCHANGED <<where, queue, stale, versions, sentinel, req, calls>>

(* Mutant: a pass that forgets to evict what it has not seen. *)
SweepNothing ==
    /\ scan.pc = "walk" /\ scan.dirs = {}
    /\ scan' = IdleScan
    /\ stale' = {}
    /\ UNCHANGED <<where, queue, versions, sentinel, req, calm, faults, calls>>

(* DeleteStaleQueueEntriesUnder the watched root, the end of the pass. *)
Sweep ==
    /\ scan.pc = "walk" /\ scan.dirs = {}
    /\ scan' = IdleScan
    /\ DropRows(stale)
    /\ UNCHANGED <<where, versions, sentinel, calm, faults, calls>>

----------------------------------------------------------------------------
(* importQueueEntry. *)

Touched == calm' = FALSE
Faulty == faults < MaxFaults /\ faults' = faults + 1
Lead(q) == First(req[q].parts, PartNo)
Step(q, new) == req' = [req EXCEPT ![q] = new]
Goto(q, pc) == Step(q, [req[q] EXCEPT !.pc = pc])

(* The user imports the whole folder (fileAssignments) or the main file,    *)
(* and has it moved or left in place (externallyManaged), call by call.     *)
Begun(m, whole, managed) ==
    [IdleRequest EXCEPT !.pc = IF managed THEN "part" ELSE "preflight",
                        !.main = m, !.held = TRUE, !.managed = managed,
                        !.parts = IF whole THEN queue[m].parts ELSE {m},
                        !.extras = IF whole THEN queue[m].extras ELSE {}]

(* The row is loaded. *)
Begin(q) ==
    /\ req[q].pc = "idle" /\ Cardinality(InFlight) < MaxInFlight
    /\ Overlap \/ \A p \in InFlight : RecOf[p] # RecOf[q]
    /\ \E m \in Queued, whole, managed \in BOOLEAN :
         /\ whole => Accepted(queue[m].parts)
         /\ Step(q, Begun(m, whole, managed))
    /\ calls < MaxCalls /\ calls' = calls + 1
    /\ Touched
    /\ UNCHANGED <<where, queue, stale, versions, sentinel, scan, faults>>

(* The call returns; Ok removes the row it loaded, by id. *)
Return(q, ok) ==
    LET m == req[q].main
        left == IF ok /\ req[q].held THEN {m} ELSE {}
    IN  /\ queue' = [f \in Files |-> IF f \in left THEN NoRow ELSE queue[f]]
        /\ stale' = stale \ left
        /\ req' = [p \in Requests |-> IF p = q THEN IdleRequest
                                      ELSE IF req[p].main \in left THEN [req[p] EXCEPT !.held = FALSE]
                                      ELSE req[p]]

(* preflightConflictCheck: a file of the same size at the destination is a  *)
(* duplicate and its row goes; any other file there needs overwrite=true.   *)
Preflight(q) ==
    LET m == req[q].main
        dest == LibraryPath(RecOf[q], PartNo[m])
        duplicate == \E f \in Files : where[f] = dest /\ Size[f] = Size[m]
    IN  /\ req[q].pc = "preflight"
        /\ \E overwrite \in BOOLEAN :
             IF Waits(m) /\ (~Taken(dest) \/ (overwrite /\ ~duplicate))
             THEN Goto(q, "part") /\ UNCHANGED <<queue, stale>>
             ELSE Return(q, Waits(m) /\ duplicate)
        /\ Touched
        /\ UNCHANGED <<where, versions, sentinel, scan, faults, calls>>

(* ingestOneWithSeed of the next part, up to the plan: a failed probe ends it. *)
Part(q) ==
    /\ req[q].pc = "part"
    /\ Goto(q, IF ~Waits(Lead(q)) THEN "abort" ELSE IF req[q].managed THEN "adopt" ELSE "stat")
    /\ Touched
    /\ UNCHANGED <<where, queue, stale, versions, sentinel, scan, faults, calls>>

(* applyExternallyManaged: the marker is best effort, the file stays. *)
Adopt(q) ==
    /\ req[q].pc = "adopt"
    /\ Goto(q, "record")
    /\ \/ sentinel' = sentinel \cup {DropOf[req[q].main]} /\ UNCHANGED faults
       \/ Faulty /\ UNCHANGED sentinel
    /\ Touched
    /\ UNCHANGED <<where, queue, stale, versions, scan, calls>>

(* Mutant: the rename goes ahead over whatever is at the destination. *)
StatTargetNever(q) ==
    /\ req[q].pc = "stat"
    /\ Goto(q, "rename")
    /\ Touched
    /\ UNCHANGED <<where, queue, stale, versions, sentinel, scan, faults, calls>>

(* Plan.Apply, first half: an occupied destination is ErrTargetExists. *)
StatTarget(q) ==
    /\ req[q].pc = "stat"
    /\ Goto(q, IF Taken(LibraryPath(RecOf[q], PartNo[Lead(q)])) THEN "abort" ELSE "rename")
    /\ Touched
    /\ UNCHANGED <<where, queue, stale, versions, sentinel, scan, faults, calls>>

(* os.Rename: whatever is at the destination by now is lost. *)
Moved(f, dest) == [g \in Files |-> IF g = f THEN dest ELSE IF where[g] = dest THEN Gone ELSE where[g]]

(* Plan.Apply, second half. *)
Rename(q) ==
    /\ req[q].pc = "rename"
    /\ IF Waits(Lead(q))
       THEN /\ where' = Moved(Lead(q), LibraryPath(RecOf[q], PartNo[Lead(q)]))
            /\ Goto(q, "record")
       ELSE Goto(q, "abort") /\ UNCHANGED where
    /\ Touched
    /\ UNCHANGED <<queue, stale, versions, sentinel, scan, faults, calls>>

(* Mutant: every part's row is keyed by the destination of the main file. *)
RecordAtMain(q) ==
    /\ req[q].pc = "record"
    /\ Goto(q, "nfo")
    /\ versions' = versions \cup {[path |-> LibraryPath(RecOf[q], PartNo[req[q].main]), file |-> Lead(q)]}
    /\ Touched
    /\ UNCHANGED <<where, queue, stale, sentinel, scan, faults, calls>>

(* recordVersion: stat and upsert by path, best effort. *)
Record(q) ==
    LET path == IF req[q].managed THEN Src(Lead(q)) ELSE LibraryPath(RecOf[q], PartNo[Lead(q)])
        row == [path |-> path, file |-> CHOOSE f \in Files : where[f] = path]
    IN  /\ req[q].pc = "record"
        /\ Goto(q, "nfo")
        /\ \/ /\ versions' = IF Taken(path) THEN {v \in versions : v.path # path} \cup {row}
                              ELSE versions
              /\ UNCHANGED faults
           \/ Faulty /\ UNCHANGED versions
        /\ Touched
        /\ UNCHANGED <<where, queue, stale, sentinel, scan, calls>>

(* Mutant: the loop over the parts runs once more than there are parts. *)
NfoThenPart(q) ==
    /\ req[q].pc = "nfo"
    /\ Step(q, [req[q] EXCEPT !.landed = TRUE, !.parts = @ \ {Lead(q)}, !.pc = "part"])
    /\ Touched
    /\ UNCHANGED <<where, queue, stale, versions, sentinel, scan, faults, calls>>

(* The item is done: the next part, or the extras. *)
PartDone(q) ==
    LET rest == req[q].parts \ {Lead(q)}
    IN  [req[q] EXCEPT !.landed = TRUE, !.parts = rest,
                       !.pc = IF rest = {} THEN "extras" ELSE "part"]

(* The NFO; a failure to write it fails the item. *)
Nfo(q) ==
    /\ req[q].pc = "nfo"
    /\ \/ Step(q, PartDone(q)) /\ UNCHANGED faults
       \/ Faulty /\ Goto(q, "abort")
    /\ Touched
    /\ UNCHANGED <<where, queue, stale, versions, sentinel, scan, calls>>

(* A part has failed: no further part, no extras; the first item alone     *)
(* decides Ok.                                                              *)
Abort(q) ==
    /\ req[q].pc = "abort"
    /\ Return(q, req[q].landed)
    /\ Touched
    /\ UNCHANGED <<where, versions, sentinel, scan, faults, calls>>

(* applyOneExtra: a plain rename into the kind's subfolder. *)
Extra(q) ==
    /\ req[q].pc = "extras"
    /\ \E f \in req[q].extras :
         /\ where' = IF req[q].managed \/ ~Waits(f) THEN where ELSE Moved(f, ExtraPath(RecOf[q], f))
         /\ Step(q, [req[q] EXCEPT !.extras = @ \ {f}])
    /\ Touched
    /\ UNCHANGED <<queue, stale, versions, sentinel, scan, faults, calls>>

Finish(q) ==
    /\ req[q].pc = "extras" /\ req[q].extras = {}
    /\ Return(q, TRUE)
    /\ Touched
    /\ UNCHANGED <<where, versions, sentinel, scan, faults, calls>>

----------------------------------------------------------------------------
(* A download settles under its final name. *)
Settle(f) ==
    /\ where[f] = Coming
    /\ where' = [where EXCEPT ![f] = Src(f)]
    /\ Touched
    /\ UNCHANGED <<queue, stale, versions, sentinel, scan, req, faults, calls>>

(* The process dies: files and rows stay, the pass and the calls do not. *)
CrashRestart ==
    /\ Faulty
    /\ scan' = IdleScan /\ stale' = {}
    /\ req' = [q \in Requests |-> IdleRequest]
    /\ UNCHANGED <<where, queue, versions, sentinel, calm, calls>>

Scanner ==
    ScanStart \/ Reconcile \/ ReconcileDone \/ WalkFolder \/ ProcessFile \/ EnqueueFile
        \/ EnqueueFails \/ Sweep

Request(q) ==
    Begin(q) \/ Preflight(q) \/ Part(q) \/ Adopt(q) \/ StatTarget(q) \/ Rename(q) \/ Record(q)
        \/ Nfo(q) \/ Abort(q) \/ Extra(q) \/ Finish(q)

Next ==
    \/ Scanner
    \/ \E q \in Requests : Request(q)
    \/ \E f \in Files : Settle(f)
    \/ CrashRestart

Spec == Init /\ [][Next]_vars

(* The interval job keeps starting passes, and a pass goes on while the     *)
(* process lives.  Nobody has to import anything.                           *)
FairSpec == Spec /\ WF_vars(Scanner)

----------------------------------------------------------------------------
(* Properties. *)

(* The shape of the state.  Rows only name files of the watched root, a     *)
(* request in progress has a main file, and one at work on a part has one.  *)
TypeOK ==
    /\ where \in [Files -> Paths \cup {Coming, Gone, Never}]
    /\ queue \in [Files -> Rows \cup {NoRow}]
    /\ stale \subseteq Files
    /\ versions \subseteq [path : Paths, file : Files]
    /\ sentinel \subseteq Drops
    /\ scan \in [pc : ScanPcs, rows : SUBSET Files, dirs : SUBSET Drops,
                 main : Files \cup {NoFile}, row : Rows \cup {NoRow}]
    /\ scan.pc \in {"process", "enqueue"} => scan.main \in Files /\ scan.row \in Rows
    /\ req \in [Requests -> [pc : RequestPcs, main : Files \cup {NoFile}, held : BOOLEAN,
                             managed : BOOLEAN, parts : SUBSET Files,
                             extras : SUBSET Files, landed : BOOLEAN]]
    /\ \A q \in InFlight : req[q].main \in Files
    /\ \A q \in Requests : req[q].pc \in {"preflight", "part", "adopt", "stat", "rename", "record", "nfo"}
                              => req[q].parts # {}
    /\ calm \in BOOLEAN /\ faults \in 0 .. MaxFaults /\ calls \in 0 .. MaxCalls

(* No import destroys a file: not the mover, which stats before it renames  *)
(* ("The mover never overwrites", mover.go), and not the extras pass.      *)
NothingLost == \A f \in Files : where[f] # Gone

(* A recording_versions row leads to the file it was written for and never  *)
(* to another one's bytes, whatever passes, failures, crashes and other     *)
(* imports come between or after the rename and the upsert.  Only the row   *)
(* of a file adopted where it came in can be left behind: by a later call   *)
(* that moves the file (a managed import failed half way, then retried as a *)
(* move).                                                                   *)
LeftBehind(v) == v.path = Src(v.file)
RowsDescribeTheirFile ==
    \A v \in versions :
        /\ where[v.file] = v.path \/ LeftBehind(v)
        /\ \A f \in Files : where[f] = v.path => f = v.file

(* The folders a pass should offer, by their main file. *)
Offered == {MainOf(d) : d \in {e \in Drops \ sentinel : PresentCandidates(e) # {}}}
Waiting == {m \in Offered : ~Tracked(Src(m))}

(* Full replace: a pass that nothing has disturbed leaves exactly one row   *)
(* per folder that still waits, and none besides (Scan's comment on         *)
(* eviction).                                                               *)
PassIsExact == [][Sweep /\ calm => {m \in Files : queue'[m] # NoRow} = Waiting]_vars

(* A folder with a candidate, no marker and nothing tracked in it comes to  *)
(* the queue, or stops being one: leftovers of a failed or partial import   *)
(* included.                                                                *)
Arrived(d) == d \notin sentinel /\ PresentCandidates(d) # {}
                /\ \A f \in PresentCandidates(d) : ~Tracked(Src(f))
ArrivalsSurface ==
    \A d \in Drops : Arrived(d) ~> (~Arrived(d) \/ \E f \in Present(d) : queue[f] # NoRow)
=============================================================================
