---------------------------- MODULE VersionRows ----------------------------
(***************************************************************************)
(* The recording_versions rows of one recording and the files they lead to *)
(* under everything that rewrites them: the rename mutation                *)
(* (applyRecordingRename), the refresh-recording-full job's reconcile and  *)
(* reprobe steps, the remux-dvd job, the scanner's path-drift update of    *)
(* externally managed folders, and an external tool that renames and       *)
(* replaces files behind their back.                                       *)
(*                                                                         *)
(* A path is <<folder, name>>, names are numbers in lexical order.  disk   *)
(* says which content lies at a path, a row's info which content its media *)
(* info was probed from.                                                   *)
(***************************************************************************)
EXTENDS Naturals, FiniteSets

CONSTANTS
    Files,      \* contents
    Paths,      \* every path the instance uses
    Canon,      \* path -> where the rename templates put that file
    MkvPath,    \* part number (0: the only one) -> path of a remuxed title
    PartOf,     \* content -> which part of the recording it is, 0 for none
    Mkv,        \* title number -> the .mkv made from it
    DriftDirs,  \* folders an external tool may move a managed folder to
    Starts,     \* initial layouts: [disk, rows, kinds]
    Actors,     \* worker and request goroutines
    MaxInFlight, MaxOps, MaxEdits, MaxFaults, \* bounds
    Nothing, NoRow

Titles == DOMAIN Mkv
Dir(p) == p[1]
Base(p) == p[2]
Kinds == {"rename", "refresh", "remux", "drift", "edit"}
RowIds == Nat
Rows == [id : RowIds, path : Paths, part : Nat, info : Files]

ASSUME ConstantsAssumption ==
    /\ IsFiniteSet(Paths)
    /\ \A p \in Paths : /\ p = <<Dir(p), Base(p)>> /\ Base(p) \in Nat
                        /\ Dir(p) = "VIDEO_TS" => <<"original", Base(p)>> \in Paths
                        /\ Dir(p) = "original" => <<"VIDEO_TS", Base(p)>> \in Paths
                        /\ Dir(p) \in DriftDirs => \A d \in DriftDirs : <<d, Base(p)>> \in Paths
    /\ Canon \in [Paths -> Paths]
    /\ MkvPath \in [0 .. Cardinality(Titles) -> Paths]
    /\ PartOf \in [Files -> Nat]
    /\ Mkv \in [Titles -> Files] /\ Titles \subseteq Nat /\ IsFiniteSet(Titles)
    /\ Nothing \notin Files /\ NoRow \notin Rows
    /\ \A s \in Starts : /\ s.disk \in [Paths -> Files \cup {Nothing}]
                         /\ s.rows \subseteq Rows /\ IsFiniteSet(s.rows)
                         /\ s.kinds \subseteq Kinds
                         /\ \A v, w \in s.rows : v.id = w.id \/ v.path = w.path => v = w
                         /\ \A v \in s.rows : v.id < s.next
                         /\ s.next \in Nat
    /\ MaxInFlight \in Nat /\ MaxOps \in Nat /\ MaxEdits \in Nat /\ MaxFaults \in Nat

VARIABLES
    disk,    \* path -> content or Nothing
    rows,    \* recording_versions of the recording
    nextId,  \* the table's next row id
    kinds,   \* which operations this recording sees
    op,      \* actor -> its operation
    calm,    \* no edit, fault or second operation since the last one began (history)
    ops, edits, faults

vars == <<disk, rows, nextId, kinds, op, calm, ops, edits, faults>>
counters == <<kinds, ops, edits>>

Idle == [pc |-> "idle", todo |-> {}, dirs |-> {}, pairs |-> {}, cur |-> NoRow,
         titles |-> {}, made |-> {}]
Pcs == {"idle", "plan", "look", "apply", "delete", "insert", "folder", "update", "list", "probe", "write",
        "preserve", "make", "move", "place", "swap", "upsert", "walk"}
Pairs == [id : RowIds, path : Paths]
Busy == {a \in Actors : op[a].pc # "idle"}
There(p) == disk[p] # Nothing
InDir(d) == {p \in Paths : Dir(p) = d}

Init ==
    /\ \E s \in Starts : disk = s.disk /\ rows = s.rows /\ nextId = s.next /\ kinds = s.kinds
    /\ op = [a \in Actors |-> Idle]
    /\ calm = TRUE
    /\ ops = 0 /\ edits = 0 /\ faults = 0

----------------------------------------------------------------------------
(* The table. *)

Goto(a, new) == op' = [op EXCEPT ![a] = new]
Fault == faults < MaxFaults /\ faults' = faults + 1 /\ calm' = FALSE
NoFault == UNCHANGED <<faults, calm>>

(* Mutant: an insert without the conflict clause. *)
InsertAlways(p, part, info) ==
    /\ rows' = rows \cup {[id |-> nextId, path |-> p, part |-> part, info |-> info]}
    /\ nextId' = nextId + 1

(* UpsertVersion: keyed by (recording, path), an existing row keeps its id. *)
Upsert(p, part, info) ==
    IF \E v \in rows : v.path = p
    THEN /\ rows' = {IF v.path = p THEN [v EXCEPT !.part = part, !.info = info] ELSE v : v \in rows}
         /\ UNCHANGED nextId
    ELSE /\ rows' = rows \cup {[id |-> nextId, path |-> p, part |-> part, info |-> info]}
         /\ nextId' = nextId + 1

(* UpdateVersionFilePath, by id.  It errs on a row that is gone and on a    *)
(* path another row holds (the unique index).                               *)
CanRepath(id, p) == (\E v \in rows : v.id = id) /\ ~\E v \in rows : v.path = p /\ v.id # id
Repath(id, p) == rows' = {IF v.id = id THEN [v EXCEPT !.path = p] ELSE v : v \in rows}

Start(a, kind, new) ==
    /\ kind \in kinds /\ op[a].pc = "idle" /\ Cardinality(Busy) < MaxInFlight /\ ops < MaxOps
    /\ ops' = ops + 1
    /\ calm' = (Busy = {})
    /\ Goto(a, new)
    /\ UNCHANGED <<disk, rows, nextId, kinds, edits, faults>>

----------------------------------------------------------------------------
(* applyRecordingRename: per version plan, Apply, delete, insert.  A failed *)
(* version does not stop the others.                                        *)

NextRename(a) == [op[a] EXCEPT !.todo = @ \ {op[a].cur}, !.cur = NoRow, !.pc = "plan"]

RenameStart(a) == Start(a, "rename", [Idle EXCEPT !.pc = "plan", !.todo = rows])

(* The listing is by size, which is not modelled: any order. *)
RenamePlan(a) ==
    /\ op[a].pc = "plan"
    /\ \/ op[a].todo = {} /\ Goto(a, Idle)
       \/ \E v \in op[a].todo :
            Goto(a, IF There(v.path) /\ Canon[v.path] # v.path
                    THEN [op[a] EXCEPT !.cur = v, !.pc = "look"]
                    ELSE [op[a] EXCEPT !.todo = @ \ {v}])
    /\ UNCHANGED <<disk, rows, nextId, calm, faults, counters>>

(* Plan.Apply looks whether the target is there ... *)
RenameLook(a) ==
    /\ op[a].pc = "look"
    /\ Goto(a, IF There(Canon[op[a].cur.path]) THEN NextRename(a) ELSE [op[a] EXCEPT !.pc = "apply"])
    /\ UNCHANGED <<disk, rows, nextId, calm, faults, counters>>

(* ... and renames without a further look.  That fails when the source is   *)
(* gone; to another device it copies, which an occupied target refuses.     *)
RenameApply(a) ==
    LET p == op[a].cur.path
        dest == Canon[p]
    IN  /\ op[a].pc = "apply"
        /\ \/ /\ There(p)
              /\ disk' = [disk EXCEPT ![p] = Nothing, ![dest] = disk[p]]
              /\ Goto(a, [op[a] EXCEPT !.pc = "delete"])
           \/ /\ ~There(p) \/ There(dest)
              /\ Goto(a, NextRename(a)) /\ UNCHANGED disk
        /\ UNCHANGED <<rows, nextId, calm, faults, counters>>

(* Mutant: the old row stays, the upsert adds one for the new path. *)
RenameDeleteNothing(a) ==
    /\ op[a].pc = "delete"
    /\ Goto(a, [op[a] EXCEPT !.pc = "insert"])
    /\ UNCHANGED <<disk, rows, nextId, calm, faults, counters>>

RenameDelete(a) ==
    /\ op[a].pc = "delete"
    /\ \/ /\ rows' = {v \in rows : v.id # op[a].cur.id}
          /\ Goto(a, [op[a] EXCEPT !.pc = "insert"]) /\ NoFault
       \/ Fault /\ Goto(a, NextRename(a)) /\ UNCHANGED rows
    /\ UNCHANGED <<disk, nextId, counters>>

RenameInsert(a) ==
    LET v == op[a].cur
    IN  /\ op[a].pc = "insert"
        /\ \/ Upsert(Canon[v.path], v.part, v.info) /\ NoFault
           \/ Fault /\ UNCHANGED <<rows, nextId>>
        /\ Goto(a, NextRename(a))
        /\ UNCHANGED <<disk, counters>>

----------------------------------------------------------------------------
(* refresh-recording-full: reconcileFiles, then reprobeVersions. *)

RefreshStart(a) ==
    Start(a, "refresh", [Idle EXCEPT !.pc = "folder", !.todo = rows, !.dirs = {Dir(v.path) : v \in rows}])

Stale(S) == {v \in S : ~There(v.path)}
(* Mutant: files a row already leads to count as unmatched too. *)
UnmatchedAll(d, S) == {p \in InDir(d) : There(p)}
Unmatched(d, S) == {p \in InDir(d) : There(p) /\ ~\E v \in S : v.path = p}

(* Mutant: the stale rows in reverse. *)
PairingReversed(stale, free) ==
    {pr \in [id : {v.id : v \in stale}, path : free] :
        Cardinality({w \in stale : Base(w.path) > Base((CHOOSE v \in stale : v.id = pr.id).path)})
          = Cardinality({p \in free : Base(p) < Base(pr.path)})}

(* The i-th stale row by name gets the i-th unmatched file by name. *)
Pairing(stale, free) ==
    {pr \in [id : {v.id : v \in stale}, path : free] :
        Cardinality({w \in stale : Base(w.path) < Base((CHOOSE v \in stale : v.id = pr.id).path)})
          = Cardinality({p \in free : Base(p) < Base(pr.path)})}

(* reconcileFolderVersions of the next folder, up to the updates.  A folder *)
(* that is gone or whose counts differ is left alone.                       *)
ReconcileFolder(a) ==
    LET d == CHOOSE d \in op[a].dirs : TRUE
        here == {v \in op[a].todo : Dir(v.path) = d}
        free == Unmatched(d, here)
        pairs == IF Cardinality(free) = Cardinality(Stale(here)) THEN Pairing(Stale(here), free) ELSE {}
    IN  /\ op[a].pc = "folder"
        /\ Goto(a, IF op[a].dirs = {} THEN [Idle EXCEPT !.pc = "list"]
                   ELSE [op[a] EXCEPT !.dirs = @ \ {d}, !.pairs = pairs, !.pc = "update"])
        /\ UNCHANGED <<disk, rows, nextId, calm, faults, counters>>

(* One update, by name order; a failed one ends the step, not the job. *)
ReconcileUpdate(a) ==
    /\ op[a].pc = "update"
    /\ \/ /\ op[a].pairs = {}
          /\ Goto(a, [op[a] EXCEPT !.pc = "folder"]) /\ UNCHANGED rows /\ NoFault
       \/ \E pr \in op[a].pairs :
            /\ \A other \in op[a].pairs : Base(pr.path) <= Base(other.path)
            /\ \/ /\ CanRepath(pr.id, pr.path) /\ Repath(pr.id, pr.path) /\ NoFault
                  /\ Goto(a, [op[a] EXCEPT !.pairs = @ \ {pr}])
               \/ /\ ~CanRepath(pr.id, pr.path) /\ UNCHANGED rows /\ NoFault
                  /\ Goto(a, [Idle EXCEPT !.pc = "list"])
               \/ Fault /\ UNCHANGED rows /\ Goto(a, [Idle EXCEPT !.pc = "list"])
    /\ UNCHANGED <<disk, nextId, counters>>

ReprobeList(a) ==
    /\ op[a].pc = "list"
    /\ Goto(a, [op[a] EXCEPT !.todo = rows, !.pc = "probe"])
    /\ UNCHANGED <<disk, rows, nextId, calm, faults, counters>>

(* reprobeVersion: stat and ffprobe; a row without its file is skipped. *)
ReprobeRead(a) ==
    /\ op[a].pc = "probe"
    /\ \E v \in op[a].todo :
         Goto(a, IF There(v.path)
                 THEN [op[a] EXCEPT !.cur = [v EXCEPT !.info = disk[v.path]], !.pc = "write"]
                 ELSE [op[a] EXCEPT !.todo = @ \ {v}])
    /\ UNCHANGED <<disk, rows, nextId, calm, faults, counters>>

(* ... and the row as it was listed goes back whole, upserted by path. *)
ReprobeWrite(a) ==
    LET v == op[a].cur
        rest == {w \in op[a].todo : w.id # v.id}
    IN  /\ op[a].pc = "write"
        /\ \/ Upsert(v.path, v.part, v.info) /\ NoFault
           \/ Fault /\ UNCHANGED <<rows, nextId>>
        /\ Goto(a, [op[a] EXCEPT !.todo = rest, !.cur = NoRow, !.pc = "probe"])
        /\ UNCHANGED <<disk, counters>>

RefreshDone(a) ==
    /\ op[a].pc = "probe" /\ op[a].todo = {}
    /\ Goto(a, Idle)
    /\ UNCHANGED <<disk, rows, nextId, calm, faults, counters>>

----------------------------------------------------------------------------
(* remux-dvd. *)

(* findRecordingDVDFolder: refused unless a row lies in VIDEO_TS. *)
RemuxStart(a, titles) ==
    /\ \E v \in rows : Dir(v.path) = "VIDEO_TS"
    /\ Start(a, "remux", [Idle EXCEPT !.pc = "preserve", !.titles = titles])

Original(p) == <<"original", Base(p)>>

(* moveVIDEOTSToOriginal: one rename of the folder, skipped when a former   *)
(* run has done it, refused when both are there or neither.                 *)
Preserve(a) ==
    LET vts == {p \in InDir("VIDEO_TS") : There(p)}
        kept == {p \in InDir("original") : There(p)}
    IN  /\ op[a].pc = "preserve"
        /\ IF kept = {} /\ vts # {}
           THEN /\ disk' = [p \in Paths |->
                      IF Dir(p) = "VIDEO_TS" THEN Nothing
                      ELSE IF Dir(p) = "original" THEN disk[<<"VIDEO_TS", Base(p)>>]
                      ELSE disk[p]]
                /\ Goto(a, [op[a] EXCEPT !.pc = "make"])
           ELSE /\ UNCHANGED disk
                /\ Goto(a, IF kept # {} /\ vts = {} THEN [op[a] EXCEPT !.pc = "make"] ELSE Idle)
        /\ UNCHANGED <<rows, nextId, calm, faults, counters>>

(* runMakeMKV into the temporary folder; an error at any title aborts. *)
MakeMKV(a) ==
    /\ op[a].pc = "make"
    /\ \/ Goto(a, [op[a] EXCEPT !.pc = "move"]) /\ NoFault
       \/ Fault /\ Goto(a, Idle)
    /\ UNCHANGED <<disk, rows, nextId, counters>>

(* Several titles get part numbers 1 to n in the order of the request. *)
PartOfTitle(a, t) ==
    IF Cardinality(op[a].titles) = 1 THEN 0 ELSE Cardinality({u \in op[a].titles : u <= t})
Earliest(t, S) == t \in S /\ \A u \in S : t <= u

(* moveProducedFiles, file by file: moveFile looks at the destination, an    *)
(* occupied one aborts ...                                                   *)
MoveProduced(a) ==
    /\ op[a].pc = "move"
    /\ \/ /\ op[a].made = op[a].titles
          /\ Goto(a, [op[a] EXCEPT !.pc = "swap"])
       \/ \E t \in Titles :
            /\ Earliest(t, op[a].titles \ op[a].made)
            /\ Goto(a, IF There(MkvPath[PartOfTitle(a, t)]) THEN Idle ELSE [op[a] EXCEPT !.pc = "place"])
    /\ UNCHANGED <<disk, rows, nextId, calm, faults, counters>>

(* ... and renames the file there, from a temporary folder beside it.        *)
PlaceProduced(a) ==
    /\ op[a].pc = "place"
    /\ \E t \in Titles :
         /\ Earliest(t, op[a].titles \ op[a].made)
         /\ disk' = [disk EXCEPT ![MkvPath[PartOfTitle(a, t)]] = Mkv[t]]
         /\ Goto(a, [op[a] EXCEPT !.made = @ \cup {t}, !.pc = "move"])
    /\ UNCHANGED <<rows, nextId, calm, faults, counters>>

(* Mutant: the rows of the new files are added to the old ones. *)
SwapKeepingOld(a) ==
    /\ op[a].pc = "swap"
    /\ Goto(a, [op[a] EXCEPT !.pc = "upsert"]) /\ NoFault
    /\ UNCHANGED <<disk, rows, nextId, counters>>

(* swapVersionRows: delete all, then one upsert per file, no transaction. *)
SwapDelete(a) ==
    /\ op[a].pc = "swap"
    /\ \/ rows' = {} /\ Goto(a, [op[a] EXCEPT !.pc = "upsert"]) /\ NoFault
       \/ Fault /\ Goto(a, Idle) /\ UNCHANGED rows
    /\ UNCHANGED <<disk, nextId, counters>>

SwapUpsert(a) ==
    /\ op[a].pc = "upsert"
    /\ \/ op[a].made = {} /\ Goto(a, Idle) /\ UNCHANGED <<rows, nextId>> /\ NoFault
       \/ \E t \in Titles :
            LET part == PartOfTitle(a, t) IN
            /\ Earliest(t, op[a].made)
            /\ \/ Upsert(MkvPath[part], part, Mkv[t]) /\ NoFault
                  /\ Goto(a, [op[a] EXCEPT !.made = @ \ {t}])
               \/ Fault /\ Goto(a, Idle) /\ UNCHANGED <<rows, nextId>>
    /\ UNCHANGED <<disk, counters>>

----------------------------------------------------------------------------
(* reconcileExternallyManagedFolder: the scan of folder d finds the marker. *)

DriftStart(a, d) ==
    /\ \E p \in InDir(d) : There(p)
    /\ Start(a, "drift", [Idle EXCEPT !.pc = "walk", !.dirs = {d}, !.todo = rows])

Namesake(a, p) == {v \in op[a].todo : Base(v.path) = Base(p)}

(* A row that has the name of a file of the folder follows the file, one    *)
(* row per name.                                                            *)
DriftUpdate(a) ==
    LET moved == {p \in Paths : /\ Dir(p) \in op[a].dirs /\ There(p)
                                /\ \E v \in Namesake(a, p) : v.path # p}
        p == CHOOSE p \in moved : TRUE
    IN  /\ op[a].pc = "walk"
        /\ \/ moved = {} /\ Goto(a, Idle) /\ UNCHANGED rows /\ NoFault
           \/ /\ moved # {}
              /\ Goto(a, [op[a] EXCEPT !.todo = @ \ Namesake(a, p)])
              /\ \E v \in Namesake(a, p) :
                   \/ CanRepath(v.id, p) /\ Repath(v.id, p) /\ NoFault
                   \/ ~CanRepath(v.id, p) /\ UNCHANGED rows /\ NoFault
                   \/ Fault /\ UNCHANGED rows
        /\ UNCHANGED <<disk, nextId, counters>>

----------------------------------------------------------------------------
(* The external tool: it renames a file to a name that no row has and that  *)
(* says the same part; replaces one by another encode in place; and moves a *)
(* managed folder as a whole.                                               *)

Edit(new) ==
    /\ "edit" \in kinds /\ edits < MaxEdits /\ edits' = edits + 1
    /\ disk' = new /\ calm' = FALSE
    /\ UNCHANGED <<rows, nextId, kinds, op, ops, faults>>

ExtRename(p, q) ==
    /\ Dir(q) = Dir(p) /\ Canon[q] = Canon[p] /\ There(p) /\ ~There(q)
    /\ ~\E v \in rows : v.path = q
    /\ Edit([disk EXCEPT ![p] = Nothing, ![q] = disk[p]])

ExtReplace(p, f) ==
    /\ There(p) /\ PartOf[f] = 0
    /\ Edit([disk EXCEPT ![p] = f])

ExtMoveFolder(d, e) ==
    /\ d # e
    /\ \E p \in InDir(d) : There(p)
    /\ \A p \in InDir(e) : ~There(p)
    /\ Edit([p \in Paths |-> IF Dir(p) = d THEN Nothing
                            ELSE IF Dir(p) = e THEN disk[<<d, Base(p)>>] ELSE disk[p]])

CrashRestart ==
    /\ Busy # {} /\ Fault
    /\ op' = [a \in Actors |-> Idle]
    /\ UNCHANGED <<disk, rows, nextId, counters>>

(* Everything the bounds allow has been done. *)
Terminated ==
    /\ Busy = {} /\ UNCHANGED vars

Rename(a) ==
    RenameStart(a) \/ RenamePlan(a) \/ RenameLook(a) \/ RenameApply(a) \/ RenameDelete(a) \/ RenameInsert(a)
Refresh(a) ==
    RefreshStart(a) \/ ReconcileFolder(a) \/ ReconcileUpdate(a) \/ ReprobeList(a) \/ ReprobeRead(a)
        \/ ReprobeWrite(a) \/ RefreshDone(a)
Remux(a) ==
    \/ \E titles \in (SUBSET Titles) \ {{}} : RemuxStart(a, titles)
    \/ Preserve(a) \/ MakeMKV(a) \/ MoveProduced(a) \/ PlaceProduced(a) \/ SwapDelete(a) \/ SwapUpsert(a)
Drift(a) == (\E d \in DriftDirs : DriftStart(a, d)) \/ DriftUpdate(a)
External ==
    \/ \E p, q \in Paths : ExtRename(p, q)
    \/ \E p \in Paths, f \in Files : ExtReplace(p, f)
    \/ \E d, e \in DriftDirs : ExtMoveFolder(d, e)

Next ==
    \/ \E a \in Actors : Rename(a) \/ Refresh(a) \/ Remux(a) \/ Drift(a)
    \/ External \/ CrashRestart \/ Terminated

Spec == Init /\ [][Next]_vars

----------------------------------------------------------------------------
(* Properties. *)

(* The shape of the state; row ids and paths are unique (the primary key    *)
(* and the index on recording and path), and new ids are new.               *)
TypeOK ==
    /\ disk \in [Paths -> Files \cup {Nothing}]
    /\ rows \subseteq Rows
    /\ \A v, w \in rows : v.id = w.id \/ v.path = w.path => v = w
    /\ \A v \in rows : v.id < nextId
    /\ op \in [Actors -> [pc : Pcs, todo : SUBSET Rows, dirs : SUBSET {Dir(p) : p \in Paths},
                          pairs : SUBSET Pairs, cur : Rows \cup {NoRow},
                          titles : SUBSET Titles, made : SUBSET Titles]]
    /\ kinds \subseteq Kinds /\ nextId \in Nat /\ calm \in BOOLEAN
    /\ ops \in 0 .. MaxOps /\ edits \in 0 .. MaxEdits /\ faults \in 0 .. MaxFaults

(* The layouts RowsTrueWhenQuiet and NeverHalfSwapped are proved for.  The  *)
(* templates give every title a path of its own, which no other file is     *)
(* renamed to, and never name the VIDEO_TS folder or a canonical file anew. *)
MkvPaths == {MkvPath[n] : n \in DOMAIN MkvPath}
TemplatesApart ==
    /\ \A m, n \in DOMAIN MkvPath : MkvPath[m] = MkvPath[n] => m = n
    /\ \A p \in MkvPaths : Dir(p) \notin {"VIDEO_TS", "original"}
    /\ \A p \in Paths : /\ Dir(Canon[p]) # "VIDEO_TS"
                        /\ Canon[p] \in MkvPaths => p \in MkvPaths
                        /\ Canon[Canon[p]] = Canon[p]
    /\ "VIDEO_TS" \notin DriftDirs

(* The rows are true to begin with; where a remux may come, its titles'     *)
(* paths are free while a VOB is left; an externally managed recording is   *)
(* not remuxed, and the files of its folder have rows.                      *)
TrueStart(s) ==
    /\ \A v \in s.rows : s.disk[v.path] = v.info
    /\ "remux" \in s.kinds /\ (\E v \in s.rows : Dir(v.path) = "VIDEO_TS") =>
         \A p \in MkvPaths : s.disk[p] = Nothing
    /\ "drift" \in s.kinds =>
         /\ "remux" \notin s.kinds
         /\ \A p \in Paths : Dir(p) \in DriftDirs /\ s.disk[p] # Nothing => \E v \in s.rows : v.path = p

(* A recording with VOBs has besides them at most canonical files, none of  *)
(* them a title's, and no external tool renames its files.                  *)
SwapStart(s) ==
    \/ \A v \in s.rows : Dir(v.path) # "VIDEO_TS"
    \/ /\ s.kinds \cap {"drift", "edit"} = {}
       /\ \A v \in s.rows : /\ v.path \notin MkvPaths
                            /\ \/ Dir(v.path) = "VIDEO_TS"
                               \/ Canon[v.path] = v.path /\ s.disk[v.path] # Nothing

(* The layouts PartsKeepTheirFile is proved for.  A remuxed title is canonical *)
(* where it is put, and of several titles it is the part it is numbered as.  *)
Tells(part, f) == 0 \in {part, PartOf[f]} \/ PartOf[f] = part
TitlesTell ==
    /\ \A p \in MkvPaths : Canon[p] = p
    /\ \A S \in SUBSET Titles : \A t \in S :
         Cardinality(S) = 1 \/ Tells(Cardinality({u \in S : u <= t}), Mkv[t])

(* What a name says: the slot of a path is the part of the recording that   *)
(* its name is for.  Outside a disc the templates keep it and the folder,   *)
(* so does a move of a managed folder, and names in order are slots in order. *)
Disc == {"VIDEO_TS", "original"}
NamesTell(Slot) ==
    /\ DriftDirs \cap Disc = {}
    /\ \A p \in Paths : Dir(p) \notin Disc => Dir(Canon[p]) = Dir(p) /\ Slot[Canon[p]] = Slot[p]
    /\ \A p, q \in Paths : {Dir(p), Dir(q)} \subseteq DriftDirs /\ Base(p) = Base(q) => Slot[p] = Slot[q]
    /\ \A p, p2, q, q2 \in Paths :
         /\ Dir(p) \notin Disc /\ {Dir(p2), Dir(q), Dir(q2)} = {Dir(p)}
         /\ Slot[p] = Slot[p2] /\ Slot[q] = Slot[q2] /\ Slot[p] # Slot[q]
         => (Base(p) < Base(q) => Base(p2) < Base(q2))

(* A disc that no external tool touches: every VOB has a row, and any other *)
(* row leads to a canonical file.                                           *)
DiscStart(s) ==
    /\ s.kinds \cap {"drift", "edit"} = {}
    /\ \A p \in InDir("VIDEO_TS") : s.disk[p] # Nothing => \E v \in s.rows : v.path = p
    /\ \A v \in s.rows : /\ \/ Dir(v.path) = "VIDEO_TS"
                            \/ s.disk[v.path] # Nothing /\ Canon[v.path] = v.path
                         /\ s.disk[v.path] # Nothing => Tells(v.part, s.disk[v.path])

(* A recording without a disc: at most one file and one row of each slot,   *)
(* and a row has its slot's file in its folder.                             *)
FilesApart(dk, Slot) ==
    \A p, q \in Paths : dk[p] # Nothing /\ dk[q] # Nothing =>
        /\ Dir(p) \notin Disc
        /\ Slot[p] = Slot[q] => p = q
        /\ {Dir(p), Dir(q)} \subseteq DriftDirs => Dir(p) = Dir(q)
OnePerSlot(S, Slot) == \A v, w \in S : Slot[v.path] = Slot[w.path] => v = w
NamedStart(s, Slot) ==
    /\ "remux" \notin s.kinds
    /\ FilesApart(s.disk, Slot) /\ OnePerSlot(s.rows, Slot)
    /\ \A v \in s.rows : /\ "drift" \in s.kinds => Dir(v.path) \in DriftDirs
                         /\ \E p \in InDir(Dir(v.path)) : /\ s.disk[p] # Nothing /\ Slot[p] = Slot[v.path]
                                                         /\ Tells(v.part, s.disk[p])

(* Renames, refreshes and remuxes that met no fault and no external edit    *)
(* leave every row on its file: the rename deletes the stale row "to avoid  *)
(* leaving the old path behind", the swap wants no "rows pointing at old    *)
(* VOBs and some at new MKVs".                                              *)
RowsTrueWhenQuiet ==
    Busy = {} /\ faults = 0 /\ edits = 0 => \A v \in rows : disk[v.path] = v.info

(* A remux replaces the VOB rows as a whole: whatever fails or crashes, no  *)
(* row of a VOB stands beside a row of a remuxed title.                     *)
NeverHalfSwapped ==
    \A v, w \in rows : ~(Dir(v.path) = "VIDEO_TS" /\ \E n \in DOMAIN MkvPath : w.path = MkvPath[n])

(* A refresh that nothing disturbed has put every row on a file, and its    *)
(* media info is that file's, except in folders whose count of stale rows   *)
(* differs from the count of unclaimed files ("leaves those rows alone").   *)
Balanced(d) ==
    LET mine == {v \in rows : Dir(v.path) = d}
    IN  Cardinality(Stale(mine)) = Cardinality({p \in InDir(d) : There(p) /\ ~\E v \in mine : v.path = p})
RefreshHeals ==
    [][(\E a \in Actors : RefreshDone(a)) /\ calm =>
         \A v \in rows' : \/ disk[v.path] = v.info
                          \/ ~There(v.path) /\ ~Balanced(Dir(v.path))]_vars

(* A multipart row never comes to lead to another part: not through the     *)
(* pairing by name order after an order-keeping external rename, not        *)
(* through the pairing by basename after a folder moved, nor any failure.   *)
PartsKeepTheirFile == \A v \in rows : There(v.path) => Tells(v.part, disk[v.path])
=============================================================================
