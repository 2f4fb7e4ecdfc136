------------------------- MODULE VersionRowsProofs --------------------------
(***************************************************************************)
(* The shape of the version table, for any files, paths, layouts and number *)
(* of overlapping operations.                                               *)
(***************************************************************************)
EXTENDS VersionRows, FiniteSetTheorems, TLAPS

OpType == [pc : Pcs, todo : SUBSET Rows, dirs : SUBSET {Dir(p) : p \in Paths},
           pairs : SUBSET Pairs, cur : Rows \cup {NoRow},
           titles : SUBSET Titles, made : SUBSET Titles]

(* The table: typed rows, unique ids and paths, new ids new.                *)
TableOK ==
    /\ rows \subseteq Rows /\ nextId \in Nat
    /\ \A v, w \in rows : v.id = w.id \/ v.path = w.path => v = w
    /\ \A v \in rows : v.id < nextId

(* An operation that works on a row has one.                                *)
HasRow == \A a \in Actors : op[a].pc \in {"look", "apply", "delete", "insert", "write"} => op[a].cur # NoRow

DiskOK == disk \in [Paths -> Files \cup {Nothing}]
OpsOK == op \in [Actors -> OpType] /\ HasRow
CountersOK ==
    /\ kinds \subseteq Kinds /\ calm \in BOOLEAN
    /\ ops \in 0 .. MaxOps /\ edits \in 0 .. MaxEdits /\ faults \in 0 .. MaxFaults

Inv == DiskOK /\ TableOK /\ OpsOK /\ CountersOK

LEMMA InvIsTypeOK == Inv => TypeOK
BY DEF Inv, DiskOK, TableOK, OpsOK, CountersOK, TypeOK, OpType

-----------------------------------------------------------------------------
(* The table's operations.                                                  *)

(* An upsert neither duplicates an id nor a path.                           *)
LEMMA UpsertKeeps ==
  ASSUME TableOK, NEW p \in Paths, NEW part \in Nat, NEW info \in Files, Upsert(p, part, info)
  PROVE  TableOK'
<1>1. CASE \E v \in rows : v.path = p
  <2> DEFINE new(v) == IF v.path = p THEN [v EXCEPT !.part = part, !.info = info] ELSE v
  <2>1. rows' = {new(v) : v \in rows} /\ nextId' = nextId
    BY <1>1 DEF Upsert
  <2>2. \A v \in rows : new(v) \in Rows /\ new(v).id = v.id /\ new(v).path = v.path
    BY DEF TableOK, Rows
  <2> HIDE DEF new
  <2>3. ASSUME NEW x \in rows', NEW y \in rows', x.id = y.id \/ x.path = y.path PROVE x = y
    <3>1. PICK v \in rows, w \in rows : x = new(v) /\ y = new(w)
      BY <2>1
    <3>2. v = w
      BY <2>2, <2>3, <3>1 DEF TableOK
    <3> QED  BY <3>1, <3>2
  <2> QED  BY <2>1, <2>2, <2>3 DEF TableOK
<1>2. CASE ~\E v \in rows : v.path = p
  <2> DEFINE row == [id |-> nextId, path |-> p, part |-> part, info |-> info]
  <2>1. rows' = rows \cup {row} /\ nextId' = nextId + 1
    BY <1>2 DEF Upsert
  <2>2. row \in Rows /\ row.id = nextId /\ row.path = p
    BY DEF Rows, RowIds, TableOK
  <2> HIDE DEF row
  <2>3. \A v \in rows : v.id \in Nat /\ v.id < nextId /\ v.path # p
    BY <1>2 DEF TableOK, Rows, RowIds
  <2>4. \A v \in rows' : v.id < nextId'
    BY <2>1, <2>2, <2>3 DEF TableOK
  <2>5. \A v, w \in rows' : v.id = w.id \/ v.path = w.path => v = w
    BY <2>1, <2>2, <2>3 DEF TableOK
  <2> QED  BY <2>1, <2>2, <2>4, <2>5 DEF TableOK
<1> QED  BY <1>1, <1>2

(* Nor does a change of path that the unique index lets through.            *)
LEMMA RepathKeeps ==
  ASSUME TableOK, NEW id, NEW p \in Paths, CanRepath(id, p), Repath(id, p), UNCHANGED nextId
  PROVE  TableOK'
<1> DEFINE new(v) == IF v.id = id THEN [v EXCEPT !.path = p] ELSE v
<1>1. rows' = {new(v) : v \in rows}
  BY DEF Repath
<1>2. \A v \in rows : /\ new(v) \in Rows /\ new(v).id = v.id
                      /\ new(v).path = IF v.id = id THEN p ELSE v.path
  BY DEF TableOK, Rows
<1>3. \A v \in rows : v.path = p => v.id = id
  BY DEF CanRepath
<1> HIDE DEF new
<1>4. ASSUME NEW x \in rows', NEW y \in rows', x.id = y.id \/ x.path = y.path PROVE x = y
  <2>1. PICK v \in rows, w \in rows : x = new(v) /\ y = new(w)
    BY <1>1
  <2>2. v = w
    BY <1>2, <1>3, <1>4, <2>1 DEF TableOK
  <2> QED  BY <2>1, <2>2
<1> QED  BY <1>1, <1>2, <1>4 DEF TableOK

(* Fewer rows are as distinct.                                              *)
LEMMA DeleteKeeps ==
  ASSUME TableOK, rows' \subseteq rows, UNCHANGED nextId
  PROVE  TableOK'
BY DEF TableOK

(* An actor's next operation record, with its row.                          *)
LEMMA GotoKeeps ==
  ASSUME OpsOK, NEW a \in Actors, NEW new \in OpType, Goto(a, new),
         new.pc \in {"look", "apply", "delete", "insert", "write"} => new.cur # NoRow
  PROVE  OpsOK'
<1>1. op' = [op EXCEPT ![a] = new]
  BY DEF Goto
<1>2. op' \in [Actors -> OpType]
  BY <1>1 DEF OpsOK
<1> QED  BY <1>1, <1>2 DEF OpsOK, HasRow

LEMMA IdleTyped == Idle \in OpType /\ Idle.pc = "idle"
BY DEF Idle, OpType, Pcs

LEMMA FaultKeeps ==
  ASSUME CountersOK, Fault \/ NoFault, UNCHANGED counters
  PROVE  CountersOK'
<1>1. faults \in Nat /\ MaxFaults \in Nat
  BY ConstantsAssumption DEF CountersOK
<1>2. CASE Fault
  <2>1. faults' \in 0 .. MaxFaults
    BY <1>1, <1>2 DEF Fault
  <2>2. calm' \in BOOLEAN
    BY <1>2 DEF Fault
  <2> QED  BY <2>1, <2>2 DEF CountersOK, counters
<1>3. CASE NoFault
  BY <1>3 DEF CountersOK, NoFault, counters
<1> QED  BY <1>2, <1>3

LEMMA StartKeeps ==
  ASSUME Inv, NEW a \in Actors, NEW kind, NEW new \in OpType, Start(a, kind, new),
         new.pc \notin {"look", "apply", "delete", "insert", "write"}
  PROVE  Inv'
<1>1. OpsOK'
  BY GotoKeeps DEF Start, Inv
<1>2. CountersOK'
  BY ConstantsAssumption DEF Start, Inv, CountersOK
<1>3. DiskOK' /\ TableOK'
  BY DEF Start, Inv, DiskOK, TableOK
<1> QED  BY <1>1, <1>2, <1>3 DEF Inv

LEMMA InvInit == Init => Inv
<1> SUFFICES ASSUME Init PROVE Inv  OBVIOUS
<1>1. PICK s \in Starts : disk = s.disk /\ rows = s.rows /\ nextId = s.next /\ kinds = s.kinds
  BY DEF Init
<1>2. DiskOK /\ TableOK /\ kinds \subseteq Kinds
  BY <1>1, ConstantsAssumption DEF DiskOK, TableOK
<1>3. OpsOK
  BY IdleTyped DEF Init, OpsOK, HasRow
<1>4. 0 \in 0 .. MaxOps /\ 0 \in 0 .. MaxEdits /\ 0 \in 0 .. MaxFaults
  BY ConstantsAssumption
<1> QED  BY <1>2, <1>3, <1>4 DEF Inv, CountersOK, Init

-----------------------------------------------------------------------------
(* The operations.                                                          *)

(* What an actor's record is, and what a step of its leaves alone.          *)
LEMMA OpTyped ==
  ASSUME Inv, NEW a \in Actors
  PROVE  op[a] \in OpType /\ op[a].todo \subseteq Rows /\ op[a].pairs \subseteq Pairs
         /\ op[a].titles \subseteq Titles /\ op[a].made \subseteq Titles
         /\ (op[a].pc \in {"look", "apply", "delete", "insert", "write"} => op[a].cur \in Rows)
BY DEF Inv, OpsOK, HasRow, OpType

LEMMA NextRenameTyped ==
  ASSUME Inv, NEW a \in Actors
  PROVE  NextRename(a) \in OpType /\ NextRename(a).pc = "plan"
BY OpTyped DEF NextRename, OpType, Pcs

LEMMA RenameKeeps ==
  ASSUME Inv, NEW a \in Actors, Rename(a)
  PROVE  Inv'
<1> USE DEF Inv
<1>a. op[a] \in OpType /\ op[a].todo \subseteq Rows
  BY OpTyped
<1>b. op[a].pc \in {"look", "apply", "delete", "insert", "write"} =>
        op[a].cur \in Rows /\ op[a].cur.path \in Paths /\ Canon[op[a].cur.path] \in Paths
        /\ op[a].cur.part \in Nat /\ op[a].cur.info \in Files
  BY OpTyped, ConstantsAssumption DEF Rows
<1>c. ASSUME UNCHANGED <<calm, faults, counters>> PROVE CountersOK'
  BY <1>c DEF CountersOK, counters
<1>1. CASE RenameStart(a)
  <2> DEFINE new == [Idle EXCEPT !.pc = "plan", !.todo = rows]
  <2>1. new \in OpType /\ new.pc = "plan"
    BY DEF Idle, OpType, Pcs, TableOK
  <2> HIDE DEF new
  <2>2. Start(a, "rename", new)
    BY <1>1 DEF RenameStart, new
  <2> QED  BY <2>1, <2>2, StartKeeps
<1>2. CASE RenamePlan(a)
  <2>1. CASE op[a].todo = {} /\ Goto(a, Idle)
    BY <2>1, IdleTyped, GotoKeeps, <1>2, <1>c DEF RenamePlan, DiskOK, TableOK
  <2>2. ASSUME NEW v \in op[a].todo,
               Goto(a, IF There(v.path) /\ Canon[v.path] # v.path
                       THEN [op[a] EXCEPT !.cur = v, !.pc = "look"]
                       ELSE [op[a] EXCEPT !.todo = @ \ {v}])
        PROVE  OpsOK'
    <3>1. v \in Rows /\ v # NoRow
      BY <1>a, ConstantsAssumption
    <3>2. CASE There(v.path) /\ Canon[v.path] # v.path
      <4> DEFINE new == [op[a] EXCEPT !.cur = v, !.pc = "look"]
      <4>1. new \in OpType /\ new.cur # NoRow
        BY <1>a, <3>1 DEF OpType, Pcs
      <4> QED  BY <2>2, <3>2, <4>1, GotoKeeps
    <3>3. CASE ~(There(v.path) /\ Canon[v.path] # v.path)
      <4> DEFINE new == [op[a] EXCEPT !.todo = @ \ {v}]
      <4>1. new \in OpType /\ new.pc = "plan"
        BY <1>a, <1>2 DEF OpType, RenamePlan
      <4> QED  BY <2>2, <3>3, <4>1, GotoKeeps
    <3> QED  BY <3>2, <3>3
  <2> QED  BY <2>1, <2>2, <1>2, <1>c DEF RenamePlan, DiskOK, TableOK
<1>3. CASE RenameLook(a)
  <2> DEFINE new == [op[a] EXCEPT !.pc = "apply"]
  <2>1. op[a].pc = "look" /\ new \in OpType /\ new.cur # NoRow
    BY <1>a, <1>b, <1>3, ConstantsAssumption DEF OpType, Pcs, RenameLook
  <2>2. Goto(a, NextRename(a)) \/ Goto(a, new)
    BY <1>3 DEF RenameLook
  <2> HIDE DEF new
  <2>3. OpsOK'
    BY <2>1, <2>2, NextRenameTyped, GotoKeeps
  <2> QED  BY <2>3, <1>3, <1>c DEF RenameLook, DiskOK, TableOK
<1>4. CASE RenameApply(a)
  <2>1. CASE Goto(a, NextRename(a)) /\ UNCHANGED disk
    BY <2>1, NextRenameTyped, GotoKeeps, <1>4, <1>c DEF RenameApply, DiskOK, TableOK
  <2>2. CASE /\ disk' = [disk EXCEPT ![op[a].cur.path] = Nothing,
                                     ![Canon[op[a].cur.path]] = disk[op[a].cur.path]]
             /\ Goto(a, [op[a] EXCEPT !.pc = "delete"])
    <3> DEFINE new == [op[a] EXCEPT !.pc = "delete"]
    <3>1. new \in OpType /\ new.cur # NoRow
      BY <1>a, <1>b, <1>4, ConstantsAssumption DEF OpType, Pcs, RenameApply
    <3>2. OpsOK'
      BY <2>2, <3>1, GotoKeeps
    <3>3. DiskOK'
      BY <2>2, <1>b, <1>4 DEF RenameApply, DiskOK
    <3> QED  BY <3>2, <3>3, <1>4, <1>c DEF RenameApply, TableOK
  <2> QED  BY <2>1, <2>2, <1>4 DEF RenameApply
<1>5. CASE RenameDelete(a)
  <2>1. ASSUME Goto(a, [op[a] EXCEPT !.pc = "insert"]) PROVE OpsOK'
    <3> DEFINE new == [op[a] EXCEPT !.pc = "insert"]
    <3>1. new \in OpType /\ new.cur # NoRow
      BY <1>a, <1>b, <1>5, ConstantsAssumption DEF OpType, Pcs, RenameDelete
    <3> QED  BY <2>1, <3>1, GotoKeeps
  <2>2. ASSUME Goto(a, NextRename(a)) PROVE OpsOK'
    BY <2>2, NextRenameTyped, GotoKeeps
  <2>3. TableOK'
    <3>1. rows' \subseteq rows /\ UNCHANGED nextId
      BY <1>5 DEF RenameDelete
    <3> QED  BY <3>1, DeleteKeeps
  <2>4. CountersOK'
    BY <1>5, FaultKeeps DEF RenameDelete
  <2>5. DiskOK'
    BY <1>5 DEF RenameDelete, DiskOK
  <2> QED  BY <2>1, <2>2, <2>3, <2>4, <2>5, <1>5 DEF RenameDelete
<1>6. CASE RenameInsert(a)
  <2>1. OpsOK'
    BY <1>6, NextRenameTyped, GotoKeeps DEF RenameInsert
  <2>2. TableOK'
    <3>1. CASE Upsert(Canon[op[a].cur.path], op[a].cur.part, op[a].cur.info)
      BY <1>6, <1>b, <3>1, UpsertKeeps DEF RenameInsert
    <3>2. CASE UNCHANGED <<rows, nextId>>
      BY <3>2 DEF TableOK
    <3> QED  BY <1>6, <3>1, <3>2 DEF RenameInsert
  <2>3. CountersOK'
    BY <1>6, FaultKeeps DEF RenameInsert
  <2>4. DiskOK'
    BY <1>6 DEF RenameInsert, DiskOK
  <2> QED  BY <2>1, <2>2, <2>3, <2>4
<1> QED  BY <1>1, <1>2, <1>3, <1>4, <1>5, <1>6 DEF Rename

LEMMA RefreshKeeps ==
  ASSUME Inv, NEW a \in Actors, Refresh(a)
  PROVE  Inv'
<1> USE DEF Inv
<1>a. op[a] \in OpType /\ op[a].todo \subseteq Rows /\ op[a].pairs \subseteq Pairs
  BY OpTyped
<1>b. op[a].pc = "write" => /\ op[a].cur \in Rows /\ op[a].cur.path \in Paths
                            /\ op[a].cur.part \in Nat /\ op[a].cur.info \in Files
  BY OpTyped DEF Rows
<1>c. ASSUME UNCHANGED <<calm, faults, counters>> PROVE CountersOK'
  BY <1>c DEF CountersOK, counters
<1>d. [Idle EXCEPT !.pc = "list"] \in OpType /\ [Idle EXCEPT !.pc = "list"].pc = "list"
  BY DEF Idle, OpType, Pcs
<1>1. CASE RefreshStart(a)
  <2> DEFINE new == [Idle EXCEPT !.pc = "folder", !.todo = rows, !.dirs = {Dir(v.path) : v \in rows}]
  <2>1. {Dir(v.path) : v \in rows} \subseteq {Dir(p) : p \in Paths}
    BY DEF TableOK, Rows
  <2>2. new \in OpType /\ new.pc = "folder"
    BY <2>1 DEF Idle, OpType, Pcs, TableOK
  <2> HIDE DEF new
  <2>3. Start(a, "refresh", new)
    BY <1>1 DEF RefreshStart, new
  <2> QED  BY <2>2, <2>3, StartKeeps
<1>2. CASE ReconcileFolder(a)
  <2> DEFINE d == CHOOSE d \in op[a].dirs : TRUE
             here == {v \in op[a].todo : Dir(v.path) = d}
             free == Unmatched(d, here)
             pairs == IF Cardinality(free) = Cardinality(Stale(here)) THEN Pairing(Stale(here), free) ELSE {}
             new == IF op[a].dirs = {} THEN [Idle EXCEPT !.pc = "list"]
                    ELSE [op[a] EXCEPT !.dirs = @ \ {d}, !.pairs = pairs, !.pc = "update"]
  <2>1. pairs \subseteq Pairs
    <3>1. {v.id : v \in Stale(here)} \subseteq RowIds /\ free \subseteq Paths
      BY <1>a DEF Stale, Unmatched, InDir, Rows
    <3>2. Pairing(Stale(here), free) \subseteq [id : {v.id : v \in Stale(here)}, path : free]
      BY DEF Pairing
    <3> HIDE DEF free, here
    <3> QED  BY <3>1, <3>2 DEF Pairs
  <2> HIDE DEF pairs, d
  <2>2. new \in OpType /\ new.pc \in {"list", "update"}
    BY <1>a, <1>d, <2>1 DEF OpType, Pcs
  <2>3. Goto(a, new) /\ UNCHANGED <<disk, rows, nextId, calm, faults, counters>>
    BY <1>2 DEF ReconcileFolder, pairs, d
  <2> HIDE DEF new
  <2> QED  BY <2>2, <2>3, GotoKeeps, <1>c DEF DiskOK, TableOK
<1>3. CASE ReconcileUpdate(a)
  <2>1. DiskOK' /\ CountersOK'
    BY <1>3, FaultKeeps DEF ReconcileUpdate, DiskOK
  <2>2. TableOK'
    <3>1. ASSUME NEW pr \in op[a].pairs, CanRepath(pr.id, pr.path), Repath(pr.id, pr.path)
          PROVE  TableOK'
      <4>1. pr.path \in Paths /\ UNCHANGED nextId
        BY <1>a, <1>3 DEF Pairs, ReconcileUpdate
      <4> QED  BY <3>1, <4>1, RepathKeeps
    <3>2. CASE UNCHANGED rows
      BY <1>3, <3>2 DEF ReconcileUpdate, TableOK
    <3> QED  BY <1>3, <3>1, <3>2 DEF ReconcileUpdate
  <2>3. OpsOK'
    <3>1. ASSUME Goto(a, [op[a] EXCEPT !.pc = "folder"]) PROVE OpsOK'
      <4>1. [op[a] EXCEPT !.pc = "folder"] \in OpType /\ [op[a] EXCEPT !.pc = "folder"].pc = "folder"
        BY <1>a DEF OpType, Pcs
      <4> QED  BY <3>1, <4>1, GotoKeeps
    <3>2. ASSUME NEW pr, Goto(a, [op[a] EXCEPT !.pairs = @ \ {pr}]) PROVE OpsOK'
      <4> DEFINE new == [op[a] EXCEPT !.pairs = @ \ {pr}]
      <4>1. new \in OpType /\ new.pc = "update"
        BY <1>a, <1>3 DEF OpType, ReconcileUpdate
      <4> QED  BY <3>2, <4>1, GotoKeeps
    <3>3. ASSUME Goto(a, [Idle EXCEPT !.pc = "list"]) PROVE OpsOK'
      BY <1>d, <3>3, GotoKeeps
    <3> QED  BY <1>3, <3>1, <3>2, <3>3 DEF ReconcileUpdate
  <2> QED  BY <2>1, <2>2, <2>3
<1>4. CASE ReprobeList(a)
  <2> DEFINE new == [op[a] EXCEPT !.todo = rows, !.pc = "probe"]
  <2>1. new \in OpType /\ new.pc = "probe"
    BY <1>a DEF OpType, Pcs, TableOK
  <2>2. Goto(a, new)
    BY <1>4 DEF ReprobeList
  <2> HIDE DEF new
  <2>3. OpsOK'
    BY <2>1, <2>2, GotoKeeps
  <2> QED  BY <2>3, <1>4, <1>c DEF ReprobeList, DiskOK, TableOK
<1>5. CASE ReprobeRead(a)
  <2>1. ASSUME NEW v \in op[a].todo,
               Goto(a, IF There(v.path)
                       THEN [op[a] EXCEPT !.cur = [v EXCEPT !.info = disk[v.path]], !.pc = "write"]
                       ELSE [op[a] EXCEPT !.todo = @ \ {v}])
        PROVE  OpsOK'
    <3>1. v \in Rows /\ v.path \in Paths
      BY <1>a DEF Rows
    <3>2. CASE There(v.path)
      <4> DEFINE row == [v EXCEPT !.info = disk[v.path]]
                 new == [op[a] EXCEPT !.cur = row, !.pc = "write"]
      <4>1. disk[v.path] \in Files
        BY <3>1, <3>2 DEF DiskOK, There
      <4>2. row \in Rows
        BY <3>1, <4>1 DEF Rows
      <4>3. row # NoRow
        BY <4>2, ConstantsAssumption
      <4> HIDE DEF row
      <4>4. new \in OpType /\ new.cur = row
        BY <1>a, <4>2 DEF OpType, Pcs
      <4>5. Goto(a, new)
        BY <2>1, <3>2 DEF row
      <4> QED  BY <4>3, <4>4, <4>5, GotoKeeps
    <3>3. CASE ~There(v.path)
      <4> DEFINE new == [op[a] EXCEPT !.todo = @ \ {v}]
      <4>1. new \in OpType /\ new.pc = "probe"
        BY <1>a, <1>5 DEF OpType, ReprobeRead
      <4> QED  BY <2>1, <3>3, <4>1, GotoKeeps
    <3> QED  BY <3>2, <3>3
  <2>2. OpsOK'
    BY <1>5, <2>1 DEF ReprobeRead
  <2> QED  BY <2>2, <1>5, <1>c DEF ReprobeRead, DiskOK, TableOK
<1>6. CASE ReprobeWrite(a)
  <2>1. OpsOK'
    <3> DEFINE rest == {w \in op[a].todo : w.id # op[a].cur.id}
               new == [op[a] EXCEPT !.todo = rest, !.cur = NoRow, !.pc = "probe"]
    <3>1. new \in OpType /\ new.pc = "probe"
      BY <1>a DEF OpType, Pcs
    <3>2. Goto(a, new)
      BY <1>6 DEF ReprobeWrite
    <3> HIDE DEF new
    <3> QED  BY <3>1, <3>2, GotoKeeps
  <2>2. TableOK'
    <3>1. CASE Upsert(op[a].cur.path, op[a].cur.part, op[a].cur.info)
      BY <1>6, <1>b, <3>1, UpsertKeeps DEF ReprobeWrite
    <3>2. CASE UNCHANGED <<rows, nextId>>
      BY <3>2 DEF TableOK
    <3> QED  BY <1>6, <3>1, <3>2 DEF ReprobeWrite
  <2>3. CountersOK' /\ DiskOK'
    BY <1>6, FaultKeeps DEF ReprobeWrite, DiskOK
  <2> QED  BY <2>1, <2>2, <2>3
<1>7. CASE RefreshDone(a)
  BY <1>7, IdleTyped, GotoKeeps, <1>c DEF RefreshDone, DiskOK, TableOK
<1> QED  BY <1>1, <1>2, <1>3, <1>4, <1>5, <1>6, <1>7 DEF Refresh

(* The part number of a title is an index of MkvPath.                       *)
LEMMA PartTyped ==
  ASSUME Inv, NEW a \in Actors, NEW t \in Titles
  PROVE  /\ PartOfTitle(a, t) \in 0 .. Cardinality(Titles) /\ PartOfTitle(a, t) \in Nat
         /\ MkvPath[PartOfTitle(a, t)] \in Paths /\ Mkv[t] \in Files
<1> DEFINE upto == {u \in op[a].titles : u <= t}
<1>1. IsFiniteSet(Titles) /\ upto \subseteq Titles
  BY OpTyped, ConstantsAssumption
<1>2. IsFiniteSet(upto) /\ Cardinality(upto) <= Cardinality(Titles)
  BY <1>1, FS_Subset
<1>3. Cardinality(upto) \in Nat /\ Cardinality(Titles) \in Nat
  BY <1>1, <1>2, FS_CardinalityType
<1>4. PartOfTitle(a, t) \in 0 .. Cardinality(Titles)
  BY <1>2, <1>3 DEF PartOfTitle
<1>5. PartOfTitle(a, t) \in Nat
  BY <1>3, <1>4
<1> QED  BY <1>4, <1>5, ConstantsAssumption

LEMMA RemuxKeeps ==
  ASSUME Inv, NEW a \in Actors, Remux(a)
  PROVE  Inv'
<1> USE DEF Inv
<1>a. op[a] \in OpType
  BY OpTyped
<1>b. ASSUME UNCHANGED <<calm, faults, counters>> PROVE CountersOK'
  BY <1>b DEF CountersOK, counters
<1>c. ASSUME Goto(a, Idle) PROVE OpsOK'
  BY <1>c, IdleTyped, GotoKeeps
<1>d. ASSUME NEW x \in {"make", "move", "place", "swap", "upsert"}, Goto(a, [op[a] EXCEPT !.pc = x])
      PROVE  OpsOK'
  <2> DEFINE new == [op[a] EXCEPT !.pc = x]
  <2>1. new \in OpType /\ new.pc = x
    BY <1>a DEF OpType, Pcs
  <2>2. Goto(a, new)
    BY <1>d
  <2> HIDE DEF new
  <2> QED  BY <2>1, <2>2, GotoKeeps
<1>1. ASSUME NEW titles \in (SUBSET Titles) \ {{}}, RemuxStart(a, titles) PROVE Inv'
  <2> DEFINE new == [Idle EXCEPT !.pc = "preserve", !.titles = titles]
  <2>1. new \in OpType /\ new.pc = "preserve"
    BY DEF Idle, OpType, Pcs
  <2>2. Start(a, "remux", new)
    BY <1>1 DEF RemuxStart
  <2> HIDE DEF new
  <2> QED  BY <2>1, <2>2, StartKeeps
<1>2. CASE Preserve(a)
  <2>1. OpsOK'
    BY <1>2, <1>c, <1>d DEF Preserve
  <2>2. DiskOK'
    <3>1. CASE UNCHANGED disk
      BY <3>1 DEF DiskOK
    <3>2. CASE disk' = [p \in Paths |->
                      IF Dir(p) = "VIDEO_TS" THEN Nothing
                      ELSE IF Dir(p) = "original" THEN disk[<<"VIDEO_TS", Base(p)>>]
                      ELSE disk[p]]
      BY <3>2, ConstantsAssumption DEF DiskOK
    <3> QED  BY <1>2, <3>1, <3>2 DEF Preserve
  <2> QED  BY <1>2, <1>b, <2>1, <2>2 DEF Preserve, TableOK
<1>3. CASE MakeMKV(a)
  <2>1. OpsOK'
    BY <1>3, <1>c, <1>d DEF MakeMKV
  <2>2. CountersOK'
    BY <1>3, FaultKeeps DEF MakeMKV
  <2> QED  BY <1>3, <2>1, <2>2 DEF MakeMKV, DiskOK, TableOK
<1>4. CASE MoveProduced(a)
  <2>1. OpsOK'
    BY <1>4, <1>c, <1>d DEF MoveProduced
  <2> QED  BY <1>4, <1>b, <2>1 DEF MoveProduced, DiskOK, TableOK
<1>5. CASE PlaceProduced(a)
  <2>1. PICK t \in Titles : /\ disk' = [disk EXCEPT ![MkvPath[PartOfTitle(a, t)]] = Mkv[t]]
                            /\ Goto(a, [op[a] EXCEPT !.made = @ \cup {t}, !.pc = "move"])
    BY <1>5 DEF PlaceProduced
  <2> DEFINE new == [op[a] EXCEPT !.made = @ \cup {t}, !.pc = "move"]
  <2>2. new \in OpType /\ new.pc = "move"
    BY <1>a DEF OpType, Pcs
  <2>3. Goto(a, new)
    BY <2>1
  <2> HIDE DEF new
  <2>4. OpsOK'
    BY <2>2, <2>3, GotoKeeps
  <2>5. DiskOK'
    BY <2>1, PartTyped DEF DiskOK
  <2> QED  BY <1>5, <1>b, <2>4, <2>5 DEF PlaceProduced, TableOK
<1>6. CASE SwapDelete(a)
  <2>1. OpsOK'
    BY <1>6, <1>c, <1>d DEF SwapDelete
  <2>2. TableOK'
    <3>1. rows' \subseteq rows /\ UNCHANGED nextId
      BY <1>6 DEF SwapDelete
    <3> QED  BY <3>1, DeleteKeeps
  <2>3. CountersOK' /\ DiskOK'
    BY <1>6, FaultKeeps DEF SwapDelete, DiskOK
  <2> QED  BY <2>1, <2>2, <2>3
<1>7. CASE SwapUpsert(a)
  <2>1. ASSUME NEW t \in Titles, Goto(a, [op[a] EXCEPT !.made = @ \ {t}]) PROVE OpsOK'
    <3> DEFINE new == [op[a] EXCEPT !.made = @ \ {t}]
    <3>1. new \in OpType /\ new.pc = "upsert"
      BY <1>a, <1>7 DEF OpType, SwapUpsert
    <3>2. Goto(a, new)
      BY <2>1
    <3> HIDE DEF new
    <3> QED  BY <3>1, <3>2, GotoKeeps
  <2>2. ASSUME NEW t \in Titles, Upsert(MkvPath[PartOfTitle(a, t)], PartOfTitle(a, t), Mkv[t])
        PROVE  TableOK'
    <3>1. PartOfTitle(a, t) \in Nat /\ MkvPath[PartOfTitle(a, t)] \in Paths /\ Mkv[t] \in Files
      BY PartTyped
    <3> QED  BY <2>2, <3>1, UpsertKeeps
  <2>3. OpsOK'
    BY <1>7, <1>c, <2>1 DEF SwapUpsert
  <2>4. TableOK'
    <3>1. CASE UNCHANGED <<rows, nextId>>
      BY <3>1 DEF TableOK
    <3> QED  BY <1>7, <2>2, <3>1 DEF SwapUpsert
  <2>5. CountersOK' /\ DiskOK'
    BY <1>7, FaultKeeps DEF SwapUpsert, DiskOK
  <2> QED  BY <2>3, <2>4, <2>5
<1> QED  BY <1>1, <1>2, <1>3, <1>4, <1>5, <1>6, <1>7 DEF Remux

LEMMA DriftKeeps ==
  ASSUME Inv, NEW a \in Actors, Drift(a)
  PROVE  Inv'
<1> USE DEF Inv
<1>a. op[a] \in OpType /\ op[a].todo \subseteq Rows
  BY OpTyped
<1>1. ASSUME NEW d \in DriftDirs, DriftStart(a, d) PROVE Inv'
  <2> DEFINE new == [Idle EXCEPT !.pc = "walk", !.dirs = {d}, !.todo = rows]
  <2>1. d \in {Dir(p) : p \in Paths}
    BY <1>1 DEF DriftStart, InDir
  <2>2. new \in OpType /\ new.pc = "walk"
    BY <2>1 DEF Idle, OpType, Pcs, TableOK
  <2>3. Start(a, "drift", new)
    BY <1>1 DEF DriftStart
  <2> HIDE DEF new
  <2> QED  BY <2>2, <2>3, StartKeeps
<1>2. CASE DriftUpdate(a)
  <2> DEFINE moved == {p \in Paths : /\ Dir(p) \in op[a].dirs /\ There(p)
                                     /\ \E v \in Namesake(a, p) : v.path # p}
             p == CHOOSE p \in moved : TRUE
  <2>1. \/ moved = {} /\ Goto(a, Idle) /\ UNCHANGED rows /\ NoFault
        \/ /\ moved # {}
           /\ Goto(a, [op[a] EXCEPT !.todo = @ \ Namesake(a, p)])
           /\ \E v \in Namesake(a, p) :
                \/ CanRepath(v.id, p) /\ Repath(v.id, p) /\ NoFault
                \/ ~CanRepath(v.id, p) /\ UNCHANGED rows /\ NoFault
                \/ Fault /\ UNCHANGED rows
    BY <1>2 DEF DriftUpdate
  <2>2. op[a].pc = "walk" /\ UNCHANGED <<disk, nextId, counters>>
    BY <1>2 DEF DriftUpdate
  <2>3. moved # {} => p \in Paths
    OBVIOUS
  <2> HIDE DEF moved, p
  <2>4. OpsOK'
    <3>1. CASE Goto(a, Idle)
      BY <3>1, IdleTyped, GotoKeeps
    <3>2. CASE Goto(a, [op[a] EXCEPT !.todo = @ \ Namesake(a, p)])
      <4> DEFINE new == [op[a] EXCEPT !.todo = @ \ Namesake(a, p)]
      <4>1. new \in OpType /\ new.pc = "walk"
        BY <1>a, <2>2 DEF OpType
      <4>2. Goto(a, new)
        BY <3>2
      <4> HIDE DEF new
      <4> QED  BY <4>1, <4>2, GotoKeeps
    <3> QED  BY <2>1, <3>1, <3>2
  <2>5. TableOK'
    <3>1. CASE UNCHANGED rows
      BY <2>2, <3>1 DEF TableOK
    <3>2. ASSUME NEW v, moved # {}, CanRepath(v.id, p), Repath(v.id, p) PROVE TableOK'
      BY <2>2, <2>3, <3>2, RepathKeeps
    <3> QED  BY <2>1, <3>1, <3>2
  <2>6. CountersOK'
    <3>1. Fault \/ NoFault
      BY <2>1
    <3> QED  BY <2>2, <3>1, FaultKeeps
  <2> QED  BY <2>2, <2>4, <2>5, <2>6 DEF DiskOK
<1> QED  BY <1>1, <1>2 DEF Drift

LEMMA ExternalKeeps ==
  ASSUME Inv, External
  PROVE  Inv'
<1>1. ASSUME NEW new \in [Paths -> Files \cup {Nothing}], Edit(new) PROVE Inv'
  <2>1. edits' \in 0 .. MaxEdits /\ calm' \in BOOLEAN
    <3>1. edits \in Nat /\ MaxEdits \in Nat
      BY ConstantsAssumption DEF Inv, CountersOK
    <3>2. edits' \in 0 .. MaxEdits
      BY <1>1, <3>1 DEF Edit
    <3>3. calm' \in BOOLEAN
      BY <1>1 DEF Edit
    <3> QED  BY <3>2, <3>3
  <2> QED  BY <1>1, <2>1 DEF Edit, Inv, DiskOK, TableOK, OpsOK, HasRow, CountersOK
<1>2. disk \in [Paths -> Files \cup {Nothing}]
  BY DEF Inv, DiskOK
<1>3. ASSUME NEW p \in Paths, NEW q \in Paths, ExtRename(p, q) PROVE Inv'
  <2>1. [disk EXCEPT ![p] = Nothing, ![q] = disk[p]] \in [Paths -> Files \cup {Nothing}]
    BY <1>2
  <2> QED  BY <1>1, <1>3, <2>1 DEF ExtRename
<1>4. ASSUME NEW p \in Paths, NEW f \in Files, ExtReplace(p, f) PROVE Inv'
  <2>1. [disk EXCEPT ![p] = f] \in [Paths -> Files \cup {Nothing}]
    BY <1>2
  <2> QED  BY <1>1, <1>4, <2>1 DEF ExtReplace
<1>5. ASSUME NEW d \in DriftDirs, NEW e \in DriftDirs, ExtMoveFolder(d, e) PROVE Inv'
  <2> DEFINE new == [p \in Paths |-> IF Dir(p) = d THEN Nothing
                                     ELSE IF Dir(p) = e THEN disk[<<d, Base(p)>>] ELSE disk[p]]
  <2>1. new \in [Paths -> Files \cup {Nothing}]
    BY <1>2, ConstantsAssumption
  <2>2. Edit(new)
    BY <1>5 DEF ExtMoveFolder
  <2> HIDE DEF new
  <2> QED  BY <1>1, <2>1, <2>2
<1> QED  BY <1>3, <1>4, <1>5 DEF External

LEMMA InvInductive == Inv /\ [Next]_vars => Inv'
<1> SUFFICES ASSUME Inv, [Next]_vars PROVE Inv'  OBVIOUS
<1>1. CASE UNCHANGED vars
  BY <1>1 DEF vars, Inv, DiskOK, TableOK, OpsOK, HasRow, CountersOK
<1>2. CASE CrashRestart
  <2>1. OpsOK'
    BY <1>2, IdleTyped DEF CrashRestart, OpsOK, HasRow
  <2>2. CountersOK'
    BY <1>2, FaultKeeps DEF CrashRestart, Inv
  <2> QED  BY <1>2, <2>1, <2>2 DEF CrashRestart, Inv, DiskOK, TableOK
<1>3. CASE Terminated
  BY <1>1, <1>3 DEF Terminated
<1> QED  BY <1>1, <1>2, <1>3, RenameKeeps, RefreshKeeps, RemuxKeeps, DriftKeeps, ExternalKeeps DEF Next

LEMMA InvHolds == Spec => []Inv
BY InvInit, InvInductive, PTL DEF Spec

(* Every reachable state is well typed; in particular no two rows of the    *)
(* recording share an id or a path and a new id is new, however renames,    *)
(* reprobes, swaps and drift updates interleave, fail or die (UpsertVersion *)
(* and UpdateVersionFilePath against the index on recording and path).      *)
THEOREM TypeCorrect == Spec => []TypeOK
BY InvHolds, InvIsTypeOK, PTL

=============================================================================
