-------------------------- MODULE VersionRowsAlone --------------------------
(***************************************************************************)
(* What the version rows come to when operations do not overlap: they are   *)
(* true after quiet ones, no remux is half swapped after any of them, a     *)
(* part keeps its file, and a refresh that nothing disturbs heals the rows. *)
(***************************************************************************)
EXTENDS VersionRowsProofs

(* One operation at a time, the rest idle.                                  *)
OneEach == \A a, b \in Busy : a = b
IdleIsIdle == \A a \in Actors : op[a].pc = "idle" => op[a] = Idle
Sole == MaxInFlight = 1 /\ IsFiniteSet(Actors)

Act(a) == Rename(a) \/ Refresh(a) \/ Remux(a) \/ Drift(a)
Starting(a) == \E kind, new : Start(a, kind, new)
RefreshSteps == {"folder", "update", "list", "probe", "write"}
RemuxSteps == {"preserve", "make", "move", "place", "swap", "upsert"}

-----------------------------------------------------------------------------
(* The state while there has been no fault and no edit, by what the one     *)
(* operation is about to do.                                                *)
Quiet == faults = 0 /\ edits = 0
AllTrue == \A v \in rows : disk[v.path] = v.info
HasVob == \E v \in rows : Dir(v.path) = "VIDEO_TS"
MkvFree == "remux" \in kinds /\ HasVob => \A p \in MkvPaths : disk[p] = Nothing
KnownBut(S) ==
    "drift" \in kinds =>
      \A p \in Paths : Dir(p) \in DriftDirs /\ There(p) => p \in S \/ \E v \in rows : v.path = p
Settled == AllTrue /\ MkvFree /\ KnownBut({})

Dest(a) == Canon[op[a].cur.path]
(* The file has moved, its row has not: not yet deleted, or not yet back.   *)
Moving(a) ==
    /\ op[a].cur \in Rows /\ op[a].todo \ {op[a].cur} \subseteq rows
    /\ disk[Dest(a)] = op[a].cur.info /\ disk[op[a].cur.path] = Nothing
    /\ \A v \in rows : v.path # Dest(a)
    /\ \A v \in rows : v # op[a].cur => disk[v.path] = v.info
    /\ MkvFree /\ KnownBut({Dest(a)})
RenamePhase(a) ==
    /\ op[a].pc = "plan" => Settled /\ op[a].todo \subseteq rows
    /\ op[a].pc \in {"look", "apply"} => /\ Settled /\ op[a].todo \subseteq rows
                                         /\ op[a].cur \in rows /\ Dest(a) # op[a].cur.path
    /\ op[a].pc = "apply" => ~There(Dest(a))
    /\ op[a].pc = "delete" => Moving(a) /\ op[a].cur \in rows
    /\ op[a].pc = "insert" => Moving(a) /\ op[a].cur \notin rows

RefreshPhase(a) ==
    op[a].pc \in RefreshSteps =>
      /\ Settled /\ op[a].todo \subseteq rows /\ op[a].pairs = {}
      /\ op[a].pc = "write" => op[a].cur \in rows

TitlePath(a, t) == MkvPath[PartOfTitle(a, t)]
RemuxPhase(a) ==
    /\ op[a].pc \in RemuxSteps =>
         "remux" \in kinds /\ "drift" \notin kinds /\ op[a].made \subseteq op[a].titles
    /\ op[a].pc = "preserve" => Settled /\ HasVob /\ op[a].made = {}
    /\ op[a].pc = "make" => op[a].made = {} /\ \A p \in MkvPaths : disk[p] = Nothing
    /\ op[a].pc \in {"move", "place"} =>
         \A t \in op[a].titles : disk[TitlePath(a, t)] = IF t \in op[a].made THEN Mkv[t] ELSE Nothing
    /\ op[a].pc = "swap" => op[a].made = op[a].titles
    /\ op[a].pc \in {"swap", "upsert"} => \A t \in op[a].made : disk[TitlePath(a, t)] = Mkv[t]
    /\ op[a].pc = "upsert" => AllTrue /\ ~HasVob

DriftPhase(a) ==
    op[a].pc = "walk" =>
      Settled /\ op[a].todo \subseteq rows /\ op[a].dirs \subseteq DriftDirs /\ "drift" \in kinds

Phase(a) ==
    /\ op[a].pc = "idle" => Settled
    /\ RenamePhase(a) /\ RefreshPhase(a) /\ RemuxPhase(a) /\ DriftPhase(a)

QuietInv ==
    /\ "drift" \in kinds => "remux" \notin kinds
    /\ Quiet => /\ Busy = {} => Settled
                /\ \A a \in Busy : Phase(a)

-----------------------------------------------------------------------------
(* A remuxed recording: either no VOB is known to the table or to the        *)
(* operation any more, or no title is, and what is known besides the VOBs   *)
(* are canonical files in their place, which neither a rename nor the       *)
(* pairing of a refresh will touch.                                         *)
Known(a) == rows \cup op[a].todo \cup ({op[a].cur} \ {NoRow})
VobsGone(a) ==
    /\ \A v \in Known(a) : Dir(v.path) # "VIDEO_TS"
    /\ \A pr \in op[a].pairs : Dir(pr.path) # "VIDEO_TS"
    /\ "VIDEO_TS" \notin op[a].dirs
InPlace(p) ==
    p \notin MkvPaths /\ (Dir(p) # "VIDEO_TS" => Canon[p] = p /\ There(p))
TitlesUnknown(a) ==
    /\ kinds \cap {"drift", "edit"} = {}
    /\ \A v \in Known(a) : InPlace(v.path)
    /\ \A pr \in op[a].pairs : Dir(pr.path) = "VIDEO_TS"
    /\ op[a].pc \in {"look", "apply", "delete", "insert"} => Dest(a) # op[a].cur.path
    /\ op[a].pc \in {"delete", "insert"} => There(Dest(a))
    /\ op[a].pc \notin {"upsert", "walk"}
RemuxOnly(a) ==
    op[a].pc \in RemuxSteps =>
      op[a].todo = {} /\ op[a].pairs = {} /\ op[a].dirs = {} /\ op[a].cur = NoRow
SwapInv ==
    /\ NeverHalfSwapped
    /\ \A a \in Actors : RemuxOnly(a) /\ (VobsGone(a) \/ TitlesUnknown(a))

-----------------------------------------------------------------------------
(* How many of S come before x by f.                                        *)
Rank(S, f, x) == Cardinality({w \in S : f[w] < f[x]})

(* A refresh that nothing disturbed: the folders ahead of it are as it      *)
(* listed them; in those behind it a row has its file, is in a pair still   *)
(* to be written, or lies where the counts differ; each pair's update can   *)
(* be made.                                                                 *)
CalmAlone == calm => \A a, b \in Busy : a = b
RowPaths == {v.path : v \in rows}
HasFileOrOdd(v) == There(v.path) \/ ~Balanced(Dir(v.path))
AsListed(a) == {v \in op[a].todo : Dir(v.path) \in op[a].dirs} = {v \in rows : Dir(v.path) \in op[a].dirs}
Paired(a, v) == \E pr \in op[a].pairs : pr.id = v.id
PairsFit(a) ==
    /\ \A pr, other \in op[a].pairs : pr.id = other.id \/ pr.path = other.path => pr = other
    /\ \A pr \in op[a].pairs :
         /\ There(pr.path) /\ pr.path \notin RowPaths /\ Dir(pr.path) \notin op[a].dirs
         /\ \E v \in rows : v.id = pr.id /\ Dir(v.path) = Dir(pr.path)
Healing(a) ==
    /\ op[a].pc = "folder" => /\ AsListed(a) /\ op[a].pairs = {}
                              /\ \A v \in rows : Dir(v.path) \notin op[a].dirs => HasFileOrOdd(v)
    /\ op[a].pc = "update" =>
         /\ AsListed(a) /\ PairsFit(a)
         /\ \A v \in rows : Dir(v.path) \notin op[a].dirs =>
              \/ There(v.path) \/ Paired(a, v)
              \/ ~Balanced(Dir(v.path)) /\ \A pr \in op[a].pairs : Dir(pr.path) # Dir(v.path)
    /\ op[a].pc \in {"list", "probe", "write"} => \A v \in rows : HasFileOrOdd(v)
    /\ op[a].pc \in {"probe", "write"} =>
         /\ op[a].todo \subseteq rows
         /\ \A v \in rows : v \in op[a].todo \/ disk[v.path] = v.info \/ ~There(v.path)
    /\ op[a].pc = "write" =>
         /\ \E w \in op[a].todo : op[a].cur.id = w.id /\ op[a].cur.path = w.path
         /\ op[a].cur.info = disk[op[a].cur.path]
HealInv == calm => \A a \in Actors : Healing(a)

-----------------------------------------------------------------------------
(* Who moves.                                                               *)

LEMMA GotoMoves ==
  ASSUME Inv, NEW a \in Actors, NEW new, Goto(a, new)
  PROVE  op'[a] = new /\ \A b \in Actors : b # a => op'[b] = op[b]
BY DEF Inv, OpsOK, Goto

LEMMA ActorMoves ==
  ASSUME Inv, NEW a \in Actors, Act(a)
  PROVE  /\ \A b \in Actors : b # a => op'[b] = op[b]
         /\ op[a].pc = "idle" => Starting(a)
         /\ op'[a].pc = "idle" => op'[a] = Idle
         /\ op'[a].pc \in RemuxSteps => Remux(a)
         /\ op'[a].pc \in RefreshSteps => Refresh(a)
<1> DEFINE Moved == /\ \A b \in Actors : b # a => op'[b] = op[b]
                    /\ op'[a].pc = "idle" => op'[a] = Idle
                    /\ op'[a].pc \in RemuxSteps => Remux(a)
                    /\ op'[a].pc \in RefreshSteps => Refresh(a)
<1>1. \A new : /\ Goto(a, new) /\ (new.pc = "idle" => new = Idle)
              /\ (new.pc \in RemuxSteps => Remux(a)) /\ (new.pc \in RefreshSteps => Refresh(a))
              => Moved
  BY GotoMoves
<1> HIDE DEF Moved
<1>2. op[a] \in OpType
  BY OpTyped
<1> USE <1>2 DEF OpType, Idle, RemuxSteps, RefreshSteps
<1>3. Rename(a) => Moved /\ (op[a].pc = "idle" => Starting(a))
  <2> SUFFICES ASSUME Rename(a) PROVE Moved /\ (op[a].pc = "idle" => Starting(a))
    OBVIOUS
  <2>1. CASE RenameStart(a)
    BY <1>1, <2>1 DEF RenameStart, Starting, Start
  <2>2. CASE RenamePlan(a)
    <3>1. ASSUME NEW v \in op[a].todo
          PROVE  LET new == IF There(v.path) /\ Canon[v.path] # v.path
                            THEN [op[a] EXCEPT !.cur = v, !.pc = "look"]
                            ELSE [op[a] EXCEPT !.todo = @ \ {v}]
                 IN  op[a].pc = "plan" => new.pc # "idle" /\ new.pc \notin RemuxSteps /\ new.pc \notin RefreshSteps
      OBVIOUS
    <3> QED  BY <1>1, <2>2, <3>1 DEF RenamePlan
  <2>3. CASE RenameLook(a)
    BY <1>1, <2>3 DEF RenameLook, NextRename
  <2>4. CASE RenameApply(a)
    BY <1>1, <2>4 DEF RenameApply, NextRename
  <2>5. CASE RenameDelete(a)
    BY <1>1, <2>5 DEF RenameDelete, NextRename
  <2>6. CASE RenameInsert(a)
    BY <1>1, <2>6 DEF RenameInsert, NextRename
  <2> QED  BY <2>1, <2>2, <2>3, <2>4, <2>5, <2>6 DEF Rename
<1>4. Refresh(a) => Moved /\ (op[a].pc = "idle" => Starting(a))
  <2> SUFFICES ASSUME Refresh(a) PROVE Moved /\ (op[a].pc = "idle" => Starting(a))
    OBVIOUS
  <2>1. CASE RefreshStart(a)
    BY <1>1, <2>1 DEF RefreshStart, Starting, Start
  <2>2. CASE ReconcileFolder(a)
    BY <1>1, <2>2 DEF ReconcileFolder
  <2>3. CASE ReconcileUpdate(a)
    BY <1>1, <2>3 DEF ReconcileUpdate
  <2>4. CASE ReprobeList(a) \/ ReprobeWrite(a) \/ RefreshDone(a)
    BY <1>1, <2>4 DEF ReprobeList, ReprobeWrite, RefreshDone
  <2>5. CASE ReprobeRead(a)
    BY <1>1, <2>5 DEF ReprobeRead
  <2> QED  BY <2>1, <2>2, <2>3, <2>4, <2>5 DEF Refresh
<1>5. Remux(a) => Moved /\ (op[a].pc = "idle" => Starting(a))
  <2> SUFFICES ASSUME Remux(a) PROVE Moved /\ (op[a].pc = "idle" => Starting(a))
    OBVIOUS
  <2>1. CASE \E titles \in (SUBSET Titles) \ {{}} : RemuxStart(a, titles)
    BY <1>1, <2>1 DEF RemuxStart, Starting, Start
  <2>2. CASE Preserve(a)
    BY <1>1, <2>2 DEF Preserve
  <2>3. CASE MakeMKV(a)
    BY <1>1, <2>3 DEF MakeMKV
  <2>4. CASE MoveProduced(a)
    BY <1>1, <2>4 DEF MoveProduced
  <2>5. CASE PlaceProduced(a)
    BY <1>1, <2>5 DEF PlaceProduced
  <2>6. CASE SwapDelete(a)
    BY <1>1, <2>6 DEF SwapDelete
  <2>7. CASE SwapUpsert(a)
    BY <1>1, <2>7 DEF SwapUpsert
  <2> QED  BY <2>1, <2>2, <2>3, <2>4, <2>6, <2>7, <2>5 DEF Remux
<1>6. Drift(a) => Moved /\ (op[a].pc = "idle" => Starting(a))
  <2> SUFFICES ASSUME Drift(a) PROVE Moved /\ (op[a].pc = "idle" => Starting(a))
    OBVIOUS
  <2>1. CASE \E d \in DriftDirs : DriftStart(a, d)
    BY <1>1, <2>1 DEF DriftStart, Starting, Start
  <2>2. CASE DriftUpdate(a)
    BY <1>1, <2>2 DEF DriftUpdate
  <2> QED  BY <2>1, <2>2 DEF Drift
<1> QED  BY <1>3, <1>4, <1>5, <1>6 DEF Act, Moved

LEMMA StartsAlone ==
  ASSUME Sole, NEW a \in Actors, Starting(a)
  PROVE  Busy = {}
<1>1. IsFiniteSet(Busy)
  <2>1. Busy \in SUBSET Actors
    BY DEF Busy
  <2> QED  BY <2>1, FS_Subset DEF Sole
<1>2. Cardinality(Busy) \in Nat /\ Cardinality(Busy) < 1
  BY <1>1, FS_CardinalityType DEF Starting, Start, Sole
<1>3. Cardinality(Busy) = 0
  BY <1>2
<1> QED  BY <1>1, <1>3, FS_EmptySet

AloneInv == OneEach /\ IdleIsIdle

(* What one actor's step leaves of the others: nothing, for they are idle.  *)
LEMMA OthersIdle ==
  ASSUME Sole, Inv, AloneInv, NEW a \in Actors, Act(a)
  PROVE  /\ \A b \in Actors : b # a => op[b] = Idle /\ op'[b] = Idle
         /\ op[a].pc = "idle" => Starting(a) /\ Busy = {}
         /\ op'[a].pc = "idle" => op'[a] = Idle
         /\ Busy \subseteq {a} /\ Busy' \subseteq {a}
<1>1. /\ \A b \in Actors : b # a => op'[b] = op[b]
      /\ op[a].pc = "idle" => Starting(a)
      /\ op'[a].pc = "idle" => op'[a] = Idle
  BY ActorMoves
<1>2. Starting(a) => Busy = {}
  BY StartsAlone
<1>3. \A b \in Actors : b # a => op[b].pc = "idle"
  BY <1>1, <1>2 DEF AloneInv, OneEach, Busy
<1>4. \A b \in Actors : b # a => op[b] = Idle /\ op'[b] = Idle
  BY <1>1, <1>3 DEF AloneInv, IdleIsIdle
<1> QED  BY <1>1, <1>2, <1>4, IdleTyped DEF Busy

LEMMA AloneInvHolds == ASSUME Sole PROVE Spec => []AloneInv
<1>1. Init => AloneInv
  BY IdleTyped DEF Init, AloneInv, OneEach, IdleIsIdle, Busy
<1>2. ASSUME Inv, AloneInv, [Next]_vars PROVE AloneInv'
  <2>1. CASE \E a \in Actors : Act(a)
    BY <1>2, <2>1, OthersIdle DEF AloneInv, OneEach, IdleIsIdle, Busy
  <2>2. CASE External \/ UNCHANGED vars
    BY <1>2, <2>2 DEF External, ExtRename, ExtReplace, ExtMoveFolder, Edit, vars, AloneInv, OneEach, IdleIsIdle, Busy
  <2>3. CASE CrashRestart
    BY <2>3, IdleTyped DEF CrashRestart, AloneInv, OneEach, IdleIsIdle, Busy
  <2> QED  BY <1>2, <2>1, <2>2, <2>3 DEF Next, Act, Terminated
<1> QED  BY <1>1, <1>2, InvHolds, PTL DEF Spec

-----------------------------------------------------------------------------
(* Quiet operations leave the rows true.                                    *)

LEMMA NoFaultWhenQuiet == ASSUME Inv, Quiet', Fault PROVE FALSE
<1>1. faults \in Nat
  BY DEF Inv, CountersOK
<1> QED  BY <1>1 DEF Quiet, Fault

(* What an upsert leaves: the rows of before and the one it was given.      *)
LEMMA UpsertRows ==
  ASSUME TableOK, NEW p \in Paths, NEW part \in Nat, NEW info \in Files, Upsert(p, part, info)
  PROVE  \A w \in rows' : w \in rows \/ (w.path = p /\ w.part = part /\ w.info = info)
<1>1. CASE \E v \in rows : v.path = p
  <2> DEFINE new(v) == IF v.path = p THEN [v EXCEPT !.part = part, !.info = info] ELSE v
  <2>1. rows' = {new(v) : v \in rows}
    BY <1>1 DEF Upsert
  <2>2. \A v \in rows : new(v) = v \/ (new(v).path = p /\ new(v).part = part /\ new(v).info = info)
    BY DEF TableOK, Rows
  <2> HIDE DEF new
  <2> QED  BY <2>1, <2>2
<1>2. CASE ~\E v \in rows : v.path = p
  BY <1>2 DEF Upsert
<1> QED  BY <1>1, <1>2

(* A true row leads to a file.                                              *)
LEMMA TrueRowIsThere ==
  ASSUME Inv, NEW v \in rows, disk[v.path] = v.info
  PROVE  There(v.path) /\ v \in Rows /\ v.path \in Paths
BY ConstantsAssumption DEF Inv, TableOK, Rows, There

LEMMA RenameQuiet ==
  ASSUME Inv, TemplatesApart, Quiet', NEW a \in Actors, Phase(a), Rename(a)
  PROVE  Phase(a)'
<1> USE DEF Phase, RenamePhase, RefreshPhase, RemuxPhase, DriftPhase, RefreshSteps, RemuxSteps
<1>o. op[a] \in OpType
  BY OpTyped
<1>s. UNCHANGED <<rows, disk, kinds>> => (Settled' <=> Settled)
  BY DEF Settled, AllTrue, MkvFree, HasVob, KnownBut, There
<1>p. ASSUME op'[a].pc = "plan", Settled', op'[a].todo \subseteq rows' PROVE Phase(a)'
  BY <1>p
<1>1. CASE RenameStart(a)
  <2>1. /\ op'[a] = [Idle EXCEPT !.pc = "plan", !.todo = rows] /\ op[a].pc = "idle"
        /\ UNCHANGED <<rows, disk, kinds>>
    BY <1>1, GotoMoves DEF RenameStart, Start
  <2>2. op'[a].pc = "plan" /\ op'[a].todo = rows
    BY <2>1 DEF Idle
  <2> QED  BY <1>s, <1>p, <2>1, <2>2
<1>2. CASE RenamePlan(a)
  <2>1. op[a].pc = "plan" /\ Settled /\ op[a].todo \subseteq rows /\ UNCHANGED <<rows, disk, kinds>>
    BY <1>2 DEF RenamePlan, counters
  <2>2. CASE Goto(a, Idle)
    <3>1. op'[a].pc = "idle"
      BY <2>2, GotoMoves, IdleTyped
    <3> QED  BY <1>s, <2>1, <3>1
  <2>3. ASSUME NEW v \in op[a].todo, There(v.path), Canon[v.path] # v.path,
               Goto(a, [op[a] EXCEPT !.cur = v, !.pc = "look"])
        PROVE  Phase(a)'
    <3>0. op'[a] = [op[a] EXCEPT !.cur = v, !.pc = "look"]
      BY <2>3, GotoMoves
    <3>1. op'[a].pc = "look" /\ op'[a].cur = v /\ op'[a].todo = op[a].todo
      BY <1>o, <3>0 DEF OpType
    <3> QED  BY <1>s, <2>1, <2>3, <3>1 DEF Dest
  <2>4. ASSUME NEW v \in op[a].todo, Goto(a, [op[a] EXCEPT !.todo = @ \ {v}])
        PROVE  Phase(a)'
    <3>1. op'[a].pc = "plan" /\ op'[a].todo = op[a].todo \ {v}
      BY <1>o, <2>1, <2>4, GotoMoves DEF OpType
    <3> QED  BY <1>s, <1>p, <2>1, <3>1
  <2> QED  BY <1>2, <2>2, <2>3, <2>4 DEF RenamePlan
<1>n. ASSUME Goto(a, NextRename(a)) PROVE op'[a].pc = "plan" /\ op'[a].todo = op[a].todo \ {op[a].cur}
  <2>1. op'[a] = NextRename(a)
    BY <1>n, GotoMoves
  <2> QED  BY <1>o, <2>1 DEF NextRename, OpType
<1>3. CASE RenameLook(a)
  <2>1. /\ op[a].pc = "look" /\ Settled /\ op[a].todo \subseteq rows /\ op[a].cur \in rows
        /\ Dest(a) # op[a].cur.path /\ UNCHANGED <<rows, disk, kinds>>
    BY <1>3 DEF RenameLook, counters
  <2>2. CASE Goto(a, NextRename(a))
    BY <1>s, <1>p, <1>n, <2>1, <2>2
  <2>3. CASE ~There(Dest(a)) /\ Goto(a, [op[a] EXCEPT !.pc = "apply"])
    <3>1. op'[a].pc = "apply" /\ op'[a].cur = op[a].cur /\ op'[a].todo = op[a].todo
      BY <1>o, <2>3, GotoMoves DEF OpType
    <3>2. Dest(a)' = Dest(a) /\ ~There(Dest(a))'
      BY <2>1, <2>3, <3>1 DEF Dest, There
    <3> QED  BY <1>s, <2>1, <3>1, <3>2
  <2> QED  BY <1>3, <2>2, <2>3 DEF RenameLook, Dest
<1>4. CASE RenameApply(a)
  <2> DEFINE c == op[a].cur
             p == c.path
             dest == Canon[p]
  <2>1. /\ op[a].pc = "apply" /\ ~There(dest) /\ Settled /\ op[a].todo \subseteq rows /\ c \in rows /\ dest # p
        /\ UNCHANGED <<rows, kinds>>
    BY <1>4 DEF RenameApply, counters, Dest
  <2>2. c \in Rows /\ p \in Paths /\ dest \in Paths /\ disk[p] = c.info /\ There(p)
    BY <2>1, TrueRowIsThere, ConstantsAssumption DEF Settled, AllTrue
  <2>3. CASE Goto(a, NextRename(a)) /\ UNCHANGED disk
    BY <1>s, <1>p, <1>n, <2>1, <2>3
  <2>4. CASE /\ ~There(dest)
             /\ disk' = [disk EXCEPT ![p] = Nothing, ![dest] = disk[p]]
             /\ Goto(a, [op[a] EXCEPT !.pc = "delete"])
    <3>1. op'[a].pc = "delete" /\ op'[a].cur = c /\ op'[a].todo = op[a].todo
      BY <1>o, <2>4, GotoMoves DEF OpType
    <3>2. /\ disk'[dest] = disk[p] /\ disk'[p] = Nothing
          /\ \A q \in Paths : q # p /\ q # dest => disk'[q] = disk[q]
      BY <2>1, <2>2, <2>4 DEF Inv, DiskOK
    <3>3. \A v \in rows : v \in Rows /\ v.path \in Paths /\ v.path # dest /\ (v # c => v.path # p)
      BY <2>1, <2>4, TrueRowIsThere DEF Settled, AllTrue, Inv, TableOK
    <3>4. \A v \in rows : v # c => disk'[v.path] = v.info
      BY <2>1, <3>2, <3>3 DEF Settled, AllTrue
    <3>5. MkvFree'
      <4> SUFFICES ASSUME "remux" \in kinds, HasVob, NEW q \in MkvPaths PROVE disk'[q] = Nothing
        BY <2>1 DEF MkvFree, HasVob
      <4>1. disk[q] = Nothing /\ q \in Paths
        BY <2>1, ConstantsAssumption DEF Settled, MkvFree, MkvPaths
      <4>2. dest \notin MkvPaths
        <5>1. p \notin MkvPaths
          BY <2>1, <2>2 DEF Settled, MkvFree, There
        <5> QED  BY <2>2, <5>1 DEF TemplatesApart
      <4> QED  BY <3>2, <4>1, <4>2
    <3>6. KnownBut({dest})'
      <4> SUFFICES ASSUME "drift" \in kinds, NEW q \in Paths, Dir(q) \in DriftDirs, disk'[q] # Nothing, q # dest
                   PROVE  \E v \in rows : v.path = q
        BY <2>1, <3>1 DEF KnownBut, There
      <4>1. disk[q] # Nothing
        BY <3>2
      <4> QED  BY <2>1, <4>1 DEF Settled, KnownBut, There
    <3>7. Moving(a)'
      <4>1. Dest(a)' = dest
        BY <3>1 DEF Dest
      <4> QED  BY <2>1, <2>2, <3>1, <3>2, <3>3, <3>4, <3>5, <3>6, <4>1 DEF Moving, KnownBut
    <3> QED  BY <2>1, <3>1, <3>7
  <2> QED  BY <1>4, <2>1, <2>3, <2>4 DEF RenameApply
<1>5. CASE RenameDelete(a)
  <2> DEFINE c == op[a].cur
  <2>1. /\ op[a].pc = "delete" /\ Moving(a) /\ c \in rows /\ UNCHANGED <<disk, kinds>>
        /\ rows' = {v \in rows : v.id # c.id} /\ Goto(a, [op[a] EXCEPT !.pc = "insert"])
    BY <1>5, NoFaultWhenQuiet DEF RenameDelete, counters
  <2>2. op'[a].pc = "insert" /\ op'[a].cur = c /\ op'[a].todo = op[a].todo
    BY <1>o, <2>1, GotoMoves DEF OpType
  <2>3. \A v \in rows : v \in rows' <=> v # c
    BY <2>1 DEF Inv, TableOK
  <2>4. rows' \subseteq rows
    BY <2>1
  <2>5. MkvFree'
    BY <2>1, <2>4 DEF Moving, MkvFree, HasVob
  <2>6. KnownBut({Canon[c.path]})'
    <3> SUFFICES ASSUME "drift" \in kinds, NEW q \in Paths, Dir(q) \in DriftDirs, There(q), q # Canon[c.path]
                 PROVE  \E v \in rows' : v.path = q
      BY <2>1, <2>2 DEF KnownBut, There
    <3>1. PICK v \in rows : v.path = q
      BY <2>1 DEF Moving, KnownBut, Dest
    <3>2. v # c
      BY <2>1, <3>1 DEF Moving, There
    <3> QED  BY <2>3, <3>1, <3>2
  <2>7. Moving(a)'
    <3>1. Dest(a)' = Dest(a) /\ Dest(a) = Canon[c.path]
      BY <2>2 DEF Dest
    <3>2. op[a].todo \ {c} \subseteq rows'
      BY <2>1, <2>3 DEF Moving
    <3> QED  BY <2>1, <2>2, <2>4, <2>5, <2>6, <3>1, <3>2 DEF Moving, KnownBut
  <2> QED  BY <2>1, <2>2, <2>3, <2>7
<1>6. CASE RenameInsert(a)
  <2> DEFINE c == op[a].cur
             dest == Canon[c.path]
  <2>1. /\ op[a].pc = "insert" /\ Moving(a) /\ c \notin rows /\ UNCHANGED <<disk, kinds>>
        /\ Upsert(dest, c.part, c.info) /\ Goto(a, NextRename(a))
    BY <1>6, NoFaultWhenQuiet DEF RenameInsert, counters
  <2> DEFINE row == [id |-> nextId, path |-> dest, part |-> c.part, info |-> c.info]
  <2>2. rows' = rows \cup {row}
    BY <2>1 DEF Upsert, Moving, Dest
  <2>3. row.path = dest /\ row.info = c.info /\ disk[dest] = c.info
    BY <2>1 DEF Moving, Dest
  <2>4. op[a].todo \ {c} \subseteq rows /\ c \in Rows
    BY <2>1 DEF Moving
  <2> HIDE DEF row
  <2>5. AllTrue'
    BY <2>1, <2>2, <2>3 DEF AllTrue, Moving
  <2>6. Dir(dest) # "VIDEO_TS"
    BY <2>4 DEF TemplatesApart, Rows
  <2>7. MkvFree'
    BY <2>1, <2>2, <2>3, <2>6 DEF MkvFree, HasVob, Moving
  <2>8. KnownBut({})'
    BY <2>1, <2>2, <2>3 DEF KnownBut, Moving, Dest, There
  <2> QED  BY <1>p, <1>n, <2>1, <2>2, <2>4, <2>5, <2>7, <2>8 DEF Settled
<1> QED  BY <1>1, <1>2, <1>3, <1>4, <1>5, <1>6 DEF Rename

(* Nothing is stale and every probe answers what the row says already.      *)
LEMMA RefreshQuiet ==
  ASSUME Inv, Quiet', NEW a \in Actors, Phase(a), Refresh(a)
  PROVE  Phase(a)'
<1> USE DEF Phase, RenamePhase, RefreshPhase, RemuxPhase, DriftPhase, RefreshSteps, RemuxSteps
<1>o. op[a] \in OpType
  BY OpTyped
<1>p. ASSUME op'[a].pc \in RefreshSteps \cup {"idle"}, Settled, UNCHANGED <<rows, disk, kinds>>,
             op'[a].todo \subseteq rows, op'[a].pairs = {}, op'[a].pc = "write" => op'[a].cur \in rows
      PROVE  Phase(a)'
  <2>1. Settled'
    BY <1>p DEF Settled, AllTrue, MkvFree, HasVob, KnownBut, There
  <2> QED  BY <1>p, <2>1
<1>i. Idle.pc = "idle" /\ Idle.todo = {} /\ Idle.pairs = {}
  BY DEF Idle
<1>1. CASE RefreshStart(a)
  <2> DEFINE new == [Idle EXCEPT !.pc = "folder", !.todo = rows, !.dirs = {Dir(v.path) : v \in rows}]
  <2>1. op'[a] = new /\ op[a].pc = "idle" /\ UNCHANGED <<rows, disk, kinds>>
    BY <1>1, GotoMoves DEF RefreshStart, Start
  <2>2. new.pc = "folder" /\ new.todo = rows /\ new.pairs = {}
    BY DEF Idle
  <2> HIDE DEF new
  <2> QED  BY <1>p, <2>1, <2>2
<1>2. CASE ReconcileFolder(a)
  <2> DEFINE d == CHOOSE d \in op[a].dirs : TRUE
             here == {v \in op[a].todo : Dir(v.path) = d}
             free == Unmatched(d, here)
             pairs == IF Cardinality(free) = Cardinality(Stale(here)) THEN Pairing(Stale(here), free) ELSE {}
  <2>1. /\ op[a].pc = "folder" /\ UNCHANGED <<rows, disk, kinds>>
        /\ Goto(a, IF op[a].dirs = {} THEN [Idle EXCEPT !.pc = "list"]
                   ELSE [op[a] EXCEPT !.dirs = @ \ {d}, !.pairs = pairs, !.pc = "update"])
    BY <1>2 DEF ReconcileFolder, counters
  <2>2. Settled /\ op[a].todo \subseteq rows /\ op[a].pairs = {}
    BY <2>1
  <2>3. pairs = {}
    <3>1. Stale(here) = {}
      BY <2>2, TrueRowIsThere DEF Stale, Settled, AllTrue
    <3> QED  BY <3>1 DEF Pairing
  <2> HIDE DEF d, pairs
  <2>4. op'[a].pc \in RefreshSteps \ {"write"} /\ op'[a].todo \subseteq rows /\ op'[a].pairs = {}
    <3>1. CASE Goto(a, [Idle EXCEPT !.pc = "list"])
      <4>1. op'[a] = [Idle EXCEPT !.pc = "list"]
        BY <3>1, GotoMoves
      <4> QED  BY <4>1 DEF Idle
    <3>2. CASE Goto(a, [op[a] EXCEPT !.dirs = @ \ {d}, !.pairs = pairs, !.pc = "update"])
      <4>1. op'[a] = [op[a] EXCEPT !.dirs = @ \ {d}, !.pairs = pairs, !.pc = "update"]
        BY <3>2, GotoMoves
      <4> QED  BY <1>o, <2>2, <2>3, <4>1 DEF OpType
    <3> QED  BY <2>1, <3>1, <3>2
  <2> QED  BY <1>p, <2>1, <2>2, <2>4
<1>3. CASE ReconcileUpdate(a)
  <2>1. op[a].pc = "update" /\ Settled /\ op[a].todo \subseteq rows /\ op[a].pairs = {}
    BY <1>3 DEF ReconcileUpdate
  <2>2. UNCHANGED <<rows, disk, kinds>> /\ Goto(a, [op[a] EXCEPT !.pc = "folder"])
    BY <1>3, <2>1 DEF ReconcileUpdate, counters
  <2>3. op'[a].pc = "folder" /\ op'[a].todo = op[a].todo /\ op'[a].pairs = op[a].pairs
    BY <1>o, <2>2, GotoMoves DEF OpType
  <2> QED  BY <1>p, <2>1, <2>2, <2>3
<1>4. CASE ReprobeList(a)
  <2>1. /\ op[a].pc = "list" /\ Settled /\ op[a].pairs = {} /\ UNCHANGED <<rows, disk, kinds>>
        /\ Goto(a, [op[a] EXCEPT !.todo = rows, !.pc = "probe"])
    BY <1>4 DEF ReprobeList, counters
  <2>2. op'[a] = [op[a] EXCEPT !.todo = rows, !.pc = "probe"]
    BY <2>1, GotoMoves
  <2>3. op'[a].pc = "probe" /\ op'[a].todo = rows /\ op'[a].pairs = op[a].pairs
    BY <1>o, <2>2 DEF OpType
  <2> QED  BY <1>p, <2>1, <2>3
<1>5. CASE ReprobeRead(a)
  <2>1. /\ op[a].pc = "probe" /\ Settled /\ op[a].todo \subseteq rows /\ op[a].pairs = {}
        /\ UNCHANGED <<rows, disk, kinds>>
    BY <1>5 DEF ReprobeRead, counters
  <2>2. ASSUME NEW v \in op[a].todo, Goto(a, [op[a] EXCEPT !.cur = [v EXCEPT !.info = disk[v.path]], !.pc = "write"])
        PROVE  Phase(a)'
    <3>1. v \in rows /\ v \in Rows /\ disk[v.path] = v.info
      BY <2>1, <2>2 DEF Settled, AllTrue, Inv, TableOK
    <3>2. [v EXCEPT !.info = disk[v.path]] = v
      BY <3>1 DEF Rows
    <3>3. op'[a] = [op[a] EXCEPT !.cur = v, !.pc = "write"]
      BY <2>2, <3>2, GotoMoves
    <3>4. op'[a].pc = "write" /\ op'[a].cur = v /\ op'[a].todo = op[a].todo /\ op'[a].pairs = op[a].pairs
      BY <1>o, <3>3 DEF OpType
    <3> QED  BY <1>p, <2>1, <3>1, <3>4
  <2>3. ASSUME NEW v \in op[a].todo, Goto(a, [op[a] EXCEPT !.todo = @ \ {v}])
        PROVE  Phase(a)'
    <3>1. op'[a].pc = "probe" /\ op'[a].todo \subseteq op[a].todo /\ op'[a].pairs = op[a].pairs
      BY <1>o, <2>1, <2>3, GotoMoves DEF OpType
    <3> QED  BY <1>p, <2>1, <3>1
  <2> QED  BY <1>5, <2>2, <2>3 DEF ReprobeRead
<1>6. CASE ReprobeWrite(a)
  <2> DEFINE v == op[a].cur
  <2>1. /\ op[a].pc = "write" /\ Settled /\ op[a].todo \subseteq rows /\ op[a].pairs = {} /\ v \in rows
        /\ UNCHANGED <<disk, kinds>> /\ Upsert(v.path, v.part, v.info)
        /\ Goto(a, [op[a] EXCEPT !.todo = {w \in op[a].todo : w.id # v.id}, !.cur = NoRow, !.pc = "probe"])
    BY <1>6, NoFaultWhenQuiet DEF ReprobeWrite, counters
  <2> DEFINE new(w) == IF w.path = v.path THEN [w EXCEPT !.part = v.part, !.info = v.info] ELSE w
  <2>2. rows' = {new(w) : w \in rows}
    BY <2>1 DEF Upsert
  <2>3. \A w \in rows : new(w) = w
    <3>1. \A w \in rows : w \in Rows /\ (w.path = v.path => w = v)
      BY <2>1 DEF Inv, TableOK
    <3>2. v \in Rows => [v EXCEPT !.part = v.part, !.info = v.info] = v
      BY DEF Rows
    <3> QED  BY <2>1, <3>1, <3>2
  <2>4. rows' = rows
    <3> HIDE DEF new
    <3> QED  BY <2>2, <2>3
  <2>5. op'[a] = [op[a] EXCEPT !.todo = {w \in op[a].todo : w.id # v.id}, !.cur = NoRow, !.pc = "probe"]
    BY <2>1, GotoMoves
  <2>6. op'[a].pc = "probe" /\ op'[a].todo \subseteq op[a].todo /\ op'[a].pairs = op[a].pairs
    BY <1>o, <2>5 DEF OpType
  <2> QED  BY <1>p, <2>1, <2>4, <2>6
<1>7. CASE RefreshDone(a)
  <2>1. op[a].pc = "probe" /\ Settled /\ op'[a] = Idle /\ UNCHANGED <<rows, disk, kinds>>
    BY <1>7, GotoMoves DEF RefreshDone, counters
  <2> QED  BY <1>p, <1>i, <2>1
<1> QED  BY <1>1, <1>2, <1>3, <1>4, <1>5, <1>6, <1>7 DEF Refresh

(* Titles of one request have parts, hence paths, of their own.             *)
LEMMA TitlePathsApart ==
  ASSUME Inv, TemplatesApart, NEW a \in Actors, NEW t \in op[a].titles, NEW u \in op[a].titles, t # u
  PROVE  TitlePath(a, t) # TitlePath(a, u)
<1> DEFINE S == op[a].titles
           upto(x) == {y \in S : y <= x}
<1>1. S \subseteq Titles /\ S \subseteq Nat /\ IsFiniteSet(S)
  BY OpTyped, ConstantsAssumption, FS_Subset
<1>2. \A x \in S : IsFiniteSet(upto(x)) /\ Cardinality(upto(x)) \in Nat
  BY <1>1, FS_Subset, FS_CardinalityType
<1>3. ASSUME NEW x \in S, NEW y \in S, x < y PROVE Cardinality(upto(x)) # Cardinality(upto(y))
  <2>1. upto(x) \in SUBSET upto(y) /\ y \in upto(y) /\ y \notin upto(x)
    BY <1>1, <1>3
  <2> QED  BY <1>2, <2>1, FS_Subset
<1>4. Cardinality(upto(t)) # Cardinality(upto(u))
  <2>1. t < u \/ u < t
    BY <1>1
  <2> QED  BY <1>3, <2>1
<1>5. Cardinality(S) # 1
  <2>1. ~ \E x : S = {x}
    OBVIOUS
  <2> QED  BY <1>1, <2>1, FS_Singleton
<1>6. PartOfTitle(a, t) # PartOfTitle(a, u)
  BY <1>4, <1>5 DEF PartOfTitle
<1>7. PartOfTitle(a, t) \in DOMAIN MkvPath /\ PartOfTitle(a, u) \in DOMAIN MkvPath
  <2>1. \A x \in S : PartOfTitle(a, x) \in 0 .. Cardinality(Titles)
    <3> SUFFICES ASSUME NEW x \in S PROVE PartOfTitle(a, x) \in 0 .. Cardinality(Titles)
      OBVIOUS
    <3>1. upto(x) \in SUBSET Titles
      BY <1>1
    <3>2. Cardinality(upto(x)) <= Cardinality(Titles) /\ Cardinality(Titles) \in Nat
      BY <3>1, ConstantsAssumption, FS_Subset, FS_CardinalityType
    <3> QED  BY <1>2, <3>2 DEF PartOfTitle
  <2> QED  BY <2>1, ConstantsAssumption
<1> QED  BY <1>6, <1>7 DEF TemplatesApart, TitlePath

LEMMA TitlePathTyped ==
  ASSUME Inv, NEW a \in Actors, NEW t \in op[a].titles
  PROVE  TitlePath(a, t) \in MkvPaths /\ TitlePath(a, t) \in Paths /\ Mkv[t] \in Files /\ t \in Titles
         /\ PartOfTitle(a, t) \in Nat
<1>1. t \in Titles
  BY OpTyped
<1> QED  BY <1>1, PartTyped, ConstantsAssumption DEF TitlePath, MkvPaths

(* The remux meets no occupied path, so it takes the VOBs' rows away and    *)
(* gives every title a true one.                                            *)
LEMMA RemuxQuiet ==
  ASSUME Inv, TemplatesApart, Quiet', "drift" \in kinds => "remux" \notin kinds,
         NEW a \in Actors, Phase(a), Remux(a)
  PROVE  Phase(a)'
<1> USE DEF Phase, RenamePhase, RefreshPhase, RemuxPhase, DriftPhase, RefreshSteps, RemuxSteps
<1>o. op[a] \in OpType
  BY OpTyped
<1>s. UNCHANGED <<rows, disk, kinds>> => (Settled' <=> Settled) /\ (HasVob' <=> HasVob) /\ (AllTrue' <=> AllTrue)
  BY DEF Settled, AllTrue, MkvFree, HasVob, KnownBut, There
<1>i. ASSUME op'[a] = Idle, Settled' PROVE Phase(a)'
  BY <1>i, IdleTyped
<1>t. op'[a].titles = op[a].titles => \A t : TitlePath(a, t)' = TitlePath(a, t)
  BY DEF TitlePath, PartOfTitle
<1>1. CASE \E titles \in (SUBSET Titles) \ {{}} : RemuxStart(a, titles)
  <2>1. PICK titles : RemuxStart(a, titles)
    BY <1>1
  <2>2. /\ op'[a] = [Idle EXCEPT !.pc = "preserve", !.titles = titles] /\ op[a].pc = "idle"
        /\ "remux" \in kinds /\ HasVob /\ UNCHANGED <<rows, disk, kinds>>
    BY <2>1, GotoMoves DEF RemuxStart, Start, HasVob
  <2>3. op'[a].pc = "preserve" /\ op'[a].made = {}
    BY <2>2 DEF Idle
  <2> QED  BY <1>s, <2>2, <2>3
<1>2. CASE Preserve(a)
  <2>1. op[a].pc = "preserve" /\ Settled /\ HasVob /\ "remux" \in kinds /\ UNCHANGED <<rows, kinds>>
    BY <1>2 DEF Preserve, counters
  <2>2. CASE UNCHANGED disk /\ Goto(a, Idle)
    BY <1>s, <1>i, <2>1, <2>2, GotoMoves
  <2> DEFINE vts == {p \in InDir("VIDEO_TS") : There(p)}
             kept == {p \in InDir("original") : There(p)}
  <2>3. vts # {}
    <3>1. PICK v \in rows : Dir(v.path) = "VIDEO_TS"
      BY <2>1 DEF HasVob
    <3>2. v.path \in Paths /\ There(v.path)
      BY <2>1, TrueRowIsThere DEF Settled, AllTrue
    <3> QED  BY <3>1, <3>2 DEF InDir
  <2>4. CASE /\ disk' = [p \in Paths |->
                    IF Dir(p) = "VIDEO_TS" THEN Nothing
                    ELSE IF Dir(p) = "original" THEN disk[<<"VIDEO_TS", Base(p)>>]
                    ELSE disk[p]]
             /\ Goto(a, [op[a] EXCEPT !.pc = "make"])
    <3>1. op'[a].pc = "make" /\ op'[a].made = op[a].made /\ op'[a].titles = op[a].titles
      BY <1>o, <2>4, GotoMoves DEF OpType
    <3>2. \A p \in MkvPaths : p \in Paths /\ disk[p] = Nothing
      BY <2>1, ConstantsAssumption DEF Settled, MkvFree, MkvPaths
    <3>3. \A p \in MkvPaths : disk'[p] = Nothing
      BY <2>4, <3>2 DEF TemplatesApart
    <3> QED  BY <2>1, <3>1, <3>3
  <2> QED  BY <1>2, <2>2, <2>3, <2>4 DEF Preserve
<1>3. CASE MakeMKV(a)
  <2>1. /\ op[a].pc = "make" /\ Goto(a, [op[a] EXCEPT !.pc = "move"])
        /\ UNCHANGED <<rows, disk, kinds>>
    BY <1>3, NoFaultWhenQuiet DEF MakeMKV, counters
  <2>2. op'[a].pc = "move" /\ op'[a].made = op[a].made /\ op'[a].titles = op[a].titles
    BY <1>o, <2>1, GotoMoves DEF OpType
  <2>3. \A t \in op[a].titles : disk[TitlePath(a, t)] = Nothing
    BY <2>1, TitlePathTyped
  <2> QED  BY <1>t, <2>1, <2>2, <2>3
<1>4. CASE MoveProduced(a)
  <2>1. op[a].pc = "move" /\ UNCHANGED <<rows, disk, kinds>>
    BY <1>4 DEF MoveProduced, counters
  <2>2. ASSUME NEW pc \in {"swap", "place"}, Goto(a, [op[a] EXCEPT !.pc = pc])
        PROVE  op'[a].pc = pc /\ op'[a].made = op[a].made /\ op'[a].titles = op[a].titles
    BY <1>o, <2>2, GotoMoves DEF OpType
  <2>3. CASE op[a].made = op[a].titles /\ Goto(a, [op[a] EXCEPT !.pc = "swap"])
    <3>1. op'[a].pc = "swap" /\ op'[a].made = op[a].made /\ op'[a].titles = op[a].titles
      BY <2>2, <2>3
    <3> QED  BY <1>t, <2>1, <2>3, <3>1
  <2>4. CASE Goto(a, [op[a] EXCEPT !.pc = "place"])
    <3>1. op'[a].pc = "place" /\ op'[a].made = op[a].made /\ op'[a].titles = op[a].titles
      BY <2>2, <2>4
    <3> QED  BY <1>t, <2>1, <3>1
  <2>5. \A t \in op[a].titles \ op[a].made : ~There(TitlePath(a, t))
    BY <2>1 DEF There
  <2> QED  BY <1>4, <2>3, <2>4, <2>5 DEF MoveProduced, Earliest, TitlePath
<1>5. CASE PlaceProduced(a)
  <2>1. op[a].pc = "place" /\ UNCHANGED <<rows, kinds>>
    BY <1>5 DEF PlaceProduced, counters
  <2>2. PICK t \in op[a].titles \ op[a].made :
          /\ disk' = [disk EXCEPT ![TitlePath(a, t)] = Mkv[t]]
          /\ Goto(a, [op[a] EXCEPT !.made = @ \cup {t}, !.pc = "move"])
    BY <1>5 DEF PlaceProduced, Earliest, TitlePath
  <2>3. op'[a].pc = "move" /\ op'[a].made = op[a].made \cup {t} /\ op'[a].titles = op[a].titles
    <3>1. op'[a] = [op[a] EXCEPT !.made = @ \cup {t}, !.pc = "move"]
      BY <2>2, GotoMoves
    <3> QED  BY <1>o, <3>1 DEF OpType
  <2>4. disk'[TitlePath(a, t)] = Mkv[t]
    BY <2>2, TitlePathTyped DEF Inv, DiskOK
  <2>5. \A u \in op[a].titles : u # t => disk'[TitlePath(a, u)] = disk[TitlePath(a, u)]
    BY <2>2, TitlePathTyped, TitlePathsApart DEF Inv, DiskOK
  <2> QED  BY <1>t, <2>1, <2>2, <2>3, <2>4, <2>5
<1>6. CASE SwapDelete(a)
  <2>1. /\ op[a].pc = "swap" /\ rows' = {} /\ Goto(a, [op[a] EXCEPT !.pc = "upsert"])
        /\ UNCHANGED <<disk, kinds>>
    BY <1>6, NoFaultWhenQuiet DEF SwapDelete, counters
  <2>2. op'[a].pc = "upsert" /\ op'[a].made = op[a].made /\ op'[a].titles = op[a].titles
    BY <1>o, <2>1, GotoMoves DEF OpType
  <2> QED  BY <1>t, <2>1, <2>2 DEF AllTrue, HasVob
<1>7. CASE SwapUpsert(a)
  <2>1. op[a].pc = "upsert" /\ AllTrue /\ ~HasVob /\ "drift" \notin kinds /\ UNCHANGED <<disk, kinds>>
    BY <1>7 DEF SwapUpsert, counters
  <2>2. CASE Goto(a, Idle) /\ UNCHANGED rows
    <3>1. Settled'
      BY <1>s, <2>1, <2>2 DEF Settled, MkvFree, KnownBut
    <3> QED  BY <1>i, <2>2, <3>1, GotoMoves
  <2>3. ASSUME NEW t \in op[a].made, Upsert(TitlePath(a, t), PartOfTitle(a, t), Mkv[t]),
               Goto(a, [op[a] EXCEPT !.made = @ \ {t}])
        PROVE  Phase(a)'
    <3>1. op'[a].pc = "upsert" /\ op'[a].made = op[a].made \ {t} /\ op'[a].titles = op[a].titles
      BY <1>o, <2>1, <2>3, GotoMoves DEF OpType
    <3>2. /\ TitlePath(a, t) \in MkvPaths /\ disk[TitlePath(a, t)] = Mkv[t]
          /\ Dir(TitlePath(a, t)) # "VIDEO_TS"
      BY <2>1, <2>3, TitlePathTyped DEF TemplatesApart
    <3>3. \A w \in rows' : \/ w \in rows
                           \/ w.path = TitlePath(a, t) /\ w.info = Mkv[t]
      <4>1. TitlePath(a, t) \in Paths /\ PartOfTitle(a, t) \in Nat /\ Mkv[t] \in Files
        BY <2>1, <2>3, TitlePathTyped
      <4> QED  BY <2>3, <4>1, UpsertRows DEF Inv
    <3>4. AllTrue' /\ ~HasVob'
      BY <2>1, <3>2, <3>3 DEF AllTrue, HasVob
    <3> QED  BY <1>t, <2>1, <3>1, <3>4
  <2> QED  BY <1>7, <2>2, <2>3, NoFaultWhenQuiet DEF SwapUpsert, Earliest, TitlePath
<1> QED  BY <1>1, <1>2, <1>3, <1>4, <1>6, <1>7, <1>5 DEF Remux

(* Every file the scan may meet under a row's name has a row, so no row     *)
(* may follow another to it.                                                *)
LEMMA DriftQuiet ==
  ASSUME Inv, Quiet', NEW a \in Actors, Phase(a), Drift(a)
  PROVE  Phase(a)'
<1> USE DEF Phase, RenamePhase, RefreshPhase, RemuxPhase, DriftPhase, RefreshSteps, RemuxSteps
<1>o. op[a] \in OpType
  BY OpTyped
<1>s. UNCHANGED <<rows, disk, kinds>> => (Settled' <=> Settled)
  BY DEF Settled, AllTrue, MkvFree, HasVob, KnownBut, There
<1>1. CASE \E d \in DriftDirs : DriftStart(a, d)
  <2>1. PICK d \in DriftDirs : DriftStart(a, d)
    BY <1>1
  <2>2. /\ op'[a] = [Idle EXCEPT !.pc = "walk", !.dirs = {d}, !.todo = rows] /\ op[a].pc = "idle"
        /\ "drift" \in kinds /\ UNCHANGED <<rows, disk, kinds>>
    BY <2>1, GotoMoves DEF DriftStart, Start
  <2>3. op'[a].pc = "walk" /\ op'[a].dirs = {d} /\ op'[a].todo = rows
    BY <2>2 DEF Idle
  <2> QED  BY <1>s, <2>1, <2>2, <2>3
<1>2. CASE DriftUpdate(a)
  <2> DEFINE moved == {p \in Paths : /\ Dir(p) \in op[a].dirs /\ There(p)
                                     /\ \E v \in Namesake(a, p) : v.path # p}
             p == CHOOSE p \in moved : TRUE
  <2>1. /\ op[a].pc = "walk" /\ Settled /\ op[a].todo \subseteq rows /\ op[a].dirs \subseteq DriftDirs
        /\ "drift" \in kinds /\ UNCHANGED <<disk, kinds>>
    BY <1>2 DEF DriftUpdate, counters
  <2>2. CASE Goto(a, Idle) /\ UNCHANGED rows
    <3>1. op'[a] = Idle
      BY <2>2, GotoMoves
    <3> QED  BY <1>s, <2>1, <2>2, <3>1, IdleTyped
  <2>3. ASSUME moved # {}, NEW v \in Namesake(a, p),
               (CanRepath(v.id, p) /\ Repath(v.id, p)) \/ UNCHANGED rows
        PROVE  rows' = rows
    <3>1. p \in moved
      BY <2>3
    <3>2. v \in rows
      BY <2>1 DEF Namesake
    <3> HIDE DEF p
    <3>3. PICK w \in rows : w.path = p
      BY <2>1, <3>1 DEF Settled, KnownBut
    <3>4. CASE CanRepath(v.id, p) /\ Repath(v.id, p)
      <4>1. w.id = v.id
        BY <3>3, <3>4 DEF CanRepath
      <4>2. v = w
        BY <3>2, <3>3, <4>1 DEF Inv, TableOK
      <4> DEFINE new(x) == IF x.id = v.id THEN [x EXCEPT !.path = p] ELSE x
      <4>3. rows' = {new(x) : x \in rows}
        BY <3>4 DEF Repath
      <4>4. \A x \in rows : new(x) = x
        <5>1. \A x \in rows : x \in Rows /\ (x.id = v.id => x = v)
          BY <3>2 DEF Inv, TableOK
        <5>2. v \in Rows => [v EXCEPT !.path = p] = v
          BY <3>3, <4>2 DEF Rows
        <5> QED  BY <3>2, <5>1, <5>2
      <4> HIDE DEF new
      <4> QED  BY <4>3, <4>4
    <3> QED  BY <2>3, <3>4
  <2>4. CASE Goto(a, [op[a] EXCEPT !.todo = @ \ Namesake(a, p)]) /\ UNCHANGED rows
    <3> HIDE DEF p
    <3>1. op'[a].pc = "walk" /\ op'[a].dirs = op[a].dirs /\ op'[a].todo \subseteq op[a].todo
      BY <1>o, <2>1, <2>4, GotoMoves DEF OpType
    <3> QED  BY <1>s, <2>1, <2>4, <3>1
  <2> HIDE DEF p, moved
  <2>5. \/ Goto(a, Idle) /\ UNCHANGED rows
        \/ /\ moved # {} /\ Goto(a, [op[a] EXCEPT !.todo = @ \ Namesake(a, p)])
           /\ \E v \in Namesake(a, p) : (CanRepath(v.id, p) /\ Repath(v.id, p)) \/ UNCHANGED rows
    BY <1>2 DEF DriftUpdate, p, moved
  <2> QED  BY <2>2, <2>3, <2>4, <2>5
<1> QED  BY <1>1, <1>2 DEF Drift

LEMMA QuietInvInductive ==
  ASSUME Sole, TemplatesApart, Inv, AloneInv, QuietInv, [Next]_vars
  PROVE  QuietInv'
<1>1. ASSUME NEW a \in Actors, Act(a) PROVE QuietInv'
  <2>0. kinds' = kinds
    BY <1>1 DEF Act, Rename, RenameStart, RenamePlan, RenameLook, RenameApply, RenameDelete, RenameInsert, Refresh,
                RefreshStart, ReconcileFolder, ReconcileUpdate, ReprobeList, ReprobeRead, ReprobeWrite,
                RefreshDone, Remux, RemuxStart, Preserve, MakeMKV, MoveProduced, PlaceProduced, SwapDelete, SwapUpsert,
                Drift, DriftStart, DriftUpdate, Start, counters
  <2> SUFFICES ASSUME Quiet' PROVE (Busy = {} => Settled)' /\ \A b \in Busy' : Phase(b)'
    BY <2>0 DEF QuietInv
  <2>1. Quiet
    <3>1. (UNCHANGED <<faults, edits>>) \/ (Fault /\ UNCHANGED edits)
      BY <1>1 DEF Act, Rename, RenameStart, RenamePlan, RenameLook, RenameApply, RenameDelete, RenameInsert, Refresh,
                  RefreshStart, ReconcileFolder, ReconcileUpdate, ReprobeList, ReprobeRead, ReprobeWrite,
                  RefreshDone, Remux, RemuxStart, Preserve, MakeMKV, MoveProduced, PlaceProduced, SwapDelete, SwapUpsert,
                  Drift, DriftStart, DriftUpdate, Start, NoFault, counters
    <3> QED  BY <3>1, NoFaultWhenQuiet DEF Quiet
  <2>2. Phase(a)
    <3>1. CASE op[a].pc = "idle"
      <4>1. Settled
        BY <1>1, <2>1, <3>1, OthersIdle DEF QuietInv
      <4> QED  BY <3>1, <4>1 DEF Phase, RenamePhase, RefreshPhase, RemuxPhase, RefreshSteps, RemuxSteps, DriftPhase
    <3>2. CASE op[a].pc # "idle"
      BY <2>1, <3>2 DEF QuietInv, Busy
    <3> QED  BY <3>1, <3>2
  <2>3. Phase(a)'
    BY <1>1, <2>2, RenameQuiet, RefreshQuiet, RemuxQuiet, DriftQuiet DEF Act, QuietInv
  <2>4. Busy' \subseteq {a}
    BY <1>1, OthersIdle
  <2>5. Busy' = {} => Settled'
    BY <2>3 DEF Phase, Busy
  <2> QED  BY <2>3, <2>4, <2>5
<1>2. CASE External
  <2>1. ~Quiet' /\ kinds' = kinds
    <3>1. edits \in Nat /\ edits' = edits + 1 /\ kinds' = kinds
      BY <1>2 DEF External, ExtRename, ExtReplace, ExtMoveFolder, Edit, Inv, CountersOK
    <3> QED  BY <3>1 DEF Quiet
  <2> QED  BY <2>1 DEF QuietInv
<1>3. CASE CrashRestart
  <2>1. ~Quiet' /\ kinds' = kinds
    BY <1>3, NoFaultWhenQuiet DEF CrashRestart, counters
  <2> QED  BY <2>1 DEF QuietInv
<1>4. CASE UNCHANGED vars
  <2>1. UNCHANGED <<rows, disk, op, kinds, faults, edits>>
    BY <1>4 DEF vars
  <2>2. (Quiet' <=> Quiet) /\ Busy' = Busy
    BY <2>1 DEF Quiet, Busy
  <2>3. Settled' <=> Settled
    BY <2>1 DEF Settled, AllTrue, MkvFree, HasVob, KnownBut, There
  <2>4. ASSUME NEW a \in Actors, Phase(a) PROVE Phase(a)'
    <3>1. RenamePhase(a)'
      BY <2>1, <2>3, <2>4 DEF Phase, RenamePhase, Moving, KnownBut, AllTrue, MkvFree, HasVob, Dest, There
    <3>2. RefreshPhase(a)' /\ DriftPhase(a)'
      BY <2>1, <2>3, <2>4 DEF Phase, RefreshPhase, DriftPhase
    <3>3. RemuxPhase(a)'
      BY <2>1, <2>3, <2>4 DEF Phase, RemuxPhase, AllTrue, HasVob, TitlePath, PartOfTitle
    <3> QED  BY <2>1, <2>3, <2>4, <3>1, <3>2, <3>3 DEF Phase
  <2>5. Busy \subseteq Actors
    BY DEF Busy
  <2>6. ASSUME Quiet' PROVE (Busy' = {} => Settled') /\ \A a \in Busy' : Phase(a)'
    <3>1. (Busy = {} => Settled) /\ \A a \in Busy : a \in Actors /\ Phase(a)
      BY <2>2, <2>5, <2>6 DEF QuietInv
    <3>2. \A a \in Busy : Phase(a)'
      BY <2>4, <3>1
    <3> QED  BY <2>2, <2>3, <3>1, <3>2
  <2> QED  BY <2>1, <2>6 DEF QuietInv
<1> QED  BY <1>1, <1>2, <1>3, <1>4 DEF Next, Act, Terminated

(* Any sequence of renames, refreshes, remuxes and scans that do not        *)
(* overlap and meet no fault leaves every row on the file it describes: the *)
(* moves, deletes and upserts of each add up, in any order of its loop.     *)
THEOREM RowsTrueWhenQuietHolds ==
  ASSUME Sole, TemplatesApart, \A s \in Starts : TrueStart(s)
  PROVE  Spec => []RowsTrueWhenQuiet
<1>1. ASSUME Init PROVE QuietInv
  <2>1. PICK s \in Starts : disk = s.disk /\ rows = s.rows /\ kinds = s.kinds
    BY <1>1 DEF Init
  <2>2. TrueStart(s)
    BY <2>1
  <2>3. Settled /\ ("drift" \in kinds => "remux" \notin kinds)
    BY <2>1, <2>2 DEF TrueStart, Settled, AllTrue, MkvFree, HasVob, KnownBut, There
  <2>4. Busy = {}
    BY <1>1, IdleTyped DEF Init, Busy
  <2> QED  BY <2>3, <2>4 DEF QuietInv
<1>2. Inv /\ AloneInv /\ QuietInv /\ [Next]_vars => QuietInv'
  BY QuietInvInductive
<1>3. QuietInv => RowsTrueWhenQuiet
  BY DEF QuietInv, Quiet, Settled, AllTrue, RowsTrueWhenQuiet
<1>4. Spec => []AloneInv
  BY AloneInvHolds
<1> QED  BY <1>1, <1>2, <1>3, <1>4, InvHolds, PTL DEF Spec

-----------------------------------------------------------------------------
(* No remux is half swapped.                                                *)

LEMMA RepathRows ==
  ASSUME TableOK, NEW id, NEW p \in Paths, Repath(id, p)
  PROVE  \A w \in rows' : w \in rows \/ (w.path = p /\ w.id = id)
<1> DEFINE new(v) == IF v.id = id THEN [v EXCEPT !.path = p] ELSE v
<1>1. rows' = {new(v) : v \in rows}
  BY DEF Repath
<1>2. \A v \in rows : new(v) = v \/ (new(v).path = p /\ new(v).id = id)
  BY DEF TableOK, Rows
<1> HIDE DEF new
<1> QED  BY <1>1, <1>2

(* Nothing brings a VOB back: what an operation knows comes from the table, *)
(* the folders it visits are those of the rows, and neither the templates   *)
(* nor a scan name the VIDEO_TS folder.                                     *)
LEMMA VobsStayGone ==
  ASSUME Inv, TemplatesApart, NEW a \in Actors, Act(a), VobsGone(a)
  PROVE  VobsGone(a)'
<1>o. op[a] \in OpType /\ TableOK
  BY OpTyped DEF Inv
<1>v. /\ \A v \in rows : v \in Rows /\ Dir(v.path) # "VIDEO_TS"
      /\ \A v \in op[a].todo : v \in Rows /\ Dir(v.path) # "VIDEO_TS"
      /\ op[a].cur # NoRow => op[a].cur \in Rows /\ Dir(op[a].cur.path) # "VIDEO_TS"
      /\ \A pr \in op[a].pairs : Dir(pr.path) # "VIDEO_TS"
      /\ "VIDEO_TS" \notin op[a].dirs
  BY <1>o DEF VobsGone, Known, OpType, TableOK
<1>p. ASSUME NEW new, Goto(a, new),
             \A v \in rows' : v \in rows \/ Dir(v.path) # "VIDEO_TS",
             \A v \in new.todo : v \in rows \cup op[a].todo,
             new.cur # NoRow => new.cur \in op[a].todo \/ new.cur = op[a].cur \/ Dir(new.cur.path) # "VIDEO_TS",
             \A pr \in new.pairs : pr \in op[a].pairs \/ Dir(pr.path) # "VIDEO_TS",
             "VIDEO_TS" \in new.dirs => "VIDEO_TS" \in op[a].dirs
      PROVE  VobsGone(a)'
  <2>1. op'[a] = new
    BY <1>p, GotoMoves
  <2> QED  BY <1>v, <1>p, <2>1 DEF VobsGone, Known
<1>i. Idle.todo = {} /\ Idle.pairs = {} /\ Idle.dirs = {} /\ Idle.cur = NoRow
  BY DEF Idle
<1>k. ASSUME NEW new, Goto(a, new), \A v \in rows' : v \in rows \/ Dir(v.path) # "VIDEO_TS",
             new.todo \subseteq op[a].todo, new.cur \in {op[a].cur, NoRow}, new.pairs \subseteq op[a].pairs,
             new.dirs \subseteq op[a].dirs
      PROVE  VobsGone(a)'
  BY <1>p, <1>k
<1>j. ASSUME Goto(a, Idle), \A v \in rows' : v \in rows \/ Dir(v.path) # "VIDEO_TS" PROVE VobsGone(a)'
  BY <1>i, <1>j, <1>k
<1>1. CASE Rename(a)
  <2>n. /\ NextRename(a).todo \subseteq op[a].todo /\ NextRename(a).cur = NoRow
        /\ NextRename(a).pairs = op[a].pairs /\ NextRename(a).dirs = op[a].dirs
    BY <1>o DEF NextRename, OpType
  <2>1. CASE RenameStart(a)
    <3> DEFINE new == [Idle EXCEPT !.pc = "plan", !.todo = rows]
    <3>1. Goto(a, new) /\ UNCHANGED rows
      BY <2>1 DEF RenameStart, Start
    <3>2. new.todo = rows /\ new.pairs = {} /\ new.dirs = {} /\ new.cur = NoRow
      BY DEF Idle
    <3> HIDE DEF new
    <3> QED  BY <1>p, <3>1, <3>2
  <2>2. CASE RenamePlan(a)
    <3>1. CASE Goto(a, Idle)
      BY <1>j, <2>2, <3>1 DEF RenamePlan
    <3>2. ASSUME NEW v \in op[a].todo, Goto(a, [op[a] EXCEPT !.cur = v, !.pc = "look"]) PROVE VobsGone(a)'
      <4> DEFINE new == [op[a] EXCEPT !.cur = v, !.pc = "look"]
      <4>1. new.todo = op[a].todo /\ new.pairs = op[a].pairs /\ new.dirs = op[a].dirs /\ new.cur = v
        BY <1>o DEF OpType
      <4>2. Goto(a, new) /\ UNCHANGED rows
        BY <2>2, <3>2 DEF RenamePlan
      <4> HIDE DEF new
      <4> QED  BY <1>p, <3>2, <4>1, <4>2
    <3>3. ASSUME NEW v \in op[a].todo, Goto(a, [op[a] EXCEPT !.todo = @ \ {v}]) PROVE VobsGone(a)'
      <4> DEFINE new == [op[a] EXCEPT !.todo = @ \ {v}]
      <4>1. new.todo \subseteq op[a].todo /\ new.pairs = op[a].pairs /\ new.dirs = op[a].dirs /\ new.cur = op[a].cur
        BY <1>o DEF OpType
      <4>2. Goto(a, new) /\ UNCHANGED rows
        BY <2>2, <3>3 DEF RenamePlan
      <4> HIDE DEF new
      <4> QED  BY <1>k, <4>1, <4>2
    <3> QED  BY <2>2, <3>1, <3>2, <3>3 DEF RenamePlan
  <2>3. CASE RenameLook(a)
    <3> DEFINE new == [op[a] EXCEPT !.pc = "apply"]
    <3>1. new.todo = op[a].todo /\ new.pairs = op[a].pairs /\ new.dirs = op[a].dirs /\ new.cur = op[a].cur
      BY <1>o DEF OpType
    <3>2. UNCHANGED rows /\ (Goto(a, NextRename(a)) \/ Goto(a, new))
      BY <2>3 DEF RenameLook
    <3> HIDE DEF new
    <3> QED  BY <1>k, <2>n, <3>1, <3>2
  <2>4. CASE RenameApply(a)
    <3> DEFINE new == [op[a] EXCEPT !.pc = "delete"]
    <3>1. new.todo = op[a].todo /\ new.pairs = op[a].pairs /\ new.dirs = op[a].dirs /\ new.cur = op[a].cur
      BY <1>o DEF OpType
    <3>2. UNCHANGED rows /\ (Goto(a, NextRename(a)) \/ Goto(a, new))
      BY <2>4 DEF RenameApply
    <3> HIDE DEF new
    <3> QED  BY <1>k, <2>n, <3>1, <3>2
  <2>5. CASE RenameDelete(a)
    <3> DEFINE new == [op[a] EXCEPT !.pc = "insert"]
    <3>1. new.todo = op[a].todo /\ new.pairs = op[a].pairs /\ new.dirs = op[a].dirs /\ new.cur = op[a].cur
      BY <1>o DEF OpType
    <3>2. rows' \subseteq rows /\ (Goto(a, NextRename(a)) \/ Goto(a, new))
      BY <2>5 DEF RenameDelete
    <3> HIDE DEF new
    <3> QED  BY <1>k, <2>n, <3>1, <3>2
  <2>6. CASE RenameInsert(a)
    <3> DEFINE v == op[a].cur
    <3>1. v \in Rows
      BY <1>o, <2>6 DEF RenameInsert, Inv, OpsOK, HasRow, OpType
    <3>2. Canon[v.path] \in Paths /\ Dir(Canon[v.path]) # "VIDEO_TS" /\ v.part \in Nat /\ v.info \in Files
      BY <3>1, ConstantsAssumption DEF Rows, TemplatesApart
    <3>3. \A w \in rows' : w \in rows \/ w.path = Canon[v.path]
      BY <1>o, <2>6, <3>2, UpsertRows DEF RenameInsert
    <3>4. Goto(a, NextRename(a))
      BY <2>6 DEF RenameInsert
    <3> QED  BY <1>k, <2>n, <3>2, <3>3, <3>4
  <2> QED  BY <1>1, <2>1, <2>2, <2>3, <2>4, <2>5, <2>6 DEF Rename
<1>2. CASE Refresh(a)
  <2>1. CASE RefreshStart(a)
    <3> DEFINE new == [Idle EXCEPT !.pc = "folder", !.todo = rows, !.dirs = {Dir(v.path) : v \in rows}]
    <3>1. Goto(a, new) /\ UNCHANGED rows
      BY <2>1 DEF RefreshStart, Start
    <3>2. new.todo = rows /\ new.pairs = {} /\ new.dirs = {Dir(v.path) : v \in rows} /\ new.cur = NoRow
      BY DEF Idle
    <3> HIDE DEF new
    <3> QED  BY <1>p, <1>v, <3>1, <3>2
  <2>2. CASE ReconcileFolder(a)
    <3> DEFINE d == CHOOSE d \in op[a].dirs : TRUE
               here == {v \in op[a].todo : Dir(v.path) = d}
               free == Unmatched(d, here)
               pairs == IF Cardinality(free) = Cardinality(Stale(here)) THEN Pairing(Stale(here), free) ELSE {}
               new == [op[a] EXCEPT !.dirs = @ \ {d}, !.pairs = pairs, !.pc = "update"]
               listing == [Idle EXCEPT !.pc = "list"]
    <3>1. UNCHANGED rows /\ Goto(a, IF op[a].dirs = {} THEN listing ELSE new)
      BY <2>2 DEF ReconcileFolder
    <3>2. listing.todo = {} /\ listing.pairs = {} /\ listing.dirs = {} /\ listing.cur = NoRow
      BY DEF Idle
    <3>3. \A pr \in pairs : Dir(pr.path) = d
      BY DEF Pairing, Unmatched, InDir
    <3>4. op[a].dirs # {} => d # "VIDEO_TS"
      BY <1>v
    <3> HIDE DEF d, pairs
    <3>5. new.todo = op[a].todo /\ new.pairs = pairs /\ new.dirs \subseteq op[a].dirs /\ new.cur = op[a].cur
      BY <1>o DEF OpType
    <3> HIDE DEF new, listing
    <3> QED  BY <1>p, <1>k, <3>1, <3>2, <3>3, <3>4, <3>5
  <2>3. CASE ReconcileUpdate(a)
    <3> DEFINE folder == [op[a] EXCEPT !.pc = "folder"]
               next(pr) == [op[a] EXCEPT !.pairs = @ \ {pr}]
               listing == [Idle EXCEPT !.pc = "list"]
    <3>1. listing.todo = {} /\ listing.pairs = {} /\ listing.dirs = {} /\ listing.cur = NoRow
      BY DEF Idle
    <3>2. folder.todo = op[a].todo /\ folder.pairs = op[a].pairs /\ folder.dirs = op[a].dirs /\ folder.cur = op[a].cur
      BY <1>o DEF OpType
    <3>3. \A pr : /\ next(pr).todo = op[a].todo /\ next(pr).pairs \subseteq op[a].pairs
                  /\ next(pr).dirs = op[a].dirs /\ next(pr).cur = op[a].cur
      BY <1>o DEF OpType
    <3> HIDE DEF folder, next, listing
    <3>4. \/ UNCHANGED rows /\ (Goto(a, folder) \/ Goto(a, listing))
          \/ \E pr \in op[a].pairs : Repath(pr.id, pr.path) /\ Goto(a, next(pr))
      BY <2>3 DEF ReconcileUpdate, folder, next, listing
    <3>5. CASE UNCHANGED rows /\ (Goto(a, folder) \/ Goto(a, listing))
      BY <1>k, <3>1, <3>2, <3>5
    <3>6. ASSUME NEW pr \in op[a].pairs, Repath(pr.id, pr.path), Goto(a, next(pr)) PROVE VobsGone(a)'
      <4>1. pr.path \in Paths
        BY <1>o DEF OpType, Pairs
      <4>2. \A w \in rows' : w \in rows \/ w.path = pr.path
        BY <1>o, <3>6, <4>1, RepathRows
      <4> QED  BY <1>k, <1>v, <3>3, <3>6, <4>2
    <3> QED  BY <3>4, <3>5, <3>6
  <2>4. CASE ReprobeList(a)
    <3> DEFINE new == [op[a] EXCEPT !.todo = rows, !.pc = "probe"]
    <3>1. new.todo = rows /\ new.pairs = op[a].pairs /\ new.dirs = op[a].dirs /\ new.cur = op[a].cur
      BY <1>o DEF OpType
    <3>2. Goto(a, new) /\ UNCHANGED rows
      BY <2>4 DEF ReprobeList
    <3> HIDE DEF new
    <3> QED  BY <1>p, <3>1, <3>2
  <2>5. CASE ReprobeRead(a)
    <3> DEFINE probed(v) == [v EXCEPT !.info = disk[v.path]]
               new(v) == [op[a] EXCEPT !.cur = probed(v), !.pc = "write"]
               skip(v) == [op[a] EXCEPT !.todo = @ \ {v}]
    <3>1. PICK v \in op[a].todo : Goto(a, IF There(v.path) THEN new(v) ELSE skip(v))
      BY <2>5 DEF ReprobeRead
    <3>2. UNCHANGED rows
      BY <2>5 DEF ReprobeRead
    <3>3. probed(v).path = v.path
      BY <1>v DEF Rows
    <3>4. new(v).todo = op[a].todo /\ new(v).pairs = op[a].pairs /\ new(v).dirs = op[a].dirs /\ new(v).cur = probed(v)
      BY <1>o DEF OpType
    <3>5. skip(v).todo \subseteq op[a].todo /\ skip(v).pairs = op[a].pairs /\ skip(v).dirs = op[a].dirs /\ skip(v).cur = op[a].cur
      BY <1>o DEF OpType
    <3> HIDE DEF probed, new, skip
    <3> QED  BY <1>p, <1>k, <1>v, <3>1, <3>2, <3>3, <3>4, <3>5
  <2>6. CASE ReprobeWrite(a)
    <3> DEFINE v == op[a].cur
               new == [op[a] EXCEPT !.todo = {w \in op[a].todo : w.id # v.id}, !.cur = NoRow, !.pc = "probe"]
    <3>1. v \in Rows /\ v # NoRow
      BY <1>o, <2>6 DEF ReprobeWrite, Inv, OpsOK, HasRow, OpType
    <3>2. \A w \in rows' : w \in rows \/ w.path = v.path
      BY <1>o, <2>6, <3>1, UpsertRows DEF ReprobeWrite, Rows
    <3>3. new.todo \subseteq op[a].todo /\ new.pairs = op[a].pairs /\ new.dirs = op[a].dirs /\ new.cur = NoRow
      BY <1>o DEF OpType
    <3>4. Goto(a, new)
      BY <2>6 DEF ReprobeWrite
    <3> HIDE DEF new
    <3> QED  BY <1>k, <1>v, <3>1, <3>2, <3>3, <3>4
  <2>7. CASE RefreshDone(a)
    BY <1>j, <2>7 DEF RefreshDone
  <2> QED  BY <1>2, <2>1, <2>2, <2>3, <2>4, <2>5, <2>6, <2>7 DEF Refresh
<1>3. CASE Remux(a)
  <2> DEFINE at(pc) == [op[a] EXCEPT !.pc = pc]
             with(t) == [op[a] EXCEPT !.made = @ \cup {t}, !.pc = "move"]
             less(t) == [op[a] EXCEPT !.made = @ \ {t}]
  <2>1. \A pc : at(pc).todo = op[a].todo /\ at(pc).pairs = op[a].pairs /\ at(pc).dirs = op[a].dirs /\ at(pc).cur = op[a].cur
    BY <1>o DEF OpType
  <2>2. \A t : with(t).todo = op[a].todo /\ with(t).pairs = op[a].pairs /\ with(t).dirs = op[a].dirs /\ with(t).cur = op[a].cur
    BY <1>o DEF OpType
  <2>3. \A t : less(t).todo = op[a].todo /\ less(t).pairs = op[a].pairs /\ less(t).dirs = op[a].dirs /\ less(t).cur = op[a].cur
    BY <1>o DEF OpType
  <2> HIDE DEF at, with, less
  <2>4. ~\E titles : RemuxStart(a, titles)
    BY <1>v DEF RemuxStart
  <2>5. CASE Preserve(a) \/ MakeMKV(a) \/ MoveProduced(a) \/ PlaceProduced(a) \/ SwapDelete(a)
    <3>1. rows' \subseteq rows
      BY <2>5 DEF Preserve, MakeMKV, MoveProduced, PlaceProduced, SwapDelete
    <3>2. Goto(a, Idle) \/ (\E pc : Goto(a, at(pc))) \/ (\E t : Goto(a, with(t)))
      BY <2>5 DEF Preserve, MakeMKV, MoveProduced, PlaceProduced, SwapDelete, at, with
    <3> QED  BY <1>j, <1>k, <2>1, <2>2, <3>1, <3>2
  <2>6. CASE SwapUpsert(a)
    <3>1. CASE Goto(a, Idle) /\ UNCHANGED rows
      BY <1>j, <3>1
    <3>2. ASSUME NEW t \in op[a].made, Upsert(TitlePath(a, t), PartOfTitle(a, t), Mkv[t]), Goto(a, less(t))
          PROVE  VobsGone(a)'
      <4>1. /\ TitlePath(a, t) \in Paths /\ PartOfTitle(a, t) \in Nat /\ Mkv[t] \in Files
            /\ Dir(TitlePath(a, t)) # "VIDEO_TS"
        <5>1. t \in Titles
          BY <1>o DEF OpType
        <5>2. PartOfTitle(a, t) \in 0 .. Cardinality(Titles)
          BY <5>1, PartTyped
        <5> QED  BY <5>1, <5>2, ConstantsAssumption DEF TitlePath, TemplatesApart, MkvPaths
      <4>2. \A w \in rows' : w \in rows \/ w.path = TitlePath(a, t)
        BY <1>o, <3>2, <4>1, UpsertRows
      <4> QED  BY <1>k, <2>3, <3>2, <4>1, <4>2
    <3> QED  BY <2>6, <3>1, <3>2 DEF SwapUpsert, Earliest, TitlePath, less
  <2> QED  BY <1>3, <2>4, <2>5, <2>6 DEF Remux
<1>4. CASE Drift(a)
  <2>1. CASE \E d \in DriftDirs : DriftStart(a, d)
    <3>1. PICK d \in DriftDirs : DriftStart(a, d)
      BY <2>1
    <3> DEFINE new == [Idle EXCEPT !.pc = "walk", !.dirs = {d}, !.todo = rows]
    <3>2. Goto(a, new) /\ UNCHANGED rows
      BY <3>1 DEF DriftStart, Start
    <3>3. new.todo = rows /\ new.pairs = {} /\ new.dirs = {d} /\ new.cur = NoRow
      BY DEF Idle
    <3>4. d # "VIDEO_TS"
      BY DEF TemplatesApart
    <3> HIDE DEF new
    <3> QED  BY <1>p, <3>2, <3>3, <3>4
  <2>2. CASE DriftUpdate(a)
    <3> DEFINE moved == {p \in Paths : /\ Dir(p) \in op[a].dirs /\ There(p)
                                       /\ \E v \in Namesake(a, p) : v.path # p}
               p == CHOOSE p \in moved : TRUE
               new == [op[a] EXCEPT !.todo = @ \ Namesake(a, p)]
    <3>1. moved # {} => p \in Paths /\ Dir(p) \in op[a].dirs
      OBVIOUS
    <3> HIDE DEF p, moved
    <3>2. new.todo \subseteq op[a].todo /\ new.pairs = op[a].pairs /\ new.dirs = op[a].dirs /\ new.cur = op[a].cur
      BY <1>o DEF OpType
    <3> HIDE DEF new
    <3>3. \/ Goto(a, Idle) /\ UNCHANGED rows
          \/ moved # {} /\ Goto(a, new) /\ (UNCHANGED rows \/ \E v : Repath(v.id, p))
      BY <2>2 DEF DriftUpdate, p, moved, new
    <3>4. moved # {} /\ (\E v : Repath(v.id, p)) => \A w \in rows' : w \in rows \/ w.path = p
      BY <1>o, <3>1, RepathRows
    <3> QED  BY <1>j, <1>k, <1>v, <3>1, <3>2, <3>3, <3>4
  <2> QED  BY <1>4, <2>1, <2>2 DEF Drift
<1> QED  BY <1>1, <1>2, <1>3, <1>4 DEF Act

(* While no title is known, only VOBs move, are stale or are paired; a      *)
(* rename takes them to canonical files.  The remux itself ends the phase   *)
(* by deleting every row.                                                   *)
LEMMA TitlesStayUnknown ==
  ASSUME Inv, TemplatesApart, NEW a \in Actors, Act(a), TitlesUnknown(a), RemuxOnly(a)
  PROVE  TitlesUnknown(a)' \/ VobsGone(a)'
<1>o. op[a] \in OpType /\ TableOK /\ disk \in [Paths -> Files \cup {Nothing}]
  BY OpTyped DEF Inv, DiskOK
<1>v. /\ \A v \in rows : v \in Rows /\ InPlace(v.path)
      /\ \A v \in op[a].todo : v \in Rows /\ InPlace(v.path)
      /\ op[a].cur # NoRow => op[a].cur \in Rows /\ InPlace(op[a].cur.path)
      /\ \A pr \in op[a].pairs : Dir(pr.path) = "VIDEO_TS"
      /\ op[a].pc \notin {"upsert", "walk"}
      /\ kinds \cap {"drift", "edit"} = {}
  BY <1>o DEF TitlesUnknown, Known, OpType, TableOK
<1>m. \A q \in Paths : Dir(q) = "VIDEO_TS" => InPlace(q) /\ InPlace(q)'
  BY DEF TemplatesApart, InPlace
<1>q. \A v \in Rows : v.path \in Paths
  BY DEF Rows
<1> DEFINE Keeps == \A q \in Paths : There(q) /\ Dir(q) # "VIDEO_TS" => disk'[q] # Nothing
<1>f. ASSUME Keeps, NEW q \in Paths, InPlace(q) PROVE InPlace(q)'
  BY <1>f DEF InPlace, There
<1>p. ASSUME NEW new, Goto(a, new), UNCHANGED kinds, Keeps,
             \A v \in rows' : v \in rows \/ InPlace(v.path)',
             \A v \in new.todo : v \in rows \cup op[a].todo,
             new.cur # NoRow => \E v \in op[a].todo \cup {op[a].cur} : v # NoRow /\ v.path = new.cur.path,
             \A pr \in new.pairs : pr \in op[a].pairs \/ Dir(pr.path) = "VIDEO_TS",
             new.pc \in {"look", "apply", "delete", "insert"} => Canon[new.cur.path] # new.cur.path,
             new.pc \in {"delete", "insert"} => disk'[Canon[new.cur.path]] # Nothing,
             new.pc \notin {"upsert", "walk"}
      PROVE  TitlesUnknown(a)'
  <2>1. op'[a] = new
    BY <1>p, GotoMoves
  <2>2. \A v \in Rows : InPlace(v.path) => InPlace(v.path)'
    BY <1>f, <1>p, <1>q
  <2>3. \A v \in rows' \cup new.todo : InPlace(v.path)'
    BY <1>v, <1>p, <2>2
  <2>4. new.cur # NoRow => InPlace(new.cur.path)'
    BY <1>v, <1>p, <2>2
  <2> QED  BY <1>v, <1>p, <2>1, <2>3, <2>4 DEF TitlesUnknown, Known, Dest, There
<1>i. Idle.todo = {} /\ Idle.pairs = {} /\ Idle.cur = NoRow /\ Idle.pc = "idle"
  BY DEF Idle
<1>k. ASSUME NEW new, Goto(a, new), UNCHANGED kinds, Keeps, \A v \in rows' : v \in rows \/ InPlace(v.path)',
             new.todo \subseteq op[a].todo, new.cur \in {op[a].cur, NoRow}, new.pairs \subseteq op[a].pairs,
             new.pc \notin {"look", "apply", "delete", "insert", "upsert", "walk"}
      PROVE  TitlesUnknown(a)'
  BY <1>p, <1>k
<1>j. ASSUME Goto(a, Idle), UNCHANGED kinds, Keeps, \A v \in rows' : v \in rows \/ InPlace(v.path)'
      PROVE  TitlesUnknown(a)'
  BY <1>i, <1>j, <1>k
<1>u. UNCHANGED disk => Keeps
  BY DEF There
<1>1. CASE Rename(a)
  <2> DEFINE c == op[a].cur
  <2>n. /\ NextRename(a).todo \subseteq op[a].todo /\ NextRename(a).cur = NoRow
        /\ NextRename(a).pairs = op[a].pairs /\ NextRename(a).pc = "plan"
    BY <1>o DEF NextRename, OpType
  <2>c. ASSUME op[a].pc \in {"look", "apply", "delete", "insert"}
        PROVE  /\ c \in Rows /\ c # NoRow /\ c.path \in Paths /\ Canon[c.path] # c.path /\ Dir(c.path) = "VIDEO_TS"
               /\ op[a].pc \in {"delete", "insert"} => There(Canon[c.path])
               /\ Canon[c.path] \in Paths /\ Canon[c.path] \notin MkvPaths
               /\ Canon[Canon[c.path]] = Canon[c.path] /\ Dir(Canon[c.path]) # "VIDEO_TS"
    <3>1. c \in Rows /\ c # NoRow
      BY <1>o, <2>c DEF Inv, OpsOK, HasRow, OpType
    <3>2. InPlace(c.path) /\ c.path \in Paths
      BY <1>v, <1>q, <3>1
    <3>3. Canon[c.path] # c.path /\ (op[a].pc \in {"delete", "insert"} => There(Canon[c.path]))
      BY <2>c DEF TitlesUnknown, Dest
    <3> QED  BY <3>1, <3>2, <3>3, ConstantsAssumption DEF InPlace, TemplatesApart
  <2>1. CASE RenameStart(a)
    <3> DEFINE new == [Idle EXCEPT !.pc = "plan", !.todo = rows]
    <3>1. Goto(a, new) /\ UNCHANGED <<rows, disk, kinds>>
      BY <2>1 DEF RenameStart, Start
    <3>2. new.todo = rows /\ new.pairs = {} /\ new.cur = NoRow /\ new.pc = "plan"
      BY DEF Idle
    <3> HIDE DEF new
    <3> QED  BY <1>p, <1>u, <3>1, <3>2
  <2>2. CASE RenamePlan(a)
    <3>0. UNCHANGED <<rows, disk, kinds>> /\ op[a].pc = "plan"
      BY <2>2 DEF RenamePlan, counters
    <3>1. CASE Goto(a, Idle)
      BY <1>j, <1>u, <3>0, <3>1
    <3>2. ASSUME NEW v \in op[a].todo, Canon[v.path] # v.path, Goto(a, [op[a] EXCEPT !.cur = v, !.pc = "look"])
          PROVE  TitlesUnknown(a)'
      <4> DEFINE new == [op[a] EXCEPT !.cur = v, !.pc = "look"]
      <4>1. new.todo = op[a].todo /\ new.pairs = op[a].pairs /\ new.cur = v /\ new.pc = "look"
        BY <1>o DEF OpType
      <4>2. Goto(a, new) /\ v # NoRow
        BY <1>v, <3>2, ConstantsAssumption
      <4> HIDE DEF new
      <4> QED  BY <1>p, <1>u, <3>0, <3>2, <4>1, <4>2
    <3>3. ASSUME NEW v \in op[a].todo, Goto(a, [op[a] EXCEPT !.todo = @ \ {v}]) PROVE TitlesUnknown(a)'
      <4> DEFINE new == [op[a] EXCEPT !.todo = @ \ {v}]
      <4>1. new.todo \subseteq op[a].todo /\ new.pairs = op[a].pairs /\ new.cur = op[a].cur /\ new.pc = "plan"
        BY <1>o, <3>0 DEF OpType
      <4> HIDE DEF new
      <4> QED  BY <1>k, <1>u, <3>0, <3>3, <4>1 DEF new
    <3> QED  BY <2>2, <3>1, <3>2, <3>3 DEF RenamePlan
  <2>3. CASE RenameLook(a)
    <3> DEFINE new == [op[a] EXCEPT !.pc = "apply"]
    <3>0. UNCHANGED <<rows, disk, kinds>> /\ op[a].pc = "look" /\ (Goto(a, NextRename(a)) \/ Goto(a, new))
      BY <2>3 DEF RenameLook, counters
    <3>1. new.todo = op[a].todo /\ new.pairs = op[a].pairs /\ new.cur = op[a].cur /\ new.pc = "apply"
      BY <1>o DEF OpType
    <3> HIDE DEF new
    <3>2. CASE Goto(a, NextRename(a))
      BY <1>k, <1>u, <2>n, <3>0, <3>2
    <3>3. CASE Goto(a, new)
      BY <1>p, <1>u, <2>c, <3>0, <3>1, <3>3
    <3> QED  BY <3>0, <3>2, <3>3
  <2>4. CASE RenameApply(a)
    <3> DEFINE new == [op[a] EXCEPT !.pc = "delete"]
               p == c.path
               dest == Canon[p]
    <3>0. UNCHANGED <<rows, kinds>> /\ op[a].pc = "apply"
      BY <2>4 DEF RenameApply, counters
    <3>1. new.todo = op[a].todo /\ new.pairs = op[a].pairs /\ new.cur = op[a].cur /\ new.pc = "delete"
      BY <1>o DEF OpType
    <3>2. CASE Goto(a, NextRename(a)) /\ UNCHANGED disk
      BY <1>k, <1>u, <2>n, <3>0, <3>2
    <3>3. CASE There(p) /\ disk' = [disk EXCEPT ![p] = Nothing, ![dest] = disk[p]] /\ Goto(a, new)
      <4>1. Keeps /\ disk'[dest] # Nothing
        BY <1>o, <2>c, <3>0, <3>3 DEF There
      <4> HIDE DEF new
      <4> QED  BY <1>p, <2>c, <3>0, <3>1, <3>3, <4>1
    <3> QED  BY <2>4, <3>2, <3>3 DEF RenameApply
  <2>5. CASE RenameDelete(a)
    <3> DEFINE new == [op[a] EXCEPT !.pc = "insert"]
    <3>0. UNCHANGED <<disk, kinds>> /\ op[a].pc = "delete" /\ rows' \subseteq rows
      BY <2>5 DEF RenameDelete, counters
    <3>1. new.todo = op[a].todo /\ new.pairs = op[a].pairs /\ new.cur = op[a].cur /\ new.pc = "insert"
      BY <1>o DEF OpType
    <3>2. Goto(a, NextRename(a)) \/ Goto(a, new)
      BY <2>5 DEF RenameDelete
    <3> HIDE DEF new
    <3>3. CASE Goto(a, NextRename(a))
      BY <1>k, <1>u, <2>n, <3>0, <3>3
    <3>4. CASE Goto(a, new)
      BY <1>p, <1>u, <2>c, <3>0, <3>1, <3>4 DEF There
    <3> QED  BY <3>2, <3>3, <3>4
  <2>6. CASE RenameInsert(a)
    <3>0. UNCHANGED <<disk, kinds>> /\ op[a].pc = "insert" /\ Goto(a, NextRename(a))
      BY <2>6 DEF RenameInsert, counters
    <3>p. PICK dest \in Paths : dest = Canon[c.path]
      BY <2>c, <3>0
    <3>1. InPlace(dest)'
      BY <2>c, <3>p, <3>0 DEF InPlace, There
    <3>2. c.part \in Nat /\ c.info \in Files /\ Canon[c.path] \in Paths
      BY <2>c, <3>0 DEF Rows
    <3>3. \A w \in rows' : w \in rows \/ w.path = dest
      BY <1>o, <2>6, <3>2, UpsertRows, <3>p DEF RenameInsert
    <3> QED  BY <1>k, <1>u, <2>n, <3>0, <3>1, <3>3
  <2> QED  BY <1>1, <2>1, <2>2, <2>3, <2>4, <2>5, <2>6 DEF Rename
<1>2. CASE Refresh(a)
  <2>0. UNCHANGED <<disk, kinds>> /\ Keeps
    BY <1>2, <1>u DEF Refresh, RefreshStart, ReconcileFolder, ReconcileUpdate, ReprobeList, ReprobeRead, ReprobeWrite,
                RefreshDone, Start, counters
  <2>f. \A q \in Paths : InPlace(q) => InPlace(q)'
    BY <1>f, <2>0
  <2>l. LET listing == [Idle EXCEPT !.pc = "list"]
        IN  listing.todo = {} /\ listing.pairs = {} /\ listing.cur = NoRow /\ listing.pc = "list"
    BY DEF Idle
  <2>1. CASE RefreshStart(a)
    <3> DEFINE new == [Idle EXCEPT !.pc = "folder", !.todo = rows, !.dirs = {Dir(v.path) : v \in rows}]
    <3>1. Goto(a, new) /\ UNCHANGED rows
      BY <2>1 DEF RefreshStart, Start
    <3>2. new.todo = rows /\ new.pairs = {} /\ new.cur = NoRow /\ new.pc = "folder"
      BY DEF Idle
    <3> HIDE DEF new
    <3> QED  BY <1>p, <2>0, <3>1, <3>2
  <2>2. CASE ReconcileFolder(a)
    <3> DEFINE d == CHOOSE d \in op[a].dirs : TRUE
               here == {v \in op[a].todo : Dir(v.path) = d}
               free == Unmatched(d, here)
               pairs == IF Cardinality(free) = Cardinality(Stale(here)) THEN Pairing(Stale(here), free) ELSE {}
               new == [op[a] EXCEPT !.dirs = @ \ {d}, !.pairs = pairs, !.pc = "update"]
               listing == [Idle EXCEPT !.pc = "list"]
    <3>1. UNCHANGED rows /\ Goto(a, IF op[a].dirs = {} THEN listing ELSE new)
      BY <2>2 DEF ReconcileFolder
    <3>2. \A pr \in pairs : Dir(pr.path) = "VIDEO_TS"
      <4> SUFFICES ASSUME NEW pr \in pairs PROVE Dir(pr.path) = "VIDEO_TS"
        OBVIOUS
      <4>1. pr \in Pairing(Stale(here), free)
        OBVIOUS
      <4>2. PICK v \in Stale(here) : TRUE
        BY <4>1 DEF Pairing
      <4>3. v \in op[a].todo /\ ~There(v.path) /\ Dir(v.path) = d
        BY <4>2 DEF Stale
      <4>4. d = "VIDEO_TS"
        BY <1>v, <4>3 DEF InPlace
      <4> QED  BY <4>1, <4>4 DEF Pairing, Unmatched, InDir
    <3> HIDE DEF d, pairs
    <3>3. new.todo = op[a].todo /\ new.pairs = pairs /\ new.cur = op[a].cur /\ new.pc = "update"
      BY <1>o DEF OpType
    <3>4. op[a].cur # NoRow => op[a].cur \in op[a].todo \cup {op[a].cur}
      OBVIOUS
    <3> HIDE DEF new
    <3>5. CASE Goto(a, new)
      BY <1>p, <2>0, <3>1, <3>2, <3>3, <3>5
    <3>6. CASE Goto(a, listing)
      BY <1>k, <2>0, <2>l, <3>1, <3>6
    <3> QED  BY <3>1, <3>5, <3>6
  <2>3. CASE ReconcileUpdate(a)
    <3> DEFINE folder == [op[a] EXCEPT !.pc = "folder"]
               next(pr) == [op[a] EXCEPT !.pairs = @ \ {pr}]
               listing == [Idle EXCEPT !.pc = "list"]
    <3>2. folder.todo = op[a].todo /\ folder.pairs = op[a].pairs /\ folder.cur = op[a].cur /\ folder.pc = "folder"
      BY <1>o DEF OpType
    <3>3. \A pr : /\ next(pr).todo = op[a].todo /\ next(pr).pairs \subseteq op[a].pairs
                  /\ next(pr).cur = op[a].cur /\ next(pr).pc = "update"
      BY <1>o, <2>3 DEF OpType, ReconcileUpdate
    <3> HIDE DEF folder, next
    <3>4. \/ UNCHANGED rows /\ (Goto(a, folder) \/ Goto(a, listing))
          \/ \E pr \in op[a].pairs : Repath(pr.id, pr.path) /\ Goto(a, next(pr))
      BY <2>3 DEF ReconcileUpdate, folder, next
    <3>5. CASE UNCHANGED rows /\ (Goto(a, folder) \/ Goto(a, listing))
      BY <1>k, <2>0, <2>l, <3>2, <3>5
    <3>6. ASSUME NEW pr \in op[a].pairs, Repath(pr.id, pr.path), Goto(a, next(pr)) PROVE TitlesUnknown(a)'
      <4>1. pr.path \in Paths /\ Dir(pr.path) = "VIDEO_TS"
        BY <1>o, <1>v DEF OpType, Pairs
      <4>2. \A w \in rows' : w \in rows \/ w.path = pr.path
        BY <1>o, <3>6, <4>1, RepathRows
      <4> QED  BY <1>k, <1>m, <2>0, <3>3, <3>6, <4>1, <4>2
    <3> QED  BY <3>4, <3>5, <3>6
  <2>4. CASE ReprobeList(a)
    <3> DEFINE new == [op[a] EXCEPT !.todo = rows, !.pc = "probe"]
    <3>1. new.todo = rows /\ new.pairs = op[a].pairs /\ new.cur = op[a].cur /\ new.pc = "probe"
      BY <1>o DEF OpType
    <3>2. Goto(a, new) /\ UNCHANGED rows
      BY <2>4 DEF ReprobeList
    <3> HIDE DEF new
    <3> QED  BY <1>p, <2>0, <3>1, <3>2
  <2>5. CASE ReprobeRead(a)
    <3> DEFINE probed(v) == [v EXCEPT !.info = disk[v.path]]
               new(v) == [op[a] EXCEPT !.cur = probed(v), !.pc = "write"]
               skip(v) == [op[a] EXCEPT !.todo = @ \ {v}]
    <3>1. PICK v \in op[a].todo : Goto(a, IF There(v.path) THEN new(v) ELSE skip(v))
      BY <2>5 DEF ReprobeRead
    <3>2. UNCHANGED rows /\ op[a].pc = "probe"
      BY <2>5 DEF ReprobeRead
    <3>3. probed(v).path = v.path /\ v # NoRow
      BY <1>v, ConstantsAssumption DEF Rows
    <3>4. new(v).todo = op[a].todo /\ new(v).pairs = op[a].pairs /\ new(v).cur = probed(v) /\ new(v).pc = "write"
      BY <1>o DEF OpType
    <3>5. skip(v).todo \subseteq op[a].todo /\ skip(v).pairs = op[a].pairs /\ skip(v).cur = op[a].cur /\ skip(v).pc = "probe"
      BY <1>o, <3>2 DEF OpType
    <3> HIDE DEF probed, new, skip
    <3> QED  BY <1>p, <1>k, <2>0, <3>1, <3>2, <3>3, <3>4, <3>5
  <2>6. CASE ReprobeWrite(a)
    <3> DEFINE v == op[a].cur
               new == [op[a] EXCEPT !.todo = {w \in op[a].todo : w.id # v.id}, !.cur = NoRow, !.pc = "probe"]
    <3>1. v \in Rows /\ v # NoRow
      BY <1>o, <2>6 DEF ReprobeWrite, Inv, OpsOK, HasRow, OpType
    <3>p. PICK p \in Paths : p = v.path
      BY <1>q, <3>1
    <3>2. \A w \in rows' : w \in rows \/ w.path = p
      BY <3>p, <1>o, <2>6, <3>1, UpsertRows DEF ReprobeWrite, Rows
    <3>3. new.todo \subseteq op[a].todo /\ new.pairs = op[a].pairs /\ new.cur = NoRow /\ new.pc = "probe"
      BY <1>o DEF OpType
    <3>4. Goto(a, new)
      BY <2>6 DEF ReprobeWrite
    <3>5. InPlace(p)'
      BY <1>v, <2>f, <3>1, <3>p
    <3> HIDE DEF new
    <3> QED  BY <1>k, <2>0, <3>2, <3>3, <3>4, <3>5
  <2>7. CASE RefreshDone(a)
    BY <1>j, <2>0, <2>7 DEF RefreshDone
  <2> QED  BY <1>2, <2>1, <2>2, <2>3, <2>4, <2>5, <2>6, <2>7 DEF Refresh
<1>3. CASE Remux(a)
  <2> DEFINE at(pc) == [op[a] EXCEPT !.pc = pc]
             with(t) == [op[a] EXCEPT !.made = @ \cup {t}, !.pc = "move"]
  <2>1. \A pc : at(pc).todo = op[a].todo /\ at(pc).pairs = op[a].pairs /\ at(pc).cur = op[a].cur /\ at(pc).pc = pc
    BY <1>o DEF OpType
  <2>2. \A t : with(t).todo = op[a].todo /\ with(t).pairs = op[a].pairs /\ with(t).cur = op[a].cur /\ with(t).pc = "move"
    BY <1>o DEF OpType
  <2> HIDE DEF at, with
  <2>3. CASE \E titles \in (SUBSET Titles) \ {{}} : RemuxStart(a, titles)
    <3>1. PICK titles : RemuxStart(a, titles)
      BY <2>3
    <3> DEFINE new == [Idle EXCEPT !.pc = "preserve", !.titles = titles]
    <3>2. Goto(a, new) /\ UNCHANGED <<rows, disk, kinds>>
      BY <3>1 DEF RemuxStart, Start
    <3>3. new.todo = {} /\ new.pairs = {} /\ new.cur = NoRow /\ new.pc = "preserve"
      BY DEF Idle
    <3> HIDE DEF new
    <3> QED  BY <1>k, <1>u, <3>2, <3>3
  <2>4. CASE Preserve(a)
    <3>1. UNCHANGED <<rows, kinds>> /\ (Goto(a, Idle) \/ Goto(a, at("make")))
      BY <2>4 DEF Preserve, counters, at
    <3>2. Keeps
      <4> DEFINE vts == {p \in InDir("VIDEO_TS") : There(p)}
                 kept == {p \in InDir("original") : There(p)}
      <4>1. CASE /\ kept = {}
                 /\ disk' = [p \in Paths |->
                      IF Dir(p) = "VIDEO_TS" THEN Nothing
                      ELSE IF Dir(p) = "original" THEN disk[<<"VIDEO_TS", Base(p)>>]
                      ELSE disk[p]]
        <5> SUFFICES ASSUME NEW q \in Paths, There(q), Dir(q) # "VIDEO_TS" PROVE disk'[q] # Nothing
          OBVIOUS
        <5>1. Dir(q) # "original"
          BY <4>1 DEF InDir
        <5> QED  BY <4>1, <5>1 DEF There
      <4> QED  BY <1>u, <2>4, <4>1 DEF Preserve
    <3> QED  BY <1>j, <1>k, <2>1, <3>1, <3>2
  <2>5. CASE MakeMKV(a)
    <3>1. UNCHANGED <<rows, disk, kinds>> /\ (Goto(a, Idle) \/ Goto(a, at("move")))
      BY <2>5 DEF MakeMKV, counters, at
    <3> QED  BY <1>j, <1>k, <1>u, <2>1, <3>1
  <2>6. CASE MoveProduced(a)
    <3>1. UNCHANGED <<rows, disk, kinds>> /\ (Goto(a, Idle) \/ Goto(a, at("swap")) \/ Goto(a, at("place")))
      BY <2>6 DEF MoveProduced, counters, at
    <3> QED  BY <1>j, <1>k, <1>u, <2>1, <3>1
  <2>7. CASE PlaceProduced(a)
    <3>1. UNCHANGED <<rows, kinds>> /\ op[a].pc = "place"
      BY <2>7 DEF PlaceProduced, counters
    <3>2. PICK t \in Titles : disk' = [disk EXCEPT ![MkvPath[PartOfTitle(a, t)]] = Mkv[t]] /\ Goto(a, with(t))
      BY <2>7 DEF PlaceProduced, with
    <3>3. Mkv[t] # Nothing
      BY ConstantsAssumption
    <3>4. Keeps
      BY <1>o, <3>2, <3>3 DEF There
    <3> QED  BY <1>k, <2>2, <3>1, <3>2, <3>4
  <2>8. CASE SwapDelete(a)
    <3>0. UNCHANGED <<disk, kinds>> /\ op[a].pc = "swap"
      BY <2>8 DEF SwapDelete, counters
    <3>1. CASE Goto(a, Idle) /\ UNCHANGED rows
      BY <1>j, <1>u, <3>0, <3>1
    <3>2. CASE rows' = {} /\ Goto(a, at("upsert"))
      <4>1. op'[a] = at("upsert")
        BY <3>2, GotoMoves
      <4>2. op'[a].todo = {} /\ op'[a].pairs = {} /\ op'[a].dirs = {} /\ op'[a].cur = NoRow
        BY <1>o, <3>0, <4>1 DEF RemuxOnly, RemuxSteps, OpType, at
      <4> QED  BY <3>2, <4>2 DEF VobsGone, Known
    <3> QED  BY <2>8, <3>1, <3>2 DEF SwapDelete, at
  <2>9. ~SwapUpsert(a)
    BY <1>v DEF SwapUpsert
  <2> QED  BY <1>3, <2>3, <2>4, <2>5, <2>6, <2>8, <2>9, <2>7 DEF Remux
<1>4. ~Drift(a)
  BY <1>v DEF Drift, DriftStart, Start, DriftUpdate
<1> QED  BY <1>1, <1>2, <1>3, <1>4 DEF Act

LEMMA RemuxStaysAlone ==
  ASSUME Inv, NEW a \in Actors, Act(a), RemuxOnly(a)
  PROVE  RemuxOnly(a)'
<1>o. op[a] \in OpType
  BY OpTyped
<1> DEFINE Bare(r) == r.todo = {} /\ r.pairs = {} /\ r.dirs = {} /\ r.cur = NoRow
<1>1. Bare(Idle) /\ \A titles : Bare([Idle EXCEPT !.pc = "preserve", !.titles = titles])
  BY DEF Idle
<1>2. op[a].pc \in RemuxSteps => Bare(op[a])
  BY DEF RemuxOnly
<1>3. \A pc : [op[a] EXCEPT !.pc = pc].pc = pc /\ (Bare(op[a]) => Bare([op[a] EXCEPT !.pc = pc]))
  BY <1>o DEF OpType
<1>4. \A S, pc : Bare(op[a]) => Bare([op[a] EXCEPT !.made = S]) /\ Bare([op[a] EXCEPT !.made = S, !.pc = pc])
  BY <1>o DEF OpType
<1>5. ASSUME NEW new, Goto(a, new), new.pc \in RemuxSteps => Bare(new) PROVE RemuxOnly(a)'
  <2>1. op'[a] = new
    BY <1>5, GotoMoves
  <2> QED  BY <1>5, <2>1 DEF RemuxOnly
<1>6. CASE Remux(a)
  <2>1. ASSUME NEW titles, RemuxStart(a, titles) PROVE RemuxOnly(a)'
    <3>1. Goto(a, [Idle EXCEPT !.pc = "preserve", !.titles = titles])
      BY <2>1 DEF RemuxStart, Start
    <3> HIDE DEF Bare
    <3> QED  BY <1>1, <1>5, <3>1
  <2>2. CASE ~\E titles : RemuxStart(a, titles)
    <3>1. op[a].pc \in RemuxSteps
      BY <1>6, <2>2 DEF Remux, Preserve, MakeMKV, MoveProduced, PlaceProduced, SwapDelete, SwapUpsert, RemuxSteps
    <3>2. \/ Goto(a, Idle) \/ \E pc : Goto(a, [op[a] EXCEPT !.pc = pc])
          \/ \E S : Goto(a, [op[a] EXCEPT !.made = S])
          \/ \E S, pc : Goto(a, [op[a] EXCEPT !.made = S, !.pc = pc])
      BY <1>6, <2>2 DEF Remux, Preserve, MakeMKV, MoveProduced, PlaceProduced, SwapDelete, SwapUpsert
    <3> HIDE DEF Bare
    <3> QED  BY <1>1, <1>2, <1>3, <1>4, <1>5, <3>1, <3>2
  <2> QED  BY <2>1, <2>2
<1>7. CASE ~Remux(a)
  BY <1>7, ActorMoves DEF RemuxOnly
<1> QED  BY <1>6, <1>7

LEMMA SwapInvInductive ==
  ASSUME Sole, TemplatesApart, Inv, AloneInv, SwapInv, [Next]_vars
  PROVE  SwapInv'
<1>h. ASSUME NEW a \in Actors, VobsGone(a) \/ TitlesUnknown(a) PROVE NeverHalfSwapped
  BY <1>h DEF VobsGone, TitlesUnknown, InPlace, Known, NeverHalfSwapped, MkvPaths
<1>1. ASSUME NEW a \in Actors, Act(a) PROVE SwapInv'
  <2>1. RemuxOnly(a)' /\ (VobsGone(a)' \/ TitlesUnknown(a)')
    BY <1>1, VobsStayGone, TitlesStayUnknown, RemuxStaysAlone DEF SwapInv
  <2>2. \A b \in Actors : b # a => op'[b] = Idle
    BY <1>1, OthersIdle
  <2>3. ASSUME NEW b \in Actors, op'[b] = Idle
        PROVE  RemuxOnly(b)' /\ (VobsGone(a)' => VobsGone(b)') /\ (TitlesUnknown(a)' => TitlesUnknown(b)')
    <3>1. /\ op'[b].pc = "idle" /\ op'[b].todo = {} /\ op'[b].pairs = {}
          /\ op'[b].dirs = {} /\ op'[b].cur = NoRow
      BY <2>3 DEF Idle
    <3> QED  BY <3>1 DEF RemuxOnly, RemuxSteps, VobsGone, TitlesUnknown, Known
  <2>4. NeverHalfSwapped'
    BY <2>1 DEF VobsGone, TitlesUnknown, InPlace, Known, NeverHalfSwapped, MkvPaths
  <2> QED  BY <2>1, <2>2, <2>3, <2>4 DEF SwapInv
<1>2. CASE External
  <2>1. "edit" \in kinds /\ UNCHANGED <<rows, op>>
    BY <1>2 DEF External, ExtRename, ExtReplace, ExtMoveFolder, Edit
  <2> QED  BY <2>1 DEF SwapInv, NeverHalfSwapped, RemuxOnly, TitlesUnknown, VobsGone, Known
<1>3. CASE CrashRestart
  <2>1. /\ UNCHANGED <<rows, disk, kinds>>
        /\ \A a \in Actors : /\ op'[a].pc = "idle" /\ op'[a].todo = {} /\ op'[a].pairs = {}
                             /\ op'[a].dirs = {} /\ op'[a].cur = NoRow
    BY <1>3 DEF CrashRestart, counters, Idle
  <2> QED  BY <2>1 DEF SwapInv, NeverHalfSwapped, RemuxOnly, TitlesUnknown, VobsGone, Known, InPlace, There
<1>4. CASE UNCHANGED vars
  BY <1>4 DEF vars, SwapInv, NeverHalfSwapped, RemuxOnly, TitlesUnknown, VobsGone, Known, InPlace, There, Dest
<1> QED  BY <1>1, <1>2, <1>3, <1>4 DEF Next, Act, Terminated

(* A remux that fails, faults or crashes at any step of its swap, followed  *)
(* by any renames and refreshes, leaves the rows of the VOBs or those of    *)
(* the titles and never some of each.                                       *)
THEOREM NeverHalfSwappedHolds ==
  ASSUME Sole, TemplatesApart, \A s \in Starts : SwapStart(s)
  PROVE  Spec => []NeverHalfSwapped
<1>1. ASSUME Init PROVE SwapInv
  <2>1. PICK s \in Starts : disk = s.disk /\ rows = s.rows /\ kinds = s.kinds
    BY <1>1 DEF Init
  <2>2. SwapStart(s)
    BY <2>1
  <2>3. \A a \in Actors : /\ op[a].pc = "idle" /\ op[a].todo = {} /\ op[a].pairs = {}
                          /\ op[a].dirs = {} /\ op[a].cur = NoRow
    BY <1>1 DEF Init, Idle
  <2>4. NeverHalfSwapped
    BY <2>1, <2>2 DEF SwapStart, NeverHalfSwapped, MkvPaths
  <2>5. \A a \in Actors : VobsGone(a) \/ TitlesUnknown(a)
    BY <2>1, <2>2, <2>3 DEF SwapStart, VobsGone, TitlesUnknown, Known, InPlace, There
  <2> QED  BY <2>3, <2>4, <2>5 DEF SwapInv, RemuxOnly, RemuxSteps
<1>2. Inv /\ AloneInv /\ SwapInv /\ [Next]_vars => SwapInv'
  BY SwapInvInductive
<1>3. SwapInv => NeverHalfSwapped
  BY DEF SwapInv
<1>4. Spec => []AloneInv
  BY AloneInvHolds
<1> QED  BY <1>1, <1>2, <1>3, <1>4, InvHolds, PTL DEF Spec

-----------------------------------------------------------------------------
(* The pairing by name order.                                               *)

(* The ranks of a finite set by distinct numbers are 0 to its size less 1.  *)
LEMMA Ranks ==
  ASSUME NEW S, IsFiniteSet(S), NEW f \in [S -> Nat], \A x, y \in S : f[x] = f[y] => x = y
  PROVE  /\ \A x, y \in S : Rank(S, f, x) = Rank(S, f, y) => x = y
         /\ \A x \in S : Rank(S, f, x) \in 0 .. (Cardinality(S) - 1)
         /\ \A k \in 0 .. (Cardinality(S) - 1) : \E x \in S : Rank(S, f, x) = k
<1> DEFINE below(x) == {w \in S : f[w] < f[x]}
           n == Cardinality(S)
<1>1. n \in Nat /\ \A x \in S : IsFiniteSet(below(x)) /\ Cardinality(below(x)) \in Nat
  BY FS_Subset, FS_CardinalityType
<1>2. ASSUME NEW x \in S PROVE Cardinality(below(x)) < n
  <2>1. below(x) \in SUBSET S /\ x \notin below(x)
    OBVIOUS
  <2> QED  BY <1>1, <2>1, FS_Subset
<1>3. ASSUME NEW x \in S, NEW y \in S, f[x] < f[y] PROVE Cardinality(below(x)) < Cardinality(below(y))
  <2>1. below(x) \in SUBSET below(y) /\ x \in below(y) /\ x \notin below(x)
    BY <1>3
  <2> QED  BY <1>1, <2>1, FS_Subset
<1>r. \A x : Rank(S, f, x) = Cardinality(below(x))
  BY DEF Rank
<1> HIDE DEF below
<1>4. \A x, y \in S : Rank(S, f, x) = Rank(S, f, y) => x = y
  <2> SUFFICES ASSUME NEW x \in S, NEW y \in S, x # y PROVE Cardinality(below(x)) # Cardinality(below(y))
    BY <1>r
  <2>1. f[x] < f[y] \/ f[y] < f[x]
    OBVIOUS
  <2> QED  BY <1>1, <1>3, <2>1
<1>5. \A x \in S : Rank(S, f, x) \in 0 .. (n - 1)
  BY <1>1, <1>2, <1>r
<1>6. \A k \in 0 .. (n - 1) : \E x \in S : Rank(S, f, x) = k
  <2> DEFINE rank == [x \in S |-> Rank(S, f, x)]
  <2>1. rank \in Injection(S, 0 .. (n - 1))
    BY <1>4, <1>5 DEF Injection, IsInjective
  <2>2. IsFiniteSet(0 .. (n - 1)) /\ Cardinality(0 .. (n - 1)) = n
    BY <1>1, FS_Interval
  <2>3. rank \in Surjection(S, 0 .. (n - 1))
    BY <2>1, <2>2, FS_Injection
  <2> QED  BY <2>3 DEF Surjection
<1> QED  BY <1>4, <1>5, <1>6

(* Stale rows and unmatched files of one folder, as many of each, are       *)
(* matched one to one.                                                      *)
LEMMA PairingMatches ==
  ASSUME NEW d, NEW stale, stale \subseteq Rows, IsFiniteSet(stale),
         \A v \in stale : Dir(v.path) = d,
         \A v, w \in stale : v.id = w.id \/ v.path = w.path => v = w,
         NEW free, free \subseteq InDir(d), IsFiniteSet(free),
         Cardinality(free) = Cardinality(stale)
  PROVE  /\ \A pr, other \in Pairing(stale, free) : pr.id = other.id \/ pr.path = other.path => pr = other
         /\ \A pr \in Pairing(stale, free) : pr.path \in free /\ \E v \in stale : v.id = pr.id
         /\ \A v \in stale : \E pr \in Pairing(stale, free) : pr.id = v.id
<1> DEFINE f == [v \in stale |-> Base(v.path)]
           g == [p \in free |-> Base(p)]
           rowOf(pr) == CHOOSE v \in stale : v.id = pr.id
<1>1. \A p, q \in Paths : Base(p) \in Nat /\ (Dir(p) = Dir(q) /\ Base(p) = Base(q) => p = q)
  BY ConstantsAssumption
<1>2. f \in [stale -> Nat] /\ \A v, w \in stale : f[v] = f[w] => v = w
  BY <1>1 DEF Rows
<1>3. g \in [free -> Nat] /\ \A p, q \in free : g[p] = g[q] => p = q
  BY <1>1 DEF InDir
<1>4. \A v \in stale : \A pr : pr.id = v.id => rowOf(pr) = v
  OBVIOUS
<1>5. ASSUME NEW v \in stale, NEW p \in free
      PROVE  /\ Rank(stale, f, v) = Cardinality({w \in stale : Base(w.path) < Base(v.path)})
             /\ Rank(free, g, p) = Cardinality({q \in free : Base(q) < Base(p)})
  <2>1. {w \in stale : f[w] < f[v]} = {w \in stale : Base(w.path) < Base(v.path)}
    OBVIOUS
  <2>2. {q \in free : g[q] < g[p]} = {q \in free : Base(q) < Base(p)}
    OBVIOUS
  <2> QED  BY <2>1, <2>2 DEF Rank
<1> HIDE DEF f, g
<1>6. ASSUME NEW pr \in [id : {v.id : v \in stale}, path : free]
      PROVE  /\ rowOf(pr) \in stale /\ rowOf(pr).id = pr.id /\ pr.path \in free
             /\ pr \in Pairing(stale, free) <=> Rank(stale, f, rowOf(pr)) = Rank(free, g, pr.path)
  <2>1. rowOf(pr) \in stale /\ rowOf(pr).id = pr.id /\ pr.path \in free
    OBVIOUS
  <2> QED  BY <1>5, <2>1 DEF Pairing
<1> HIDE DEF rowOf
<1>7. Pairing(stale, free) \subseteq [id : {v.id : v \in stale}, path : free]
  BY DEF Pairing
<1>8. ASSUME NEW pr \in Pairing(stale, free), NEW other \in Pairing(stale, free),
             pr.id = other.id \/ pr.path = other.path
      PROVE  pr = other
  <2>1. pr.id = other.id => rowOf(pr) = rowOf(other)
    BY <1>4, <1>6, <1>7
  <2>2. Rank(stale, f, rowOf(pr)) = Rank(stale, f, rowOf(other)) \/ Rank(free, g, pr.path) = Rank(free, g, other.path)
    BY <1>8, <2>1
  <2>3. rowOf(pr) = rowOf(other) /\ pr.path = other.path
    BY <1>2, <1>3, <1>6, <1>7, <2>2, Ranks
  <2>4. pr.id = other.id
    BY <1>6, <1>7, <2>3
  <2> QED  BY <1>7, <2>3, <2>4
<1>9. ASSUME NEW v \in stale PROVE \E pr \in Pairing(stale, free) : pr.id = v.id
  <2>1. Rank(stale, f, v) \in 0 .. (Cardinality(free) - 1)
    BY <1>2, Ranks
  <2>2. PICK p \in free : Rank(free, g, p) = Rank(stale, f, v)
    BY <1>3, <2>1, Ranks
  <2> DEFINE pr == [id |-> v.id, path |-> p]
  <2>3. pr \in [id : {w.id : w \in stale}, path : free] /\ pr.id = v.id /\ pr.path = p
    OBVIOUS
  <2> HIDE DEF pr
  <2>4. pr \in Pairing(stale, free)
    BY <1>4, <1>6, <2>2, <2>3
  <2> QED  BY <2>3, <2>4
<1> QED  BY <1>6, <1>7, <1>8, <1>9

LEMMA RowsFinite ==
  ASSUME Inv, NEW S, S \subseteq rows
  PROVE  IsFiniteSet(S)
<1> DEFINE f == [v \in S |-> v.path]
<1>1. f \in Injection(S, Paths)
  BY DEF Injection, IsInjective, Inv, TableOK, Rows
<1> QED  BY <1>1, ConstantsAssumption, FS_Injection

(* Whether a folder is balanced is a matter of the paths that have rows.    *)
MissingIn(d) == {p \in RowPaths : Dir(p) = d /\ ~There(p)}
UnclaimedIn(d) == {p \in Paths : Dir(p) = d /\ There(p) /\ p \notin RowPaths}
LEMMA BalancedByPath ==
  ASSUME Inv, NEW d
  PROVE  Balanced(d) <=> Cardinality(MissingIn(d)) = Cardinality(UnclaimedIn(d))
<1> DEFINE mine == {v \in rows : Dir(v.path) = d}
           f == [v \in Stale(mine) |-> v.path]
<1>1. f \in Bijection(Stale(mine), MissingIn(d))
  <2>1. f \in [Stale(mine) -> MissingIn(d)]
    BY DEF Stale, MissingIn, RowPaths
  <2>2. \A v, w \in Stale(mine) : f[v] = f[w] => v = w
    BY DEF Stale, Inv, TableOK
  <2>3. \A p \in MissingIn(d) : \E v \in Stale(mine) : f[v] = p
    BY DEF Stale, MissingIn, RowPaths
  <2> QED  BY <2>1, <2>2, <2>3 DEF Bijection, Injection, IsInjective, Surjection
<1>2. IsFiniteSet(Stale(mine))
  BY RowsFinite DEF Stale
<1>3. Cardinality(MissingIn(d)) = Cardinality(Stale(mine))
  BY <1>1, <1>2, FS_Bijection DEF ExistsBijection
<1>4. UnclaimedIn(d) = {p \in InDir(d) : There(p) /\ ~\E v \in mine : v.path = p}
  BY DEF UnclaimedIn, InDir, RowPaths
<1> QED  BY <1>3, <1>4 DEF Balanced

-----------------------------------------------------------------------------
(* An undisturbed refresh heals.                                            *)

LEMMA CalmStep ==
  ASSUME Inv, CalmAlone, NEW a \in Actors, Act(a), calm'
  PROVE  /\ \A b \in Actors : b # a => op'[b] = op[b] /\ op'[b].pc = "idle"
         /\ ~Starting(a) => calm /\ op[a].pc # "idle"
         /\ CalmAlone'
<1>1. /\ \A b \in Actors : b # a => op'[b] = op[b]
      /\ op[a].pc = "idle" => Starting(a)
  BY ActorMoves
<1>2. CASE Starting(a)
  <2>1. Busy = {}
    BY <1>2 DEF Starting, Start
  <2> QED  BY <1>1, <1>2, <2>1 DEF Busy, CalmAlone
<1>3. CASE ~Starting(a)
  <2>1. UNCHANGED calm \/ Fault
    BY <1>3 DEF Act, Rename, RenameStart, RenamePlan, RenameLook, RenameApply, RenameDelete, RenameInsert, Refresh,
                RefreshStart, ReconcileFolder, ReconcileUpdate, ReprobeList, ReprobeRead, ReprobeWrite,
                RefreshDone, Remux, RemuxStart, Preserve, MakeMKV, MoveProduced, PlaceProduced, SwapDelete, SwapUpsert,
                Drift, DriftStart, DriftUpdate, NoFault, Starting
  <2>2. calm
    BY <2>1 DEF Fault
  <2>3. \A b \in Actors : b # a => op[b].pc = "idle"
    BY <1>1, <1>3, <2>2 DEF CalmAlone, Busy
  <2> QED  BY <1>1, <1>3, <2>2, <2>3 DEF CalmAlone, Busy
<1> QED  BY <1>2, <1>3

(* An upsert by the path of a row changes that row's part and info only.    *)
LEMMA UpsertInPlace ==
  ASSUME TableOK, NEW v \in rows, NEW part \in Nat, NEW info \in Files, Upsert(v.path, part, info)
  PROVE  /\ RowPaths' = RowPaths
         /\ \A w \in rows : w # v => w \in rows'
         /\ \A w \in rows' : w \in rows \ {v} \/ (w.path = v.path /\ w.info = info)
<1> DEFINE new(w) == IF w.path = v.path THEN [w EXCEPT !.part = part, !.info = info] ELSE w
<1>1. rows' = {new(w) : w \in rows}
  BY DEF Upsert
<1>2. \A w \in rows : /\ new(w).path = w.path
                      /\ w # v => new(w) = w
                      /\ new(v).info = info
  BY DEF TableOK, Rows
<1> HIDE DEF new
<1>3. RowPaths' = {new(w).path : w \in rows}
  BY <1>1 DEF RowPaths
<1> QED  BY <1>1, <1>2, <1>3 DEF RowPaths

LEMMA RefreshHealing ==
  ASSUME Inv, Inv', NEW a \in Actors, Refresh(a), calm', RefreshStart(a) \/ Healing(a)
  PROVE  Healing(a)'
<1>o. op[a] \in OpType /\ TableOK
  BY OpTyped DEF Inv
<1>d. UNCHANGED disk
  BY DEF Refresh, RefreshStart, ReconcileFolder, ReconcileUpdate, ReprobeList, ReprobeRead, ReprobeWrite,
         RefreshDone, Start
<1>f. ~Fault
  BY DEF Fault
<1>e. ASSUME NEW d, MissingIn(d)' = MissingIn(d), UnclaimedIn(d)' = UnclaimedIn(d)
      PROVE  Balanced(d)' <=> Balanced(d)
  <2>1. Balanced(d)' <=> (Cardinality(MissingIn(d)) = Cardinality(UnclaimedIn(d)))'
    BY BalancedByPath, PTL
  <2> QED  BY <1>e, <2>1, BalancedByPath
<1>b. ASSUME UNCHANGED RowPaths, NEW d PROVE Balanced(d)' <=> Balanced(d)
  BY <1>b, <1>d, <1>e DEF MissingIn, UnclaimedIn, There
<1>s. UNCHANGED rows => \A v : HasFileOrOdd(v)' <=> HasFileOrOdd(v)
  BY <1>b, <1>d DEF HasFileOrOdd, There, RowPaths
<1>l. LET listing == [Idle EXCEPT !.pc = "list"] IN listing.pc = "list"
  BY DEF Idle
<1>1. CASE RefreshStart(a)
  <2> DEFINE new == [Idle EXCEPT !.pc = "folder", !.todo = rows, !.dirs = {Dir(v.path) : v \in rows}]
  <2>1. op'[a] = new /\ UNCHANGED rows
    BY <1>1, GotoMoves DEF RefreshStart, Start
  <2>2. new.pc = "folder" /\ new.todo = rows /\ new.dirs = {Dir(v.path) : v \in rows} /\ new.pairs = {}
    BY DEF Idle
  <2> HIDE DEF new
  <2> QED  BY <2>1, <2>2 DEF Healing, AsListed
<1>2. CASE ReconcileFolder(a) /\ Healing(a)
  <2> DEFINE d == CHOOSE d \in op[a].dirs : TRUE
             here == {v \in op[a].todo : Dir(v.path) = d}
             free == Unmatched(d, here)
             pairs == IF Cardinality(free) = Cardinality(Stale(here)) THEN Pairing(Stale(here), free) ELSE {}
             new == [op[a] EXCEPT !.dirs = @ \ {d}, !.pairs = pairs, !.pc = "update"]
             listing == [Idle EXCEPT !.pc = "list"]
  <2>1. op[a].pc = "folder" /\ UNCHANGED rows
    BY <1>2 DEF ReconcileFolder
  <2>2. AsListed(a) /\ \A v \in rows : Dir(v.path) \notin op[a].dirs => HasFileOrOdd(v)
    BY <1>2, <2>1 DEF Healing
  <2>3. CASE op[a].dirs = {}
    <3>1. op'[a] = listing
      BY <1>2, <2>3, GotoMoves DEF ReconcileFolder
    <3> QED  BY <1>l, <1>s, <2>1, <2>2, <2>3, <3>1 DEF Healing
  <2>4. CASE op[a].dirs # {}
    <3>1. op'[a] = new
      BY <1>2, <2>4, GotoMoves DEF ReconcileFolder
    <3>2. d \in op[a].dirs
      BY <2>4
    <3> HIDE DEF d
    <3>3. here = {v \in rows : Dir(v.path) = d}
      BY <2>2, <3>2 DEF AsListed
    <3>4. Balanced(d) <=> Cardinality(free) = Cardinality(Stale(here))
      BY <3>3 DEF Balanced, Unmatched
    <3>5. \A v \in rows : Dir(v.path) = d => There(v.path) \/ v \in Stale(here)
      BY <3>3 DEF Stale
    <3>6. /\ \A pr, other \in pairs : pr.id = other.id \/ pr.path = other.path => pr = other
          /\ \A pr \in pairs : pr.path \in free /\ \E v \in Stale(here) : v.id = pr.id
          /\ Balanced(d) => \A v \in Stale(here) : \E pr \in pairs : pr.id = v.id
      <4>1. CASE ~Balanced(d)
        BY <3>4, <4>1
      <4>2. CASE Balanced(d)
        <5>1. pairs = Pairing(Stale(here), free) /\ Cardinality(free) = Cardinality(Stale(here))
          BY <3>4, <4>2
        <5>2. /\ Stale(here) \subseteq rows /\ free \subseteq InDir(d) /\ free \subseteq Paths
              /\ \A v \in Stale(here) : Dir(v.path) = d
          BY <3>3 DEF Stale, Unmatched, InDir
        <5>3. Stale(here) \subseteq Rows /\ \A v, w \in Stale(here) : v.id = w.id \/ v.path = w.path => v = w
          BY <1>o, <5>2 DEF TableOK
        <5>4. IsFiniteSet(Stale(here)) /\ IsFiniteSet(free)
          BY <5>2, RowsFinite, ConstantsAssumption, FS_Subset
        <5> HIDE DEF here, free, pairs
        <5> QED  BY <5>1, <5>2, <5>3, <5>4, PairingMatches
      <4> QED  BY <4>1, <4>2
    <3>7. /\ \A v \in Stale(here) : v \in rows /\ Dir(v.path) = d
          /\ \A p \in free : Dir(p) = d /\ There(p) /\ p \notin RowPaths
      BY <3>3 DEF Stale, Unmatched, InDir, RowPaths
    <3>8. pairs # {} => Balanced(d)
      BY <3>4
    <3> HIDE DEF here, free, pairs
    <3>9. new.pc = "update" /\ new.todo = op[a].todo /\ new.dirs = op[a].dirs \ {d} /\ new.pairs = pairs
      BY <1>o DEF OpType
    <3> HIDE DEF new
    <3>10. AsListed(a)'
      BY <2>1, <2>2, <3>1, <3>9 DEF AsListed
    <3>11. PairsFit(a)'
      BY <1>d, <2>1, <3>1, <3>6, <3>7, <3>9 DEF PairsFit, RowPaths, There
    <3>12. \A v : HasFileOrOdd(v)' <=> HasFileOrOdd(v)
      BY <1>s, <2>1
    <3>13. \A e : Balanced(e)' <=> Balanced(e)
      BY <1>b, <2>1 DEF RowPaths
    <3>14. ASSUME NEW v \in rows, Dir(v.path) \notin op'[a].dirs
           PROVE  \/ There(v.path)' \/ Paired(a, v)'
                  \/ ~Balanced(Dir(v.path))' /\ \A pr \in op'[a].pairs : Dir(pr.path) # Dir(v.path)
      <4>1. CASE Dir(v.path) = d
        BY <1>d, <3>1, <3>5, <3>6, <3>7, <3>8, <3>9, <3>13, <4>1 DEF Paired, There
      <4>2. CASE Dir(v.path) # d
        <5>1. HasFileOrOdd(v)
          BY <2>2, <3>1, <3>9, <3>14, <4>2
        <5> QED  BY <1>d, <3>1, <3>6, <3>7, <3>9, <3>13, <4>2, <5>1 DEF HasFileOrOdd, There
      <4> QED  BY <4>1, <4>2
    <3> QED  BY <2>1, <3>1, <3>9, <3>10, <3>11, <3>14 DEF Healing
  <2> QED  BY <2>3, <2>4
<1>3. CASE ReconcileUpdate(a) /\ Healing(a)
  <2> DEFINE folder == [op[a] EXCEPT !.pc = "folder"]
             next(pr) == [op[a] EXCEPT !.pairs = @ \ {pr}]
             Behind(v) == \/ There(v.path) \/ Paired(a, v)
                          \/ ~Balanced(Dir(v.path)) /\ \A pr \in op[a].pairs : Dir(pr.path) # Dir(v.path)
  <2>1. op[a].pc = "update"
    BY <1>3 DEF ReconcileUpdate
  <2>2. AsListed(a) /\ PairsFit(a) /\ \A v \in rows : Dir(v.path) \notin op[a].dirs => Behind(v)
    BY <1>3, <2>1 DEF Healing
  <2>3. folder.pc = "folder" /\ folder.todo = op[a].todo /\ folder.dirs = op[a].dirs /\ folder.pairs = op[a].pairs
    BY <1>o DEF OpType
  <2>4. \A pr : /\ next(pr).pc = "update" /\ next(pr).todo = op[a].todo /\ next(pr).dirs = op[a].dirs
                /\ next(pr).pairs = op[a].pairs \ {pr}
    BY <1>o, <2>1 DEF OpType
  <2> HIDE DEF folder, next
  <2>5. \A pr \in op[a].pairs : CanRepath(pr.id, pr.path)
    BY <2>2 DEF PairsFit, CanRepath, RowPaths
  <2>6. \/ op[a].pairs = {} /\ Goto(a, folder) /\ UNCHANGED rows
        \/ \E pr \in op[a].pairs : Repath(pr.id, pr.path) /\ Goto(a, next(pr))
    BY <1>3, <1>f, <2>5 DEF ReconcileUpdate, folder, next
  <2>7. CASE op[a].pairs = {} /\ Goto(a, folder) /\ UNCHANGED rows
    <3>1. op'[a] = folder
      BY <2>7, GotoMoves
    <3>2. \A v \in rows : Dir(v.path) \notin op[a].dirs => HasFileOrOdd(v)
      BY <2>2, <2>7 DEF Paired, HasFileOrOdd
    <3>3. AsListed(a)'
      BY <2>2, <2>3, <2>7, <3>1 DEF AsListed
    <3> QED  BY <1>s, <2>3, <2>7, <3>1, <3>2, <3>3 DEF Healing
  <2>8. ASSUME NEW pr \in op[a].pairs, Repath(pr.id, pr.path), Goto(a, next(pr)) PROVE Healing(a)'
    <3>1. op'[a] = next(pr)
      BY <2>8, GotoMoves
    <3>2. PICK v \in rows : v.id = pr.id /\ Dir(v.path) = Dir(pr.path)
      BY <2>2 DEF PairsFit
    <3>3. There(pr.path) /\ pr.path \notin RowPaths /\ Dir(pr.path) \notin op[a].dirs
      BY <2>2 DEF PairsFit
    <3> DEFINE new(w) == IF w.id = pr.id THEN [w EXCEPT !.path = pr.path] ELSE w
               moved == new(v)
    <3>4. rows' = {new(w) : w \in rows}
      BY <2>8 DEF Repath
    <3>5. moved.id = pr.id /\ moved.path = pr.path /\ \A w \in rows : w # v => new(w) = w
      BY <1>o, <3>2 DEF TableOK, Rows
    <3> HIDE DEF new
    <3>6. rows' = (rows \ {v}) \cup {moved}
      BY <3>4, <3>5
    <3> HIDE DEF moved
    <3>7. AsListed(a)'
      <4>1. {w \in rows' : Dir(w.path) \in op[a].dirs} = {w \in rows : Dir(w.path) \in op[a].dirs}
        BY <3>2, <3>3, <3>5, <3>6
      <4> QED  BY <2>2, <2>4, <3>1, <4>1 DEF AsListed
    <3>8. PairsFit(a)'
      <4> SUFFICES ASSUME NEW other \in op[a].pairs, other # pr
                   PROVE  /\ disk'[other.path] # Nothing /\ Dir(other.path) \notin op[a].dirs
                          /\ \A w \in rows' : w.path # other.path
                          /\ \E w \in rows' : w.id = other.id /\ Dir(w.path) = Dir(other.path)
        BY <2>2, <2>4, <3>1 DEF PairsFit, RowPaths, There
      <4>1. other.id # pr.id /\ other.path # pr.path
        BY <2>2 DEF PairsFit
      <4>2. There(other.path) /\ other.path \notin RowPaths /\ Dir(other.path) \notin op[a].dirs
        BY <2>2 DEF PairsFit
      <4>3. PICK w \in rows : w.id = other.id /\ Dir(w.path) = Dir(other.path)
        BY <2>2 DEF PairsFit
      <4>4. w \in rows'
        BY <3>2, <3>6, <4>1, <4>3
      <4> QED  BY <1>d, <3>5, <3>6, <4>1, <4>2, <4>3, <4>4 DEF RowPaths, There
    <3>9. ASSUME NEW w \in rows', Dir(w.path) \notin op[a].dirs
          PROVE  \/ There(w.path)' \/ Paired(a, w)'
                 \/ ~Balanced(Dir(w.path))' /\ \A other \in op'[a].pairs : Dir(other.path) # Dir(w.path)
      <4>1. CASE w = moved
        BY <1>d, <3>3, <3>5, <4>1 DEF There
      <4>2. CASE w # moved
        <5>1. w \in rows /\ w # v
          BY <3>6, <4>2
        <5>2. CASE There(w.path)
          BY <1>d, <5>2 DEF There
        <5>3. CASE Paired(a, w)
          <6>1. PICK other \in op[a].pairs : other.id = w.id
            BY <5>3 DEF Paired
          <6>2. other # pr
            BY <1>o, <3>2, <5>1, <6>1 DEF TableOK
          <6> QED  BY <2>4, <3>1, <6>1, <6>2 DEF Paired
        <5>4. CASE ~Balanced(Dir(w.path)) /\ \A other \in op[a].pairs : Dir(other.path) # Dir(w.path)
          <6>0. PICK e : e = Dir(w.path)
            OBVIOUS
          <6>1. \A p : Dir(p) = e => (p \in RowPaths' <=> p \in RowPaths)
            BY <3>2, <3>5, <3>6, <5>4, <6>0 DEF RowPaths
          <6>2. MissingIn(e)' = MissingIn(e) /\ UnclaimedIn(e)' = UnclaimedIn(e)
            BY <1>d, <6>1 DEF MissingIn, UnclaimedIn, There
          <6>3. ~Balanced(e)'
            BY <1>e, <5>4, <6>0, <6>2
          <6> QED  BY <2>4, <3>1, <5>4, <6>0, <6>3
        <5> QED  BY <2>2, <3>9, <5>1, <5>2, <5>3, <5>4
      <4> QED  BY <4>1, <4>2
    <3> QED  BY <2>4, <3>1, <3>7, <3>8, <3>9 DEF Healing
  <2> QED  BY <2>6, <2>7, <2>8
<1>4. CASE ReprobeList(a) /\ Healing(a)
  <2> DEFINE new == [op[a] EXCEPT !.todo = rows, !.pc = "probe"]
  <2>1. op[a].pc = "list" /\ UNCHANGED rows /\ op'[a] = new
    BY <1>4, GotoMoves DEF ReprobeList
  <2>2. new.pc = "probe" /\ new.todo = rows
    BY <1>o DEF OpType
  <2> HIDE DEF new
  <2>3. \A v \in rows : HasFileOrOdd(v)
    BY <1>4, <2>1 DEF Healing
  <2> QED  BY <1>s, <2>1, <2>2, <2>3 DEF Healing
<1>5. CASE ReprobeRead(a) /\ Healing(a)
  <2> DEFINE probed(v) == [v EXCEPT !.info = disk[v.path]]
             new(v) == [op[a] EXCEPT !.cur = probed(v), !.pc = "write"]
             skip(v) == [op[a] EXCEPT !.todo = @ \ {v}]
  <2>1. op[a].pc = "probe" /\ UNCHANGED rows
    BY <1>5 DEF ReprobeRead
  <2>2. PICK v \in op[a].todo : Goto(a, IF There(v.path) THEN new(v) ELSE skip(v))
    BY <1>5 DEF ReprobeRead
  <2>3. /\ op[a].todo \subseteq rows /\ \A w \in rows : HasFileOrOdd(w)
        /\ \A w \in rows : w \in op[a].todo \/ disk[w.path] = w.info \/ ~There(w.path)
    BY <1>5, <2>1 DEF Healing
  <2>4. probed(v).id = v.id /\ probed(v).path = v.path /\ probed(v).info = disk[v.path]
    BY <1>o, <2>2, <2>3 DEF TableOK, Rows
  <2>5. new(v).pc = "write" /\ new(v).todo = op[a].todo /\ new(v).cur = probed(v)
    BY <1>o DEF OpType
  <2>6. skip(v).pc = "probe" /\ skip(v).todo = op[a].todo \ {v}
    BY <1>o, <2>1 DEF OpType
  <2> HIDE DEF probed, new, skip
  <2>7. CASE There(v.path) /\ op'[a] = new(v)
    BY <1>d, <1>s, <2>1, <2>2, <2>3, <2>4, <2>5, <2>7 DEF Healing, There
  <2>8. CASE ~There(v.path) /\ op'[a] = skip(v)
    BY <1>d, <1>s, <2>1, <2>2, <2>3, <2>6, <2>8 DEF Healing, There
  <2> QED  BY <2>2, <2>7, <2>8, GotoMoves
<1>6. CASE ReprobeWrite(a) /\ Healing(a)
  <2> DEFINE c == op[a].cur
             rest == {w \in op[a].todo : w.id # c.id}
             new == [op[a] EXCEPT !.todo = rest, !.cur = NoRow, !.pc = "probe"]
  <2>1. op[a].pc = "write" /\ op'[a] = new /\ Upsert(c.path, c.part, c.info)
    BY <1>6, <1>f, GotoMoves DEF ReprobeWrite
  <2>2. /\ op[a].todo \subseteq rows /\ \A w \in rows : HasFileOrOdd(w)
        /\ \A w \in rows : w \in op[a].todo \/ disk[w.path] = w.info \/ ~There(w.path)
    BY <1>6, <2>1 DEF Healing
  <2>3. PICK v \in op[a].todo : c.id = v.id /\ c.path = v.path /\ c.info = disk[v.path]
    BY <1>6, <2>1 DEF Healing
  <2>4. c \in Rows /\ c.part \in Nat /\ c.info \in Files
    BY <1>o, <2>1 DEF Inv, OpsOK, HasRow, OpType, Rows
  <2>5. new.pc = "probe" /\ new.todo = rest
    BY <1>o DEF OpType
  <2>6. v \in rows /\ \A w \in rest : w \in rows /\ w # v
    BY <2>2, <2>3
  <2>7. rest = op[a].todo \ {v}
    BY <1>o, <2>2, <2>3 DEF TableOK
  <2> HIDE DEF new, rest
  <2>8. /\ RowPaths' = RowPaths
        /\ \A w \in rows : w # v => w \in rows'
        /\ \A w \in rows' : w \in rows \ {v} \/ (w.path = v.path /\ w.info = disk[v.path])
    BY <1>o, <2>1, <2>3, <2>4, <2>6, UpsertInPlace
  <2>9. \A w \in rows' : \E x \in rows : x.path = w.path
    BY <2>6, <2>8
  <2>10. \A w \in rows' : HasFileOrOdd(w)'
    <3> SUFFICES ASSUME NEW w \in rows' PROVE HasFileOrOdd(w)'
      OBVIOUS
    <3>1. PICK x \in rows : x.path = w.path
      BY <2>9
    <3> QED  BY <1>b, <1>d, <2>2, <2>8, <3>1 DEF HasFileOrOdd, There
  <2>11. \A w \in rows' : w \in rest \/ disk'[w.path] = w.info \/ disk'[w.path] = Nothing
    BY <1>d, <2>2, <2>7, <2>8 DEF There
  <2> QED  BY <2>1, <2>5, <2>6, <2>8, <2>10, <2>11 DEF Healing, There
<1>7. CASE RefreshDone(a)
  <2>1. op'[a].pc = "idle"
    BY <1>7, GotoMoves, IdleTyped DEF RefreshDone
  <2> QED  BY <2>1 DEF Healing
<1> QED  BY <1>1, <1>2, <1>3, <1>4, <1>5, <1>6, <1>7 DEF Refresh

LEMMA HealInvInductive ==
  ASSUME Inv, CalmAlone, HealInv, [Next]_vars
  PROVE  CalmAlone' /\ HealInv'
<1>1. ASSUME NEW a \in Actors, Act(a), calm' PROVE CalmAlone' /\ HealInv'
  <2>1. /\ \A b \in Actors : b # a => op'[b].pc = "idle"
        /\ ~Starting(a) => calm /\ op[a].pc # "idle"
        /\ CalmAlone'
    BY <1>1, CalmStep
  <2>2. Healing(a)'
    <3>1. CASE Refresh(a)
      <4>1. RefreshStart(a) \/ op[a].pc # "idle"
        BY <3>1 DEF Refresh, ReconcileFolder, ReconcileUpdate, ReprobeList, ReprobeRead, ReprobeWrite, RefreshDone
      <4>2. RefreshStart(a) \/ Healing(a)
        BY <2>1, <4>1 DEF HealInv, Starting, Start
      <4>3. Inv'
        BY InvInductive
      <4> QED  BY <1>1, <3>1, <4>2, <4>3, RefreshHealing
    <3>2. CASE ~Refresh(a)
      BY <1>1, <3>2, ActorMoves DEF Healing, RefreshSteps
    <3> QED  BY <3>1, <3>2
  <2> QED  BY <2>1, <2>2 DEF HealInv, Healing
<1>2. CASE External
  BY <1>2 DEF External, ExtRename, ExtReplace, ExtMoveFolder, Edit, CalmAlone, HealInv
<1>3. CASE CrashRestart
  BY <1>3 DEF CrashRestart, Fault, CalmAlone, HealInv
<1>4. CASE UNCHANGED vars
  <2>1. UNCHANGED <<rows, disk, op, calm>>
    BY <1>4 DEF vars
  <2>2. \A d : Balanced(d)' <=> Balanced(d)
    BY <2>1 DEF Balanced, Stale, There
  <2> QED  BY <2>1, <2>2 DEF CalmAlone, HealInv, Busy, Healing, AsListed, HasFileOrOdd, Paired, PairsFit, There, RowPaths
<1> QED  BY <1>1, <1>2, <1>3, <1>4 DEF Next, Act, Terminated, CalmAlone, HealInv

(* The refresh that ran alone, without fault or edit: every folder's stale  *)
(* rows and unclaimed files were paired off or differ in number, and every  *)
(* row with a file was probed from it.                                      *)
THEOREM RefreshHealsHolds == Spec => RefreshHeals
<1>1. ASSUME Init PROVE CalmAlone /\ HealInv
  <2>1. \A a \in Actors : op[a].pc = "idle"
    BY <1>1, IdleTyped DEF Init
  <2> QED  BY <2>1 DEF CalmAlone, HealInv, Healing, Busy
<1>2. Inv /\ CalmAlone /\ HealInv /\ [Next]_vars => CalmAlone' /\ HealInv'
  BY HealInvInductive
<1> DEFINE Healed == \A v \in rows' : \/ disk[v.path] = v.info
                                      \/ ~There(v.path) /\ ~Balanced(Dir(v.path))
<1>3. HealInv /\ [Next]_vars => [(\E a \in Actors : RefreshDone(a)) /\ calm => Healed]_vars
  <2> SUFFICES ASSUME HealInv, calm, NEW a \in Actors, RefreshDone(a) PROVE Healed
    OBVIOUS
  <2>1. op[a].pc = "probe" /\ op[a].todo = {} /\ rows' = rows
    BY DEF RefreshDone
  <2>2. Healing(a)
    BY DEF HealInv
  <2> QED  BY <2>1, <2>2 DEF Healing, HasFileOrOdd
<1> QED  BY <1>1, <1>2, <1>3, InvHolds, PTL DEF Spec, RefreshHeals

-----------------------------------------------------------------------------
(* The parts of a disc that no external tool touches: rows outside VIDEO_TS *)
(* have their file and a canonical name, every VOB has a row, and so there  *)
(* is nothing for a refresh to pair.                                        *)
VtsEmpty == \A p \in InDir("VIDEO_TS") : ~There(p)
VobsKnown == \A p \in InDir("VIDEO_TS") : There(p) => p \in RowPaths
RowsPlaced == \A v \in rows : Dir(v.path) = "VIDEO_TS" \/ (There(v.path) /\ Canon[v.path] = v.path)
DiscMoving(a) ==
    /\ Dir(op[a].cur.path) = "VIDEO_TS" /\ ~There(op[a].cur.path)
    /\ There(Dest(a)) /\ Tells(op[a].cur.part, disk[Dest(a)]) /\ Dest(a) \notin RowPaths
DiscOp(a) ==
    /\ op[a].pairs = {} /\ op[a].pc # "walk"
    /\ op[a].pc \in {"plan", "look", "apply", "delete", "probe", "write"} => op[a].todo \subseteq rows
    /\ op[a].pc \in {"look", "apply", "delete"} => op[a].cur \in rows
    /\ op[a].pc \in {"look", "apply"} => Dest(a) # op[a].cur.path
    /\ op[a].pc = "apply" => ~There(Dest(a))
    /\ op[a].pc \in {"delete", "insert"} => DiscMoving(a)
    /\ op[a].pc = "insert" => op[a].todo \ {op[a].cur} \subseteq rows
    /\ op[a].pc \in {"folder", "update"} => op[a].todo = rows
    /\ op[a].pc = "write" =>
         \E w \in op[a].todo : w.id = op[a].cur.id /\ w.path = op[a].cur.path /\ w.part = op[a].cur.part
    /\ op[a].pc \in RemuxSteps => op[a].made \subseteq op[a].titles
    /\ op[a].pc \in {"preserve", "make"} => op[a].made = {}
    /\ op[a].pc \in {"make", "move", "place", "swap"} => VtsEmpty
    /\ op[a].pc = "place" =>
         \A t \in op[a].titles \ op[a].made : Earliest(t, op[a].titles \ op[a].made) => ~There(TitlePath(a, t))
    /\ op[a].pc \in {"move", "place", "swap", "upsert"} => \A t \in op[a].made : disk[TitlePath(a, t)] = Mkv[t]
DiscTable == VobsKnown /\ RowsPlaced /\ PartsKeepTheirFile
DiscInv ==
    /\ kinds \cap {"drift", "edit"} = {}
    /\ DiscTable
    /\ \A a \in Actors : DiscOp(a)

(* The parts of a recording without a disc: whatever a row, a listing or a  *)
(* pair names, the file of that slot is in the same folder, or the folder   *)
(* is one that has been moved away, and is of the part the row says.        *)
PathNamed(p, Slot) ==
    /\ Dir(p) \notin Disc /\ ("drift" \in kinds => Dir(p) \in DriftDirs)
    /\ \E q \in Paths : /\ There(q) /\ Slot[q] = Slot[p]
                        /\ \/ Dir(q) = Dir(p)
                           \/ {Dir(p), Dir(q)} \subseteq DriftDirs /\ \A r \in InDir(Dir(p)) : ~There(r)
RowNamed(v, Slot) ==
    /\ PathNamed(v.path, Slot)
    /\ \A p \in Paths : There(p) /\ Slot[p] = Slot[v.path] => Tells(v.part, disk[p])
NamedOp(a, Slot) ==
    /\ op[a].pc \notin RemuxSteps
    /\ \A v \in op[a].todo : RowNamed(v, Slot)
    /\ op[a].cur # NoRow => RowNamed(op[a].cur, Slot)
    /\ op[a].pc # "update" => op[a].pairs = {}
    /\ op[a].pc = "update" =>
         \A pr \in op[a].pairs : /\ PathNamed(pr.path, Slot)
                                 /\ \A w \in rows : w.id = pr.id => Slot[w.path] = Slot[pr.path]
    /\ op[a].pc \in {"folder", "update"} => /\ OnePerSlot(op[a].todo, Slot)
                                            /\ \A v, w \in op[a].todo : v.id = w.id => v = w
    /\ op[a].pc \in {"folder", "update", "walk"} =>
         \A v \in op[a].todo, w \in rows : v.id = w.id => Slot[v.path] = Slot[w.path]
    /\ op[a].pc \in {"plan", "look", "apply", "delete"} => op[a].todo \subseteq rows
    /\ op[a].pc \in {"look", "apply", "delete"} => op[a].cur \in rows
    /\ op[a].pc \in {"look", "apply"} => Dest(a) # op[a].cur.path
    /\ op[a].pc = "insert" => /\ op[a].todo \ {op[a].cur} \subseteq rows
                              /\ \A w \in rows : Slot[w.path] # Slot[op[a].cur.path]
    /\ op[a].pc \in {"probe", "write"} => \A v \in op[a].todo : v.path \in RowPaths
    /\ op[a].pc = "write" => op[a].cur.path \in RowPaths
    /\ op[a].pc = "walk" => op[a].dirs \subseteq DriftDirs /\ "drift" \in kinds
NamedTable(Slot) ==
    /\ FilesApart(disk, Slot) /\ OnePerSlot(rows, Slot)
    /\ \A v \in rows : RowNamed(v, Slot)
NamedInv(Slot) ==
    /\ "remux" \notin kinds
    /\ NamedTable(Slot)
    /\ \A a \in Actors : NamedOp(a, Slot)

-----------------------------------------------------------------------------
(* A disc keeps its parts.                                                  *)

LEMMA DiscSame ==
  ASSUME DiscTable, UNCHANGED <<rows, disk>>
  PROVE  DiscTable'
BY DEF DiscTable, VobsKnown, RowsPlaced, PartsKeepTheirFile, RowPaths, There

LEMMA DiscRename ==
  ASSUME Inv, TemplatesApart, DiscTable, NEW a \in Actors, DiscOp(a), Rename(a)
  PROVE  DiscTable' /\ DiscOp(a)'
<1> USE DEF RemuxSteps
<1>o. op[a] \in OpType
  BY OpTyped
<1>t. rows \subseteq Rows /\ \A v, w \in rows : v.id = w.id \/ v.path = w.path => v = w
  BY DEF Inv, TableOK
<1>d. disk \in [Paths -> Files \cup {Nothing}] /\ Nothing \notin Files /\ Canon \in [Paths -> Paths]
  BY ConstantsAssumption DEF Inv, DiskOK
<1>r. \A v \in Rows : v.path \in Paths /\ v.part \in Nat /\ v.info \in Files
  BY DEF Rows
<1>i. ASSUME Goto(a, Idle) PROVE DiscOp(a)'
  BY <1>i, GotoMoves, IdleTyped DEF DiscOp, Idle
<1>p. ASSUME op'[a].pc = "plan", op'[a].pairs = {}, op'[a].todo \subseteq rows' PROVE DiscOp(a)'
  BY <1>p DEF DiscOp
<1>n. op'[a] = NextRename(a) =>
        op'[a].pc = "plan" /\ op'[a].pairs = op[a].pairs /\ op'[a].todo = op[a].todo \ {op[a].cur}
  BY <1>o DEF NextRename, OpType
<1>1. CASE RenameStart(a)
  <2>1. op'[a] = [Idle EXCEPT !.pc = "plan", !.todo = rows] /\ UNCHANGED <<rows, disk>>
    BY <1>1, GotoMoves DEF RenameStart, Start
  <2>2. op'[a].pc = "plan" /\ op'[a].todo = rows /\ op'[a].pairs = {}
    BY <2>1 DEF Idle
  <2> QED  BY <1>p, <2>1, <2>2, DiscSame
<1>2. CASE RenamePlan(a)
  <2>1. op[a].pc = "plan" /\ op[a].todo \subseteq rows /\ op[a].pairs = {} /\ UNCHANGED <<rows, disk>>
    BY <1>2 DEF RenamePlan, DiscOp
  <2>2. ASSUME NEW v \in op[a].todo, There(v.path), Canon[v.path] # v.path,
               Goto(a, [op[a] EXCEPT !.cur = v, !.pc = "look"])
        PROVE  DiscOp(a)'
    <3>0. op'[a] = [op[a] EXCEPT !.cur = v, !.pc = "look"]
      BY <2>2, GotoMoves
    <3>1. op'[a].pc = "look" /\ op'[a].cur = v /\ op'[a].todo = op[a].todo /\ op'[a].pairs = {}
      BY <1>o, <2>1, <3>0 DEF OpType
    <3> QED  BY <2>1, <2>2, <3>1 DEF DiscOp, Dest
  <2>3. ASSUME NEW v \in op[a].todo, Goto(a, [op[a] EXCEPT !.todo = @ \ {v}]) PROVE DiscOp(a)'
    <3>0. op'[a] = [op[a] EXCEPT !.todo = @ \ {v}]
      BY <2>3, GotoMoves
    <3>1. op'[a].pc = "plan" /\ op'[a].todo \subseteq op[a].todo /\ op'[a].pairs = {}
      BY <1>o, <2>1, <3>0 DEF OpType
    <3> QED  BY <1>p, <2>1, <3>1
  <2> QED  BY <1>2, <1>i, <2>1, <2>2, <2>3, DiscSame DEF RenamePlan
<1>3. CASE RenameLook(a)
  <2>1. /\ op[a].pc = "look" /\ op[a].todo \subseteq rows /\ op[a].pairs = {} /\ op[a].cur \in rows
        /\ Dest(a) # op[a].cur.path /\ UNCHANGED <<rows, disk>>
    BY <1>3 DEF RenameLook, DiscOp
  <2>2. CASE Goto(a, NextRename(a))
    BY <1>n, <1>p, <2>1, <2>2, GotoMoves, DiscSame
  <2>3. CASE ~There(Dest(a)) /\ Goto(a, [op[a] EXCEPT !.pc = "apply"])
    <3>1. op'[a].pc = "apply" /\ op'[a].cur = op[a].cur /\ op'[a].todo = op[a].todo /\ op'[a].pairs = {}
      BY <1>o, <2>1, <2>3, GotoMoves DEF OpType
    <3>2. Dest(a)' = Dest(a) /\ ~There(Dest(a))'
      BY <2>1, <2>3, <3>1 DEF Dest, There
    <3> QED  BY <2>1, <3>1, <3>2, DiscSame DEF DiscOp
  <2> QED  BY <1>3, <2>2, <2>3 DEF RenameLook, Dest
<1>4. CASE RenameApply(a)
  <2> DEFINE v == op[a].cur
             dest == Canon[v.path]
  <2>1. /\ op[a].pc = "apply" /\ ~There(dest) /\ op[a].todo \subseteq rows /\ op[a].pairs = {} /\ v \in rows
        /\ dest # v.path /\ UNCHANGED rows
    BY <1>4 DEF RenameApply, DiscOp, Dest
  <2>2. CASE Goto(a, NextRename(a)) /\ UNCHANGED disk
    BY <1>n, <1>p, <2>1, <2>2, GotoMoves, DiscSame
  <2>3. CASE /\ ~There(dest) /\ There(v.path)
             /\ disk' = [disk EXCEPT ![v.path] = Nothing, ![dest] = disk[v.path]]
             /\ Goto(a, [op[a] EXCEPT !.pc = "delete"])
    <3>1. v.path \in Paths /\ dest \in Paths
      BY <1>d, <1>r, <1>t, <2>1
    <3>2. /\ Dir(v.path) = "VIDEO_TS" /\ Dir(dest) # "VIDEO_TS" /\ dest \notin RowPaths
          /\ Tells(v.part, disk[v.path])
      BY <2>1, <2>3, <3>1 DEF DiscTable, RowsPlaced, PartsKeepTheirFile, TemplatesApart, RowPaths
    <3>3. /\ \A p \in Paths : disk'[p] = IF p = dest THEN disk[v.path] ELSE IF p = v.path THEN Nothing ELSE disk[p]
          /\ disk[v.path] # Nothing
      BY <1>d, <2>1, <2>3, <3>1 DEF There
    <3>4. RowsPlaced' /\ VobsKnown' /\ PartsKeepTheirFile'
      <4>1. RowsPlaced'
        BY <1>r, <1>t, <2>1, <3>2, <3>3 DEF DiscTable, RowsPlaced, There
      <4>2. VobsKnown'
        BY <2>1, <3>2, <3>3 DEF DiscTable, VobsKnown, There, RowPaths, InDir
      <4>3. PartsKeepTheirFile'
        BY <1>r, <1>t, <2>1, <3>2, <3>3 DEF DiscTable, PartsKeepTheirFile, There, RowPaths
      <4> QED  BY <4>1, <4>2, <4>3
    <3>5. op'[a].pc = "delete" /\ op'[a].cur = v /\ op'[a].todo = op[a].todo /\ op'[a].pairs = op[a].pairs
      BY <1>o, <2>3, GotoMoves DEF OpType
    <3>6. DiscMoving(a)'
      BY <2>1, <3>1, <3>2, <3>3, <3>5 DEF DiscMoving, Dest, There, RowPaths
    <3> QED  BY <2>1, <3>4, <3>5, <3>6 DEF DiscOp, DiscTable
  <2> QED  BY <1>4, <2>1, <2>2, <2>3 DEF RenameApply
<1>5. CASE RenameDelete(a)
  <2> DEFINE v == op[a].cur
  <2>1. /\ op[a].pc = "delete" /\ op[a].todo \subseteq rows /\ op[a].pairs = {} /\ v \in rows
        /\ DiscMoving(a) /\ UNCHANGED disk
    BY <1>5 DEF RenameDelete, DiscOp
  <2>2. CASE Goto(a, NextRename(a)) /\ UNCHANGED rows
    BY <1>n, <1>p, <2>1, <2>2, GotoMoves, DiscSame
  <2>3. CASE rows' = {w \in rows : w.id # v.id} /\ Goto(a, [op[a] EXCEPT !.pc = "insert"])
    <3>1. rows' = rows \ {v}
      BY <1>t, <2>1, <2>3
    <3>2. DiscTable'
      <4>1. RowsPlaced' /\ PartsKeepTheirFile'
        BY <2>1, <3>1 DEF DiscTable, RowsPlaced, PartsKeepTheirFile, There
      <4>2. VobsKnown'
        BY <2>1, <3>1 DEF DiscTable, VobsKnown, There, RowPaths, DiscMoving
      <4> QED  BY <4>1, <4>2 DEF DiscTable
    <3>3. op'[a].pc = "insert" /\ op'[a].cur = v /\ op'[a].todo = op[a].todo /\ op'[a].pairs = op[a].pairs
      BY <1>o, <2>3, GotoMoves DEF OpType
    <3>4. DiscMoving(a)'
      BY <2>1, <3>1, <3>3 DEF DiscMoving, Dest, There, RowPaths
    <3> QED  BY <2>1, <3>1, <3>2, <3>3, <3>4 DEF DiscOp
  <2> QED  BY <1>5, <2>2, <2>3 DEF RenameDelete
<1>6. CASE RenameInsert(a)
  <2> DEFINE v == op[a].cur
             dest == Canon[v.path]
  <2>1. /\ op[a].pc = "insert" /\ op[a].todo \ {v} \subseteq rows /\ op[a].pairs = {} /\ v \in Rows
        /\ DiscMoving(a) /\ UNCHANGED disk /\ Goto(a, NextRename(a))
    BY <1>6, OpTyped DEF RenameInsert, DiscOp
  <2>2. CASE UNCHANGED rows
    BY <1>n, <1>p, <2>1, <2>2, GotoMoves, DiscSame
  <2>3. CASE Upsert(dest, v.part, v.info)
    <3> DEFINE row == [id |-> nextId, path |-> dest, part |-> v.part, info |-> v.info]
    <3>1. rows' = rows \cup {row}
      BY <2>1, <2>3 DEF Upsert, DiscMoving, Dest, RowPaths
    <3>2. row.path = dest /\ row.part = v.part
      OBVIOUS
    <3>3. There(dest) /\ Tells(v.part, disk[dest]) /\ Canon[dest] = dest
      BY <1>r, <2>1 DEF DiscMoving, Dest, TemplatesApart
    <3> HIDE DEF row
    <3>4. DiscTable'
      <4>1. RowsPlaced' /\ PartsKeepTheirFile'
        BY <2>1, <3>1, <3>2, <3>3 DEF DiscTable, RowsPlaced, PartsKeepTheirFile, There
      <4>2. VobsKnown'
        BY <2>1, <3>1 DEF DiscTable, VobsKnown, There, RowPaths
      <4> QED  BY <4>1, <4>2 DEF DiscTable
    <3>5. op'[a].todo \subseteq rows'
      BY <1>n, <2>1, <3>1, GotoMoves
    <3> QED  BY <1>n, <1>p, <2>1, <3>4, <3>5, GotoMoves
  <2> QED  BY <1>6, <2>2, <2>3 DEF RenameInsert
<1> QED  BY <1>1, <1>2, <1>3, <1>4, <1>5, <1>6 DEF Rename

LEMMA DiscRefresh ==
  ASSUME Inv, DiscTable, NEW a \in Actors, DiscOp(a), Refresh(a)
  PROVE  DiscTable' /\ DiscOp(a)'
<1> USE DEF RemuxSteps
<1>o. op[a] \in OpType
  BY OpTyped
<1>t. rows \subseteq Rows /\ TableOK /\ \A v, w \in rows : v.id = w.id \/ v.path = w.path => v = w
  BY DEF Inv, TableOK
<1>l. ASSUME Goto(a, [Idle EXCEPT !.pc = "list"]) PROVE DiscOp(a)'
  <2>1. op'[a] = [Idle EXCEPT !.pc = "list"]
    BY <1>l, GotoMoves
  <2>2. op'[a].pc = "list" /\ op'[a].pairs = {}
    BY <2>1 DEF Idle
  <2> QED  BY <2>2 DEF DiscOp
<1>1. CASE RefreshStart(a)
  <2>1. /\ op'[a] = [Idle EXCEPT !.pc = "folder", !.todo = rows, !.dirs = {Dir(v.path) : v \in rows}]
        /\ UNCHANGED <<rows, disk>>
    BY <1>1, GotoMoves DEF RefreshStart, Start
  <2>2. op'[a].pc = "folder" /\ op'[a].todo = rows /\ op'[a].pairs = {}
    BY <2>1 DEF Idle
  <2> QED  BY <2>1, <2>2, DiscSame DEF DiscOp
<1>2. CASE ReconcileFolder(a)
  <2> DEFINE d == CHOOSE d \in op[a].dirs : TRUE
             here == {v \in op[a].todo : Dir(v.path) = d}
             free == Unmatched(d, here)
             pairs == IF Cardinality(free) = Cardinality(Stale(here)) THEN Pairing(Stale(here), free) ELSE {}
             new == [op[a] EXCEPT !.dirs = @ \ {d}, !.pairs = pairs, !.pc = "update"]
  <2>1. op[a].pc = "folder" /\ op[a].todo = rows /\ UNCHANGED <<rows, disk>>
    BY <1>2 DEF ReconcileFolder, DiscOp
  <2>2. Stale(here) = {} \/ free = {}
    <3>1. CASE d = "VIDEO_TS"
      BY <2>1, <3>1 DEF Unmatched, DiscTable, VobsKnown, RowPaths, InDir
    <3>2. CASE d # "VIDEO_TS"
      BY <2>1, <3>2 DEF Stale, DiscTable, RowsPlaced
    <3> QED  BY <3>1, <3>2
  <2>3. pairs = {}
    BY <2>2 DEF Pairing
  <2>4. Goto(a, IF op[a].dirs = {} THEN [Idle EXCEPT !.pc = "list"] ELSE new)
    BY <1>2 DEF ReconcileFolder
  <2> HIDE DEF d, pairs
  <2>5. CASE Goto(a, new)
    <3>0. op'[a] = new
      BY <2>5, GotoMoves
    <3>1. op'[a].pc = "update" /\ op'[a].todo = op[a].todo /\ op'[a].pairs = pairs
      BY <1>o, <3>0 DEF OpType
    <3> QED  BY <2>1, <2>3, <3>1, DiscSame DEF DiscOp
  <2> HIDE DEF new
  <2> QED  BY <1>l, <2>1, <2>4, <2>5, DiscSame
<1>3. CASE ReconcileUpdate(a)
  <2>1. op[a].pc = "update" /\ op[a].todo = rows /\ op[a].pairs = {} /\ UNCHANGED disk
    BY <1>3 DEF ReconcileUpdate, DiscOp
  <2>2. UNCHANGED rows /\ Goto(a, [op[a] EXCEPT !.pc = "folder"])
    BY <1>3, <2>1 DEF ReconcileUpdate
  <2>3. op'[a].pc = "folder" /\ op'[a].todo = op[a].todo /\ op'[a].pairs = op[a].pairs
    BY <1>o, <2>2, GotoMoves DEF OpType
  <2> QED  BY <2>1, <2>2, <2>3, DiscSame DEF DiscOp
<1>4. CASE ReprobeList(a)
  <2>0. op[a].pairs = {} /\ UNCHANGED <<rows, disk>> /\ Goto(a, [op[a] EXCEPT !.todo = rows, !.pc = "probe"])
    BY <1>4 DEF ReprobeList, DiscOp
  <2>1. op'[a] = [op[a] EXCEPT !.todo = rows, !.pc = "probe"]
    BY <2>0, GotoMoves
  <2>2. op'[a].pc = "probe" /\ op'[a].todo = rows /\ op'[a].pairs = op[a].pairs
    BY <1>o, <2>1 DEF OpType
  <2> QED  BY <2>0, <2>2, DiscSame DEF DiscOp
<1>5. CASE ReprobeRead(a)
  <2>1. op[a].pc = "probe" /\ op[a].todo \subseteq rows /\ op[a].pairs = {} /\ UNCHANGED <<rows, disk>>
    BY <1>5 DEF ReprobeRead, DiscOp
  <2>2. ASSUME NEW v \in op[a].todo,
               Goto(a, [op[a] EXCEPT !.cur = [v EXCEPT !.info = disk[v.path]], !.pc = "write"])
        PROVE  DiscOp(a)'
    <3>0. op'[a] = [op[a] EXCEPT !.cur = [v EXCEPT !.info = disk[v.path]], !.pc = "write"]
      BY <2>2, GotoMoves
    <3>1. /\ op'[a].pc = "write" /\ op'[a].todo = op[a].todo /\ op'[a].pairs = op[a].pairs
          /\ op'[a].cur = [v EXCEPT !.info = disk[v.path]]
      BY <1>o, <3>0 DEF OpType
    <3>2. v \in Rows
      BY <1>t, <2>1
    <3>3. op'[a].cur.id = v.id /\ op'[a].cur.path = v.path /\ op'[a].cur.part = v.part
      BY <3>1, <3>2 DEF Rows
    <3> QED  BY <2>1, <3>1, <3>3 DEF DiscOp
  <2>3. ASSUME NEW v \in op[a].todo, Goto(a, [op[a] EXCEPT !.todo = @ \ {v}]) PROVE DiscOp(a)'
    <3>1. op'[a].pc = "probe" /\ op'[a].todo \subseteq op[a].todo /\ op'[a].pairs = op[a].pairs
      BY <1>o, <2>1, <2>3, GotoMoves DEF OpType
    <3> QED  BY <2>1, <3>1 DEF DiscOp
  <2> QED  BY <1>5, <2>1, <2>2, <2>3, DiscSame DEF ReprobeRead
<1>6. CASE ReprobeWrite(a)
  <2> DEFINE v == op[a].cur
             rest == {w \in op[a].todo : w.id # v.id}
  <2>0. /\ op[a].pc = "write" /\ op[a].todo \subseteq rows /\ op[a].pairs = {} /\ v \in Rows
        /\ UNCHANGED disk /\ Goto(a, [op[a] EXCEPT !.todo = rest, !.cur = NoRow, !.pc = "probe"])
    BY <1>6, OpTyped DEF ReprobeWrite, DiscOp
  <2>1. PICK w \in op[a].todo : w.id = v.id /\ w.path = v.path /\ w.part = v.part
    BY <2>0 DEF DiscOp
  <2>2. op'[a] = [op[a] EXCEPT !.todo = rest, !.cur = NoRow, !.pc = "probe"]
    BY <2>0, GotoMoves
  <2>3. op'[a].pc = "probe" /\ op'[a].todo = rest /\ op'[a].pairs = op[a].pairs
    BY <1>o, <2>2 DEF OpType
  <2>4. CASE UNCHANGED rows
    BY <2>0, <2>3, <2>4, DiscSame DEF DiscOp
  <2>5. CASE Upsert(v.path, v.part, v.info)
    <3>1. v.part \in Nat /\ v.info \in Files /\ w \in rows
      BY <2>0, <2>1 DEF Rows
    <3> DEFINE new(u) == IF u.path = w.path THEN [u EXCEPT !.part = v.part, !.info = v.info] ELSE u
    <3>2. rows' = {new(u) : u \in rows}
      BY <2>1, <2>5, <3>1 DEF Upsert
    <3>3. \A u \in rows : /\ new(u).path = u.path
                          /\ new(u).part = u.part
                          /\ u # w => new(u) = u
      BY <1>t, <2>1, <3>1 DEF Rows
    <3> HIDE DEF new
    <3>4. DiscTable'
      BY <2>0, <3>2, <3>3 DEF DiscTable, VobsKnown, RowsPlaced, PartsKeepTheirFile, RowPaths, There
    <3>5. op'[a].todo \subseteq rows'
      BY <1>t, <2>0, <2>1, <2>3, <3>2, <3>3
    <3> QED  BY <2>0, <2>3, <3>4, <3>5 DEF DiscOp
  <2> QED  BY <1>6, <2>4, <2>5 DEF ReprobeWrite
<1>7. CASE RefreshDone(a)
  <2>1. UNCHANGED <<rows, disk>> /\ Goto(a, Idle)
    BY <1>7 DEF RefreshDone
  <2> QED  BY <2>1, DiscSame, GotoMoves, IdleTyped DEF DiscOp, Idle
<1> QED  BY <1>1, <1>2, <1>3, <1>4, <1>5, <1>6, <1>7 DEF Refresh

LEMMA DiscRemux ==
  ASSUME Inv, TemplatesApart, TitlesTell, DiscTable, NEW a \in Actors, DiscOp(a), Remux(a)
  PROVE  DiscTable' /\ DiscOp(a)'
<1> USE DEF RemuxSteps
<1>o. op[a] \in OpType
  BY OpTyped
<1>t. rows \subseteq Rows /\ TableOK
  BY DEF Inv, TableOK
<1>r. \A v \in Rows : v.path \in Paths
  BY DEF Rows
<1>d. disk \in [Paths -> Files \cup {Nothing}] /\ Nothing \notin Files
  BY ConstantsAssumption DEF Inv, DiskOK
<1>i. ASSUME Goto(a, Idle) PROVE DiscOp(a)'
  BY <1>i, GotoMoves, IdleTyped DEF DiscOp, Idle
<1>x. op'[a].titles = op[a].titles => \A t : TitlePath(a, t)' = TitlePath(a, t)
  BY DEF TitlePath, PartOfTitle
<1>1. CASE \E titles \in (SUBSET Titles) \ {{}} : RemuxStart(a, titles)
  <2>1. PICK titles : RemuxStart(a, titles)
    BY <1>1
  <2>2. op'[a] = [Idle EXCEPT !.pc = "preserve", !.titles = titles] /\ UNCHANGED <<rows, disk>>
    BY <2>1, GotoMoves DEF RemuxStart, Start
  <2>3. op'[a].pc = "preserve" /\ op'[a].made = {} /\ op'[a].pairs = {}
    BY <2>2 DEF Idle
  <2> QED  BY <2>2, <2>3, DiscSame DEF DiscOp
<1>2. CASE Preserve(a)
  <2> DEFINE vts == {p \in InDir("VIDEO_TS") : There(p)}
             kept == {p \in InDir("original") : There(p)}
  <2>1. op[a].pc = "preserve" /\ op[a].made = {} /\ op[a].pairs = {} /\ UNCHANGED rows
    BY <1>2 DEF Preserve, DiscOp
  <2>2. CASE UNCHANGED disk /\ Goto(a, Idle)
    BY <1>i, <2>1, <2>2, DiscSame
  <2>m. Goto(a, [op[a] EXCEPT !.pc = "make"]) =>
          op'[a].pc = "make" /\ op'[a].made = {} /\ op'[a].pairs = {}
    BY <1>o, <2>1, GotoMoves DEF OpType
  <2>3. CASE UNCHANGED disk /\ vts = {} /\ Goto(a, [op[a] EXCEPT !.pc = "make"])
    BY <2>1, <2>m, <2>3, DiscSame DEF DiscOp, VtsEmpty, There, InDir
  <2>4. CASE /\ kept = {}
             /\ disk' = [p \in Paths |->
                    IF Dir(p) = "VIDEO_TS" THEN Nothing
                    ELSE IF Dir(p) = "original" THEN disk[<<"VIDEO_TS", Base(p)>>]
                    ELSE disk[p]]
             /\ Goto(a, [op[a] EXCEPT !.pc = "make"])
    <3>1. \A v \in rows : /\ v.path \in Paths /\ Dir(v.path) # "original"
                          /\ Dir(v.path) # "VIDEO_TS" => disk'[v.path] = disk[v.path]
                          /\ Dir(v.path) = "VIDEO_TS" => disk'[v.path] = Nothing
      BY <1>r, <1>t, <2>4 DEF DiscTable, RowsPlaced, InDir
    <3>2. VtsEmpty'
      BY <2>4 DEF VtsEmpty, InDir, There
    <3>3. DiscTable'
      BY <2>1, <3>1, <3>2 DEF DiscTable, VobsKnown, RowsPlaced, PartsKeepTheirFile, There, VtsEmpty
    <3> QED  BY <2>m, <2>4, <3>2, <3>3 DEF DiscOp
  <2> QED  BY <1>2, <2>2, <2>3, <2>4 DEF Preserve
<1>3. CASE MakeMKV(a)
  <2>1. op[a].pc = "make" /\ op[a].made = {} /\ op[a].pairs = {} /\ VtsEmpty /\ UNCHANGED <<rows, disk>>
    BY <1>3 DEF MakeMKV, DiscOp
  <2>2. CASE Goto(a, [op[a] EXCEPT !.pc = "move"])
    <3>1. op'[a].pc = "move" /\ op'[a].made = {} /\ op'[a].pairs = {}
      BY <1>o, <2>1, <2>2, GotoMoves DEF OpType
    <3> QED  BY <2>1, <3>1, DiscSame DEF DiscOp, VtsEmpty, There
  <2> QED  BY <1>3, <1>i, <2>1, <2>2, DiscSame DEF MakeMKV
<1>4. CASE MoveProduced(a)
  <2>1. /\ op[a].pc = "move" /\ op[a].made \subseteq op[a].titles /\ op[a].pairs = {} /\ VtsEmpty
        /\ \A t \in op[a].made : disk[TitlePath(a, t)] = Mkv[t]
        /\ UNCHANGED <<rows, disk>>
    BY <1>4 DEF MoveProduced, DiscOp
  <2>2. CASE Goto(a, [op[a] EXCEPT !.pc = "swap"])
    <3>1. op'[a].pc = "swap" /\ op'[a].made = op[a].made /\ op'[a].titles = op[a].titles /\ op'[a].pairs = {}
      BY <1>o, <2>1, <2>2, GotoMoves DEF OpType
    <3> QED  BY <1>x, <2>1, <2>2, <3>1, DiscSame DEF DiscOp, VtsEmpty, There
  <2>3. ASSUME NEW t \in Titles, Earliest(t, op[a].titles \ op[a].made), ~There(TitlePath(a, t)),
               Goto(a, [op[a] EXCEPT !.pc = "place"])
        PROVE  DiscTable' /\ DiscOp(a)'
    <3>1. op'[a].pc = "place" /\ op'[a].made = op[a].made /\ op'[a].titles = op[a].titles /\ op'[a].pairs = {}
      BY <1>o, <2>1, <2>3, GotoMoves DEF OpType
    <3>2. \A u \in op[a].titles \ op[a].made : Earliest(u, op[a].titles \ op[a].made) => u = t
      BY <1>o, <2>3, ConstantsAssumption DEF Earliest, OpType
    <3>3. /\ \A u \in op[a].titles : TitlePath(a, u)' = TitlePath(a, u)
          /\ \A u \in op[a].titles : There(TitlePath(a, u))' <=> There(TitlePath(a, u))
      BY <1>x, <2>1, <3>1 DEF There
    <3>4. op'[a].titles \ op'[a].made = op[a].titles \ op[a].made
      BY <3>1
    <3>5. \A u \in op'[a].titles \ op'[a].made :
             Earliest(u, op'[a].titles \ op'[a].made) => ~There(TitlePath(a, u))'
      BY <2>3, <3>1, <3>2, <3>3, <3>4
    <3>6. DiscTable' /\ VtsEmpty' /\ \A u \in op'[a].made : disk'[TitlePath(a, u)'] = Mkv[u]
      BY <1>x, <2>1, <3>1, DiscSame DEF VtsEmpty, There
    <3> QED  BY <2>1, <3>1, <3>5, <3>6 DEF DiscOp
  <2>4. CASE Goto(a, Idle)
    BY <1>i, <2>1, <2>4, DiscSame
  <2> QED  BY <1>4, <2>2, <2>3, <2>4 DEF MoveProduced, TitlePath
<1>5. CASE PlaceProduced(a)
  <2>1. /\ op[a].pc = "place" /\ op[a].made \subseteq op[a].titles /\ op[a].pairs = {} /\ VtsEmpty
        /\ \A t \in op[a].made : disk[TitlePath(a, t)] = Mkv[t]
        /\ UNCHANGED rows
    BY <1>5 DEF PlaceProduced, DiscOp
  <2>2. PICK t \in op[a].titles \ op[a].made :
          /\ Earliest(t, op[a].titles \ op[a].made) /\ disk' = [disk EXCEPT ![TitlePath(a, t)] = Mkv[t]]
          /\ Goto(a, [op[a] EXCEPT !.made = @ \cup {t}, !.pc = "move"])
    BY <1>5 DEF PlaceProduced, Earliest, TitlePath
  <2>3. ~There(TitlePath(a, t))
    BY <2>1, <2>2 DEF DiscOp
  <2>4. /\ op'[a].pc = "move" /\ op'[a].made = op[a].made \cup {t} /\ op'[a].titles = op[a].titles
        /\ op'[a].pairs = {}
    <3>1. op'[a] = [op[a] EXCEPT !.made = @ \cup {t}, !.pc = "move"]
      BY <2>2, GotoMoves
    <3> QED  BY <1>o, <2>1, <3>1 DEF OpType
  <2>5. /\ TitlePath(a, t) \in Paths /\ Mkv[t] \in Files /\ Dir(TitlePath(a, t)) # "VIDEO_TS"
        /\ \A u \in op[a].made : disk[TitlePath(a, u)] # Nothing /\ TitlePath(a, u) \in Paths
    BY <1>d, <2>1, <2>2, TitlePathTyped DEF TemplatesApart
  <2>6. \A p \in Paths : disk'[p] = IF p = TitlePath(a, t) THEN Mkv[t] ELSE disk[p]
    BY <1>d, <2>2, <2>5
  <2>7. TitlePath(a, t) \notin RowPaths
    BY <2>3, <2>5 DEF DiscTable, RowsPlaced, RowPaths
  <2>8. VtsEmpty'
    BY <2>1, <2>5, <2>6 DEF VtsEmpty, InDir, There
  <2>9. DiscTable'
    BY <1>r, <1>t, <2>1, <2>6, <2>7, <2>8 DEF DiscTable, VobsKnown, RowsPlaced, PartsKeepTheirFile, There, VtsEmpty, RowPaths
  <2>10. \A u \in op'[a].made : disk'[TitlePath(a, u)] = Mkv[u]
    BY <2>1, <2>3, <2>4, <2>5, <2>6 DEF There
  <2> QED  BY <1>x, <2>1, <2>2, <2>4, <2>8, <2>9, <2>10 DEF DiscOp
<1>6. CASE SwapDelete(a)
  <2>1. /\ op[a].pc = "swap" /\ op[a].made \subseteq op[a].titles /\ op[a].pairs = {} /\ VtsEmpty
        /\ \A t \in op[a].made : disk[TitlePath(a, t)] = Mkv[t]
        /\ UNCHANGED disk
    BY <1>6 DEF SwapDelete, DiscOp
  <2>2. CASE rows' = {} /\ Goto(a, [op[a] EXCEPT !.pc = "upsert"])
    <3>1. op'[a].pc = "upsert" /\ op'[a].made = op[a].made /\ op'[a].titles = op[a].titles /\ op'[a].pairs = {}
      BY <1>o, <2>1, <2>2, GotoMoves DEF OpType
    <3>2. DiscTable'
      BY <2>1, <2>2 DEF DiscTable, VobsKnown, RowsPlaced, PartsKeepTheirFile, VtsEmpty, There
    <3> QED  BY <1>x, <2>1, <3>1, <3>2 DEF DiscOp
  <2> QED  BY <1>6, <1>i, <2>1, <2>2, DiscSame DEF SwapDelete
<1>7. CASE SwapUpsert(a)
  <2>1. /\ op[a].pc = "upsert" /\ op[a].made \subseteq op[a].titles /\ op[a].pairs = {}
        /\ \A t \in op[a].made : disk[TitlePath(a, t)] = Mkv[t]
        /\ UNCHANGED disk
    BY <1>7 DEF SwapUpsert, DiscOp
  <2>2. ASSUME NEW t \in op[a].made, Upsert(TitlePath(a, t), PartOfTitle(a, t), Mkv[t]),
               Goto(a, [op[a] EXCEPT !.made = @ \ {t}])
        PROVE  DiscTable' /\ DiscOp(a)'
    <3> DEFINE p == TitlePath(a, t)
               part == PartOfTitle(a, t)
    <3>1. /\ op'[a].pc = "upsert" /\ op'[a].made = op[a].made \ {t} /\ op'[a].titles = op[a].titles
          /\ op'[a].pairs = {}
      BY <1>o, <2>1, <2>2, GotoMoves DEF OpType
    <3>2. /\ p \in MkvPaths /\ p \in Paths /\ part \in Nat /\ Mkv[t] \in Files /\ Canon[p] = p
          /\ disk[p] = Mkv[t] /\ There(p)
      BY <1>d, <2>1, <2>2, TitlePathTyped DEF TitlesTell, There
    <3>3. Tells(part, Mkv[t])
      <4>1. CASE Cardinality(op[a].titles) = 1
        BY <4>1 DEF PartOfTitle, Tells
      <4>2. CASE Cardinality(op[a].titles) # 1
        BY <2>1, <4>2, OpTyped DEF PartOfTitle, TitlesTell
      <4> QED  BY <4>1, <4>2
    <3>4. \A w \in rows' : w \in rows \/ (w.path = p /\ w.part = part /\ w.info = Mkv[t])
      BY <1>t, <2>2, <3>2, UpsertRows
    <3>5. RowPaths \subseteq RowPaths'
      <4>1. CASE \E v \in rows : v.path = p
        <5> DEFINE new(v) == IF v.path = p THEN [v EXCEPT !.part = part, !.info = Mkv[t]] ELSE v
        <5>1. rows' = {new(v) : v \in rows}
          BY <2>2, <4>1 DEF Upsert
        <5>2. \A v \in rows : new(v).path = v.path
          BY <1>t DEF Rows
        <5> HIDE DEF new
        <5> QED  BY <5>1, <5>2 DEF RowPaths
      <4>2. CASE ~\E v \in rows : v.path = p
        BY <2>2, <4>2 DEF Upsert, RowPaths
      <4> QED  BY <4>1, <4>2
    <3>6. DiscTable'
      <4>1. RowsPlaced' /\ PartsKeepTheirFile'
        BY <2>1, <3>2, <3>3, <3>4 DEF DiscTable, RowsPlaced, PartsKeepTheirFile, There
      <4>2. VobsKnown'
        BY <2>1, <3>5 DEF DiscTable, VobsKnown, There
      <4> QED  BY <4>1, <4>2 DEF DiscTable
    <3> QED  BY <1>x, <2>1, <3>1, <3>6 DEF DiscOp
  <2> QED  BY <1>7, <1>i, <2>1, <2>2, DiscSame DEF SwapUpsert, Earliest, TitlePath
<1> QED  BY <1>1, <1>2, <1>3, <1>4, <1>6, <1>7, <1>5 DEF Remux

-----------------------------------------------------------------------------
(* Names keep the parts of a recording without a disc.                      *)

(* A file renamed within its folder and slot.                               *)
LEMMA MoveKeepsNames ==
  ASSUME Inv, NEW Slot, FilesApart(disk, Slot), kinds' = kinds,
         NEW p \in Paths, NEW q \in Paths, There(p), ~There(q), Dir(p) = Dir(q), Slot[p] = Slot[q],
         disk' = [disk EXCEPT ![p] = Nothing, ![q] = disk[p]]
  PROVE  /\ FilesApart(disk, Slot)'
         /\ \A x : PathNamed(x, Slot) => PathNamed(x, Slot)'
         /\ \A v : RowNamed(v, Slot) => RowNamed(v, Slot)'
<1>1. \A x \in Paths : disk'[x] = IF x = q THEN disk[p] ELSE IF x = p THEN Nothing ELSE disk[x]
  BY DEF Inv, DiskOK
<1>2. FilesApart(disk, Slot)'
  BY <1>1 DEF FilesApart, There
<1>3. ASSUME NEW x, PathNamed(x, Slot) PROVE PathNamed(x, Slot)'
  <2>1. PICK y \in Paths : /\ There(y) /\ Slot[y] = Slot[x]
                           /\ \/ Dir(y) = Dir(x)
                              \/ {Dir(x), Dir(y)} \subseteq DriftDirs /\ \A r \in InDir(Dir(x)) : ~There(r)
    BY <1>3 DEF PathNamed
  <2>2. (\A r \in InDir(Dir(x)) : ~There(r)) => \A r \in InDir(Dir(x)) : ~There(r)'
    BY <1>1 DEF InDir, There
  <2>3. CASE y = p
    BY <1>1, <1>3, <2>1, <2>2, <2>3 DEF PathNamed, There
  <2>4. CASE y # p
    BY <1>1, <1>3, <2>1, <2>2, <2>4 DEF PathNamed, There
  <2> QED  BY <2>3, <2>4
<1>4. ASSUME NEW v, RowNamed(v, Slot) PROVE RowNamed(v, Slot)'
  BY <1>1, <1>3, <1>4 DEF RowNamed, There
<1> QED  BY <1>2, <1>3, <1>4

(* A file replaced in place by one that says no part.                       *)
LEMMA ReplaceKeepsNames ==
  ASSUME Inv, NEW Slot, FilesApart(disk, Slot), kinds' = kinds,
         NEW p \in Paths, There(p), NEW f \in Files, PartOf[f] = 0, disk' = [disk EXCEPT ![p] = f]
  PROVE  /\ FilesApart(disk, Slot)'
         /\ \A x : PathNamed(x, Slot) => PathNamed(x, Slot)'
         /\ \A v : RowNamed(v, Slot) => RowNamed(v, Slot)'
<1>1. \A x \in Paths : disk'[x] = (IF x = p THEN f ELSE disk[x]) /\ (There(x)' <=> There(x))
  BY ConstantsAssumption DEF Inv, DiskOK, There
<1>2. FilesApart(disk, Slot)'
  BY <1>1 DEF FilesApart, There
<1>3. ASSUME NEW x, PathNamed(x, Slot) PROVE PathNamed(x, Slot)'
  BY <1>1, <1>3 DEF PathNamed, InDir
<1>4. ASSUME NEW v, RowNamed(v, Slot) PROVE RowNamed(v, Slot)'
  BY <1>1, <1>3, <1>4 DEF RowNamed, Tells
<1> QED  BY <1>2, <1>3, <1>4

(* A managed folder that is moved: all its files are in one, and the other  *)
(* is empty then.                                                           *)
LEMMA FolderMoveKeepsNames ==
  ASSUME Inv, NEW Slot, NamesTell(Slot), FilesApart(disk, Slot), kinds' = kinds,
         NEW d \in DriftDirs, NEW e \in DriftDirs, d # e,
         \E p \in InDir(d) : There(p), \A p \in InDir(e) : ~There(p),
         disk' = [p \in Paths |-> IF Dir(p) = d THEN Nothing
                                  ELSE IF Dir(p) = e THEN disk[<<d, Base(p)>>] ELSE disk[p]]
  PROVE  /\ FilesApart(disk, Slot)'
         /\ \A x : PathNamed(x, Slot) => PathNamed(x, Slot)'
         /\ \A v : RowNamed(v, Slot) => RowNamed(v, Slot)'
<1> DEFINE from(p) == IF Dir(p) = e THEN <<d, Base(p)>> ELSE p
           to(p) == IF Dir(p) = d THEN <<e, Base(p)>> ELSE p
<1>1. \A p \in Paths : /\ Dir(p) = e => <<d, Base(p)>> \in Paths /\ Dir(<<d, Base(p)>>) = d
                                         /\ Base(<<d, Base(p)>>) = Base(p)
                       /\ Dir(p) = d => <<e, Base(p)>> \in Paths /\ Dir(<<e, Base(p)>>) = e
                                         /\ Base(<<e, Base(p)>>) = Base(p)
                       /\ p = <<Dir(p), Base(p)>>
  BY ConstantsAssumption DEF Dir, Base
<1>2. \A p, q \in Paths : {Dir(p), Dir(q)} \subseteq DriftDirs /\ Base(p) = Base(q) => Slot[p] = Slot[q]
  BY DEF NamesTell
<1>3. \A p \in Paths : /\ from(p) \in Paths /\ Slot[from(p)] = Slot[p]
                       /\ to(p) \in Paths /\ Slot[to(p)] = Slot[p]
                       /\ Dir(from(p)) = (IF Dir(p) = e THEN d ELSE Dir(p))
                       /\ Dir(to(p)) = (IF Dir(p) = d THEN e ELSE Dir(p))
                       /\ Dir(p) = d => from(to(p)) = p
  BY <1>1, <1>2
<1>4. \A p \in Paths : disk'[p] = IF Dir(p) = d THEN Nothing ELSE disk[from(p)]
  BY <1>1
<1>5. \A p, q \in Paths : Dir(p) # d /\ Dir(q) # d /\ from(p) = from(q) => p = q
  <2> SUFFICES ASSUME NEW p \in Paths, NEW q \in Paths, Dir(p) # d, Dir(q) # d, from(p) = from(q) PROVE p = q
    OBVIOUS
  <2>1. Dir(p) = e <=> Dir(q) = e
    BY <1>3
  <2>2. Base(p) = Base(q) /\ Dir(p) = Dir(q)
    BY <1>1, <2>1
  <2> QED  BY <1>1, <2>2
<1>6. \A p \in Paths : There(p) => /\ disk'[to(p)] = disk[p]
                                   /\ Dir(p) \in DriftDirs => Dir(p) = d /\ Dir(to(p)) = e
  <2> SUFFICES ASSUME NEW p \in Paths, There(p)
               PROVE  /\ disk'[to(p)] = disk[p]
                      /\ Dir(p) \in DriftDirs => Dir(p) = d /\ Dir(to(p)) = e
    OBVIOUS
  <2>1. Dir(p) # e
    BY DEF InDir
  <2>2. Dir(p) \in DriftDirs => Dir(p) = d
    BY DEF FilesApart, InDir, There
  <2>3. disk'[to(p)] = disk[p]
    BY <1>3, <1>4, <2>1
  <2> QED  BY <1>3, <2>2, <2>3
<1>7. \A p \in Paths : There(p)' => Dir(p) # d /\ There(from(p)) /\ disk'[p] = disk[from(p)]
  BY <1>4 DEF There
<1> HIDE DEF from, to
<1>8. FilesApart(disk, Slot)'
  <2> SUFFICES ASSUME NEW p \in Paths, NEW q \in Paths, There(p)', There(q)'
               PROVE  /\ Dir(p) \notin Disc
                      /\ Slot[p] = Slot[q] => p = q
                      /\ {Dir(p), Dir(q)} \subseteq DriftDirs => Dir(p) = Dir(q)
    BY DEF FilesApart, There
  <2>1. Dir(from(p)) \notin Disc /\ DriftDirs \cap Disc = {}
    BY <1>3, <1>7 DEF FilesApart, There, NamesTell
  <2>2. Dir(p) \notin Disc
    BY <1>3, <2>1
  <2>3. Slot[p] = Slot[q] => p = q
    BY <1>3, <1>5, <1>7 DEF FilesApart, There
  <2>4. ASSUME {Dir(p), Dir(q)} \subseteq DriftDirs PROVE Dir(p) = Dir(q)
    <3>1. {Dir(from(p)), Dir(from(q))} \subseteq DriftDirs
      BY <1>3, <2>4
    <3>2. Dir(from(p)) = d /\ Dir(from(q)) = d
      BY <1>3, <1>7, <3>1 DEF FilesApart, There, InDir
    <3> QED  BY <1>3, <1>7, <3>2
  <2> QED  BY <2>2, <2>3, <2>4
<1>9. ASSUME NEW x, PathNamed(x, Slot) PROVE PathNamed(x, Slot)'
  <2>1. PICK y \in Paths : /\ There(y) /\ Slot[y] = Slot[x]
                           /\ \/ Dir(y) = Dir(x)
                              \/ {Dir(x), Dir(y)} \subseteq DriftDirs /\ \A r \in InDir(Dir(x)) : ~There(r)
    BY <1>9 DEF PathNamed
  <2>2. to(y) \in Paths /\ disk'[to(y)] # Nothing /\ Slot[to(y)] = Slot[x]
    BY <1>3, <1>6, <2>1 DEF There
  <2>3. CASE Dir(x) \in DriftDirs
    <3>1. Dir(to(y)) = e
      BY <1>6, <2>1, <2>3
    <3>2. CASE Dir(x) = e
      BY <1>9, <2>2, <3>1, <3>2 DEF PathNamed, There
    <3>3. CASE Dir(x) # e
      <4>1. \A r \in InDir(Dir(x)) : ~There(r)'
        <5> SUFFICES ASSUME NEW r \in InDir(Dir(x)), There(r)' PROVE FALSE
          OBVIOUS
        <5>1. Dir(r) = Dir(x) /\ r \in Paths /\ Dir(r) # d /\ There(from(r)) /\ Dir(from(r)) = Dir(r)
          BY <1>3, <1>7, <3>3 DEF InDir
        <5> QED  BY <1>3, <1>6, <2>3, <5>1
      <4> QED  BY <1>9, <2>2, <2>3, <3>1, <4>1 DEF PathNamed, There
    <3> QED  BY <3>2, <3>3
  <2>4. CASE Dir(x) \notin DriftDirs
    <3>1. Dir(to(y)) = Dir(x)
      BY <1>3, <2>1, <2>4
    <3> QED  BY <1>9, <2>2, <3>1 DEF PathNamed, There
  <2> QED  BY <2>3, <2>4
<1>10. ASSUME NEW v, RowNamed(v, Slot) PROVE RowNamed(v, Slot)'
  BY <1>3, <1>7, <1>9, <1>10 DEF RowNamed
<1> QED  BY <1>8, <1>9, <1>10

(* The pairing by name order pairs by slot: the stale rows of a folder and  *)
(* the files of their slots there are in one order, and where the counts    *)
(* are equal those are all its unmatched files.                             *)
LEMMA PairingKeepsSlots ==
  ASSUME Inv, NEW Slot, NamesTell(Slot), FilesApart(disk, Slot),
         NEW d, NEW here, here \subseteq Rows, OnePerSlot(here, Slot),
         \A v, w \in here : v.id = w.id => v = w,
         \A v \in here : Dir(v.path) = d /\ RowNamed(v, Slot),
         Cardinality(Unmatched(d, here)) = Cardinality(Stale(here))
  PROVE  \A pr \in Pairing(Stale(here), Unmatched(d, here)) :
           PathNamed(pr.path, Slot) /\ \E v \in here : v.id = pr.id /\ Slot[v.path] = Slot[pr.path]
<1> DEFINE stale == Stale(here)
           free == Unmatched(d, here)
           f == [v \in stale |-> CHOOSE p \in free : Slot[p] = Slot[v.path]]
           g == [p \in free |-> Base(p)]
           before(v) == {w \in stale : Base(w.path) < Base(v.path)}
           below(p) == {q \in free : Base(q) < Base(p)}
<1>0. /\ stale \subseteq here /\ \A v \in stale : v.path \in Paths /\ ~There(v.path)
      /\ free \subseteq Paths /\ \A p \in free : Dir(p) = d /\ There(p)
  BY DEF Stale, Unmatched, InDir, Rows
<1>1. IsFiniteSet(stale) /\ IsFiniteSet(free)
  <2> DEFINE h == [v \in stale |-> v.path]
  <2>1. h \in Injection(stale, Paths)
    BY <1>0 DEF Injection, IsInjective, OnePerSlot
  <2> QED  BY <1>0, <2>1, ConstantsAssumption, FS_Injection, FS_Subset
<1>2. ASSUME NEW v \in stale PROVE \E p \in free : Slot[p] = Slot[v.path]
  <2>1. PICK p \in Paths : /\ There(p) /\ Slot[p] = Slot[v.path]
                           /\ Dir(p) = d \/ \A q \in InDir(d) : ~There(q)
    BY <1>0 DEF RowNamed, PathNamed
  <2>2. CASE Dir(p) = d
    <3>1. ~\E w \in here : w.path = p
      BY <1>0, <2>1 DEF OnePerSlot
    <3> QED  BY <2>1, <2>2, <3>1 DEF Unmatched, InDir
  <2>3. CASE \A q \in InDir(d) : ~There(q)
    <3>1. free = {}
      BY <2>3 DEF Unmatched
    <3>2. Cardinality(stale) = 0
      BY <3>1, FS_EmptySet
    <3>3. stale = {}
      BY <1>1, <3>2, FS_EmptySet
    <3> QED  BY <3>3
  <2> QED  BY <2>1, <2>2, <2>3
<1>3. \A v \in stale : f[v] \in free /\ Slot[f[v]] = Slot[v.path]
  BY <1>2
<1> HIDE DEF f
<1>4. \A v, w \in stale : f[v] = f[w] => v = w
  BY <1>0, <1>3 DEF OnePerSlot
<1>5. \A p \in free : \E v \in stale : f[v] = p
  <2>1. f \in Injection(stale, free)
    BY <1>3, <1>4 DEF Injection, IsInjective, f
  <2>2. f \in Surjection(stale, free)
    BY <1>1, <2>1, FS_Injection
  <2> QED  BY <2>2 DEF Surjection
<1>6. \A p, p2, q, q2 \in Paths :
        /\ Dir(p) = d /\ Dir(p2) = d /\ Dir(q) = d /\ Dir(q2) = d /\ d \notin Disc
        /\ Slot[p] = Slot[p2] /\ Slot[q] = Slot[q2] /\ Slot[p] # Slot[q] /\ Base(p) < Base(q)
        => Base(p2) < Base(q2)
  BY DEF NamesTell
<1>7. ASSUME NEW v \in stale, NEW w \in stale PROVE Base(w.path) < Base(v.path) <=> Base(f[w]) < Base(f[v])
  <2>1. CASE v = w
    <3>1. v.path \in Paths /\ f[v] \in Paths
      BY <1>0, <1>3
    <3>2. Base(v.path) \in Nat /\ Base(f[v]) \in Nat
      BY <3>1, ConstantsAssumption
    <3> QED  BY <2>1, <3>2
  <2>2. CASE v # w
    <3>1. Slot[v.path] # Slot[w.path]
      BY <1>0, <2>2 DEF OnePerSlot
    <3>2. /\ v.path \in Paths /\ w.path \in Paths /\ f[v] \in Paths /\ f[w] \in Paths
          /\ Dir(v.path) = d /\ Dir(w.path) = d /\ Dir(f[v]) = d /\ Dir(f[w]) = d
          /\ d \notin Disc
      BY <1>0, <1>3 DEF RowNamed, PathNamed
    <3> QED  BY <1>3, <1>6, <3>1, <3>2
  <2> QED  BY <2>1, <2>2
<1>8. ASSUME NEW v \in stale PROVE Cardinality(before(v)) = Cardinality(below(f[v]))
  <2> DEFINE h == [w \in before(v) |-> f[w]]
  <2>1. h \in [before(v) -> below(f[v])]
    BY <1>3, <1>7
  <2>2. \A w, u \in before(v) : h[w] = h[u] => w = u
    BY <1>4
  <2>3. \A p \in below(f[v]) : \E w \in before(v) : h[w] = p
    BY <1>5, <1>7
  <2>4. h \in Bijection(before(v), below(f[v]))
    BY <2>1, <2>2, <2>3 DEF Bijection, Injection, IsInjective, Surjection
  <2>5. IsFiniteSet(before(v))
    BY <1>1, FS_Subset
  <2> QED  BY <2>4, <2>5, FS_Bijection DEF ExistsBijection
<1>9. \A p, q \in free : Cardinality(below(p)) = Cardinality(below(q)) => p = q
  <2>0. \A p, q \in Paths : Base(p) \in Nat /\ (Dir(p) = Dir(q) /\ Base(p) = Base(q) => p = q)
    BY ConstantsAssumption
  <2>1. g \in [free -> Nat] /\ \A p, q \in free : g[p] = g[q] => p = q
    BY <1>0, <2>0
  <2>2. \A p \in free : Rank(free, g, p) = Cardinality(below(p))
    <3> SUFFICES ASSUME NEW p \in free PROVE Rank(free, g, p) = Cardinality(below(p))
      OBVIOUS
    <3>1. {q \in free : g[q] < g[p]} = below(p)
      OBVIOUS
    <3> QED  BY <3>1 DEF Rank
  <2> HIDE DEF g, free, below
  <2> QED  BY <1>1, <2>1, <2>2, Ranks
<1> SUFFICES ASSUME NEW pr \in Pairing(stale, free)
             PROVE  PathNamed(pr.path, Slot) /\ \E v \in here : v.id = pr.id /\ Slot[v.path] = Slot[pr.path]
  OBVIOUS
<1>10. PICK v \in stale : v.id = pr.id /\ pr.path \in free /\ Cardinality(before(v)) = Cardinality(below(pr.path))
  <2>1. /\ pr \in [id : {v.id : v \in stale}, path : free]
        /\ Cardinality(before(CHOOSE v \in stale : v.id = pr.id)) = Cardinality(below(pr.path))
    BY DEF Pairing
  <2> DEFINE v == CHOOSE v \in stale : v.id = pr.id
  <2>2. pr.path \in free /\ v \in stale /\ v.id = pr.id
    BY <2>1
  <2> HIDE DEF v
  <2>3. Cardinality(before(v)) = Cardinality(below(pr.path))
    BY <2>1 DEF v
  <2> QED  BY <2>2, <2>3
<1>11. pr.path = f[v]
  BY <1>3, <1>8, <1>9, <1>10
<1>12. v \in here /\ RowNamed(v, Slot) /\ Dir(pr.path) = Dir(v.path) /\ Slot[pr.path] = Slot[v.path]
  BY <1>0, <1>3, <1>10, <1>11
<1> QED  BY <1>10, <1>12 DEF RowNamed, PathNamed

LEMMA NamedSame ==
  ASSUME NEW Slot, UNCHANGED <<disk, kinds>>
  PROVE  /\ FilesApart(disk, Slot) => FilesApart(disk, Slot)'
         /\ \A x : PathNamed(x, Slot) => PathNamed(x, Slot)'
         /\ \A v : RowNamed(v, Slot) => RowNamed(v, Slot)'
<1>1. \A p : There(p)' <=> There(p)
  BY DEF There
<1>2. \A x : PathNamed(x, Slot) => PathNamed(x, Slot)'
  BY <1>1 DEF PathNamed
<1>3. \A v : RowNamed(v, Slot) => RowNamed(v, Slot)'
  BY <1>1, <1>2 DEF RowNamed
<1> QED  BY <1>2, <1>3 DEF FilesApart

LEMMA NamedTableSame ==
  ASSUME NEW Slot, NamedTable(Slot), UNCHANGED <<rows, disk, kinds>>
  PROVE  NamedTable(Slot)'
BY NamedSame DEF NamedTable, OnePerSlot

LEMMA NamedIdle ==
  ASSUME NEW Slot, NEW a \in Actors, op'[a] = Idle
  PROVE  NamedOp(a, Slot)'
<1>1. op'[a].pc = "idle" /\ op'[a].todo = {} /\ op'[a].cur = NoRow /\ op'[a].pairs = {}
  BY DEF Idle
<1> QED  BY <1>1 DEF NamedOp, RemuxSteps

(* A row whose path changes within its slot.                                *)
LEMMA RepathNamed ==
  ASSUME NEW Slot, TableOK, NamedTable(Slot), UNCHANGED <<disk, kinds>>,
         NEW id, NEW p \in Paths, Repath(id, p), PathNamed(p, Slot),
         \A w \in rows : w.id = id => Slot[w.path] = Slot[p]
  PROVE  NamedTable(Slot)' /\ \A x \in rows' : \E w \in rows : x.id = w.id /\ Slot[x.path] = Slot[w.path]
<1> DEFINE new(v) == IF v.id = id THEN [v EXCEPT !.path = p] ELSE v
<1>1. rows' = {new(v) : v \in rows}
  BY DEF Repath
<1>2. \A v \in rows : /\ new(v).id = v.id /\ new(v).part = v.part /\ Slot[new(v).path] = Slot[v.path]
                      /\ v.id = id => new(v).path = p
                      /\ v.id # id => new(v) = v
  BY DEF TableOK, Rows
<1> HIDE DEF new
<1>3. \A v \in rows : RowNamed(new(v), Slot)
  BY <1>2 DEF NamedTable, RowNamed
<1>4. \A x \in rows' : RowNamed(x, Slot)'
  BY <1>1, <1>3, NamedSame
<1>5. OnePerSlot(rows, Slot)'
  BY <1>1, <1>2 DEF NamedTable, OnePerSlot
<1> QED  BY <1>1, <1>2, <1>4, <1>5, NamedSame DEF NamedTable

LEMMA NamedRename ==
  ASSUME Inv, NEW Slot, NamesTell(Slot), NamedTable(Slot), kinds' = kinds,
         NEW a \in Actors, NamedOp(a, Slot), Rename(a)
  PROVE  NamedTable(Slot)' /\ NamedOp(a, Slot)'
<1> USE DEF RemuxSteps
<1>o. op[a] \in OpType
  BY OpTyped
<1>t. rows \subseteq Rows /\ TableOK /\ \A v, w \in rows : v.id = w.id \/ v.path = w.path => v = w
  BY DEF Inv, TableOK
<1>r. \A v \in Rows : v.path \in Paths /\ v.part \in Nat /\ v.info \in Files /\ Canon[v.path] \in Paths
  BY ConstantsAssumption DEF Rows
<1>y. /\ \A v \in rows : RowNamed(v, Slot)
      /\ \A v \in op[a].todo : RowNamed(v, Slot)
      /\ op[a].cur # NoRow => RowNamed(op[a].cur, Slot)
  BY DEF NamedTable, NamedOp
<1>i. ASSUME Goto(a, Idle) PROVE NamedOp(a, Slot)'
  BY <1>i, GotoMoves, NamedIdle
<1>p. ASSUME op'[a].pc = "plan", op'[a].pairs = {}, op'[a].todo \subseteq rows',
             \A v \in op'[a].todo : RowNamed(v, Slot)', (op[a].cur # NoRow => RowNamed(op[a].cur, Slot))'
      PROVE  NamedOp(a, Slot)'
  BY <1>p DEF NamedOp
<1>n. op'[a] = NextRename(a) =>
        /\ op'[a].pc = "plan" /\ op'[a].pairs = op[a].pairs /\ op'[a].todo = op[a].todo \ {op[a].cur}
        /\ op'[a].cur = NoRow
  BY <1>o DEF NextRename, OpType
<1>1. CASE RenameStart(a)
  <2>1. op'[a] = [Idle EXCEPT !.pc = "plan", !.todo = rows] /\ UNCHANGED <<rows, disk, kinds>>
    BY <1>1, GotoMoves DEF RenameStart, Start
  <2>2. op'[a].pc = "plan" /\ op'[a].todo = rows /\ op'[a].pairs = {} /\ op'[a].cur = NoRow
    BY <2>1 DEF Idle
  <2> QED  BY <1>p, <1>y, <2>1, <2>2, NamedTableSame, NamedSame
<1>2. CASE RenamePlan(a)
  <2>1. op[a].pc = "plan" /\ op[a].todo \subseteq rows /\ op[a].pairs = {} /\ UNCHANGED <<rows, disk, kinds>>
    BY <1>2 DEF RenamePlan, NamedOp
  <2>2. ASSUME NEW v \in op[a].todo, Canon[v.path] # v.path,
               Goto(a, [op[a] EXCEPT !.cur = v, !.pc = "look"])
        PROVE  NamedOp(a, Slot)'
    <3>0. op'[a] = [op[a] EXCEPT !.cur = v, !.pc = "look"]
      BY <2>2, GotoMoves
    <3>1. op'[a].pc = "look" /\ op'[a].cur = v /\ op'[a].todo = op[a].todo /\ op'[a].pairs = {}
      BY <1>o, <2>1, <3>0 DEF OpType
    <3> QED  BY <1>y, <2>1, <2>2, <3>1, NamedSame DEF NamedOp, Dest
  <2>3. ASSUME NEW v \in op[a].todo, Goto(a, [op[a] EXCEPT !.todo = @ \ {v}]) PROVE NamedOp(a, Slot)'
    <3>0. op'[a] = [op[a] EXCEPT !.todo = @ \ {v}]
      BY <2>3, GotoMoves
    <3>1. op'[a].pc = "plan" /\ op'[a].todo \subseteq op[a].todo /\ op'[a].pairs = {} /\ op'[a].cur = op[a].cur
      BY <1>o, <2>1, <3>0 DEF OpType
    <3> QED  BY <1>p, <1>y, <2>1, <3>1, NamedSame
  <2> QED  BY <1>2, <1>i, <2>1, <2>2, <2>3, NamedTableSame DEF RenamePlan
<1>3. CASE RenameLook(a)
  <2>1. /\ op[a].pc = "look" /\ op[a].todo \subseteq rows /\ op[a].pairs = {} /\ op[a].cur \in rows
        /\ Dest(a) # op[a].cur.path /\ UNCHANGED <<rows, disk, kinds>>
    BY <1>3 DEF RenameLook, NamedOp, counters
  <2>2. CASE Goto(a, NextRename(a))
    <3>1. op'[a] = NextRename(a)
      BY <2>2, GotoMoves
    <3> QED  BY <1>n, <1>p, <1>y, <2>1, <3>1, NamedTableSame, NamedSame
  <2>3. CASE Goto(a, [op[a] EXCEPT !.pc = "apply"])
    <3>1. op'[a].pc = "apply" /\ op'[a].cur = op[a].cur /\ op'[a].todo = op[a].todo /\ op'[a].pairs = {}
      BY <1>o, <2>1, <2>3, GotoMoves DEF OpType
    <3> QED  BY <1>y, <2>1, <3>1, NamedTableSame, NamedSame DEF NamedOp, Dest
  <2> QED  BY <1>3, <2>2, <2>3 DEF RenameLook
<1>4. CASE RenameApply(a)
  <2> DEFINE v == op[a].cur
             dest == Canon[v.path]
  <2>1. /\ op[a].pc = "apply" /\ op[a].todo \subseteq rows /\ op[a].pairs = {} /\ v \in rows
        /\ dest # v.path /\ UNCHANGED rows
    BY <1>4 DEF RenameApply, NamedOp, Dest
  <2>2. CASE Goto(a, NextRename(a)) /\ UNCHANGED disk
    <3>1. op'[a] = NextRename(a)
      BY <2>2, GotoMoves
    <3> QED  BY <1>n, <1>p, <1>y, <2>1, <2>2, <3>1, NamedTableSame, NamedSame
  <2>3. CASE /\ There(v.path)
             /\ disk' = [disk EXCEPT ![v.path] = Nothing, ![dest] = disk[v.path]]
             /\ Goto(a, [op[a] EXCEPT !.pc = "delete"])
    <3>1. v.path \in Paths /\ dest \in Paths
      BY <1>r, <1>t, <2>1
    <3>2. Dir(v.path) = Dir(dest) /\ Slot[v.path] = Slot[dest]
      BY <1>y, <2>1, <3>1 DEF RowNamed, PathNamed, NamesTell
    <3>3. ~There(dest)
      BY <2>1, <2>3, <3>1, <3>2 DEF NamedTable, FilesApart, There
    <3> HIDE DEF dest
    <3>4. /\ FilesApart(disk, Slot)'
          /\ \A u : RowNamed(u, Slot) => RowNamed(u, Slot)'
      BY <2>3, <3>1, <3>2, <3>3, MoveKeepsNames DEF NamedTable
    <3>5. NamedTable(Slot)'
      BY <2>1, <3>4 DEF NamedTable, OnePerSlot
    <3>6. op'[a].pc = "delete" /\ op'[a].cur = v /\ op'[a].todo = op[a].todo /\ op'[a].pairs = op[a].pairs
      BY <1>o, <2>3, GotoMoves DEF OpType
    <3> QED  BY <1>y, <2>1, <3>4, <3>5, <3>6 DEF NamedOp
  <2> QED  BY <1>4, <2>2, <2>3 DEF RenameApply
<1>5. CASE RenameDelete(a)
  <2> DEFINE v == op[a].cur
  <2>1. op[a].pc = "delete" /\ op[a].todo \subseteq rows /\ op[a].pairs = {} /\ v \in rows /\ UNCHANGED disk
    BY <1>5 DEF RenameDelete, NamedOp
  <2>2. CASE Goto(a, NextRename(a)) /\ UNCHANGED rows
    <3>1. op'[a] = NextRename(a)
      BY <2>2, GotoMoves
    <3> QED  BY <1>n, <1>p, <1>y, <2>1, <2>2, <3>1, NamedTableSame, NamedSame
  <2>3. CASE rows' = {w \in rows : w.id # v.id} /\ Goto(a, [op[a] EXCEPT !.pc = "insert"])
    <3>1. rows' = rows \ {v}
      BY <1>t, <2>1, <2>3
    <3>2. NamedTable(Slot)'
      BY <2>1, <3>1, NamedSame DEF NamedTable, OnePerSlot
    <3>3. op'[a].pc = "insert" /\ op'[a].cur = v /\ op'[a].todo = op[a].todo /\ op'[a].pairs = op[a].pairs
      BY <1>o, <2>3, GotoMoves DEF OpType
    <3>4. \A w \in rows' : Slot[w.path] # Slot[v.path]
      BY <2>1, <3>1 DEF NamedTable, OnePerSlot
    <3> QED  BY <1>y, <2>1, <3>1, <3>2, <3>3, <3>4, NamedSame DEF NamedOp
  <2> QED  BY <1>5, <2>2, <2>3 DEF RenameDelete
<1>6. CASE RenameInsert(a)
  <2> DEFINE v == op[a].cur
             dest == Canon[v.path]
  <2>1. /\ op[a].pc = "insert" /\ op[a].todo \ {v} \subseteq rows /\ op[a].pairs = {} /\ v \in Rows /\ v # NoRow
        /\ \A w \in rows : Slot[w.path] # Slot[v.path]
        /\ UNCHANGED disk /\ Goto(a, NextRename(a))
    BY <1>6, OpTyped, ConstantsAssumption DEF RenameInsert, NamedOp
  <2>n. op'[a] = NextRename(a)
    BY <2>1, GotoMoves
  <2>2. CASE UNCHANGED rows
    BY <1>n, <1>p, <1>y, <2>1, <2>2, <2>n, NamedTableSame, NamedSame
  <2>3. CASE Upsert(dest, v.part, v.info)
    <3> DEFINE row == [id |-> nextId, path |-> dest, part |-> v.part, info |-> v.info]
    <3>1. Dir(dest) = Dir(v.path) /\ Slot[dest] = Slot[v.path]
      BY <1>r, <1>y, <2>1 DEF RowNamed, PathNamed, NamesTell
    <3>2. rows' = rows \cup {row}
      BY <2>1, <2>3, <3>1 DEF Upsert
    <3>3. row.path = dest /\ row.part = v.part
      OBVIOUS
    <3> HIDE DEF row
    <3>4. RowNamed(row, Slot)
      BY <1>y, <2>1, <3>1, <3>3 DEF RowNamed, PathNamed
    <3>5. OnePerSlot(rows, Slot)'
      BY <2>1, <3>1, <3>2, <3>3 DEF NamedTable, OnePerSlot
    <3>6. NamedTable(Slot)'
      BY <1>y, <2>1, <3>2, <3>4, <3>5, NamedSame DEF NamedTable
    <3>7. op'[a].todo \subseteq rows' /\ op'[a].todo \subseteq op[a].todo
      BY <1>n, <2>1, <2>n, <3>2
    <3> QED  BY <1>n, <1>p, <1>y, <2>1, <2>n, <3>6, <3>7, NamedSame
  <2> QED  BY <1>6, <2>2, <2>3 DEF RenameInsert
<1> QED  BY <1>1, <1>2, <1>3, <1>4, <1>5, <1>6 DEF Rename

LEMMA NamedRefresh ==
  ASSUME Inv, NEW Slot, NamesTell(Slot), NamedTable(Slot), kinds' = kinds,
         NEW a \in Actors, NamedOp(a, Slot), Refresh(a)
  PROVE  NamedTable(Slot)' /\ NamedOp(a, Slot)'
<1> USE DEF RemuxSteps
<1>o. op[a] \in OpType /\ op[a].todo \subseteq Rows /\ op[a].pairs \subseteq Pairs
  BY OpTyped
<1>t. rows \subseteq Rows /\ TableOK /\ \A v, w \in rows : v.id = w.id \/ v.path = w.path => v = w
  BY DEF Inv, TableOK
<1>y. /\ \A v \in rows : RowNamed(v, Slot)
      /\ \A v \in op[a].todo : RowNamed(v, Slot)
      /\ op[a].cur # NoRow => RowNamed(op[a].cur, Slot)
  BY DEF NamedTable, NamedOp
<1>l. ASSUME Goto(a, [Idle EXCEPT !.pc = "list"]) PROVE NamedOp(a, Slot)'
  <2>1. op'[a] = [Idle EXCEPT !.pc = "list"]
    BY <1>l, GotoMoves
  <2>2. op'[a].pc = "list" /\ op'[a].pairs = {} /\ op'[a].todo = {} /\ op'[a].cur = NoRow
    BY <2>1 DEF Idle
  <2> QED  BY <2>2 DEF NamedOp
<1>1. CASE RefreshStart(a)
  <2>1. /\ op'[a] = [Idle EXCEPT !.pc = "folder", !.todo = rows, !.dirs = {Dir(v.path) : v \in rows}]
        /\ UNCHANGED <<rows, disk>>
    BY <1>1, GotoMoves DEF RefreshStart, Start
  <2>2. op'[a].pc = "folder" /\ op'[a].todo = rows /\ op'[a].pairs = {} /\ op'[a].cur = NoRow
    BY <2>1 DEF Idle
  <2>3. OnePerSlot(rows, Slot)
    BY DEF NamedTable
  <2> QED  BY <1>t, <1>y, <2>1, <2>2, <2>3, NamedTableSame, NamedSame DEF NamedOp, OnePerSlot
<1>2. CASE ReconcileFolder(a)
  <2> DEFINE d == CHOOSE d \in op[a].dirs : TRUE
             here == {v \in op[a].todo : Dir(v.path) = d}
             free == Unmatched(d, here)
             pairs == IF Cardinality(free) = Cardinality(Stale(here)) THEN Pairing(Stale(here), free) ELSE {}
             new == [op[a] EXCEPT !.dirs = @ \ {d}, !.pairs = pairs, !.pc = "update"]
  <2>1. /\ op[a].pc = "folder" /\ UNCHANGED <<rows, disk>>
        /\ OnePerSlot(op[a].todo, Slot) /\ \A v, w \in op[a].todo : v.id = w.id => v = w
        /\ \A v \in op[a].todo, w \in rows : v.id = w.id => Slot[v.path] = Slot[w.path]
    BY <1>2 DEF ReconcileFolder, NamedOp
  <2>2. ASSUME NEW pr \in pairs
        PROVE  PathNamed(pr.path, Slot) /\ \E v \in here : v.id = pr.id /\ Slot[v.path] = Slot[pr.path]
    <3>1. /\ here \subseteq Rows /\ OnePerSlot(here, Slot) /\ FilesApart(disk, Slot)
          /\ \A v, w \in here : v.id = w.id => v = w
          /\ \A v \in here : Dir(v.path) = d /\ RowNamed(v, Slot)
      BY <1>o, <1>y, <2>1 DEF OnePerSlot, NamedTable
    <3>2. Cardinality(free) = Cardinality(Stale(here)) /\ pr \in Pairing(Stale(here), free)
      BY <2>2
    <3> HIDE DEF here, d
    <3> QED  BY <3>1, <3>2, PairingKeepsSlots
  <2>3. \A pr \in pairs : /\ PathNamed(pr.path, Slot)
                          /\ \A w \in rows : w.id = pr.id => Slot[w.path] = Slot[pr.path]
    <3> HIDE DEF pairs, d
    <3> QED  BY <2>1, <2>2
  <2>4. Goto(a, IF op[a].dirs = {} THEN [Idle EXCEPT !.pc = "list"] ELSE new)
    BY <1>2 DEF ReconcileFolder
  <2> HIDE DEF d, pairs
  <2>5. CASE Goto(a, new)
    <3>0. op'[a] = new
      BY <2>5, GotoMoves
    <3>1. op'[a].pc = "update" /\ op'[a].todo = op[a].todo /\ op'[a].pairs = pairs /\ op'[a].cur = op[a].cur
      BY <1>o, <3>0 DEF OpType
    <3>2. \A pr \in op'[a].pairs : /\ PathNamed(pr.path, Slot)'
                                   /\ \A w \in rows' : w.id = pr.id => Slot[w.path] = Slot[pr.path]
      BY <2>1, <2>3, <3>1, NamedSame
    <3> QED  BY <1>y, <2>1, <3>1, <3>2, NamedTableSame, NamedSame DEF NamedOp, OnePerSlot
  <2> HIDE DEF new
  <2> QED  BY <1>l, <2>1, <2>4, <2>5, NamedTableSame
<1>3. CASE ReconcileUpdate(a)
  <2>1. /\ op[a].pc = "update" /\ UNCHANGED disk
        /\ \A pr \in op[a].pairs : /\ PathNamed(pr.path, Slot)
                                   /\ \A w \in rows : w.id = pr.id => Slot[w.path] = Slot[pr.path]
        /\ OnePerSlot(op[a].todo, Slot) /\ \A v, w \in op[a].todo : v.id = w.id => v = w
        /\ \A v \in op[a].todo, w \in rows : v.id = w.id => Slot[v.path] = Slot[w.path]
    BY <1>3 DEF ReconcileUpdate, NamedOp
  <2>2. CASE op[a].pairs = {} /\ UNCHANGED rows /\ Goto(a, [op[a] EXCEPT !.pc = "folder"])
    <3>1. op'[a].pc = "folder" /\ op'[a].todo = op[a].todo /\ op'[a].pairs = {} /\ op'[a].cur = op[a].cur
      BY <1>o, <2>2, GotoMoves DEF OpType
    <3> QED  BY <1>y, <2>1, <2>2, <3>1, NamedTableSame, NamedSame DEF NamedOp, OnePerSlot
  <2>3. ASSUME NEW pr \in op[a].pairs, Repath(pr.id, pr.path), Goto(a, [op[a] EXCEPT !.pairs = @ \ {pr}])
        PROVE  NamedTable(Slot)' /\ NamedOp(a, Slot)'
    <3>1. pr.path \in Paths
      BY <1>o DEF Pairs
    <3>2. NamedTable(Slot)' /\ \A x \in rows' : \E w \in rows : x.id = w.id /\ Slot[x.path] = Slot[w.path]
      BY <1>t, <2>1, <2>3, <3>1, RepathNamed
    <3>3. /\ op'[a].pc = "update" /\ op'[a].todo = op[a].todo /\ op'[a].pairs \subseteq op[a].pairs
          /\ op'[a].cur = op[a].cur
      BY <1>o, <2>1, <2>3, GotoMoves DEF OpType
    <3>4. \A q \in op'[a].pairs : /\ PathNamed(q.path, Slot)'
                                  /\ \A w \in rows' : w.id = q.id => Slot[w.path] = Slot[q.path]
      BY <2>1, <3>2, <3>3, NamedSame
    <3>5. \A v \in op'[a].todo, w \in rows' : v.id = w.id => Slot[v.path] = Slot[w.path]
      BY <2>1, <3>2, <3>3
    <3> QED  BY <1>y, <2>1, <3>2, <3>3, <3>4, <3>5, NamedSame DEF NamedOp, OnePerSlot
  <2>4. CASE UNCHANGED rows /\ Goto(a, [Idle EXCEPT !.pc = "list"])
    BY <1>l, <2>1, <2>4, NamedTableSame
  <2> QED  BY <1>3, <2>2, <2>3, <2>4 DEF ReconcileUpdate
<1>4. CASE ReprobeList(a)
  <2>0. op[a].pairs = {} /\ UNCHANGED <<rows, disk>> /\ Goto(a, [op[a] EXCEPT !.todo = rows, !.pc = "probe"])
    BY <1>4 DEF ReprobeList, NamedOp
  <2>1. op'[a] = [op[a] EXCEPT !.todo = rows, !.pc = "probe"]
    BY <2>0, GotoMoves
  <2>2. op'[a].pc = "probe" /\ op'[a].todo = rows /\ op'[a].pairs = op[a].pairs /\ op'[a].cur = op[a].cur
    BY <1>o, <2>1 DEF OpType
  <2> QED  BY <1>y, <2>0, <2>2, NamedTableSame, NamedSame DEF NamedOp, RowPaths
<1>5. CASE ReprobeRead(a)
  <2>1. op[a].pc = "probe" /\ op[a].pairs = {} /\ UNCHANGED <<rows, disk>> /\ \A v \in op[a].todo : v.path \in RowPaths
    BY <1>5 DEF ReprobeRead, NamedOp
  <2>2. ASSUME NEW v \in op[a].todo,
               Goto(a, [op[a] EXCEPT !.cur = [v EXCEPT !.info = disk[v.path]], !.pc = "write"])
        PROVE  NamedOp(a, Slot)'
    <3>0. op'[a] = [op[a] EXCEPT !.cur = [v EXCEPT !.info = disk[v.path]], !.pc = "write"]
      BY <2>2, GotoMoves
    <3>1. /\ op'[a].pc = "write" /\ op'[a].todo = op[a].todo /\ op'[a].pairs = op[a].pairs
          /\ op'[a].cur = [v EXCEPT !.info = disk[v.path]]
      BY <1>o, <3>0 DEF OpType
    <3>2. op'[a].cur.path = v.path /\ op'[a].cur.part = v.part
      BY <1>o, <3>1 DEF Rows
    <3>3. RowNamed(op[a].cur, Slot)'
      BY <1>y, <2>1, <3>2, NamedSame DEF RowNamed
    <3> QED  BY <1>y, <2>1, <3>1, <3>2, <3>3, NamedSame DEF NamedOp, RowPaths
  <2>3. ASSUME NEW v \in op[a].todo, Goto(a, [op[a] EXCEPT !.todo = @ \ {v}]) PROVE NamedOp(a, Slot)'
    <3>1. /\ op'[a].pc = "probe" /\ op'[a].todo \subseteq op[a].todo /\ op'[a].pairs = op[a].pairs
          /\ op'[a].cur = op[a].cur
      BY <1>o, <2>1, <2>3, GotoMoves DEF OpType
    <3> QED  BY <1>y, <2>1, <3>1, NamedSame DEF NamedOp, RowPaths
  <2> QED  BY <1>5, <2>1, <2>2, <2>3, NamedTableSame DEF ReprobeRead
<1>6. CASE ReprobeWrite(a)
  <2> DEFINE v == op[a].cur
             rest == {w \in op[a].todo : w.id # v.id}
  <2>0. /\ op[a].pc = "write" /\ op[a].pairs = {} /\ v \in Rows /\ v # NoRow /\ v.path \in RowPaths
        /\ \A u \in op[a].todo : u.path \in RowPaths
        /\ UNCHANGED disk /\ Goto(a, [op[a] EXCEPT !.todo = rest, !.cur = NoRow, !.pc = "probe"])
    BY <1>6, OpTyped, ConstantsAssumption DEF ReprobeWrite, NamedOp
  <2>1. op'[a] = [op[a] EXCEPT !.todo = rest, !.cur = NoRow, !.pc = "probe"]
    BY <2>0, GotoMoves
  <2>2. op'[a].pc = "probe" /\ op'[a].todo = rest /\ op'[a].pairs = op[a].pairs /\ op'[a].cur = NoRow
    BY <1>o, <2>1 DEF OpType
  <2>3. RowPaths' = RowPaths => NamedOp(a, Slot)'
    BY <1>y, <2>0, <2>2, NamedSame DEF NamedOp
  <2>4. CASE UNCHANGED rows
    BY <2>0, <2>3, <2>4, NamedTableSame DEF RowPaths
  <2>5. CASE Upsert(v.path, v.part, v.info)
    <3> DEFINE new(u) == IF u.path = v.path THEN [u EXCEPT !.part = v.part, !.info = v.info] ELSE u
    <3>1. rows' = {new(u) : u \in rows}
      BY <2>0, <2>5 DEF Upsert, RowPaths
    <3>2. \A u \in rows : /\ new(u).path = u.path
                          /\ u.path = v.path => new(u).part = v.part
                          /\ u.path # v.path => new(u) = u
      BY <1>t DEF Rows
    <3> HIDE DEF new
    <3>3. RowPaths' = RowPaths
      BY <3>1, <3>2 DEF RowPaths
    <3>4. \A u \in rows : RowNamed(new(u), Slot)
      BY <1>y, <2>0, <3>2 DEF RowNamed
    <3>5. OnePerSlot(rows, Slot)'
      BY <3>1, <3>2 DEF NamedTable, OnePerSlot
    <3>6. NamedTable(Slot)'
      BY <2>0, <3>1, <3>4, <3>5, NamedSame DEF NamedTable
    <3> QED  BY <2>3, <3>3, <3>6
  <2> QED  BY <1>6, <2>4, <2>5 DEF ReprobeWrite
<1>7. CASE RefreshDone(a)
  <2>1. UNCHANGED <<rows, disk>> /\ Goto(a, Idle)
    BY <1>7 DEF RefreshDone
  <2> QED  BY <2>1, NamedTableSame, GotoMoves, NamedIdle
<1> QED  BY <1>1, <1>2, <1>3, <1>4, <1>5, <1>6, <1>7 DEF Refresh

LEMMA NamedDrift ==
  ASSUME Inv, NEW Slot, NamesTell(Slot), NamedTable(Slot), kinds' = kinds,
         NEW a \in Actors, NamedOp(a, Slot), Drift(a)
  PROVE  NamedTable(Slot)' /\ NamedOp(a, Slot)'
<1> USE DEF RemuxSteps
<1>o. op[a] \in OpType /\ op[a].todo \subseteq Rows
  BY OpTyped
<1>t. TableOK /\ \A v, w \in rows : v.id = w.id \/ v.path = w.path => v = w
  BY DEF Inv, TableOK
<1>y. /\ \A v \in rows : RowNamed(v, Slot)
      /\ \A v \in op[a].todo : RowNamed(v, Slot)
      /\ op[a].cur # NoRow => RowNamed(op[a].cur, Slot)
  BY DEF NamedTable, NamedOp
<1>1. CASE \E d \in DriftDirs : DriftStart(a, d)
  <2>1. PICK d \in DriftDirs : DriftStart(a, d)
    BY <1>1
  <2>2. /\ op'[a] = [Idle EXCEPT !.pc = "walk", !.dirs = {d}, !.todo = rows]
        /\ "drift" \in kinds /\ UNCHANGED <<rows, disk>>
    BY <2>1, GotoMoves DEF DriftStart, Start
  <2>3. op'[a].pc = "walk" /\ op'[a].todo = rows /\ op'[a].pairs = {} /\ op'[a].cur = NoRow /\ op'[a].dirs = {d}
    BY <2>2 DEF Idle
  <2> QED  BY <1>t, <1>y, <2>2, <2>3, NamedTableSame, NamedSame DEF NamedOp
<1>2. CASE DriftUpdate(a)
  <2> DEFINE moved == {p \in Paths : /\ Dir(p) \in op[a].dirs /\ There(p)
                                   /\ \E v \in Namesake(a, p) : v.path # p}
             p == CHOOSE p \in moved : TRUE
             new == [op[a] EXCEPT !.todo = @ \ Namesake(a, p)]
  <2>1. /\ op[a].pc = "walk" /\ op[a].pairs = {} /\ op[a].dirs \subseteq DriftDirs /\ "drift" \in kinds
        /\ \A v \in op[a].todo, w \in rows : v.id = w.id => Slot[v.path] = Slot[w.path]
        /\ UNCHANGED disk
    BY <1>2 DEF DriftUpdate, NamedOp
  <2>2. CASE Goto(a, Idle) /\ UNCHANGED rows
    BY <2>1, <2>2, GotoMoves, NamedIdle, NamedTableSame
  <2>3. ASSUME moved # {}, Goto(a, new), NEW v \in Namesake(a, p), Repath(v.id, p) \/ UNCHANGED rows
        PROVE  NamedTable(Slot)' /\ NamedOp(a, Slot)'
    <3>1. p \in moved
      BY <2>3
    <3>2. p \in Paths /\ Dir(p) \in DriftDirs /\ There(p)
      BY <2>1, <3>1
    <3> HIDE DEF p
    <3>3. v \in op[a].todo /\ v.path \in Paths /\ Base(v.path) = Base(p)
      BY <1>o, <2>3 DEF Namesake, Rows
    <3>4. Slot[v.path] = Slot[p]
      BY <1>y, <2>1, <3>2, <3>3 DEF RowNamed, PathNamed, NamesTell
    <3>5. PathNamed(p, Slot)
      BY <3>2 DEF PathNamed, NamesTell
    <3>6. NamedTable(Slot)' /\ \A x \in rows' : \E w \in rows : x.id = w.id /\ Slot[x.path] = Slot[w.path]
      <4>1. CASE Repath(v.id, p)
        <5>1. \A w \in rows : w.id = v.id => Slot[w.path] = Slot[p]
          BY <2>1, <3>3, <3>4
        <5> QED  BY <1>t, <2>1, <3>2, <3>5, <4>1, <5>1, RepathNamed
      <4>2. CASE UNCHANGED rows
        BY <2>1, <4>2, NamedTableSame
      <4> QED  BY <2>3, <4>1, <4>2
    <3>7. op'[a] = new
      BY <2>3, GotoMoves
    <3>8. /\ op'[a].pc = "walk" /\ op'[a].todo \subseteq op[a].todo /\ op'[a].pairs = {} /\ op'[a].cur = op[a].cur
          /\ op'[a].dirs = op[a].dirs
      BY <1>o, <2>1, <3>7 DEF OpType
    <3> HIDE DEF new
    <3>9. \A u \in op'[a].todo, w \in rows' : u.id = w.id => Slot[u.path] = Slot[w.path]
      BY <2>1, <3>6, <3>8
    <3> QED  BY <1>y, <2>1, <3>6, <3>8, <3>9, NamedSame DEF NamedOp
  <2> HIDE DEF moved
  <2> QED  BY <1>2, <2>2, <2>3 DEF DriftUpdate, moved
<1> QED  BY <1>1, <1>2 DEF Drift

LEMMA NamedEdit ==
  ASSUME Inv, NEW Slot, NamesTell(Slot), NamedInv(Slot), External
  PROVE  NamedInv(Slot)'
<1> DEFINE kept == /\ FilesApart(disk, Slot)'
                   /\ \A x : PathNamed(x, Slot) => PathNamed(x, Slot)'
                   /\ \A v : RowNamed(v, Slot) => RowNamed(v, Slot)'
<1>f. FilesApart(disk, Slot)
  BY DEF NamedInv, NamedTable
<1>1. ASSUME NEW p \in Paths, NEW q \in Paths, ExtRename(p, q) PROVE kept
  <2>1. /\ kinds' = kinds /\ There(p) /\ ~There(q) /\ Dir(p) = Dir(q) /\ Canon[p] = Canon[q]
        /\ disk' = [disk EXCEPT ![p] = Nothing, ![q] = disk[p]]
    BY <1>1 DEF ExtRename, Edit
  <2>2. Dir(p) \notin Disc
    BY <1>f, <2>1 DEF FilesApart, There
  <2>3. Slot[p] = Slot[q]
    BY <2>1, <2>2 DEF NamesTell
  <2> QED  BY <1>f, <2>1, <2>3, MoveKeepsNames
<1>2. ASSUME NEW p \in Paths, NEW f \in Files, ExtReplace(p, f) PROVE kept
  <2>1. kinds' = kinds /\ There(p) /\ PartOf[f] = 0 /\ disk' = [disk EXCEPT ![p] = f]
    BY <1>2 DEF ExtReplace, Edit
  <2> QED  BY <1>f, <2>1, ReplaceKeepsNames
<1>3. ASSUME NEW d \in DriftDirs, NEW e \in DriftDirs, ExtMoveFolder(d, e) PROVE kept
  <2>1. /\ kinds' = kinds /\ d # e /\ \E p \in InDir(d) : There(p) /\ \A q \in InDir(e) : ~There(q)
        /\ disk' = [p \in Paths |-> IF Dir(p) = d THEN Nothing
                                    ELSE IF Dir(p) = e THEN disk[<<d, Base(p)>>] ELSE disk[p]]
    BY <1>3 DEF ExtMoveFolder, Edit
  <2> QED  BY <1>f, <2>1, FolderMoveKeepsNames
<1>4. kept
  BY <1>1, <1>2, <1>3 DEF External
<1> HIDE DEF kept
<1>5. UNCHANGED <<rows, op, kinds>>
  BY DEF External, ExtRename, ExtReplace, ExtMoveFolder, Edit
<1>6. NamedTable(Slot)'
  BY <1>4, <1>5 DEF kept, NamedInv, NamedTable, OnePerSlot
<1>7. ASSUME NEW a \in Actors PROVE NamedOp(a, Slot)'
  <2>1. NamedOp(a, Slot)
    BY DEF NamedInv
  <2>2. /\ \A x : PathNamed(x, Slot) => PathNamed(x, Slot)'
        /\ \A v : RowNamed(v, Slot) => RowNamed(v, Slot)'
    BY <1>4 DEF kept
  <2>3. RowPaths' = RowPaths
    BY <1>5 DEF RowPaths
  <2> QED  BY <1>5, <2>1, <2>2, <2>3 DEF NamedOp, OnePerSlot, Dest, There
<1> QED  BY <1>5, <1>6, <1>7 DEF NamedInv

LEMMA KindsStay == ASSUME NEW a \in Actors, Act(a) PROVE kinds' = kinds
BY DEF Act, Rename, RenameStart, RenamePlan, RenameLook, RenameApply, RenameDelete, RenameInsert, Refresh,
       RefreshStart, ReconcileFolder, ReconcileUpdate, ReprobeList, ReprobeRead, ReprobeWrite,
       RefreshDone, Remux, RemuxStart, Preserve, MakeMKV, MoveProduced, PlaceProduced, SwapDelete, SwapUpsert,
       Drift, DriftStart, DriftUpdate, Start, counters

LEMMA DiscInvInductive ==
  ASSUME Sole, TemplatesApart, TitlesTell, Inv, AloneInv, DiscInv, [Next]_vars
  PROVE  DiscInv'
<1>i. ASSUME NEW a \in Actors, op'[a] = Idle PROVE DiscOp(a)'
  BY <1>i, IdleTyped DEF DiscOp, Idle, RemuxSteps
<1>1. ASSUME NEW a \in Actors, Act(a) PROVE DiscInv'
  <2>1. ~Drift(a)
    BY <1>1 DEF Drift, DriftStart, DriftUpdate, Start, DiscInv, DiscOp
  <2>2. DiscTable' /\ DiscOp(a)'
    BY <1>1, <2>1, DiscRename, DiscRefresh, DiscRemux DEF Act, DiscInv
  <2>3. \A b \in Actors : b # a => op'[b] = Idle
    BY <1>1, OthersIdle
  <2>4. \A b \in Actors : DiscOp(b)'
    BY <1>i, <2>2, <2>3
  <2> QED  BY <1>1, <2>2, <2>4, KindsStay DEF DiscInv
<1>2. CASE External
  BY <1>2 DEF External, ExtRename, ExtReplace, ExtMoveFolder, Edit, DiscInv
<1>3. CASE CrashRestart
  <2>1. UNCHANGED <<rows, disk, kinds>> /\ \A a \in Actors : op'[a] = Idle
    BY <1>3 DEF CrashRestart, counters
  <2>2. \A a \in Actors : DiscOp(a)'
    BY <1>i, <2>1
  <2> QED  BY <2>1, <2>2, DiscSame DEF DiscInv
<1>4. CASE UNCHANGED vars
  <2>1. UNCHANGED <<rows, disk, kinds, op>>
    BY <1>4 DEF vars
  <2>2. \A a \in Actors : DiscOp(a)'
    BY <2>1 DEF DiscInv, DiscOp, DiscMoving, Dest, There, RowPaths, VtsEmpty, TitlePath, PartOfTitle, Earliest
  <2> QED  BY <2>1, <2>2, DiscSame DEF DiscInv
<1> QED  BY <1>1, <1>2, <1>3, <1>4 DEF Next, Act, Terminated

LEMMA NamedInvInductive ==
  ASSUME Sole, NEW Slot, NamesTell(Slot), Inv, AloneInv, NamedInv(Slot), [Next]_vars
  PROVE  NamedInv(Slot)'
<1>1. ASSUME NEW a \in Actors, Act(a) PROVE NamedInv(Slot)'
  <2>1. ~Remux(a)
    BY <1>1 DEF Remux, RemuxStart, Preserve, MakeMKV, MoveProduced, PlaceProduced, SwapDelete, SwapUpsert, Start, NamedInv,
                NamedOp, RemuxSteps
  <2>2. kinds' = kinds
    BY <1>1, KindsStay
  <2>3. NamedTable(Slot)' /\ NamedOp(a, Slot)'
    BY <1>1, <2>1, <2>2, NamedRename, NamedRefresh, NamedDrift DEF Act, NamedInv
  <2>4. \A b \in Actors : b # a => op'[b] = Idle
    BY <1>1, OthersIdle
  <2>5. \A b \in Actors : NamedOp(b, Slot)'
    BY <2>3, <2>4, NamedIdle
  <2> QED  BY <2>2, <2>3, <2>5 DEF NamedInv
<1>2. CASE External
  BY <1>2, NamedEdit
<1>3. CASE CrashRestart
  <2>1. UNCHANGED <<rows, disk, kinds>> /\ \A a \in Actors : op'[a] = Idle
    BY <1>3 DEF CrashRestart, counters
  <2>2. \A a \in Actors : NamedOp(a, Slot)'
    BY <2>1, NamedIdle
  <2> QED  BY <2>1, <2>2, NamedTableSame DEF NamedInv
<1>4. CASE UNCHANGED vars
  <2>1. UNCHANGED <<rows, disk, kinds, op>>
    BY <1>4 DEF vars
  <2>2. \A a \in Actors : NamedOp(a, Slot)'
    BY <2>1, NamedSame DEF NamedInv, NamedOp, RowPaths, OnePerSlot, Dest, There
  <2> QED  BY <2>1, <2>2, NamedTableSame DEF NamedInv
<1> QED  BY <1>1, <1>2, <1>3, <1>4 DEF Next, Act, Terminated

(* No row comes to lead to another part, whatever fails, crashes or is      *)
(* renamed and moved by the external tool, while operations do not overlap: *)
(* of a disc because there is never anything to pair, of any other          *)
(* recording because the pairing by name order pairs by slot. NamesTell and *)
(* NamedStart leave out a tool that exchanges the names of two parts, which *)
(* the pairing cannot tell from one that renames each.                      *)
THEOREM PartsKeepTheirFileHolds ==
  ASSUME Sole, TemplatesApart, TitlesTell, NEW Slot, NamesTell(Slot),
         \A s \in Starts : DiscStart(s) \/ NamedStart(s, Slot)
  PROVE  Spec => []PartsKeepTheirFile
<1> DEFINE PartInv == DiscInv \/ NamedInv(Slot)
<1>1. ASSUME Init PROVE PartInv
  <2>1. PICK s \in Starts : disk = s.disk /\ rows = s.rows /\ kinds = s.kinds
    BY <1>1 DEF Init
  <2>2. \A a \in Actors : op[a] = Idle
    BY <1>1 DEF Init
  <2>3. Inv
    BY <1>1, InvInit
  <2>4. CASE DiscStart(s)
    <3>1. DiscTable
      BY <2>1, <2>4 DEF DiscStart, DiscTable, VobsKnown, RowsPlaced, PartsKeepTheirFile, There, RowPaths
    <3>2. \A a \in Actors : DiscOp(a)
      BY <2>2, IdleTyped DEF DiscOp, Idle, RemuxSteps
    <3> QED  BY <2>1, <2>4, <3>1, <3>2 DEF DiscStart, DiscInv
  <2>5. CASE NamedStart(s, Slot)
    <3>1. \A v \in rows : RowNamed(v, Slot)
      <4> SUFFICES ASSUME NEW v \in rows PROVE RowNamed(v, Slot)
        OBVIOUS
      <4>1. PICK p \in InDir(Dir(v.path)) : There(p) /\ Slot[p] = Slot[v.path] /\ Tells(v.part, disk[p])
        BY <2>1, <2>5 DEF NamedStart, There
      <4>2. p \in Paths /\ Dir(p) = Dir(v.path) /\ Dir(p) \notin Disc
        BY <2>1, <2>5, <4>1 DEF NamedStart, FilesApart, There, InDir
      <4>3. PathNamed(v.path, Slot)
        BY <2>1, <2>5, <4>1, <4>2 DEF NamedStart, PathNamed
      <4>4. \A q \in Paths : There(q) /\ Slot[q] = Slot[v.path] => q = p
        BY <2>1, <2>5, <4>1, <4>2 DEF NamedStart, FilesApart, There
      <4> QED  BY <4>1, <4>3, <4>4 DEF RowNamed
    <3>2. NamedTable(Slot)
      BY <2>1, <2>5, <3>1 DEF NamedStart, NamedTable
    <3>3. \A a \in Actors : NamedOp(a, Slot)
      BY <2>2 DEF NamedOp, Idle, RemuxSteps
    <3> QED  BY <2>1, <2>5, <3>2, <3>3 DEF NamedStart, NamedInv
  <2> QED  BY <2>1, <2>4, <2>5
<1>2. Inv /\ AloneInv /\ PartInv /\ [Next]_vars => PartInv'
  BY DiscInvInductive, NamedInvInductive
<1>3. Inv /\ PartInv => PartsKeepTheirFile
  <2>1. DiscInv => PartsKeepTheirFile
    BY DEF DiscInv, DiscTable
  <2>2. ASSUME Inv, NamedInv(Slot) PROVE PartsKeepTheirFile
    BY <2>2 DEF NamedInv, NamedTable, RowNamed, PartsKeepTheirFile, Inv, TableOK, Rows
  <2> QED  BY <2>1, <2>2
<1>4. Spec => []AloneInv
  BY AloneInvHolds
<1> QED  BY <1>1, <1>2, <1>3, <1>4, InvHolds, PTL DEF Spec
=============================================================================
