-------------------------- MODULE ImageSlotProofs --------------------------
(***************************************************************************)
(* Theorems about ImageSlot, for any requests, kinds and lengths of image. *)
(* Type correctness holds for any number of requests in progress.  That    *)
(* only whole images are published, and that an OK means one's own, holds  *)
(* when requests for the slot do not overlap (OneAtATime): each of them    *)
(* leaves the .tmp it wrote to complete or dead, never under the slot's    *)
(* name.  No failure or crash is excluded.                                 *)
(***************************************************************************)
EXTENDS ImageSlot, FiniteSetTheorems, TLAPS

OneAtATime == MaxInFlight = 1

Bytes == Images \cup {None}
(* Where a request has not opened anything. *)
Early == {"idle", "probe", "lookup", "remove", "exists", "download", "decode", "source",
          "reap", "open"}

-----------------------------------------------------------------------------
(* The type invariant.  TypeOK does not say how far a writer is: it has     *)
(* written nothing before it opens, and in the loop has a block to go.      *)

FilesOK ==
  /\ slot \in Bytes /\ tmp \in Requests \cup {None} /\ data \in [Images -> Seq(Bytes)]
  /\ frames \in BOOLEAN
ProgressOK ==
  /\ pc \in [Requests -> Steps]
  /\ fd \in [Requests -> Requests \cup {None}]
  /\ written \in [Requests -> Nat]
  /\ answer \in [Requests -> Answers]
  /\ crashes \in 0 .. MaxCrashes
WriterOK(r) ==
  /\ pc[r] \in Early => written[r] = 0
  /\ pc[r] = "write" => written[r] < Blocks[r]
  /\ written[r] <= Blocks[r]
  /\ Writing(r) => fd[r] # None
TypeInv == FilesOK /\ ProgressOK /\ \A r \in Requests : WriterOK(r)

LEMMA WholeIsBytes ==
  ASSUME NEW w \in Images
  PROVE  Whole(w) \in Seq(Bytes) /\ Blocks[w] \in Nat \ {0}
  <1>1. Blocks[w] \in Nat \ {0}
    BY SlotAssumption
  <1>2. w \in Bytes
    BY DEF Bytes
  <1> QED BY <1>1, <1>2 DEF Whole

(* What a writer has put into its file after n blocks. *)
Copies(w, n) == [k \in 1 .. n |-> w]

LEMMA OverwriteIsBytes ==
  ASSUME NEW s \in Seq(Bytes), NEW b \in Nat \ {0}, NEW r \in Requests
  PROVE  /\ Overwrite(s, b, r) \in Seq(Bytes)
         /\ s = Copies(r, b - 1) => Overwrite(s, b, r) = Copies(r, b)
  <1>1. r \in Bytes /\ None \in Bytes
    BY DEF Bytes, Images
  <1>2. Len(s) \in Nat /\ DOMAIN s = 1 .. Len(s) /\ \A k \in 1 .. Len(s) : s[k] \in Bytes
    OBVIOUS
  <1> DEFINE n == IF Len(s) < b THEN b ELSE Len(s)
             at(k) == IF k = b THEN r ELSE IF k \in DOMAIN s THEN s[k] ELSE None
  <1>3. n \in Nat /\ \A k \in 1 .. n : at(k) \in Bytes
    BY <1>1, <1>2
  <1>4. [k \in 1 .. n |-> at(k)] \in Seq(Bytes)
    <2> HIDE DEF n, at
    <2> QED BY <1>3
  <1>5. Overwrite(s, b, r) = [k \in 1 .. n |-> at(k)]
    BY DEF Overwrite
  <1>6. ASSUME s = Copies(r, b - 1) PROVE Overwrite(s, b, r) = Copies(r, b)
    <2>1. Len(s) = b - 1 /\ DOMAIN s = 1 .. (b - 1) /\ \A k \in 1 .. (b - 1) : s[k] = r
      BY <1>6 DEF Copies
    <2>2. n = b
      BY <2>1
    <2>3. \A k \in 1 .. b : at(k) = r
      BY <2>1
    <2> HIDE DEF n, at
    <2> QED BY <1>5, <2>2, <2>3 DEF Copies
  <1> HIDE DEF n, at
  <1> QED BY <1>4, <1>5, <1>6

(* A step of one request: the others' clauses stand as they were. *)
LEMMA StepKeeps ==
  ASSUME NEW r \in Requests, NEW step \in Steps, TypeInv,
         pc' = [pc EXCEPT ![r] = step],
         \A q \in Requests \ {r} : fd'[q] = fd[q] /\ written'[q] = written[q],
         WriterOK(r)'
  PROVE  \A q \in Requests : WriterOK(q)'
  <1> TAKE q \in Requests
  <1>1. CASE q = r
    BY <1>1
  <1>2. CASE q # r
    BY <1>2 DEF TypeInv, ProgressOK, WriterOK, Writing
  <1> QED BY <1>1, <1>2

(* A step between the writes that leaves the directory alone. *)
LEMMA MoveKeeps ==
  ASSUME NEW r \in Requests, NEW step \in Steps, TypeInv,
         pc' = [pc EXCEPT ![r] = step], answer' \in [Requests -> Answers],
         UNCHANGED <<files, fd, written, crashes>>,
         step \in Early => pc[r] \in Early,
         step # "write",
         step \in {"rename", "cleanup"} => Writing(r)
  PROVE  TypeInv'
  <1>1. WriterOK(r)'
    BY DEF TypeInv, ProgressOK, WriterOK, Writing
  <1>2. \A q \in Requests : WriterOK(q)'
    BY <1>1, StepKeeps
  <1> QED BY <1>2 DEF TypeInv, FilesOK, ProgressOK, files

LEMMA InitTypeInv == Init => TypeInv
  <1> SUFFICES ASSUME Init PROVE TypeInv
    OBVIOUS
  <1>1. data \in [Images -> Seq(Bytes)]
    <2>1. Old \in Images /\ << >> \in Seq(Bytes)
      BY DEF Images
    <2> QED BY <2>1, WholeIsBytes DEF Init
  <1>2. 0 \in 0 .. MaxCrashes
    BY SlotAssumption
  <1>3. \A r \in Requests : Blocks[r] \in Nat \ {0}
    BY SlotAssumption DEF Images
  <1> QED BY <1>1, <1>2, <1>3 DEF Init, TypeInv, FilesOK, ProgressOK, WriterOK, Writing, Steps,
                                  Answers, Early, Bytes, Images

LEMMA OpenTmpKeepsType ==
  ASSUME NEW r \in Requests, TypeInv, OpenTmp(r)
  PROVE  TypeInv'
  <1> DEFINE i == IF tmp = None THEN r ELSE tmp
  <1>1. i \in Requests /\ i \in Images /\ i # None
    BY SlotAssumption DEF TypeInv, FilesOK, Images
  <1>2. tmp' = i /\ data' = [data EXCEPT ![i] = << >>] /\ fd' = [fd EXCEPT ![r] = i]
        /\ pc' = [pc EXCEPT ![r] = "write"] /\ pc[r] = "open"
        /\ UNCHANGED <<slot, frames, written, answer, crashes>>
    BY DEF OpenTmp, Goto
  <1> HIDE DEF i
  <1>3. FilesOK'
    BY <1>1, <1>2 DEF TypeInv, FilesOK
  <1>4. ProgressOK'
    BY <1>1, <1>2 DEF TypeInv, ProgressOK, Steps
  <1>5. Blocks[r] \in Nat \ {0}
    BY SlotAssumption DEF Images
  <1>6. WriterOK(r)'
    BY <1>1, <1>2, <1>5 DEF TypeInv, ProgressOK, WriterOK, Writing, Early
  <1>7. \A q \in Requests : WriterOK(q)'
    BY <1>2, <1>6, StepKeeps DEF Steps, TypeInv, ProgressOK
  <1> QED BY <1>3, <1>4, <1>7 DEF TypeInv

LEMMA WriteBlockKeepsType ==
  ASSUME NEW r \in Requests, TypeInv, WriteBlock(r)
  PROVE  TypeInv'
  <1> DEFINE b == written[r] + 1
             step == IF b = Blocks[r] THEN "rename" ELSE "write"
  <1>1. /\ data' = [data EXCEPT ![fd[r]] = Overwrite(data[fd[r]], b, r)]
        /\ written' = [written EXCEPT ![r] = b] /\ pc' = [pc EXCEPT ![r] = step]
        /\ UNCHANGED <<slot, tmp, frames, fd, answer, crashes>> /\ pc[r] = "write"
    BY DEF WriteBlock, Goto
  <1>2. fd[r] \in Requests /\ fd[r] \in Images
    BY <1>1 DEF TypeInv, ProgressOK, WriterOK, Writing, Images
  <1>3. b \in Nat \ {0} /\ Blocks[r] \in Nat /\ b <= Blocks[r]
    <2>1. written[r] \in Nat /\ written[r] < Blocks[r]
      BY <1>1 DEF TypeInv, ProgressOK, WriterOK
    <2>2. Blocks[r] \in Nat
      BY SlotAssumption DEF Images
    <2> QED BY <2>1, <2>2
  <1>4. FilesOK'
    <2>1. Overwrite(data[fd[r]], b, r) \in Seq(Bytes)
      BY <1>2, <1>3, OverwriteIsBytes DEF TypeInv, FilesOK
    <2> HIDE DEF b
    <2> QED BY <1>1, <1>2, <2>1 DEF TypeInv, FilesOK
  <1>5. step \in Steps /\ step \notin Early
    BY DEF Steps, Early
  <1>6. WriterOK(r)'
    BY <1>1, <1>2, <1>3 DEF TypeInv, ProgressOK, WriterOK, Writing, Early
  <1>7. \A q \in Requests : WriterOK(q)'
    <2>1. \A q \in Requests \ {r} : fd'[q] = fd[q] /\ written'[q] = written[q]
      BY <1>1 DEF TypeInv, ProgressOK
    <2> HIDE DEF step, b
    <2> QED BY <1>1, <1>5, <1>6, <2>1, StepKeeps
  <1>8. ProgressOK'
    <2> HIDE DEF step
    <2> QED BY <1>1, <1>3, <1>5 DEF TypeInv, ProgressOK
  <1> QED BY <1>4, <1>7, <1>8 DEF TypeInv

LEMMA TypeInvInductive == TypeInv /\ [Next]_vars => TypeInv'
  <1> SUFFICES ASSUME TypeInv, [Next]_vars PROVE TypeInv'
    OBVIOUS
  <1> USE DEF Return, Goto
  <1>a. \A r \in Requests, x \in Answers : [answer EXCEPT ![r] = x] \in [Requests -> Answers]
    BY DEF TypeInv, ProgressOK
  <1>b. answer \in [Requests -> Answers]
    BY DEF TypeInv, ProgressOK
  <1>c. {"ok", "present", "error"} \subseteq Answers
    BY DEF Answers
  <1>1. ASSUME NEW r \in Requests, Start(r) PROVE TypeInv'
    <2> DEFINE step == FirstStep(r)
    <2>1. step \in {"decode", "remove", "source", "probe", "lookup"}
      BY SlotAssumption DEF Kinds, FirstStep
    <2>2. pc' = [pc EXCEPT ![r] = step] /\ pc[r] = "idle"
          /\ UNCHANGED <<files, fd, written, answer, crashes>>
      BY <1>1 DEF Start
    <2> HIDE DEF step
    <2>3. step \in Steps /\ step # "write" /\ step \notin {"rename", "cleanup"} /\ pc[r] \in Early
      BY <2>1, <2>2 DEF Steps, Early
    <2> QED BY <2>2, <2>3, <1>b, MoveKeeps
  <1>2. ASSUME NEW r \in Requests, Probe(r) PROVE TypeInv'
    BY <1>2, <1>a, <1>b, <1>c, MoveKeeps DEF Probe, Steps, Early
  <1>3. ASSUME NEW r \in Requests, Lookup(r) PROVE TypeInv'
    <2>1. pc[r] = "lookup" /\ UNCHANGED <<files, fd, written, crashes>>
      BY <1>3 DEF Lookup
    <2>2. \/ pc' = [pc EXCEPT ![r] = "remove"] /\ answer' = answer
          \/ pc' = [pc EXCEPT ![r] = "exists"] /\ answer' = answer
          \/ pc' = [pc EXCEPT ![r] = "done"] /\ answer' = [answer EXCEPT ![r] = "error"]
      BY <1>3 DEF Lookup
    <2> QED BY <2>1, <2>2, <1>a, <1>b, <1>c, MoveKeeps DEF Steps, Early
  <1>4. ASSUME NEW r \in Requests, Remove(r) PROVE TypeInv'
    <2>1. WriterOK(r)'
      BY <1>4 DEF Remove, TypeInv, ProgressOK, WriterOK, Writing, Early
    <2>2. \A q \in Requests : WriterOK(q)'
      BY <1>4, <2>1, StepKeeps DEF Remove, Steps
    <2> QED BY <1>4, <2>2 DEF Remove, TypeInv, FilesOK, ProgressOK, Bytes, Steps
  <1>5. ASSUME NEW r \in Requests, FetchTo(r) PROVE TypeInv'
    BY <1>5, <1>a, <1>b, <1>c, MoveKeeps DEF FetchTo, Steps, Early
  <1>6. ASSUME NEW r \in Requests, FetchBody(r) PROVE TypeInv'
    BY <1>6, <1>a, <1>b, <1>c, MoveKeeps DEF FetchBody, Steps, Early
  <1>7. ASSUME NEW r \in Requests, Encode(r) PROVE TypeInv'
    BY <1>7, <1>a, <1>b, <1>c, MoveKeeps DEF Encode, Steps, Early
  <1>8. ASSUME NEW r \in Requests, Reap(r) PROVE TypeInv'
    <2>1. WriterOK(r)'
      BY <1>8 DEF Reap, TypeInv, ProgressOK, WriterOK, Writing, Early
    <2>2. \A q \in Requests : WriterOK(q)'
      BY <1>8, <2>1, StepKeeps DEF Reap, Steps
    <2> QED BY <1>8, <2>2 DEF Reap, TypeInv, FilesOK, ProgressOK, Steps
  <1>9. ASSUME NEW r \in Requests, OpenTmp(r) PROVE TypeInv'
    BY <1>9, OpenTmpKeepsType
  <1>10. ASSUME NEW r \in Requests, WriteBlock(r) PROVE TypeInv'
    BY <1>10, WriteBlockKeepsType
  <1>11. ASSUME NEW r \in Requests, WriteFails(r) PROVE TypeInv'
    BY <1>11, <1>a, <1>b, <1>c, MoveKeeps DEF WriteFails, Steps, Early, Writing
  <1>12. ASSUME NEW r \in Requests, Rename(r) PROVE TypeInv'
    <2>1. WriterOK(r)'
      BY <1>12 DEF Rename, TypeInv, ProgressOK, WriterOK, Writing, Early
    <2>2. \A q \in Requests : WriterOK(q)'
      BY <1>12, <2>1, StepKeeps DEF Rename, Steps
    <2> QED BY <1>12, <1>a, <1>c, <2>2 DEF Rename, TypeInv, FilesOK, ProgressOK, Steps, Bytes, Images
  <1>13. ASSUME NEW r \in Requests, RenameFails(r) PROVE TypeInv'
    BY <1>13, <1>b, MoveKeeps DEF RenameFails, Steps, Early, Writing
  <1>14. ASSUME NEW r \in Requests, RemoveTmp(r) PROVE TypeInv'
    <2>1. WriterOK(r)'
      BY <1>14 DEF RemoveTmp, TypeInv, ProgressOK, WriterOK, Writing, Early
    <2>2. \A q \in Requests : WriterOK(q)'
      BY <1>14, <2>1, StepKeeps DEF RemoveTmp, Steps
    <2> QED BY <1>14, <1>a, <1>c, <2>2 DEF RemoveTmp, TypeInv, FilesOK, ProgressOK, Steps
  <1>a1. ASSUME NEW r \in Requests, OpenSource(r) PROVE TypeInv'
    BY <1>a1, <1>a, <1>b, <1>c, MoveKeeps DEF OpenSource, Steps, Early
  <1>a2. ASSUME NEW r \in Requests, ClearFrames(r) PROVE TypeInv'
    <2>1. WriterOK(r)'
      BY <1>a2 DEF ClearFrames, TypeInv, ProgressOK, WriterOK, Writing, Early
    <2>2. \A q \in Requests : WriterOK(q)'
      BY <1>a2, <2>1, StepKeeps DEF ClearFrames, Steps
    <2> QED BY <1>a2, <1>a, <1>c, <2>2 DEF ClearFrames, TypeInv, FilesOK, ProgressOK, Steps
  <1>a3. CASE PickerVisit
    BY <1>a3 DEF PickerVisit, TypeInv, FilesOK, ProgressOK, WriterOK, Writing
  <1>15. CASE CrashRestart
    <2>1. crashes' \in 0 .. MaxCrashes
      BY <1>15, SlotAssumption DEF CrashRestart, TypeInv, ProgressOK
    <2>2. pc' \in [Requests -> Steps]
      BY <1>15 DEF CrashRestart, TypeInv, ProgressOK, Steps
    <2>3. ASSUME NEW q \in Requests PROVE WriterOK(q)'
      BY <1>15 DEF CrashRestart, TypeInv, ProgressOK, WriterOK, Writing, Early, InFlight
    <2> QED BY <1>15, <2>1, <2>2, <2>3 DEF CrashRestart, TypeInv, FilesOK, ProgressOK, files
  <1>16. CASE UNCHANGED vars
    BY <1>16 DEF vars, TypeInv, FilesOK, ProgressOK, WriterOK, Writing
  <1> QED
    BY <1>1, <1>2, <1>3, <1>4, <1>5, <1>6, <1>7, <1>8, <1>9, <1>10, <1>11, <1>12, <1>13, <1>14,
       <1>a1, <1>a2, <1>a3, <1>15, <1>16 DEF Next

LEMMA TypeInvHolds == Spec => []TypeInv
  <1> QED BY InitTypeInv, TypeInvInductive, PTL DEF Spec

(* Any number of requests, of any kind, through failures and restarts: the  *)
(* slot and its .tmp lead to inodes that were created, and a request that   *)
(* is writing has a file open and never writes past the end of its image.   *)
THEOREM TypeCorrect == Spec => []TypeOK
  <1>1. TypeInv => TypeOK
    <2> SUFFICES ASSUME TypeInv PROVE TypeOK
      OBVIOUS
    <2>1. \A r \in Requests : written[r] \in 0 .. Blocks[r]
      BY SlotAssumption DEF TypeInv, ProgressOK, WriterOK, Images
    <2>2. \A i \in Images : \A b \in DOMAIN data[i] : data[i][b] \in Images \cup {None}
      BY DEF TypeInv, FilesOK, Bytes
    <2>3. DOMAIN data = Images
      BY DEF TypeInv, FilesOK
    <2>4. \A r \in Requests : Writing(r) => fd[r] # None
      BY DEF TypeInv, WriterOK
    <2> QED BY <2>1, <2>2, <2>3, <2>4 DEF TypeInv, FilesOK, ProgressOK, TypeOK, Bytes
  <1> QED BY <1>1, TypeInvHolds, PTL

-----------------------------------------------------------------------------
(* One request at a time.  PublishedIsWhole is not inductive: it takes that *)
(* the .tmp is not the slot's inode, that whoever writes is alone with it   *)
(* and has put its own blocks there and no others, and that the inode a     *)
(* request will create is nobody's yet.                                     *)

Alone == \A r, q \in InFlight : r = q
Unnamed(r) == pc[r] \in Early => r # slot /\ r # tmp
WritesItsOwn(r) ==
  /\ pc[r] = "write" => tmp # None /\ fd[r] = tmp /\ data[tmp] = Copies(r, written[r])
  /\ pc[r] = "rename" => tmp # None /\ data[tmp] = Whole(r)
  /\ pc[r] = "clear" => slot # None /\ data[slot] = Whole(r)
LoneInv ==
  /\ Alone /\ PublishedIsWhole
  /\ tmp # None => tmp # slot
  /\ \A r \in Requests : Unnamed(r) /\ WritesItsOwn(r)

(* A step of a request in progress, or the start of one when none is. *)
LEMMA StaysAlone ==
  ASSUME NEW r \in Requests, NEW step, Alone, pc \in [Requests -> Steps],
         pc' = [pc EXCEPT ![r] = step],
         r \in InFlight \/ InFlight = {}
  PROVE  /\ Alone'
         /\ \A q \in Requests \ {r} : pc'[q] = pc[q] /\ pc[q] \in {"idle", "done"}
  <1>1. ASSUME NEW q \in Requests, q # r PROVE pc'[q] = pc[q] /\ pc[q] \in {"idle", "done"}
    BY <1>1 DEF Alone, InFlight
  <1>2. InFlight' \subseteq {r}
    BY <1>1 DEF InFlight
  <1> QED BY <1>1, <1>2 DEF Alone

(* A step that leaves the directory and the files alone. *)
LEMMA LoneMoveKeeps ==
  ASSUME NEW r \in Requests, NEW step, TypeInv, LoneInv,
         pc' = [pc EXCEPT ![r] = step],
         r \in InFlight \/ InFlight = {},
         UNCHANGED <<files, fd, written>>,
         step \notin {"write", "rename", "clear"},
         step \in Early => pc[r] \in Early
  PROVE  LoneInv'
  <1>1. Alone' /\ \A q \in Requests \ {r} : pc'[q] = pc[q] /\ pc[q] \in {"idle", "done"}
    BY StaysAlone DEF LoneInv, TypeInv, ProgressOK
  <1>2. pc'[r] = step
    BY DEF TypeInv, ProgressOK
  <1>3. ASSUME NEW q \in Requests PROVE Unnamed(q)' /\ WritesItsOwn(q)'
    <2>1. CASE q = r
      BY <1>2, <2>1 DEF LoneInv, Unnamed, WritesItsOwn, files
    <2>2. CASE q # r
      BY <1>1, <2>2 DEF LoneInv, Unnamed, WritesItsOwn, files
    <2> QED BY <2>1, <2>2
  <1> QED BY <1>1, <1>3 DEF LoneInv, PublishedIsWhole, Present, IsWhole, files

LEMMA InitLoneInv == Init => LoneInv
  <1> SUFFICES ASSUME Init PROVE LoneInv
    OBVIOUS
  <1>1. slot # None => IsWhole(slot)
    BY DEF Init, IsWhole, Images
  <1> QED BY <1>1, SlotAssumption DEF Init, LoneInv, Alone, InFlight, PublishedIsWhole, Present,
                                      Unnamed, WritesItsOwn, Images

(* MaxInFlight counts sets of requests that are empty or single. *)
LEMMA StartsAlone ==
  ASSUME OneAtATime, Alone, Cardinality(InFlight) < MaxInFlight
  PROVE  InFlight = {}
  <1> SUFFICES ASSUME NEW r \in InFlight PROVE FALSE
    OBVIOUS
  <1>1. InFlight = {r}
    BY DEF Alone
  <1>2. Cardinality(InFlight) = 1
    BY <1>1, FS_Singleton
  <1> QED BY <1>2 DEF OneAtATime

LEMMA OpenTmpKeepsLone ==
  ASSUME NEW r \in Requests, TypeInv, LoneInv, OpenTmp(r)
  PROVE  LoneInv'
  <1> DEFINE i == IF tmp = None THEN r ELSE tmp
  <1>1. tmp' = i /\ data' = [data EXCEPT ![i] = << >>] /\ fd' = [fd EXCEPT ![r] = i]
        /\ pc' = [pc EXCEPT ![r] = "write"] /\ UNCHANGED <<slot, written>> /\ pc[r] = "open"
    BY DEF OpenTmp, Goto
  <1>2. i \in Images /\ i # None /\ i # slot
    BY <1>1, SlotAssumption DEF TypeInv, FilesOK, Images, LoneInv, Unnamed, Early
  <1>3. Alone' /\ \A q \in Requests \ {r} : pc'[q] = pc[q] /\ pc[q] \in {"idle", "done"}
    BY <1>1, StaysAlone DEF LoneInv, TypeInv, ProgressOK, InFlight
  <1>4. data'[i] = << >> /\ written'[r] = 0 /\ fd'[r] = i /\ pc'[r] = "write"
    BY <1>1, <1>2 DEF TypeInv, FilesOK, ProgressOK, WriterOK, Early
  <1>5. i \in {r, tmp}
    OBVIOUS
  <1> HIDE DEF i
  <1>6. PublishedIsWhole'
    <2>1. ASSUME slot # None PROVE data'[slot] = data[slot]
      BY <1>1, <1>2, <2>1 DEF TypeInv, FilesOK, Bytes
    <2> QED BY <1>1, <2>1 DEF LoneInv, PublishedIsWhole, Present, IsWhole
  <1>7. WritesItsOwn(r)' /\ Unnamed(r)'
    <2>1. data'[i] = Copies(r, 0)
      BY <1>4 DEF Copies
    <2> QED BY <1>1, <1>2, <1>4, <2>1 DEF WritesItsOwn, Unnamed, Early
  <1>8. ASSUME NEW q \in Requests \ {r} PROVE WritesItsOwn(q)' /\ Unnamed(q)'
    BY <1>1, <1>3, <1>5, <1>8 DEF WritesItsOwn, Unnamed, LoneInv
  <1> QED BY <1>1, <1>2, <1>3, <1>6, <1>7, <1>8 DEF LoneInv

LEMMA WriteBlockKeepsLone ==
  ASSUME NEW r \in Requests, TypeInv, LoneInv, WriteBlock(r)
  PROVE  LoneInv'
  <1> DEFINE b == written[r] + 1
             step == IF b = Blocks[r] THEN "rename" ELSE "write"
             new == Overwrite(data[tmp], b, r)
  <1>0. pc[r] = "write" /\ tmp # None /\ fd[r] = tmp /\ data[tmp] = Copies(r, written[r])
    BY DEF WriteBlock, LoneInv, WritesItsOwn
  <1>1. /\ data' = [data EXCEPT ![tmp] = new]
        /\ written' = [written EXCEPT ![r] = b] /\ pc' = [pc EXCEPT ![r] = step]
        /\ UNCHANGED <<slot, tmp, fd>>
    BY <1>0 DEF WriteBlock, Goto
  <1>2. tmp \in Images /\ tmp # slot /\ data[tmp] \in Seq(Bytes)
    BY <1>0 DEF TypeInv, FilesOK, Images, LoneInv
  <1>3. b \in Nat \ {0} /\ written[r] \in Nat /\ written[r] = b - 1 /\ Blocks[r] \in Nat
    <2>1. written[r] \in Nat
      BY DEF TypeInv, ProgressOK
    <2>2. Blocks[r] \in Nat
      BY SlotAssumption DEF Images
    <2> QED BY <2>1, <2>2
  <1>4. new = Copies(r, b)
    <2> HIDE DEF b
    <2>1. data[tmp] = Copies(r, b - 1)
      BY <1>0, <1>3
    <2>2. b \in Nat \ {0} /\ data[tmp] \in Seq(Bytes)
      BY <1>2, <1>3
    <2> QED BY <2>1, <2>2, OverwriteIsBytes
  <1>5. Alone' /\ \A q \in Requests \ {r} : pc'[q] = pc[q] /\ pc[q] \in {"idle", "done"}
    BY <1>0, <1>1, StaysAlone DEF LoneInv, TypeInv, ProgressOK, InFlight
  <1>6. data'[tmp] = new /\ written'[r] = b /\ pc'[r] = step
    BY <1>1, <1>2 DEF TypeInv, FilesOK, ProgressOK
  <1> HIDE DEF new, b
  <1>7. PublishedIsWhole'
    <2>1. ASSUME slot # None PROVE data'[slot] = data[slot]
      BY <1>1, <1>2, <2>1 DEF TypeInv, FilesOK, Bytes
    <2> QED BY <1>1, <2>1 DEF LoneInv, PublishedIsWhole, Present, IsWhole
  <1>8. WritesItsOwn(r)' /\ Unnamed(r)'
    <2>1. CASE b = Blocks[r]
      <3>1. new = Whole(r)
        BY <1>4, <2>1 DEF Copies, Whole
      <3> QED BY <1>0, <1>1, <1>6, <2>1, <3>1 DEF WritesItsOwn, Unnamed, Early, Whole
    <2>2. CASE b # Blocks[r]
      BY <1>0, <1>1, <1>4, <1>6, <2>2 DEF WritesItsOwn, Unnamed, Early
    <2> QED BY <2>1, <2>2
  <1>9. ASSUME NEW q \in Requests \ {r} PROVE WritesItsOwn(q)' /\ Unnamed(q)'
    BY <1>1, <1>5, <1>9 DEF WritesItsOwn, Unnamed, LoneInv
  <1> QED BY <1>1, <1>2, <1>5, <1>7, <1>8, <1>9 DEF LoneInv

(* Steps that take names away or give the slot the .tmp's inode. *)
LEMMA NamesKeepLone ==
  ASSUME NEW r \in Requests, NEW step, TypeInv, LoneInv, r \in InFlight,
         pc' = [pc EXCEPT ![r] = step], step \notin {"write", "rename"},
         step = "clear" => slot' = tmp /\ tmp # None /\ data[tmp] = Whole(r),
         step \in Early => pc[r] \in Early,
         slot' \in {slot, None} \/ (slot' = tmp /\ data[tmp] = Whole(r)),
         tmp' = None \/ (tmp' = tmp /\ slot' \in {slot, None}),
         UNCHANGED data
  PROVE  LoneInv'
  <1>1. Alone' /\ \A q \in Requests \ {r} : pc'[q] = pc[q] /\ pc[q] \in {"idle", "done"}
    BY StaysAlone DEF LoneInv, TypeInv, ProgressOK
  <1>2. pc'[r] = step
    BY DEF TypeInv, ProgressOK
  <1>3. PublishedIsWhole'
    BY DEF LoneInv, PublishedIsWhole, Present, IsWhole, Images
  <1>4. None \notin Requests
    BY SlotAssumption DEF Images
  <1>5. ASSUME NEW q \in Requests PROVE WritesItsOwn(q)'
    BY <1>1, <1>2 DEF WritesItsOwn
  <1>6. ASSUME NEW q \in Requests, step \in Early \/ q # r PROVE Unnamed(q)'
    BY <1>1, <1>2, <1>4, <1>6 DEF LoneInv, Unnamed
  <1>7. ASSUME NEW q \in Requests PROVE Unnamed(q)'
    BY <1>2, <1>6 DEF Unnamed
  <1> QED BY <1>1, <1>3, <1>5, <1>7 DEF LoneInv

LEMMA LoneInvInductive ==
  ASSUME OneAtATime
  PROVE  TypeInv /\ LoneInv /\ [Next]_vars => LoneInv'
  <1> SUFFICES ASSUME TypeInv, LoneInv, [Next]_vars PROVE LoneInv'
    OBVIOUS
  <1> USE DEF Return, Goto
  <1>1. ASSUME NEW r \in Requests, Start(r) PROVE LoneInv'
    <2> DEFINE step == FirstStep(r)
    <2>1. step \in {"decode", "remove", "source", "probe", "lookup"}
      BY SlotAssumption DEF Kinds, FirstStep
    <2>2. pc' = [pc EXCEPT ![r] = step] /\ pc[r] = "idle" /\ UNCHANGED <<files, fd, written>>
          /\ Cardinality(InFlight) < MaxInFlight
      BY <1>1 DEF Start
    <2> HIDE DEF step
    <2>3. step \notin {"write", "rename", "clear"} /\ pc[r] \in Early
      BY <2>1, <2>2 DEF Early
    <2>4. InFlight = {}
      BY <2>2, StartsAlone DEF LoneInv
    <2> QED BY <2>2, <2>3, <2>4, LoneMoveKeeps
  <1>2. ASSUME NEW r \in Requests, Probe(r) PROVE LoneInv'
    BY <1>2, LoneMoveKeeps DEF Probe, Early, InFlight
  <1>3. ASSUME NEW r \in Requests, Lookup(r) PROVE LoneInv'
    <2>1. pc[r] = "lookup" /\ UNCHANGED <<files, fd, written>> /\ r \in InFlight
      BY <1>3 DEF Lookup, InFlight
    <2>2. PICK step \in {"remove", "exists", "done"} : pc' = [pc EXCEPT ![r] = step]
      BY <1>3 DEF Lookup
    <2> QED BY <2>1, <2>2, LoneMoveKeeps DEF Early
  <1>4. ASSUME NEW r \in Requests, Remove(r) PROVE LoneInv'
    <2>1. pc' = [pc EXCEPT ![r] = "exists"] /\ slot' \in {slot, None} /\ tmp' = tmp /\ data' = data
          /\ r \in InFlight /\ pc[r] \in Early
      BY <1>4 DEF Remove, InFlight, Early
    <2> QED BY <2>1, NamesKeepLone
  <1>5. ASSUME NEW r \in Requests, FetchTo(r) PROVE LoneInv'
    BY <1>5, LoneMoveKeeps DEF FetchTo, Early, InFlight
  <1>6. ASSUME NEW r \in Requests, FetchBody(r) PROVE LoneInv'
    BY <1>6, LoneMoveKeeps DEF FetchBody, Early, InFlight
  <1>7. ASSUME NEW r \in Requests, Encode(r) PROVE LoneInv'
    BY <1>7, LoneMoveKeeps DEF Encode, Early, InFlight
  <1>8. ASSUME NEW r \in Requests, Reap(r) PROVE LoneInv'
    <2>1. pc' = [pc EXCEPT ![r] = "open"] /\ slot' = slot /\ tmp' \in {tmp, None} /\ data' = data
          /\ r \in InFlight /\ pc[r] \in Early
      BY <1>8 DEF Reap, InFlight, Early
    <2> QED BY <2>1, NamesKeepLone
  <1>9. ASSUME NEW r \in Requests, OpenTmp(r) PROVE LoneInv'
    BY <1>9, OpenTmpKeepsLone
  <1>10. ASSUME NEW r \in Requests, WriteBlock(r) PROVE LoneInv'
    BY <1>10, WriteBlockKeepsLone
  <1>11. ASSUME NEW r \in Requests, WriteFails(r) PROVE LoneInv'
    BY <1>11, LoneMoveKeeps DEF WriteFails, Early, InFlight
  <1>12. ASSUME NEW r \in Requests, Rename(r) PROVE LoneInv'
    <2>1. tmp # None /\ data[tmp] = Whole(r)
      BY <1>12 DEF Rename, LoneInv, WritesItsOwn
    <2>2. slot' = tmp /\ tmp' = None /\ data' = data /\ r \in InFlight
      BY <1>12 DEF Rename, InFlight
    <2>3. PICK step \in {"done", "clear"} : pc' = [pc EXCEPT ![r] = step]
      BY <1>12 DEF Rename
    <2>4. step \notin Early /\ step \notin {"write", "rename"}
      BY DEF Early
    <2> QED BY <2>1, <2>2, <2>3, <2>4, NamesKeepLone
  <1>13. ASSUME NEW r \in Requests, RenameFails(r) PROVE LoneInv'
    BY <1>13, LoneMoveKeeps DEF RenameFails, Early, InFlight
  <1>14. ASSUME NEW r \in Requests, RemoveTmp(r) PROVE LoneInv'
    BY <1>14, NamesKeepLone DEF RemoveTmp, Early, InFlight
  <1>a1. ASSUME NEW r \in Requests, OpenSource(r) PROVE LoneInv'
    BY <1>a1, LoneMoveKeeps DEF OpenSource, Early, InFlight
  <1>a2. ASSUME NEW r \in Requests, ClearFrames(r) PROVE LoneInv'
    <2>1. pc' = [pc EXCEPT ![r] = "done"] /\ UNCHANGED <<slot, tmp, data>> /\ r \in InFlight
      BY <1>a2 DEF ClearFrames, InFlight
    <2> QED BY <2>1, NamesKeepLone DEF Early
  <1>a3. CASE PickerVisit
    BY <1>a3 DEF PickerVisit, LoneInv, Alone, InFlight, PublishedIsWhole, Present, IsWhole,
                 Unnamed, WritesItsOwn
  <1>15. CASE CrashRestart
    <2>1. InFlight' = {}
      BY <1>15 DEF CrashRestart, InFlight, TypeInv, ProgressOK
    <2>2. ASSUME NEW q \in Requests PROVE Unnamed(q)' /\ WritesItsOwn(q)'
      BY <1>15, <2>1 DEF CrashRestart, LoneInv, Unnamed, WritesItsOwn, InFlight, files,
                         TypeInv, ProgressOK, Early
    <2> QED BY <1>15, <2>1, <2>2 DEF CrashRestart, LoneInv, Alone, PublishedIsWhole, Present,
                                     IsWhole, files
  <1>16. CASE UNCHANGED vars
    BY <1>16 DEF vars, files, LoneInv, Alone, InFlight, PublishedIsWhole, Present, IsWhole,
                 Unnamed, WritesItsOwn
  <1> QED
    BY <1>1, <1>2, <1>3, <1>4, <1>5, <1>6, <1>7, <1>8, <1>9, <1>10, <1>11, <1>12, <1>13, <1>14,
       <1>a1, <1>a2, <1>a3, <1>15, <1>16 DEF Next

LEMMA LoneInvHolds ==
  ASSUME OneAtATime
  PROVE  Spec => []LoneInv
  <1> QED BY InitTypeInv, TypeInvInductive, InitLoneInv, LoneInvInductive, PTL DEF Spec

(* As long as requests for a slot do not overlap, what is read under its    *)
(* name is a whole image, wherever a request fails or the process dies.     *)
THEOREM PublishedIsWholeHolds ==
  ASSUME OneAtATime
  PROVE  Spec => []PublishedIsWhole
  <1>1. LoneInv => PublishedIsWhole
    BY DEF LoneInv
  <1> QED BY <1>1, LoneInvHolds, PTL

(* Under the same condition a handler that answers OK has at that moment    *)
(* its own image under the slot's name, whole.                              *)
THEOREM OkIsServedHolds ==
  ASSUME OneAtATime
  PROVE  Spec => OkIsServed
  <1> DEFINE Served == \A r \in Requests : answer[r] # "ok" /\ answer'[r] = "ok" =>
                          slot' # None /\ data'[slot'] = Whole(r)
  <1>1. TypeInv /\ LoneInv /\ [Next]_vars => [Served]_vars
    <2> SUFFICES ASSUME TypeInv, LoneInv, Next,
                        NEW r \in Requests, answer[r] # "ok", answer'[r] = "ok"
                 PROVE  slot' # None /\ data'[slot'] = Whole(r)
      BY DEF vars
    <2>1. Rename(r) \/ ClearFrames(r)
      BY DEF Next, Start, Probe, Lookup, Remove, FetchTo, FetchBody, Encode, OpenSource, Reap,
             OpenTmp, WriteBlock, WriteFails, Rename, RenameFails, RemoveTmp, ClearFrames,
             PickerVisit, CrashRestart, Return, Goto, vars, TypeInv, ProgressOK
    <2> QED BY <2>1 DEF Rename, ClearFrames, LoneInv, WritesItsOwn
  <1>2. Spec => [][Served]_vars
    BY <1>1, TypeInvHolds, LoneInvHolds, PTL DEF Spec
  <1> QED BY <1>2 DEF OkIsServed
=============================================================================
