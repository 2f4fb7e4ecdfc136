------------------------------ MODULE ImageSlot ------------------------------
(***************************************************************************)
(* One slot of the image cache (internal/imagecache): a headshot, a show    *)
(* banner or a fanart.  The file's presence is the only record of it: no    *)
(* row, no lock.  HTTP handlers (internal/server/upload.go) and jobs        *)
(* (internal/jobs/builtin/refresh_*.go) replace the file concurrently, each *)
(* through the same sibling path, <slot>.tmp, which it renames over the     *)
(* slot.                                                                    *)
(*                                                                         *)
(* The file system is modelled where it matters: a directory entry names an *)
(* inode, a writer that has opened a path keeps writing to the inode it     *)
(* opened whatever the path names later, and a file is written block by     *)
(* block.  An inode is named by the request that created it; the image a    *)
(* request writes is named by the request.                                  *)
(***************************************************************************)
EXTENDS Integers, Sequences, FiniteSets

CONSTANTS
  Requests,     \* the handler calls and job runs that touch the slot
  KindOf,       \* what each request is
  Old,          \* the image in the slot at the start, when there is one
  None,         \* no such file
  Blocks,       \* length of each image, in blocks
  MayFail,      \* may a download, a decode, a write or a removal fail?
  MaxInFlight,  \* how many requests are in progress at once
  MaxCrashes    \* bound on restarts

Images == Requests \cup {Old}

(* upload: SaveUploaded*; setter: handleSet*FromURL; frame: the fanart      *)
(* handler given the path of a frame cut from the recording; refresh: a job *)
(* without force; forced: a job with force=true.                            *)
Kinds == {"upload", "setter", "frame", "refresh", "forced"}

ASSUME SlotAssumption ==
  /\ KindOf \in [Requests -> Kinds]
  /\ Blocks \in [Images -> Nat \ {0}]
  /\ Old \notin Requests
  /\ None \notin Images
  /\ MayFail \in BOOLEAN
  /\ MaxInFlight \in Nat
  /\ MaxCrashes \in Nat

VARIABLES
  slot,      \* the inode the slot's name leads to, or None
  tmp,       \* the inode <slot>.tmp leads to, or None
  data,      \* the blocks of each inode
  frames,    \* are the frames cut from the recording in their cache?
  pc,        \* where each request is
  fd,        \* the inode each request has open for writing
  written,   \* the blocks it has written to it
  answer,    \* what the request returned
  crashes

files == <<slot, tmp, data, frames>>
vars == <<slot, tmp, data, frames, pc, fd, written, answer, crashes>>

Answers == {"none", "ok", "present", "error"}
Steps == {"idle", "probe", "lookup", "remove", "exists", "download", "decode",
          "source", "reap", "open", "write", "rename", "cleanup", "clear", "done"}

(* The image w, whole. *)
Whole(w) == [b \in 1 .. Blocks[w] |-> w]
IsWhole(i) == \E w \in Images : data[i] = Whole(w)

(* The requests in progress, and those that have the .tmp open. *)
InFlight == {r \in Requests : pc[r] \notin {"idle", "done"}}
Writing(r) == pc[r] \in {"write", "rename", "cleanup"}

TypeOK ==
  /\ slot \in Images \cup {None}
  /\ tmp \in Requests \cup {None}
  /\ DOMAIN data = Images
  /\ \A i \in Images : \A b \in DOMAIN data[i] : data[i][b] \in Images \cup {None}
  /\ frames \in BOOLEAN
  /\ pc \in [Requests -> Steps]
  /\ fd \in [Requests -> Requests \cup {None}]
  /\ \A r \in Requests : written[r] \in 0 .. Blocks[r]
  /\ answer \in [Requests -> Answers]
  /\ crashes \in 0 .. MaxCrashes
  /\ \A r \in Requests : Writing(r) => fd[r] # None

Init ==
  /\ slot \in {None, Old}
  /\ tmp = None
  /\ data = [i \in Images |-> IF i = Old THEN Whole(Old) ELSE << >>]
  /\ frames \in BOOLEAN
  /\ pc = [r \in Requests |-> "idle"]
  /\ fd = [r \in Requests |-> None]
  /\ written = [r \in Requests |-> 0]
  /\ answer = [r \in Requests |-> "none"]
  /\ crashes = 0

Goto(r, step) == pc' = [pc EXCEPT ![r] = step]
Return(r, a) ==
  /\ Goto(r, "done")
  /\ answer' = [answer EXCEPT ![r] = a]

Present == slot # None

-----------------------------------------------------------------------------
(* Reaching the write.                                                      *)

(* The first step of each kind; uploads are decoded before anything is      *)
(* touched, a setter removes the slot before anything is downloaded.        *)
(* fanartFrameSourcePath looks for the frame on disk: the handler takes a   *)
(* frame that is gone for any other URL.                                    *)
FirstStep(r) ==
  CASE KindOf[r] = "upload"  -> "decode"
    [] KindOf[r] = "setter"  -> "remove"
    [] KindOf[r] = "frame"   -> IF frames THEN "source" ELSE "remove"
    [] KindOf[r] = "refresh" -> "probe"
    [] KindOf[r] = "forced"  -> "lookup"

Start(r) ==
  /\ pc[r] = "idle"
  /\ Cardinality(InFlight) < MaxInFlight
  /\ Goto(r, FirstStep(r))
  /\ UNCHANGED <<files, fd, written, answer, crashes>>

(* HasHeadshot / HasShowBanner / HasRecordingFanart, unless forced.         *)
Probe(r) ==
  /\ pc[r] = "probe"
  /\ IF Present THEN Return(r, "present")
                ELSE Goto(r, "lookup") /\ UNCHANGED answer
  /\ UNCHANGED <<files, fd, written, crashes>>

(* The call that asks StageMedia or Encora for the URL; only a forced job   *)
(* then removes what is there.                                              *)
Lookup(r) ==
  /\ pc[r] = "lookup"
  /\ \/ /\ Goto(r, IF KindOf[r] = "forced" THEN "remove" ELSE "exists")
        /\ UNCHANGED answer
     \/ MayFail /\ Return(r, "error")
  /\ UNCHANGED <<files, fd, written, crashes>>

(* removeIfExists, its error ignored: the old file may still be there.      *)
Remove(r) ==
  /\ pc[r] = "remove"
  /\ slot' = None \/ (MayFail /\ slot' = slot)
  /\ Goto(r, "exists")
  /\ UNCHANGED <<tmp, data, frames, fd, written, answer, crashes>>

(* fetchTo: a file that exists is returned as it is, and the caller takes   *)
(* that for success.                                                        *)
FetchTo(r) ==
  /\ pc[r] = "exists"
  /\ IF Present THEN Return(r, "present")
                ELSE Goto(r, "download") /\ UNCHANGED answer
  /\ UNCHANGED <<files, fd, written, crashes>>

(* fetchBody: the upstream request, which may time out or answer no image;  *)
(* the path of a frame is no URL it can ask for.                            *)
FetchBody(r) ==
  /\ pc[r] = "download"
  /\ \/ KindOf[r] # "frame" /\ Goto(r, "decode") /\ UNCHANGED answer
     \/ (MayFail \/ KindOf[r] = "frame") /\ Return(r, "error")
  /\ UNCHANGED <<files, fd, written, crashes>>

(* encodeAsJPEG: bytes that are no image never reach the disk. *)
Encode(r) ==
  /\ pc[r] = "decode"
  /\ \/ Goto(r, "reap") /\ UNCHANGED answer
     \/ MayFail /\ Return(r, "error")
  /\ UNCHANGED <<files, fd, written, crashes>>

-----------------------------------------------------------------------------
(* writeAtomic, and copyFileAtomic from its "open" on.                      *)

(* copyFileAtomic opens the frame, which may have been cleared since it was *)
(* looked for.                                                              *)
OpenSource(r) ==
  /\ pc[r] = "source"
  /\ \/ frames /\ Goto(r, "open") /\ UNCHANGED answer
     \/ (MayFail \/ ~frames) /\ Return(r, "error")
  /\ UNCHANGED <<files, fd, written, crashes>>

(* writeAtomic removes a stale .tmp, whoever left it there, if it can.      *)
Reap(r) ==
  /\ pc[r] = "reap"
  /\ tmp' = None \/ (MayFail /\ tmp' = tmp)
  /\ Goto(r, "open")
  /\ UNCHANGED <<slot, data, frames, fd, written, answer, crashes>>

(* Mutant: without O_TRUNC a shorter image leaves the tail of a stale .tmp. *)
OpenTmpKeepingBytes(r) ==
  /\ pc[r] = "open"
  /\ LET i == IF tmp = None THEN r ELSE tmp IN
       /\ tmp' = i
       /\ fd' = [fd EXCEPT ![r] = i]
  /\ Goto(r, "write")
  /\ UNCHANGED <<slot, data, frames, written, answer, crashes>>

(* O_CREATE|O_TRUNC: a new inode, or the inode <slot>.tmp names, emptied. *)
OpenTmp(r) ==
  /\ pc[r] = "open"
  /\ LET i == IF tmp = None THEN r ELSE tmp IN
       /\ tmp' = i
       /\ data' = [data EXCEPT ![i] = << >>]
       /\ fd' = [fd EXCEPT ![r] = i]
  /\ Goto(r, "write")
  /\ UNCHANGED <<slot, frames, written, answer, crashes>>

(* Block b of a file becomes r's; the rest stays, and where the file has    *)
(* been truncated meanwhile a hole reads as zeroes (None).                  *)
Overwrite(s, b, r) ==
  [k \in 1 .. (IF Len(s) < b THEN b ELSE Len(s)) |->
     IF k = b THEN r ELSE IF k \in DOMAIN s THEN s[k] ELSE None]

(* Mutant: the last block is taken to be written when all but one are. *)
WriteBlockShort(r) ==
  /\ pc[r] = "write"
  /\ LET b == written[r] + 1 IN
       /\ data' = [data EXCEPT ![fd[r]] = Overwrite(@, b, r)]
       /\ written' = [written EXCEPT ![r] = b]
       /\ Goto(r, IF b >= Blocks[r] - 1 THEN "rename" ELSE "write")
  /\ UNCHANGED <<slot, tmp, frames, fd, answer, crashes>>

(* Mutant: the writer goes on past the end of the image. *)
WriteBlockLong(r) ==
  /\ pc[r] = "write"
  /\ LET b == written[r] + 1 IN
       /\ data' = [data EXCEPT ![fd[r]] = Overwrite(@, b, r)]
       /\ written' = [written EXCEPT ![r] = b]
       /\ Goto(r, IF b > Blocks[r] THEN "rename" ELSE "write")
  /\ UNCHANGED <<slot, tmp, frames, fd, answer, crashes>>

WriteBlock(r) ==
  /\ pc[r] = "write"
  /\ LET b == written[r] + 1 IN
       /\ data' = [data EXCEPT ![fd[r]] = Overwrite(@, b, r)]
       /\ written' = [written EXCEPT ![r] = b]
       /\ Goto(r, IF b = Blocks[r] THEN "rename" ELSE "write")
  /\ UNCHANGED <<slot, tmp, frames, fd, answer, crashes>>

(* A full disk: writeAtomic leaves its partial .tmp behind, copyFileAtomic  *)
(* removes it.                                                              *)
WriteFails(r) ==
  /\ pc[r] = "write"
  /\ MayFail
  /\ IF KindOf[r] = "frame" THEN Goto(r, "cleanup") /\ UNCHANGED answer
                            ELSE Return(r, "error")
  /\ UNCHANGED <<files, fd, written, crashes>>

(* os.Rename moves whatever <slot>.tmp names now. *)
Rename(r) ==
  /\ pc[r] = "rename"
  /\ tmp # None
  /\ slot' = tmp
  /\ tmp' = None
  /\ IF KindOf[r] = "frame" THEN Goto(r, "clear") /\ UNCHANGED answer
                            ELSE Return(r, "ok")
  /\ UNCHANGED <<data, frames, fd, written, crashes>>

(* It fails when another request has already renamed or reaped it. *)
RenameFails(r) ==
  /\ pc[r] = "rename"
  /\ tmp = None \/ MayFail
  /\ Goto(r, "cleanup")
  /\ UNCHANGED <<files, fd, written, answer, crashes>>

(* The error path's os.Remove(tmp), whoever's it has become. *)
RemoveTmp(r) ==
  /\ pc[r] = "cleanup"
  /\ tmp' = None \/ (MayFail /\ tmp' = tmp)
  /\ Return(r, "error")
  /\ UNCHANGED <<slot, data, frames, fd, written, crashes>>

(* The frame has become the fanart: ClearFrames, its error only logged. *)
ClearFrames(r) ==
  /\ pc[r] = "clear"
  /\ frames' = FALSE \/ (MayFail /\ frames' = frames)
  /\ Return(r, "ok")
  /\ UNCHANGED <<slot, tmp, data, fd, written, crashes>>

(* fanartFrameOptions: opening the picker cuts the frames when there are    *)
(* none, and clears them first when it is asked for others; the cutting may *)
(* fail.                                                                    *)
PickerVisit ==
  /\ frames' = ~frames
  /\ UNCHANGED <<slot, tmp, data, pc, fd, written, answer, crashes>>

(* The process dies: requests in progress are gone, the directory stays. *)
CrashRestart ==
  /\ crashes < MaxCrashes
  /\ crashes' = crashes + 1
  /\ pc' = [r \in Requests |-> IF r \in InFlight THEN "done" ELSE pc[r]]
  /\ UNCHANGED <<files, fd, written, answer>>

Next ==
  \/ \E r \in Requests :
       \/ Start(r) \/ Probe(r) \/ Lookup(r) \/ Remove(r) \/ FetchTo(r)
       \/ FetchBody(r) \/ Encode(r) \/ OpenSource(r) \/ Reap(r) \/ OpenTmp(r)
       \/ WriteBlock(r) \/ WriteFails(r) \/ Rename(r) \/ RenameFails(r)
       \/ RemoveTmp(r) \/ ClearFrames(r)
  \/ PickerVisit
  \/ CrashRestart

Spec == Init /\ [][Next]_vars

-----------------------------------------------------------------------------
(* A reader of the slot is served a whole image: neither a crash in the     *)
(* middle of a write, nor a full disk, nor the .tmp one of them left behind *)
(* ever shows through the slot's name (writeAtomic, copyFileAtomic).        *)
PublishedIsWhole == Present => IsWhole(slot)

(* A request that answers OK having written has its own image served at     *)
(* that moment, whole (the 200 of every upload and from-url handler).       *)
OkIsServed ==
  [][\A r \in Requests :
       answer[r] # "ok" /\ answer'[r] = "ok" =>
         slot' # None /\ data'[slot'] = Whole(r)]_vars

(* A job without force does not replace what a user has uploaded ("a manual *)
(* user upload must not be clobbered by the next sync", persistHeadshots).  *)
(* It does: it looks once, downloads for up to a minute, and renames over   *)
(* an upload that has been answered OK meanwhile.                           *)
UploadsSurviveRefresh ==
  [][\A r, u \in Requests :
       /\ KindOf[r] = "refresh" /\ answer[r] # "ok" /\ answer'[r] = "ok"
       /\ KindOf[u] = "upload" /\ answer[u] = "ok"
       => slot = None \/ data[slot] # Whole(u)]_vars

=============================================================================
