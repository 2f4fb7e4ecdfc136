------------------------ MODULE PosterPipelineProofs ------------------------
(***************************************************************************)
(* Proofs about PosterPipeline, for every set of images, styles and actors  *)
(* and every bound.                                                         *)
(***************************************************************************)
EXTENDS PosterPipeline, TLAPS

Choices == [explicit : BOOLEAN, disabled : BOOLEAN, text : Texts \cup {Derived}, layout : Layouts \cup {Derived}]
Reads == (Layouts \cup {Derived}) \cup Styles \cup {Raw, None}
Call(n) == [pc : Pcs, kind : Kinds \cup {"none"}, image : MaybeImage, read : Reads,
            picture : Pictures \cup {None}, stamp : 0 .. n]

(* What a goroutine is and has in hand at each place it can be.             *)
CallOK(r) ==
    /\ r.pc = "idle" => r = Idle
    /\ r.kind \in Setters => r.image \in Images
    /\ r.pc = "save" => r.kind = "upload"
    /\ r.pc \in {"layout", "setlayout"} => r.kind = "fromURL"
    /\ r.pc = "setlayout" => r.read \in Layouts \cup {Derived}
    /\ r.pc = "edit" => r.kind \in {"text", "toggle"}
    /\ r.pc = "probe" => r.kind = "job"
    /\ r.pc = "lookup" => r.kind \in Jobs
    /\ r.pc \in {"rmsrc", "rmposter"} => r.kind \in {"fromURL", "forced"} /\ r.image \in Images
    /\ r.pc \in {"fetch", "land"} => r.kind \in {"fromURL", "forced", "job"} /\ r.image \in Images
    /\ r.pc \in {"render", "decode", "publish"} => r.kind \in Kinds
    /\ r.pc = "decode" => r.read \in Styles \cup {Raw}
    /\ r.pc = "publish" => r.picture \in Pictures
    /\ r.pc \in {"nforead", "nfowrite"} => r.kind \in Setters \cup Jobs
Good(n) == {r \in Call(n) : CallOK(r)}

FilesOK ==
    /\ src \in MaybeImage
    /\ poster = NoPoster \/ poster \in [picture : Pictures, mtime : 1 .. now]
    /\ nfo \in 0 .. now \cup {Torn} /\ now \in 1 .. MaxClock
HistoryOK ==
    /\ calm \in BOOLEAN /\ ops \in 0 .. MaxOps /\ faults \in 0 .. MaxFaults
    /\ last \in [kind : Kinds \cup {"none"}, image : MaybeImage, rendered : BOOLEAN]
CallsOK == req \in [Actors -> Good(now)]
TypeInv == start \in Starts /\ choice \in Choices /\ FilesOK /\ HistoryOK /\ CallsOK

----------------------------------------------------------------------------
(* How a call's record changes. *)

LEMMA IdleIsGood ==
  ASSUME NEW n \in Nat
  PROVE  Idle \in Good(n) /\ Idle.pc = "idle" /\ Idle.kind = "none"
  <1>1. Idle \in Call(n)
    BY DEF Idle, Call, Pcs, MaybeImage, Reads
  <1>2. CallOK(Idle)
    BY DEF Idle, CallOK, Setters
  <1>3. Idle.pc = "idle" /\ Idle.kind = "none"
    BY DEF Idle
  <1> QED BY <1>1, <1>2, <1>3 DEF Good

LEMMA GotoRecord ==
  ASSUME NEW n \in Nat, NEW r \in Call(n), NEW pc \in Pcs
  PROVE  /\ [r EXCEPT !.pc = pc] \in Call(n)
         /\ [r EXCEPT !.pc = pc].pc = pc
         /\ [r EXCEPT !.pc = pc].kind = r.kind /\ [r EXCEPT !.pc = pc].image = r.image
         /\ [r EXCEPT !.pc = pc].read = r.read /\ [r EXCEPT !.pc = pc].picture = r.picture
         /\ [r EXCEPT !.pc = pc].stamp = r.stamp
  BY DEF Call

LEMMA GotoRewrite ==
  ASSUME NEW n \in Nat, NEW r \in Good(n), r.kind \in Setters \cup Jobs
  PROVE  [r EXCEPT !.pc = "nforead"] \in Good(n)
  <1> DEFINE s == [r EXCEPT !.pc = "nforead"]
  <1>1. r \in Call(n) /\ "nforead" \in Pcs
    BY DEF Good, Pcs
  <1>2. /\ s \in Call(n) /\ s.pc = "nforead" /\ s.kind = r.kind /\ s.image = r.image
    BY <1>1, GotoRecord
  <1> SUFFICES s \in Good(n)
    OBVIOUS
  <1> HIDE DEF s
  <1>3. r.kind \in Setters => r.image \in Images
    BY DEF Good, CallOK
  <1>4. CallOK(s)
    BY <1>2, <1>3 DEF CallOK
  <1> QED BY <1>2, <1>4 DEF Good

LEMMA SetKeeps ==
  ASSUME TypeInv, NEW a \in Actors, NEW n \in Nat, now <= n, NEW r \in Good(n), Set(a, r)
  PROVE  req' \in [Actors -> Good(n)]
  <1>1. Good(now) \subseteq Good(n)
    BY DEF Good, Call, TypeInv, FilesOK
  <1> QED BY <1>1 DEF TypeInv, CallsOK, Set

(* What a call must be to go on to each place. *)
LEMMA ToRender ==
  ASSUME NEW r, r.pc = "render", r.kind \in Kinds, r.kind \in Setters => r.image \in Images
  PROVE  CallOK(r)
  BY DEF CallOK
LEMMA ToFetch ==
  ASSUME NEW r, r.pc \in {"rmsrc", "rmposter", "fetch", "land"}, r.image \in Images,
         r.kind \in {"fromURL", "forced"} \/ (r.kind = "job" /\ r.pc \in {"fetch", "land"})
  PROVE  CallOK(r)
  BY DEF CallOK
LEMMA ToCompose ==
  ASSUME NEW r, r.pc \in {"decode", "publish"}, r.kind \in Kinds, r.kind \in Setters => r.image \in Images,
         r.pc = "decode" => r.read \in Styles \cup {Raw},
         r.pc = "publish" => r.picture \in Pictures
  PROVE  CallOK(r)
  BY DEF CallOK
LEMMA ToRewrite ==
  ASSUME NEW r, r.pc \in {"nforead", "nfowrite"}, r.kind \in Setters \cup Jobs,
         r.kind \in Setters => r.image \in Images
  PROVE  CallOK(r)
  BY DEF CallOK

(* After the render, or after a failure, a call rewrites the NFO or ends.   *)
LEMMA RenderedIsGood ==
  ASSUME NEW a \in Actors, NEW n \in Nat, req[a] \in Good(n), req[a].kind \in Kinds
  PROVE  /\ Rendered(a) \in Good(n)
         /\ Rendered(a).pc = IF req[a].kind \in Edits THEN "idle" ELSE "nforead"
         /\ req[a].kind \notin Edits => Rendered(a).kind = req[a].kind /\ Rendered(a).image = req[a].image
  <1>1. CASE req[a].kind \in Edits
    BY <1>1, IdleIsGood DEF Rendered
  <1>2. CASE req[a].kind \notin Edits
    <2>1. Rendered(a) = [req[a] EXCEPT !.pc = "nforead", !.read = None, !.picture = None]
      BY <1>2 DEF Rendered
    <2>2. req[a].kind \in Setters \cup Jobs
      BY <1>2 DEF Kinds
    <2>3. /\ req[a] \in Call(n) /\ "nforead" \in Pcs
          /\ req[a].kind \in Setters => req[a].image \in Images
      BY DEF Good, Pcs, CallOK
    <2>4. /\ Rendered(a) \in Call(n) /\ Rendered(a).pc = "nforead"
          /\ Rendered(a).kind = req[a].kind /\ Rendered(a).image = req[a].image
      BY <2>1, <2>3 DEF Call, Reads
    <2>5. CallOK(Rendered(a))
      BY <2>2, <2>3, <2>4, ToRewrite
    <2> QED BY <1>2, <2>4, <2>5 DEF Good
  <1> QED BY <1>1, <1>2

LEMMA FailsIsGood ==
  ASSUME NEW a \in Actors, NEW n \in Nat, req[a] \in Good(n)
  PROVE  /\ Fails(a) \in Good(n)
         /\ Fails(a).pc = IF req[a].kind \in Jobs THEN "nforead" ELSE "idle"
         /\ req[a].kind \in Jobs => Fails(a).kind = req[a].kind
  <1>1. CASE req[a].kind \in Jobs
    <2>1. Fails(a) = [req[a] EXCEPT !.pc = "nforead"]
      BY <1>1 DEF Fails
    <2>2. req[a] \in Call(n) /\ "nforead" \in Pcs
      BY DEF Good, Pcs
    <2>3. Fails(a) \in Good(n)
      BY <1>1, <2>1, GotoRewrite
    <2> QED BY <1>1, <2>1, <2>2, <2>3, GotoRecord
  <1>2. CASE req[a].kind \notin Jobs
    BY <1>2, IdleIsGood DEF Fails
  <1> QED BY <1>1, <1>2

(* One goroutine has changed. *)
LEMMA SetOne ==
  ASSUME CallsOK, NEW a \in Actors, NEW r, Set(a, r)
  PROVE  req'[a] = r /\ \A b \in Actors \ {a} : req'[b] = req[b]
  BY DEF CallsOK, Set

----------------------------------------------------------------------------
(* While the last request runs alone and without a fault: what it has read  *)
(* is what is there, and its poster, once rendered, is current.             *)
Fresh ==
    /\ src # None /\ poster.picture = Render(src, choice)
    /\ last.kind \in Setters => src = last.image
Done ==
    /\ last.rendered \/ last.kind \in Setters => Fresh
    /\ start.imported /\ last.kind \in Setters \cup Jobs => nfo = poster.mtime
LoneOK(a) ==
    LET r == req[a]
        own(image) == r.kind \in Setters => image = r.image
    IN  /\ last.kind = r.kind /\ own(last.image)
        /\ r.pc \in {"nforead", "nfowrite"} /\ (last.rendered \/ r.kind \in Setters) => Fresh
        /\ r.pc \notin {"nforead", "nfowrite"} => ~last.rendered
        /\ r.pc \in {"rmposter", "fetch", "land"} /\ r.kind \in Setters => src = None
        /\ r.pc = "render" => own(src)
        /\ r.pc = "decode" => r.read = StyleOf(choice) /\ own(src)
        /\ r.pc = "publish" => src # None /\ own(src) /\ r.picture = Render(src, choice)
        /\ r.pc = "nfowrite" => r.stamp = poster.mtime
LoneInv ==
    calm => /\ \A a, b \in Busy : a = b
            /\ \A a \in Busy : LoneOK(a)
            /\ Busy = {} => Done

Inv == TypeInv /\ LoneInv

(* It is enough to look at the goroutine that has moved. *)
LEMMA LoneStep ==
  ASSUME Inv, NEW a \in Actors, req[a].pc # "idle", NEW r, Set(a, r), calm' => calm,
         calm' /\ r.pc = "idle" => Done',
         calm' /\ r.pc # "idle" => LoneOK(a)'
  PROVE  LoneInv'
  <1> SUFFICES ASSUME calm' PROVE LoneInv'
    BY DEF LoneInv
  <1>1. req'[a] = r /\ \A b \in Actors \ {a} : req'[b] = req[b]
    BY SetOne DEF Inv, TypeInv
  <1>2. calm /\ Busy = {a}
    BY DEF Inv, LoneInv, Busy
  <1>3. Busy' = IF r.pc = "idle" THEN {} ELSE {a}
    BY <1>1, <1>2 DEF Busy
  <1> QED BY <1>2, <1>3 DEF LoneInv

(* A request that enters an idle system is alone, and one that does not     *)
(* ends the calm.                                                           *)
LEMMA EnterKeeps ==
  ASSUME Inv, NEW a \in Actors, NEW kind \in Kinds, NEW image \in MaybeImage,
         kind \in Setters => image \in Images, Enter(a, kind, image), ops' \in 0 .. MaxOps
  PROVE  Inv'
  <1> DEFINE r == [Idle EXCEPT !.pc = FirstPc(kind), !.kind = kind, !.image = image]
  <1>1. /\ Set(a, r) /\ calm' = (Busy = {})
        /\ last' = [kind |-> kind, image |-> image, rendered |-> FALSE]
        /\ UNCHANGED <<start, choice, src, poster, nfo, now, faults>>
    BY DEF Enter, files
  <1>2. req[a].pc = "idle"
    <2>1. \E b \in Actors : req[b].pc = "idle"
      BY DEF Enter, Busy
    <2> QED BY <2>1 DEF Enter, Free
  <1>3. FirstPc(kind) \in {"save", "layout", "edit", "render", "probe", "lookup"}
    BY DEF FirstPc, Kinds, Setters, Edits, Jobs
  <1>4. /\ r \in Call(now) /\ r.pc = FirstPc(kind) /\ r.kind = kind /\ r.image = image
    <2>1. Idle \in Call(now) /\ FirstPc(kind) \in Pcs
      BY <1>3, IdleIsGood DEF Good, Inv, TypeInv, FilesOK, Pcs
    <2> QED BY <2>1 DEF Call
  <1> HIDE DEF r
  <1>5. CallOK(r)
    BY <1>3, <1>4 DEF CallOK, FirstPc, Kinds, Setters, Edits, Jobs
  <1>6. req' \in [Actors -> Good(now)] /\ now' = now /\ now \in Nat
    BY <1>1, <1>4, <1>5, SetKeeps DEF Inv, TypeInv, FilesOK, Good
  <1>7. TypeInv'
    BY <1>1, <1>6 DEF Inv, TypeInv, FilesOK, HistoryOK, CallsOK
  <1>8. LoneInv'
    <2> SUFFICES ASSUME calm' PROVE LoneInv'
      BY DEF LoneInv
    <2>1. req'[a] = r /\ \A b \in Actors \ {a} : req'[b] = req[b]
      BY <1>1, SetOne DEF Inv, TypeInv
    <2>2. Busy = {} /\ Busy' = {a}
      BY <1>1, <1>3, <1>4, <2>1 DEF Busy
    <2>3. LoneOK(a)'
      <3>1. FirstPc(kind) = "render" => kind \notin Setters
        BY DEF FirstPc, Setters, Kinds, Edits, Jobs
      <3> QED BY <1>1, <1>3, <1>4, <2>1, <3>1 DEF LoneOK
    <2> QED BY <2>2, <2>3 DEF LoneInv
  <1> QED BY <1>7, <1>8 DEF Inv

----------------------------------------------------------------------------
(* One step of a goroutine that is at work. *)
LEMMA MoveKeeps ==
  ASSUME Inv, NEW a \in Actors, req[a].pc # "idle", NEW r, Set(a, r),
         now' \in Nat, now <= now', r \in Good(now'),
         start' = start, choice' \in Choices, FilesOK', HistoryOK', calm' => calm,
         calm' /\ r.pc = "idle" => Done',
         calm' /\ r.pc # "idle" => LoneOK(a)'
  PROVE  Inv'
  <1>1. req' \in [Actors -> Good(now')]
    BY SetKeeps DEF Inv
  <1>2. TypeInv'
    BY <1>1 DEF Inv, TypeInv, CallsOK
  <1>3. LoneInv'
    BY LoneStep
  <1> QED BY <1>2, <1>3 DEF Inv

LEMMA AtWork ==
  ASSUME Inv, NEW a \in Actors, req[a].pc # "idle"
  PROVE  /\ req[a] \in Good(now) /\ req[a] \in Call(now) /\ CallOK(req[a])
         /\ calm => LoneOK(a)
         /\ now \in Nat /\ req[a].image \in MaybeImage /\ req[a].kind \in Kinds \cup {"none"}
         /\ req[a].kind \in Setters => req[a].image \in Images
         /\ start \in Starts /\ choice \in Choices /\ FilesOK /\ HistoryOK
  <1>1. req[a] \in Good(now) /\ now \in Nat
    BY DEF Inv, TypeInv, CallsOK, FilesOK
  <1>2. req[a] \in Call(now) /\ CallOK(req[a])
    BY <1>1 DEF Good
  <1>3. req[a].image \in MaybeImage /\ req[a].kind \in Kinds \cup {"none"}
    BY <1>2 DEF Call
  <1>4. req[a].kind \in Setters => req[a].image \in Images
    BY <1>2 DEF CallOK
  <1>5. calm => LoneOK(a)
    BY DEF Inv, LoneInv, Busy
  <1> QED BY <1>1, <1>2, <1>3, <1>4, <1>5 DEF Inv, TypeInv

LEMMA FaultKeeps ==
  ASSUME HistoryOK, Fault, UNCHANGED <<last, ops>>
  PROVE  HistoryOK' /\ ~calm'
  <1>1. faults' \in 0 .. MaxFaults
    BY ConstantsAssumption DEF HistoryOK, Fault
  <1>2. ~calm'
    BY DEF Fault
  <1>3. calm' \in BOOLEAN
    BY DEF Fault
  <1> QED BY <1>1, <1>2, <1>3 DEF HistoryOK

LEMMA NoFaultKeeps ==
  ASSUME HistoryOK, NoFault, UNCHANGED <<last, ops>>
  PROVE  HistoryOK' /\ (calm' => calm)
  BY DEF HistoryOK, NoFault

(* A call goes on to another place with what it has. *)
LEMMA GotoKeeps ==
  ASSUME Inv, NEW a \in Actors, req[a].pc # "idle", NEW pc \in Pcs \ {"idle"}, Goto(a, pc)
  PROVE  /\ req'[a] \in Call(now) /\ req'[a].pc = pc
         /\ req'[a].kind = req[a].kind /\ req'[a].image = req[a].image
         /\ req'[a].read = req[a].read /\ req'[a].picture = req[a].picture
         /\ req'[a].stamp = req[a].stamp
         /\ Set(a, req'[a])
  <1>1. req[a] \in Call(now) /\ now \in Nat
    BY AtWork
  <1>2. req'[a] = [req[a] EXCEPT !.pc = pc] /\ Set(a, [req[a] EXCEPT !.pc = pc])
    BY SetOne DEF Goto, Inv, TypeInv
  <1> QED BY <1>1, <1>2, GotoRecord

(* A fault ends the calm, whatever it ends of the call. *)
LEMMA KindIsReal ==
  ASSUME NEW n \in Nat, NEW r \in Good(n), r.pc # "idle"
  PROVE  r.kind \in Kinds
  <1>1. r.pc \in Pcs /\ CallOK(r)
    BY DEF Good, Call
  <1> QED BY <1>1 DEF Pcs, CallOK, Kinds, Setters, Edits, Jobs

LEMMA SameFiles ==
  ASSUME FilesOK, UNCHANGED <<src, poster, nfo, now>>
  PROVE  FilesOK'
  BY DEF FilesOK

LEMMA FaultEnds ==
  ASSUME Inv, NEW a \in Actors, req[a].pc # "idle", Fault,
         Set(a, Idle) \/ Set(a, Fails(a)) \/ Set(a, Rendered(a)),
         UNCHANGED <<start, now, last, ops>>, choice' \in Choices, FilesOK'
  PROVE  Inv'
  <1>1. HistoryOK' /\ ~calm'
    BY AtWork, FaultKeeps
  <1>2. req[a] \in Good(now) /\ now \in Nat /\ req[a].kind \in Kinds
    BY AtWork, KindIsReal
  <1>3. Idle \in Good(now) /\ Fails(a) \in Good(now) /\ Rendered(a) \in Good(now)
    BY <1>2, IdleIsGood, FailsIsGood, RenderedIsGood
  <1> QED BY <1>1, <1>2, <1>3, MoveKeeps

(* A call that has nothing to render, or cannot, ends as it should.         *)
LEMMA RenderedKeeps ==
  ASSUME Inv, NEW a \in Actors, req[a].pc \in {"render", "decode"}, src = None,
         Set(a, Rendered(a)), UNCHANGED <<start, choice, src, poster, nfo, now, last, ops>>, NoFault
  PROVE  Inv'
  <1>1. /\ req[a] \in Good(now) /\ now \in Nat /\ req[a].kind \in Kinds
        /\ req[a].kind \in Setters => req[a].image \in Images
    BY AtWork, KindIsReal
  <1>2. /\ Rendered(a) \in Good(now)
        /\ Rendered(a).pc = IF req[a].kind \in Edits THEN "idle" ELSE "nforead"
        /\ req[a].kind \notin Edits => Rendered(a).kind = req[a].kind /\ Rendered(a).image = req[a].image
    BY <1>1, RenderedIsGood
  <1>3. HistoryOK' /\ FilesOK' /\ (calm' => calm)
    BY AtWork, NoFaultKeeps, SameFiles
  <1>4. req'[a] = Rendered(a)
    BY SetOne DEF Inv, TypeInv
  <1>5. calm => LoneOK(a)
    BY AtWork
  <1>6. calm => req[a].kind \notin Setters
    BY <1>1, <1>5, ConstantsAssumption DEF LoneOK
  <1>7. calm /\ req[a].kind \in Edits => Done'
    BY <1>5 DEF LoneOK, Done, Edits, Setters, Jobs
  <1>8. calm /\ req[a].kind \notin Edits => LoneOK(a)'
    BY <1>2, <1>4, <1>5, <1>6 DEF LoneOK
  <1> QED BY <1>1, <1>2, <1>3, <1>7, <1>8, AtWork, MoveKeeps

----------------------------------------------------------------------------
LEMMA SaveUploadKeeps ==
  ASSUME Inv, NEW a \in Actors, SaveUpload(a)
  PROVE  Inv'
  <1>1. req[a].pc = "save" /\ UNCHANGED <<start, choice, poster, nfo, now, last, ops>>
    BY DEF SaveUpload, At
  <1>2. req[a].kind = "upload"
    BY <1>1, AtWork DEF CallOK
  <1>3. CASE src' = req[a].image /\ Goto(a, "render") /\ NoFault
    <2>1. "render" \in Pcs \ {"idle"}
      BY DEF Pcs
    <2>2. /\ req'[a] \in Call(now) /\ req'[a].pc = "render" /\ Set(a, req'[a])
          /\ req'[a].kind = req[a].kind /\ req'[a].image = req[a].image
      BY <1>1, <1>3, <2>1, GotoKeeps
    <2>3. req'[a] \in Good(now)
      BY <1>1, <1>2, <2>2, AtWork, ToRender DEF Good, Kinds, Setters
    <2>4. FilesOK'
      BY <1>1, <1>3, AtWork DEF FilesOK
    <2>5. HistoryOK' /\ (calm' => calm)
      BY <1>1, <1>3, AtWork, NoFaultKeeps
    <2>6. calm => LoneOK(a)'
      BY <1>1, <1>3, <2>2, AtWork DEF LoneOK
    <2> QED BY <1>1, <2>2, <2>3, <2>4, <2>5, <2>6, AtWork, MoveKeeps
  <1>4. CASE Fault /\ Set(a, Idle) /\ UNCHANGED src
    BY <1>1, <1>4, AtWork, FaultEnds, SameFiles
  <1> QED BY <1>3, <1>4 DEF SaveUpload

LEMMA ChoiceKeeps ==
  ASSUME choice \in Choices
  PROVE  /\ \A text \in Texts \cup {Derived} : UpsertOverlayText(text) \in Choices
         /\ \A layout \in Layouts \cup {Derived} : SetOverlayStyle(layout) \in Choices
         /\ \A disabled \in BOOLEAN : SetOverlayDisabled(disabled) \in Choices
  <1>1. ASSUME NEW text \in Texts \cup {Derived} PROVE UpsertOverlayText(text) \in Choices
    BY DEF UpsertOverlayText, Choices
  <1>2. ASSUME NEW layout \in Layouts \cup {Derived} PROVE SetOverlayStyle(layout) \in Choices
    BY DEF SetOverlayStyle, Choices
  <1>3. ASSUME NEW disabled \in BOOLEAN PROVE SetOverlayDisabled(disabled) \in Choices
    BY DEF SetOverlayDisabled, Choices
  <1> QED BY <1>1, <1>2, <1>3

LEMMA ReadLayoutKeeps ==
  ASSUME Inv, NEW a \in Actors, ReadLayout(a)
  PROVE  Inv'
  <1>1. /\ req[a].pc = "layout" /\ UNCHANGED <<start, choice, src, poster, nfo, now, calm, last, ops, faults>>
    BY DEF ReadLayout, At, files, history
  <1>2. /\ req[a].kind = "fromURL" /\ req[a].image \in Images /\ req[a] \in Call(now)
    BY <1>1, AtWork DEF CallOK, Setters
  <1>3. PICK layout \in Layouts \cup {Derived} : Set(a, Merged(a, layout))
    BY DEF ReadLayout
  <1> PICK r : r = Merged(a, layout)
    OBVIOUS
  <1>4. /\ r \in Call(now) /\ r.kind = req[a].kind /\ r.image = req[a].image
        /\ r.pc \in {"rmsrc", "setlayout"} /\ (r.pc = "setlayout" => r.read \in Layouts \cup {Derived})
    BY <1>2 DEF Merged, Call, Pcs, Reads
  <1>5. CallOK(r)
    BY <1>2, <1>4 DEF CallOK
  <1>6. Set(a, r) /\ req'[a] = r
    BY <1>3, SetOne DEF Inv, TypeInv
  <1>7. calm => LoneOK(a)'
    BY <1>1, <1>4, <1>6, AtWork DEF LoneOK
  <1>8. FilesOK' /\ HistoryOK'
    BY <1>1, AtWork DEF FilesOK, HistoryOK
  <1> QED BY <1>1, <1>4, <1>5, <1>6, <1>7, <1>8, AtWork, MoveKeeps DEF Good

LEMMA WriteLayoutKeeps ==
  ASSUME Inv, NEW a \in Actors, WriteLayout(a)
  PROVE  Inv'
  <1>1. req[a].pc = "setlayout" /\ UNCHANGED <<start, src, poster, nfo, now, last, ops>>
    BY DEF WriteLayout, At, files
  <1>2. /\ req[a].kind = "fromURL" /\ req[a].image \in Images /\ req[a] \in Call(now)
        /\ req[a].read \in Layouts \cup {Derived}
    BY <1>1, AtWork DEF CallOK, Setters
  <1>3. CASE /\ choice' = SetOverlayStyle(req[a].read)
             /\ Set(a, [req[a] EXCEPT !.pc = "rmsrc", !.read = None]) /\ NoFault
    <2>1. PICK r : r = [req[a] EXCEPT !.pc = "rmsrc", !.read = None]
      OBVIOUS
    <2>2. /\ r \in Call(now) /\ r.kind = req[a].kind /\ r.image = req[a].image /\ r.pc = "rmsrc"
      BY <1>2, <2>1 DEF Call, Pcs, Reads
    <2>3. r \in Good(now)
      <3>1. CallOK(r)
        BY <1>2, <2>2, ToFetch
      <3> QED BY <2>2, <3>1 DEF Good
    <2>4. Set(a, r) /\ req'[a] = r
      BY <1>3, <2>1, SetOne DEF Inv, TypeInv
    <2>5. choice' \in Choices
      BY <1>1, <1>2, <1>3, AtWork, ChoiceKeeps
    <2>6. FilesOK' /\ HistoryOK' /\ (calm' => calm)
      BY <1>1, <1>3, AtWork, SameFiles, NoFaultKeeps
    <2>7. calm => LoneOK(a)'
      BY <1>1, <2>2, <2>4, AtWork DEF LoneOK
    <2> QED BY <1>1, <2>2, <2>3, <2>4, <2>5, <2>6, <2>7, AtWork, MoveKeeps
  <1>4. CASE Fault /\ Set(a, Idle) /\ UNCHANGED choice
    BY <1>1, <1>4, AtWork, FaultEnds, SameFiles
  <1> QED BY <1>3, <1>4 DEF WriteLayout

LEMMA EditOverlayKeeps ==
  ASSUME Inv, NEW a \in Actors, EditOverlay(a)
  PROVE  Inv'
  <1>1. req[a].pc = "edit" /\ UNCHANGED <<start, src, poster, nfo, now, last, ops>>
    BY DEF EditOverlay, At, files
  <1>2. req[a].kind \in {"text", "toggle"}
    BY <1>1, AtWork DEF CallOK
  <1>3. CASE choice' \in Choices /\ Goto(a, "render") /\ NoFault
    <2>1. "render" \in Pcs \ {"idle"}
      BY DEF Pcs
    <2>2. /\ req'[a] \in Call(now) /\ req'[a].pc = "render" /\ Set(a, req'[a])
          /\ req'[a].kind = req[a].kind /\ req'[a].image = req[a].image
      BY <1>1, <1>3, <2>1, GotoKeeps
    <2>3. req'[a] \in Good(now)
      BY <1>1, <1>2, <2>2, AtWork, ToRender DEF Good, Kinds, Edits, Setters
    <2>4. FilesOK' /\ HistoryOK' /\ (calm' => calm)
      BY <1>1, <1>3, AtWork, SameFiles, NoFaultKeeps
    <2>5. calm => LoneOK(a)'
      BY <1>1, <1>2, <2>2, AtWork DEF LoneOK, Setters
    <2> QED BY <1>1, <1>3, <2>2, <2>3, <2>4, <2>5, AtWork, MoveKeeps
  <1>4. CASE Fault /\ Set(a, Idle) /\ UNCHANGED choice
    BY <1>1, <1>4, AtWork, FaultEnds, SameFiles
  <1>5. \/ /\ \/ \E text \in Texts \cup {Derived} : choice' = UpsertOverlayText(text)
              \/ \E disabled \in BOOLEAN : choice' = SetOverlayDisabled(disabled)
           /\ Goto(a, "render") /\ NoFault
        \/ Fault /\ Set(a, Idle) /\ UNCHANGED choice
    BY DEF EditOverlay
  <1>6. choice \in Choices
    BY <1>1, AtWork
  <1> QED BY <1>3, <1>4, <1>5, <1>6, ChoiceKeeps

LEMMA ProbeKeeps ==
  ASSUME Inv, NEW a \in Actors, Probe(a)
  PROVE  Inv'
  <1>1. /\ req[a].pc = "probe" /\ UNCHANGED <<start, choice, src, poster, nfo, now, calm, last, ops, faults>>
        /\ Goto(a, "nforead") \/ Goto(a, "lookup")
    BY DEF Probe, At, files, history
  <1>2. req[a].kind = "job"
    BY <1>1, AtWork DEF CallOK
  <1>3. /\ req'[a] \in Call(now) /\ req'[a].pc \in {"nforead", "lookup"} /\ Set(a, req'[a])
        /\ req'[a].kind = req[a].kind /\ req'[a].image = req[a].image
    BY <1>1, GotoKeeps DEF Pcs
  <1>4. CallOK(req'[a])
    BY <1>2, <1>3 DEF CallOK, Setters, Jobs
  <1>5. FilesOK' /\ HistoryOK'
    BY <1>1, AtWork DEF FilesOK, HistoryOK
  <1>6. calm => LoneOK(a)'
    BY <1>1, <1>2, <1>3, AtWork DEF LoneOK, Setters
  <1> QED BY <1>1, <1>3, <1>4, <1>5, <1>6, AtWork, MoveKeeps DEF Good

LEMMA LookupKeeps ==
  ASSUME Inv, NEW a \in Actors, Lookup(a)
  PROVE  Inv'
  <1>1. req[a].pc = "lookup" /\ UNCHANGED <<start, choice, src, poster, nfo, now, last, ops>>
    BY DEF Lookup, At, files
  <1>2. req[a].kind \in Jobs /\ req[a] \in Call(now) /\ req[a] \in Good(now) /\ now \in Nat
    BY <1>1, AtWork DEF CallOK
  <1>3. FilesOK'
    BY <1>1, AtWork, SameFiles
  <1>4. CASE start.upstream = None /\ Set(a, Fails(a)) /\ NoFault
    <2>1. /\ Fails(a) \in Good(now) /\ Fails(a).pc = "nforead" /\ Fails(a).kind = req[a].kind
          /\ req'[a] = Fails(a)
      BY <1>2, <1>4, FailsIsGood, SetOne DEF Inv, TypeInv
    <2>2. HistoryOK' /\ (calm' => calm)
      BY <1>1, <1>4, AtWork, NoFaultKeeps
    <2>3. calm => LoneOK(a)'
      BY <1>1, <1>2, <2>1, AtWork DEF LoneOK, Setters, Jobs
    <2> QED BY <1>1, <1>2, <1>3, <1>4, <2>1, <2>2, <2>3, AtWork, MoveKeeps
  <1>5. CASE /\ start.upstream # None /\ NoFault
             /\ Set(a, [req[a] EXCEPT !.image = start.upstream,
                                      !.pc = IF req[a].kind = "forced" THEN "rmsrc" ELSE "fetch"])
    <2>1. PICK r : r = [req[a] EXCEPT !.image = start.upstream,
                                      !.pc = IF req[a].kind = "forced" THEN "rmsrc" ELSE "fetch"]
      OBVIOUS
    <2>2. start.upstream \in Images
      BY <1>1, <1>5, AtWork, ConstantsAssumption DEF MaybeImage
    <2>3. /\ r \in Call(now) /\ r.kind = req[a].kind /\ r.image = start.upstream
          /\ r.pc \in {"rmsrc", "fetch"} /\ (r.pc = "rmsrc" => req[a].kind = "forced")
      BY <1>2, <2>1, <2>2 DEF Call, Pcs, MaybeImage
    <2>4. CallOK(r)
      BY <1>2, <2>2, <2>3, ToFetch DEF Jobs
    <2>5. Set(a, r) /\ req'[a] = r
      BY <1>5, <2>1, SetOne DEF Inv, TypeInv
    <2>6. HistoryOK' /\ (calm' => calm)
      BY <1>1, <1>5, AtWork, NoFaultKeeps
    <2>7. calm => LoneOK(a)'
      BY <1>1, <1>2, <2>3, <2>5, AtWork DEF LoneOK, Setters, Jobs
    <2> QED BY <1>1, <1>3, <2>3, <2>4, <2>5, <2>6, <2>7, AtWork, MoveKeeps DEF Good
  <1>6. CASE Fault /\ Set(a, Fails(a))
    BY <1>1, <1>3, <1>6, AtWork, FaultEnds
  <1> QED BY <1>4, <1>5, <1>6 DEF Lookup

LEMMA RemoveSrcKeeps ==
  ASSUME Inv, NEW a \in Actors, RemoveSrc(a)
  PROVE  Inv'
  <1>1. /\ req[a].pc = "rmsrc" /\ Goto(a, "rmposter")
        /\ UNCHANGED <<start, choice, poster, nfo, now, last, ops>>
        /\ (src' = None /\ NoFault) \/ (Fault /\ UNCHANGED src)
    BY DEF RemoveSrc, At
  <1>2. req[a].kind \in {"fromURL", "forced"} /\ req[a].image \in Images
    BY <1>1, AtWork DEF CallOK
  <1>3. /\ req'[a] \in Call(now) /\ req'[a].pc = "rmposter" /\ Set(a, req'[a])
        /\ req'[a].kind = req[a].kind /\ req'[a].image = req[a].image
    BY <1>1, GotoKeeps DEF Pcs
  <1>4. CallOK(req'[a])
    BY <1>2, <1>3, ToFetch
  <1>5. FilesOK'
    BY <1>1, AtWork DEF FilesOK, MaybeImage
  <1>6. HistoryOK' /\ (calm' => calm /\ src' = None)
    BY <1>1, AtWork, NoFaultKeeps, FaultKeeps
  <1>7. calm' => LoneOK(a)'
    BY <1>1, <1>3, <1>6, AtWork DEF LoneOK
  <1> QED BY <1>1, <1>3, <1>4, <1>5, <1>6, <1>7, AtWork, MoveKeeps DEF Good

LEMMA RemovePosterKeeps ==
  ASSUME Inv, NEW a \in Actors, RemovePoster(a)
  PROVE  Inv'
  <1>1. /\ req[a].pc = "rmposter" /\ Goto(a, "fetch")
        /\ UNCHANGED <<start, choice, src, nfo, now, last, ops>>
        /\ (poster' = NoPoster /\ NoFault) \/ (Fault /\ UNCHANGED poster)
    BY DEF RemovePoster, At
  <1>2. req[a].kind \in {"fromURL", "forced"} /\ req[a].image \in Images
    BY <1>1, AtWork DEF CallOK
  <1>3. /\ req'[a] \in Call(now) /\ req'[a].pc = "fetch" /\ Set(a, req'[a])
        /\ req'[a].kind = req[a].kind /\ req'[a].image = req[a].image
    BY <1>1, GotoKeeps DEF Pcs
  <1>4. CallOK(req'[a])
    BY <1>2, <1>3, ToFetch
  <1>5. FilesOK'
    BY <1>1, AtWork DEF FilesOK, NoPoster
  <1>6. HistoryOK' /\ (calm' => calm /\ poster' = NoPoster)
    BY <1>1, AtWork, NoFaultKeeps, FaultKeeps
  <1>7. calm' => LoneOK(a)'
    BY <1>1, <1>3, <1>6, AtWork DEF LoneOK
  <1> QED BY <1>1, <1>3, <1>4, <1>5, <1>6, <1>7, AtWork, MoveKeeps DEF Good

LEMMA FetchKeeps ==
  ASSUME Inv, NEW a \in Actors, Fetch(a)
  PROVE  Inv'
  <1>1. /\ req[a].pc = "fetch" /\ UNCHANGED <<start, choice, src, poster, nfo, now, calm, last, ops, faults>>
        /\ (Goto(a, "render") /\ src # None) \/ Goto(a, "land")
    BY DEF Fetch, At, files, history
  <1>2. req[a].kind \in {"fromURL", "forced", "job"} /\ req[a].image \in Images
    BY <1>1, AtWork DEF CallOK
  <1>3. /\ req'[a] \in Call(now) /\ Set(a, req'[a])
        /\ (req'[a].pc = "render" /\ src # None) \/ req'[a].pc = "land"
        /\ req'[a].kind = req[a].kind /\ req'[a].image = req[a].image
    BY <1>1, GotoKeeps DEF Pcs
  <1>4. CallOK(req'[a])
    BY <1>2, <1>3, ToFetch, ToRender DEF Kinds, Setters, Jobs
  <1>5. FilesOK' /\ HistoryOK'
    BY <1>1, AtWork DEF FilesOK, HistoryOK
  <1>6. calm => LoneOK(a)'
    BY <1>1, <1>3, AtWork DEF LoneOK
  <1> QED BY <1>1, <1>3, <1>4, <1>5, <1>6, AtWork, MoveKeeps DEF Good

LEMMA LandKeeps ==
  ASSUME Inv, NEW a \in Actors, Land(a)
  PROVE  Inv'
  <1>1. req[a].pc = "land" /\ UNCHANGED <<start, choice, poster, nfo, now, last, ops>>
    BY DEF Land, At
  <1>2. req[a].kind \in {"fromURL", "forced", "job"} /\ req[a].image \in Images
    BY <1>1, AtWork DEF CallOK
  <1>3. CASE src' = req[a].image /\ Goto(a, "render") /\ NoFault
    <2>1. /\ req'[a] \in Call(now) /\ req'[a].pc = "render" /\ Set(a, req'[a])
          /\ req'[a].kind = req[a].kind /\ req'[a].image = req[a].image
      BY <1>1, <1>3, GotoKeeps DEF Pcs
    <2>2. CallOK(req'[a])
      BY <1>2, <2>1, ToRender DEF Kinds, Setters, Jobs
    <2>3. FilesOK'
      BY <1>1, <1>3, AtWork DEF FilesOK
    <2>4. HistoryOK' /\ (calm' => calm)
      BY <1>1, <1>3, AtWork, NoFaultKeeps
    <2>5. calm => LoneOK(a)'
      BY <1>1, <1>3, <2>1, AtWork DEF LoneOK
    <2> QED BY <1>1, <2>1, <2>2, <2>3, <2>4, <2>5, AtWork, MoveKeeps DEF Good
  <1>4. CASE Fault /\ Set(a, Fails(a)) /\ UNCHANGED src
    BY <1>1, <1>4, AtWork, FaultEnds, SameFiles
  <1> QED BY <1>3, <1>4 DEF Land

LEMMA StyleIsStyle ==
  ASSUME choice \in Choices
  PROVE  StyleOf(choice) \in Styles \cup {Raw}
  <1>1. choice.text \in Texts \cup {Derived} /\ choice.layout \in Layouts \cup {Derived}
    BY DEF Choices
  <1> QED BY <1>1 DEF StyleOf, Styles

LEMMA LoadChoiceKeeps ==
  ASSUME Inv, NEW a \in Actors, LoadChoice(a)
  PROVE  Inv'
  <1>1. req[a].pc = "render" /\ UNCHANGED <<start, choice, src, poster, nfo, now, last, ops>>
    BY DEF LoadChoice, At, files
  <1>2. req[a] \in Call(now) /\ req[a] \in Good(now) /\ now \in Nat /\ req[a].kind \in Kinds
    BY <1>1, AtWork, KindIsReal
  <1>3. CASE src = None /\ Set(a, Rendered(a)) /\ NoFault
    BY <1>1, <1>3, RenderedKeeps
  <1>4. CASE /\ src # None /\ NoFault
             /\ Set(a, [req[a] EXCEPT !.pc = "decode", !.read = StyleOf(choice)])
    <2>1. PICK r : r = [req[a] EXCEPT !.pc = "decode", !.read = StyleOf(choice)]
      OBVIOUS
    <2>2. StyleOf(choice) \in Styles \cup {Raw}
      BY <1>1, AtWork, StyleIsStyle
    <2>3. /\ r \in Call(now) /\ r.pc = "decode" /\ r.kind = req[a].kind /\ r.image = req[a].image
          /\ r.read = StyleOf(choice)
      BY <1>2, <2>1, <2>2 DEF Call, Pcs, Reads
    <2>4. CallOK(r)
      BY <1>1, <1>2, <2>2, <2>3, AtWork, ToCompose
    <2>5. Set(a, r) /\ req'[a] = r
      BY <1>4, <2>1, SetOne DEF Inv, TypeInv
    <2>6. HistoryOK' /\ (calm' => calm) /\ FilesOK'
      BY <1>1, <1>4, AtWork, NoFaultKeeps, SameFiles
    <2>7. StyleOf(choice)' = StyleOf(choice)
      BY <1>1 DEF StyleOf, OverlayDisabled
    <2>8. calm => LoneOK(a)'
      BY <1>1, <2>3, <2>5, <2>7, AtWork DEF LoneOK
    <2> QED BY <1>1, <2>3, <2>4, <2>5, <2>6, <2>8, AtWork, MoveKeeps DEF Good
  <1>5. CASE Fault /\ Set(a, Rendered(a))
    BY <1>1, <1>5, AtWork, FaultEnds, SameFiles
  <1> QED BY <1>3, <1>4, <1>5 DEF LoadChoice

LEMMA DecodeKeeps ==
  ASSUME Inv, NEW a \in Actors, Decode(a)
  PROVE  Inv'
  <1>1. req[a].pc = "decode" /\ UNCHANGED <<start, choice, src, poster, nfo, now, last, ops>>
    BY DEF Decode, At, files
  <1>2. /\ req[a] \in Call(now) /\ req[a] \in Good(now) /\ now \in Nat /\ req[a].kind \in Kinds
        /\ req[a].read \in Styles \cup {Raw}
    BY <1>1, AtWork, KindIsReal DEF CallOK
  <1>3. CASE src = None /\ Set(a, Rendered(a)) /\ NoFault
    BY <1>1, <1>3, RenderedKeeps
  <1> DEFINE picture == [src |-> src, style |-> req[a].read]
  <1>4. CASE /\ src # None /\ NoFault
             /\ Set(a, [req[a] EXCEPT !.pc = "publish", !.picture = picture])
    <2>1. PICK r : r = [req[a] EXCEPT !.pc = "publish", !.picture = picture]
      OBVIOUS
    <2>2. picture \in Pictures
      BY <1>1, <1>2, <1>4, AtWork DEF FilesOK, MaybeImage, Pictures
    <2> HIDE DEF picture
    <2>3. /\ r \in Call(now) /\ r.pc = "publish" /\ r.kind = req[a].kind /\ r.image = req[a].image
          /\ r.picture = picture
      BY <1>2, <2>1, <2>2 DEF Call, Pcs
    <2>4. CallOK(r)
      BY <1>1, <1>2, <2>2, <2>3, AtWork, ToCompose
    <2>5. Set(a, r) /\ req'[a] = r
      BY <1>4, <2>1, SetOne DEF Inv, TypeInv
    <2>6. HistoryOK' /\ (calm' => calm) /\ FilesOK'
      BY <1>1, <1>4, AtWork, NoFaultKeeps, SameFiles
    <2>7. StyleOf(choice)' = StyleOf(choice)
      BY <1>1 DEF StyleOf, OverlayDisabled
    <2>8. calm => picture = Render(src, choice)
      BY <1>1, AtWork DEF picture, LoneOK, Render
    <2>9. Render(src, choice)' = Render(src, choice)
      BY <1>1, <2>7 DEF Render
    <2>10. calm => LoneOK(a)'
      BY <1>1, <1>4, <2>3, <2>5, <2>8, <2>9, AtWork DEF LoneOK
    <2> QED BY <1>1, <2>3, <2>4, <2>5, <2>6, <2>10, AtWork, MoveKeeps DEF Good
  <1>5. CASE Fault /\ Set(a, Rendered(a))
    BY <1>1, <1>5, AtWork, FaultEnds, SameFiles
  <1> QED BY <1>3, <1>4, <1>5 DEF Decode

LEMMA PublishKeeps ==
  ASSUME Inv, NEW a \in Actors, Publish(a)
  PROVE  Inv'
  <1>1. PICK r : r = Rendered(a)
    OBVIOUS
  <1>2. /\ req[a].pc = "publish" /\ UNCHANGED <<start, choice, src, nfo, ops>> /\ Set(a, r)
    BY <1>1 DEF Publish, At
  <1>3. /\ req[a] \in Good(now) /\ now \in Nat /\ req[a].kind \in Kinds
        /\ req[a].picture \in Pictures
    BY <1>2, AtWork, KindIsReal DEF CallOK
  <1>4. \A n \in Nat : now <= n =>
          /\ r \in Good(n)
          /\ r.pc = IF req[a].kind \in Edits THEN "idle" ELSE "nforead"
          /\ req[a].kind \notin Edits => r.kind = req[a].kind /\ r.image = req[a].image
    <2>1. \A n \in Nat : now <= n => req[a] \in Good(n)
      BY <1>3 DEF Good, Call
    <2> QED BY <1>1, <1>3, <2>1, RenderedIsGood
  <1>5. req'[a] = r
    BY <1>2, SetOne DEF Inv, TypeInv
  <1>6. ASSUME NEW t \in {now, now + 1}, t <= MaxClock, now' = t,
               poster' = [picture |-> req[a].picture, mtime |-> t],
               last' = [last EXCEPT !.rendered = TRUE], NoFault
        PROVE  Inv'
    <2>1. now' \in Nat /\ now <= now' /\ now' \in 1 .. MaxClock
      BY <1>2, <1>3, <1>6, AtWork DEF FilesOK
    <2>2. FilesOK'
      <3>1. poster' \in [picture : Pictures, mtime : 1 .. now']
        BY <1>3, <1>6, <2>1
      <3>2. nfo' \in 0 .. now' \cup {Torn} /\ src' \in MaybeImage
        BY <1>2, <1>3, <2>1, AtWork DEF FilesOK
      <3> QED BY <2>1, <3>1, <3>2 DEF FilesOK
    <2>3. HistoryOK' /\ (calm' => calm)
      BY <1>2, <1>6, AtWork DEF HistoryOK, NoFault
    <2>4. last'.kind = last.kind /\ last'.image = last.image /\ last'.rendered
      BY <1>2, <1>6, AtWork DEF HistoryOK
    <2>5. calm => LoneOK(a) /\ last.kind = req[a].kind
      BY <1>2, AtWork DEF LoneOK
    <2>6. calm => Fresh'
      <3>1. Render(src, choice)' = Render(src, choice)
        BY <1>2 DEF Render, StyleOf, OverlayDisabled
      <3>2. calm => /\ src # None /\ req[a].picture = Render(src, choice)
                    /\ last.kind \in Setters => src = last.image
        BY <1>2, <2>5 DEF LoneOK
      <3> QED BY <1>2, <1>6, <2>4, <3>1, <3>2 DEF Fresh
    <2>7. calm /\ r.pc = "idle" => Done'
      <3>1. calm /\ r.pc = "idle" => last'.kind \notin Setters \cup Jobs
        BY <1>3, <1>4, <2>4, <2>5 DEF Edits, Setters, Jobs
      <3> QED BY <2>6, <3>1 DEF Done
    <2>8. calm /\ r.pc # "idle" => LoneOK(a)'
      <3>1. r.pc # "idle" => r.pc = "nforead" /\ r.kind = req[a].kind /\ r.image = req[a].image
        BY <1>3, <1>4
      <3> QED BY <1>2, <1>5, <2>4, <2>5, <2>6, <3>1 DEF LoneOK
    <2> QED BY <1>2, <1>4, <2>1, <2>2, <2>3, <2>7, <2>8, AtWork, MoveKeeps
  <1>7. CASE Fault /\ UNCHANGED <<poster, now, last>>
    <2>1. HistoryOK' /\ ~calm' /\ FilesOK'
      BY <1>2, <1>7, AtWork, FaultKeeps, SameFiles
    <2> QED BY <1>2, <1>3, <1>4, <1>7, <2>1, AtWork, MoveKeeps
  <1> QED BY <1>6, <1>7 DEF Publish

LEMMA ReadMTimeKeeps ==
  ASSUME Inv, NEW a \in Actors, ReadMTime(a)
  PROVE  Inv'
  <1>1. req[a].pc = "nforead" /\ UNCHANGED <<start, choice, src, poster, nfo, now, last, ops>>
    BY DEF ReadMTime, At, files
  <1>2. /\ req[a] \in Call(now) /\ now \in Nat /\ req[a].kind \in Setters \cup Jobs
        /\ req[a].kind \in Setters => req[a].image \in Images
    BY <1>1, AtWork DEF CallOK
  <1>3. Fresh' = Fresh
    BY <1>1 DEF Fresh, Render, StyleOf, OverlayDisabled
  <1>4. CASE start.imported /\ Set(a, [req[a] EXCEPT !.pc = "nfowrite", !.stamp = poster.mtime]) /\ NoFault
    <2>1. PICK r : r = [req[a] EXCEPT !.pc = "nfowrite", !.stamp = poster.mtime]
      OBVIOUS
    <2>2. poster.mtime \in 0 .. now
      BY <1>1, <1>2, AtWork DEF FilesOK, NoPoster
    <2>3. /\ r \in Call(now) /\ r.pc = "nfowrite" /\ r.kind = req[a].kind /\ r.image = req[a].image
          /\ r.stamp = poster.mtime
      BY <1>2, <2>1, <2>2 DEF Call, Pcs
    <2>4. CallOK(r)
      BY <1>2, <2>3, ToRewrite
    <2>5. Set(a, r) /\ req'[a] = r
      BY <1>4, <2>1, SetOne DEF Inv, TypeInv
    <2>6. HistoryOK' /\ (calm' => calm) /\ FilesOK'
      BY <1>1, <1>4, AtWork, NoFaultKeeps, SameFiles
    <2>7. calm => LoneOK(a)'
      BY <1>1, <1>3, <2>3, <2>5, AtWork DEF LoneOK
    <2> QED BY <1>1, <2>3, <2>4, <2>5, <2>6, <2>7, AtWork, MoveKeeps DEF Good
  <1>5. CASE ~start.imported /\ Set(a, Idle) /\ NoFault
    <2>1. HistoryOK' /\ (calm' => calm) /\ FilesOK'
      BY <1>1, <1>5, AtWork, NoFaultKeeps, SameFiles
    <2>2. calm => Done'
      BY <1>1, <1>3, <1>5, AtWork DEF LoneOK, Done
    <2> QED BY <1>1, <1>2, <1>5, <2>1, <2>2, AtWork, IdleIsGood, MoveKeeps
  <1>6. CASE Fault /\ Set(a, Idle)
    BY <1>1, <1>6, AtWork, FaultEnds, SameFiles
  <1> QED BY <1>4, <1>5, <1>6 DEF ReadMTime

LEMMA WriteNFOKeeps ==
  ASSUME Inv, NEW a \in Actors, WriteNFO(a)
  PROVE  Inv'
  <1>1. /\ req[a].pc = "nfowrite" /\ UNCHANGED <<start, choice, src, poster, now, last, ops>>
        /\ Set(a, Idle)
    BY DEF WriteNFO, At
  <1>2. /\ req[a] \in Call(now) /\ now \in Nat /\ req[a].kind \in Setters \cup Jobs
        /\ req[a].stamp \in 0 .. now
    BY <1>1, AtWork DEF CallOK, Call
  <1>3. Fresh' = Fresh
    BY <1>1 DEF Fresh, Render, StyleOf, OverlayDisabled
  <1>4. CASE nfo' = req[a].stamp /\ NoFault
    <2>1. HistoryOK' /\ (calm' => calm)
      BY <1>1, <1>4, AtWork, NoFaultKeeps
    <2>2. FilesOK'
      BY <1>1, <1>2, <1>4, AtWork DEF FilesOK
    <2>3. calm => Done'
      BY <1>1, <1>3, <1>4, AtWork DEF LoneOK, Done
    <2> QED BY <1>1, <1>2, <2>1, <2>2, <2>3, AtWork, IdleIsGood, MoveKeeps
  <1>5. CASE Fault /\ nfo' \in {nfo, Torn}
    <2>1. FilesOK'
      BY <1>1, <1>5, AtWork DEF FilesOK
    <2> QED BY <1>1, <1>5, <2>1, AtWork, FaultEnds
  <1> QED BY <1>4, <1>5 DEF WriteNFO

----------------------------------------------------------------------------
LEMMA BeginKeeps ==
  ASSUME Inv, NEW a \in Actors, Begin(a) \/ FanOut(a)
  PROVE  Inv'
  <1>1. None \in MaybeImage /\ \A image \in Own : image \in Images /\ image \in MaybeImage
    BY ConstantsAssumption DEF MaybeImage
  <1>2. ops \in 0 .. MaxOps
    BY DEF Inv, TypeInv, HistoryOK
  <1>3. CASE FanOut(a)
    <2>1. "job" \in Kinds /\ "job" \notin Setters
      BY DEF Kinds, Setters, Jobs
    <2> QED BY <1>1, <1>2, <1>3, <2>1, EnterKeeps DEF FanOut
  <1>4. CASE Begin(a)
    <2>1. ops' \in 0 .. MaxOps
      BY <1>2, <1>4, ConstantsAssumption DEF Begin
    <2>2. \A kind \in Setters : kind \in Kinds
      BY DEF Kinds
    <2>3. \A kind \in Edits \cup {"forced"} : kind \in Kinds /\ kind \notin Setters
      BY DEF Kinds, Setters, Edits, Jobs
    <2> QED BY <1>1, <1>4, <2>1, <2>2, <2>3, EnterKeeps DEF Begin
  <1> QED BY <1>3, <1>4

LEMMA CrashKeeps ==
  ASSUME Inv, CrashRestart
  PROVE  Inv'
  <1>1. /\ Fault /\ req' = [a \in Actors |-> Idle] /\ nfo' \in {nfo, Torn}
        /\ UNCHANGED <<start, choice, src, poster, now, last, ops>>
    BY DEF CrashRestart
  <1>2. start \in Starts /\ choice \in Choices /\ FilesOK /\ HistoryOK /\ now \in Nat
    BY DEF Inv, TypeInv, FilesOK
  <1>3. HistoryOK' /\ ~calm' /\ FilesOK'
    BY <1>1, <1>2, FaultKeeps DEF FilesOK
  <1>4. CallsOK'
    BY <1>1, <1>2, IdleIsGood DEF CallsOK
  <1> QED BY <1>1, <1>2, <1>3, <1>4 DEF Inv, TypeInv, LoneInv

LEMMA InitInv == Init => Inv
  <1> SUFFICES ASSUME Init PROVE Inv
    OBVIOUS
  <1>1. choice \in Choices /\ start \in Starts /\ now = 1 /\ ~calm
    BY DEF Init, Choices
  <1>2. FilesOK
    BY ConstantsAssumption DEF Init, FilesOK, MaybeImage
  <1>3. HistoryOK
    <2>1. ops \in 0 .. MaxOps /\ faults \in 0 .. MaxFaults
      <3>1. MaxOps \in Nat /\ MaxFaults \in Nat
        BY ConstantsAssumption
      <3>2. ops = 0 /\ faults = 0
        BY DEF Init
      <3> QED BY <3>1, <3>2
    <2>2. calm \in BOOLEAN
      BY DEF Init
    <2>3. last \in [kind : Kinds \cup {"none"}, image : MaybeImage, rendered : BOOLEAN]
      BY DEF Init, MaybeImage
    <2> QED BY <2>1, <2>2, <2>3 DEF HistoryOK
  <1>4. CallsOK
    BY <1>1, IdleIsGood DEF Init, CallsOK
  <1> QED BY <1>1, <1>2, <1>3, <1>4 DEF Inv, TypeInv, LoneInv

LEMMA InvInductive == Inv /\ [Next]_vars => Inv'
  <1> SUFFICES ASSUME Inv, [Next]_vars PROVE Inv'
    OBVIOUS
  <1>1. ASSUME NEW a \in Actors, Step(a) PROVE Inv'
    BY <1>1, SaveUploadKeeps, ReadLayoutKeeps, WriteLayoutKeeps, EditOverlayKeeps, ProbeKeeps,
       LookupKeeps, RemoveSrcKeeps, RemovePosterKeeps, FetchKeeps, LandKeeps, LoadChoiceKeeps,
       DecodeKeeps, PublishKeeps, ReadMTimeKeeps, WriteNFOKeeps DEF Step
  <1>2. CASE UNCHANGED vars
    <2>1. UNCHANGED <<start, choice, src, poster, nfo, now, req, calm, last, ops, faults>>
      BY <1>2 DEF vars
    <2>2. TypeInv'
      BY <2>1 DEF Inv, TypeInv, FilesOK, HistoryOK, CallsOK
    <2>3. Render(src, choice)' = Render(src, choice)
      BY <2>1 DEF Render, StyleOf, OverlayDisabled
    <2>4. StyleOf(choice)' = StyleOf(choice)
      BY <2>1 DEF StyleOf, OverlayDisabled
    <2>5. Fresh' = Fresh
      BY <2>1, <2>3 DEF Fresh
    <2>6. ASSUME NEW a \in Actors PROVE LoneOK(a)' = LoneOK(a)
      BY <2>1, <2>3, <2>4, <2>5 DEF LoneOK
    <2>7. LoneInv'
      BY <2>1, <2>5, <2>6 DEF Inv, LoneInv, Busy, Done
    <2> QED BY <2>2, <2>7 DEF Inv
  <1> QED BY <1>1, <1>2, BeginKeeps, CrashKeeps DEF Next, Terminated

LEMMA InvHolds == Spec => []Inv
  <1> QED BY InitInv, InvInductive, PTL DEF Spec

(* Every step of a request, a job, a background rewrite or a restart leaves *)
(* the files, the choice and what the goroutines have in hand in range.     *)
THEOREM TypeCorrect == Spec => []TypeOK
  <1>1. Inv => TypeOK
    <2> SUFFICES ASSUME Inv PROVE TypeOK
      OBVIOUS
    <2>1. ASSUME NEW a \in Actors
          PROVE  /\ req[a].pc \in Pcs /\ req[a].image \in MaybeImage /\ req[a].stamp \in 0 .. now
                 /\ At(a, "idle") => req[a] = Idle
                 /\ At(a, "decode") => req[a].read \in Styles \cup {Raw}
                 /\ At(a, "publish") => req[a].picture \in Pictures
                 /\ req[a].pc \in {"save", "land"} => req[a].image \in Images
      <3>1. req[a] \in Call(now) /\ CallOK(req[a])
        BY DEF Inv, TypeInv, CallsOK, Good
      <3>2. req[a].pc \in Pcs /\ req[a].image \in MaybeImage /\ req[a].stamp \in 0 .. now
        BY <3>1 DEF Call
      <3>3. req[a].pc \in {"save", "land"} => req[a].image \in Images
        BY <3>1 DEF CallOK, Setters
      <3> QED BY <3>1, <3>2, <3>3 DEF CallOK, At
    <2> QED BY <2>1 DEF Inv, TypeInv, FilesOK, HistoryOK, Choices, TypeOK
  <1> QED BY <1>1, InvHolds, PTL

(* A request that ran alone and without a fault has repaired the poster,    *)
(* whatever failures, crashes and overlapping requests came before it.      *)
THEOREM PosterIsCurrentHolds == Spec => []PosterIsCurrent
  <1>1. Inv => PosterIsCurrent
    BY DEF Inv, LoneInv, Done, Fresh, PosterIsCurrent
  <1> QED BY <1>1, InvHolds, PTL

(* And an upload, a set-from-URL or an images job the NFO of an imported    *)
(* recording.                                                               *)
THEOREM NfoIsCurrentHolds == Spec => []NfoIsCurrent
  <1>1. Inv => NfoIsCurrent
    BY DEF Inv, LoneInv, Done, NfoIsCurrent
  <1> QED BY <1>1, InvHolds, PTL
=============================================================================
