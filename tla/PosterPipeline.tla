--------------------------- MODULE PosterPipeline ---------------------------
(***************************************************************************)
(* One recording's poster: the source image, the overlay choice, the       *)
(* rendered poster.jpg and the movie.nfo that names it by its mtime, under *)
(* the requests and jobs that change them.                                 *)
(*                                                                         *)
(* internal/imagerender/render.go (Regenerate), internal/server/upload.go, *)
(* recording_choices.go, banner_layout.go and imagerender.go,              *)
(* internal/jobs/builtin/refresh_recording_images.go, internal/storage/    *)
(* image_choices.go, internal/nforefresh and internal/nfo/writer.go.       *)
(*                                                                         *)
(* How the bytes of one file get into its slot is ImageSlot's matter; here *)
(* a slot is replaced in one step.                                         *)
(***************************************************************************)
EXTENDS Naturals, FiniteSets

CONSTANTS
    Images,      \* source images
    Own,         \* those of them the user has
    Texts,       \* overlay overrides; Derived is no override
    Layouts,     \* banner layouts; Derived is the default one
    Starts,      \* recordings: [upstream, proShot, imported]
    Actors,      \* request, background and worker goroutines
    MaxInFlight, MaxOps, MaxFaults, MaxClock, \* bounds
    None, Derived, Raw, Torn

Setters == {"upload", "fromURL"}
Edits == {"text", "toggle", "rerender"}
Jobs == {"job", "forced"}
Kinds == Setters \cup Edits \cup Jobs
MaybeImage == Images \cup {None}
Styles == (Texts \cup {Derived}) \X (Layouts \cup {Derived})
Pictures == [src : Images, style : Styles \cup {Raw}]

ASSUME ConstantsAssumption ==
    /\ Own \subseteq Images /\ None \notin Images /\ Derived \notin Texts \cup Layouts
    /\ Starts \subseteq [upstream : MaybeImage, proShot : BOOLEAN, imported : BOOLEAN]
    /\ MaxInFlight \in Nat /\ MaxOps \in Nat /\ MaxFaults \in Nat /\ MaxClock \in Nat \ {0}

VARIABLES
    start,   \* what the recording is; fixed
    choice,  \* recording_image_choices row; explicit: the row exists
    src,     \* poster-src.jpg
    poster,  \* poster.jpg: its picture and mtime
    nfo,     \* the ?v= of the poster's URL in movie.nfo, 0 for "generated"
    now,     \* the clock, in the seconds an mtime is told apart by
    req,     \* actor -> its request, job run or background rewrite
    calm,    \* since the last request began: alone, and no fault (history)
    last,    \* that request's kind and image, and whether it has rendered (history)
    ops, faults

vars == <<start, choice, src, poster, nfo, now, req, calm, last, ops, faults>>
files == <<src, poster, nfo, now>>
history == <<calm, last, ops, faults>>

NoPoster == [picture |-> None, mtime |-> 0]
Idle == [pc |-> "idle", kind |-> "none", image |-> None, read |-> None, picture |-> None, stamp |-> 0]
Pcs == {"idle", "save", "layout", "setlayout", "edit", "probe", "lookup", "rmsrc", "rmposter",
        "fetch", "land", "render", "decode", "publish", "nforead", "nfowrite"}
Busy == {a \in Actors : req[a].pc # "idle"}

Init ==
    /\ start \in Starts
    /\ choice = [explicit |-> FALSE, disabled |-> FALSE, text |-> Derived, layout |-> Derived]
    /\ src = None /\ poster = NoPoster /\ nfo = 0 /\ now = 1
    /\ req = [a \in Actors |-> Idle]
    /\ calm = FALSE
    /\ last = [kind |-> "none", image |-> None, rendered |-> FALSE]
    /\ ops = 0 /\ faults = 0

----------------------------------------------------------------------------
At(a, pc) == req[a].pc = pc
Set(a, r) == req' = [req EXCEPT ![a] = r]
Goto(a, pc) == Set(a, [req[a] EXCEPT !.pc = pc])
NoFault == UNCHANGED <<calm, faults>>
Fault == faults < MaxFaults /\ faults' = faults + 1 /\ calm' = FALSE

(* Mutant: no handler asks for the rewrite. *)
RenderedSilently(a) == IF req[a].kind \in Jobs THEN [req[a] EXCEPT !.pc = "nforead"] ELSE Idle

(* What follows the render, or its failure, which is only logged: uploads   *)
(* answer and leave the rewrite to a goroutine, a job rewrites before it    *)
(* ends, the overlay handlers and the re-render do neither.                 *)
Rendered(a) ==
    IF req[a].kind \in Edits THEN Idle
    ELSE [req[a] EXCEPT !.pc = "nforead", !.read = None, !.picture = None]
(* A job whose poster step ends early still rewrites; a handler answers.    *)
Fails(a) == IF req[a].kind \in Jobs THEN [req[a] EXCEPT !.pc = "nforead"] ELSE Idle

FirstPc(kind) ==
    CASE kind = "upload" -> "save"
      [] kind = "fromURL" -> "layout"
      [] kind \in {"text", "toggle"} -> "edit"
      [] kind = "rerender" -> "render"
      [] kind = "job" -> "probe"
      [] kind = "forced" -> "lookup"

(* A new goroutine, it does not matter which. *)
Free == CHOOSE a \in Actors : req[a].pc = "idle"
Enter(a, kind, image) ==
    /\ Cardinality(Busy) < MaxInFlight /\ Busy # Actors /\ a = Free
    /\ Set(a, [Idle EXCEPT !.pc = FirstPc(kind), !.kind = kind, !.image = image])
    /\ calm' = (Busy = {})
    /\ last' = [kind |-> kind, image |-> image, rendered |-> FALSE]
    /\ UNCHANGED <<start, choice, files, faults>>

(* A request of the user, the forced job among them. *)
Begin(a) ==
    /\ ops < MaxOps /\ ops' = ops + 1
    /\ \/ \E kind \in Setters, image \in Own : Enter(a, kind, image)
       \/ \E kind \in Edits \cup {"forced"} : Enter(a, kind, None)

(* fanOutRecordings of refresh-encora enqueues the job for a recording that *)
(* lacks poster.jpg or fanart.jpg; the fanart is not of this model, so the  *)
(* job may come whether the poster is there or not.  The runner admits one  *)
(* run of these arguments at a time; a run its full channel turns away, and *)
(* a pass whose sync failed first, change nothing and are no step.          *)
FanOut(a) ==
    /\ \A b \in Busy : req[b].kind # "job"
    /\ Enter(a, "job", None)
    /\ UNCHANGED ops

----------------------------------------------------------------------------
(* Before the render. *)

(* SaveUploadedRecordingPosterSrc. *)
SaveUpload(a) ==
    /\ At(a, "save")
    /\ \/ src' = req[a].image /\ Goto(a, "render") /\ NoFault
       \/ Fault /\ Set(a, Idle) /\ UNCHANGED src
    /\ UNCHANGED <<start, choice, poster, nfo, now, last, ops>>

(* The upserts of one column of the choice; each makes the row exist. *)
SetOverlayStyle(layout) == [choice EXCEPT !.explicit = TRUE, !.layout = layout]
UpsertOverlayText(text) == [choice EXCEPT !.explicit = TRUE, !.text = text]
SetOverlayDisabled(disabled) == [choice EXCEPT !.explicit = TRUE, !.disabled = disabled]

(* persistBannerLayout: the row is read, the layout merged into what was    *)
(* read, and written back when that changed it.                             *)
Merged(a, layout) ==
    IF layout = choice.layout THEN [req[a] EXCEPT !.pc = "rmsrc"]
    ELSE [req[a] EXCEPT !.pc = "setlayout", !.read = layout]
ReadLayout(a) ==
    /\ At(a, "layout")
    /\ \E layout \in Layouts \cup {Derived} : Set(a, Merged(a, layout))
    /\ UNCHANGED <<start, choice, files, history>>

WriteLayout(a) ==
    /\ At(a, "setlayout")
    /\ \/ /\ choice' = SetOverlayStyle(req[a].read)
          /\ Set(a, [req[a] EXCEPT !.pc = "rmsrc", !.read = None]) /\ NoFault
       \/ Fault /\ Set(a, Idle) /\ UNCHANGED choice
    /\ UNCHANGED <<start, files, last, ops>>

(* The overlay handlers. *)
EditOverlay(a) ==
    /\ At(a, "edit")
    /\ \/ /\ \/ /\ req[a].kind = "text"
                /\ \E text \in Texts \cup {Derived} : choice' = UpsertOverlayText(text)
             \/ /\ req[a].kind = "toggle"
                /\ \E disabled \in BOOLEAN : choice' = SetOverlayDisabled(disabled)
          /\ Goto(a, "render") /\ NoFault
       \/ Fault /\ Set(a, Idle) /\ UNCHANGED choice
    /\ UNCHANGED <<start, files, last, ops>>

(* Mutant: the job asks for the source instead of the poster. *)
ProbeSource(a) ==
    /\ At(a, "probe")
    /\ Goto(a, IF src # None THEN "nforead" ELSE "lookup")
    /\ UNCHANGED <<start, choice, files, history>>

(* persistPosterAndRender without force: there is a poster, it stays. *)
Probe(a) ==
    /\ At(a, "probe")
    /\ Goto(a, IF poster # NoPoster THEN "nforead" ELSE "lookup")
    /\ UNCHANGED <<start, choice, files, history>>

(* StageMedia's list: an error, no poster, or its first URL. *)
Lookup(a) ==
    /\ At(a, "lookup")
    /\ \/ /\ Set(a, IF start.upstream = None
                    THEN Fails(a)
                    ELSE [req[a] EXCEPT !.image = start.upstream,
                                        !.pc = IF req[a].kind = "forced" THEN "rmsrc" ELSE "fetch"])
          /\ NoFault
       \/ Fault /\ Set(a, Fails(a))
    /\ UNCHANGED <<start, choice, files, last, ops>>

(* Mutant: the old source stays, and the fetch takes it for the answer. *)
RemoveSrcNever(a) ==
    /\ At(a, "rmsrc")
    /\ Goto(a, "rmposter")
    /\ UNCHANGED <<start, choice, files, history>>

(* removeIfExists: its error is discarded, and what is there stays. *)
RemoveSrc(a) ==
    /\ At(a, "rmsrc") /\ Goto(a, "rmposter")
    /\ \/ src' = None /\ NoFault
       \/ Fault /\ UNCHANGED src
    /\ UNCHANGED <<start, choice, poster, nfo, now, last, ops>>

RemovePoster(a) ==
    /\ At(a, "rmposter") /\ Goto(a, "fetch")
    /\ \/ poster' = NoPoster /\ NoFault
       \/ Fault /\ UNCHANGED poster
    /\ UNCHANGED <<start, choice, src, nfo, now, last, ops>>

(* FetchRecordingPosterSrc: a source that is there is taken for the answer. *)
Fetch(a) ==
    /\ At(a, "fetch")
    /\ Goto(a, IF src # None THEN "render" ELSE "land")
    /\ UNCHANGED <<start, choice, files, history>>

Land(a) ==
    /\ At(a, "land")
    /\ \/ src' = req[a].image /\ Goto(a, "render") /\ NoFault
       \/ Fault /\ Set(a, Fails(a)) /\ UNCHANGED src
    /\ UNCHANGED <<start, choice, poster, nfo, now, last, ops>>

----------------------------------------------------------------------------
(* Regenerate. *)

(* An explicit row decides; without one, pro-shots have no band. *)
OverlayDisabled(c) == IF c.explicit THEN c.disabled ELSE start.proShot
StyleOf(c) == IF OverlayDisabled(c) THEN Raw ELSE <<c.text, c.layout>>
Render(image, c) == [src |-> image, style |-> StyleOf(c)]

(* GetImageChoice and HasRecordingPosterSrc; no source is no error. *)
LoadChoice(a) ==
    /\ At(a, "render")
    /\ \/ /\ Set(a, IF src = None THEN Rendered(a)
                    ELSE [req[a] EXCEPT !.pc = "decode", !.read = StyleOf(choice)])
          /\ NoFault
       \/ Fault /\ Set(a, Rendered(a))
    /\ UNCHANGED <<start, choice, files, last, ops>>

(* Mutant: a source that is gone by now is composed all the same. *)
DecodeAnything(a) ==
    /\ At(a, "decode")
    /\ Set(a, [req[a] EXCEPT !.pc = "publish", !.picture = [src |-> src, style |-> req[a].read]])
    /\ UNCHANGED <<start, choice, files, history>>

(* The source as it is by now, raw or composed. *)
Decode(a) ==
    /\ At(a, "decode")
    /\ \/ /\ Set(a, IF src = None THEN Rendered(a)
                    ELSE [req[a] EXCEPT !.pc = "publish", !.picture = [src |-> src, style |-> req[a].read]])
          /\ NoFault
       \/ Fault /\ Set(a, Rendered(a))
    /\ UNCHANGED <<start, choice, files, last, ops>>

(* The rename over poster.jpg, in this second or a later one. *)
Publish(a) ==
    /\ At(a, "publish")
    /\ \/ /\ \E t \in {now, now + 1} :
               /\ t <= MaxClock
               /\ now' = t
               /\ poster' = [picture |-> req[a].picture, mtime |-> t]
          /\ last' = [last EXCEPT !.rendered = TRUE]
          /\ NoFault
       \/ Fault /\ UNCHANGED <<poster, now, last>>
    /\ Set(a, Rendered(a))
    /\ UNCHANGED <<start, choice, src, nfo, ops>>

----------------------------------------------------------------------------
(* RewriteForRecording: a recording without a version row has no NFO. *)

ReadMTime(a) ==
    /\ At(a, "nforead")
    /\ \/ /\ Set(a, IF start.imported
                    THEN [req[a] EXCEPT !.pc = "nfowrite", !.stamp = poster.mtime] ELSE Idle)
          /\ NoFault
       \/ Fault /\ Set(a, Idle)
    /\ UNCHANGED <<start, choice, files, last, ops>>

(* WriteFile truncates movie.nfo and writes it in place. *)
WriteNFO(a) ==
    /\ At(a, "nfowrite")
    /\ \/ nfo' = req[a].stamp /\ NoFault
       \/ Fault /\ nfo' \in {nfo, Torn}
    /\ Set(a, Idle)
    /\ UNCHANGED <<start, choice, src, poster, now, last, ops>>

CrashRestart ==
    /\ Busy # {} /\ Fault
    /\ req' = [a \in Actors |-> Idle]
    /\ nfo' \in {nfo} \cup (IF \E a \in Actors : At(a, "nfowrite") THEN {Torn} ELSE {})
    /\ UNCHANGED <<start, choice, src, poster, now, last, ops>>

(* Nobody asks for anything more. *)
Terminated == Busy = {} /\ UNCHANGED vars

Step(a) ==
    \/ SaveUpload(a) \/ ReadLayout(a) \/ WriteLayout(a) \/ EditOverlay(a)
    \/ Probe(a) \/ Lookup(a) \/ RemoveSrc(a) \/ RemovePoster(a) \/ Fetch(a) \/ Land(a)
    \/ LoadChoice(a) \/ Decode(a) \/ Publish(a) \/ ReadMTime(a) \/ WriteNFO(a)

Next ==
    \/ \E a \in Actors : Begin(a) \/ FanOut(a) \/ Step(a)
    \/ CrashRestart \/ Terminated

Spec == Init /\ [][Next]_vars

(* Goroutines go on.  Nothing makes the runner take what refresh-encora     *)
(* sends it.                                                                *)
FairSpec == Spec /\ \A a \in Actors : WF_vars(Step(a))

----------------------------------------------------------------------------
(* Properties. *)

(* The shape of the state; a poster has the mtime of its publication, and   *)
(* what a render has in hand is a style first and then a picture.           *)
TypeOK ==
    /\ start \in Starts
    /\ choice \in [explicit : BOOLEAN, disabled : BOOLEAN,
                   text : Texts \cup {Derived}, layout : Layouts \cup {Derived}]
    /\ src \in MaybeImage
    /\ poster = NoPoster \/ poster \in [picture : Pictures, mtime : 1 .. now]
    /\ nfo \in 0 .. now \cup {Torn} /\ now \in 1 .. MaxClock
    /\ \A a \in Actors :
         /\ req[a].pc \in Pcs /\ req[a].image \in MaybeImage /\ req[a].stamp \in 0 .. now
         /\ At(a, "idle") => req[a] = Idle
         /\ At(a, "decode") => req[a].read \in Styles \cup {Raw}
         /\ At(a, "publish") => req[a].picture \in Pictures
         /\ req[a].pc \in {"save", "land"} => req[a].image \in Images
    /\ ops \in 0 .. MaxOps /\ faults \in 0 .. MaxFaults

(* However failures, crashes and overlapping requests have left things, one *)
(* request that runs alone and without a fault repairs the poster: if it    *)
(* rendered at all, and uploads and set-from-URL always do, poster.jpg is   *)
(* the render of the present source with the present choice, and theirs is  *)
(* the image in it ("so the saved poster matches what the picker preview    *)
(* showed").                                                                *)
PosterIsCurrent ==
    Busy = {} /\ calm /\ (last.rendered \/ last.kind \in Setters) =>
        /\ src # None /\ poster.picture = Render(src, choice)
        /\ last.kind \in Setters => src = last.image

(* The same for the NFO of an imported recording: after a lone, faultless   *)
(* upload, set-from-URL or images job its ?v= is the mtime of poster.jpg,   *)
(* whatever was torn or stale in it before.                                 *)
NfoIsCurrent ==
    Busy = {} /\ calm /\ start.imported /\ last.kind \in Setters \cup Jobs => nfo = poster.mtime

(* A poster that is missing, because a forced refresh or a set-from-URL     *)
(* removed it and failed, or a render did, comes back if StageMedia has one *)
(* and refresh-encora's runs for the recording are taken again and again:   *)
(* the slot that has a source but no poster is not mistaken for a filled    *)
(* one.                                                                     *)
JobTaken == \E a \in Actors : FanOut(a)
MissingPosterIsFilled ==
    []<><<JobTaken>>_vars => (poster = NoPoster /\ start.upstream # None ~> poster # NoPoster)
=============================================================================
