---------------------------- MODULE EncoraMirror ----------------------------
(***************************************************************************)
(* The local mirror of the user's Encora collection and wants list:         *)
(* internal/sync (Sync, PersistRecording), the handlers that push a change  *)
(* upstream (internal/server/encora_writes.go, apply.go) and the rate limit *)
(* they all draw on (internal/encora/client.go).                            *)
(*                                                                         *)
(* Upstream is paginated, so a sync is a series of requests with the local  *)
(* transaction of each page between them, and upstream may change under it. *)
(* Two syncs may run at once (the refresh-encora job and the one inside     *)
(* refresh-recording-full), and handlers run beside them.  A page is        *)
(* written in one transaction; the external_ids rows follow after it.       *)
(***************************************************************************)
EXTENDS Integers, FiniteSets

CONSTANTS
  Recs,         \* recording ids; upstream lists them in id order
  Formats,      \* release-format strings
  NotIn,        \* not in the collection
  LocalFormat,  \* ComputeFormatString of each recording's versions
  NoFile,       \* its value when the recording has no version
  Syncs,        \* the callers of Sync
  Handlers,     \* requests and job steps that touch one recording each
  KindOf,       \* what each handler does
  Target,       \* the recording it is asked to touch
  PageSize,
  Budget,       \* requests upstream allows per window (30 in production)
  BurstReserve, \* the floor at which a sync stops (2 by default)
  MayFail,      \* may a request or a local write fail?
  MaxEdits,     \* bound on changes made on the Encora site itself
  MaxCrashes    \* bound on restarts

HandlerKinds == {"addCollection", "removeCollection", "addWants", "removeWants",
                 "apply", "detail"}
Wanted == "wanted"

ASSUME MirrorAssumption ==
  /\ IsFiniteSet(Recs) /\ Recs \subseteq Nat
  /\ NotIn \notin Formats /\ NoFile \notin Formats
  /\ LocalFormat \in [Recs -> Formats \cup {NoFile}]
  /\ KindOf \in [Handlers -> HandlerKinds]
  /\ Target \in [Handlers -> Recs]
  /\ PageSize \in Nat \ {0}
  /\ Budget \in Nat /\ BurstReserve \in Nat
  /\ MayFail \in BOOLEAN
  /\ MaxEdits \in Nat /\ MaxCrashes \in Nat

VARIABLES
  rCol, rWants,   \* upstream: format of each collected recording; wants list
  budget,         \* requests left in the current rate-limit window
  col, wants,     \* local collection rows (with format) and wants rows
  known, ext,     \* local recordings rows; those with an external_ids row
  pc, phase, page, fetched, remaining, quiet, result,   \* each sync
  hpc, move,                                            \* each handler
  seen,           \* history: <<r, format>> and <<r, Wanted>> ever upstream
  edits, crashes

upstream == <<rCol, rWants>>
rows == <<col, wants, known, ext>>
syncVars == <<pc, phase, page, fetched, remaining, quiet, result>>
handlerVars == <<hpc, move>>
vars == <<upstream, budget, rows, syncVars, handlerVars, seen, edits, crashes>>

Collected == {r \in Recs : rCol[r] # NotIn}
Moves == {"none", "collect", "format", "uncollect", "want", "unwant"}

TypeOK ==
  /\ rCol \in [Recs -> Formats \cup {NotIn, NoFile}] /\ rWants \subseteq Recs
  /\ budget \in 0 .. Budget
  /\ col \in [Recs -> Formats \cup {NotIn, NoFile}] /\ wants \subseteq Recs
  /\ ext \subseteq known /\ known \subseteq Recs
  /\ pc \in [Syncs -> {"idle", "profile", "fetch", "wait", "refetch", "write", "stamp"}]
  /\ phase \in [Syncs -> {"collection", "wants"}]
  /\ \A s \in Syncs : page[s] \in Nat
  /\ \A s \in Syncs : fetched[s].ids \subseteq Recs /\ fetched[s].more \in BOOLEAN
  /\ remaining \in [Syncs -> 0 .. Budget]
  /\ quiet \in [Syncs -> BOOLEAN]
  /\ result \in [Syncs -> {"none", "complete", "bailed", "failed"}]
  /\ hpc \in [Handlers -> {"idle", "push", "mirror", "persist", "stamp", "done"}]
  /\ move \in [Handlers -> Moves]
  /\ edits \in 0 .. MaxEdits /\ crashes \in 0 .. MaxCrashes

NoPage == [ids |-> {}, format |-> [r \in Recs |-> NotIn], more |-> FALSE]
Seen(c, w) == {<<r, c[r]>> : r \in {q \in Recs : c[q] # NotIn}} \cup (w \X {Wanted})

(* A first start: an empty database, any lists upstream. *)
Init ==
  /\ rCol \in [Recs -> Formats \cup {NotIn}] /\ rWants \in SUBSET Recs
  /\ budget = Budget
  /\ col = [r \in Recs |-> NotIn] /\ wants = {} /\ known = {} /\ ext = {}
  /\ pc = [s \in Syncs |-> "idle"]
  /\ phase = [s \in Syncs |-> "collection"]
  /\ page = [s \in Syncs |-> 1]
  /\ fetched = [s \in Syncs |-> NoPage]
  /\ remaining = [s \in Syncs |-> 0]
  /\ quiet = [s \in Syncs |-> FALSE]
  /\ result = [s \in Syncs |-> "none"]
  /\ hpc = [h \in Handlers |-> "idle"]
  /\ move = [h \in Handlers |-> "none"]
  /\ seen = Seen(rCol, rWants)
  /\ edits = 0 /\ crashes = 0

-----------------------------------------------------------------------------
(* Upstream, as the client's comments and uses describe it.                 *)

SetUpstream(c, w) ==
  /\ rCol' = c /\ rWants' = w
  /\ seen' = seen \cup Seen(c, w)
  /\ quiet' = [s \in Syncs |-> quiet[s] /\ c = rCol /\ w = rWants]

(* The user edits the lists on the Encora site. *)
SiteEdit ==
  /\ edits < MaxEdits
  /\ edits' = edits + 1
  /\ \E r \in Recs :
       \/ \E f \in Formats \cup {NotIn} :
            f # rCol[r] /\ SetUpstream([rCol EXCEPT ![r] = f], rWants)
       \/ SetUpstream(rCol, IF r \in rWants THEN rWants \ {r} ELSE rWants \cup {r})
  /\ UNCHANGED <<budget, rows, pc, phase, page, fetched, remaining, result,
                 handlerVars, crashes>>

(* A new rate-limit window. *)
NewWindow ==
  /\ budget < Budget
  /\ budget' = Budget
  /\ UNCHANGED <<upstream, rows, syncVars, handlerVars, seen, edits, crashes>>

(* One page of a list: its ids, the formats they have, whether more follow. *)
List(ph) == IF ph = "collection" THEN Collected ELSE rWants
Place(ph, r) == Cardinality({q \in List(ph) : q < r})
PageOf(ph, k) ==
  [ids    |-> {r \in List(ph) : (k - 1) * PageSize <= Place(ph, r) /\ Place(ph, r) < k * PageSize},
   format |-> rCol,
   more   |-> k * PageSize < Cardinality(List(ph))]

-----------------------------------------------------------------------------
(* Sync.                                                                    *)

Goto(s, step) == pc' = [pc EXCEPT ![s] = step]
Finish(s, r) ==
  /\ Goto(s, "idle")
  /\ result' = [result EXCEPT ![s] = r]
Spend == budget' = budget - 1

Start(s) ==
  /\ pc[s] = "idle"
  /\ Goto(s, "profile")
  /\ phase' = [phase EXCEPT ![s] = "collection"]
  /\ page' = [page EXCEPT ![s] = 1]
  /\ quiet' = [quiet EXCEPT ![s] = TRUE]
  /\ result' = [result EXCEPT ![s] = "none"]
  /\ UNCHANGED <<upstream, budget, rows, fetched, remaining, handlerVars, seen, edits, crashes>>

(* syncProfile: advisory, a failure is only logged. *)
Profile(s) ==
  /\ pc[s] = "profile"
  /\ IF budget > 0 THEN Spend ELSE UNCHANGED budget
  /\ Goto(s, "fetch")
  /\ UNCHANGED <<upstream, rows, phase, page, fetched, remaining, quiet, result,
                 handlerVars, seen, edits, crashes>>

(* One page request; a second 429, or any other error, ends the sync. *)
Fetch(s) ==
  /\ pc[s] \in {"fetch", "refetch"}
  /\ budget > 0
  /\ Spend
  /\ remaining' = [remaining EXCEPT ![s] = budget - 1]
  /\ fetched' = [fetched EXCEPT ![s] = PageOf(phase[s], page[s])]
  /\ Goto(s, "write")
  /\ UNCHANGED <<upstream, rows, phase, page, quiet, result, handlerVars, seen, edits, crashes>>

FetchLimited(s) ==
  /\ budget = 0
  /\ \/ pc[s] = "fetch" /\ Goto(s, "wait") /\ UNCHANGED result
     \/ pc[s] = "refetch" /\ Finish(s, "failed")
  /\ UNCHANGED <<upstream, budget, rows, phase, page, fetched, remaining, quiet,
                 handlerVars, seen, edits, crashes>>

(* Retry-After has passed. *)
Retry(s) ==
  /\ pc[s] = "wait"
  /\ Goto(s, "refetch")
  /\ UNCHANGED <<upstream, budget, rows, phase, page, fetched, remaining, quiet,
                 result, handlerVars, seen, edits, crashes>>

(* A request, the page's transaction or the external_ids upsert fails.      *)
SyncFails(s) ==
  /\ MayFail
  /\ pc[s] \in {"fetch", "refetch", "write", "stamp"}
  /\ Finish(s, "failed")
  /\ UNCHANGED <<upstream, budget, rows, phase, page, fetched, remaining, quiet,
                 handlerVars, seen, edits, crashes>>

(* Mutant: the membership row is written without its recording. *)
WritePageMembershipOnly(s) ==
  /\ pc[s] = "write"
  /\ LET p == fetched[s] IN
       IF phase[s] = "collection"
         THEN /\ col' = [r \in Recs |-> IF r \in p.ids THEN p.format[r] ELSE col[r]]
              /\ UNCHANGED wants
         ELSE wants' = wants \cup p.ids /\ UNCHANGED col
  /\ Goto(s, "stamp")
  /\ UNCHANGED <<upstream, budget, known, ext, phase, page, fetched, remaining,
                 quiet, result, handlerVars, seen, edits, crashes>>

(* Mutant: a recording already known locally is not written again. *)
WritePageSkippingKnown(s) ==
  /\ pc[s] = "write"
  /\ LET p == fetched[s] IN
       /\ known' = known \cup p.ids
       /\ IF phase[s] = "collection"
            THEN /\ col' = [r \in Recs |-> IF r \in p.ids \ known THEN p.format[r] ELSE col[r]]
                 /\ UNCHANGED wants
            ELSE wants' = wants \cup p.ids /\ UNCHANGED col
  /\ Goto(s, "stamp")
  /\ UNCHANGED <<upstream, budget, ext, phase, page, fetched, remaining, quiet,
                 result, handlerVars, seen, edits, crashes>>

(* writeCollectionPage / writeWantsPage: upserts only, in one transaction. *)
WritePage(s) ==
  /\ pc[s] = "write"
  /\ LET p == fetched[s] IN
       /\ known' = known \cup p.ids
       /\ IF phase[s] = "collection"
            THEN /\ col' = [r \in Recs |-> IF r \in p.ids THEN p.format[r] ELSE col[r]]
                 /\ UNCHANGED wants
            ELSE wants' = wants \cup p.ids /\ UNCHANGED col
  /\ Goto(s, "stamp")
  /\ UNCHANGED <<upstream, budget, ext, phase, page, fetched, remaining, quiet,
                 result, handlerVars, seen, edits, crashes>>

(* upsertEncoraExternalIDs, after the page's transaction has committed.     *)
StampPage(s) == ext' = ext \cup fetched[s].ids

BelowFloor(s) == remaining[s] < BurstReserve   \* mutant: off by one
AtFloor(s) == remaining[s] <= BurstReserve

NeverMore(s) == FALSE      \* mutant: the first page is taken to be the last
More(s) == fetched[s].more

(* The end of a page: its external ids, then bail at the floor, or go on to *)
(* the next page, the wants list or the end.                                *)
NextPage(s) ==
  /\ pc[s] = "stamp"
  /\ StampPage(s)
  /\ \/ AtFloor(s) /\ Finish(s, "bailed") /\ UNCHANGED <<phase, page>>
     \/ /\ ~AtFloor(s) /\ More(s)
        /\ page' = [page EXCEPT ![s] = @ + 1]
        /\ Goto(s, "fetch") /\ UNCHANGED <<phase, result>>
     \/ /\ ~AtFloor(s) /\ ~More(s) /\ phase[s] = "collection"
        /\ phase' = [phase EXCEPT ![s] = "wants"]
        /\ page' = [page EXCEPT ![s] = 1]
        /\ Goto(s, "fetch") /\ UNCHANGED result
     \/ /\ ~AtFloor(s) /\ ~More(s) /\ phase[s] = "wants"
        /\ Finish(s, "complete") /\ UNCHANGED <<phase, page>>
  /\ fetched' = [fetched EXCEPT ![s] = NoPage]
  /\ UNCHANGED <<upstream, budget, col, wants, known, remaining, quiet,
                 handlerVars, seen, edits, crashes>>

-----------------------------------------------------------------------------
(* Handlers: check the local rows, push upstream, mirror locally.           *)

HGoto(h, step) == hpc' = [hpc EXCEPT ![h] = step]
InCollection(r) == col[r] # NotIn
HasFile(r) == LocalFormat[r] # NoFile

(* What each handler decides to push, from the local rows alone; a handler  *)
(* whose check fails answers 409 and is done.                               *)
MoveFor(h) ==
  LET r == Target[h] IN
    CASE KindOf[h] = "addCollection" /\ ~InCollection(r) -> "collect"
      [] KindOf[h] = "removeCollection" /\ InCollection(r) -> "uncollect"
      [] KindOf[h] = "addWants" /\ ~InCollection(r) /\ r \notin wants -> "want"
      [] KindOf[h] = "removeWants" /\ r \in wants -> "unwant"
      [] KindOf[h] = "apply" /\ HasFile(r) /\ ~InCollection(r) -> "collect"
      [] KindOf[h] = "apply" /\ HasFile(r) /\ InCollection(r)
           /\ col[r] # LocalFormat[r] -> "format"
      [] OTHER -> "none"

Validate(h) ==
  /\ hpc[h] = "idle"
  /\ KindOf[h] # "detail"
  /\ move' = [move EXCEPT ![h] = MoveFor(h)]
  /\ HGoto(h, IF MoveFor(h) = "none" THEN "done" ELSE "push")
  /\ UNCHANGED <<upstream, budget, rows, syncVars, seen, edits, crashes>>

(* What upstream accepts, and what it then does; a collect moves the        *)
(* recording off the wants list and carries the local format.               *)
Accepted(h) ==
  CASE move[h] = "collect"   -> TRUE
    [] move[h] \in {"format", "uncollect"} -> rCol[Target[h]] # NotIn
    [] move[h] = "want"      -> TRUE
    [] move[h] = "unwant"    -> Target[h] \in rWants

Effect(h) ==
  LET r == Target[h] IN
    CASE move[h] = "collect"   -> SetUpstream([rCol EXCEPT ![r] = LocalFormat[r]], rWants \ {r})
      [] move[h] = "format"    -> SetUpstream([rCol EXCEPT ![r] = LocalFormat[r]], rWants)
      [] move[h] = "uncollect" -> SetUpstream([rCol EXCEPT ![r] = NotIn], rWants)
      [] move[h] = "want"      -> SetUpstream(rCol, rWants \cup {r})
      [] move[h] = "unwant"    -> SetUpstream(rCol, rWants \ {r})

(* The push succeeds; only a collect or a format push has a local mirror.   *)
Push(h) ==
  /\ hpc[h] = "push" /\ budget > 0 /\ Accepted(h)
  /\ Spend
  /\ Effect(h)
  /\ HGoto(h, IF move[h] \in {"collect", "format"} THEN "mirror" ELSE "done")
  /\ UNCHANGED <<rows, pc, phase, page, fetched, remaining, result, move,
                 edits, crashes>>

(* Mutant: the apply batch mirrors a push that failed. *)
PushFailsMirroring(h) ==
  /\ hpc[h] = "push"
  /\ MayFail \/ budget = 0 \/ ~Accepted(h)
  /\ HGoto(h, IF move[h] = "collect" THEN "mirror" ELSE "done")
  /\ UNCHANGED <<upstream, budget, rows, syncVars, move, seen, edits, crashes>>

(* It fails (429, 404, an outage).  apply stops there; the add-to-collection *)
(* handler goes on to its local upsert all the same, because callDestructive *)
(* returns the error response it has written, not an error.                 *)
PushFails(h) ==
  /\ hpc[h] = "push"
  /\ MayFail \/ budget = 0 \/ ~Accepted(h)
  /\ HGoto(h, IF KindOf[h] = "addCollection" THEN "mirror" ELSE "done")
  /\ UNCHANGED <<upstream, budget, rows, syncVars, move, seen, edits, crashes>>

(* The answer is lost after upstream has acted: to the handler a failure.   *)
PushLost(h) ==
  /\ hpc[h] = "push" /\ MayFail /\ budget > 0 /\ Accepted(h)
  /\ Spend
  /\ Effect(h)
  /\ HGoto(h, IF KindOf[h] = "addCollection" THEN "mirror" ELSE "done")
  /\ UNCHANGED <<rows, pc, phase, page, fetched, remaining, result, move,
                 edits, crashes>>

(* UpsertCollectionEntry after a collect, SetCollectionFormat (an update    *)
(* that finds no row when there is none) after a format push; a failure is  *)
(* ignored.                                                                 *)
MirrorLocally(h) ==
  /\ hpc[h] = "mirror"
  /\ LET r == Target[h] IN
       \/ /\ move[h] = "collect" \/ InCollection(r)
          /\ col' = [col EXCEPT ![r] = LocalFormat[r]]
       \/ /\ MayFail \/ (move[h] = "format" /\ ~InCollection(r))
          /\ UNCHANGED col
  /\ HGoto(h, "done")
  /\ UNCHANGED <<upstream, budget, wants, known, ext, syncVars, move, seen, edits, crashes>>

(* The recording's own page: refreshFromEncora, or the scanner meeting an   *)
(* id it does not know.  PersistRecording writes no membership.             *)
FetchDetail(h) ==
  /\ hpc[h] = "idle" /\ KindOf[h] = "detail"
  /\ \/ budget > 0 /\ Spend /\ HGoto(h, "persist")
     \/ (MayFail \/ budget = 0) /\ HGoto(h, "done") /\ UNCHANGED budget
  /\ UNCHANGED <<upstream, rows, syncVars, move, seen, edits, crashes>>

PersistRecording(h) ==
  /\ hpc[h] = "persist"
  /\ known' = known \cup {Target[h]}
  /\ HGoto(h, "stamp")
  /\ UNCHANGED <<upstream, budget, col, wants, ext, syncVars, move, seen, edits, crashes>>

StampDetail(h) ==
  /\ hpc[h] = "stamp"
  /\ \/ ext' = ext \cup {Target[h]}
     \/ MayFail /\ UNCHANGED ext
  /\ HGoto(h, "done")
  /\ UNCHANGED <<upstream, budget, col, wants, known, syncVars, move, seen, edits, crashes>>

(* The server stops dead: syncs and handlers in progress are gone.          *)
CrashRestart ==
  /\ crashes < MaxCrashes
  /\ crashes' = crashes + 1
  /\ pc' = [s \in Syncs |-> "idle"]
  /\ result' = [s \in Syncs |-> "none"]
  /\ fetched' = [s \in Syncs |-> NoPage]
  /\ hpc' = [h \in Handlers |-> IF hpc[h] = "idle" THEN "idle" ELSE "done"]
  /\ UNCHANGED <<upstream, budget, rows, phase, page, remaining, quiet,
                 move, seen, edits>>

SyncStep(s) ==
  \/ Profile(s) \/ Fetch(s) \/ FetchLimited(s) \/ Retry(s)
  \/ WritePage(s) \/ NextPage(s)
HandlerStep(h) ==
  \/ Validate(h) \/ Push(h) \/ PushFails(h) \/ PushLost(h) \/ MirrorLocally(h)
  \/ FetchDetail(h) \/ PersistRecording(h) \/ StampDetail(h)

Next ==
  \/ \E s \in Syncs : Start(s) \/ SyncStep(s) \/ SyncFails(s)
  \/ \E h \in Handlers : HandlerStep(h)
  \/ SiteEdit \/ NewWindow \/ CrashRestart

Spec == Init /\ [][Next]_vars

(* The scheduler starts a sync every interval and a started one goes on; a  *)
(* request in progress always returns; rate-limit windows pass.             *)
Fairness ==
  /\ \A s \in Syncs : WF_vars(Start(s)) /\ WF_vars(SyncStep(s))
  /\ WF_vars(NewWindow)
FairSpec == Spec /\ Fairness

-----------------------------------------------------------------------------
(* A local row never claims what upstream never said: every collection row  *)
(* has carried that format upstream, every wants row was on the wants list  *)
(* (a sync copies pages, apply mirrors a push only once it has succeeded,   *)
(* UpsertCollectionEntry is "used after a successful push").                *)
RowsComeFromUpstream ==
  /\ \A r \in Recs : InCollection(r) => <<r, col[r]>> \in seen
  /\ wants \X {Wanted} \subseteq seen

(* A sync that ran to the end while upstream stood still has everything     *)
(* upstream has, with the current formats, whatever failed or crashed       *)
(* before it (syncCollection, syncWants).                                   *)
CompleteSyncMirrors ==
  \A s \in Syncs : result[s] = "complete" /\ quiet[s] =>
    /\ \A r \in Collected : col[r] = rCol[r]
    /\ rWants \subseteq wants

(* With the floor at least the number of other requests in progress, a sync *)
(* past its first page never runs into the limit: the headers it paces      *)
(* itself by are enough (Sync's pause-or-bail policy).                      *)
FloorSpares429 ==
  \A s \in Syncs : pc[s] = "wait" => phase[s] = "collection" /\ page[s] = 1

(* Repeated syncs get everything upstream has into the local tables, with   *)
(* its external id, whatever was edited meanwhile and wherever a crash cut  *)
(* one short: the lists are read "to exhaustion".                           *)
EventuallyMirrored ==
  <>[](/\ \A r \in Collected : col[r] = rCol[r]
       /\ rWants \subseteq wants
       /\ Collected \cup rWants \subseteq ext)
=============================================================================
