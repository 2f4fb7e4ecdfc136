------------------------- MODULE EncoraMirrorProofs -------------------------
(***************************************************************************)
(* Safety of the Encora mirror, for any recordings, formats, page size,     *)
(* window, floor, syncs and handlers:                                       *)
(*                                                                         *)
(*   TypeCorrect              types; no external_ids row without recording  *)
(*   RowsComeFromUpstreamHolds  while nobody adds to the collection         *)
(*   CompleteSyncMirrorsHolds   one sync, no handler that mirrors a push    *)
(*   FloorSpares429Holds        one sync, no more handlers than the floor   *)
(***************************************************************************)
EXTENDS EncoraMirror, FiniteSetTheorems, TLAPS

FormatOrNot == Formats \cup {NotIn, NoFile}
Pages == [ids : SUBSET Recs, format : [Recs -> FormatOrNot], more : BOOLEAN]

(* A page waits for its external ids only once its recordings are there,    *)
(* and a handler pushes only what its check decided on.                     *)
InStep ==
  /\ \A s \in Syncs : pc[s] = "stamp" => fetched[s].ids \subseteq known
  /\ \A h \in Handlers : hpc[h] = "stamp" => Target[h] \in known
  /\ \A h \in Handlers : hpc[h] = "push" => move[h] # "none"

TypeInv ==
  /\ TypeOK
  /\ fetched \in [Syncs -> Pages]
  /\ page \in [Syncs -> Nat]
  /\ InStep

(* PageOf returns a page; the page an idle sync holds is one too.           *)
LEMMA PagesAreTyped ==
  ASSUME rCol \in [Recs -> FormatOrNot], rWants \subseteq Recs
  PROVE  /\ NoPage \in Pages
         /\ \A ph, k : PageOf(ph, k) \in Pages
<1>1. NoPage \in Pages
  BY DEF NoPage, Pages, FormatOrNot
<1>2. ASSUME NEW ph, NEW k PROVE PageOf(ph, k) \in Pages
  <2>1. {r \in List(ph) : (k - 1) * PageSize <= Place(ph, r) /\ Place(ph, r) < k * PageSize} \subseteq Recs
    BY DEF List, Collected
  <2>2. (k * PageSize < Cardinality(List(ph))) \in BOOLEAN
    OBVIOUS
  <2> QED  BY <2>1, <2>2 DEF PageOf, Pages
<1> QED  BY <1>1, <1>2

(* What a handler pushes is one of the moves, and "none" ends it.           *)
LEMMA MoveForTyped ==
  ASSUME NEW h \in Handlers
  PROVE  MoveFor(h) \in Moves
BY DEF MoveFor, Moves

(* A push leaves well-typed lists upstream and disturbs no more than quiet. *)
LEMMA EffectTyped ==
  ASSUME TypeInv, NEW h \in Handlers, hpc[h] = "push", Effect(h)
  PROVE  /\ rCol' \in [Recs -> FormatOrNot] /\ rWants' \subseteq Recs
         /\ quiet' \in [Syncs -> BOOLEAN]
<1>1. Target[h] \in Recs /\ LocalFormat[Target[h]] \in FormatOrNot
  BY MirrorAssumption DEF FormatOrNot
<1>2. move[h] \in Moves \ {"none"}
  BY DEF TypeInv, TypeOK, InStep
<1>3. rCol \in [Recs -> FormatOrNot] /\ rWants \subseteq Recs /\ quiet \in [Syncs -> BOOLEAN]
  BY DEF TypeInv, TypeOK, FormatOrNot
<1>4. NotIn \in FormatOrNot
  BY DEF FormatOrNot
<1>5. CASE move[h] = "collect"
  BY <1>1, <1>3, <1>5 DEF Effect, SetUpstream
<1>6. CASE move[h] = "format"
  BY <1>1, <1>3, <1>6 DEF Effect, SetUpstream
<1>7. CASE move[h] = "uncollect"
  BY <1>1, <1>3, <1>4, <1>7 DEF Effect, SetUpstream
<1>8. CASE move[h] = "want"
  BY <1>1, <1>3, <1>8 DEF Effect, SetUpstream
<1>9. CASE move[h] = "unwant"
  BY <1>1, <1>3, <1>9 DEF Effect, SetUpstream
<1> QED  BY <1>2, <1>5, <1>6, <1>7, <1>8, <1>9 DEF Moves

-----------------------------------------------------------------------------
(* Types.                                                                   *)

LEMMA TypeInvInit == Init => TypeInv
<1> SUFFICES ASSUME Init PROVE TypeInv  OBVIOUS
<1>1. rCol \in [Recs -> FormatOrNot] /\ rWants \subseteq Recs
  BY DEF Init, FormatOrNot
<1>2. NoPage \in Pages
  BY <1>1, PagesAreTyped
<1>3. fetched \in [Syncs -> Pages] /\ page \in [Syncs -> Nat]
  BY <1>2 DEF Init
<1>4. \A s \in Syncs : fetched[s].ids \subseteq Recs /\ fetched[s].more \in BOOLEAN
  BY <1>3 DEF Pages
<1>5. InStep
  BY DEF Init, InStep
<1>6. 0 \in 0 .. Budget /\ Budget \in 0 .. Budget /\ 0 \in 0 .. MaxEdits /\ 0 \in 0 .. MaxCrashes
  BY MirrorAssumption
<1>7. col \in [Recs -> FormatOrNot]
  BY DEF Init, FormatOrNot
<1> QED  BY <1>1, <1>3, <1>4, <1>5, <1>6, <1>7 DEF TypeInv, TypeOK, Init, FormatOrNot, Moves

(* One sync's own steps keep the types.                                     *)
LEMMA TypeSync ==
  ASSUME TypeInv, NEW s \in Syncs,
         Start(s) \/ Profile(s) \/ Fetch(s) \/ FetchLimited(s) \/ Retry(s) \/ SyncFails(s)
  PROVE  TypeInv'
<1> USE MirrorAssumption DEF TypeInv, TypeOK, InStep, Goto, Finish, Spend,
        upstream, rows, syncVars, handlerVars
<1>1. CASE Start(s)
  BY <1>1 DEF Start
<1>2. CASE Profile(s)
  BY <1>2 DEF Profile
<1>3. CASE Fetch(s)
  <2>1. PageOf(phase[s], page[s]) \in Pages
    BY PagesAreTyped DEF FormatOrNot
  <2>2. fetched' \in [Syncs -> Pages]
    BY <1>3, <2>1 DEF Fetch
  <2>3. \A t \in Syncs : fetched'[t].ids \subseteq Recs /\ fetched'[t].more \in BOOLEAN
    BY <2>2 DEF Pages
  <2>4. budget' \in 0 .. Budget /\ remaining' \in [Syncs -> 0 .. Budget]
    BY <1>3 DEF Fetch
  <2>5. InStep'
    BY <1>3 DEF Fetch
  <2> QED  BY <1>3, <2>2, <2>3, <2>4, <2>5 DEF Fetch
<1>4. CASE FetchLimited(s)
  BY <1>4 DEF FetchLimited
<1>5. CASE Retry(s)
  BY <1>5 DEF Retry
<1>6. CASE SyncFails(s)
  BY <1>6 DEF SyncFails
<1> QED  BY <1>1, <1>2, <1>3, <1>4, <1>5, <1>6

LEMMA TypeWritePage ==
  ASSUME TypeInv, NEW s \in Syncs, WritePage(s)
  PROVE  TypeInv'
<1>1. fetched[s] \in Pages
  BY DEF TypeInv
<1>2. /\ known' = known \cup fetched[s].ids
      /\ known \subseteq known' /\ known' \subseteq Recs
  BY <1>1 DEF WritePage, TypeInv, TypeOK, Pages
<1>3. col' \in [Recs -> FormatOrNot]
  <2>1. col \in [Recs -> FormatOrNot] /\ fetched[s].format \in [Recs -> FormatOrNot]
    BY <1>1 DEF TypeInv, TypeOK, Pages, FormatOrNot
  <2> QED  BY <2>1 DEF WritePage
<1>4. wants' \subseteq Recs
  BY <1>1 DEF WritePage, TypeInv, TypeOK, Pages
<1>5. pc' = [pc EXCEPT ![s] = "stamp"]
  BY DEF WritePage, Goto
<1>6. InStep'
  BY <1>2, <1>5 DEF InStep, WritePage, TypeInv, TypeOK, handlerVars
<1> QED  BY <1>2, <1>3, <1>4, <1>5, <1>6
         DEF TypeInv, TypeOK, WritePage, FormatOrNot, upstream, handlerVars

LEMMA TypeNextPage ==
  ASSUME TypeInv, NEW s \in Syncs, NextPage(s)
  PROVE  TypeInv'
<1>1. NoPage \in Pages
  BY PagesAreTyped DEF TypeInv, TypeOK, FormatOrNot
<1>2. fetched' \in [Syncs -> Pages]
  BY <1>1 DEF NextPage, TypeInv
<1>3. \A t \in Syncs : fetched'[t].ids \subseteq Recs /\ fetched'[t].more \in BOOLEAN
  BY <1>2 DEF Pages
<1>4. ext' \subseteq known
  BY DEF NextPage, StampPage, TypeInv, TypeOK, InStep
<1>5. pc' \in [Syncs -> {"idle", "profile", "fetch", "wait", "refetch", "write", "stamp"}]
      /\ pc'[s] # "stamp" /\ \A t \in Syncs \ {s} : pc'[t] = pc[t]
  BY DEF NextPage, Goto, Finish, TypeInv, TypeOK
<1>6. page' \in [Syncs -> Nat] /\ phase' \in [Syncs -> {"collection", "wants"}]
      /\ result' \in [Syncs -> {"none", "complete", "bailed", "failed"}]
  <2>1. page[s] + 1 \in Nat /\ 1 \in Nat
    BY DEF TypeInv
  <2>2. page' = page \/ page' = [page EXCEPT ![s] = page[s] + 1] \/ page' = [page EXCEPT ![s] = 1]
    BY DEF NextPage
  <2>3. page' \in [Syncs -> Nat]
    BY <2>1, <2>2 DEF TypeInv
  <2>4. phase' = phase \/ phase' = [phase EXCEPT ![s] = "wants"]
    BY DEF NextPage
  <2>5. \/ result' = result
        \/ \E r \in {"complete", "bailed"} : result' = [result EXCEPT ![s] = r]
    BY DEF NextPage, Finish
  <2> QED  BY <2>3, <2>4, <2>5 DEF TypeInv, TypeOK
<1>7. InStep'
  <2>1. \A t \in Syncs : pc'[t] = "stamp" => fetched'[t] = fetched[t] /\ pc[t] = "stamp"
    BY <1>5 DEF NextPage, TypeInv
  <2> QED  BY <2>1 DEF InStep, NextPage, TypeInv, handlerVars
<1> QED  BY <1>2, <1>3, <1>4, <1>5, <1>6, <1>7
         DEF TypeInv, TypeOK, NextPage, upstream, handlerVars

LEMMA TypeHandler ==
  ASSUME TypeInv, NEW h \in Handlers, HandlerStep(h)
  PROVE  TypeInv'
<1>a. Target[h] \in Recs /\ LocalFormat[Target[h]] \in FormatOrNot
  BY MirrorAssumption DEF FormatOrNot
<1> USE MirrorAssumption DEF TypeInv, TypeOK, InStep, HGoto, Spend,
        upstream, rows, syncVars, handlerVars
<1>1. CASE Validate(h)
  BY <1>1, MoveForTyped DEF Validate
<1>2. CASE Push(h)
  <2>1. /\ rCol' \in [Recs -> FormatOrNot] /\ rWants' \subseteq Recs
        /\ quiet' \in [Syncs -> BOOLEAN]
    BY <1>2, EffectTyped DEF Push
  <2> QED  BY <1>2, <2>1 DEF Push, FormatOrNot
<1>3. CASE PushFails(h)
  BY <1>3 DEF PushFails
<1>4. CASE PushLost(h)
  <2>1. /\ rCol' \in [Recs -> FormatOrNot] /\ rWants' \subseteq Recs
        /\ quiet' \in [Syncs -> BOOLEAN]
    BY <1>4, EffectTyped DEF PushLost
  <2> QED  BY <1>4, <2>1 DEF PushLost, FormatOrNot
<1>5. CASE MirrorLocally(h)
  BY <1>5, <1>a DEF MirrorLocally, FormatOrNot
<1>6. CASE FetchDetail(h)
  BY <1>6 DEF FetchDetail
<1>7. CASE PersistRecording(h)
  BY <1>7, <1>a DEF PersistRecording
<1>8. CASE StampDetail(h)
  BY <1>8, <1>a DEF StampDetail
<1> QED  BY <1>1, <1>2, <1>3, <1>4, <1>5, <1>6, <1>7, <1>8 DEF HandlerStep

LEMMA TypeWorld ==
  ASSUME TypeInv, SiteEdit \/ NewWindow \/ CrashRestart
  PROVE  TypeInv'
<1> USE MirrorAssumption DEF TypeInv, TypeOK, InStep, upstream, rows, syncVars, handlerVars
<1>1. CASE SiteEdit
  <2>1. PICK r \in Recs :
          \/ \E f \in Formats \cup {NotIn} :
               f # rCol[r] /\ SetUpstream([rCol EXCEPT ![r] = f], rWants)
          \/ SetUpstream(rCol, IF r \in rWants THEN rWants \ {r} ELSE rWants \cup {r})
    BY <1>1 DEF SiteEdit
  <2>a. rCol \in [Recs -> FormatOrNot] /\ \A f \in Formats \cup {NotIn} : f \in FormatOrNot
    BY DEF FormatOrNot
  <2>b. ASSUME NEW c, NEW w, SetUpstream(c, w) PROVE quiet' \in [Syncs -> BOOLEAN]
    BY <2>b DEF SetUpstream
  <2>2. rCol' \in [Recs -> FormatOrNot] /\ rWants' \subseteq Recs /\ quiet' \in [Syncs -> BOOLEAN]
    <3>1. CASE \E f \in Formats \cup {NotIn} :
                 f # rCol[r] /\ SetUpstream([rCol EXCEPT ![r] = f], rWants)
      BY <2>a, <2>b, <3>1 DEF SetUpstream
    <3>2. CASE SetUpstream(rCol, IF r \in rWants THEN rWants \ {r} ELSE rWants \cup {r})
      BY <2>a, <2>b, <3>2 DEF SetUpstream
    <3> QED  BY <2>1, <3>1, <3>2
  <2> QED  BY <1>1, <2>2 DEF SiteEdit, FormatOrNot
<1>2. CASE NewWindow
  BY <1>2 DEF NewWindow
<1>3. CASE CrashRestart
  <2>1. NoPage \in Pages
    BY PagesAreTyped DEF FormatOrNot
  <2>2. fetched' \in [Syncs -> Pages]
    BY <1>3, <2>1 DEF CrashRestart
  <2>3. \A t \in Syncs : fetched'[t].ids \subseteq Recs /\ fetched'[t].more \in BOOLEAN
    BY <2>2 DEF Pages
  <2>4. InStep'
    BY <1>3 DEF CrashRestart
  <2> QED  BY <1>3, <2>2, <2>3, <2>4 DEF CrashRestart
<1> QED  BY <1>1, <1>2, <1>3

LEMMA TypeInvInductive == TypeInv /\ [Next]_vars => TypeInv'
<1> SUFFICES ASSUME TypeInv, [Next]_vars PROVE TypeInv'  OBVIOUS
<1>1. CASE UNCHANGED vars
  BY <1>1 DEF TypeInv, TypeOK, InStep, vars, upstream, rows, syncVars, handlerVars
<1>2. CASE Next
  <2>1. ASSUME NEW s \in Syncs, Start(s) \/ SyncStep(s) \/ SyncFails(s) PROVE TypeInv'
    BY <2>1, TypeSync, TypeWritePage, TypeNextPage DEF SyncStep
  <2> QED  BY <1>2, <2>1, TypeHandler, TypeWorld DEF Next
<1> QED  BY <1>1, <1>2

LEMMA TypeInvHolds == Spec => []TypeInv
BY TypeInvInit, TypeInvInductive, PTL DEF Spec

(* Every reachable state is well typed; in particular an external_ids row   *)
(* never names a recording that is not there, although it is written after  *)
(* the page's transaction (upsertEncoraExternalIDs).                        *)
THEOREM TypeCorrect == Spec => []TypeOK
<1>1. TypeInv => TypeOK
  BY DEF TypeInv
<1> QED  BY <1>1, TypeInvHolds, PTL

-----------------------------------------------------------------------------
(* Local rows come from upstream.                                           *)

(* Nobody adds to the collection: that handler mirrors a push which failed. *)
NoAdds == \A h \in Handlers : KindOf[h] # "addCollection"

PageSeen(s) ==
  \A r \in fetched[s].ids :
    <<r, IF phase[s] = "collection" THEN fetched[s].format[r] ELSE Wanted>> \in seen

(* What is on its way into the rows has been upstream, and a format that is *)
(* pushed is that of a recording with files.                                *)
OnTheirWay ==
  /\ \A s \in Syncs : pc[s] = "write" => PageSeen(s)
  /\ \A h \in Handlers : hpc[h] = "push" /\ move[h] \in {"collect", "format"} => HasFile(Target[h])
  /\ \A h \in Handlers : hpc[h] = "mirror" => <<Target[h], LocalFormat[Target[h]]>> \in seen

SeenInv ==
  /\ Seen(rCol, rWants) \subseteq seen
  /\ RowsComeFromUpstream
  /\ OnTheirWay

(* A step that begins no write, push or mirror and leaves the rows alone.   *)
LEMMA SeenKeeps ==
  ASSUME SeenInv, seen \subseteq seen', Seen(rCol, rWants)' \subseteq seen',
         UNCHANGED <<col, wants>>,
         \A t \in Syncs : pc'[t] = "write" =>
            pc[t] = "write" /\ fetched'[t] = fetched[t] /\ phase'[t] = phase[t],
         \A g \in Handlers : /\ hpc'[g] = "push" => hpc[g] = "push" /\ move'[g] = move[g]
                             /\ hpc'[g] = "mirror" => hpc[g] = "mirror"
  PROVE  SeenInv'
<1>1. RowsComeFromUpstream'
  BY DEF SeenInv, RowsComeFromUpstream, InCollection
<1>2. OnTheirWay'
  <2>1. \A t \in Syncs : pc'[t] = "write" => PageSeen(t)'
    BY DEF SeenInv, OnTheirWay, PageSeen
  <2>2. \A g \in Handlers : hpc'[g] = "push" /\ move'[g] \in {"collect", "format"} => HasFile(Target[g])'
    BY DEF SeenInv, OnTheirWay, HasFile
  <2>3. \A g \in Handlers : hpc'[g] = "mirror" => <<Target[g], LocalFormat[Target[g]]>> \in seen'
    BY DEF SeenInv, OnTheirWay
  <2> QED  BY <2>1, <2>2, <2>3 DEF OnTheirWay
<1> QED  BY <1>1, <1>2 DEF SeenInv

(* The history only grows, and holds what upstream says.                    *)
LEMMA HistoryGrows ==
  ASSUME SeenInv, NEW c, NEW w, SetUpstream(c, w)
  PROVE  seen \subseteq seen' /\ Seen(rCol, rWants)' \subseteq seen'
<1>1. Seen(rCol, rWants)' = Seen(c, w)
  BY DEF SetUpstream, Seen
<1> QED  BY <1>1 DEF SetUpstream

LEMMA EffectGrows ==
  ASSUME SeenInv, TypeInv, NEW h \in Handlers, hpc[h] = "push", Effect(h)
  PROVE  /\ seen \subseteq seen' /\ Seen(rCol, rWants)' \subseteq seen'
         /\ move[h] \in {"collect", "format"} =>
              <<Target[h], LocalFormat[Target[h]]>> \in seen'
<1>1. move[h] \in Moves \ {"none"}
  BY DEF TypeInv, TypeOK, InStep
<1>2. \E c, w : SetUpstream(c, w)
  BY <1>1 DEF Effect, Moves
<1>3. seen \subseteq seen' /\ Seen(rCol, rWants)' \subseteq seen'
  BY <1>2, HistoryGrows
<1>4. ASSUME move[h] \in {"collect", "format"}
      PROVE  <<Target[h], LocalFormat[Target[h]]>> \in seen'
  <2>1. rCol' = [rCol EXCEPT ![Target[h]] = LocalFormat[Target[h]]]
    BY <1>4 DEF Effect, SetUpstream
  <2>2. Target[h] \in Recs /\ LocalFormat[Target[h]] # NotIn
    BY <1>4, MirrorAssumption DEF SeenInv, OnTheirWay, HasFile
  <2>3. rCol \in [Recs -> FormatOrNot]
    BY DEF TypeInv, TypeOK, FormatOrNot
  <2>4. rCol'[Target[h]] = LocalFormat[Target[h]]
    BY <2>1, <2>2, <2>3
  <2>5. <<Target[h], rCol'[Target[h]]>> \in Seen(rCol, rWants)'
    BY <2>2, <2>4 DEF Seen
  <2> QED  BY <1>3, <2>4, <2>5
<1> QED  BY <1>3, <1>4

LEMMA SeenInit == Init => SeenInv
<1> SUFFICES ASSUME Init PROVE SeenInv  OBVIOUS
<1>1. Seen(rCol, rWants) \subseteq seen
  BY DEF Init
<1>2. RowsComeFromUpstream
  BY DEF Init, RowsComeFromUpstream, InCollection
<1>3. OnTheirWay
  BY DEF Init, OnTheirWay
<1> QED  BY <1>1, <1>2, <1>3 DEF SeenInv

LEMMA SeenWritePage ==
  ASSUME TypeInv, SeenInv, NEW s \in Syncs, WritePage(s)
  PROVE  SeenInv'
<1>1. PageSeen(s)
  BY DEF SeenInv, OnTheirWay, WritePage
<1>2. seen' = seen /\ rCol' = rCol /\ rWants' = rWants
  BY DEF WritePage, upstream
<1>3. RowsComeFromUpstream'
  <2>1. CASE phase[s] = "collection"
    <3>1. /\ col' = [r \in Recs |-> IF r \in fetched[s].ids THEN fetched[s].format[r] ELSE col[r]]
          /\ wants' = wants
      BY <2>1 DEF WritePage
    <3>2. \A r \in fetched[s].ids : <<r, fetched[s].format[r]>> \in seen
      BY <1>1, <2>1 DEF PageSeen
    <3>3. ASSUME NEW r \in Recs, col'[r] # NotIn PROVE <<r, col'[r]>> \in seen
      BY <3>1, <3>2, <3>3 DEF SeenInv, RowsComeFromUpstream, InCollection
    <3> QED  BY <1>2, <3>1, <3>3 DEF SeenInv, RowsComeFromUpstream, InCollection
  <2>2. CASE phase[s] = "wants"
    <3>1. wants' = wants \cup fetched[s].ids /\ col' = col
      BY <2>2 DEF WritePage
    <3>2. \A r \in fetched[s].ids : <<r, Wanted>> \in seen
      BY <1>1, <2>2 DEF PageSeen
    <3> QED  BY <1>2, <3>1, <3>2 DEF SeenInv, RowsComeFromUpstream, InCollection
  <2> QED  BY <2>1, <2>2 DEF TypeInv, TypeOK
<1>4. Seen(rCol, rWants)' \subseteq seen'
  BY <1>2 DEF SeenInv, Seen
<1>5. OnTheirWay'
  <2>1. \A t \in Syncs : pc'[t] = "write" => pc[t] = "write"
    BY DEF WritePage, Goto, TypeInv, TypeOK
  <2>2. /\ UNCHANGED <<fetched, phase, hpc, move, seen>>
    BY DEF WritePage, handlerVars
  <2>3. \A t \in Syncs : pc'[t] = "write" => PageSeen(t)'
    BY <2>1, <2>2 DEF SeenInv, OnTheirWay, PageSeen
  <2> QED  BY <2>2, <2>3 DEF SeenInv, OnTheirWay, HasFile
<1> QED  BY <1>3, <1>4, <1>5 DEF SeenInv

LEMMA SeenFetch ==
  ASSUME TypeInv, SeenInv, NEW s \in Syncs, Fetch(s)
  PROVE  SeenInv'
<1>1. /\ UNCHANGED <<rCol, rWants, col, wants, phase, seen, hpc, move>>
      /\ fetched' = [fetched EXCEPT ![s] = PageOf(phase[s], page[s])]
      /\ pc' = [pc EXCEPT ![s] = "write"]
  BY DEF Fetch, Goto, upstream, rows, handlerVars
<1>2. Seen(rCol, rWants)' \subseteq seen' /\ RowsComeFromUpstream'
  BY <1>1 DEF SeenInv, Seen, RowsComeFromUpstream, InCollection
<1>3. ASSUME NEW t \in Syncs, pc'[t] = "write" PROVE PageSeen(t)'
  <2>1. CASE t = s
    <3>1. fetched'[s].ids \subseteq List(phase[s]) /\ fetched'[s].format = rCol
      BY <1>1 DEF PageOf, TypeInv, TypeOK
    <3>2. ASSUME NEW r \in fetched'[s].ids
          PROVE  <<r, IF phase[s] = "collection" THEN rCol[r] ELSE Wanted>> \in Seen(rCol, rWants)
      BY <3>1, <3>2 DEF List, Collected, Seen
    <3> QED  BY <1>1, <2>1, <3>1, <3>2 DEF PageSeen, SeenInv
  <2>2. CASE t # s
    <3>1. pc[t] = "write" /\ fetched'[t] = fetched[t]
      BY <1>1, <1>3, <2>2 DEF TypeInv, TypeOK
    <3> QED  BY <1>1, <3>1 DEF PageSeen, SeenInv, OnTheirWay
  <2> QED  BY <2>1, <2>2
<1>4. OnTheirWay'
  BY <1>1, <1>3 DEF SeenInv, OnTheirWay, HasFile
<1> QED  BY <1>2, <1>4 DEF SeenInv

LEMMA SeenQuietSync ==
  ASSUME TypeInv, SeenInv, NEW s \in Syncs,
         Start(s) \/ Profile(s) \/ FetchLimited(s) \/ Retry(s) \/ SyncFails(s) \/ NextPage(s)
  PROVE  SeenInv'
<1>1. UNCHANGED <<rCol, rWants, col, wants, seen, hpc, move>>
  BY DEF Start, Profile, FetchLimited, Retry, SyncFails, NextPage, upstream, rows, handlerVars
<1>2. ASSUME NEW t \in Syncs, pc'[t] = "write"
      PROVE  pc[t] = "write" /\ fetched'[t] = fetched[t] /\ phase'[t] = phase[t]
  <2>1. pc'[s] # "write" /\ (t # s => pc'[t] = pc[t])
    BY DEF Start, Profile, FetchLimited, Retry, SyncFails, NextPage, Goto, Finish, TypeInv, TypeOK
  <2>2. t # s => fetched'[t] = fetched[t] /\ phase'[t] = phase[t]
    BY DEF Start, Profile, FetchLimited, Retry, SyncFails, NextPage, TypeInv, TypeOK
  <2> QED  BY <1>2, <2>1, <2>2
<1>3. Seen(rCol, rWants)' \subseteq seen' /\ seen \subseteq seen'
  BY <1>1 DEF SeenInv, Seen
<1> QED  BY <1>1, <1>2, <1>3, SeenKeeps

LEMMA SeenHandler ==
  ASSUME NoAdds, TypeInv, SeenInv, NEW h \in Handlers, HandlerStep(h)
  PROVE  SeenInv'
<1>a. hpc \in [Handlers -> {"idle", "push", "mirror", "persist", "stamp", "done"}]
      /\ move \in [Handlers -> Moves]
  BY DEF TypeInv, TypeOK
<1>b. ASSUME UNCHANGED <<rCol, rWants, seen>>
      PROVE  Seen(rCol, rWants)' \subseteq seen' /\ seen \subseteq seen'
  BY <1>b DEF SeenInv, Seen
<1>1. CASE Validate(h)
  <2>1. /\ UNCHANGED <<rCol, rWants, col, wants, seen, pc, fetched, phase>>
        /\ move' = [move EXCEPT ![h] = MoveFor(h)]
        /\ hpc' = [hpc EXCEPT ![h] = IF MoveFor(h) = "none" THEN "done" ELSE "push"]
    BY <1>1 DEF Validate, HGoto, upstream, rows, syncVars
  <2>2. MoveFor(h) \in {"collect", "format"} => HasFile(Target[h])
    BY DEF MoveFor, NoAdds
  <2>3. RowsComeFromUpstream' /\ Seen(rCol, rWants)' \subseteq seen'
    BY <1>b, <2>1 DEF SeenInv, RowsComeFromUpstream, InCollection
  <2>4. \A t \in Syncs : pc'[t] = "write" => PageSeen(t)'
    BY <2>1 DEF SeenInv, OnTheirWay, PageSeen
  <2>5. ASSUME NEW g \in Handlers
        PROVE  /\ hpc'[g] = "push" /\ move'[g] \in {"collect", "format"} => HasFile(Target[g])
               /\ hpc'[g] = "mirror" => <<Target[g], LocalFormat[Target[g]]>> \in seen'
    <3>1. CASE g = h
      BY <1>a, <2>1, <2>2, <3>1
    <3>2. CASE g # h
      BY <1>a, <2>1, <3>2 DEF SeenInv, OnTheirWay
    <3> QED  BY <3>1, <3>2
  <2> QED  BY <2>3, <2>4, <2>5 DEF SeenInv, OnTheirWay, HasFile
<1>2. CASE Push(h) \/ PushLost(h)
  <2>1. /\ hpc[h] = "push" /\ Effect(h)
        /\ UNCHANGED <<col, wants, pc, fetched, phase, move>>
        /\ hpc' = [hpc EXCEPT ![h] = "mirror"] \/ hpc' = [hpc EXCEPT ![h] = "done"]
        /\ hpc'[h] = "mirror" => move[h] \in {"collect", "format"}
    BY <1>2, <1>a DEF Push, PushLost, HGoto, rows, NoAdds
  <2>2. /\ seen \subseteq seen' /\ Seen(rCol, rWants)' \subseteq seen'
        /\ hpc'[h] = "mirror" => <<Target[h], LocalFormat[Target[h]]>> \in seen'
    BY <2>1, EffectGrows
  <2>3. RowsComeFromUpstream'
    BY <2>1, <2>2 DEF SeenInv, RowsComeFromUpstream, InCollection
  <2>4. \A t \in Syncs : pc'[t] = "write" => PageSeen(t)'
    BY <2>1, <2>2 DEF SeenInv, OnTheirWay, PageSeen
  <2>5. ASSUME NEW g \in Handlers
        PROVE  /\ hpc'[g] = "push" /\ move'[g] \in {"collect", "format"} => HasFile(Target[g])
               /\ hpc'[g] = "mirror" => <<Target[g], LocalFormat[Target[g]]>> \in seen'
    <3>1. CASE g = h
      BY <1>a, <2>1, <2>2, <3>1
    <3>2. CASE g # h
      BY <1>a, <2>1, <2>2, <3>2 DEF SeenInv, OnTheirWay
    <3> QED  BY <3>1, <3>2
  <2> QED  BY <2>2, <2>3, <2>4, <2>5 DEF SeenInv, OnTheirWay, HasFile
<1>3. CASE PushFails(h) \/ FetchDetail(h) \/ PersistRecording(h) \/ StampDetail(h)
  <2>1. UNCHANGED <<rCol, rWants, col, wants, seen, pc, fetched, phase, move>>
    BY <1>3 DEF PushFails, FetchDetail, PersistRecording, StampDetail, upstream, rows, syncVars
  <2>2. \E x \in {"persist", "stamp", "done"} : hpc' = [hpc EXCEPT ![h] = x]
    BY <1>3 DEF PushFails, FetchDetail, PersistRecording, StampDetail, HGoto, NoAdds
  <2>3. ASSUME NEW g \in Handlers
        PROVE  /\ hpc'[g] = "push" => hpc[g] = "push" /\ move'[g] = move[g]
               /\ hpc'[g] = "mirror" => hpc[g] = "mirror"
    BY <1>a, <2>1, <2>2
  <2> QED  BY <1>b, <2>1, <2>3, SeenKeeps
<1>4. CASE MirrorLocally(h)
  <2>1. /\ UNCHANGED <<rCol, rWants, wants, seen, pc, fetched, phase, move>>
        /\ hpc[h] = "mirror" /\ hpc' = [hpc EXCEPT ![h] = "done"]
        /\ col' = col \/ col' = [col EXCEPT ![Target[h]] = LocalFormat[Target[h]]]
    BY <1>4 DEF MirrorLocally, HGoto, upstream, syncVars
  <2>2. <<Target[h], LocalFormat[Target[h]]>> \in seen
    BY <2>1 DEF SeenInv, OnTheirWay
  <2>3. col \in [Recs -> FormatOrNot]
    BY DEF TypeInv, TypeOK, FormatOrNot
  <2>4. ASSUME NEW r \in Recs, col'[r] # NotIn PROVE <<r, col'[r]>> \in seen
    BY <2>1, <2>2, <2>3, <2>4 DEF SeenInv, RowsComeFromUpstream, InCollection
  <2>5. RowsComeFromUpstream'
    BY <2>1, <2>4 DEF SeenInv, RowsComeFromUpstream, InCollection
  <2>6. \A t \in Syncs : pc'[t] = "write" => PageSeen(t)'
    BY <2>1 DEF SeenInv, OnTheirWay, PageSeen
  <2>7. OnTheirWay'
    BY <1>a, <2>1, <2>6 DEF SeenInv, OnTheirWay, HasFile
  <2> QED  BY <1>b, <2>1, <2>5, <2>7 DEF SeenInv
<1> QED  BY <1>1, <1>2, <1>3, <1>4 DEF HandlerStep

LEMMA SeenWorld ==
  ASSUME TypeInv, SeenInv, SiteEdit \/ NewWindow \/ CrashRestart \/ UNCHANGED vars
  PROVE  SeenInv'
<1>1. CASE SiteEdit
  <2>1. UNCHANGED <<col, wants, pc, fetched, phase, hpc, move>>
    BY <1>1 DEF SiteEdit, rows, handlerVars
  <2>2. \E c, w : SetUpstream(c, w)
    BY <1>1 DEF SiteEdit
  <2> QED  BY <2>1, <2>2, HistoryGrows, SeenKeeps
<1>2. CASE NewWindow \/ CrashRestart \/ UNCHANGED vars
  <2>1. UNCHANGED <<rCol, rWants, col, wants, seen, phase, move>>
    BY <1>2 DEF NewWindow, CrashRestart, vars, upstream, rows, syncVars, handlerVars
  <2>2. Seen(rCol, rWants)' \subseteq seen' /\ seen \subseteq seen'
    BY <2>1 DEF SeenInv, Seen
  <2>3. \A t \in Syncs : pc'[t] = "write" => pc[t] = "write" /\ fetched'[t] = fetched[t]
    BY <1>2 DEF NewWindow, CrashRestart, vars, syncVars
  <2>4. \A g \in Handlers : /\ hpc'[g] = "push" => hpc[g] = "push"
                            /\ hpc'[g] = "mirror" => hpc[g] = "mirror"
    BY <1>2 DEF NewWindow, CrashRestart, vars, handlerVars
  <2> QED  BY <2>1, <2>2, <2>3, <2>4, SeenKeeps
<1> QED  BY <1>1, <1>2

(* As long as nobody uses the add-to-collection handler, no local row ever  *)
(* claims a state upstream never had, whatever pages arrive late, pushes    *)
(* get lost or writes fail (writeCollectionPage, applyFormat and its        *)
(* mirror).  The handler excluded goes on to its local upsert after a push  *)
(* that failed.                                                             *)
THEOREM RowsComeFromUpstreamHolds ==
  ASSUME NoAdds
  PROVE  Spec => []RowsComeFromUpstream
<1>1. TypeInv /\ SeenInv /\ [Next]_vars => SeenInv'
  <2> SUFFICES ASSUME TypeInv, SeenInv, [Next]_vars PROVE SeenInv'  OBVIOUS
  <2>1. ASSUME NEW s \in Syncs, Start(s) \/ SyncStep(s) \/ SyncFails(s) PROVE SeenInv'
    BY <2>1, SeenWritePage, SeenFetch, SeenQuietSync DEF SyncStep
  <2> QED  BY <2>1, SeenHandler, SeenWorld DEF Next
<1>2. SeenInv => RowsComeFromUpstream
  BY DEF SeenInv
<1> QED  BY <1>1, <1>2, SeenInit, TypeInvHolds, PTL DEF Spec

-----------------------------------------------------------------------------
(* A complete sync mirrors the lists.                                       *)

OneSync == \A s, t \in Syncs : s = t
(* No handler writes collection rows of its own.                            *)
NoMirror == \A h \in Handlers : KindOf[h] \notin {"addCollection", "apply"}

(* The first n entries of the list a sync is reading are in the local rows, *)
(* and so is all of the collection while it reads the wants.                *)
Covered(ph, n) ==
  /\ \A r \in Collected : ph = "wants" \/ Place("collection", r) < n => col[r] = rCol[r]
  /\ ph = "wants" => \A r \in rWants : Place("wants", r) < n => r \in wants

Mirrored ==
  /\ \A r \in Collected : col[r] = rCol[r]
  /\ rWants \subseteq wants

(* How far a sync has come, as long as upstream has stood still.            *)
SoFar(s) ==
  /\ pc[s] = "profile" => phase[s] = "collection" /\ page[s] = 1
  /\ pc[s] \in {"fetch", "wait", "refetch", "write"} =>
       Covered(phase[s], (page[s] - 1) * PageSize)
  /\ pc[s] = "write" => fetched[s] = PageOf(phase[s], page[s])
  /\ pc[s] = "stamp" =>
       /\ Covered(phase[s], page[s] * PageSize)
       /\ fetched[s].more = (page[s] * PageSize < Cardinality(List(phase[s])))
  /\ result[s] = "complete" => Mirrored

MirrorInv ==
  /\ \A s \in Syncs : quiet[s] => SoFar(s)
  /\ \A s \in Syncs : pc[s] # "idle" => result[s] = "none"
  /\ \A h \in Handlers : hpc[h] # "mirror" /\ move[h] \notin {"collect", "format"}

(* Every entry has a place below the length of its list.                    *)
LEMMA PlaceInList ==
  ASSUME TypeInv, NEW ph \in {"collection", "wants"}
  PROVE  /\ Cardinality(List(ph)) \in Nat
         /\ \A r \in List(ph) : Place(ph, r) \in Nat /\ Place(ph, r) < Cardinality(List(ph))
<1>1. IsFiniteSet(Recs) /\ List(ph) \subseteq Recs /\ Recs \subseteq Nat
  BY MirrorAssumption DEF List, Collected, TypeInv, TypeOK
<1>2. IsFiniteSet(List(ph))
  BY <1>1, FS_Subset
<1>3. ASSUME NEW r \in List(ph)
      PROVE  Place(ph, r) \in Nat /\ Place(ph, r) < Cardinality(List(ph))
  <2> DEFINE before == {q \in List(ph) : q < r}
  <2>1. before \subseteq List(ph) \ {r}
    <3>1. r \in Nat
      BY <1>1
    <3>2. ~(r < r)
      BY <3>1
    <3>3. \A q \in before : q \in List(ph) /\ q < r
      OBVIOUS
    <3> QED  BY <3>2, <3>3
  <2>2. IsFiniteSet(List(ph) \ {r}) /\ Cardinality(List(ph) \ {r}) = Cardinality(List(ph)) - 1
    BY <1>2, <1>3, FS_RemoveElement
  <2>3. IsFiniteSet(before) /\ Cardinality(before) <= Cardinality(List(ph) \ {r})
    BY <2>1, <2>2, FS_Subset
  <2>4. Cardinality(before) \in Nat /\ Cardinality(List(ph)) \in Nat
    BY <1>2, <2>3, FS_CardinalityType
  <2> QED  BY <2>2, <2>3, <2>4 DEF Place
<1> QED  BY <1>2, <1>3, FS_CardinalityType

(* Nothing is before the first page.                                        *)
LEMMA CoveredAtStart ==
  ASSUME TypeInv
  PROVE  Covered("collection", 0)
<1>1. \A r \in Collected : Place("collection", r) \in Nat
  BY PlaceInList DEF List
<1> QED  BY <1>1 DEF Covered

(* Past the last page, everything.                                          *)
LEMMA CoveredToTheEnd ==
  ASSUME TypeInv, NEW ph \in {"collection", "wants"}, NEW n \in Nat,
         Covered(ph, n), ~(n < Cardinality(List(ph)))
  PROVE  /\ ph = "collection" => Covered("wants", 0)
         /\ ph = "wants" => Mirrored
<1>1. \A r \in List(ph) : Place(ph, r) < n
  BY PlaceInList
<1>2. CASE ph = "collection"
  <2>1. \A r \in Collected : col[r] = rCol[r]
    BY <1>1, <1>2 DEF Covered, List
  <2>2. \A r \in rWants : ~(Place("wants", r) < 0)
    BY PlaceInList DEF List
  <2> QED  BY <1>2, <2>1, <2>2 DEF Covered
<1>3. CASE ph = "wants"
  BY <1>1, <1>3 DEF Covered, List, Mirrored
<1> QED  BY <1>2, <1>3

(* A step of something else that neither changes upstream nor unwrites.     *)
LEMMA MirrorKeeps ==
  ASSUME MirrorInv, NEW s \in Syncs,
         UNCHANGED <<pc, phase, page, fetched, result, col, wants>>,
         quiet'[s] => quiet[s] /\ rCol' = rCol /\ rWants' = rWants,
         quiet'[s]
  PROVE  SoFar(s)'
<1>1. SoFar(s) /\ rCol' = rCol /\ rWants' = rWants
  BY DEF MirrorInv
<1> QED  BY <1>1 DEF SoFar, Covered, Mirrored, PageOf, List, Place, Collected

LEMMA MirrorInit == NoMirror /\ Init => MirrorInv
BY DEF Init, MirrorInv

LEMMA MirrorWritePage ==
  ASSUME TypeInv, MirrorInv, NEW s \in Syncs, WritePage(s), quiet[s]
  PROVE  SoFar(s)'
<1> DEFINE n == (page[s] - 1) * PageSize
           m == page[s] * PageSize
<1>1. /\ pc[s] = "write" /\ pc'[s] = "stamp"
      /\ UNCHANGED <<rCol, rWants, phase, page, fetched, result>>
  BY DEF WritePage, Goto, upstream, TypeInv, TypeOK
<1>2. Covered(phase[s], n) /\ fetched[s] = PageOf(phase[s], page[s])
  BY <1>1 DEF MirrorInv, SoFar
<1>3. /\ fetched[s].ids = {r \in List(phase[s]) : n <= Place(phase[s], r) /\ Place(phase[s], r) < m}
      /\ fetched[s].format = rCol
      /\ fetched[s].more = (m < Cardinality(List(phase[s])))
  BY <1>2 DEF PageOf
<1>4. n \in Int /\ m \in Int /\ phase[s] \in {"collection", "wants"}
  BY MirrorAssumption DEF TypeInv, TypeOK
<1>5. \A r \in List(phase[s]) : Place(phase[s], r) \in Nat
  BY <1>4, PlaceInList
<1> HIDE DEF n, m
<1>6. \A r \in List(phase[s]) : Place(phase[s], r) < m =>
         Place(phase[s], r) < n \/ r \in fetched[s].ids
  BY <1>3, <1>4, <1>5
<1>7. Covered(phase[s], m)'
  <2>0. phase' = phase /\ Collected' = Collected /\ \A ph, r : Place(ph, r)' = Place(ph, r)
    BY <1>1 DEF Collected, Place, List
  <2>m. m' = m
    BY <1>1 DEF m
  <2>1. CASE phase[s] = "collection"
    <3>1. col' = [r \in Recs |-> IF r \in fetched[s].ids THEN fetched[s].format[r] ELSE col[r]]
      BY <2>1 DEF WritePage
    <3>2. ASSUME NEW r \in Collected, Place("collection", r) < m PROVE col'[r] = rCol[r]
      <4>1. r \in Recs /\ r \in List(phase[s])
        BY <2>1 DEF Collected, List
      <4> QED  BY <1>2, <1>3, <1>6, <2>1, <3>1, <3>2, <4>1 DEF Covered
    <3> QED  BY <1>1, <2>0, <2>m, <2>1, <3>2 DEF Covered
  <2>2. CASE phase[s] = "wants"
    <3>1. wants' = wants \cup fetched[s].ids /\ col' = col
      BY <2>2 DEF WritePage
    <3>2. ASSUME NEW r \in rWants, Place("wants", r) < m PROVE r \in wants'
      BY <1>2, <1>6, <2>2, <3>1, <3>2 DEF Covered, List
    <3>3. \A r \in Collected : col[r] = rCol[r]
      BY <1>2, <2>2 DEF Covered
    <3> QED  BY <1>1, <2>0, <2>m, <2>2, <3>1, <3>2, <3>3 DEF Covered
  <2> QED  BY <1>4, <2>1, <2>2
<1>8. (fetched[s].more = (page[s] * PageSize < Cardinality(List(phase[s]))))'
  BY <1>1, <1>3 DEF m, List, Collected
<1>9. result'[s] = "none"
  BY <1>1 DEF MirrorInv
<1> QED  BY <1>1, <1>7, <1>8, <1>9 DEF SoFar, m

LEMMA MirrorNextPage ==
  ASSUME TypeInv, MirrorInv, NEW s \in Syncs, NextPage(s), quiet[s]
  PROVE  SoFar(s)'
<1> DEFINE m == page[s] * PageSize
<1>1. /\ pc[s] = "stamp" /\ result[s] = "none"
      /\ UNCHANGED <<rCol, rWants, col, wants>>
  BY DEF NextPage, upstream, MirrorInv
<1>2. /\ Covered(phase[s], m)
      /\ fetched[s].more = (m < Cardinality(List(phase[s])))
  BY <1>1 DEF MirrorInv, SoFar
<1>3. m \in Nat /\ phase[s] \in {"collection", "wants"} /\ page[s] \in Nat /\ PageSize \in Nat
  BY MirrorAssumption DEF TypeInv, TypeOK
<1>4. ASSUME NEW ph, NEW k, Covered(ph, k), NEW ph2, NEW k2, ph2 = ph, k2 = k
      PROVE  /\ \A r \in Collected' : ph2 = "wants" \/ Place("collection", r)' < k2 => col'[r] = rCol'[r]
             /\ ph2 = "wants" => \A r \in rWants' : Place("wants", r)' < k2 => r \in wants'
  BY <1>1, <1>4 DEF Covered, Collected, Place, List
<1>5. CASE Finish(s, "bailed") /\ UNCHANGED <<phase, page>>
  BY <1>5 DEF Finish, Goto, SoFar, TypeInv, TypeOK
<1>6. CASE More(s) /\ page' = [page EXCEPT ![s] = @ + 1] /\ Goto(s, "fetch") /\ UNCHANGED <<phase, result>>
  <2>1. page'[s] = page[s] + 1 /\ pc'[s] = "fetch" /\ phase'[s] = phase[s] /\ result'[s] = "none"
    BY <1>1, <1>6 DEF Goto, TypeInv, TypeOK
  <2>2. (page'[s] - 1) * PageSize = m
    BY <1>3, <2>1
  <2>3. Covered(phase[s], (page[s] - 1) * PageSize)'
    <3> HIDE DEF m
    <3>1. phase'[s] = phase[s]
      BY <2>1
    <3>2. Collected' = Collected /\ \A ph, r : Place(ph, r)' = Place(ph, r)
      BY <1>1 DEF Collected, Place, List
    <3> QED  BY <1>1, <1>2, <2>2, <3>1, <3>2 DEF Covered
  <2> QED  BY <2>1, <2>3 DEF SoFar
<1>7. CASE /\ ~More(s) /\ phase[s] = "collection"
           /\ phase' = [phase EXCEPT ![s] = "wants"]
           /\ page' = [page EXCEPT ![s] = 1]
           /\ Goto(s, "fetch") /\ UNCHANGED result
  <2>1. page'[s] = 1 /\ pc'[s] = "fetch" /\ phase'[s] = "wants" /\ result'[s] = "none"
    BY <1>1, <1>7 DEF Goto, TypeInv, TypeOK
  <2>2. (page'[s] - 1) * PageSize = 0
    BY <1>3, <2>1
  <2>3. Covered("wants", 0)
    BY <1>2, <1>3, <1>7, CoveredToTheEnd DEF More
  <2>4. Covered(phase[s], (page[s] - 1) * PageSize)'
    BY <1>4, <2>1, <2>2, <2>3 DEF Covered
  <2> QED  BY <2>1, <2>4 DEF SoFar
<1>8. CASE ~More(s) /\ phase[s] = "wants" /\ Finish(s, "complete") /\ UNCHANGED <<phase, page>>
  <2>1. Mirrored
    BY <1>2, <1>3, <1>8, CoveredToTheEnd DEF More
  <2>2. Mirrored'
    BY <1>1, <2>1 DEF Mirrored, Collected
  <2>3. pc'[s] = "idle"
    BY <1>8 DEF Finish, Goto, TypeInv, TypeOK
  <2> QED  BY <2>2, <2>3 DEF SoFar
<1> QED  BY <1>5, <1>6, <1>7, <1>8 DEF NextPage

LEMMA MirrorSync ==
  ASSUME TypeInv, MirrorInv, NEW s \in Syncs, quiet'[s],
         Start(s) \/ Profile(s) \/ Fetch(s) \/ FetchLimited(s) \/ Retry(s) \/ SyncFails(s)
  PROVE  SoFar(s)'
<1>1. UNCHANGED <<rCol, rWants, col, wants>>
  BY DEF Start, Profile, Fetch, FetchLimited, Retry, SyncFails, upstream, rows
<1>2. CASE Start(s)
  BY <1>2 DEF Start, Goto, SoFar, TypeInv, TypeOK
<1>3. CASE Profile(s)
  <2>1. pc'[s] = "fetch" /\ phase'[s] = "collection" /\ page'[s] = 1 /\ result'[s] = "none"
    BY <1>3 DEF Profile, Goto, MirrorInv, SoFar, TypeInv, TypeOK
  <2>2. (page'[s] - 1) * PageSize = 0
    BY <2>1, MirrorAssumption
  <2>3. Covered(phase[s], (page[s] - 1) * PageSize)'
    BY <1>1, <2>1, <2>2, CoveredAtStart DEF Covered, Collected, Place, List
  <2> QED  BY <2>1, <2>3 DEF SoFar
<1>4. CASE Fetch(s) \/ FetchLimited(s) \/ Retry(s)
  <2>1. /\ pc[s] \in {"fetch", "wait", "refetch"} /\ quiet[s]
        /\ UNCHANGED <<phase, page>>
    BY <1>4 DEF Fetch, FetchLimited, Retry
  <2>2. Covered(phase[s], (page[s] - 1) * PageSize) /\ result[s] = "none"
    BY <2>1 DEF MirrorInv, SoFar
  <2>3. Covered(phase[s], (page[s] - 1) * PageSize)'
    BY <1>1, <2>1, <2>2 DEF Covered, Collected, Place, List
  <2>4. pc'[s] \in {"idle", "wait", "refetch", "write"} /\ result'[s] \in {"none", "failed"}
    BY <1>4, <2>2 DEF Fetch, FetchLimited, Retry, Goto, Finish, TypeInv, TypeOK
  <2>5. pc'[s] = "write" => fetched'[s] = PageOf(phase[s], page[s])
    BY <1>4 DEF Fetch, FetchLimited, Retry, Goto, Finish, TypeInv, TypeOK
  <2>6. PageOf(phase[s], page[s])' = PageOf(phase[s], page[s])
    BY <1>1, <2>1 DEF PageOf, List, Place, Collected
  <2> QED  BY <2>3, <2>4, <2>5, <2>6 DEF SoFar
<1>5. CASE SyncFails(s)
  BY <1>5 DEF SyncFails, Finish, Goto, SoFar, TypeInv, TypeOK
<1> QED  BY <1>2, <1>3, <1>4, <1>5

(* The steps that are not the sync's leave its rows alone, and upstream too *)
(* if it is still quiet after them.                                         *)
LEMMA MirrorOthers ==
  ASSUME NoMirror, TypeInv, MirrorInv, NEW s \in Syncs, quiet'[s],
         \/ \E h \in Handlers : HandlerStep(h)
         \/ SiteEdit \/ NewWindow \/ UNCHANGED vars
  PROVE  SoFar(s)'
<1>1. UNCHANGED <<pc, phase, page, fetched, result, col, wants>>
  <2>1. ASSUME NEW h \in Handlers, HandlerStep(h)
        PROVE  UNCHANGED <<pc, phase, page, fetched, result, col, wants>>
    <3>1. ~MirrorLocally(h)
      BY DEF MirrorLocally, MirrorInv
    <3> QED  BY <2>1, <3>1 DEF HandlerStep, Validate, Push, PushFails, PushLost,
               FetchDetail, PersistRecording, StampDetail, rows, syncVars
  <2> QED  BY <2>1 DEF SiteEdit, NewWindow, vars, rows, syncVars
<1>2. quiet'[s] => quiet[s] /\ rCol' = rCol /\ rWants' = rWants
  <2>1. ASSUME NEW c, NEW w, SetUpstream(c, w)
        PROVE  quiet'[s] => quiet[s] /\ rCol' = rCol /\ rWants' = rWants
    BY <2>1 DEF SetUpstream
  <2>2. ASSUME NEW h \in Handlers, Push(h) \/ PushLost(h)
        PROVE  quiet'[s] => quiet[s] /\ rCol' = rCol /\ rWants' = rWants
    <3>1. move[h] \in Moves \ {"none"} /\ Effect(h)
      BY <2>2 DEF Push, PushLost, TypeInv, TypeOK, InStep
    <3>2. \E c, w : SetUpstream(c, w)
      BY <3>1 DEF Effect, Moves
    <3> QED  BY <2>1, <3>2
  <2>3. ASSUME NEW h \in Handlers,
               \/ Validate(h) \/ PushFails(h) \/ MirrorLocally(h) \/ FetchDetail(h)
               \/ PersistRecording(h) \/ StampDetail(h)
        PROVE  UNCHANGED <<quiet, rCol, rWants>>
    BY <2>3 DEF Validate, PushFails, MirrorLocally, FetchDetail, PersistRecording, StampDetail,
                upstream, syncVars
  <2>4. SiteEdit => \E c, w : SetUpstream(c, w)
    BY DEF SiteEdit
  <2>5. NewWindow \/ UNCHANGED vars => UNCHANGED <<quiet, rCol, rWants>>
    BY DEF NewWindow, vars, upstream, syncVars
  <2> QED  BY <2>1, <2>2, <2>3, <2>4, <2>5 DEF HandlerStep
<1> QED  BY <1>1, <1>2, MirrorKeeps

LEMMA MirrorCrash ==
  ASSUME MirrorInv, CrashRestart
  PROVE  \A s \in Syncs : SoFar(s)'
BY DEF CrashRestart, SoFar

(* The parts about results and handlers.                                    *)
LEMMA MirrorRest ==
  ASSUME NoMirror, TypeInv, MirrorInv, [Next]_vars
  PROVE  /\ \A s \in Syncs : pc'[s] # "idle" => result'[s] = "none"
         /\ \A h \in Handlers : hpc'[h] # "mirror" /\ move'[h] \notin {"collect", "format"}
<1>a. /\ hpc \in [Handlers -> {"idle", "push", "mirror", "persist", "stamp", "done"}]
      /\ move \in [Handlers -> Moves]
      /\ pc \in [Syncs -> {"idle", "profile", "fetch", "wait", "refetch", "write", "stamp"}]
      /\ result \in [Syncs -> {"none", "complete", "bailed", "failed"}]
  BY DEF TypeInv, TypeOK
<1>1. ASSUME NEW s \in Syncs, Start(s) \/ SyncStep(s) \/ SyncFails(s)
      PROVE  /\ \A t \in Syncs : pc'[t] # "idle" => result'[t] = "none"
             /\ UNCHANGED <<hpc, move>>
  <2>1. UNCHANGED <<hpc, move>>
    BY <1>1 DEF SyncStep, Start, SyncFails, Profile, Fetch, FetchLimited, Retry, WritePage,
                NextPage, handlerVars
  <2>2. \A t \in Syncs \ {s} : pc'[t] = pc[t] /\ result'[t] = result[t]
    BY <1>1, <1>a DEF SyncStep, Start, SyncFails, Profile, Fetch, FetchLimited, Retry, WritePage,
                NextPage, Goto, Finish
  <2>3. pc'[s] # "idle" => result'[s] = "none"
    BY <1>1, <1>a DEF SyncStep, Start, SyncFails, Profile, Fetch, FetchLimited, Retry, WritePage,
                NextPage, Goto, Finish, MirrorInv
  <2> QED  BY <2>1, <2>2, <2>3 DEF MirrorInv
<1>2. ASSUME NEW h \in Handlers, HandlerStep(h)
      PROVE  /\ UNCHANGED <<pc, result>>
             /\ \A g \in Handlers : hpc'[g] # "mirror" /\ move'[g] \notin {"collect", "format"}
  <2>1. UNCHANGED <<pc, result>>
    BY <1>2 DEF HandlerStep, Validate, Push, PushFails, PushLost, MirrorLocally,
                FetchDetail, PersistRecording, StampDetail, syncVars
  <2>2. KindOf[h] \notin {"addCollection", "apply"} /\ move[h] \notin {"collect", "format"}
    BY DEF NoMirror, MirrorInv
  <2>3. MoveFor(h) \notin {"collect", "format"}
    BY <2>2 DEF MoveFor
  <2>4. move' = move \/ move' = [move EXCEPT ![h] = MoveFor(h)]
    BY <1>2 DEF HandlerStep, Validate, Push, PushFails, PushLost, MirrorLocally,
                FetchDetail, PersistRecording, StampDetail
  <2>5. \E x \in {"push", "persist", "stamp", "done"} : hpc' = [hpc EXCEPT ![h] = x]
    BY <1>2, <2>2 DEF HandlerStep, Validate, Push, PushFails, PushLost, MirrorLocally,
                FetchDetail, PersistRecording, StampDetail, HGoto, MirrorInv
  <2> QED  BY <1>a, <2>1, <2>3, <2>4, <2>5 DEF MirrorInv
<1>3. ASSUME SiteEdit \/ NewWindow \/ CrashRestart \/ UNCHANGED vars
      PROVE  /\ \A s \in Syncs : pc'[s] # "idle" => result'[s] = "none"
             /\ \A h \in Handlers : hpc'[h] # "mirror" /\ move'[h] = move[h]
  BY <1>3, <1>a DEF SiteEdit, NewWindow, CrashRestart, vars, syncVars, handlerVars, MirrorInv
<1> QED  BY <1>1, <1>2, <1>3 DEF Next, MirrorInv

(* With one sync and no handler that writes collection rows, a sync that    *)
(* ran to the end while upstream stood still has everything upstream has,   *)
(* with its current format, for any lists, page size and rate limit         *)
(* (syncCollection, syncWants, "to exhaustion").                            *)
THEOREM CompleteSyncMirrorsHolds ==
  ASSUME OneSync, NoMirror
  PROVE  Spec => []CompleteSyncMirrors
<1>1. TypeInv /\ MirrorInv /\ [Next]_vars => MirrorInv'
  <2> SUFFICES ASSUME TypeInv, MirrorInv, [Next]_vars PROVE MirrorInv'  OBVIOUS
  <2>1. ASSUME NEW s \in Syncs, quiet'[s] PROVE SoFar(s)'
    <3>1. ASSUME NEW t \in Syncs, Start(t) \/ SyncStep(t) \/ SyncFails(t) PROVE SoFar(s)'
      <4>1. t = s
        BY DEF OneSync
      <4>2. CASE WritePage(s) \/ NextPage(s)
        <5>1. quiet' = quiet
          BY <4>2 DEF WritePage, NextPage
        <5> QED  BY <2>1, <4>2, <5>1, MirrorWritePage, MirrorNextPage
      <4>3. CASE Start(s) \/ Profile(s) \/ Fetch(s) \/ FetchLimited(s) \/ Retry(s) \/ SyncFails(s)
        BY <2>1, <4>3, MirrorSync
      <4> QED  BY <3>1, <4>1, <4>2, <4>3 DEF SyncStep
    <3> QED  BY <2>1, <3>1, MirrorOthers, MirrorCrash DEF Next
  <2> QED  BY <2>1, MirrorRest DEF MirrorInv
<1>2. MirrorInv => CompleteSyncMirrors
  BY DEF MirrorInv, SoFar, Mirrored, CompleteSyncMirrors
<1> QED  BY <1>1, <1>2, MirrorInit, TypeInvHolds, PTL DEF Spec

-----------------------------------------------------------------------------
(* The floor keeps a sync clear of the rate limit.                          *)

FewHandlers == IsFiniteSet(Handlers) /\ Cardinality(Handlers) <= BurstReserve

(* The handlers that may have spent a request: none spends a second one.    *)
Spent == {h \in Handlers : hpc[h] \notin {"idle", "push"}}
Past(s) == phase[s] = "wants" \/ page[s] # 1
Paced(s) == pc[s] \in {"write", "stamp"} \/ (pc[s] = "fetch" /\ Past(s))

(* What upstream has left is at least what the last answer said, less the   *)
(* requests handlers may have made since.                                   *)
PaceInv ==
  \A s \in Syncs :
    /\ Paced(s) => budget + Cardinality(Spent) >= remaining[s]
    /\ pc[s] = "fetch" /\ Past(s) => remaining[s] > BurstReserve
    /\ pc[s] \in {"wait", "refetch"} => ~Past(s)
    /\ pc[s] = "profile" => ~Past(s)

(* Spent has at most as many members as there are handlers, and its size    *)
(* follows its members.                                                     *)
LEMMA SpentCounts ==
  ASSUME FewHandlers
  PROVE  Cardinality(Spent) \in Nat /\ Cardinality(Spent) <= BurstReserve
<1>1. Spent \subseteq Handlers
  BY DEF Spent
<1>2. IsFiniteSet(Spent) /\ Cardinality(Spent) <= Cardinality(Handlers)
  BY <1>1, FS_Subset DEF FewHandlers
<1>3. Cardinality(Spent) \in Nat /\ Cardinality(Handlers) \in Nat
  BY <1>2, FS_CardinalityType DEF FewHandlers
<1> QED  BY <1>2, <1>3, MirrorAssumption DEF FewHandlers

LEMMA SpentGrows ==
  ASSUME FewHandlers, \A h \in Handlers : hpc[h] \notin {"idle", "push"} => hpc'[h] \notin {"idle", "push"}
  PROVE  Cardinality(Spent)' \in Nat /\ Cardinality(Spent)' >= Cardinality(Spent)
<1>1. Spent \subseteq Spent' /\ Spent' \subseteq Handlers
  BY DEF Spent
<1>2. IsFiniteSet(Spent')
  BY <1>1, FS_Subset DEF FewHandlers
<1>3. IsFiniteSet(Spent) /\ Cardinality(Spent) <= Cardinality(Spent')
  BY <1>1, <1>2, FS_Subset
<1>4. Cardinality(Spent') \in Nat /\ Cardinality(Spent) \in Nat
  BY <1>2, <1>3, FS_CardinalityType
<1> QED  BY <1>3, <1>4

(* A handler that spends a request is counted from then on.                 *)
LEMMA SpentAdds ==
  ASSUME FewHandlers, NEW h \in Handlers, hpc[h] \in {"idle", "push"},
         NEW x \in {"mirror", "persist", "done"},
         hpc' = [hpc EXCEPT ![h] = x],
         hpc \in [Handlers -> {"idle", "push", "mirror", "persist", "stamp", "done"}]
  PROVE  Cardinality(Spent)' = Cardinality(Spent) + 1
<1>1. Spent' = Spent \cup {h} /\ h \notin Spent /\ Spent \subseteq Handlers
  BY DEF Spent
<1>2. IsFiniteSet(Spent)
  BY <1>1, FS_Subset DEF FewHandlers
<1>3. Cardinality(Spent \cup {h}) = Cardinality(Spent) + 1
  BY <1>1, <1>2, FS_AddElement
<1> QED  BY <1>1, <1>3

(* A step that does not lower the sum leaves every other sync as paced as   *)
(* it was.                                                                  *)
LEMMA PaceKeeps ==
  ASSUME TypeInv, PaceInv, FewHandlers, UNCHANGED <<phase, page, remaining>>,
         \A s \in Syncs : pc'[s] \in {pc[s], "idle"},
         budget' \in Nat, Cardinality(Spent)' \in Nat,
         budget' + Cardinality(Spent)' >= budget + Cardinality(Spent)
  PROVE  PaceInv'
<1> SUFFICES ASSUME NEW s \in Syncs
             PROVE  /\ Paced(s)' => budget' + Cardinality(Spent)' >= remaining'[s]
                    /\ pc'[s] = "fetch" /\ Past(s)' => remaining'[s] > BurstReserve
                    /\ pc'[s] \in {"wait", "refetch"} => ~Past(s)'
                    /\ pc'[s] = "profile" => ~Past(s)'
  BY DEF PaceInv
<1>1. Past(s)' <=> Past(s)
  BY DEF Past
<1>2. CASE pc'[s] = "idle"
  BY <1>2 DEF Paced
<1>3. CASE pc'[s] = pc[s]
  <2>1. Paced(s)' <=> Paced(s)
    BY <1>1, <1>3 DEF Paced
  <2>2. /\ budget \in Nat /\ Cardinality(Spent) \in Nat /\ remaining[s] \in Nat
    BY SpentCounts, MirrorAssumption DEF TypeInv, TypeOK
  <2>3. Paced(s) => budget + Cardinality(Spent) >= remaining[s]
    BY DEF PaceInv
  <2>4. Paced(s)' => budget' + Cardinality(Spent)' >= remaining'[s]
    BY <2>1, <2>2, <2>3
  <2> QED  BY <1>1, <1>3, <2>4 DEF PaceInv
<1> QED  BY <1>2, <1>3

LEMMA PaceSync ==
  ASSUME OneSync, FewHandlers, TypeInv, PaceInv, NEW s \in Syncs,
         Start(s) \/ SyncStep(s) \/ SyncFails(s)
  PROVE  PaceInv'
<1>a. /\ budget \in 0 .. Budget /\ Budget \in Nat /\ BurstReserve \in Nat
      /\ remaining \in [Syncs -> 0 .. Budget]
      /\ pc \in [Syncs -> {"idle", "profile", "fetch", "wait", "refetch", "write", "stamp"}]
      /\ phase \in [Syncs -> {"collection", "wants"}] /\ page \in [Syncs -> Nat]
  BY MirrorAssumption DEF TypeInv, TypeOK
<1>b. Cardinality(Spent)' = Cardinality(Spent)
  BY DEF Start, SyncStep, SyncFails, Profile, Fetch, FetchLimited, Retry, WritePage, NextPage,
         handlerVars, Spent
<1>c. Cardinality(Spent) \in Nat /\ Cardinality(Spent) <= BurstReserve
  BY SpentCounts
<1> SUFFICES /\ Paced(s)' => budget' + Cardinality(Spent) >= remaining'[s]
             /\ pc'[s] = "fetch" /\ Past(s)' => remaining'[s] > BurstReserve
             /\ pc'[s] \in {"wait", "refetch"} => ~Past(s)'
             /\ pc'[s] = "profile" => ~Past(s)'
  BY <1>b DEF OneSync, PaceInv
<1>0. /\ Paced(s) => budget + Cardinality(Spent) >= remaining[s]
      /\ pc[s] = "fetch" /\ Past(s) => remaining[s] > BurstReserve
      /\ pc[s] \in {"wait", "refetch"} => ~Past(s)
      /\ pc[s] = "profile" => ~Past(s)
  BY DEF PaceInv
<1>1. CASE Start(s)
  BY <1>1, <1>a DEF Start, Goto, Past, Paced
<1>2. CASE Profile(s)
  BY <1>2, <1>a, <1>0 DEF Profile, Goto, Past, Paced
<1>3. CASE Fetch(s)
  BY <1>3, <1>a, <1>c DEF Fetch, Goto, Spend, Past, Paced
<1>4. CASE FetchLimited(s)
  <2>1. pc[s] = "fetch" => ~Past(s)
    BY <1>4, <1>a, <1>c, <1>0 DEF FetchLimited, Paced
  <2> QED  BY <1>4, <1>a, <2>1 DEF FetchLimited, Goto, Finish, Past, Paced
<1>5. CASE Retry(s)
  BY <1>5, <1>a, <1>0 DEF Retry, Goto, Past, Paced
<1>6. CASE WritePage(s)
  BY <1>6, <1>a, <1>0 DEF WritePage, Goto, Past, Paced
<1>7. CASE NextPage(s)
  <2>1. Paced(s) /\ budget' = budget /\ remaining' = remaining
    BY <1>7 DEF NextPage, Paced
  <2>2. \/ pc'[s] = "idle"
        \/ pc'[s] = "fetch" /\ ~AtFloor(s)
    BY <1>7, <1>a DEF NextPage, Goto, Finish
  <2> QED  BY <1>a, <1>0, <2>1, <2>2 DEF AtFloor, Paced
<1>8. CASE SyncFails(s)
  BY <1>8, <1>a DEF SyncFails, Goto, Finish, Past, Paced
<1> QED  BY <1>1, <1>2, <1>3, <1>4, <1>5, <1>6, <1>7, <1>8 DEF SyncStep

LEMMA PaceHandler ==
  ASSUME FewHandlers, TypeInv, PaceInv, NEW h \in Handlers, HandlerStep(h)
  PROVE  PaceInv'
<1>a. /\ budget \in 0 .. Budget /\ Budget \in Nat
      /\ hpc \in [Handlers -> {"idle", "push", "mirror", "persist", "stamp", "done"}]
      /\ Cardinality(Spent) \in Nat
  BY MirrorAssumption, SpentCounts DEF TypeInv, TypeOK
<1>b. UNCHANGED <<pc, phase, page, remaining>>
  BY DEF HandlerStep, Validate, Push, PushFails, PushLost, MirrorLocally,
         FetchDetail, PersistRecording, StampDetail, syncVars
<1>1. ASSUME hpc[h] \in {"idle", "push"}, budget > 0, budget' = budget - 1,
             NEW x \in {"mirror", "persist", "done"}, hpc' = [hpc EXCEPT ![h] = x]
      PROVE  PaceInv'
  <2>1. Cardinality(Spent)' = Cardinality(Spent) + 1
    BY <1>1, <1>a, SpentAdds
  <2> QED  BY <1>1, <1>a, <1>b, <2>1, PaceKeeps
<1>2. ASSUME budget' = budget,
             \A g \in Handlers : hpc[g] \notin {"idle", "push"} => hpc'[g] \notin {"idle", "push"}
      PROVE  PaceInv'
  <2>1. Cardinality(Spent)' \in Nat /\ Cardinality(Spent)' >= Cardinality(Spent)
    BY <1>2, SpentGrows
  <2> QED  BY <1>2, <1>a, <1>b, <2>1, PaceKeeps
<1>3. CASE Push(h) \/ PushLost(h)
  <2>1. hpc[h] = "push" /\ budget > 0 /\ budget' = budget - 1
    BY <1>3 DEF Push, PushLost, Spend
  <2>2. hpc' = [hpc EXCEPT ![h] = "mirror"] \/ hpc' = [hpc EXCEPT ![h] = "done"]
    BY <1>3 DEF Push, PushLost, HGoto
  <2> QED  BY <1>1, <2>1, <2>2
<1>4. CASE FetchDetail(h)
  <2>1. CASE budget > 0 /\ Spend /\ HGoto(h, "persist")
    BY <1>1, <1>4, <2>1 DEF FetchDetail, Spend, HGoto
  <2>2. CASE HGoto(h, "done") /\ UNCHANGED budget
    BY <1>2, <1>a, <2>2 DEF HGoto
  <2> QED  BY <1>4, <2>1, <2>2 DEF FetchDetail
<1>5. CASE Validate(h)
  BY <1>2, <1>5, <1>a DEF Validate, HGoto
<1>6. CASE PushFails(h) \/ MirrorLocally(h) \/ PersistRecording(h) \/ StampDetail(h)
  <2>1. budget' = budget /\ \E x \in {"mirror", "stamp", "done"} : hpc' = [hpc EXCEPT ![h] = x]
    BY <1>6 DEF PushFails, MirrorLocally, PersistRecording, StampDetail, HGoto
  <2> QED  BY <1>2, <1>a, <2>1
<1> QED  BY <1>3, <1>4, <1>5, <1>6 DEF HandlerStep

LEMMA PaceWorld ==
  ASSUME FewHandlers, TypeInv, PaceInv, SiteEdit \/ NewWindow \/ CrashRestart \/ UNCHANGED vars
  PROVE  PaceInv'
<1>a. budget \in 0 .. Budget /\ Budget \in Nat /\ Cardinality(Spent) \in Nat
  BY MirrorAssumption, SpentCounts DEF TypeInv, TypeOK
<1>1. budget' \in Nat /\ budget' >= budget
  BY <1>a DEF SiteEdit, NewWindow, CrashRestart, vars
<1>2. \A g \in Handlers : hpc[g] \notin {"idle", "push"} => hpc'[g] \notin {"idle", "push"}
  BY DEF SiteEdit, NewWindow, CrashRestart, vars, handlerVars
<1>3. Cardinality(Spent)' \in Nat /\ Cardinality(Spent)' >= Cardinality(Spent)
  BY <1>2, SpentGrows
<1>4. UNCHANGED <<phase, page, remaining>> /\ \A s \in Syncs : pc'[s] \in {pc[s], "idle"}
  BY DEF SiteEdit, NewWindow, CrashRestart, vars, syncVars
<1> QED  BY <1>a, <1>1, <1>3, <1>4, PaceKeeps

LEMMA PaceInit == Init => PaceInv
BY DEF Init, PaceInv, Paced

(* With one sync and no more other requests than the burst reserve, a sync  *)
(* past its first page is never turned away, for any lists, window and page *)
(* size: it bails in time (the pause-or-bail policy of Sync).               *)
THEOREM FloorSpares429Holds ==
  ASSUME OneSync, FewHandlers
  PROVE  Spec => []FloorSpares429
<1>1. TypeInv /\ PaceInv /\ [Next]_vars => PaceInv'
  <2> SUFFICES ASSUME TypeInv, PaceInv, [Next]_vars PROVE PaceInv'  OBVIOUS
  <2> QED  BY PaceSync, PaceHandler, PaceWorld DEF Next
<1>2. TypeInv /\ PaceInv => FloorSpares429
  BY DEF PaceInv, Past, FloorSpares429, TypeInv, TypeOK
<1> QED  BY <1>1, <1>2, PaceInit, TypeInvHolds, PTL DEF Spec
=============================================================================
