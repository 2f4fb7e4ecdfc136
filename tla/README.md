# Promptbook verification

TLA+ models of Promptbook, a self-hosted manager for a library of theatre
recordings: what its concurrent and failure-prone parts do, TLC configurations
that check them on small instances, and theorems about them proved with TLAPS.
Every definition is translated from the Go source and is tied to its lines in
`PROJECT.json` ("map"); paths below are relative to the repository root.

    tlc -workers 2 -config MCJobRunner.cfg MCJobRunner      # one run
    tlapm JobRunnerProofs.tla                                # one proof module

Sections: inventory, plan, the modules in detail, the runs, the proofs, what is
left out.

## 1. Inventory of the system

`promptbook serve` (`cmd/serve.go`) is one process: an HTTP server (Echo pages and
a gqlgen GraphQL API), a job runner with a pool of two workers, a SQLite database
behind ent, an image cache directory and one or more library roots on disk. The
processes that interact are the HTTP requests, the scheduler goroutine, the job
runs, Encora (the upstream site that owns the user's collection), StageMedia and
TMDB (images), and the user's own edits of files and of the Encora site. One
server runs at a time; it may be stopped or die at any moment.

| Component | State it keeps | Operations | What is hard | What makes it correct |
|---|---|---|---|---|
| **Job runner** `internal/jobs` | `active` flags, the `queue` channel, in-memory last-run state; `job_runs` and `job_state` tables | startup pass, tick, `RunNow`, `EnqueueFromJob`, `enqueue`, `executeRun`, `MarkStarted`, `MarkEnded`, shutdown | `enqueue` releases its lock twice between claim and send; channel full; send on a closed channel; the store fails or its context is cancelled; crash with rows in progress | one run per (job, args) in flight; flags neither lost nor leaked; a run executes at most once; rows only move forward; shutdown drains and ends |
| **Image cache slots** `internal/imagecache`, `internal/server/upload.go`, `internal/jobs/builtin/refresh_*` | files `<slot>` and `<slot>.tmp`; presence of the file is the only record | upload, set from URL, set from a frame, refresh with and without force | no lock; one shared `.tmp`; check, long download, rename; crash or full disk in the middle of a write | a reader never gets a partial image; OK means my image; refreshes do not clobber uploads (they do: section 4) |
| **Encora sync and write-back** `internal/sync`, `internal/server/encora_writes.go`, `apply.go`, `internal/encora` | `recordings`, `collection_entries`, `wants_entries`, `external_ids`, `sync_runs`; the rate limit headers | `Sync`, `PersistRecording`, add / remove collection and wants, apply a format | pagination over a list that changes; rate limit shared with handlers; two syncs at once; lost answers; local mirror written after the push | a complete sync mirrors the lists; local rows come from upstream; the floor avoids 429s; repeated syncs converge |
| **Poster rendering** `internal/imagerender`, `image_choices` | `poster-src`, the saved style row, `poster.jpg` | `Regenerate` from upload, style change, job | style and source read at different times; two renders at once; render fails after the source was saved | `poster.jpg` is the render of the current source and style |
| **Ingest and rename** `internal/ingest`, `internal/rename` | files in the library, `recording_versions`, history, external ids, queue rows | match, plan, apply (move, version row, marker, NFO, extras) part by part, rename on a template change | steps across disk and database that fail half way; stat-then-rename; two imports of one target | no file lost or overwritten; every moved file has its row |
| **Library scanner and import queue** `internal/scanner`, `internal/storage/import_queue.go` | `manual_import_queue` | walk, classify, upsert and prune queue rows, reconcile externally managed folders | runs beside imports that consume the rows; the walk sees a moving directory | an undisturbed pass leaves exactly the rows of what waits; what waits surfaces |
| **Version rows, reconcile, remux** `internal/storage/versions.go`, `reconcile_files.go`, `remux_dvd.go` | `recording_versions`, DVD folders | `UpsertVersion`, `reprobeVersion`, reconcile, `swapVersionRows`, `moveProducedFiles` | rows rewritten whole after seconds of ffprobe; delete-all then insert without a transaction; retries after a partial move | rows and files name each other; a failed remux can be retried |
| **Release format** `internal/releaseformat` | none (pure) | `ComputeFormatString` and its parser | grouping and ties; the rows' ids change under a rename | what is pushed to Encora does not change with a rename |
| **NFO writer and refresh** `internal/nfo`, `internal/nforefresh` | `.nfo` files | write in place, refresh on change | derived file is stale after a failure | the file describes the current rows |
| **Matching, classification** `internal/match`, `internal/scanner/classify.go` | none | guess a recording from a file name; main file, parts, extras and disc scaffolding of a folder | heuristics; classified while it fills up | no file of the folder is left out of an offer; a disc imports whole |
| **HTTP, GraphQL, web** `internal/server`, `internal/web` | none of its own | decode, call the components above, project | only through the components | |
| **Clients, probing, config, CLI, generated code** | | subprocess and network I/O, wiring | their failures, seen from the callers | |

Interactions that decide the interleavings:

- The scheduler, every request that calls `RunNow` and every job that calls
  `EnqueueFromJob` share `Runner.active` and `Runner.queue`. `refresh-encora` fans
  out one run per affected show or recording, so a job is a caller of `enqueue`
  too.
- Jobs and requests replace files of the image cache with no lock; the two meet in
  `<slot>.tmp`.
- `refresh-encora` and `refresh-recording-full` both call `sync.Sync`, on two
  workers possibly at once (`cmd/serve.go`); the handlers that push a change to
  Encora draw on the same rate limit and write the same rows.
- The scanner's pass walks the watched folders while `importQueueEntry` moves
  files out of them; the two share `manual_import_queue` and, for externally
  managed folders, `recording_versions`.
- A rename, a refresh, a remux and the scanner's path update rewrite the version
  rows of one recording with no common lock or transaction.
- Uploads, overlay edits, the images job and the rewrite of the NFO that each
  leaves to a goroutine share `poster-src.jpg`, `poster.jpg`, the choice row and
  `movie.nfo`.
- `serve` cancels the context of everything on SIGTERM and returns when the HTTP
  server has stopped, without waiting for `Runner.Start`: the end of the process
  is a crash as far as the runner can tell.

The hazards, line by line with the properties that cover each, are in
`PROJECT.json` ("hazards").

## 2. Plan

In order of importance to the system; all of it is done.

| Step | Modules | Composes | Abstract statement |
|---|---|---|---|
| 1 | `JobRunner` | scheduler, requests, jobs, workers, store | `JobLedger`: run ids are issued to one live run per key, begun at most once, never revived; `JobRunner` implements it |
| 2 | `ImageSlot` | every writer of one slot, down to blocks and inodes | a reader is served whole images, and who answers OK having written is served its own |
| 3 | `EncoraMirror` | sync, write-back handlers, the rate limit | a complete undisturbed sync mirrors the lists |
| 4 | `ImportQueue` | scanner, queue, ingest, mover | files are conserved; the queue is what waits |
| 5 | `VersionRows` | rename, refresh, remux, drift, an external tool | each row leads to its file when all is quiet |
| 6 | `PosterPipeline` | setters, overlay edits, jobs, render, NFO | one undisturbed request repairs poster and NFO |
| 7 | `FolderDrop`, `ReleaseFormat` | classification with the importer's validation; rows with the string made of them | no file without a role; the string survives a rename |

Theorems in the same order: the runner and its refinement, then for each of 2 to 6
the type invariant and the safety properties its runs check, then the pure rules
of 7; for all values of the constants, under an assumption on them where the code
keeps its promise only there (section 5). The larger operations that would come
next are the copy across devices in the mover and the cascade of NFO rewrites over
the recordings of a show.

## 3. The modules

Abbreviations used throughout: `calm` is a history variable (nothing but the
observed operation has moved since it began), `faults`, `ops`, `edits` and the
`Max...` constants are bounds, a definition marked "Mutant:" is a deliberate bug
that shows a property can fail and is used by no action.

### JobRunner (with MCJobRunner, JobLedger)

Models `internal/jobs/runner.go` and `store.go`. A run is its `job_runs` id; a
dedup key is the pair (job name, canonical args).

| State | In the code |
|---|---|
| `status`, `rowKey`, `nextId`, `dbEnded` | `job_runs.status`, `(job_name, args)`, its primary key, `job_state.last_ended_at`; these survive a crash |
| `active`, `queue`, `lastEnded` | `Runner.active`, `Runner.queue`, `Runner.state[].lastEndedAt` |
| `phase`, `ctxDone` | how far `Start` has come; the server context |
| `todo`, `passNow` | the defs a pass has still to look at, and its `now` |
| `cpc`, `ckey`, `crun` | each caller of `enqueue`: between which two of its three steps, with which key and run |
| `wpc`, `wrun`, `wend`, `wstatus` | each worker: which run, how far, when and how it ended |

`enqueue` takes the mutex only for the claim and for each release, so it is three
actions: `Claim`, `InsertRun` or `InsertFails`, and `Send`, `QueueFull` or
`SendPanics`. `SchedDecide` reads state under the lock, `SchedClaim` or
`SchedRejected` is what `enqueue` then finds. A worker is `Take`, `MarkStarted`,
`JobReturns`, `MarkEnded`, `AfterRun`. Three details follow the code closely:

- `RunNow` inserts under `context.Background()`, the others under the server
  context, which after SIGTERM makes every write fail (`StoreError`).
- A send on the closed channel panics in either branch of the `select`. In a
  request `net/http` recovers it; in a job `invoke` does, and the run that made
  the call ends as failed. In both cases the claimed flag stays set, which is why
  `ActiveIffHeld` claims equality only while the channel is open.
- `hydrateState` gives up at the first row it cannot load; since it walks a Go
  map, any subset may have been loaded.

### ImageSlot (with MCImageSlot)

One slot, e.g. a headshot, and every request that writes it. `slot` and `tmp` are
directory entries that name inodes, `data` the blocks of each inode, `fd` the
inode a request has open: a writer goes on writing to the inode it opened whatever
`<slot>.tmp` names by then. A request goes through the steps of its kind: decode
(upload), remove and fetch (set from URL), copy and clear (frame), probe and fetch
(job), lookup, remove and fetch (forced job); then `Reap`, `OpenTmp`,
`WriteBlock`s, `Rename`, as `writeAtomic` and `copyFileAtomic` do. The callers
ignore the error of `removeIfExists`, so `Remove` may leave the old image, which
`FetchTo` then returns as a success. `frames` says whether the frames cut from the
recording are in their cache: a visit of the picker cuts or clears them
(`PickerVisit`), a frame that is gone when the request comes is taken for a URL,
so that the slot is removed and the download fails, and one that goes later makes
the copy fail (`OpenSource`). A write may fail, which leaves the `.tmp` behind in
one of the two functions and removes it in the other; a crash leaves whatever the
directory holds. Image contents are the name of the request that wrote them; the
bytes, JPEG quality and paths are abstracted away. A crashed inode that only the
dead process had open is left where it is: nothing names it.

### EncoraMirror (with MCEncoraMirror)

`rCol`, `rWants` are Encora's lists, as sets with a fixed order (`Place`), so an
entry that goes away moves those behind it one place up; `col`, `wants`, `known`,
`ext` the local rows (`collection_entries`, `wants_entries`, `recordings`,
`external_ids`). A sync is `Profile`, then per page `Fetch` (or `FetchLimited`,
`Retry`), `WritePage` in one transaction and `NextPage`, which writes the external
ids and then stops at the floor, goes to the next page, to the wants list, or
completes. A handler is `Validate` (local rows), `Push` or `PushFails` or
`PushLost`, and `MirrorLocally`; a detail fetch is `FetchDetail`,
`PersistRecording`, `StampDetail`. `seen` is a history variable: every membership
upstream has ever had. `quiet[s]` says upstream has not changed since sync `s`
started.

Encora itself is not in the repository; its part (`SetUpstream`, `PageOf`,
`Accepted`, `Effect`, `NewWindow`, `SiteEdit`) is modelled from what
`internal/encora/client.go` and its callers rely on, and marked external.
Recording contents, performers, shows, notes, `sync_runs` and history events are
left out: nothing the properties speak of depends on them.

### ImportQueue (with MCImportQueue)

The scanner of watched folders, `manual_import_queue`, the `importQueueEntry`
resolver, `internal/ingest` and the mover. A file is identified with its bytes:
`where[f]` is the path they lie at, so a rename over an existing file shows as
that file being `Gone`.

| State | In the code |
|---|---|
| `where` | the watched folders and the library on disk |
| `queue`, `stale` | `manual_import_queue`; the rows whose `last_seen_at` is before the current pass |
| `versions`, `sentinel` | `recording_versions`; the folders that carry the externally-managed marker |
| `scan` | the pass: rows left to reconcile, folders left to walk, the file in hand |
| `req`, `calls` | each call: the row it loaded and whether it is still there, whether it leaves the folder in place (`externallyManaged`), the parts and extras it has left; how many calls there have been (`MaxCalls`) |

A pass is `ScanStart`, `Reconcile` row by row, then per folder `WalkFolder`,
`ProcessFile`, `EnqueueFile`, and `Sweep`, which evicts what was not seen. A call
is `Begin`, `Preflight`, per part `Part`, `StatTarget`, `Rename`, `Record`, `Nfo`
(`Adopt` instead of preflight and move when the call says externally managed,
which the next call for the same folder need not), `Extra`s, and `Finish` or
`Abort`. The mover stats and renames in two steps. The failures that the code only
logs (marker, version row) let the import go on; a failed NFO ends it and the
first item alone decides whether it was a success, hence whether the row goes.
`Overlap` says whether two calls for one recording may be in progress at once.

### VersionRows (with MCVersionRows)

The `recording_versions` rows of one recording, the files under them (`disk`), and
everything that rewrites either. `rename` is `applyRecordingRename`, version by
version: plan, `RenameLook` and `RenameApply` (the mover's stat and its rename),
delete, insert. `refresh` is the reconcile step, folder by folder (`Pairing` gives
the i-th stale row the i-th unmatched file), then the reprobe: list, stat and
ffprobe, upsert of the row as it was listed. `remux` is `Preserve` (VIDEO_TS to
`original`), `MakeMKV`, `MoveProduced` and `PlaceProduced` (again a stat and a
rename) file by file, `SwapDelete` and `SwapUpsert`, which is not one transaction.
`drift` is the path update of a managed folder. The external tool renames a file
to a name no row has, replaces one by another encode, and moves a managed folder.
A row's `info` is the content its media info was probed from, which is how a row
that describes another file than the one it leads to is told apart. A move across
devices is modelled by what it refuses, an occupied target, not by the states its
copy goes through.

### PosterPipeline (with MCPosterPipeline)

One recording's `poster-src.jpg` (`src`), choice row (`choice`), `poster.jpg`
(`poster`: its picture, which is a source and a style, and its mtime) and the
`?v=` under which `movie.nfo` names it (`nfo`). Every kind of request goes through
the steps of its handler and then through `Regenerate` (`LoadChoice`, `Decode`,
`Publish`): the style is read before the source is, and both before the rename.
What follows the render is decided by the kind: uploads answer and leave the
rewrite of the NFO to a goroutine, the job rewrites before it ends, the overlay
handlers do not rewrite at all. The removals before a download may fail, which the
code ignores. `FanOut` is a job that `refresh-encora` starts for a recording that
lacks its poster or its fanart, hence at any time here, where fanart is not
modelled; a pass that ends before it, or a channel too full to take the job, is a
step not taken. How bytes get into a slot is `ImageSlot`'s matter: here a slot is
replaced in one step. `movie.nfo` is written in place, so a crash or a failure
there may leave it `Torn`.

### FolderDrop, ReleaseFormat (composed by MCPureRules)

Pure rules, explored by letting their input grow. `FolderDrop` is `classifyFolder`
and `classifyDVD` over a folder in which files settle one by one, together with
the two things the importer does with the offer: `ValidateAssignments`, the shape
check, and `DvdDestSubfolderFor`, where the VOBs of a disc go. `ReleaseFormat` is
`ListVersions`, `ComputeFormatString` and `Compose` over rows that are inserted,
reprobed, deleted and, by a rename, reinserted under a new id. An offer is
modelled branch by branch; its extras are the list of what each loop of the branch
appends. The code's lists of files are all in the order of `filepath.WalkDir`
until it sorts them, so a list is modelled by the set of its files, and `Sorting`
(used by both modules) gives the sorted list of a set where a loop or an index
depends on the order; a stable sort is a sort by the key and then by the place in
the input. `Leader` is the loop of `pickLargest` and
`pickLargestWithRootTiebreak`, file by file. `MCPureRules` runs both in one
instance: they share no state, and one moves while the other is at its start.

## 4. The runs

Runs that pass:

| Run | Instance | Shows |
|---|---|---|
| `job_runner` | two jobs (`encora` periodic and fanning out, `images` on startup), their two keys, two workers, one request, a channel of two slots, two rows, one clock tick, no store failure; SIGTERM at any time; with fairness | type, single flight, no scheduler panic, an honest record while healthy; accepted runs leave and shutdown completes |
| `job_runner_crash` | the same with one worker, one slot, three rows, any write may fail, one crash | exact flags through failed inserts and full channels; rows only move forward over the crash; the runner implements `JobLedger` |
| `image_slot` | an upload, a frame request, a job and a forced job one after the other in any order, frames that come and go, failing downloads, writes and removals, two crashes, images of one and two blocks | published images are whole, OK after a write means my image |
| `encora_mirror` | two recordings, pages of one, six requests per window, floor 1, one edit, one crash, a detail fetch; with fairness | a complete undisturbed sync mirrors the lists, the floor keeps it from a 429, the mirror converges |
| `encora_mirror_handlers` | one recording, two formats, an apply, an unwant and a detail fetch, failures and lost answers, an edit | local rows come from upstream |
| `import_queue` | two folders: two parts (the first here, late or missing) and an extra, one rival for the same library name; two calls for two recordings, each moving or leaving in place, whole or main file only; one fault or crash; with fairness | no file destroyed, rows describe their file or were left behind by a move of an adopted one, an undisturbed pass is exact, what waits surfaces |
| `version_rows` | three recordings: a DVD of two VOBs under remux, refresh and rename; two parts in the library under rename, refresh and edits; a managed folder under drift, refresh and edits; four operations one after the other, two edits, two faults or crashes | rows are true when quiet, no mixture of old and new rows, parts keep their file, a refresh heals |
| `poster` | an imported recording with a poster upstream and a pro-shot without either; two overlapping actors, two requests, scheduled jobs, one fault or crash, two clock values; with fairness | an undisturbed request repairs the poster and the NFO, a missing poster comes back if jobs for it keep being taken |
| `pure_rules` | every subset of fourteen files of one folder, two discs among them; up to three version rows of two formats, three heights, two sizes | every file has a role, a disc imports whole and apart from the other, the main file is undominated, the format string survives a rename |

Why the bounds are enough. The runner's hazards need two runs of one key and a
third party that interferes: two rows make the overlap, three make an overflow
followed by a reuse of the key, and the second worker executes one run while the
other holds another. A clock of one tick distinguishes "never ran" and "ran within
the interval" from "interval over". An image of two blocks is the shortest that
can be half-written, and an old image longer than a new one shows a missing
truncation. Two requests in progress are all the lost upload takes; the passing
run has one at a time, since two writers of one `.tmp` can publish a mixed file
(below). Two recordings in pages of one make an entry shift over a page boundary
when the other is removed; six requests with a floor of one suffice for a full
sync (one profile, two collection and two wants pages) beside one detail fetch.
Two parts are the fewest of which the first can land and the second fail, and two
calls and a pass the fewest that make a queue row disappear under a call that
holds it; two calls (`MaxCalls`) are also the fewest of which the first adopts and
fails and the second moves. The two rivals for one library name are of different
folders. In `version_rows` four operations let a failed remux be refreshed,
renamed and retried, and two edits exchange two names. Two actors make a poster
request overlap another's render or a background rewrite of the NFO, and two
requests let the second run alone over whatever the first has left. The fourteen
files hold videos, audio and part markers at the root and below it and two discs
of which one has two title sets; three rows hold a group of two and a row that may
move between them.

Fairness. `JobRunner`: goroutines that can run do run (weak fairness of the
scheduler's steps, of the callers inside `enqueue` and of the workers); a job's
`Run` returns (strong fairness, as its own calls of `EnqueueFromJob` may
interleave without end); the `select` of `Start` picks among ready branches at
random, so a cancelled context is noticed although ticks go on (strong fairness of
`CloseQueue`). No fairness for requests, the signal, time or crashes.
`EncoraMirror`: the scheduler keeps starting syncs, a sync in progress goes on,
rate-limit windows pass; none for edits, handlers or crashes. `ImportQueue`: the
interval job keeps starting passes and a pass goes on (`WF_vars(Scanner)`); nobody
has to import anything and no download has to arrive. `PosterPipeline`: a
goroutine that has begun goes on. That jobs for the recording are started again
and again is no fairness of the code, since a pass may end early and a full
channel turn them away, so it is the premise of `MissingPosterIsFilled`. No
fairness for requests.

Runs that show the code deviating from what it says of itself (each is a
"finding", with the quoted comment):

| Run | Behaviour |
|---|---|
| `image_slot_upload_lost` | a refresh without force looks once, downloads, and renames over an upload that was answered OK meanwhile, where the job's comment has a manual upload survive the next sync |
| `import_extras_lost` | two folders that both hold an extra of one name, imported to one recording: the second `os.Rename` replaces the first file, where the scanner promises that every file is preserved and the mover that it never overwrites |
| `version_rows_overlap` | a rename that overlaps a refresh leaves a row at the old path although nothing failed: the reprobe upserts, by path, the row it listed before the rename |

Behaviours the models have and no run is spent on.

*Job runner.*

- A run turned away by a full channel leaves a `job_runs` row that says queued for
  ever (`runner.go:370`), where `job.go:4-6` has the row describe the run.
- Runs drained after SIGTERM execute under the cancelled context, so neither their
  start nor their end is stored (`runner.go:421`).
- `tick` decides under a lock it releases before `enqueue` claims the key
  (`runner.go:253`), so a run that starts and ends in between is followed by
  another inside its interval. Harmless but for the extra run.
- Two runs of one job with different arguments can write `job_state` and the
  in-memory state in opposite orders (`runner.go:485`).

*Image slots.*

- Two writers of one slot share `<slot>.tmp` and can publish a mixed or partial
  file (`cache.go:590`, against `upload.go:358-359`).
- A set-from-URL answers OK with another's image: with that of an overlapping
  request, since both remove first and fetch only into an empty slot, or with the
  old one when the removal failed (`upload.go:315`, error ignored).
- A forced refresh removes the image before the download; if that fails the slot
  stays empty (`refresh_show_images.go:138`).
- A frame request whose frame has been cleared empties the slot: its path is taken
  for a URL, the fanart is removed and the download fails (`upload.go:297`, 315).

*Encora.*

- `handleAddToCollection` mirrors a push that failed: the error value of
  `callDestructive` is that of `c.JSON`, which is nil (`encora_writes.go:259`).
- A recording removed upstream stays in the local collection: a sync only upserts
  (`sync.go:384`).
- A collection that needs more requests than one window is never finished and its
  wants list never read: every sync starts at page 1 and stops at the floor
  (`sync.go:294`). `EventuallyMirrored` is checked for lists that fit.
- A page fetched before a format push and written after it undoes the local mirror
  until the next sync (`sync.go:285`).

*Import.*

- `overwrite=true` passes the preflight and then meets the mover, which refuses
  every occupied target, so the re-submission the message asks for cannot succeed.
- A duplicate is a file of the same size at the destination; its queue row goes,
  the file stays and the next pass queues it again.
- The preflight looks at one destination of a DVD and the import uses another
  (`DiscDestSubfolder` against `dvdDestSubfolderFor`; not in the model, which has
  no discs in `ImportQueue`).
- With overlapping calls for one name the target may appear between the mover's
  stat and its rename: `NothingLost` needs `Overlap = FALSE`.
- The first item alone decides the success of a multi-part import: when the second
  fails, the queue row goes all the same, and the next pass queues the rest.
- If the version row of a managed folder fails, the marker is there already and
  the folder is never queued again.
- A managed import that failed and is retried as a move leaves a row at the
  incoming path (`enrichment_helpers.go:1510`): the exception `LeftBehind` in
  `RowsDescribeTheirFile`.

*Version rows.*

- Two overlapping renames of a disc whose VOBs render to one name both find the
  target free, and the second rename replaces the first's file (`mover.go:38`).
- `swapVersionRows` deletes all rows first: a failure after that leaves none, and
  a retry is refused because no row lies in VIDEO_TS (`remux_dvd.go:581`).
- A remux that failed half way through its moves leaves an `.mkv` at the
  destination, which every retry takes for a conflict.
- A failed makemkvcon leaves the rows pointing into the VIDEO_TS that was moved.
- Reconciliation looks at existence only: a tool that renames one part to a name
  another stale row has exchanges the two parts.
- A rename of a DVD's VOBs uses neither the disc folder nor the part index the
  import used.

*Poster and NFO.*

- `refresh-encora` offers a job for every recording without poster or fanart, in a
  fixed order, to a channel of 64: enough recordings that stay incomplete can
  crowd out a later one on every pass (`builtin.go:155`, `runner.go:361`).
- Two renders at once can publish the older style (`render.go:61`).
- A render that fails after an upload leaves the old poster, and the unforced job
  skips it because there is one (`upload.go:202`).
- Overlay edits render a new poster and do not rewrite the NFO, whose `?v=` then
  is that of the old one, where `nforefresh/service.go:1-8` has the file rewritten
  whenever the poster changes on disk.
- A set-from-URL whose download fails has removed the poster and leaves an NFO
  with the mtime of the old one.
- Two background rewrites may write in the reverse order of their reads; two
  posters of one second have one mtime.
- The first text or layout override of a pro-shot makes its choice row exist,
  which switches the overlay band on.
- A crash between the removal of source and poster leaves a poster without its
  source; later overlay edits then change nothing.

*Classification and format.*

- A disc with one content VOB yields a lone part 1, which the importer's
  validation refuses; so are duplicate or gapped part markers. `DiscsImportWhole`
  says "two content VOBs or more" for that reason.
- One small root video is preferred to a much larger nested one.
- Title sets of one directory interleave (VTS_01_1, VTS_02_1, VTS_01_2, ...),
  since VOBs are sorted by chunk before their name.
- VOBs of one name flat and in the VIDEO_TS of the same disc go to one
  destination, as does scaffolding of two discs when only one has content.
- Heights with one label (1080, 1078) are not merged; equal sizes at one height
  are ordered by row id, so there a rename can change the string (`Ties`).

## 5. The proofs

| Module | Theorems | For every value of the constants, assuming |
|---|---|---|
| `JobRunnerProofs` | `TypeCorrect`, `SingleFlightHolds`, `HeldIsActiveHolds`, `RowMovesForwardHolds`, `SchedulerNeverPanicsHolds`, `StoppedIsDrainedHolds`, `FlagsExact` (`ActiveIffHeld`), `NoOverflow` (no queue-full while each key has a slot), `RecordHonestHolds`, `RunnerImplementsLedger` (`Spec => ImplementsLedger`) | `ConstantsAssumption`: every key belongs to a registered job; scheduler, workers and requests are different processes |
| `ImageSlotProofs` | `TypeCorrect`; `PublishedIsWholeHolds`, `OkIsServedHolds` | nothing more; `OneAtATime` for the other two |
| `EncoraMirrorProofs` | `TypeCorrect`; `RowsComeFromUpstreamHolds`; `CompleteSyncMirrorsHolds`; `FloorSpares429Holds` | nothing more; `NoAdds` (see above why); `OneSync`, `NoMirror`; `OneSync`, `FewHandlers` |
| `ImportQueueProofs` | `TypeCorrect`, `PassIsExactHolds`; `NothingLostHolds`, `RowsDescribeTheirFileHolds` | `FinitenessAssumption`; also `Separate` |
| `PosterPipelineProofs` | `TypeCorrect`, `PosterIsCurrentHolds`, `NfoIsCurrentHolds` | nothing more, any overlap |
| `VersionRowsProofs` | `TypeCorrect` (row ids and paths stay unique) | nothing more, any overlap |
| `VersionRowsAlone` | `RefreshHealsHolds`; `RowsTrueWhenQuietHolds`; `NeverHalfSwappedHolds`; `PartsKeepTheirFileHolds` | nothing more, any overlap; `Sole` and `TemplatesApart` for the other three, with `TrueStart`, with `SwapStart`, and with `TitlesTell`, `NamesTell` and `DiscStart` or `NamedStart` (below) |
| `PureRulesProofs` | `EveryFileHasARoleHolds`, `MainIsUndominatedHolds`, `FormatSurvivesRenameHolds`; `DiscsImportWholeHolds` | `ContentsAssumption`, `FormatAssumption`; also `VobsApart`, `NoNestedVideoTS` |

The third column comes on top of what the modules themselves assume of their
constants: that sets of actors, paths or files are finite and apart, and that the
layout of paths is one (in `VersionRows`: a path is a folder and a number that
orders the names in it, VIDEO_TS and `original` mirror each other).

*Single flight.* `SingleFlight` is not inductive: an action that clears a flag
could free a key another run still holds, and the next claim would then break it.
The inductive invariant is `TypeOK /\ FlightInv`, with `FlightInv == SingleFlight
/\ HeldIsActive`. `HeldIsActive` says that every key held by a caller, a channel
slot or a worker is flagged, that the run behind it is already inserted (its id is
below `nextId`, so `InsertRun` cannot change its key), and that only a worker
whose job is running is inside `enqueue` (so the panic of a job's send ends that
job's run and no other). `FlightInvInductive` has one step per action; the one
that takes work is `InsertRun`, which changes the map from runs to keys under
everything in flight.

*Rows of the runner.* `RowMatchesPlace` ties the status of a row to the place of
its run (offered, queued or just taken: queued; executing: queued or running,
since `MarkStarted` may fail) and says that ids below `nextId` are exactly the
rows. It is inductive relative to `FlightInv`, which is what keeps the row that
one worker writes from being another's. The action property is then a case split
on the three actions that write `job_runs`.

*Flags and overflow.* `NoFlagLeaks` is the converse of `HeldIsActive` while the
channel is open. It fails afterwards: a send on the closed channel panics before
the release, which is why `ActiveIffHeld` excludes that phase. For `NoOverflow`
the channel's slots map injectively to `Keys \ {ckey[c]}` for any caller `c` about
to send, and the library's counting theorems do the rest.

*Honest rows.* `RecordHonest` speaks of a healthy runner: the store answers, the
context is not cancelled, the keys fit into the channel. Its invariant `RecordInv`
says where a row that is not final has its run (`HonestRows`), that a worker which
has recorded a run has recorded an outcome, which is what lets `AfterRun` drop the
run, and that only a cancelled context closes the channel. It needs `NoOverflow`:
a full channel would leave a queued row with no run behind it. The drain after a
cancelled context, which does leave the record behind the fact, is outside the
theorem (`Healthy` ends with the context).

*Refinement.* The mapping is `issued <- 1 .. (nextId - 1)`, `keyOf <- rowKey`,
`live <- LiveRuns`, `executing <- ExecutingRuns`. `InsertRun` issues, `Take`
begins, `AfterRun`, `QueueFull` and `SendPanics` retire, a restart forgets; `Send`
only moves a run between places and, like everything else, stutters.

*Image slots.* The invariant `LoneInv` of requests that do not overlap says that
at most one is in progress (`Alone`), that no directory entry names the inode of a
request that has not opened its file (`Unnamed`), and that the inode a writer has
open is the one `<slot>.tmp` names and holds the blocks it has written and nothing
else (`WritesItsOwn`). `PublishedIsWhole` is one of its conjuncts. When a write is
done the `.tmp` is the request's whole image and nobody else is there to change it
before the rename, nor, for a frame, before the answer. That removals may fail
costs nothing: what is not removed is still whole.

*Mirror.* `SeenInv`: upstream's lists are within `seen`, and so are the rows, the
pages and the answers on their way to them; a list can only grow by what is then
seen. `MirrorInv` is the sweep argument: while upstream stands still, the first
`n` places of the list are in the rows (`SoFar`), where `n` is what the pages
written so far cover (`Covered`); an entry has a place below the list's length, so
after the last page everything is covered. `PaceInv`: the budget left in the
window plus the number of handlers that may have made their request (`Spent`) is
at least the `remaining` the sync last read, and the sync goes on only above the
floor, so at most a burst reserve of handlers cannot use it up.

*Imports.* `SafeInv` has five parts: `Places` (a file is at its source, or at a
library or extras path only it can have, or not there), `RowsLead` (a row leads to
its file, unless it is at the path where that file came in), `Apart` (no two files
at one place), `OneCallEach` (no two calls for one recording) and `AllFree` (a
destination found free at the stat is free at the rename). The last is where
`Separate` is needed: no two calls for one recording at once and no two extras of
one name, which is what the finding violates.

*A pass.* `PassInv` describes a pass that nothing has disturbed so far: what it
has stamped waits, a folder it is done with is stamped if it waits, and the one it
has in hand is neither yet. At `Sweep` no folder is left, so what is stamped is
what waits, and what is not stamped is evicted. It needs no `Separate`: the rows
of the queue do not depend on how calls overlap, as long as none moves during the
pass.

*Poster.* `PosterIsCurrent` is a statement about calm requests, so its invariant,
`LoneInv`, is too: while `calm` holds at most one actor is busy, what it has read
is still what is there, and when nobody is busy the last request is done.
Everything done before the calm began is arbitrary, which is what makes it a
repair property.

*Version rows.* `TypeOK` carries the two unique indexes of the table; the
invariant `Inv` splits it into `DiskOK`, `TableOK`, `OpsOK` and `CountersOK`.

*Version rows, one operation at a time.* `Sole` says that at most one operation is
in progress; without it `RowsTrueWhenQuiet` is false (`version_rows_overlap`).
`TemplatesApart` asks of the layout that every title has a path of its own, that
renaming a canonical file changes nothing and that no template names VIDEO_TS.

- `RowsTrueWhenQuiet`: `QuietInv` says for the step at hand what is out of place,
  in a rename the one file that has moved before its row (`Moving`), in a remux
  the VOB rows until the swap, and that all else is `Settled`. `TrueStart`: the
  rows are true at the start, and the paths of titles are free while a VOB is
  left.
- `NeverHalfSwapped` holds through failures and crashes, so `SwapInv` cannot speak
  of the phases of an operation. It says that either no VOB (`VobsGone`) or no
  title (`TitlesUnknown`) is known to the table, to what the operation has listed,
  or to the row it carries; `SwapDelete` goes from the second to the first.
  `SwapStart` leaves out a VOB row beside a row that is stale, or may become so by
  a rename that is cut off or by the external tool: after a remux that dies
  between moving its titles and the swap, a refresh may pair that row with a
  title's file.
- `RefreshHeals` needs none of this and holds after any history of overlaps,
  failures and crashes. `HealInv` follows the calm refresh: the folders behind it
  have their files, or a pair still to be written, or unequal counts. The step
  from counts to pairs is the counting lemma that two finite sets of numbers of
  one size pair by rank, one to one and onto.
- `PartsKeepTheirFile`: of a disc, `DiscInv` says that there is never anything to
  pair, since every VOB has a row and every other row its canonical file. Of any
  other recording, `NamedInv` gives each path a slot, the part its name is for:
  files and rows have different slots, a row's slot has a file in its folder or in
  the one that was moved, and as names in order are slots in order (`NamesTell`)
  pairing by rank pairs by slot. A start with two files of one slot, or a VOB
  without a row beside a stale row, is outside the theorem: the refresh would pair
  by name what does not belong together.

Every hypothesis holds of the checked instance: `MCVersionRows` states so in
`InstanceIsApart`, which TLC evaluates.

*Pure rules.* Sorting by a strict total order lists every element once, in order
(`SortedEnumerates`): the rank of an element, the number of those before it, is an
injection into as many numbers as there are elements, hence onto. With that and
the totality of the orders (`BeforeIsTotal`, `PartOrderIsTotal`, ...)
`EveryFileHasARole` is a case split on the branches of `ClassifyFolder`: for each,
that the sets its loops append are disjoint and miss no file (`TwoLoops`,
`ThreeLoops`, and for a disc what the loop over the files does with each kind).
`MainIsUndominated` rests on `LeaderIsUnbettered`: a loop that keeps a leader
under a strict order ends with one that nothing in the list betters.
`DiscsImportWhole` compares the destinations of two VOBs with the common source
folder; `VobsApart` (no two content VOBs of one directory share title set and
chunk) and `NoNestedVideoTS` exclude names that differ in letter case only and a
VIDEO_TS within another. `FormatSurvivesRename` says that the string depends on
the rows as a bag: the list of lines is the one list of them in which each line is
above the next (`FormatEnumerates`), "above" (`Beats`) is asymmetric and mentions
no position, and such a list is unique (`EnumerationsAgree`). Without ties the
first occurrence of a group in size order is what puts it above another. The sum
of sizes does not depend on positions either (`SumRenumbered`).

These facts are about recursive functions and sums, so they need induction over
data. The library states induction for an operator, which the provers cannot
instantiate; `Induction` states it for a set of numbers (0 is in it, and with n
also n + 1), derived from the well-foundedness of `<` on Nat, and each use defines
the set of numbers for which its claim holds. The modules declare no RECURSIVE
operator.

Only model-checked: the properties that need fairness (`AcceptedRunsLeave`,
`ShutdownCompletes`, `EventuallyMirrored`, `ArrivalsSurface`,
`MissingPosterIsFilled`), since liveness and ENABLED are out of the prover's
reach, and what the theorems' hypotheses leave out, which the instances do not
contain either.

## 6. Not modelled

Listed per component in `PROJECT.json`. Most of the implementation's lines are
generated by ent and gqlgen (`internal/ent`,
`internal/server/graph/generated.go`): they are assumed to do one SQL statement,
or one transaction, as called, and no definition stands for them, so that only a
small share of all lines is mapped. Of the handwritten code these parts are left
out:

- `internal/match`: parsing and scoring of names are regular expressions and
  weights, better served by tables of examples; likewise which kind of extra a
  file name suggests.
- Pages, GraphQL projections and the decoding of requests: they read, or call what
  is modelled.
- The composition of pictures, the XML layout of NFOs, the wording of labels, the
  parsing of subprocess output, configuration, migrations and one-shot commands.
- The copy across devices in the mover, directory extras, subtitles, history
  events, notes, and the manual scan of a library root.
- Clients of StageMedia and TMDB: only that they answer, fail or have nothing.

Two simultaneous syncs are expressible in `EncoraMirror` (`Syncs`) but no checked
instance has two (that rows come from upstream is proved for any number); SQLite
itself is assumed to serialise transactions.
