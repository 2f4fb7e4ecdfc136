------------------------------ MODULE JobRunner ------------------------------
(***************************************************************************)
(* The in-process job runner of `promptbook serve`: internal/jobs/runner.go *)
(* and the job_runs / job_state tables behind internal/jobs/store.go.       *)
(*                                                                         *)
(* One scheduler goroutine (Runner.Start), a pool of workers, and any       *)
(* number of HTTP / GraphQL requests share                                  *)
(*   - `active`, the set of dedup keys (job name, canonical args) in        *)
(*     flight, guarded by Runner.mu;                                        *)
(*   - `queue`, the buffered channel that carries runs to the workers;      *)
(*   - `lastEnded`, the in-memory copy of job_state.                        *)
(* Three kinds of process call Runner.enqueue: the scheduler (startup pass  *)
(* and tick), requests (RunNow) and a job already running on a worker       *)
(* (EnqueueFromJob).  enqueue drops the mutex between its three steps, so   *)
(* each step is an action: claim the key, insert the row, send on the       *)
(* channel.                                                                 *)
(*                                                                         *)
(* A run is its job_runs id.  The row's status and key survive a crash;     *)
(* everything else is lost.                                                 *)
(***************************************************************************)
EXTENDS Integers, Sequences, FiniteSets

CONSTANTS
  Names,          \* registered jobs; the def map never changes after Start
  Keys,           \* dedup keys in use, (name, canonical args)
  NoKey,          \* the key of a row not inserted yet
  JobOf,          \* the job a key names
  DefaultKey,     \* the key of a job's DefaultArgs
  Interval,       \* JobDef.Interval in ticks of the clock, 0 = manual only
  StartupJobs,    \* the jobs flagged OnStartup
  FanOutJobs,     \* the jobs whose Run calls EnqueueFromJob
  Workers,        \* the pool (two in production)
  Clients,        \* requests that may call RunNow concurrently
  Sched,          \* the goroutine inside Runner.Start
  QueueCapacity,  \* the channel's buffer (64 in production)
  StoreMayFail,   \* may a write to SQLite fail while ctx is live?
  MaxRuns,        \* bound: rows job_runs can hold; an insert beyond it fails
  MaxTime,        \* bound on the clock
  MaxCrashes      \* bound on restarts

Never == -1
RunIds == 1 .. MaxRuns
NoRun == 0
Callers == Workers \cup Clients \cup {Sched}

ASSUME ConstantsAssumption ==
  /\ JobOf \in [Keys -> Names]
  /\ DefaultKey \in [Names -> Keys]
  /\ \A n \in Names : JobOf[DefaultKey[n]] = n
  /\ Interval \in [Names -> Nat]
  /\ StartupJobs \subseteq Names
  /\ FanOutJobs \subseteq Names
  /\ NoKey \notin Keys
  /\ Workers \cap Clients = {}
  /\ Sched \notin Workers \cup Clients
  /\ QueueCapacity \in Nat
  /\ StoreMayFail \in BOOLEAN
  /\ MaxRuns \in Nat
  /\ MaxTime \in Nat
  /\ MaxCrashes \in Nat

VARIABLES
  \* on disk
  status,     \* job_runs.status by run id, "none" before the insert
  rowKey,     \* job_runs.(job_name, args) by run id
  nextId,     \* the id the next insert is given
  dbEnded,    \* job_state.last_ended_at by job
  \* in the Runner
  phase,      \* how far Runner.Start has come
  ctxDone,    \* the server context is cancelled
  active,     \* Runner.active
  queue,      \* Runner.queue
  lastEnded,  \* Runner.state[name].lastEndedAt
  \* the scheduler's pass in progress
  todo,       \* the defs the pass has still to look at
  passNow,    \* `now`, read once when the pass began
  \* callers of enqueue
  cpc, ckey, crun,
  \* workers
  wpc, wrun, wend, wstatus,
  \* environment
  clock, crashes

stored == <<status, rowKey, nextId, dbEnded>>
pass == <<todo, passNow>>
callers == <<cpc, ckey, crun>>
workers == <<wpc, wrun, wend, wstatus>>
env == <<clock, crashes>>
vars == <<status, rowKey, nextId, dbEnded, phase, ctxDone, active, queue,
          lastEnded, todo, passNow, cpc, ckey, crun, wpc, wrun, wend, wstatus,
          clock, crashes>>

Statuses == {"queued", "running", "succeeded", "failed"}
Terminal == {"succeeded", "failed"}
Phases == {"hydrate", "startup", "loop", "draining", "stopped"}
Time == {Never} \cup (0 .. MaxTime)

\* close(r.queue) has been called.
Closed == phase \in {"draining", "stopped"}

TypeOK ==
  /\ status \in [RunIds -> Statuses \cup {"none"}]
  /\ rowKey \in [RunIds -> Keys \cup {NoKey}]
  /\ nextId \in 1 .. (MaxRuns + 1)
  /\ dbEnded \in [Names -> Time]
  /\ phase \in Phases
  /\ ctxDone \in BOOLEAN
  /\ active \in SUBSET Keys
  /\ queue \in Seq(RunIds)
  /\ lastEnded \in [Names -> Time]
  /\ todo \in SUBSET Names
  /\ passNow \in 0 .. MaxTime
  /\ cpc \in [Callers -> {"idle", "claim", "insert", "send"}]
  /\ ckey \in [Callers -> Keys \cup {NoKey}]
  /\ crun \in [Callers -> RunIds \cup {NoRun}]
  /\ \A c \in Callers : /\ cpc[c] # "idle" => ckey[c] \in Keys
                        /\ cpc[c] = "send" => crun[c] \in RunIds
  /\ wpc \in [Workers -> {"idle", "taken", "running", "ended", "recorded"}]
  /\ wrun \in [Workers -> RunIds \cup {NoRun}]
  /\ wend \in [Workers -> 0 .. MaxTime]
  /\ wstatus \in [Workers -> Terminal]
  /\ clock \in 0 .. MaxTime
  /\ crashes \in 0 .. MaxCrashes

-----------------------------------------------------------------------------
(* The state a fresh process starts from, over whatever the disk holds.     *)

Boot ==
  /\ phase' = "hydrate"
  /\ ctxDone' = FALSE
  /\ active' = {}
  /\ queue' = << >>
  /\ lastEnded' = [n \in Names |-> Never]
  /\ todo' = {}
  /\ passNow' = 0
  /\ cpc' = [c \in Callers |-> "idle"]
  /\ ckey' = [c \in Callers |-> NoKey]
  /\ crun' = [c \in Callers |-> NoRun]
  /\ wpc' = [w \in Workers |-> "idle"]
  /\ wrun' = [w \in Workers |-> NoRun]
  /\ wend' = [w \in Workers |-> 0]
  /\ wstatus' = [w \in Workers |-> "failed"]

Init ==
  /\ status = [r \in RunIds |-> "none"]
  /\ rowKey = [r \in RunIds |-> NoKey]
  /\ nextId = 1
  /\ dbEnded = [n \in Names |-> Never]
  /\ phase = "hydrate"
  /\ ctxDone = FALSE
  /\ active = {}
  /\ queue = << >>
  /\ lastEnded = [n \in Names |-> Never]
  /\ todo = {}
  /\ passNow = 0
  /\ cpc = [c \in Callers |-> "idle"]
  /\ ckey = [c \in Callers |-> NoKey]
  /\ crun = [c \in Callers |-> NoRun]
  /\ wpc = [w \in Workers |-> "idle"]
  /\ wrun = [w \in Workers |-> NoRun]
  /\ wend = [w \in Workers |-> 0]
  /\ wstatus = [w \in Workers |-> "failed"]
  /\ clock = 0
  /\ crashes = 0

(* A write under the Runner's context succeeds, except that SQLite may      *)
(* refuse it and that database/sql refuses every call on a cancelled        *)
(* context.                                                                 *)
StoreOK == ~ctxDone
StoreError == StoreMayFail \/ ctxDone

-----------------------------------------------------------------------------
(* Runner.enqueue, in three steps.                                          *)

\* The caller leaves enqueue; the scheduler goes on to its next def.
Return(c) ==
  /\ cpc' = [cpc EXCEPT ![c] = "idle"]
  /\ ckey' = [ckey EXCEPT ![c] = NoKey]
  /\ crun' = [crun EXCEPT ![c] = NoRun]
  /\ todo' = IF c = Sched THEN todo \ {JobOf[ckey[c]]} ELSE todo

\* Mutant: the flag is set without being tested.
ClaimUnchecked(c, k) ==
  /\ active' = active \cup {k}
  /\ cpc' = [cpc EXCEPT ![c] = "insert"]
  /\ ckey' = [ckey EXCEPT ![c] = k]
  /\ UNCHANGED <<stored, phase, ctxDone, queue, lastEnded, pass, crun,
                 workers, env>>

\* Test and set of r.active[key] under r.mu.
Claim(c, k) ==
  /\ k \notin active
  /\ active' = active \cup {k}
  /\ cpc' = [cpc EXCEPT ![c] = "insert"]
  /\ ckey' = [ckey EXCEPT ![c] = k]
  /\ UNCHANGED <<stored, phase, ctxDone, queue, lastEnded, pass, crun,
                 workers, env>>

\* RunNow from a request.  The "already active" answer changes nothing.
RunNow(c, k) ==
  /\ cpc[c] = "idle"
  /\ Claim(c, k)

\* EnqueueFromJob from inside a running job.
EnqueueFromJob(w, k) ==
  /\ wpc[w] = "running"
  /\ JobOf[rowKey[wrun[w]]] \in FanOutJobs
  /\ cpc[w] = "idle"
  /\ Claim(w, k)

SchedClaim ==
  /\ cpc[Sched] = "claim"
  /\ Claim(Sched, ckey[Sched])

\* The scheduler logs "already active" and moves on.
SchedRejected ==
  /\ cpc[Sched] = "claim"
  /\ ckey[Sched] \in active
  /\ Return(Sched)
  /\ UNCHANGED <<stored, phase, ctxDone, active, queue, lastEnded, passNow,
                 workers, env>>

\* Mutant: the primary key may be given out twice.
InsertRunReusingId(c) ==
  /\ cpc[c] = "insert"
  /\ c \in Clients \/ StoreOK
  /\ nextId <= MaxRuns
  /\ status' = [status EXCEPT ![nextId] = "queued"]
  /\ rowKey' = [rowKey EXCEPT ![nextId] = ckey[c]]
  /\ nextId' \in {nextId, nextId + 1}
  /\ crun' = [crun EXCEPT ![c] = nextId]
  /\ cpc' = [cpc EXCEPT ![c] = "send"]
  /\ UNCHANGED <<dbEnded, phase, ctxDone, active, queue, lastEnded, pass,
                 ckey, workers, env>>

\* RunNow inserts under context.Background(), so only the other callers
\* are refused once ctx is cancelled.
InsertRun(c) ==
  /\ cpc[c] = "insert"
  /\ c \in Clients \/ StoreOK
  /\ nextId <= MaxRuns
  /\ status' = [status EXCEPT ![nextId] = "queued"]
  /\ rowKey' = [rowKey EXCEPT ![nextId] = ckey[c]]
  /\ nextId' = nextId + 1
  /\ crun' = [crun EXCEPT ![c] = nextId]
  /\ cpc' = [cpc EXCEPT ![c] = "send"]
  /\ UNCHANGED <<dbEnded, phase, ctxDone, active, queue, lastEnded, pass,
                 ckey, workers, env>>

\* Mutant: the roll-back clears the whole map.
InsertFailsReleasingAll(c) ==
  /\ cpc[c] = "insert"
  /\ StoreMayFail \/ (c \notin Clients /\ ctxDone) \/ nextId > MaxRuns
  /\ active' = {}
  /\ Return(c)
  /\ UNCHANGED <<stored, phase, ctxDone, queue, lastEnded, passNow,
                 workers, env>>

\* A failed insert rolls the active flag back.
InsertFails(c) ==
  /\ cpc[c] = "insert"
  /\ StoreMayFail \/ (c \notin Clients /\ ctxDone) \/ nextId > MaxRuns
  /\ active' = active \ {ckey[c]}
  /\ Return(c)
  /\ UNCHANGED <<stored, phase, ctxDone, queue, lastEnded, passNow,
                 workers, env>>

Send(c) ==
  /\ cpc[c] = "send"
  /\ ~Closed
  /\ Len(queue) < QueueCapacity
  /\ queue' = Append(queue, crun[c])
  /\ Return(c)
  /\ UNCHANGED <<stored, phase, ctxDone, active, lastEnded, passNow,
                 workers, env>>

\* Mutant: the default branch returns without releasing the flag.
QueueFullKeepingFlag(c) ==
  /\ cpc[c] = "send"
  /\ ~Closed
  /\ Len(queue) >= QueueCapacity
  /\ Return(c)
  /\ UNCHANGED <<stored, phase, ctxDone, active, queue, lastEnded, passNow,
                 workers, env>>

\* The select's default branch: the flag is released, the row stays.
QueueFull(c) ==
  /\ cpc[c] = "send"
  /\ ~Closed
  /\ Len(queue) >= QueueCapacity
  /\ active' = active \ {ckey[c]}
  /\ Return(c)
  /\ UNCHANGED <<stored, phase, ctxDone, queue, lastEnded, passNow,
                 workers, env>>

\* A send on the closed channel panics before either branch is taken.  The
\* HTTP stack recovers a request's panic; invoke recovers a job's and marks
\* the run that made the call failed.
SendPanics(c) ==
  /\ cpc[c] = "send"
  /\ Closed
  /\ Return(c)
  /\ wpc' = IF c \in Workers THEN [wpc EXCEPT ![c] = "ended"] ELSE wpc
  /\ wstatus' = IF c \in Workers THEN [wstatus EXCEPT ![c] = "failed"]
                                 ELSE wstatus
  /\ wend' = IF c \in Workers THEN [wend EXCEPT ![c] = clock] ELSE wend
  /\ UNCHANGED <<stored, phase, ctxDone, active, queue, lastEnded, passNow,
                 wrun, env>>

-----------------------------------------------------------------------------
(* Runner.Start: hydrate, the startup pass, the tick loop, the shutdown.    *)

\* hydrateState stops at the first row it cannot load, in map order, and
\* Start proceeds with what it has.
Hydrate ==
  /\ phase = "hydrate"
  /\ \E loaded \in SUBSET Names :
       /\ loaded = Names \/ StoreError
       /\ lastEnded' = [n \in Names |->
                          IF n \in loaded THEN dbEnded[n] ELSE Never]
  /\ phase' = "startup"
  /\ todo' = Names
  /\ passNow' = clock
  /\ UNCHANGED <<stored, ctxDone, active, queue, callers, workers, env>>

\* One tick of the loop: `now` is read once for all defs.
BeginTick ==
  /\ phase \in {"startup", "loop"}
  /\ todo = {}
  /\ phase' = "loop"
  /\ todo' = {n \in Names : Interval[n] > 0}
  /\ passNow' = clock
  /\ UNCHANGED <<stored, ctxDone, active, queue, lastEnded, callers, workers,
                 env>>

Elapsed(n) == lastEnded[n] # Never /\ passNow - lastEnded[n] >= Interval[n]

\* shouldStartupFire
StartupDue(n) == n \in StartupJobs \/ (Interval[n] > 0 /\ Elapsed(n))

\* tick's conditions, read under one RLock
TickDue(n) ==
  /\ DefaultKey[n] \notin active
  /\ lastEnded[n] = Never \/ Elapsed(n)

Due(n) == IF phase = "startup" THEN StartupDue(n) ELSE TickDue(n)

\* The pass looks at one def and, if it is due, goes on to enqueue it; the
\* lock is released in between.
SchedDecide(n) ==
  /\ phase \in {"startup", "loop"}
  /\ n \in todo
  /\ cpc[Sched] = "idle"
  /\ IF Due(n)
     THEN /\ cpc' = [cpc EXCEPT ![Sched] = "claim"]
          /\ ckey' = [ckey EXCEPT ![Sched] = DefaultKey[n]]
          /\ UNCHANGED todo
     ELSE /\ todo' = todo \ {n}
          /\ UNCHANGED <<cpc, ckey>>
  /\ UNCHANGED <<stored, phase, ctxDone, active, queue, lastEnded, passNow,
                 crun, workers, env>>

\* SIGINT / SIGTERM cancels the context serve was started with.
Cancel ==
  /\ ~ctxDone
  /\ ctxDone' = TRUE
  /\ UNCHANGED <<stored, phase, active, queue, lastEnded, pass, callers,
                 workers, env>>

\* Mutant: another goroutine closes the channel, in the middle of a pass.
CloseQueueMidPass ==
  /\ phase \in {"startup", "loop"}
  /\ ctxDone
  /\ phase' = "draining"
  /\ UNCHANGED <<stored, ctxDone, active, queue, lastEnded, pass, callers,
                 workers, env>>

\* The loop's other branch: close(r.queue), then wg.Wait.
CloseQueue ==
  /\ phase \in {"startup", "loop"}
  /\ ctxDone
  /\ todo = {}
  /\ phase' = "draining"
  /\ UNCHANGED <<stored, ctxDone, active, queue, lastEnded, pass, callers,
                 workers, env>>

\* Mutant: Start waits for the active map to empty instead of the pool.
StopWhenNoneActive ==
  /\ phase = "draining"
  /\ active = {}
  /\ phase' = "stopped"
  /\ UNCHANGED <<stored, ctxDone, active, queue, lastEnded, pass, callers,
                 workers, env>>

\* Every worker has left its range loop: Start returns.
Stop ==
  /\ phase = "draining"
  /\ queue = << >>
  /\ \A w \in Workers : wpc[w] = "idle"
  /\ phase' = "stopped"
  /\ UNCHANGED <<stored, ctxDone, active, queue, lastEnded, pass, callers,
                 workers, env>>

-----------------------------------------------------------------------------
(* A worker: range over the channel, executeRun, afterRun.                  *)

\* Mutant: the flag is released when a worker picks the run up.
TakeReleasingFlag(w) ==
  /\ wpc[w] = "idle"
  /\ phase # "hydrate"
  /\ queue # << >>
  /\ wpc' = [wpc EXCEPT ![w] = "taken"]
  /\ wrun' = [wrun EXCEPT ![w] = Head(queue)]
  /\ queue' = Tail(queue)
  /\ active' = active \ {rowKey[Head(queue)]}
  /\ UNCHANGED <<stored, phase, ctxDone, lastEnded, pass, callers, wend,
                 wstatus, env>>

\* Mutant: workers leave on ctx.Done instead of draining the channel.
TakeUnlessCancelled(w) ==
  /\ ~ctxDone
  /\ wpc[w] = "idle"
  /\ phase # "hydrate"
  /\ queue # << >>
  /\ wpc' = [wpc EXCEPT ![w] = "taken"]
  /\ wrun' = [wrun EXCEPT ![w] = Head(queue)]
  /\ queue' = Tail(queue)
  /\ UNCHANGED <<stored, phase, ctxDone, active, lastEnded, pass, callers,
                 wend, wstatus, env>>

Take(w) ==
  /\ wpc[w] = "idle"
  /\ phase # "hydrate"
  /\ queue # << >>
  /\ wpc' = [wpc EXCEPT ![w] = "taken"]
  /\ wrun' = [wrun EXCEPT ![w] = Head(queue)]
  /\ queue' = Tail(queue)
  /\ UNCHANGED <<stored, phase, ctxDone, active, lastEnded, pass, callers,
                 wend, wstatus, env>>

\* A failure to persist the start is logged and the run goes on.
MarkStarted(w) ==
  /\ wpc[w] = "taken"
  /\ \/ StoreOK /\ status' = [status EXCEPT ![wrun[w]] = "running"]
     \/ StoreError /\ UNCHANGED status
  /\ wpc' = [wpc EXCEPT ![w] = "running"]
  /\ UNCHANGED <<rowKey, nextId, dbEnded, phase, ctxDone, active, queue,
                 lastEnded, pass, callers, wrun, wend, wstatus, env>>

\* Mutant: the named result is never set, the run ends as it was.
JobReturnsUnset(w) ==
  /\ wpc[w] = "running"
  /\ cpc[w] = "idle"
  /\ wpc' = [wpc EXCEPT ![w] = "ended"]
  /\ wend' = [wend EXCEPT ![w] = clock]
  /\ wstatus' = [wstatus EXCEPT ![w] = status[wrun[w]]]
  /\ UNCHANGED <<stored, phase, ctxDone, active, queue, lastEnded, pass,
                 callers, wrun, env>>

\* invoke returns: nil, an error or a recovered panic.
JobReturns(w) ==
  /\ wpc[w] = "running"
  /\ cpc[w] = "idle"
  /\ wpc' = [wpc EXCEPT ![w] = "ended"]
  /\ wend' = [wend EXCEPT ![w] = clock]
  /\ \E s \in Terminal : wstatus' = [wstatus EXCEPT ![w] = s]
  /\ UNCHANGED <<stored, phase, ctxDone, active, queue, lastEnded, pass,
                 callers, wrun, env>>

\* Mutant: only job_state is written.
MarkEndedStateOnly(w) ==
  /\ wpc[w] = "ended"
  /\ dbEnded' = [dbEnded EXCEPT ![JobOf[rowKey[wrun[w]]]] = wend[w]]
  /\ wpc' = [wpc EXCEPT ![w] = "recorded"]
  /\ UNCHANGED <<status, rowKey, nextId, phase, ctxDone, active, queue,
                 lastEnded, pass, callers, wrun, wend, wstatus, env>>

\* One transaction over job_runs and job_state; a failure is logged.
MarkEnded(w) ==
  /\ wpc[w] = "ended"
  /\ \/ /\ StoreOK
        /\ status' = [status EXCEPT ![wrun[w]] = wstatus[w]]
        /\ dbEnded' = [dbEnded EXCEPT ![JobOf[rowKey[wrun[w]]]] = wend[w]]
     \/ StoreError /\ UNCHANGED <<status, dbEnded>>
  /\ wpc' = [wpc EXCEPT ![w] = "recorded"]
  /\ UNCHANGED <<rowKey, nextId, phase, ctxDone, active, queue, lastEnded,
                 pass, callers, wrun, wend, wstatus, env>>

AfterRun(w) ==
  /\ wpc[w] = "recorded"
  /\ lastEnded' = [lastEnded EXCEPT ![JobOf[rowKey[wrun[w]]]] = wend[w]]
  /\ active' = active \ {rowKey[wrun[w]]}
  /\ wpc' = [wpc EXCEPT ![w] = "idle"]
  /\ wrun' = [wrun EXCEPT ![w] = NoRun]
  /\ wend' = [wend EXCEPT ![w] = 0]
  /\ wstatus' = [wstatus EXCEPT ![w] = "failed"]
  /\ UNCHANGED <<stored, phase, ctxDone, queue, pass, callers, env>>

-----------------------------------------------------------------------------
(* Environment.                                                             *)

TimePasses ==
  /\ clock < MaxTime
  /\ clock' = clock + 1
  /\ UNCHANGED <<stored, phase, ctxDone, active, queue, lastEnded, pass,
                 callers, workers, crashes>>

\* Mutant: run ids are counted in memory and start over with the process.
CrashRestartFromId1 ==
  /\ crashes < MaxCrashes
  /\ crashes' = crashes + 1
  /\ Boot
  /\ nextId' = 1
  /\ UNCHANGED <<status, rowKey, dbEnded, clock>>

\* The process dies, at any point, and is started again.  serve does not
\* wait for Runner.Start, so an orderly exit is this action too.
CrashRestart ==
  /\ crashes < MaxCrashes
  /\ crashes' = crashes + 1
  /\ Boot
  /\ UNCHANGED <<stored, clock>>

\* Start has returned; what a request may still do is in Enqueuing.
Terminated == phase = "stopped" /\ UNCHANGED vars

Enqueuing(c) == InsertRun(c) \/ InsertFails(c) \/ Send(c) \/ QueueFull(c)
                \/ SendPanics(c)

Scheduling == \/ Hydrate \/ BeginTick \/ SchedClaim \/ SchedRejected
              \/ \E n \in Names : SchedDecide(n)

Executing(w) == Take(w) \/ MarkStarted(w) \/ JobReturns(w) \/ MarkEnded(w)
                \/ AfterRun(w)

Next ==
  \/ Scheduling
  \/ CloseQueue
  \/ Stop
  \/ \E c \in Callers : Enqueuing(c)
  \/ \E c \in Clients, k \in Keys : RunNow(c, k)
  \/ \E w \in Workers, k \in Keys : EnqueueFromJob(w, k)
  \/ \E w \in Workers : Executing(w)
  \/ Cancel
  \/ TimePasses
  \/ CrashRestart
  \/ Terminated

Spec == Init /\ [][Next]_vars

(* Goroutines that can run do run, and a job's Run returns, however often   *)
(* its fan-out has called EnqueueFromJob: the Runner sets no per-run        *)
(* timeout and relies on it.  The loop's select picks a ready branch at     *)
(* random, so a cancelled context is noticed eventually although ticks keep *)
(* arriving: strong fairness of CloseQueue.  Requests, the signal, the      *)
(* clock and crashes owe nothing.                                           *)
Fairness ==
  /\ WF_vars(Scheduling)
  /\ SF_vars(CloseQueue)
  /\ WF_vars(Stop)
  /\ \A c \in Callers : WF_vars(Enqueuing(c))
  /\ \A w \in Workers : WF_vars(Executing(w)) /\ SF_vars(JobReturns(w))

FairSpec == Spec /\ Fairness

-----------------------------------------------------------------------------
(* What is in flight.  A run is held by the caller about to send it, by the *)
(* queue, or by the worker executing it; a caller between claim and insert  *)
(* holds its key without a run yet.                                         *)

SentRuns == {queue[i] : i \in 1 .. Len(queue)}
OfferedRuns == {crun[c] : c \in {d \in Callers : cpc[d] = "send"}}
ExecutingRuns == {wrun[w] : w \in {v \in Workers : wpc[v] # "idle"}}
LiveRuns == OfferedRuns \cup SentRuns \cup ExecutingRuns

InEnqueue(c) == cpc[c] \in {"insert", "send"}
Busy(w) == wpc[w] # "idle"
ClaimedKeys == {ckey[c] : c \in {d \in Callers : InEnqueue(d)}}
HeldKeys == ClaimedKeys \cup {rowKey[r] : r \in SentRuns \cup ExecutingRuns}

(* The dedup contract behind the 409 of handleRunJob: whatever the mix of   *)
(* ticks, requests, fan-outs, failed inserts and full queues, no two places *)
(* hold runs of one key, so a job never overlaps itself on equal arguments. *)
SingleFlight ==
  /\ \A c, d \in Callers :
       InEnqueue(c) /\ InEnqueue(d) /\ ckey[c] = ckey[d] => c = d
  /\ \A i, j \in 1 .. Len(queue) :
       rowKey[queue[i]] = rowKey[queue[j]] => i = j
  /\ \A v, w \in Workers :
       Busy(v) /\ Busy(w) /\ rowKey[wrun[v]] = rowKey[wrun[w]] => v = w
  /\ \A c \in Callers, i \in 1 .. Len(queue) :
       InEnqueue(c) => ckey[c] # rowKey[queue[i]]
  /\ \A c \in Callers, w \in Workers :
       InEnqueue(c) /\ Busy(w) => ckey[c] # rowKey[wrun[w]]
  /\ \A w \in Workers, i \in 1 .. Len(queue) :
       Busy(w) => rowKey[wrun[w]] # rowKey[queue[i]]

(* Why SingleFlight is inductive: what is held is flagged and is a run      *)
(* already inserted, and only a running job calls enqueue from a worker.    *)
HeldIsActive ==
  /\ \A c \in Callers : InEnqueue(c) => ckey[c] \in active
  /\ \A c \in Callers : cpc[c] = "send" =>
       crun[c] < nextId /\ rowKey[crun[c]] = ckey[c]
  /\ \A i \in 1 .. Len(queue) :
       queue[i] < nextId /\ rowKey[queue[i]] \in active
  /\ \A w \in Workers : Busy(w) =>
       wrun[w] \in RunIds /\ wrun[w] < nextId /\ rowKey[wrun[w]] \in active
  /\ \A w \in Workers : InEnqueue(w) => wpc[w] = "running"

FlightInv == SingleFlight /\ HeldIsActive

(* The active flag is neither lost nor leaked: until the channel is closed  *)
(* a key is flagged exactly while some place holds it, so no error path of  *)
(* enqueue makes a job permanently un-runnable and none releases a key      *)
(* another run still owns.                                                  *)
ActiveIffHeld ==
  /\ HeldKeys \subseteq active
  /\ ~Closed => active \subseteq HeldKeys

(* A dedup key fills at most one slot, so the channel cannot overflow while *)
(* it has a slot for every key in use: "queue full" needs more than         *)
(* QueueCapacity distinct keys at once.                                     *)
NoOverflowWhenKeysFit ==
  IsFiniteSet(Keys) /\ Cardinality(Keys) <= QueueCapacity =>
    \A c \in Callers : cpc[c] = "send" /\ ~Closed => Len(queue) < QueueCapacity

(* The record on disk while nothing has gone wrong: with room for every     *)
(* key, no failing store, no cancelled context and no crash, a row says     *)
(* queued only of a run still waiting and running only of a run a worker    *)
(* has, and a run nobody holds has its outcome.                             *)
Healthy == ~StoreMayFail /\ ~ctxDone /\ crashes = 0

RecordHonest ==
  Healthy /\ IsFiniteSet(Keys) /\ Cardinality(Keys) <= QueueCapacity =>
  \A r \in RunIds :
    /\ status[r] = "queued" => r \in LiveRuns
    /\ status[r] = "running" => r \in ExecutingRuns
    /\ r < nextId /\ r \notin LiveRuns => status[r] \in Terminal

(* What one step may do to a row. *)
RowStep(r) ==
  /\ status[r] # status'[r] =>
       \/ status[r] = "none" /\ status'[r] = "queued"
       \/ status[r] = "queued" /\ status'[r] = "running"
       \/ status[r] \in {"queued", "running"} /\ status'[r] \in Terminal
  /\ status[r] # "none" => rowKey'[r] = rowKey[r]

(* A row only moves forward, queued then running then an outcome, and its   *)
(* outcome and its key are final, crashes and store failures included.      *)
RowMovesForward == [][\A r \in RunIds : RowStep(r)]_vars

(* Why RowMovesForward holds of every step: ids below nextId are rows, and  *)
(* a run's row says no more than the place the run has reached.             *)
RowMatchesPlace ==
  /\ \A r \in RunIds : status[r] = "none" <=> r >= nextId
  /\ \A c \in Callers : cpc[c] = "send" => status[crun[c]] = "queued"
  /\ \A i \in 1 .. Len(queue) : status[queue[i]] = "queued"
  /\ \A w \in Workers :
       /\ wpc[w] = "taken" => status[wrun[w]] = "queued"
       /\ wpc[w] \in {"running", "ended"} =>
            status[wrun[w]] \in {"queued", "running"}

(* The scheduler goroutine is never inside enqueue once the channel is      *)
(* closed.  Its panic would be recovered by nobody and take the process     *)
(* down; only requests and jobs may meet the closed channel.                *)
SchedulerNeverPanics == Closed => cpc[Sched] = "idle" /\ todo = {}

(* Start returns with no run left in the channel or on a worker, the ones   *)
(* accepted before the signal included.                                     *)
StoppedIsDrained == phase = "stopped" => SentRuns \cup ExecutingRuns = {}

-----------------------------------------------------------------------------
(* Liveness, under Fairness.                                                *)

(* Every run that reaches the channel leaves it and the worker that took    *)
(* it, whatever keeps arriving behind it.                                   *)
AcceptedRunsLeave ==
  \A r \in RunIds : r \in SentRuns \cup ExecutingRuns
                      ~> r \notin SentRuns \cup ExecutingRuns

(* Once cancelled, Start returns although ticks, requests and fan-outs go   *)
(* on (or the process has died meanwhile).                                  *)
ShutdownCompletes == ctxDone ~> phase = "stopped" \/ ~ctxDone

-----------------------------------------------------------------------------
(* The ledger of run ids this runner implements.                            *)

Ledger == INSTANCE JobLedger WITH
  issued <- 1 .. (nextId - 1),
  keyOf <- rowKey,
  live <- LiveRuns,
  executing <- ExecutingRuns

(* The runner is a JobLedger: a fresh id is issued only when no live run    *)
(* has its key, it is begun at most once and never revived.                 *)
ImplementsLedger == Ledger!Spec
=============================================================================
