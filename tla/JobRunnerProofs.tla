--------------------------- MODULE JobRunnerProofs ---------------------------
(***************************************************************************)
(* Proofs about JobRunner, for every set of jobs, keys, workers and         *)
(* requests, every queue capacity and every bound.                          *)
(***************************************************************************)
EXTENDS JobRunner, FiniteSetTheorems, TLAPS

(* Overwriting one entry of a table with a value of its range keeps the     *)
(* table's type, whether or not the entry exists.                           *)
LEMMA UpdateKeepsType ==
  ASSUME NEW S, NEW T, NEW f \in [S -> T], NEW x, NEW y \in T
  PROVE  [f EXCEPT ![x] = y] \in [S -> T]
  OBVIOUS

(* Type correctness of the runner: each step of enqueue, of the scheduler,  *)
(* of a worker and of a restart keeps every variable in its declared range. *)
THEOREM TypeCorrect == Spec => []TypeOK
<1>1. Init => TypeOK
  <2> SUFFICES ASSUME Init PROVE TypeOK
    OBVIOUS
  <2>1. /\ status \in [RunIds -> Statuses \cup {"none"}]
        /\ rowKey \in [RunIds -> Keys \cup {NoKey}]
        /\ nextId \in 1 .. (MaxRuns + 1)
        /\ dbEnded \in [Names -> Time]
        /\ lastEnded \in [Names -> Time]
    BY ConstantsAssumption DEF Init, Time
  <2>2. /\ phase \in Phases /\ ctxDone \in BOOLEAN
        /\ active \in SUBSET Keys /\ todo \in SUBSET Names
    BY DEF Init, Phases
  <2>3. queue \in Seq(RunIds)
    BY DEF Init
  <2>4. /\ cpc \in [Callers -> {"idle", "claim", "insert", "send"}]
        /\ ckey \in [Callers -> Keys \cup {NoKey}]
        /\ crun \in [Callers -> RunIds \cup {NoRun}]
        /\ \A c \in Callers : cpc[c] = "idle"
    BY DEF Init
  <2>5. /\ wpc \in [Workers -> {"idle", "taken", "running", "ended", "recorded"}]
        /\ wrun \in [Workers -> RunIds \cup {NoRun}]
        /\ wend \in [Workers -> 0 .. MaxTime]
        /\ wstatus \in [Workers -> Terminal]
        /\ passNow \in 0 .. MaxTime /\ clock \in 0 .. MaxTime
        /\ crashes \in 0 .. MaxCrashes
    BY ConstantsAssumption DEF Init, Terminal
  <2> QED BY <2>1, <2>2, <2>3, <2>4, <2>5 DEF TypeOK
<1>2. TypeOK /\ [Next]_vars => TypeOK'
  <2> SUFFICES ASSUME TypeOK, [Next]_vars
               PROVE  TypeOK'
    OBVIOUS
  <2> USE ConstantsAssumption
      DEF TypeOK, Phases, Terminal, Statuses, Callers,
          stored, pass, callers, workers, env
  <2>1. CASE Hydrate
    <3>1. PICK loaded \in SUBSET Names :
            lastEnded' = [n \in Names |->
                            IF n \in loaded THEN dbEnded[n] ELSE Never]
      BY <2>1 DEF Hydrate
    <3>2. lastEnded' \in [Names -> Time]
      BY <3>1 DEF Time
    <3> QED BY <2>1, <3>2 DEF Hydrate
  <2>2. CASE BeginTick
    BY <2>2 DEF BeginTick
  <2>3. CASE SchedClaim
    BY <2>3 DEF SchedClaim, Claim
  <2>4. CASE SchedRejected
    BY <2>4 DEF SchedRejected, Return
  <2>5. ASSUME NEW n \in Names, SchedDecide(n)
        PROVE  TypeOK'
    BY <2>5 DEF SchedDecide
  <2>6. CASE CloseQueue
    BY <2>6 DEF CloseQueue
  <2>7. CASE Stop
    BY <2>7 DEF Stop
  <2>8. ASSUME NEW c \in Callers, InsertRun(c)
        PROVE  TypeOK'
    <3>1. nextId \in RunIds /\ nextId' \in 1 .. (MaxRuns + 1)
      BY <2>8 DEF InsertRun, RunIds
    <3>2. /\ cpc[c] = "insert"
          /\ status' = [status EXCEPT ![nextId] = "queued"]
          /\ rowKey' = [rowKey EXCEPT ![nextId] = ckey[c]]
          /\ crun' = [crun EXCEPT ![c] = nextId]
          /\ cpc' = [cpc EXCEPT ![c] = "send"]
      BY <2>8 DEF InsertRun
    <3>3. UNCHANGED <<dbEnded, phase, ctxDone, active, queue, lastEnded, todo,
                      passNow, ckey, wpc, wrun, wend, wstatus, clock, crashes>>
      BY <2>8 DEF InsertRun
    <3> QED BY <3>1, <3>2, <3>3
  <2>9. ASSUME NEW c \in Callers, InsertFails(c)
        PROVE  TypeOK'
    BY <2>9 DEF InsertFails, Return
  <2>10. ASSUME NEW c \in Callers, Send(c)
         PROVE  TypeOK'
    BY <2>10 DEF Send, Return
  <2>11. ASSUME NEW c \in Callers, QueueFull(c)
         PROVE  TypeOK'
    BY <2>11 DEF QueueFull, Return
  <2>12. ASSUME NEW c \in Callers, SendPanics(c)
         PROVE  TypeOK'
    BY <2>12 DEF SendPanics, Return
  <2>13. ASSUME NEW c \in Clients, NEW k \in Keys, RunNow(c, k)
         PROVE  TypeOK'
    BY <2>13 DEF RunNow, Claim
  <2>14. ASSUME NEW w \in Workers, NEW k \in Keys, EnqueueFromJob(w, k)
         PROVE  TypeOK'
    BY <2>14 DEF EnqueueFromJob, Claim
  <2>15. ASSUME NEW w \in Workers, Take(w)
         PROVE  TypeOK'
    BY <2>15 DEF Take
  <2>16. ASSUME NEW w \in Workers, MarkStarted(w)
         PROVE  TypeOK'
    BY <2>16 DEF MarkStarted
  <2>17. ASSUME NEW w \in Workers, JobReturns(w)
         PROVE  TypeOK'
    BY <2>17 DEF JobReturns
  <2>18. ASSUME NEW w \in Workers, MarkEnded(w)
         PROVE  TypeOK'
    <3>1. status' \in [RunIds -> Statuses \cup {"none"}]
      <4>1. wstatus[w] \in Statuses \cup {"none"}
        OBVIOUS
      <4>2. [status EXCEPT ![wrun[w]] = wstatus[w]]
              \in [RunIds -> Statuses \cup {"none"}]
        BY <4>1, UpdateKeepsType
      <4> QED BY <2>18, <4>2 DEF MarkEnded
    <3>2. dbEnded' \in [Names -> Time]
      <4>1. [dbEnded EXCEPT ![JobOf[rowKey[wrun[w]]]] = wend[w]]
              \in [Names -> Time]
        BY UpdateKeepsType DEF Time
      <4> QED BY <2>18, <4>1 DEF MarkEnded
    <3>3. /\ wpc' = [wpc EXCEPT ![w] = "recorded"]
          /\ UNCHANGED <<rowKey, nextId, phase, ctxDone, active, queue,
                         lastEnded, todo, passNow, cpc, ckey, crun, wrun, wend,
                         wstatus, clock, crashes>>
      BY <2>18 DEF MarkEnded
    <3> QED BY <3>1, <3>2, <3>3
  <2>19. ASSUME NEW w \in Workers, AfterRun(w)
         PROVE  TypeOK'
    <3>1. lastEnded' \in [Names -> Time]
      BY <2>19 DEF AfterRun, Time
    <3>3. /\ active' \in SUBSET Keys
          /\ wpc' \in [Workers -> {"idle", "taken", "running", "ended", "recorded"}]
          /\ wrun' \in [Workers -> RunIds \cup {NoRun}]
          /\ wend' \in [Workers -> 0 .. MaxTime]
          /\ wstatus' \in [Workers -> Terminal]
      BY <2>19 DEF AfterRun
    <3>2. UNCHANGED <<status, rowKey, nextId, dbEnded, phase, ctxDone, queue,
                      todo, passNow, cpc, ckey, crun, clock, crashes>>
      BY <2>19 DEF AfterRun
    <3> QED BY <3>1, <3>2, <3>3
  <2>20. CASE Cancel
    BY <2>20 DEF Cancel
  <2>21. CASE TimePasses
    BY <2>21 DEF TimePasses
  <2>22. CASE CrashRestart
    <3>1. /\ phase' \in Phases /\ ctxDone' \in BOOLEAN
          /\ active' \in SUBSET Keys /\ todo' \in SUBSET Names
      BY <2>22 DEF CrashRestart, Boot
    <3>2. /\ passNow' \in 0 .. MaxTime
          /\ crashes' \in 0 .. MaxCrashes
      <4>1. passNow' = 0 /\ crashes' = crashes + 1 /\ crashes < MaxCrashes
        BY <2>22 DEF CrashRestart, Boot
      <4> QED BY <4>1
    <3>3. lastEnded' \in [Names -> Time]
      BY <2>22 DEF CrashRestart, Boot, Time
    <3>4. queue' \in Seq(RunIds)
      BY <2>22 DEF CrashRestart, Boot
    <3>5. /\ cpc' \in [Callers -> {"idle", "claim", "insert", "send"}]
          /\ ckey' \in [Callers -> Keys \cup {NoKey}]
          /\ crun' \in [Callers -> RunIds \cup {NoRun}]
          /\ \A c \in Callers : cpc'[c] = "idle"
      BY <2>22 DEF CrashRestart, Boot
    <3>6. /\ wpc' \in [Workers -> {"idle", "taken", "running", "ended", "recorded"}]
          /\ wrun' \in [Workers -> RunIds \cup {NoRun}]
          /\ wend' \in [Workers -> 0 .. MaxTime]
          /\ wstatus' \in [Workers -> Terminal]
      BY <2>22 DEF CrashRestart, Boot
    <3>7. UNCHANGED <<status, rowKey, nextId, dbEnded, clock>>
      BY <2>22 DEF CrashRestart
    <3> QED BY <3>1, <3>2, <3>3, <3>4, <3>5, <3>6, <3>7
  <2>23. CASE UNCHANGED vars
    BY <2>23 DEF vars
  <2> QED
    BY <2>1, <2>2, <2>3, <2>4, <2>5, <2>6, <2>7, <2>8, <2>9, <2>10, <2>11,
       <2>12, <2>13, <2>14, <2>15, <2>16, <2>17, <2>18, <2>19, <2>20, <2>21,
       <2>22, <2>23
    DEF Next, Scheduling, Enqueuing, Executing, Terminated
<1> QED
  BY <1>1, <1>2, PTL DEF Spec

(* The dedup contract: no interleaving of ticks, requests, fan-outs, failed *)
(* inserts, full queues, panics and restarts puts two runs of one key in    *)
(* flight.  SingleFlight alone is not inductive: a release of the active    *)
(* flag is harmless only because the flag belongs to the run being let go,  *)
(* which HeldIsActive states.                                               *)
LEMMA FlightInvInductive ==
  TypeOK /\ FlightInv /\ [Next]_vars => FlightInv'
<1> SUFFICES ASSUME TypeOK, FlightInv, [Next]_vars
             PROVE  FlightInv'
  OBVIOUS
<1> USE ConstantsAssumption
    DEF TypeOK, FlightInv, SingleFlight, HeldIsActive, InEnqueue, Busy,
        stored, pass, callers, workers, env
<1>1. CASE Hydrate
  BY <1>1 DEF Hydrate
<1>2. CASE BeginTick
  BY <1>2 DEF BeginTick
<1>3. ASSUME NEW c \in Callers, NEW k \in Keys, Claim(c, k),
             cpc[c] \in {"idle", "claim"}, c \in Workers => wpc[c] = "running"
      PROVE  FlightInv'
  BY <1>3 DEF Claim
<1>4. CASE SchedClaim
  BY <1>3, <1>4 DEF SchedClaim, Callers
<1>5. CASE SchedRejected
  BY <1>5 DEF SchedRejected, Return, Callers
<1>6. ASSUME NEW n \in Names, SchedDecide(n)
      PROVE  FlightInv'
  BY <1>6 DEF SchedDecide, Callers
<1>7. CASE CloseQueue
  BY <1>7 DEF CloseQueue
<1>8. CASE Stop
  BY <1>8 DEF Stop
<1>9. ASSUME NEW c \in Callers, InsertRun(c)
      PROVE  FlightInv'
  <2>1. /\ cpc[c] = "insert" /\ nextId \in RunIds /\ nextId' = nextId + 1
        /\ rowKey' = [rowKey EXCEPT ![nextId] = ckey[c]]
        /\ crun' = [crun EXCEPT ![c] = nextId]
        /\ cpc' = [cpc EXCEPT ![c] = "send"]
        /\ UNCHANGED <<active, queue, ckey, wpc, wrun>>
    BY <1>9 DEF InsertRun, RunIds
  <2>2. /\ nextId \in Int
        /\ \A i \in 1 .. Len(queue) : queue[i] \in RunIds /\ queue[i] \in Int
        /\ \A r \in RunIds : r \in Int
    BY DEF RunIds
  <2>3. \A r \in RunIds : r < nextId => rowKey'[r] = rowKey[r] /\ r < nextId'
    BY <2>1, <2>2
  <2>4. \A i \in 1 .. Len(queue') : /\ rowKey'[queue'[i]] = rowKey[queue[i]]
                                    /\ queue'[i] < nextId'
    BY <2>1, <2>2, <2>3
  <2>5. \A w \in Workers : Busy(w) => /\ rowKey'[wrun'[w]] = rowKey[wrun[w]]
                                     /\ wrun'[w] < nextId'
    <3> SUFFICES ASSUME NEW w \in Workers, Busy(w)
                 PROVE  rowKey'[wrun'[w]] = rowKey[wrun[w]] /\ wrun'[w] < nextId'
      OBVIOUS
    <3>1. wrun'[w] = wrun[w] /\ wrun[w] \in RunIds /\ wrun[w] < nextId
      BY <2>1
    <3> QED BY <2>3, <3>1
  <2>6. \A d \in Callers : InEnqueue(d)' <=> InEnqueue(d)
    BY <2>1
  <2>7. \A d \in Callers : cpc'[d] = "send" =>
          crun'[d] < nextId' /\ rowKey'[crun'[d]] = ckey'[d]
    <3> SUFFICES ASSUME NEW d \in Callers, cpc'[d] = "send"
                 PROVE  crun'[d] < nextId' /\ rowKey'[crun'[d]] = ckey'[d]
      OBVIOUS
    <3>1. CASE d = c
      BY <2>1, <2>2, <3>1
    <3>2. CASE d # c
      <4>1. cpc[d] = "send" /\ crun'[d] = crun[d] /\ ckey'[d] = ckey[d]
        BY <2>1, <3>2
      <4>2. crun[d] \in RunIds /\ crun[d] < nextId
        BY <4>1
      <4> QED BY <2>3, <4>1, <4>2
    <3> QED BY <3>1, <3>2
  <2>8. SingleFlight'
    BY <2>1, <2>4, <2>5, <2>6
  <2>9. HeldIsActive'
    BY <2>1, <2>4, <2>5, <2>6, <2>7
  <2> QED BY <2>8, <2>9
<1>10. ASSUME NEW c \in Callers, InsertFails(c)
       PROVE  FlightInv'
  BY <1>10 DEF InsertFails, Return
<1>11. ASSUME NEW c \in Callers, Send(c)
       PROVE  FlightInv'
  BY <1>11 DEF Send, Return
<1>12. ASSUME NEW c \in Callers, QueueFull(c)
       PROVE  FlightInv'
  BY <1>12 DEF QueueFull, Return
<1>13. ASSUME NEW c \in Callers, SendPanics(c)
       PROVE  FlightInv'
  BY <1>13 DEF SendPanics, Return
<1>14. ASSUME NEW c \in Clients, NEW k \in Keys, RunNow(c, k)
       PROVE  FlightInv'
  BY <1>3, <1>14 DEF RunNow, Callers
<1>15. ASSUME NEW w \in Workers, NEW k \in Keys, EnqueueFromJob(w, k)
       PROVE  FlightInv'
  BY <1>3, <1>15 DEF EnqueueFromJob, Callers
<1>16. ASSUME NEW w \in Workers, Take(w)
       PROVE  FlightInv'
  BY <1>16 DEF Take
<1>17. ASSUME NEW w \in Workers, MarkStarted(w)
       PROVE  FlightInv'
  BY <1>17 DEF MarkStarted
<1>18. ASSUME NEW w \in Workers, JobReturns(w)
       PROVE  FlightInv'
  BY <1>18 DEF JobReturns, Callers
<1>19. ASSUME NEW w \in Workers, MarkEnded(w)
       PROVE  FlightInv'
  BY <1>19 DEF MarkEnded
<1>20. ASSUME NEW w \in Workers, AfterRun(w)
       PROVE  FlightInv'
  BY <1>20 DEF AfterRun
<1>21. CASE Cancel
  BY <1>21 DEF Cancel
<1>22. CASE TimePasses
  BY <1>22 DEF TimePasses
<1>23. CASE CrashRestart
  <2>1. 1 .. Len(queue') = {}
    BY <1>23 DEF CrashRestart, Boot
  <2>2. /\ \A c \in Callers : cpc'[c] = "idle"
        /\ \A w \in Workers : wpc'[w] = "idle"
    BY <1>23 DEF CrashRestart, Boot
  <2> QED
    BY <2>1, <2>2 DEF Callers
<1>24. CASE UNCHANGED vars
  BY <1>24 DEF vars
<1> QED
  BY <1>1, <1>2, <1>4, <1>5, <1>6, <1>7, <1>8, <1>9, <1>10, <1>11, <1>12,
     <1>13, <1>14, <1>15, <1>16, <1>17, <1>18, <1>19, <1>20, <1>21, <1>22,
     <1>23, <1>24
  DEF Next, Scheduling, Enqueuing, Executing, Terminated

(* The inductive invariant holds from the start, when nothing is in flight. *)
LEMMA FlightInvHolds == Spec => []FlightInv
<1>1. Init => FlightInv
  <2> SUFFICES ASSUME Init PROVE FlightInv
    OBVIOUS
  <2>1. 1 .. Len(queue) = {}
    BY DEF Init
  <2>2. /\ \A c \in Callers : cpc[c] = "idle"
        /\ \A w \in Workers : wpc[w] = "idle"
    BY DEF Init
  <2> QED
    BY <2>1, <2>2 DEF FlightInv, SingleFlight, HeldIsActive, InEnqueue, Busy,
                      Callers
<1> QED
  BY <1>1, TypeCorrect, FlightInvInductive, PTL DEF Spec

(* At most one run per dedup key is in flight, in every reachable state:    *)
(* handleRunJob's 409 and the tick's "already active" never let a second    *)
(* run of the same job and arguments past enqueue.                          *)
THEOREM SingleFlightHolds == Spec => []SingleFlight
<1>1. FlightInv => SingleFlight
  BY DEF FlightInv
<1> QED
  BY <1>1, FlightInvHolds, PTL

(* Whatever enqueue, the channel or a worker holds is flagged in            *)
(* Runner.active, and its row has been inserted.                            *)
THEOREM HeldIsActiveHolds == Spec => []HeldIsActive
<1>1. FlightInv => HeldIsActive
  BY DEF FlightInv
<1> QED
  BY <1>1, FlightInvHolds, PTL

(* A run is in one place at a time: were it offered, queued or executed     *)
(* twice, its key would be held twice.                                      *)
OnePlaceEach ==
  /\ \A i, j \in 1 .. Len(queue) : queue[i] = queue[j] => i = j
  /\ OfferedRuns \cap (SentRuns \cup ExecutingRuns) = {}
  /\ SentRuns \cap ExecutingRuns = {}

LEMMA OnePlacePerRun == TypeOK /\ FlightInv => OnePlaceEach
<1> SUFFICES ASSUME TypeOK, FlightInv PROVE OnePlaceEach
  OBVIOUS
<1> USE DEF FlightInv, SingleFlight, HeldIsActive, InEnqueue, Busy
<1>1. \A i, j \in 1 .. Len(queue) : queue[i] = queue[j] => i = j
  OBVIOUS
<1>2. OfferedRuns \cap SentRuns = {}
  BY DEF OfferedRuns, SentRuns
<1>3. OfferedRuns \cap ExecutingRuns = {}
  BY DEF OfferedRuns, ExecutingRuns
<1>4. SentRuns \cap ExecutingRuns = {}
  BY DEF SentRuns, ExecutingRuns
<1> QED
  BY <1>1, <1>2, <1>3, <1>4 DEF OnePlaceEach

(* How each step treats the rows: only InsertRun, MarkStarted and MarkEnded *)
(* write job_runs, each the row of the run it holds.                        *)
LEMMA RowMatchesPlaceInductive ==
  TypeOK /\ FlightInv /\ RowMatchesPlace /\ [Next]_vars => RowMatchesPlace'
<1> SUFFICES ASSUME TypeOK, FlightInv, RowMatchesPlace, [Next]_vars
             PROVE  RowMatchesPlace'
  OBVIOUS
<1> USE ConstantsAssumption
    DEF TypeOK, RowMatchesPlace, stored, pass, callers, workers, env
<1>0. /\ \A c \in Callers : cpc[c] = "send" => crun[c] \in RunIds
      /\ \A w \in Workers : wpc[w] # "idle" => wrun[w] \in RunIds
  BY DEF FlightInv, HeldIsActive, Busy
<1>1. CASE Hydrate
  BY <1>1 DEF Hydrate
<1>2. CASE BeginTick
  BY <1>2 DEF BeginTick
<1>3. ASSUME NEW c \in Callers, NEW k \in Keys, Claim(c, k)
      PROVE  RowMatchesPlace'
  BY <1>3 DEF Claim
<1>4. CASE SchedClaim
  BY <1>3, <1>4 DEF SchedClaim, Callers
<1>5. CASE SchedRejected
  BY <1>5 DEF SchedRejected, Return
<1>6. ASSUME NEW n \in Names, SchedDecide(n)
      PROVE  RowMatchesPlace'
  BY <1>6 DEF SchedDecide
<1>7. CASE CloseQueue
  BY <1>7 DEF CloseQueue
<1>8. CASE Stop
  BY <1>8 DEF Stop
<1>9. ASSUME NEW c \in Callers, InsertRun(c)
      PROVE  RowMatchesPlace'
  <2>1. /\ nextId \in RunIds /\ nextId' = nextId + 1
        /\ status' = [status EXCEPT ![nextId] = "queued"]
        /\ crun' = [crun EXCEPT ![c] = nextId]
        /\ cpc' = [cpc EXCEPT ![c] = "send"]
        /\ UNCHANGED <<queue, wpc, wrun>>
    BY <1>9 DEF InsertRun, RunIds
  <2>2. \A r \in RunIds : r # nextId => status'[r] = status[r]
    BY <2>1
  <2>3. /\ \A r \in RunIds : r \in Int
        /\ nextId \in Int
    BY DEF RunIds
  <2>4. \A r \in RunIds : status'[r] = "none" <=> r >= nextId'
    <3> SUFFICES ASSUME NEW r \in RunIds
                 PROVE  status'[r] = "none" <=> r >= nextId'
      OBVIOUS
    <3>1. CASE r = nextId
      BY <2>1, <2>3, <3>1
    <3>2. CASE r # nextId
      <4>1. status'[r] = status[r] /\ (r >= nextId' <=> r >= nextId)
        BY <2>1, <2>2, <2>3, <3>2
      <4> QED BY <4>1
    <3> QED BY <3>1, <3>2
  <2>5. \A r \in RunIds : r < nextId => status'[r] = status[r]
    BY <2>2, <2>3
  <2>6. \A d \in Callers : cpc'[d] = "send" => status'[crun'[d]] = "queued"
    <3> SUFFICES ASSUME NEW d \in Callers, cpc'[d] = "send"
                 PROVE  status'[crun'[d]] = "queued"
      OBVIOUS
    <3>1. CASE d = c
      BY <2>1, <3>1
    <3>2. CASE d # c
      <4>1. cpc[d] = "send" /\ crun'[d] = crun[d]
        BY <2>1, <3>2
      <4>2. crun[d] \in RunIds /\ crun[d] < nextId
        BY <4>1 DEF FlightInv, HeldIsActive
      <4> QED BY <2>5, <4>1, <4>2
    <3> QED BY <3>1, <3>2
  <2>7. \A i \in 1 .. Len(queue') : status'[queue'[i]] = status[queue[i]]
    <3>1. \A i \in 1 .. Len(queue) : queue[i] \in RunIds /\ queue[i] < nextId
      BY DEF FlightInv, HeldIsActive
    <3> QED BY <2>1, <2>5, <3>1
  <2>8. \A w \in Workers : wpc[w] # "idle" => status'[wrun'[w]] = status[wrun[w]]
    <3>1. \A w \in Workers : wpc[w] # "idle" => wrun[w] \in RunIds /\ wrun[w] < nextId
      BY DEF FlightInv, HeldIsActive, Busy
    <3> QED BY <2>1, <2>5, <3>1
  <2> QED BY <2>1, <2>4, <2>6, <2>7, <2>8
<1>10. ASSUME NEW c \in Callers, InsertFails(c)
       PROVE  RowMatchesPlace'
  BY <1>10 DEF InsertFails, Return
<1>11. ASSUME NEW c \in Callers, Send(c)
       PROVE  RowMatchesPlace'
  BY <1>11 DEF Send, Return
<1>12. ASSUME NEW c \in Callers, QueueFull(c)
       PROVE  RowMatchesPlace'
  BY <1>12 DEF QueueFull, Return
<1>13. ASSUME NEW c \in Callers, SendPanics(c)
       PROVE  RowMatchesPlace'
  <2>1. c \in Workers => wpc[c] = "running"
    BY <1>13 DEF SendPanics, FlightInv, HeldIsActive, InEnqueue
  <2> QED BY <1>13, <2>1 DEF SendPanics, Return
<1>14. ASSUME NEW c \in Clients, NEW k \in Keys, RunNow(c, k)
       PROVE  RowMatchesPlace'
  BY <1>3, <1>14 DEF RunNow, Callers
<1>15. ASSUME NEW w \in Workers, NEW k \in Keys, EnqueueFromJob(w, k)
       PROVE  RowMatchesPlace'
  BY <1>3, <1>15 DEF EnqueueFromJob, Callers
<1>16. ASSUME NEW w \in Workers, Take(w)
       PROVE  RowMatchesPlace'
  BY <1>16 DEF Take
<1>17. ASSUME NEW w \in Workers, wpc[w] # "idle", wpc'[w] # "idle",
              NEW st \in Statuses, status' = [status EXCEPT ![wrun[w]] = st],
              wpc'[w] = "taken" => st = "queued",
              wpc'[w] \in {"running", "ended"} => st \in {"queued", "running"},
              \A v \in Workers : v # w => wpc'[v] = wpc[v],
              UNCHANGED <<nextId, cpc, crun, queue, wrun>>
       PROVE  RowMatchesPlace'
  <2>1. wrun[w] \in RunIds /\ wrun[w] < nextId
    BY <1>17 DEF FlightInv, HeldIsActive, Busy
  <2>2. \A r \in RunIds : r # wrun[w] => status'[r] = status[r]
    BY <1>17
  <2>3. status'[wrun[w]] = st /\ st # "none" /\ status[wrun[w]] # "none"
    BY <1>17, <2>1 DEF Statuses, RunIds
  <2>4. \A c \in Callers : cpc[c] = "send" => crun[c] # wrun[w]
    BY <1>17 DEF FlightInv, SingleFlight, HeldIsActive, InEnqueue, Busy
  <2>5. \A i \in 1 .. Len(queue) : queue[i] # wrun[w]
    BY <1>17 DEF FlightInv, SingleFlight, Busy
  <2>6. \A v \in Workers : wpc[v] # "idle" /\ v # w => wrun[v] # wrun[w]
    BY <1>17 DEF FlightInv, SingleFlight, Busy
  <2>7. \A r \in RunIds : status'[r] = "none" <=> r >= nextId
    BY <2>1, <2>2, <2>3
  <2>8. \A c \in Callers : cpc[c] = "send" => status'[crun[c]] = "queued"
    BY <1>0, <2>2, <2>4
  <2>9. \A i \in 1 .. Len(queue) : status'[queue[i]] = "queued"
    BY <2>2, <2>5
  <2>10. \A v \in Workers : v # w /\ wpc[v] # "idle" =>
           status'[wrun[v]] = status[wrun[v]]
    BY <1>0, <2>2, <2>6
  <2> QED BY <1>17, <2>3, <2>7, <2>8, <2>9, <2>10
<1>18. ASSUME NEW w \in Workers, MarkStarted(w)
       PROVE  RowMatchesPlace'
  <2>1. /\ wpc[w] = "taken" /\ wpc' = [wpc EXCEPT ![w] = "running"]
        /\ UNCHANGED <<nextId, cpc, crun, queue, wrun>>
    BY <1>18 DEF MarkStarted
  <2>2. CASE status' = [status EXCEPT ![wrun[w]] = "running"]
    BY <1>17, <2>1, <2>2 DEF Statuses
  <2>3. CASE UNCHANGED status
    BY <2>1, <2>3
  <2> QED BY <1>18, <2>2, <2>3 DEF MarkStarted
<1>19. ASSUME NEW w \in Workers, JobReturns(w)
       PROVE  RowMatchesPlace'
  BY <1>19 DEF JobReturns
<1>20. ASSUME NEW w \in Workers, MarkEnded(w)
       PROVE  RowMatchesPlace'
  <2>1. /\ wpc[w] = "ended" /\ wpc' = [wpc EXCEPT ![w] = "recorded"]
        /\ UNCHANGED <<nextId, cpc, crun, queue, wrun>>
    BY <1>20 DEF MarkEnded
  <2>2. CASE status' = [status EXCEPT ![wrun[w]] = wstatus[w]]
    <3>1. wstatus[w] \in Statuses
      BY DEF Terminal, Statuses
    <3> QED BY <1>17, <2>1, <2>2, <3>1
  <2>3. CASE UNCHANGED status
    BY <2>1, <2>3
  <2> QED BY <1>20, <2>2, <2>3 DEF MarkEnded
<1>21. ASSUME NEW w \in Workers, AfterRun(w)
       PROVE  RowMatchesPlace'
  BY <1>21 DEF AfterRun
<1>22. CASE Cancel
  BY <1>22 DEF Cancel
<1>23. CASE TimePasses
  BY <1>23 DEF TimePasses
<1>24. CASE CrashRestart
  <2>1. 1 .. Len(queue') = {}
    BY <1>24 DEF CrashRestart, Boot
  <2>2. /\ \A c \in Callers : cpc'[c] = "idle"
        /\ \A w \in Workers : wpc'[w] = "idle"
    BY <1>24 DEF CrashRestart, Boot
  <2> QED
    BY <1>24, <2>1, <2>2 DEF CrashRestart
<1>25. CASE UNCHANGED vars
  BY <1>25 DEF vars
<1> QED
  BY <1>1, <1>2, <1>4, <1>5, <1>6, <1>7, <1>8, <1>9, <1>10, <1>11, <1>12,
     <1>13, <1>14, <1>15, <1>16, <1>18, <1>19, <1>20, <1>21, <1>22, <1>23,
     <1>24, <1>25
  DEF Next, Scheduling, Enqueuing, Executing, Terminated

LEMMA RowMatchesPlaceHolds == Spec => []RowMatchesPlace
<1>1. Init => RowMatchesPlace
  <2> SUFFICES ASSUME Init PROVE RowMatchesPlace
    OBVIOUS
  <2>1. 1 .. Len(queue) = {} /\ \A r \in RunIds : r >= 1
    BY DEF Init, RunIds
  <2> QED
    BY <2>1 DEF Init, RowMatchesPlace
<1> QED
  BY <1>1, TypeCorrect, FlightInvHolds, RowMatchesPlaceInductive, PTL DEF Spec

(* A row only moves forward, and its outcome and key are final, through     *)
(* failed writes, panics, a cancelled context and restarts (InsertRun,      *)
(* MarkStarted and MarkEnded of store.go as the Runner calls them).         *)
THEOREM RowMovesForwardHolds == Spec => RowMovesForward
<1>1. TypeOK /\ RowMatchesPlace /\ [Next]_vars => [\A r \in RunIds : RowStep(r)]_vars
  <2> SUFFICES ASSUME TypeOK, RowMatchesPlace, [Next]_vars, NEW r \in RunIds
               PROVE  RowStep(r)
    OBVIOUS
  <2> USE DEF RowStep, stored
  <2>1. ASSUME NEW c \in Callers, InsertRun(c) PROVE RowStep(r)
    <3>1. /\ status' = [status EXCEPT ![nextId] = "queued"]
          /\ rowKey' = [rowKey EXCEPT ![nextId] = ckey[c]]
      BY <2>1 DEF InsertRun
    <3>2. CASE r = nextId
      <4>1. status[r] = "none"
        BY <3>2 DEF RowMatchesPlace, RunIds
      <4> QED BY <3>1, <3>2, <4>1 DEF TypeOK
    <3>3. CASE r # nextId
      BY <3>1, <3>3 DEF TypeOK
    <3> QED BY <3>2, <3>3
  <2>2. ASSUME NEW w \in Workers, MarkStarted(w) PROVE RowStep(r)
    BY <2>2 DEF MarkStarted, RowMatchesPlace, TypeOK
  <2>3. ASSUME NEW w \in Workers, MarkEnded(w) PROVE RowStep(r)
    BY <2>3 DEF MarkEnded, RowMatchesPlace, TypeOK
  <2>4. CASE UNCHANGED <<status, rowKey>>
    BY <2>4
  <2>5. \/ \E c \in Callers : InsertRun(c)
        \/ \E w \in Workers : MarkStarted(w) \/ MarkEnded(w)
        \/ UNCHANGED <<status, rowKey>>
    BY DEF Next, Scheduling, Hydrate, BeginTick, SchedClaim, Claim, SchedRejected,
           SchedDecide, CloseQueue, Stop, Enqueuing, InsertFails, Send,
           QueueFull, SendPanics, RunNow, EnqueueFromJob, Executing, Take,
           JobReturns, AfterRun, Cancel, TimePasses, CrashRestart, Terminated,
           vars
  <2> QED BY <2>1, <2>2, <2>3, <2>4, <2>5
<1> QED
  BY <1>1, TypeCorrect, RowMatchesPlaceHolds, PTL DEF Spec, RowMovesForward

(* Shutdown: the scheduler goroutine is between passes when the channel     *)
(* closes, and nothing is in flight below it once Start has returned.       *)
ShutdownInv ==
  /\ cpc[Sched] # "idle" => JobOf[ckey[Sched]] \in todo
  /\ todo # {} => phase \in {"startup", "loop"}
  /\ phase = "stopped" => queue = << >> /\ \A w \in Workers : wpc[w] = "idle"

LEMMA ShutdownInvInductive ==
  TypeOK /\ FlightInv /\ ShutdownInv /\ [Next]_vars => ShutdownInv'
<1> SUFFICES ASSUME TypeOK, FlightInv, ShutdownInv, [Next]_vars
             PROVE  ShutdownInv'
  OBVIOUS
<1> USE ConstantsAssumption
    DEF TypeOK, ShutdownInv, Closed, stored, pass, callers, workers, env
<1>1. CASE Hydrate
  BY <1>1 DEF Hydrate
<1>2. CASE BeginTick
  BY <1>2 DEF BeginTick
<1>3. CASE SchedClaim
  BY <1>3 DEF SchedClaim, Claim, Callers
<1>4. CASE SchedRejected
  BY <1>4 DEF SchedRejected, Return, Callers
<1>5. ASSUME NEW n \in Names, SchedDecide(n)
      PROVE  ShutdownInv'
  BY <1>5 DEF SchedDecide, Callers
<1>6. CASE CloseQueue
  BY <1>6 DEF CloseQueue
<1>7. CASE Stop
  BY <1>7 DEF Stop
<1>8. ASSUME NEW c \in Callers, Enqueuing(c)
      PROVE  ShutdownInv'
  <2>1. CASE InsertRun(c)
    BY <2>1 DEF InsertRun
  <2>2. CASE InsertFails(c)
    BY <2>2 DEF InsertFails, Return
  <2>3. CASE Send(c)
    BY <2>3 DEF Send, Return
  <2>4. CASE QueueFull(c)
    BY <2>4 DEF QueueFull, Return
  <2>5. CASE SendPanics(c)
    <3>1. c \in Workers => wpc[c] = "running"
      BY <2>5 DEF SendPanics, FlightInv, HeldIsActive, InEnqueue
    <3> QED BY <2>5, <3>1 DEF SendPanics, Return
  <2> QED BY <1>8, <2>1, <2>2, <2>3, <2>4, <2>5 DEF Enqueuing
<1>9. ASSUME NEW c \in Callers \ {Sched}, NEW k \in Keys, Claim(c, k)
      PROVE  ShutdownInv'
  BY <1>9 DEF Claim
<1>10. ASSUME NEW c \in Clients, NEW k \in Keys, RunNow(c, k)
       PROVE  ShutdownInv'
  BY <1>9, <1>10 DEF RunNow, Callers
<1>11. ASSUME NEW w \in Workers, NEW k \in Keys, EnqueueFromJob(w, k)
       PROVE  ShutdownInv'
  BY <1>9, <1>11 DEF EnqueueFromJob, Callers
<1>12. ASSUME NEW w \in Workers, Executing(w)
       PROVE  ShutdownInv'
  BY <1>12 DEF Executing, Take, MarkStarted, JobReturns, MarkEnded, AfterRun
<1>13. CASE Cancel
  BY <1>13 DEF Cancel
<1>14. CASE TimePasses
  BY <1>14 DEF TimePasses
<1>15. CASE CrashRestart
  BY <1>15 DEF CrashRestart, Boot, Callers
<1>16. CASE UNCHANGED vars
  BY <1>16 DEF vars
<1> QED
  BY <1>1, <1>2, <1>3, <1>4, <1>5, <1>6, <1>7, <1>8, <1>10, <1>11, <1>12,
     <1>13, <1>14, <1>15, <1>16
  DEF Next, Scheduling, Terminated

LEMMA ShutdownInvHolds == Spec => []ShutdownInv
<1>1. Init => ShutdownInv
  BY DEF Init, ShutdownInv, Callers
<1> QED
  BY <1>1, TypeCorrect, FlightInvHolds, ShutdownInvInductive, PTL DEF Spec

(* The scheduler goroutine, whose panic nothing recovers, never meets the   *)
(* channel it has closed.                                                   *)
THEOREM SchedulerNeverPanicsHolds == Spec => []SchedulerNeverPanics
<1>1. TypeOK /\ ShutdownInv => SchedulerNeverPanics
  BY DEF TypeOK, ShutdownInv, SchedulerNeverPanics, Closed, Phases, Callers
<1> QED
  BY <1>1, TypeCorrect, ShutdownInvHolds, PTL

(* Start returns with the channel drained and every worker idle, and it     *)
(* stays so: what comes later panics in its own caller.                     *)
THEOREM StoppedIsDrainedHolds == Spec => []StoppedIsDrained
<1>1. ShutdownInv => StoppedIsDrained
  <2> SUFFICES ASSUME ShutdownInv, phase = "stopped"
               PROVE  SentRuns = {} /\ ExecutingRuns = {}
    BY DEF StoppedIsDrained
  <2>1. 1 .. Len(queue) = {} /\ \A w \in Workers : wpc[w] = "idle"
    BY DEF ShutdownInv
  <2> QED BY <2>1 DEF SentRuns, ExecutingRuns
<1> QED
  BY <1>1, ShutdownInvHolds, PTL

-----------------------------------------------------------------------------
(* Beyond single flight: Runner.active is exact, keys bound what the        *)
(* channel holds, and the rows are true while nothing has gone wrong.       *)

(* While a caller is about to send, the channel holds runs of pairwise      *)
(* different keys, none of them the caller's.                               *)
LEMMA SlotsAreKeyed ==
  ASSUME TypeOK, FlightInv, NEW c \in Callers, cpc[c] = "send"
  PROVE  [i \in 1 .. Len(queue) |-> rowKey[queue[i]]]
           \in Injection(1 .. Len(queue), Keys \ {ckey[c]})
<1>1. \A i \in 1 .. Len(queue) : rowKey[queue[i]] \in Keys \ {ckey[c]}
  BY DEF TypeOK, FlightInv, SingleFlight, HeldIsActive, InEnqueue
<1>2. \A i, j \in 1 .. Len(queue) : rowKey[queue[i]] = rowKey[queue[j]] => i = j
  BY DEF FlightInv, SingleFlight
<1> QED
  BY <1>1, <1>2 DEF Injection, IsInjective

(* enqueue's "queue full" is unreachable while the channel has a slot for   *)
(* every dedup key in use: each key fills one slot at most, and the caller  *)
(* at the channel holds a key of its own.                                   *)
THEOREM NoOverflow == Spec => []NoOverflowWhenKeysFit
<1>1. TypeOK /\ FlightInv => NoOverflowWhenKeysFit
  <2> SUFFICES ASSUME TypeOK, FlightInv, IsFiniteSet(Keys),
                      Cardinality(Keys) <= QueueCapacity,
                      NEW c \in Callers, cpc[c] = "send"
               PROVE  Len(queue) < QueueCapacity
    BY DEF NoOverflowWhenKeysFit
  <2> DEFINE Others == Keys \ {ckey[c]}
             n == Len(queue)
  <2>1. ckey[c] \in Keys /\ n \in Nat
    BY DEF TypeOK
  <2>2. IsFiniteSet(Others) /\ Cardinality(Others) = Cardinality(Keys) - 1
    <3>1. Cardinality(Others) = IF ckey[c] \in Keys THEN Cardinality(Keys) - 1
                                                    ELSE Cardinality(Keys)
      BY FS_RemoveElement, Zenon
    <3>2. IsFiniteSet(Others)
      BY FS_RemoveElement, Zenon
    <3> QED BY <2>1, <3>1, <3>2
  <2>3. Cardinality(1 .. n) <= Cardinality(Others)
    <3>1. PICK f : f \in Injection(1 .. n, Others)
      BY SlotsAreKeyed
    <3> QED BY <2>2, <3>1, FS_Injection
  <2>4. Cardinality(1 .. n) = n
    <3> HIDE DEF n, Others
    <3>1. 1 \in Int /\ n \in Int
      BY <2>1
    <3>2. Cardinality(1 .. n) = IF 1 > n THEN 0 ELSE n - 1 + 1
      BY <3>1, FS_Interval, Zenon
    <3> QED BY <2>1, <3>2
  <2>5. Cardinality(Keys) \in Nat /\ QueueCapacity \in Nat
    BY FS_CardinalityType, ConstantsAssumption, Zenon
  <2> HIDE DEF n, Others
  <2>6. n < QueueCapacity
    BY <2>1, <2>2, <2>3, <2>4, <2>5
  <2> QED BY <2>6 DEF n
<1> QED
  BY <1>1, TypeCorrect, FlightInvHolds, PTL

(* Who holds a key: a caller inside enqueue, a channel slot or a worker.    *)
Holds(k) == \/ \E c \in Callers : InEnqueue(c) /\ ckey[c] = k
            \/ \E i \in 1 .. Len(queue) : rowKey[queue[i]] = k
            \/ \E w \in Workers : Busy(w) /\ rowKey[wrun[w]] = k

LEMMA Holders == \A k : k \in HeldKeys <=> Holds(k)
  BY DEF Holds, HeldKeys, ClaimedKeys, SentRuns, ExecutingRuns, Busy

(* No flag is left behind: a step that takes a key out of the last place    *)
(* that held it clears its flag, unless the channel is closed.              *)
NoFlagLeaks == ~Closed => \A k \in active : Holds(k)

LEMMA NoFlagLeaksInductive ==
  TypeOK /\ FlightInv /\ NoFlagLeaks /\ [Next]_vars => NoFlagLeaks'
<1> SUFFICES ASSUME TypeOK, FlightInv, [Next]_vars, NoFlagLeaks
             PROVE  NoFlagLeaks'
  OBVIOUS
<1> USE ConstantsAssumption DEF stored, pass, callers, workers, env
<1> USE DEF TypeOK, NoFlagLeaks, Holds, InEnqueue, Busy, Closed
<1>1. CASE Hydrate
  BY <1>1 DEF Hydrate
<1>2. CASE BeginTick
  BY <1>2 DEF BeginTick
<1>3. ASSUME NEW c \in Callers, NEW k \in Keys, Claim(c, k),
             cpc[c] \in {"idle", "claim"}
      PROVE  NoFlagLeaks'
  <2>1. /\ active' = active \cup {k} /\ cpc' = [cpc EXCEPT ![c] = "insert"]
        /\ ckey' = [ckey EXCEPT ![c] = k]
        /\ UNCHANGED <<phase, rowKey, queue, wpc, wrun>>
    BY <1>3 DEF Claim
  <2>2. InEnqueue(c)' /\ ckey'[c] = k
    BY <2>1
  <2>3. \A d \in Callers : InEnqueue(d) => InEnqueue(d)' /\ ckey'[d] = ckey[d]
    BY <1>3, <2>1
  <2>4. Holds(k)'
    BY <2>2
  <2>5. ASSUME NEW l, Holds(l) PROVE Holds(l)'
    <3>1. CASE \E d \in Callers : InEnqueue(d) /\ ckey[d] = l
      BY <2>3, <3>1
    <3>2. CASE ~ \E d \in Callers : InEnqueue(d) /\ ckey[d] = l
      BY <2>1, <2>5, <3>2
    <3> QED BY <3>1, <3>2
  <2> HIDE DEF Holds
  <2> QED BY <2>1, <2>4, <2>5
<1>4. CASE SchedClaim
  BY <1>3, <1>4 DEF SchedClaim, Callers
<1>5. CASE SchedRejected
  BY <1>5 DEF SchedRejected, Return, Callers
<1>6. ASSUME NEW n \in Names, SchedDecide(n)
      PROVE  NoFlagLeaks'
  <2>1. /\ cpc[Sched] = "idle" /\ UNCHANGED <<phase, active, rowKey, queue, wpc, wrun>>
        /\ \A d \in Callers : d # Sched => cpc'[d] = cpc[d] /\ ckey'[d] = ckey[d]
    BY <1>6 DEF SchedDecide
  <2>2. \A d \in Callers : InEnqueue(d) => InEnqueue(d)' /\ ckey'[d] = ckey[d]
    BY <2>1
  <2>3. ASSUME NEW k, Holds(k) PROVE Holds(k)'
    <3>1. CASE \E d \in Callers : InEnqueue(d) /\ ckey[d] = k
      BY <2>2, <3>1
    <3>2. CASE ~ \E d \in Callers : InEnqueue(d) /\ ckey[d] = k
      BY <2>1, <2>3, <3>2
    <3> QED BY <3>1, <3>2
  <2> HIDE DEF Holds
  <2> QED BY <2>1, <2>3
<1>7. CASE CloseQueue
  BY <1>7 DEF CloseQueue
<1>8. CASE Stop
  BY <1>8 DEF Stop
<1>9. ASSUME NEW c \in Callers, InsertRun(c)
      PROVE  NoFlagLeaks'
  <2>1. /\ nextId \in RunIds
        /\ rowKey' = [rowKey EXCEPT ![nextId] = ckey[c]]
        /\ cpc[c] = "insert" /\ cpc' = [cpc EXCEPT ![c] = "send"]
        /\ UNCHANGED <<phase, active, queue, ckey, wpc, wrun>>
    BY <1>9 DEF InsertRun, RunIds
  <2>2. \A r \in RunIds : r < nextId => rowKey'[r] = rowKey[r]
    BY <2>1 DEF RunIds
  <2>3. \A i \in 1 .. Len(queue) : rowKey'[queue'[i]] = rowKey[queue[i]]
    <3>1. \A i \in 1 .. Len(queue) : queue[i] \in RunIds /\ queue[i] < nextId
      BY DEF FlightInv, HeldIsActive
    <3> QED BY <2>1, <2>2, <3>1
  <2>4. \A w \in Workers : Busy(w) => rowKey'[wrun'[w]] = rowKey[wrun[w]]
    <3>1. \A w \in Workers : Busy(w) => wrun[w] \in RunIds /\ wrun[w] < nextId
      BY DEF FlightInv, HeldIsActive
    <3> QED BY <2>1, <2>2, <3>1
  <2>5. \A d \in Callers : InEnqueue(d) => InEnqueue(d)' /\ ckey'[d] = ckey[d]
    BY <2>1
  <2>6. \A v \in Workers : Busy(v)' <=> Busy(v)
    BY <2>1
  <2>7. ASSUME NEW k, Holds(k) PROVE Holds(k)'
    <3>1. CASE \E d \in Callers : InEnqueue(d) /\ ckey[d] = k
      BY <2>5, <3>1
    <3>2. CASE \E i \in 1 .. Len(queue) : rowKey[queue[i]] = k
      BY <2>1, <2>3, <3>2
    <3>3. CASE \E v \in Workers : Busy(v) /\ rowKey[wrun[v]] = k
      BY <2>4, <2>6, <3>3
    <3> QED BY <2>7, <3>1, <3>2, <3>3
  <2> QED BY <2>1, <2>7
<1>10. ASSUME NEW c \in Callers, InsertFails(c)
       PROVE  NoFlagLeaks'
  BY <1>10 DEF InsertFails, Return
<1>11. ASSUME NEW c \in Callers, Send(c)
       PROVE  NoFlagLeaks'
  <2>1. /\ cpc[c] = "send" /\ queue' = Append(queue, crun[c])
        /\ \A d \in Callers : d # c => /\ cpc'[d] = cpc[d]
                                       /\ ckey'[d] = ckey[d]
        /\ UNCHANGED <<phase, active, rowKey, wpc, wrun>>
    BY <1>11 DEF Send, Return
  <2>2. rowKey[crun[c]] = ckey[c]
    BY <2>1 DEF FlightInv, HeldIsActive
  <2>3. /\ Len(queue) + 1 \in 1 .. Len(queue')
        /\ queue'[Len(queue) + 1] = crun[c]
        /\ \A i \in 1 .. Len(queue) :
             i \in 1 .. Len(queue') /\ queue'[i] = queue[i]
    BY <2>1
  <2>4. ASSUME NEW k, Holds(k) PROVE Holds(k)'
    <3>1. CASE \E d \in Callers : d # c /\ InEnqueue(d) /\ ckey[d] = k
      BY <2>1, <3>1
    <3>2. CASE ckey[c] = k
      BY <2>1, <2>2, <2>3, <3>2
    <3>3. CASE \E i \in 1 .. Len(queue) : rowKey[queue[i]] = k
      BY <2>1, <2>3, <3>3
    <3>4. CASE \E v \in Workers : Busy(v) /\ rowKey[wrun[v]] = k
      BY <2>1, <3>4
    <3> QED BY <2>4, <3>1, <3>2, <3>3, <3>4
  <2> QED BY <2>1, <2>4
<1>12. ASSUME NEW c \in Callers, QueueFull(c)
       PROVE  NoFlagLeaks'
  BY <1>12 DEF QueueFull, Return
<1>13. ASSUME NEW c \in Callers, SendPanics(c)
       PROVE  NoFlagLeaks'
  BY <1>13 DEF SendPanics
<1>14. ASSUME NEW c \in Clients, NEW k \in Keys, RunNow(c, k)
       PROVE  NoFlagLeaks'
  BY <1>3, <1>14 DEF RunNow, Callers
<1>15. ASSUME NEW w \in Workers, NEW k \in Keys, EnqueueFromJob(w, k)
       PROVE  NoFlagLeaks'
  BY <1>3, <1>15 DEF EnqueueFromJob, Callers
<1>16. ASSUME NEW w \in Workers, Take(w)
       PROVE  NoFlagLeaks'
  <2>1. /\ wpc[w] = "idle" /\ queue # << >> /\ queue' = Tail(queue)
        /\ wpc' = [wpc EXCEPT ![w] = "taken"]
        /\ wrun' = [wrun EXCEPT ![w] = Head(queue)]
        /\ UNCHANGED <<phase, active, rowKey, cpc, ckey>>
    BY <1>16 DEF Take
  <2>2. Busy(w)' /\ wrun'[w] = queue[1]
    BY <2>1
  <2>3. \A i \in 1 .. Len(queue) : i # 1 =>
          i - 1 \in 1 .. Len(queue') /\ queue'[i - 1] = queue[i]
    BY <2>1
  <2>4. \A v \in Workers : Busy(v) => Busy(v)' /\ wrun'[v] = wrun[v]
    BY <2>1
  <2>5. ASSUME NEW k, Holds(k) PROVE Holds(k)'
    <3>1. CASE \E d \in Callers : InEnqueue(d) /\ ckey[d] = k
      BY <2>1, <3>1
    <3>2. ASSUME NEW i \in 1 .. Len(queue), rowKey[queue[i]] = k
          PROVE  Holds(k)'
      <4>1. CASE i = 1
        BY <2>1, <2>2, <3>2, <4>1
      <4>2. CASE i # 1
        <5>1. PICK j \in 1 .. Len(queue') : queue'[j] = queue[i]
          BY <2>3, <4>2
        <5>2. rowKey'[queue'[j]] = k
          BY <2>1, <3>2, <5>1
        <5> QED BY <5>1, <5>2
      <4> QED BY <4>1, <4>2
    <3>3. CASE \E v \in Workers : Busy(v) /\ rowKey[wrun[v]] = k
      BY <2>1, <2>4, <3>3
    <3> QED BY <2>5, <3>1, <3>2, <3>3
  <2> QED BY <2>1, <2>5
<1>17. ASSUME NEW w \in Workers, MarkStarted(w)
       PROVE  NoFlagLeaks'
  BY <1>17 DEF MarkStarted
<1>18. ASSUME NEW w \in Workers, JobReturns(w)
       PROVE  NoFlagLeaks'
  BY <1>18 DEF JobReturns
<1>19. ASSUME NEW w \in Workers, MarkEnded(w)
       PROVE  NoFlagLeaks'
  BY <1>19 DEF MarkEnded
<1>20. ASSUME NEW w \in Workers, AfterRun(w)
       PROVE  NoFlagLeaks'
  BY <1>20 DEF AfterRun
<1>21. CASE Cancel
  BY <1>21 DEF Cancel
<1>22. CASE TimePasses
  BY <1>22 DEF TimePasses
<1>23. CASE CrashRestart
  BY <1>23 DEF CrashRestart, Boot
<1>24. CASE UNCHANGED vars
  BY <1>24 DEF vars
<1> QED
  BY <1>1, <1>2, <1>4, <1>5, <1>6, <1>7, <1>8, <1>9, <1>10, <1>11, <1>12,
     <1>13, <1>14, <1>15, <1>16, <1>17, <1>18, <1>19, <1>20, <1>21, <1>22,
     <1>23, <1>24
  DEF Next, Scheduling, Enqueuing, Executing, Terminated

(* The active map is exact: every key in flight is flagged, and while the   *)
(* channel is open every flag is held by a run in flight, so no error path  *)
(* of enqueue makes a job un-runnable and none frees a key in use.          *)
THEOREM FlagsExact == Spec => []ActiveIffHeld
<1>1. Init => NoFlagLeaks
  BY DEF Init, NoFlagLeaks
<1>2. FlightInv /\ NoFlagLeaks => ActiveIffHeld
  <2> SUFFICES ASSUME FlightInv, NoFlagLeaks PROVE ActiveIffHeld
    OBVIOUS
  <2>1. \A k : Holds(k) => k \in active
    BY DEF Holds, FlightInv, HeldIsActive
  <2> QED BY <2>1, Holders DEF NoFlagLeaks, ActiveIffHeld
<1> QED
  BY <1>1, <1>2, TypeCorrect, FlightInvHolds, NoFlagLeaksInductive, PTL DEF Spec

(* Where a run is: offered by a caller, in the channel or on a worker.      *)
Live(r) == \/ \E c \in Callers : cpc[c] = "send" /\ crun[c] = r
           \/ \E i \in 1 .. Len(queue) : queue[i] = r
           \/ \E w \in Workers : Busy(w) /\ wrun[w] = r

LEMMA LivePlaces ==
  /\ \A r : r \in LiveRuns <=> Live(r)
  /\ \A r : r \in ExecutingRuns <=> \E w \in Workers : Busy(w) /\ wrun[w] = r
  BY DEF Live, LiveRuns, OfferedRuns, SentRuns, ExecutingRuns, Busy

(* Why RecordHonest is inductive: only a cancelled context closes the       *)
(* channel, and a worker that has recorded its run has recorded an outcome, *)
(* which is what lets afterRun drop the run.                                *)
HonestRows ==
  /\ \A r \in RunIds : status[r] = "queued" => Live(r)
  /\ \A r \in RunIds : status[r] = "running" =>
       \E w \in Workers : Busy(w) /\ wrun[w] = r
  /\ \A w \in Workers : wpc[w] = "recorded" => status[wrun[w]] \in Terminal

KeysFit == IsFiniteSet(Keys) /\ Cardinality(Keys) <= QueueCapacity

RecordInv == /\ Closed => ctxDone
             /\ Healthy /\ KeysFit => HonestRows

LEMMA RecordInvInductive ==
  /\ TypeOK /\ FlightInv /\ RowMatchesPlace /\ NoOverflowWhenKeysFit
  /\ RecordInv /\ [Next]_vars
  => RecordInv'
<1> SUFFICES ASSUME TypeOK, FlightInv, RowMatchesPlace, NoOverflowWhenKeysFit,
                    RecordInv, [Next]_vars
             PROVE  RecordInv'
  OBVIOUS
<1> USE ConstantsAssumption DEF stored, pass, callers, workers, env
<1>1. (Closed => ctxDone)'
  <2> USE DEF RecordInv, Closed
  <2>1. CASE CloseQueue \/ Stop \/ CrashRestart
    BY <2>1 DEF CloseQueue, Stop, CrashRestart, Boot
  <2>2. CASE Cancel
    BY <2>2 DEF Cancel
  <2>3. CASE Scheduling
    BY <2>3 DEF Scheduling, Hydrate, BeginTick, SchedClaim, Claim,
                SchedRejected, SchedDecide
  <2>4. CASE UNCHANGED <<phase, ctxDone>>
    BY <2>4
  <2> QED
    BY <2>1, <2>2, <2>3, <2>4
    DEF Next, Enqueuing, InsertRun, InsertFails, Send, QueueFull, SendPanics,
        RunNow, EnqueueFromJob, Claim, Executing, Take, MarkStarted,
        JobReturns, MarkEnded, AfterRun, TimePasses, Terminated, vars
<1>2. ASSUME Healthy', KeysFit PROVE HonestRows'
  <2>1. ~CrashRestart
    BY <1>2 DEF CrashRestart, Healthy, TypeOK
  <2>2. Healthy
    BY <1>2, <2>1
    DEF Healthy, Next, Scheduling, Hydrate, BeginTick, SchedClaim, Claim,
        SchedRejected, SchedDecide, CloseQueue, Stop, Enqueuing, InsertRun,
        InsertFails, Send, QueueFull, SendPanics, RunNow, EnqueueFromJob,
        Executing, Take, MarkStarted, JobReturns, MarkEnded, AfterRun, Cancel,
        TimePasses, Terminated, vars
  <2>3. HonestRows /\ ~Closed /\ ~ctxDone
    BY <1>2, <2>2 DEF RecordInv, Healthy
  <2>4. \A c \in Callers : cpc[c] = "send" => Len(queue) < QueueCapacity
    BY <1>2, <2>3 DEF NoOverflowWhenKeysFit, KeysFit
  <2>5. \A v, w \in Workers : Busy(v) /\ Busy(w) /\ wrun[v] = wrun[w] => v = w
    BY DEF FlightInv, SingleFlight
  <2>6. \A w \in Workers : Busy(w) => wrun[w] \in RunIds /\ wrun[w] < nextId
    BY DEF FlightInv, HeldIsActive
  <2> USE DEF TypeOK, HonestRows, Live, Busy
  <2>7. CASE UNCHANGED <<status, queue, cpc, crun, wpc, wrun>>
    BY <2>3, <2>7
  <2>8. ASSUME NEW c \in Callers, cpc[c] \in {"idle", "claim", "insert"},
               \A d \in Callers : d # c => cpc'[d] = cpc[d] /\ crun'[d] = crun[d],
               UNCHANGED <<status, queue, wpc, wrun>>
        PROVE  HonestRows'
    <3>1. ASSUME NEW r \in RunIds, Live(r) PROVE Live(r)'
      BY <2>8, <3>1
    <3> HIDE DEF Live
    <3>2. ASSUME NEW r \in RunIds, status'[r] = "running"
          PROVE  \E w \in Workers : Busy(w)' /\ wrun'[w] = r
      BY <2>3, <2>8, <3>2
    <3>3. ASSUME NEW w \in Workers, wpc'[w] = "recorded"
          PROVE  status'[wrun'[w]] \in Terminal
      BY <2>3, <2>8, <3>3
    <3> QED BY <2>3, <2>8, <3>1, <3>2, <3>3
  <2>9. ASSUME NEW c \in Callers, InsertRun(c) PROVE HonestRows'
    <3>1. /\ cpc[c] = "insert" /\ nextId \in RunIds
          /\ status' = [status EXCEPT ![nextId] = "queued"]
          /\ cpc' = [cpc EXCEPT ![c] = "send"]
          /\ crun' = [crun EXCEPT ![c] = nextId]
          /\ UNCHANGED <<queue, wpc, wrun>>
      BY <2>9 DEF InsertRun, RunIds
    <3>2. \A r \in RunIds : r = nextId => Live(r)'
      BY <3>1
    <3>3. ASSUME NEW r \in RunIds, Live(r) PROVE Live(r)'
      BY <3>1, <3>3
    <3>4. \A w \in Workers : Busy(w) => wrun[w] # nextId
      BY <2>6
    <3>5. ASSUME NEW r \in RunIds, status'[r] = "queued" PROVE Live(r)'
      BY <2>3, <3>1, <3>2, <3>3, <3>5
    <3>6. ASSUME NEW r \in RunIds, status'[r] = "running"
          PROVE  \E w \in Workers : Busy(w)' /\ wrun'[w] = r
      BY <2>3, <3>1, <3>6
    <3>7. ASSUME NEW w \in Workers, wpc'[w] = "recorded"
          PROVE  status'[wrun'[w]] \in Terminal
      BY <2>3, <2>6, <3>1, <3>4, <3>7
    <3> QED BY <3>5, <3>6, <3>7
  <2>10. ASSUME NEW c \in Callers, Send(c) PROVE HonestRows'
    <3>1. /\ cpc[c] = "send" /\ queue' = Append(queue, crun[c])
          /\ \A d \in Callers : d # c => cpc'[d] = cpc[d] /\ crun'[d] = crun[d]
          /\ UNCHANGED <<status, wpc, wrun>>
      BY <2>10 DEF Send, Return
    <3>2. /\ Len(queue) + 1 \in 1 .. Len(queue')
          /\ queue'[Len(queue) + 1] = crun[c]
          /\ \A i \in 1 .. Len(queue) :
               i \in 1 .. Len(queue') /\ queue'[i] = queue[i]
      BY <3>1
    <3>3. ASSUME NEW r \in RunIds, Live(r) PROVE Live(r)'
      <4>1. CASE crun[c] = r
        BY <3>2, <4>1
      <4>2. CASE crun[c] # r
        BY <3>1, <3>2, <3>3, <4>2
      <4> QED BY <4>1, <4>2
    <3> QED BY <2>3, <3>1, <3>3
  <2>11. ASSUME NEW w \in Workers, Take(w) PROVE HonestRows'
    <3>1. /\ wpc[w] = "idle" /\ queue # << >> /\ queue' = Tail(queue)
          /\ wpc' = [wpc EXCEPT ![w] = "taken"]
          /\ wrun' = [wrun EXCEPT ![w] = Head(queue)]
          /\ UNCHANGED <<status, cpc, crun>>
      BY <2>11 DEF Take
    <3>2. Busy(w)' /\ wrun'[w] = queue[1]
      BY <3>1
    <3>3. \A i \in 1 .. Len(queue) : i # 1 =>
            i - 1 \in 1 .. Len(queue') /\ queue'[i - 1] = queue[i]
      BY <3>1
    <3>4. \A v \in Workers : Busy(v) => Busy(v)' /\ wrun'[v] = wrun[v]
      BY <3>1
    <3>5. ASSUME NEW r \in RunIds, Live(r) PROVE Live(r)'
      <4>1. CASE \E d \in Callers : cpc[d] = "send" /\ crun[d] = r
        BY <3>1, <4>1
      <4>2. ASSUME NEW i \in 1 .. Len(queue), queue[i] = r PROVE Live(r)'
        <5>1. CASE i = 1
          BY <3>2, <4>2, <5>1
        <5>2. CASE i # 1
          BY <3>3, <4>2, <5>2
        <5> QED BY <5>1, <5>2
      <4>3. CASE \E v \in Workers : Busy(v) /\ wrun[v] = r
        BY <3>4, <4>3
      <4> QED BY <3>5, <4>1, <4>2, <4>3
    <3>6. ASSUME NEW r \in RunIds, status'[r] = "running"
          PROVE  \E v \in Workers : Busy(v)' /\ wrun'[v] = r
      BY <2>3, <3>1, <3>4, <3>6
    <3>7. ASSUME NEW v \in Workers, wpc'[v] = "recorded"
          PROVE  status'[wrun'[v]] \in Terminal
      BY <2>3, <3>1, <3>7
    <3> HIDE DEF Live
    <3> QED BY <2>3, <3>1, <3>5, <3>6, <3>7
  <2>12. ASSUME NEW w \in Workers, Busy(w), Busy(w)', wpc'[w] # "recorded",
                status' = status \/ status' = [status EXCEPT ![wrun[w]] = "running"],
                wrun' = wrun, \A v \in Workers : v # w => wpc'[v] = wpc[v],
                UNCHANGED <<queue, cpc, crun>>
         PROVE  HonestRows'
    <3>1. ASSUME NEW r \in RunIds, Live(r) PROVE Live(r)'
      BY <2>12, <3>1
    <3>2. ASSUME NEW r \in RunIds, status'[r] = "running"
          PROVE  \E v \in Workers : Busy(v)' /\ wrun'[v] = r
      BY <2>3, <2>12, <3>2
    <3>3. ASSUME NEW v \in Workers, wpc'[v] = "recorded"
          PROVE  status'[wrun'[v]] \in Terminal
      BY <2>3, <2>5, <2>6, <2>12, <3>3
    <3>4. ASSUME NEW r \in RunIds, status'[r] = "queued" PROVE Live(r)'
      <4> HIDE DEF Live
      <4> QED BY <2>3, <2>6, <2>12, <3>1, <3>4
    <3> HIDE DEF Live
    <3> QED BY <3>2, <3>3, <3>4
  <2>13. ASSUME NEW w \in Workers, MarkStarted(w) PROVE HonestRows'
    BY <2>12, <2>13 DEF MarkStarted
  <2>14. ASSUME NEW w \in Workers, JobReturns(w) PROVE HonestRows'
    BY <2>12, <2>14 DEF JobReturns
  <2>15. ASSUME NEW w \in Workers, MarkEnded(w) PROVE HonestRows'
    <3>1. /\ wpc[w] = "ended" /\ wpc' = [wpc EXCEPT ![w] = "recorded"]
          /\ status' = [status EXCEPT ![wrun[w]] = wstatus[w]]
          /\ UNCHANGED <<queue, cpc, crun, wrun>>
      BY <2>2, <2>15 DEF MarkEnded, StoreError, Healthy
    <3>2. wstatus[w] \in Terminal /\ wstatus[w] \notin {"queued", "running"}
      BY DEF Terminal
    <3>3. ASSUME NEW r \in RunIds, Live(r) PROVE Live(r)'
      BY <3>1, <3>3
    <3>4. ASSUME NEW r \in RunIds, status'[r] = "running"
          PROVE  \E v \in Workers : Busy(v)' /\ wrun'[v] = r
      BY <2>3, <3>1, <3>2, <3>4
    <3>5. ASSUME NEW v \in Workers, wpc'[v] = "recorded"
          PROVE  status'[wrun'[v]] \in Terminal
      BY <2>3, <2>5, <2>6, <3>1, <3>2, <3>5
    <3>6. ASSUME NEW r \in RunIds, status'[r] = "queued" PROVE Live(r)'
      <4> HIDE DEF Live
      <4> QED BY <2>3, <2>6, <3>1, <3>2, <3>3, <3>6
    <3> HIDE DEF Live
    <3> QED BY <3>4, <3>5, <3>6
  <2>16. ASSUME NEW w \in Workers, AfterRun(w) PROVE HonestRows'
    <3>1. /\ wpc[w] = "recorded" /\ wpc' = [wpc EXCEPT ![w] = "idle"]
          /\ wrun' = [wrun EXCEPT ![w] = NoRun]
          /\ UNCHANGED <<status, queue, cpc, crun>>
      BY <2>16 DEF AfterRun
    <3>2. status[wrun[w]] \notin {"queued", "running"}
      BY <2>3, <3>1 DEF Terminal
    <3>3. ASSUME NEW r \in RunIds, Live(r), r # wrun[w] PROVE Live(r)'
      BY <3>1, <3>3
    <3>4. ASSUME NEW r \in RunIds, status'[r] = "running"
          PROVE  \E v \in Workers : Busy(v)' /\ wrun'[v] = r
      BY <2>3, <3>1, <3>2, <3>4
    <3>5. ASSUME NEW v \in Workers, wpc'[v] = "recorded"
          PROVE  status'[wrun'[v]] \in Terminal
      BY <2>3, <3>1, <3>5
    <3>6. ASSUME NEW r \in RunIds, status'[r] = "queued" PROVE Live(r)'
      <4> HIDE DEF Live
      <4> QED BY <2>3, <3>1, <3>2, <3>3, <3>6
    <3> HIDE DEF Live
    <3> QED BY <3>4, <3>5, <3>6
  <2>17. ASSUME NEW c \in Callers, Enqueuing(c) PROVE HonestRows'
    <3>1. ~QueueFull(c) /\ ~SendPanics(c)
      BY <2>3, <2>4 DEF QueueFull, SendPanics
    <3>2. CASE InsertFails(c)
      BY <2>8, <3>2 DEF InsertFails, Return
    <3> QED BY <2>9, <2>10, <2>17, <3>1, <3>2 DEF Enqueuing
  <2>18. ASSUME NEW c \in Callers, NEW k \in Keys, Claim(c, k),
                cpc[c] \in {"idle", "claim"}
         PROVE  HonestRows'
    BY <2>8, <2>18 DEF Claim
  <2>19. CASE Scheduling
    <3>1. Sched \in Callers
      BY DEF Callers
    <3>2. CASE SchedClaim
      BY <2>18, <3>1, <3>2 DEF SchedClaim
    <3>3. CASE SchedRejected
      BY <2>8, <3>1, <3>3 DEF SchedRejected, Return
    <3>4. ASSUME NEW n \in Names, SchedDecide(n) PROVE HonestRows'
      BY <2>8, <3>1, <3>4 DEF SchedDecide
    <3> QED BY <2>7, <2>19, <3>2, <3>3, <3>4 DEF Scheduling, Hydrate, BeginTick
  <2>20. ASSUME NEW w \in Workers, Executing(w) PROVE HonestRows'
    BY <2>11, <2>13, <2>14, <2>15, <2>16, <2>20 DEF Executing
  <2>21. ASSUME NEW c \in Clients, NEW k \in Keys, RunNow(c, k) PROVE HonestRows'
    BY <2>18, <2>21 DEF RunNow, Callers
  <2>22. ASSUME NEW w \in Workers, NEW k \in Keys, EnqueueFromJob(w, k)
         PROVE  HonestRows'
    BY <2>18, <2>22 DEF EnqueueFromJob, Callers
  <2> HIDE DEF HonestRows
  <2> QED
    BY <2>1, <2>7, <2>17, <2>19, <2>20, <2>21, <2>22
    DEF Next, CloseQueue, Stop, Cancel, TimePasses, Terminated, vars
<1> QED BY <1>1, <1>2 DEF RecordInv, KeysFit

(* What the table says is true while nothing has gone wrong: a queued row   *)
(* is on its way to a worker, a running one is on a worker, and every other *)
(* row that was inserted has its outcome. The drain that follows a          *)
(* cancelled context is outside: it leaves the record behind the fact.      *)
THEOREM RecordHonestHolds == Spec => []RecordHonest
<1>1. Init => RecordInv
  BY DEF Init, RecordInv, HonestRows, Closed, Live, Busy, RunIds
<1>2. TypeOK /\ RowMatchesPlace /\ RecordInv => RecordHonest
  <2> SUFFICES ASSUME TypeOK, RowMatchesPlace, RecordInv, Healthy, KeysFit,
                      NEW r \in RunIds
               PROVE  /\ status[r] = "queued" => r \in LiveRuns
                      /\ status[r] = "running" => r \in ExecutingRuns
                      /\ r < nextId /\ r \notin LiveRuns => status[r] \in Terminal
    BY DEF RecordHonest, KeysFit
  <2>1. /\ status[r] = "queued" => r \in LiveRuns
        /\ status[r] = "running" => r \in ExecutingRuns
    BY LivePlaces DEF RecordInv, HonestRows
  <2>2. r < nextId => status[r] \in Statuses
    BY ConstantsAssumption DEF RowMatchesPlace, TypeOK, RunIds
  <2>3. ExecutingRuns \subseteq LiveRuns
    BY DEF LiveRuns
  <2> QED BY <2>1, <2>2, <2>3 DEF Statuses, Terminal
<1> QED
  BY <1>1, <1>2, TypeCorrect, FlightInvHolds, RowMatchesPlaceHolds, NoOverflow,
     RecordInvInductive, PTL DEF Spec

-----------------------------------------------------------------------------
(* JobRunner implements JobLedger: each step of the runner issues, begins,  *)
(* retires or forgets runs as the ledger allows, or leaves the ledger alone.*)

(* The three places a run can be in, as sets of ids.                        *)
LEMMA Places ==
  ASSUME TypeOK
  PROVE  /\ \A c \in Callers : cpc[c] = "send" => crun[c] \in OfferedRuns
         /\ \A i \in 1 .. Len(queue) : queue[i] \in SentRuns
         /\ \A w \in Workers : wpc[w] # "idle" => wrun[w] \in ExecutingRuns
         /\ \A r \in OfferedRuns : \E c \in Callers : cpc[c] = "send" /\ r = crun[c]
         /\ \A r \in SentRuns : \E i \in 1 .. Len(queue) : r = queue[i]
         /\ \A r \in ExecutingRuns : \E w \in Workers : wpc[w] # "idle" /\ r = wrun[w]
  BY DEF OfferedRuns, SentRuns, ExecutingRuns

(* A caller about to insert holds a key no run in flight has: the run it    *)
(* inserts may be issued.                                                   *)
LEMMA ClaimedKeyIsFree ==
  ASSUME TypeOK, FlightInv, NEW c \in Callers, cpc[c] = "insert"
  PROVE  \A r \in LiveRuns : rowKey[r] # ckey[c]
<1> USE DEF FlightInv, SingleFlight, HeldIsActive, InEnqueue, Busy
<1>1. \A r \in OfferedRuns : rowKey[r] # ckey[c]
  BY Places
<1>2. \A r \in SentRuns : rowKey[r] # ckey[c]
  BY Places
<1>3. \A r \in ExecutingRuns : rowKey[r] # ckey[c]
  BY Places
<1> QED
  BY <1>1, <1>2, <1>3 DEF LiveRuns

(* A step that moves no run between places is no step of the ledger.        *)
LEMMA Unmoved ==
  ASSUME UNCHANGED <<rowKey, nextId, queue>>,
         \A c \in Callers : /\ cpc'[c] = "send" <=> cpc[c] = "send"
                            /\ cpc[c] = "send" => crun'[c] = crun[c],
         \A w \in Workers : /\ wpc'[w] = "idle" <=> wpc[w] = "idle"
                            /\ wpc[w] # "idle" => wrun'[w] = wrun[w]
  PROVE  UNCHANGED Ledger!vars
<1>1. OfferedRuns' = OfferedRuns
  BY DEF OfferedRuns
<1>2. SentRuns' = SentRuns
  BY DEF SentRuns
<1>3. ExecutingRuns' = ExecutingRuns
  BY DEF ExecutingRuns
<1> QED
  BY <1>1, <1>2, <1>3 DEF Ledger!vars, LiveRuns

(* The steps that move a run, one lemma each.                               *)

LEMMA InsertRunIssues ==
  ASSUME TypeOK, FlightInv, NEW c \in Callers, InsertRun(c)
  PROVE  Ledger!Issue(nextId, ckey[c])
<1>1. /\ cpc[c] = "insert" /\ nextId \in RunIds
      /\ rowKey' = [rowKey EXCEPT ![nextId] = ckey[c]]
      /\ nextId' = nextId + 1
      /\ crun' = [crun EXCEPT ![c] = nextId]
      /\ cpc' = [cpc EXCEPT ![c] = "send"]
      /\ UNCHANGED <<queue, wpc, wrun>>
  BY ConstantsAssumption DEF InsertRun, TypeOK, RunIds, workers
<1>2. nextId \notin 1 .. (nextId - 1) /\ 1 .. (nextId' - 1) = (1 .. (nextId - 1)) \cup {nextId}
  <2>1. nextId \in Nat \ {0} /\ nextId' - 1 = nextId
    BY <1>1 DEF RunIds
  <2> QED BY <2>1
<1>3. OfferedRuns' = OfferedRuns \cup {nextId}
  <2>1. \A d \in Callers : /\ cpc'[d] = "send" <=> cpc[d] = "send" \/ d = c
                           /\ crun'[d] = IF d = c THEN nextId ELSE crun[d]
    BY <1>1 DEF TypeOK
  <2> QED BY <1>1, <2>1 DEF OfferedRuns
<1>4. SentRuns' = SentRuns /\ ExecutingRuns' = ExecutingRuns
  BY <1>1 DEF SentRuns, ExecutingRuns
<1>5. LiveRuns' = LiveRuns \cup {nextId}
  BY <1>3, <1>4 DEF LiveRuns
<1> QED
  BY <1>1, <1>2, <1>4, <1>5, ClaimedKeyIsFree DEF Ledger!Issue

(* The channel takes the run over from its caller.                          *)
LEMMA SendMovesRun ==
  ASSUME TypeOK, NEW c \in Callers, Send(c)
  PROVE  UNCHANGED Ledger!vars
<1>1. /\ cpc[c] = "send" /\ queue' = Append(queue, crun[c])
      /\ cpc' = [cpc EXCEPT ![c] = "idle"]
      /\ crun' = [crun EXCEPT ![c] = NoRun]
      /\ UNCHANGED <<rowKey, nextId, wpc, wrun>>
  BY DEF Send, Return, stored, workers
<1>2. OfferedRuns \cup {crun[c]} = OfferedRuns
  BY <1>1 DEF OfferedRuns
<1>3. OfferedRuns = OfferedRuns' \cup {crun[c]}
  <2>1. \A d \in Callers : /\ cpc'[d] = "send" <=> cpc[d] = "send" /\ d # c
                           /\ d # c => crun'[d] = crun[d]
    BY <1>1 DEF TypeOK
  <2> QED BY <1>1, <2>1 DEF OfferedRuns
<1>4. SentRuns' = SentRuns \cup {crun[c]}
  <2>1. /\ Len(queue') = Len(queue) + 1 /\ Len(queue) \in Nat
        /\ queue'[Len(queue) + 1] = crun[c]
        /\ \A i \in 1 .. Len(queue) : queue'[i] = queue[i]
    BY <1>1 DEF TypeOK
  <2>2. 1 .. Len(queue') = (1 .. Len(queue)) \cup {Len(queue) + 1}
    BY <2>1
  <2> QED BY <2>1, <2>2 DEF SentRuns
<1>5. ExecutingRuns' = ExecutingRuns
  BY <1>1 DEF ExecutingRuns
<1> QED
  BY <1>1, <1>3, <1>4, <1>5 DEF Ledger!vars, LiveRuns

LEMMA TakeBegins ==
  ASSUME TypeOK, FlightInv, NEW w \in Workers, Take(w)
  PROVE  Ledger!Begin(Head(queue))
<1>1. /\ wpc[w] = "idle" /\ queue # << >> /\ queue' = Tail(queue)
      /\ wpc' = [wpc EXCEPT ![w] = "taken"]
      /\ wrun' = [wrun EXCEPT ![w] = Head(queue)]
      /\ UNCHANGED <<rowKey, nextId, cpc, crun>>
  BY DEF Take, stored, callers
<1>2. SentRuns = SentRuns' \cup {Head(queue)}
  <2>1. /\ Len(queue) \in Nat \ {0} /\ Len(queue') = Len(queue) - 1
        /\ Head(queue) = queue[1]
        /\ \A i \in 1 .. Len(queue') : queue'[i] = queue[i + 1]
    BY <1>1 DEF TypeOK
  <2>2. ASSUME NEW i \in 1 .. Len(queue), i # 1
        PROVE  i - 1 \in 1 .. Len(queue') /\ queue[i] = queue'[i - 1]
    <3>1. i - 1 \in 1 .. Len(queue') /\ (i - 1) + 1 = i
      BY <2>1, <2>2
    <3> QED BY <2>1, <3>1
  <2>3. ASSUME NEW r \in SentRuns, r # Head(queue) PROVE r \in SentRuns'
    BY <2>1, <2>2, <2>3 DEF SentRuns
  <2>4. ASSUME NEW r \in SentRuns' PROVE r \in SentRuns
    <3>1. PICK i \in 1 .. Len(queue') : r = queue'[i]
      BY DEF SentRuns
    <3>2. i + 1 \in 1 .. Len(queue) /\ r = queue[i + 1]
      BY <2>1, <3>1
    <3> QED BY <3>2 DEF SentRuns
  <2>5. Head(queue) \in SentRuns
    <3>1. 1 \in 1 .. Len(queue)
      BY <2>1
    <3> QED BY <2>1, <3>1 DEF SentRuns
  <2> QED BY <2>3, <2>4, <2>5
<1>3. ExecutingRuns' = ExecutingRuns \cup {Head(queue)}
  <2>1. \A v \in Workers : /\ wpc'[v] # "idle" <=> wpc[v] # "idle" \/ v = w
                           /\ wrun'[v] = IF v = w THEN Head(queue) ELSE wrun[v]
    BY <1>1 DEF TypeOK
  <2> QED BY <1>1, <2>1 DEF ExecutingRuns
<1>4. OfferedRuns' = OfferedRuns
  BY <1>1 DEF OfferedRuns
<1>5. Head(queue) \in LiveRuns \ ExecutingRuns
  BY <1>2, OnePlacePerRun DEF OnePlaceEach, LiveRuns
<1>6. LiveRuns' = LiveRuns
  BY <1>2, <1>3, <1>4 DEF LiveRuns
<1> QED
  BY <1>1, <1>3, <1>5, <1>6 DEF Ledger!Begin

(* A run given up at a full or a closed channel.                            *)
LEMMA GivenUpRetires ==
  ASSUME TypeOK, FlightInv, NEW c \in Callers, cpc[c] = "send", Return(c),
         UNCHANGED <<rowKey, nextId, queue, wrun>>,
         \A w \in Workers : wpc'[w] = "idle" <=> wpc[w] = "idle"
  PROVE  Ledger!Retire(crun[c])
<1>1. \A d \in Callers : /\ cpc'[d] = "send" <=> cpc[d] = "send" /\ d # c
                         /\ d # c => crun'[d] = crun[d]
  BY DEF Return, TypeOK
<1>2. \A d \in Callers : cpc[d] = "send" /\ d # c => crun[d] # crun[c]
  BY DEF FlightInv, SingleFlight, HeldIsActive, InEnqueue
<1>3. OfferedRuns' = OfferedRuns \ {crun[c]} /\ crun[c] \in OfferedRuns
  BY <1>1, <1>2 DEF OfferedRuns
<1>4. SentRuns' = SentRuns /\ ExecutingRuns' = ExecutingRuns
  BY DEF SentRuns, ExecutingRuns
<1>5. crun[c] \notin SentRuns \cup ExecutingRuns
  BY <1>3, OnePlacePerRun DEF OnePlaceEach
<1> QED
  BY <1>3, <1>4, <1>5 DEF Ledger!Retire, LiveRuns

LEMMA AfterRunRetires ==
  ASSUME TypeOK, FlightInv, NEW w \in Workers, AfterRun(w)
  PROVE  Ledger!Retire(wrun[w])
<1>1. /\ wpc[w] = "recorded"
      /\ wpc' = [wpc EXCEPT ![w] = "idle"]
      /\ wrun' = [wrun EXCEPT ![w] = NoRun]
      /\ UNCHANGED <<rowKey, nextId, queue, cpc, crun>>
  BY DEF AfterRun, stored, callers
<1>2. \A v \in Workers : /\ wpc'[v] # "idle" <=> wpc[v] # "idle" /\ v # w
                         /\ v # w => wrun'[v] = wrun[v]
  BY <1>1 DEF TypeOK
<1>3. \A v \in Workers : wpc[v] # "idle" /\ v # w => wrun[v] # wrun[w]
  BY <1>1 DEF FlightInv, SingleFlight, Busy
<1>4. ExecutingRuns' = ExecutingRuns \ {wrun[w]} /\ wrun[w] \in ExecutingRuns
  BY <1>1, <1>2, <1>3 DEF ExecutingRuns
<1>5. SentRuns' = SentRuns /\ OfferedRuns' = OfferedRuns
  BY <1>1 DEF SentRuns, OfferedRuns
<1>6. wrun[w] \notin SentRuns \cup OfferedRuns
  BY <1>4, OnePlacePerRun DEF OnePlaceEach
<1> QED
  BY <1>1, <1>4, <1>5, <1>6 DEF Ledger!Retire, LiveRuns

LEMMA CrashForgets ==
  ASSUME CrashRestart
  PROVE  Ledger!Forget
<1>1. /\ \A c \in Callers : cpc'[c] = "idle"
      /\ \A w \in Workers : wpc'[w] = "idle"
      /\ queue' = << >> /\ UNCHANGED <<rowKey, nextId>>
  BY DEF CrashRestart, Boot, stored, Callers
<1>2. 1 .. Len(queue') = {}
  BY <1>1
<1>3. OfferedRuns' = {} /\ SentRuns' = {} /\ ExecutingRuns' = {}
  BY <1>1, <1>2 DEF OfferedRuns, SentRuns, ExecutingRuns
<1> QED
  BY <1>1, <1>3 DEF Ledger!Forget, LiveRuns

(* Every step of the runner is a step of the ledger or leaves it alone.     *)
LEMMA StepImplementsStep ==
  ASSUME TypeOK, FlightInv, [Next]_vars
  PROVE  [Ledger!Next]_(Ledger!vars)
<1> USE ConstantsAssumption DEF stored, pass, callers, workers, env
<1>1. CASE Scheduling
  <2>1. CASE Hydrate
    BY <2>1, Unmoved DEF Hydrate
  <2>2. CASE BeginTick
    BY <2>2, Unmoved DEF BeginTick
  <2>3. CASE SchedClaim
    BY <2>3, Unmoved DEF SchedClaim, Claim, TypeOK
  <2>4. CASE SchedRejected
    BY <2>4, Unmoved DEF SchedRejected, Return, TypeOK, Callers
  <2>5. ASSUME NEW n \in Names, SchedDecide(n)
        PROVE  [Ledger!Next]_(Ledger!vars)
    BY <2>5, Unmoved DEF SchedDecide, TypeOK
  <2> QED
    BY <1>1, <2>1, <2>2, <2>3, <2>4, <2>5 DEF Scheduling
<1>2. CASE CloseQueue
  BY <1>2, Unmoved DEF CloseQueue
<1>3. CASE Stop
  BY <1>3, Unmoved DEF Stop
<1>4. ASSUME NEW c \in Callers, Enqueuing(c)
      PROVE  [Ledger!Next]_(Ledger!vars)
  <2>1. CASE InsertRun(c)
    <3>1. nextId \in RunIds /\ ckey[c] \in Keys
      BY <2>1 DEF InsertRun, TypeOK, RunIds
    <3> QED BY <2>1, <3>1, InsertRunIssues DEF Ledger!Next
  <2>2. CASE InsertFails(c)
    BY <2>2, Unmoved DEF InsertFails, Return, TypeOK
  <2>3. CASE Send(c)
    BY <2>3, SendMovesRun
  <2>4. ASSUME cpc[c] = "send" PROVE crun[c] \in RunIds
    BY <2>4 DEF TypeOK
  <2>5. CASE QueueFull(c)
    <3>1. Ledger!Retire(crun[c])
      BY <2>5, GivenUpRetires DEF QueueFull
    <3> QED BY <2>4, <2>5, <3>1 DEF QueueFull, Ledger!Next
  <2>6. CASE SendPanics(c)
    <3>1. /\ cpc[c] = "send" /\ Return(c)
          /\ UNCHANGED <<rowKey, nextId, queue, wrun>>
          /\ wpc' = IF c \in Workers THEN [wpc EXCEPT ![c] = "ended"] ELSE wpc
      BY <2>6 DEF SendPanics
    <3>2. c \in Workers => wpc[c] = "running"
      BY <3>1 DEF FlightInv, HeldIsActive, InEnqueue
    <3>3. \A w \in Workers : wpc'[w] = "idle" <=> wpc[w] = "idle"
      BY <3>1, <3>2 DEF TypeOK
    <3>4. Ledger!Retire(crun[c])
      BY <3>1, <3>3, GivenUpRetires
    <3> QED BY <2>4, <3>1, <3>4 DEF Ledger!Next
  <2> QED
    BY <1>4, <2>1, <2>2, <2>3, <2>5, <2>6 DEF Enqueuing
<1>5. ASSUME NEW c \in Clients, NEW k \in Keys, RunNow(c, k)
      PROVE  [Ledger!Next]_(Ledger!vars)
  BY <1>5, Unmoved DEF RunNow, Claim, TypeOK
<1>6. ASSUME NEW w \in Workers, NEW k \in Keys, EnqueueFromJob(w, k)
      PROVE  [Ledger!Next]_(Ledger!vars)
  BY <1>6, Unmoved DEF EnqueueFromJob, Claim, TypeOK
<1>7. ASSUME NEW w \in Workers, Executing(w)
      PROVE  [Ledger!Next]_(Ledger!vars)
  <2>1. CASE Take(w)
    <3>1. Head(queue) \in RunIds
      BY <2>1 DEF Take, TypeOK
    <3> QED BY <2>1, <3>1, TakeBegins DEF Ledger!Next
  <2>2. CASE MarkStarted(w)
    BY <2>2, Unmoved DEF MarkStarted, TypeOK
  <2>3. CASE JobReturns(w)
    BY <2>3, Unmoved DEF JobReturns, TypeOK
  <2>4. CASE MarkEnded(w)
    BY <2>4, Unmoved DEF MarkEnded, TypeOK
  <2>5. CASE AfterRun(w)
    <3>1. wrun[w] \in RunIds
      BY <2>5 DEF AfterRun, FlightInv, HeldIsActive, Busy
    <3> QED BY <2>5, <3>1, AfterRunRetires DEF Ledger!Next
  <2> QED
    BY <1>7, <2>1, <2>2, <2>3, <2>4, <2>5 DEF Executing
<1>8. CASE Cancel
  BY <1>8, Unmoved DEF Cancel
<1>9. CASE TimePasses
  BY <1>9, Unmoved DEF TimePasses
<1>10. CASE CrashRestart
  BY <1>10, CrashForgets DEF Ledger!Next
<1>11. CASE UNCHANGED vars
  BY <1>11, Unmoved DEF vars
<1> QED
  BY <1>1, <1>2, <1>3, <1>4, <1>5, <1>6, <1>7, <1>8, <1>9, <1>10, <1>11
  DEF Next, Terminated

(* The runner is a ledger of runs: whatever the interleaving of claims,     *)
(* inserts, sends, workers, panics and restarts, a fresh id is issued only  *)
(* while no live run has its key, is begun at most once, and a run that     *)
(* ended or was turned away never comes back.                               *)
THEOREM RunnerImplementsLedger == Spec => ImplementsLedger
<1>1. Init => Ledger!Init
  <2> SUFFICES ASSUME Init PROVE Ledger!Init
    OBVIOUS
  <2>1. 1 .. Len(queue) = {} /\ 1 .. (nextId - 1) = {}
    BY DEF Init
  <2>2. OfferedRuns = {} /\ SentRuns = {} /\ ExecutingRuns = {}
    BY <2>1 DEF Init, OfferedRuns, SentRuns, ExecutingRuns
  <2> QED
    BY <2>1, <2>2 DEF Init, Ledger!Init, LiveRuns
<1>2. TypeOK /\ FlightInv /\ [Next]_vars => [Ledger!Next]_(Ledger!vars)
  BY StepImplementsStep
<1> QED
  BY <1>1, <1>2, TypeCorrect, FlightInvHolds, PTL
  DEF Spec, ImplementsLedger, Ledger!Spec
=============================================================================
