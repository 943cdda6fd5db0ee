---------------------------- MODULE RaceService ----------------------------
(***************************************************************************)
(* The race service: the rows of the race database, the per-process active *)
(* race context with its lock, the lifecycle calls of the users, and the   *)
(* pipeline's two threads that call the service, the lap consumer and the  *)
(* fixed-duration ticker.                                                  *)
(*                                                                         *)
(* Every handler is split where another actor can run: between a SELECT    *)
(* (pysqlite reads outside a transaction) and the COMMIT of what follows,  *)
(* and wherever the context lock is not held.  A database transaction, and *)
(* a change of the context made while its lock is held, is one step.       *)
(***************************************************************************)
EXTENDS Integers, FiniteSets

CONSTANTS
    MaxRace,            \* bound: race ids are 1..MaxRace
    Car,                \* the cars with a driver in every race
    CuTime,             \* Control Unit timestamps of line crossings
    LapTarget,          \* lap_target of the fixed_laps races
    RecoverRunning,     \* race_management.recover_running_race
    Proc, Pipeline,     \* operating-system processes, and the telemetry one
    User, Home,         \* user threads, and the process each one lives in
    Consumer, Ticker,   \* the two threads of RaceTelemetryRunner
    None,
    MaxFailures,        \* bound: process crashes and database errors
    MaxDeletes          \* bound: deleted races

Race   == 1 .. MaxRace
Thread == User \cup {Consumer, Ticker}

ASSUME ConstantsAssumption ==
    /\ MaxRace \in Nat /\ LapTarget \in Nat \ {0}
    /\ {MaxFailures, MaxDeletes} \subseteq Nat
    /\ RecoverRunning \in BOOLEAN
    /\ Pipeline \in Proc /\ Home \in [User -> Proc]
    /\ Consumer # Ticker /\ {Consumer, Ticker} \cap User = {}
    /\ None \notin Race \cup Thread
    /\ None \notin [car : Car, cu : CuTime, number : Nat, ranked : BOOLEAN]
    /\ None \notin [Car -> SUBSET Nat]

VARIABLES
    \* The database.
    status,             \* races.status, "absent" when there is no row
    mode,               \* races.mode
    startedAt,          \* the races with a started_at
    finishedAt,         \* the races with a finished_at
    laps,               \* race_laps: the lap_numbers per race and car
    checkpoint,         \* race_lap_checkpoints.lap_count, or NoCheckpoint
    identity,           \* race_lap_ingest_identities: the cu_timestamps
    report,             \* the laps counted by the last race_summary report
    \* Volatile state.
    ctx,                \* ActiveRaceContext._race_id, per process
    lock,               \* the holder of ActiveRaceContext._lock, per process
    call,               \* the service call each thread is inside
    lap,                \* the lap event the consumer is recording
    pending,            \* running races recover_on_startup has yet to visit
    \* History, for bounds and properties only.
    deleted,            \* ids deleted at least once (SQLite reuses them)
    stranded,           \* races an error left running with no context naming them
    failures, deletes

races    == <<status, mode, startedAt, finishedAt>>
ledger   == <<laps, checkpoint, identity>>
db       == <<races, ledger, report>>
counters == <<deleted, stranded, failures, deletes>>
vars     == <<db, ctx, lock, call, lap, pending, counters>>

(***************************************************************************)
(* Types and tables.                                                       *)
(***************************************************************************)
Status   == {"draft", "ready", "running", "paused", "finished", "cancelled"}
Terminal == {"finished", "cancelled"}
Mode     == {"fixed_laps", "fixed_duration"}

ValidFrom == [mark_ready  |-> {"draft", "ready"},
              start_race  |-> {"draft", "ready"},
              pause_race  |-> {"running"},
              resume_race |-> {"paused"},
              finish_race |-> {"running", "paused"},
              cancel_race |-> {"draft", "ready", "running", "paused"}]

NewStatus == [mark_ready  |-> "ready",
              start_race  |-> "running",
              pause_race  |-> "paused",
              resume_race |-> "running",
              finish_race |-> "finished",
              cancel_race |-> "cancelled"]

Transition == DOMAIN ValidFrom
Locked     == Transition \ {"mark_ready"}
Activating == {"start_race", "resume_race"}

\* set_finished_at; the slip: cancel_race leaves it out.
EndingButCancel == {"finish_race"}
Ending          == {"finish_race", "cancel_race"}
Method     == Transition \cup {"update_race", "delete_race", "record_lap", "tick", "none"}

NoCheckpoint == -1

\* Stages inside which a thread holds its process's context lock.
LockedStage == {"preempt", "check", "write", "snapshot"}
Stage == LockedStage \cup
    {"idle", "booting",                              \* no call, process starting
     "marking", "updating",                          \* unlocked, check passed
     "deleting", "unlinking", "clearing",            \* delete_race
     "arrived", "orphaned", "loaded", "registered", "numbered", "ranking",
     "polled", "due"}                                \* before an auto-finish

Calls == [stage : Stage, method : Method, race : Race \cup {None}, snap : BOOLEAN]
Laps  == [car : Car, cu : CuTime, number : Nat, ranked : BOOLEAN]

Call(s, m, r, b) == [stage |-> s, method |-> m, race |-> r, snap |-> b]
Idle == Call("idle", "none", None, FALSE)
Boot == Call("booting", "none", None, FALSE)

ProcOf(t) == IF t \in User THEN Home[t] ELSE Pipeline
Free(t)   == lock[ProcOf(t)] = None
Exists(r) == status[r] # "absent"
Ran(r)    == \E c \in Car : laps[r][c] # {}

\* main.py starts the threads once recover_on_startup has returned.
Serving(p) ==
    p = Pipeline => /\ call[Consumer].stage # "booting"
                    /\ call[Consumer].method # "pause_race"
                    /\ pending = {}
Ready(t)   == call[t] = Idle /\ Serving(ProcOf(t))

(***************************************************************************)
(* The ways a call returns.                                                *)
(***************************************************************************)
Goto(t, s) == call' = [call EXCEPT ![t].stage = s]

\* The slip: a call that took no lock releases somebody else's.
UnlockAny(t) == lock' = [lock EXCEPT ![ProcOf(t)] = None]
Unlock(t)    == lock' = [lock EXCEPT ![ProcOf(t)] = IF @ = t THEN None ELSE @]
Return(t)  == call' = [call EXCEPT ![t] = Idle] /\ Unlock(t)

\* The call ends with its transaction rolled back: nothing is written.
\* The slip: an error path that forgets the lock.
GiveUpLocked(t) ==
    /\ call' = [call EXCEPT ![t] = Idle]
    /\ lap' = IF t = Consumer THEN None ELSE lap
    /\ UNCHANGED <<db, ctx, lock>>

GiveUp(t) ==
    /\ Return(t)
    /\ lap' = IF t = Consumer THEN None ELSE lap
    /\ UNCHANGED <<db, ctx>>

\* An error out of recover_on_startup ends it: main.py logs that and goes on.
EndRecovery(t) ==
    IF t = Consumer
    THEN /\ pending' = {}
         /\ stranded' = IF call[t].method = "pause_race"
                        THEN stranded \cup pending \cup {call[t].race} ELSE stranded
    ELSE UNCHANGED <<pending, stranded>>

\* SQLAlchemyError out of a SELECT or of a transaction that then rolls back.
\* At "check" it is also the session.refresh that follows the auto-pause.
DatabaseError(t) ==
    /\ failures < MaxFailures
    /\ call[t].stage \in {"preempt", "check", "write", "snapshot", "marking", "updating",
                          "deleting", "arrived", "loaded", "registered", "numbered",
                          "ranking", "polled"}
    /\ failures' = failures + 1
    /\ EndRecovery(t)
    /\ GiveUp(t)
    /\ UNCHANGED <<deleted, deletes>>

\* The row was deleted after it was read: the UPDATE matches no row, or the
\* INSERT of a child row breaks its foreign key.
RowGone(t) ==
    /\ \/ /\ call[t].stage \in {"write", "snapshot", "marking", "updating",
                                "loaded", "registered", "numbered"}
          /\ ~Exists(call[t].race)
       \/ /\ call[t].stage = "preempt"
          /\ ~Exists(ctx[ProcOf(t)])
    /\ EndRecovery(t)
    /\ GiveUp(t)
    /\ UNCHANGED <<deleted, failures, deletes>>

(***************************************************************************)
(* Lifecycle calls, all under the context lock except mark_ready.          *)
(***************************************************************************)

\* start_race and resume_race first look at the race the context names.
\* The slip: resume_race does not.
MustPreemptStart(t, m, r) ==
    LET other == ctx[ProcOf(t)] IN
    /\ m = "start_race"
    /\ other \notin {None, r}
    /\ status[other] \in ValidFrom["pause_race"]

MustPreempt(t, m, r) ==
    LET other == ctx[ProcOf(t)] IN
    /\ m \in Activating
    /\ other \notin {None, r}
    /\ status[other] \in ValidFrom["pause_race"]

BeginCall(t, m, r) ==
    /\ Free(t)
    /\ lock' = [lock EXCEPT ![ProcOf(t)] = t]
    /\ call' = [call EXCEPT ![t] =
                    Call(IF MustPreempt(t, m, r) THEN "preempt" ELSE "check", m, r,
                         \/ m = "finish_race"
                         \/ m = "cancel_race" /\ Ran(r))]

UserCall(t, m, r) ==
    /\ Ready(t)
    /\ BeginCall(t, m, r)
    /\ UNCHANGED <<db, ctx, lap, pending, counters>>

\* The auto-pause of the race in the context, committed on its own.
Preempt(t) ==
    LET other == ctx[ProcOf(t)] IN
    /\ call[t].stage = "preempt"
    /\ Exists(other)
    /\ status' = [status EXCEPT ![other] = NewStatus["pause_race"]]
    /\ Goto(t, "check")
    /\ UNCHANGED <<mode, startedAt, finishedAt, ledger, report, ctx, lock, lap,
                   pending, counters>>

\* _transition reads the row and consults the table ...
Check(t) ==
    /\ call[t].stage = "check"
    /\ status[call[t].race] \in ValidFrom[call[t].method]
    /\ Goto(t, "write")
    /\ UNCHANGED <<db, ctx, lock, lap, pending, counters>>

\* ... and raises RaceNotFoundError or InvalidRaceStateError ...
Refuse(t) ==
    /\ call[t].stage = "check"
    /\ status[call[t].race] \notin ValidFrom[call[t].method]
    /\ GiveUp(t)
    /\ UNCHANGED <<pending, counters>>

\* ActiveRaceContext.clear; the slip: it leaves a number.
ClearedToZero == 0
Cleared       == None

\* What the call does to the context once the row is committed.
\* The slip: it clears the context whatever race that names.
SettleBlindly(t, m, r) ==
    ctx' = [ctx EXCEPT ![ProcOf(t)] = IF m \in Activating THEN r ELSE Cleared]

Settle(t, m, r) ==
    ctx' = [ctx EXCEPT ![ProcOf(t)] = IF m \in Activating THEN r
                                      ELSE IF @ = r THEN Cleared ELSE @]

\* ... or commits, with an UPDATE by primary key that does not look again ...
Commit(m, r) ==
    /\ Exists(r)
    /\ status' = [status EXCEPT ![r] = NewStatus[m]]
    /\ startedAt' = IF m = "start_race" THEN startedAt \cup {r} ELSE startedAt
    /\ finishedAt' = IF m \in Ending THEN finishedAt \cup {r} ELSE finishedAt
    /\ UNCHANGED <<mode, ledger, report>>

Write(t) ==
    LET m == call[t].method
        r == call[t].race
    IN
    /\ call[t].stage = "write"
    /\ Commit(m, r)
    /\ Settle(t, m, r)
    /\ IF call[t].snap THEN Goto(t, "snapshot") /\ UNCHANGED lock ELSE Return(t)
    /\ UNCHANGED <<lap, pending, counters>>

\* ... and may raise after the COMMIT: session.refresh is a SELECT.  The context
\* is not settled, no summary is saved, and recover_on_startup goes no further.
\* The refresh of mark_ready and update_race leaves nothing different behind.
RefreshFails(t) ==
    LET m == call[t].method
        r == call[t].race
    IN
    /\ failures < MaxFailures
    /\ call[t].stage = "write"
    /\ Commit(m, r)
    /\ failures' = failures + 1
    /\ pending' = IF t = Consumer THEN {} ELSE pending
    /\ stranded' = stranded \cup (pending \ pending')
                     \cup (IF m \in Activating THEN {r} \ {ctx[ProcOf(t)]} ELSE {})
    /\ Return(t)
    /\ UNCHANGED <<ctx, lap, deleted, deletes>>

\* race_summary counts the lap rows; the slip: one short of the checkpoint.
SummaryShort(r) == [c \in Car |-> {n \in laps[r][c] : n < checkpoint[r][c]}]
Summary(r)      == laps[r]

\* _auto_snapshot: the summary report, in a transaction of its own.  It reads the
\* laps before it saves the report; the one lap the consumer may store in between
\* and the save touch different rows, so they are taken to be in either order.
Snapshot(t) ==
    LET r == call[t].race IN
    /\ call[t].stage = "snapshot"
    /\ Exists(r)
    /\ report' = [report EXCEPT ![r] = Summary(r)]
    /\ Return(t)
    /\ UNCHANGED <<races, ledger, ctx, lap, pending, counters>>

\* mark_ready of a ready race writes no status.
MarkReady(t, r) ==
    /\ Ready(t)
    /\ status[r] \in ValidFrom["mark_ready"] \ {NewStatus["mark_ready"]}
    /\ call' = [call EXCEPT ![t] = Call("marking", "mark_ready", r, FALSE)]
    /\ UNCHANGED <<db, ctx, lock, lap, pending, counters>>

MarkReadyWrite(t) ==
    /\ call[t].stage = "marking"
    /\ Exists(call[t].race)
    /\ status' = [status EXCEPT ![call[t].race] = NewStatus["mark_ready"]]
    /\ Return(t)
    /\ UNCHANGED <<mode, startedAt, finishedAt, ledger, report, ctx, lap, pending, counters>>

(***************************************************************************)
(* Calls outside the context lock: create, repeat, update and delete.      *)
(***************************************************************************)

\* SQLite gives a new row the largest id in use plus one.
NextId(r) ==
    /\ ~Exists(r)
    /\ r > 1 => Exists(r - 1)
    /\ \A q \in Race : q > r => ~Exists(q)

\* The default of default_race_status_after_create.
InitialStatus == "draft"

NewRace(t, md) ==
    /\ Ready(t)
    /\ \E r \in Race :
        /\ NextId(r)
        /\ status' = [status EXCEPT ![r] = InitialStatus]
        /\ mode' = [mode EXCEPT ![r] = md]
        /\ startedAt' = startedAt \ {r}
        /\ finishedAt' = finishedAt \ {r}
    /\ UNCHANGED <<ledger, report, ctx, lock, call, lap, pending, counters>>

CreateRace(t)    == \E md \in Mode : NewRace(t, md)
RepeatRace(t, q) == Exists(q) /\ NewRace(t, mode[q])

UpdateCheck(t, r) ==
    /\ Ready(t)
    /\ status[r] \in {"draft", "ready"}
    /\ call' = [call EXCEPT ![t] = Call("updating", "update_race", r, FALSE)]
    /\ UNCHANGED <<db, ctx, lock, lap, pending, counters>>

\* The UPDATE names the edited columns only, the status is not one of them.
UpdateWrite(t) ==
    /\ call[t].stage = "updating"
    /\ Exists(call[t].race)
    /\ \E md \in Mode : mode' = [mode EXCEPT ![call[t].race] = md]
    /\ Return(t)
    /\ UNCHANGED <<status, startedAt, finishedAt, ledger, report, ctx, lap, pending, counters>>

DeleteCheck(t, r) ==
    /\ Ready(t)
    /\ deletes < MaxDeletes
    /\ status[r] \notin {"absent", "running"}
    /\ deletes' = deletes + 1
    /\ call' = [call EXCEPT ![t] = Call("deleting", "delete_race", r, FALSE)]
    /\ UNCHANGED <<db, ctx, lock, lap, pending, deleted, stranded, failures>>

\* The child tables go with the row, by ON DELETE CASCADE.
DeleteWrite(t) ==
    LET r == call[t].race IN
    /\ call[t].stage = "deleting"
    /\ status' = [status EXCEPT ![r] = "absent"]
    /\ laps' = [laps EXCEPT ![r] = [c \in Car |-> {}]]
    /\ checkpoint' = [checkpoint EXCEPT ![r] = [c \in Car |-> NoCheckpoint]]
    /\ identity' = [identity EXCEPT ![r] = [c \in Car |-> {}]]
    /\ report' = [report EXCEPT ![r] = None]
    /\ deleted' = deleted \cup {r}
    /\ Goto(t, "unlinking")
    /\ UNCHANGED <<mode, startedAt, finishedAt, ctx, lock, lap, pending, stranded,
                   failures, deletes>>

\* ActiveRaceContext.get() and clear() take the lock one after the other.
Unlink(t) ==
    /\ call[t].stage = "unlinking"
    /\ Free(t)
    /\ IF ctx[ProcOf(t)] = call[t].race THEN Goto(t, "clearing") /\ UNCHANGED lock
                                        ELSE Return(t)
    /\ UNCHANGED <<db, ctx, lap, pending, counters>>

ClearContext(t, s) ==
    /\ call[t].stage = s
    /\ Free(t)
    /\ ctx' = [ctx EXCEPT ![ProcOf(t)] = Cleared]
    /\ Return(t)
    /\ lap' = IF t = Consumer THEN None ELSE lap
    /\ UNCHANGED <<db, pending, counters>>

Clear(t) == ClearContext(t, "clearing")

(***************************************************************************)
(* The consumer records one lap at a time.                                 *)
(***************************************************************************)
LapArrives(c, cu) ==
    /\ Ready(Consumer)
    /\ Free(Consumer)
    /\ ctx[Pipeline] # None
    /\ call' = [call EXCEPT ![Consumer] =
                    Call("arrived", "record_lap", ctx[Pipeline], FALSE)]
    /\ lap' = [car |-> c, cu |-> cu, number |-> 0, ranked |-> FALSE]
    /\ UNCHANGED <<db, ctx, lock, pending, counters>>

\* The row is read once: its status and mode are not looked at again.
Load ==
    LET r == call[Consumer].race IN
    /\ call[Consumer].stage = "arrived"
    /\ status[r] \in {"running", "absent"}
    /\ Goto(Consumer, IF Exists(r) THEN "loaded" ELSE "orphaned")
    /\ lap' = [lap EXCEPT !.ranked = (mode[r] = "fixed_laps")]
    /\ UNCHANGED <<db, ctx, lock, pending, counters>>

Drop ==
    /\ call[Consumer].stage = "arrived"
    /\ status[call[Consumer].race] \notin {"running", "absent"}
    /\ GiveUp(Consumer)
    /\ UNCHANGED <<pending, counters>>

OrphanClear == ClearContext(Consumer, "orphaned")

\* The unique constraint of the identity table; the slip: it is not there.
NeverSeen(r) == FALSE
Seen(r)      == lap.cu \in identity[r][lap.car]

\* The SAVEPOINT is opened outside a transaction, so its RELEASE commits.
Register ==
    LET r == call[Consumer].race IN
    /\ call[Consumer].stage = "loaded"
    /\ Exists(r)
    /\ ~Seen(r)
    /\ identity' = [identity EXCEPT ![r][lap.car] = @ \cup {lap.cu}]
    /\ Goto(Consumer, "registered")
    /\ UNCHANGED <<races, laps, checkpoint, report, ctx, lock, lap, pending, counters>>

Duplicate ==
    LET r == call[Consumer].race IN
    /\ call[Consumer].stage = "loaded"
    /\ Exists(r)
    /\ Seen(r)
    /\ GiveUp(Consumer)
    /\ UNCHANGED <<pending, counters>>

\* The lap row and its checkpoint, in one transaction.
StoreLap(n) ==
    LET r == call[Consumer].race IN
    /\ laps' = [laps EXCEPT ![r][lap.car] = @ \cup {n}]
    /\ checkpoint' = [checkpoint EXCEPT ![r][lap.car] = n]
    /\ IF lap.ranked THEN Goto(Consumer, "ranking") /\ lap' = lap
                     ELSE call' = [call EXCEPT ![Consumer] = Idle] /\ lap' = None
    /\ UNCHANGED <<races, identity, report, ctx, lock>>

\* seed_from_existing_laps counts the laps; the slip: the crossings.
SeedFromIdentities(r) == [c \in Car |-> Cardinality(identity[r][c])]
Seed(r)               == [c \in Car |-> Cardinality(laps[r][c])]

\* No checkpoint yet: the transaction that seeds it goes on to the lap.
FirstLap ==
    LET r == call[Consumer].race IN
    /\ call[Consumer].stage = "registered"
    /\ Exists(r)
    /\ checkpoint[r][lap.car] = NoCheckpoint
    /\ StoreLap(Seed(r)[lap.car] + 1)
    /\ UNCHANGED <<pending, counters>>

LoadCheckpoint ==
    LET r == call[Consumer].race IN
    /\ call[Consumer].stage = "registered"
    /\ checkpoint[r][lap.car] # NoCheckpoint
    /\ lap' = [lap EXCEPT !.number = checkpoint[r][lap.car] + 1]
    /\ Goto(Consumer, "numbered")
    /\ UNCHANGED <<db, ctx, lock, pending, counters>>

\* uq_race_laps_race_car_lap refuses a lap number that is already there.
CommitLap ==
    LET r == call[Consumer].race IN
    /\ call[Consumer].stage = "numbered"
    /\ Exists(r)
    /\ IF lap.number \in laps[r][lap.car] THEN GiveUp(Consumer)
                                          ELSE StoreLap(lap.number)
    /\ UNCHANGED <<pending, counters>>

\* _maybe_auto_finish: the leader has driven the distance.
\* The slips: one lap too late, and not before the last car has.
LeaderPast(r) == \E c \in Car : Cardinality(laps[r][c]) > LapTarget
AllDone(r)    == \A c \in Car : Cardinality(laps[r][c]) >= LapTarget
LeaderDone(r) == \E c \in Car : Cardinality(laps[r][c]) >= LapTarget

Rank ==
    /\ call[Consumer].stage = "ranking"
    /\ call' = [call EXCEPT ![Consumer] =
                    IF LeaderDone(@.race) THEN [@ EXCEPT !.stage = "due"] ELSE Idle]
    /\ lap' = None
    /\ UNCHANGED <<db, ctx, lock, pending, counters>>

(***************************************************************************)
(* The ticker: one look at the context, one at the row, then finish_race.  *)
(* Whether the duration has elapsed is left open.                          *)
(***************************************************************************)
TickerPoll ==
    /\ Ready(Ticker)
    /\ Free(Ticker)
    /\ ctx[Pipeline] # None
    /\ call' = [call EXCEPT ![Ticker] = Call("polled", "tick", ctx[Pipeline], FALSE)]
    /\ UNCHANGED <<db, ctx, lock, lap, pending, counters>>

Timed(r) == status[r] = "running" /\ mode[r] = "fixed_duration" /\ r \in startedAt

TickerJudge ==
    /\ call[Ticker].stage = "polled"
    /\ \E elapsed \in BOOLEAN :
        call' = [call EXCEPT ![Ticker] =
                    IF Timed(@.race) /\ elapsed THEN [@ EXCEPT !.stage = "due"] ELSE Idle]
    /\ UNCHANGED <<db, ctx, lock, lap, pending, counters>>

AutoFinish(t) ==
    /\ call[t].stage = "due"
    /\ BeginCall(t, "finish_race", call[t].race)
    /\ UNCHANGED <<db, ctx, lap, pending, counters>>

(***************************************************************************)
(* Crash, restart and recover_on_startup.                                  *)
(***************************************************************************)
Crash(p) ==
    /\ failures < MaxFailures
    /\ failures' = failures + 1
    /\ ctx' = [ctx EXCEPT ![p] = None]
    /\ lock' = [lock EXCEPT ![p] = None]
    /\ call' = [t \in Thread |-> IF ProcOf(t) # p THEN call[t]
                                 ELSE IF t = Consumer THEN Boot ELSE Idle]
    /\ lap' = IF p = Pipeline THEN None ELSE lap
    /\ pending' = IF p = Pipeline THEN {} ELSE pending
    /\ UNCHANGED <<db, deleted, stranded, deletes>>

BootList ==
    /\ call[Consumer].stage = "booting"
    /\ call' = [call EXCEPT ![Consumer] = Idle]
    /\ pending' = {r \in Race : status[r] = "running"}
    /\ UNCHANGED <<db, ctx, lock, lap, counters>>

\* list_races returns the newest race first, so the oldest one is attached last.
\* Checkpoints are rebuilt from the lap rows either way.
RecoverNext(r) ==
    /\ call[Consumer] = Idle
    /\ r \in pending
    /\ \A q \in pending : q <= r
    /\ pending' = pending \ {r}
    /\ checkpoint' = [checkpoint EXCEPT ![r] = IF Exists(r) THEN Seed(r) ELSE @]
    /\ IF RecoverRunning
          THEN /\ ctx' = [ctx EXCEPT ![Pipeline] = r]
               /\ UNCHANGED <<lock, call>>
          ELSE /\ BeginCall(Consumer, "pause_race", r)
               /\ UNCHANGED ctx
    /\ UNCHANGED <<races, laps, identity, report, lap, counters>>

\* The SELECT of the running races fails, or the transaction that seeds the
\* checkpoints of the next one.
RecoveryFails ==
    /\ failures < MaxFailures
    /\ \/ /\ call[Consumer].stage = "booting"
          /\ stranded' = stranded \cup {r \in Race : status[r] = "running"}
       \/ /\ call[Consumer] = Idle
          /\ pending # {}
          /\ stranded' = stranded \cup pending
    /\ failures' = failures + 1
    /\ pending' = {}
    /\ call' = [call EXCEPT ![Consumer] = Idle]
    /\ UNCHANGED <<db, ctx, lock, lap, deleted, deletes>>

-----------------------------------------------------------------------------
Init ==
    /\ status = [r \in Race |-> "absent"]
    /\ mode = [r \in Race |-> "fixed_laps"]
    /\ startedAt = {} /\ finishedAt = {} /\ deleted = {} /\ pending = {} /\ stranded = {}
    /\ laps = [r \in Race |-> [c \in Car |-> {}]]
    /\ checkpoint = [r \in Race |-> [c \in Car |-> NoCheckpoint]]
    /\ identity = [r \in Race |-> [c \in Car |-> {}]]
    /\ report = [r \in Race |-> None]
    /\ ctx = [p \in Proc |-> None]
    /\ lock = [p \in Proc |-> None]
    /\ call = [t \in Thread |-> IF t = Consumer THEN Boot ELSE Idle]
    /\ lap = None
    /\ failures = 0 /\ deletes = 0

\* What a user starts.
UserStarts(t) ==
    \/ CreateRace(t)
    \/ \E r \in Race :
        \/ \E m \in Locked : UserCall(t, m, r)
        \/ RepeatRace(t, r) \/ MarkReady(t, r) \/ UpdateCheck(t, r) \/ DeleteCheck(t, r)

\* What a thread inside a call does next.
InLocked(t) ==
    Preempt(t) \/ Check(t) \/ Refuse(t) \/ Write(t) \/ Snapshot(t) \/ RowGone(t)
InUnlocked(t) ==
    MarkReadyWrite(t) \/ UpdateWrite(t) \/ DeleteWrite(t) \/ Unlink(t) \/ Clear(t)
Recording ==
    \/ Load \/ Drop \/ OrphanClear \/ Register \/ Duplicate
    \/ FirstLap \/ LoadCheckpoint \/ CommitLap \/ Rank
Booting == BootList \/ \E r \in Race : RecoverNext(r)

Next ==
    \/ \E t \in User : UserStarts(t)
    \/ \E t \in Thread : InLocked(t)
    \/ \E t \in User : InUnlocked(t)
    \/ Recording
    \/ \E c \in Car, cu \in CuTime : LapArrives(c, cu)
    \/ TickerPoll \/ TickerJudge
    \/ \E t \in {Consumer, Ticker} : AutoFinish(t)
    \/ Booting
    \/ \E p \in Proc : Crash(p)
    \/ \E t \in Thread : DatabaseError(t) \/ RefreshFails(t)
    \/ RecoveryFails

Spec == Init /\ [][Next]_vars

\* A thread inside a call goes on; a lock that is free again and again is got;
\* the ticker keeps polling.  Nothing makes a user, a car, a crash or a fault.
Fairness ==
    /\ \A t \in Thread : WF_vars(InLocked(t))
    /\ \A t \in User : SF_vars(InUnlocked(t))
    /\ SF_vars(Recording) /\ WF_vars(Booting) /\ WF_vars(TickerJudge)
    /\ \A t \in {Consumer, Ticker} : SF_vars(AutoFinish(t))

FairSpec == Spec /\ Fairness

-----------------------------------------------------------------------------
(***************************************************************************)
(* Properties that hold for any number of processes and users.             *)
(***************************************************************************)

\* Types of the database, the context, the calls and the lap in hand.
TypeOK ==
    /\ status \in [Race -> Status \cup {"absent"}]
    /\ mode \in [Race -> Mode]
    /\ {startedAt, finishedAt, deleted, pending, stranded} \subseteq SUBSET Race
    /\ laps \in [Race -> [Car -> SUBSET Nat]]
    /\ checkpoint \in [Race -> [Car -> Nat \cup {NoCheckpoint}]]
    /\ identity \in [Race -> [Car -> SUBSET CuTime]]
    /\ report \in [Race -> [Car -> SUBSET Nat] \cup {None}]
    /\ ctx \in [Proc -> Race \cup {None}]
    /\ lock \in [Proc -> Thread \cup {None}]
    /\ call \in [Thread -> Calls]
    /\ lap \in Laps \cup {None}
    /\ {failures, deletes} \subseteq Nat

\* A thread is inside a locked part of a call exactly when it holds the lock of
\* its process: every error path releases the lock, and no two threads of a
\* process are inside lifecycle calls at once.
LockDiscipline ==
    \A t \in Thread : call[t].stage \in LockedStage <=> lock[ProcOf(t)] = t

\* The lap numbers of a car are 1..n without a gap or a repetition, and its
\* checkpoint, when there is one, is n: across crashes, refused writes, seeding
\* in recovery and the seeding of a missing checkpoint.  Ids that have been
\* deleted are left out, SQLite gives them to other races.
NumbersAgree(r, c) ==
    /\ IsFiniteSet(laps[r][c])
    /\ laps[r][c] = 1 .. Cardinality(laps[r][c])
    /\ checkpoint[r][c] = IF checkpoint[r][c] = NoCheckpoint /\ laps[r][c] = {}
                          THEN NoCheckpoint ELSE Cardinality(laps[r][c])

LapLedger == \A r \in Race \ deleted, c \in Car : NumbersAgree(r, c)

\* The time stamps and the laps explain the status, whatever interleaving of
\* unguarded UPDATEs wrote it: nobody runs, pauses or finishes a race that was
\* never started, nor records a lap for one, and no race ends without a time.
StampsExplainStatus ==
    \A r \in Race \ deleted :
        /\ status[r] \in {"running", "paused", "finished"} \/ Ran(r) => r \in startedAt
        /\ status[r] \in Terminal => r \in finishedAt

\* Every crossing is counted at most once, and one that was accepted is missing
\* from the laps only while it is being recorded or after a crash or a database
\* error between the two transactions of record_lap.
InHand(r, c) ==
    IF /\ call[Consumer].stage \in {"registered", "numbered"}
       /\ call[Consumer].race = r /\ lap.car = c
    THEN 1 ELSE 0

CrossingsAccounted ==
    \A r \in Race \ deleted, c \in Car :
        LET accepted == Cardinality(identity[r][c])
            recorded == Cardinality(laps[r][c]) IN
        /\ recorded + InHand(r, c) <= accepted
        /\ accepted <= recorded + InHand(r, c) + failures

(***************************************************************************)
(* Properties of one process whose calls come from one user thread, the    *)
(* assumption of the documents, and with no race deleted: mark_ready and   *)
(* update_race take no lock, and a deletion races with the lap consumer    *)
(* (OneRaceRuns below).                                                    *)
(***************************************************************************)

\* The consumer and the ticker see the running race, so its laps are recorded
\* and its end is noticed: a race runs only while the context of the pipeline
\* names it, from the end of recover_on_startup on, unless an error has ended a
\* recovery early or has come between the COMMIT of a start and the context.
RunningIsTracked ==
    stranded = {} /\ Serving(Pipeline)
    => \A r \in Race : status[r] = "running" => ctx[Pipeline] = r

\* A fixed_laps race overshoots its target only by laps of one crossing per
\* auto-finish that a crash or a database error prevented.
LapsBounded ==
    \A r \in Race, c \in Car :
        mode[r] = "fixed_laps" => Cardinality(laps[r][c]) <= LapTarget + failures

\* The summary saved at the end of a race misses at most the one lap that the
\* consumer had loaded before the end, once the call that ended it is over.
Missed(r) == {c \in Car : report[r][c] # laps[r][c]}

ReportComplete ==
    \A r \in Race :
        /\ status[r] \in Terminal
        /\ report[r] # None
        /\ \A t \in Thread : call[t].stage = "snapshot" => call[t].race # r
        => /\ Cardinality(Missed(r)) <= 1
           /\ \A c \in Car : Cardinality(laps[r][c] \ report[r][c]) <= 1

\* The status of every race moves as the transition table says and at most one
\* race runs, although a check and its write are two steps: for ever, or until
\* an error, in a recovery or after the COMMIT of a start, leaves a race running
\* that no context names, beside which another one can be started.
Lifecycle == INSTANCE RaceLifecycle
LifecycleSpec == Lifecycle!Init /\ [][Lifecycle!Next \/ stranded # {}]_status

\* A race whose leader has the distance is finished by record_lap itself, unless
\* a crash or a database error comes in between.
Overdue(r) ==
    /\ status[r] = "running" /\ mode[r] = "fixed_laps" /\ failures = 0
    /\ \E c \in Car : Cardinality(laps[r][c]) >= LapTarget

LeaderEndsRace ==
    \A r \in Race : Overdue(r) ~> ~Overdue(r)

\* No call hangs: whoever is inside the service gets out of it again.
CallsReturn == \A t \in Thread : []<>(call[t].stage = "idle")

(***************************************************************************)
(* What the documents say and the code does not keep: these two in one     *)
(* process already, RunningIsTracked with the pages in a process of their  *)
(* own.                                                                    *)
(***************************************************************************)

\* FR-110: at most one race runs per process.
OneRaceRuns ==
    \A q, r \in Race : status[q] = "running" /\ status[r] = "running" => q = r

\* FR-120: laps are written only while the race is running.
LapsStopAtFinish ==
    [][\A r \in Race, c \in Car :
        laps'[r][c] \subseteq laps[r][c] \/ status[r] = "running"]_vars
=============================================================================
