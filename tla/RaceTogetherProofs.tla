------------------------- MODULE RaceTogetherProofs -------------------------
(***************************************************************************)
(* Theorems about RaceService in the deployment its documents assume: the  *)
(* pages and the telemetry threads in one process, one user at a time, and *)
(* no race deleted.  Any number of races, cars, laps, crashes and errors,  *)
(* with and without recovery of running races.                             *)
(***************************************************************************)
EXTENDS RaceLedgerProofs

OneSession ==
    /\ MaxDeletes = 0
    /\ \A t \in User : Home[t] = Pipeline
    /\ \A t, u \in User : t = u

(***************************************************************************)
(* Order among the calls.  Each call carries, from stage to stage, why its *)
(* next write is right: the status it checked is still there when it       *)
(* writes, because whoever else could change it holds the lock, is the     *)
(* same user, or is busy with a race of another status; the race to pause  *)
(* before a start still runs; and the threads of the pipeline only handle  *)
(* races that were started.  Recovery is over before a call begins.        *)
(***************************************************************************)
InOrder(t) ==
    LET x == call[t] IN
    /\ x.stage \notin {"deleting", "unlinking", "clearing", "orphaned"}
    /\ x.stage \in {"marking", "updating"} => t \in User /\ status[x.race] \in {"draft", "ready"}
    /\ x.stage \in LockedStage /\ x.snap => x.method \in Ending
    /\ x.stage = "preempt" => /\ x.method \in Activating
                              /\ ctx[Pipeline] \notin {None, x.race}
                              /\ status[ctx[Pipeline]] = "running"
    /\ x.stage = "write" => status[x.race] \in ValidFrom[x.method]
    /\ x.stage = "snapshot" => status[x.race] \in Terminal
    /\ x.method = "pause_race" => x.stage \in LockedStage
    /\ t \notin User =>
        /\ x.stage \in LockedStage => x.method \in {"finish_race", "pause_race"}
        /\ x.stage \notin {"idle", "booting"} => x.race \in startedAt

Recovers ==
    /\ \A r \in pending : status[r] = "running"
    /\ pending # {} => call[Consumer] = Idle \/ call[Consumer].method = "pause_race"
    /\ call[Consumer].method = "pause_race" => call[Consumer].race \notin pending

OthersWait == Serving(Pipeline) \/ \A t \in Thread \ {Consumer} : call[t] = Idle

Orderly ==
    /\ deleted = {}
    /\ \A r \in startedAt : status[r] \notin {"draft", "ready"}
    /\ \A t \in Thread : InOrder(t)
    /\ OthersWait
    /\ Recovers

\* What the proofs below start from.
Sound == Typed /\ LockDiscipline /\ StampsInv

LEMMA OneProcess ==
    ASSUME OneSession PROVE \A t \in Thread : ProcOf(t) = Pipeline
BY DEF OneSession, ProcOf

LEMMA OneHolder ==
    ASSUME OneSession, LockDiscipline, NEW t \in Thread, NEW u \in Thread,
           call[t].stage \in LockedStage, call[u].stage \in LockedStage
    PROVE  t = u
BY OneProcess DEF LockDiscipline

\* A thread that does not move, and whose race and context keep their status.
LEMMA InOrderKept ==
    ASSUME NEW t \in Thread, InOrder(t), call'[t] = call[t], startedAt \subseteq startedAt',
           call[t].stage \in {"marking", "updating", "write", "snapshot"}
           => status'[call[t].race] = status[call[t].race],
           call[t].stage = "preempt"
           => ctx'[Pipeline] = ctx[Pipeline] /\ status'[ctx[Pipeline]] = status[ctx[Pipeline]]
    PROVE  InOrder(t)'
BY DEF InOrder

LEMMA InOrderIdle ==
    ASSUME NEW t \in Thread, call'[t] \in {Idle, Boot} PROVE InOrder(t)'
BY DEF InOrder, Idle, Boot, Call, LockedStage

\* A thread that goes on in the pipeline, with or without the lock.
LEMMA InOrderGoes ==
    ASSUME NEW t \in Thread, t \notin User, InOrder(t), call[t].stage \notin {"idle", "booting"},
           call'[t].race = call[t].race, startedAt' = startedAt,
           \/ /\ call'[t].stage \in {"loaded", "registered", "numbered", "ranking", "due"}
              /\ call'[t].method = call[t].method /\ call[t].stage \notin LockedStage
           \/ /\ call'[t].stage = "check" /\ call'[t].method = "finish_race"
    PROVE  InOrder(t)'
BY DEF InOrder, LockedStage, Ending

\* A thread moves, and no row, no context and no part of the recovery does.
LEMMA OrderlyMoves ==
    ASSUME Orderly, NEW t \in Thread, UNCHANGED <<status, startedAt, deleted, ctx, pending>>,
           \A u \in Thread \ {t} : call'[u] = call[u],
           InOrder(t)',
           t = Consumer => /\ Serving(Pipeline) => Serving(Pipeline)'
                           /\ call'[t] = Idle \/ pending = {} \/ call'[t].method = "pause_race"
                           /\ call'[t].method # "pause_race" \/ call'[t].race \notin pending,
           t # Consumer => Serving(Pipeline)
    PROVE  Orderly'
<1>1. \A u \in Thread : InOrder(u)'
  BY InOrderKept DEF Orderly
<1>2. OthersWait' /\ Recovers'
  BY Constants DEF Orderly, OthersWait, Recovers, Serving, Idle, Call
<1> QED BY <1>1, <1>2 DEF Orderly

\* A call ends without a write; if it is part of the recovery, that may end too.
LEMMA OrderlyGivesUp ==
    ASSUME Typed, Orderly, NEW t \in Thread, GiveUp(t), UNCHANGED deleted, pending' \in {pending, {}}
    PROVE  Orderly'
<1>1. /\ UNCHANGED <<status, startedAt, ctx>> /\ call'[t] = Idle
      /\ \A u \in Thread \ {t} : call'[u] = call[u]
  BY DEF GiveUp, Return, db, races, Typed, CallsMade
<1>2. \A u \in Thread : InOrder(u)'
  BY <1>1, InOrderKept, InOrderIdle DEF Orderly
<1>3. call'[Consumer] = call[Consumer] \/ call'[Consumer] = Idle
  BY <1>1, Constants
<1>4. Recovers'
  BY <1>1, <1>3 DEF Orderly, Recovers, Idle, Call
<1>5. OthersWait'
  <2>1. CASE Serving(Pipeline)
    BY <1>3, <2>1 DEF OthersWait, Serving, Idle, Call
  <2>2. CASE ~Serving(Pipeline)
    BY <1>1, <2>2 DEF Orderly, OthersWait
  <2> QED BY <2>1, <2>2
<1> QED BY <1>1, <1>2, <1>4, <1>5 DEF Orderly

\* A call takes the lock.
LEMMA OrderlyBegins ==
    ASSUME OneSession, Sound, Orderly, NEW t \in Thread, NEW m \in Locked, NEW r \in Race,
           BeginCall(t, m, r), UNCHANGED <<status, startedAt, deleted, ctx>>,
           \/ /\ t \in User /\ Serving(Pipeline) /\ pending' = pending
           \/ /\ t \notin User /\ m = "finish_race" /\ r \in startedAt /\ pending' = pending
              /\ t # Consumer => Serving(Pipeline)
              /\ t = Consumer => pending = {}
           \/ t = Consumer /\ m = "pause_race" /\ r \in startedAt /\ r \in pending /\ pending' = pending \ {r}
    PROVE  Orderly'
<1>1. /\ call'[t] = Call(IF MustPreempt(t, m, r) THEN "preempt" ELSE "check", m, r,
                         \/ m = "finish_race"
                         \/ m = "cancel_race" /\ Ran(r))
      /\ \A u \in Thread \ {t} : call'[u] = call[u]
  BY DEF BeginCall, Sound, Typed, CallsMade
<1>2. ProcOf(t) = Pipeline
  BY OneProcess
<1>3. InOrder(t)'
  <2>1. CASE MustPreempt(t, m, r)
    BY <1>1, <1>2, <2>1
       DEF MustPreempt, InOrder, Call, LockedStage, Activating, ValidFrom, Ending
  <2>2. CASE ~MustPreempt(t, m, r)
    BY <1>1, <2>2 DEF InOrder, Call, LockedStage, Ending
  <2> QED BY <2>1, <2>2
<1>4. \A u \in Thread : InOrder(u)'
  BY <1>1, <1>3, InOrderKept DEF Orderly
<1>5. OthersWait' /\ Recovers'
  <2>1. CASE t # Consumer
    BY <1>1, <2>1, Constants DEF Orderly, OthersWait, Recovers, Serving
  <2>2. CASE t = Consumer /\ m = "finish_race"
    BY <1>1, <2>2, Constants DEF Orderly, OthersWait, Recovers, Serving, Call
  <2>3. CASE t = Consumer /\ m = "pause_race" /\ r \in pending /\ pending' = pending \ {r}
    BY <1>1, <2>3, Constants DEF Orderly, OthersWait, Recovers, Serving, Call
  <2> QED BY <2>1, <2>2, <2>3, Constants
<1> QED BY <1>4, <1>5 DEF Orderly

\* The transaction of a lifecycle call, with the call over or at its snapshot,
\* and the recovery ended if it was part of that.
LEMMA OrderlyCommits ==
    ASSUME OneSession, Sound, Orderly, NEW t \in Thread, call[t].stage = "write",
           Commit(call[t].method, call[t].race), deleted' = deleted,
           pending' = pending \/ (t = Consumer /\ pending' = {}),
           IF call[t].snap THEN Goto(t, "snapshot") \/ Return(t) ELSE Return(t)
    PROVE  Orderly'
<1> DEFINE m == call[t].method
           r == call[t].race
<1>0. /\ CallsMade /\ call \in [Thread -> Made] /\ \A u \in Thread : InOrder(u)
      /\ status \in [Race -> Status \cup {"absent"}]
      /\ startedAt \subseteq Race /\ deleted = {}
      /\ \A u \in Thread : ProcOf(u) = Pipeline
      /\ \A q \in startedAt : status[q] \notin {"draft", "ready"}
  BY OneProcess DEF Sound, Typed, TypeOK, CallsMade, Orderly
<1> USE <1>0, Constants
<1>1. /\ status' = [status EXCEPT ![r] = NewStatus[m]]
      /\ startedAt' = IF m = "start_race" THEN startedAt \cup {r} ELSE startedAt
  BY DEF Commit
<1>2. r \in Race /\ m \in Locked /\ status[r] \in ValidFrom[m] /\ call[t] # Idle
  BY DEF Made, LockedStage, InOrder, Idle, Call
<1>8. t # Consumer => Serving(Pipeline)
  BY <1>2 DEF Orderly, OthersWait
<1>3. NewStatus[m] \notin {"draft", "ready"} /\ (m \in Ending => NewStatus[m] \in Terminal)
  BY <1>2 DEF Locked, Transition, ValidFrom, NewStatus, Ending, Terminal
<1>4. startedAt \subseteq startedAt' /\ \A q \in startedAt' : status'[q] \notin {"draft", "ready"}
  BY <1>1, <1>2, <1>3
<1>5. ASSUME NEW u \in Thread PROVE InOrder(u)'
  <2>1. CASE u = t /\ call[t].snap /\ Goto(t, "snapshot")
    <3>1. m \in Ending /\ status'[r] \in Terminal
      BY <1>1, <1>2, <1>3, <2>1 DEF InOrder, LockedStage
    <3> QED BY <1>1, <1>4, <2>1, <3>1, GotoStage DEF InOrder, LockedStage
  <2>2. CASE u = t /\ Return(t)
    BY <2>2, InOrderIdle DEF Return
  <2>3. CASE u # t
    <3>1. call'[u] = call[u] /\ call[u].stage \notin LockedStage
      BY <1>1, <2>3, OneHolder, GotoStage, ReturnStage DEF Sound, LockedStage
    <3>2. call[u].stage \in {"marking", "updating"} => call[u].race # r
      <4> SUFFICES ASSUME call[u].stage \in {"marking", "updating"} PROVE call[u].race # r
        OBVIOUS
      <4>1. t \notin User /\ status[call[u].race] \in {"draft", "ready"}
        BY <2>3 DEF InOrder, OneSession
      <4>2. r \in startedAt
        BY <1>1, <4>1 DEF InOrder
      <4> QED BY <4>1, <4>2
    <3>3. call[u].stage \in {"marking", "updating"} => call[u].race \in Race
      BY DEF Made
    <3> QED BY <1>1, <1>4, <3>1, <3>2, <3>3, InOrderKept DEF LockedStage
  <2> QED BY <2>1, <2>2, <2>3
<1>6. Recovers'
  <2>1. \A q \in pending : status'[q] = status[q]
    <3>1. t # Consumer => pending = {}
      BY <1>8 DEF Serving
    <3>2. t = Consumer => pending = {} \/ r \notin pending
      BY <1>2 DEF Orderly, Recovers
    <3> QED BY <1>1, <3>1, <3>2
  <2>2. call'[Consumer] = call[Consumer] \/ call'[Consumer] = Idle
        \/ (call'[Consumer].method = m /\ call'[Consumer].race = r /\ t = Consumer)
    BY <1>1, GotoStage DEF Return
  <2>3. CASE call'[Consumer] = call[Consumer]
    BY <1>1, <2>1, <2>3 DEF Orderly, Recovers
  <2>4. CASE call'[Consumer] = Idle
    BY <1>1, <2>1, <2>4 DEF Orderly, Recovers, Idle, Call
  <2>5. CASE call'[Consumer].method = m /\ call'[Consumer].race = r /\ t = Consumer
    BY <1>1, <1>2, <2>1, <2>5 DEF Orderly, Recovers
  <2> QED BY <2>2, <2>3, <2>4, <2>5
<1>7. OthersWait'
  <2>1. CASE Serving(Pipeline)
    <3>1. call'[Consumer] = call[Consumer] \/ call'[Consumer] = Idle
          \/ (call'[Consumer].method = call[Consumer].method /\ call'[Consumer].stage = "snapshot")
      BY <1>1, GotoStage DEF Return
    <3> QED BY <1>1, <2>1, <3>1 DEF OthersWait, Serving, Idle, Call
  <2>2. CASE ~Serving(Pipeline)
    BY <1>2, <1>8, <2>2, GotoStage, ReturnStage DEF Orderly, OthersWait
  <2> QED BY <2>1, <2>2
<1> QED BY <1>1, <1>4, <1>5, <1>6, <1>7 DEF Orderly

LEMMA OrderlyNext ==
    ASSUME OneSession, Sound, Orderly, [Next]_vars PROVE Orderly'
<1>0. /\ CallsMade /\ call \in [Thread -> Made] /\ \A t \in Thread : InOrder(t)
      /\ status \in [Race -> Status \cup {"absent"}]
      /\ startedAt \subseteq Race /\ pending \subseteq Race /\ deleted = {}
      /\ \A t \in Thread : ProcOf(t) = Pipeline
      /\ \A r \in startedAt : Exists(r) /\ status[r] \notin {"draft", "ready"}
      /\ ctx[Pipeline] # None => ctx[Pipeline] \in startedAt
      /\ pending \subseteq startedAt
  BY OneProcess, Constants DEF Sound, Typed, TypeOK, CallsMade, Orderly, StampsInv, Begun
<1> USE <1>0, Constants DEF db, ledger, races, counters
<1>1. CASE UNCHANGED vars
  <2>1. \A t \in Thread : InOrder(t)'
    BY <1>1, InOrderKept DEF vars
  <2> QED BY <1>1, <2>1 DEF vars, Orderly, OthersWait, Recovers, Serving
\* A thread that is busy, or may start, finds the recovery over.
<1>2. ASSUME NEW t \in Thread, t # Consumer, call[t] # Idle \/ Ready(t) PROVE Serving(Pipeline)
  BY <1>2 DEF Orderly, OthersWait, Ready
<1>3. ASSUME NEW t \in User, UserStarts(t) PROVE Orderly'
  <2>0. t \in Thread /\ t # Consumer
    OBVIOUS
  <2>1. ASSUME NEW md, NewRace(t, md) PROVE Orderly'
    <3>1. PICK r \in Race : /\ ~Exists(r) /\ status' = [status EXCEPT ![r] = "draft"]
                            /\ startedAt' = startedAt \ {r}
      BY <2>1 DEF NewRace, NextId, InitialStatus
    <3>2. /\ UNCHANGED <<ctx, pending, call, deleted>> /\ call[t] = Idle /\ Serving(Pipeline)
      BY <2>1, <1>2, <2>0 DEF NewRace, Ready
    <3>3. startedAt' = startedAt /\ \A q \in Race \ {r} : status'[q] = status[q]
      BY <3>1
    <3>4. ASSUME NEW u \in Thread PROVE InOrder(u)'
      <4>1. call[u].stage \notin {"marking", "updating"}
        BY <3>2, <2>0 DEF InOrder, OneSession, Idle, Call
      <4>2. call[u].stage \in {"write", "snapshot", "preempt"} => call[u].race \in Race /\ call[u].method \in Locked
        BY DEF Made, LockedStage
      <4>3. call[u].stage \in {"write", "snapshot"} => Exists(call[u].race)
        BY <4>2 DEF InOrder, Exists, Terminal, Locked, Transition, ValidFrom
      <4>4. call[u].stage = "preempt" => ctx[Pipeline] \in Race /\ Exists(ctx[Pipeline])
        BY DEF InOrder, Exists
      <4> QED BY <3>1, <3>2, <3>3, <4>1, <4>2, <4>3, <4>4, InOrderKept
    <3>5. OthersWait' /\ Recovers'
      BY <3>2 DEF Serving, OthersWait, Recovers
    <3> QED BY <3>1, <3>2, <3>3, <3>4, <3>5 DEF Orderly
  <2>2. ASSUME NEW r \in Race, NEW m \in Locked, UserCall(t, m, r) PROVE Orderly'
    BY <2>0, <2>2, <1>2, OrderlyBegins DEF UserCall
  <2>3. ASSUME NEW r \in Race, MarkReady(t, r) \/ UpdateCheck(t, r) PROVE Orderly'
    <3>1. UNCHANGED <<status, startedAt, deleted, ctx, pending>> /\ Serving(Pipeline)
      BY <2>0, <2>3, <1>2 DEF MarkReady, UpdateCheck
    <3>2. /\ status[r] \in {"draft", "ready"}
          /\ \A u \in Thread \ {t} : call'[u] = call[u]
          /\ \/ call'[t] = Call("marking", "mark_ready", r, FALSE)
             \/ call'[t] = Call("updating", "update_race", r, FALSE)
      BY <2>0, <2>3 DEF MarkReady, UpdateCheck, ValidFrom
    <3>3. InOrder(t)'
      BY <3>1, <3>2 DEF InOrder, Call, LockedStage
    <3> QED BY <2>0, <3>1, <3>2, <3>3, OrderlyMoves
  <2>4. ~\E r \in Race : DeleteCheck(t, r)
    <3>1. deletes \in Nat
      BY DEF Sound, Typed, TypeOK
    <3>2. ~(deletes < 0)
      BY <3>1
    <3> QED BY <3>2 DEF DeleteCheck, OneSession
  <2> QED BY <1>3, <2>1, <2>2, <2>3, <2>4 DEF UserStarts, CreateRace, RepeatRace
<1>4. ASSUME NEW t \in Thread, InLocked(t) PROVE Orderly'
  <2>0. call[t].stage \in LockedStage => /\ call[t].race \in Race /\ call[t].method \in Locked
                                         /\ call[t] # Idle
    BY DEF Made, LockedStage, Idle, Call
  <2>1. CASE Preempt(t)
    <3> DEFINE other == ctx[Pipeline]
    <3>1. /\ status' = [status EXCEPT ![other] = "paused"] /\ Goto(t, "check")
          /\ UNCHANGED <<startedAt, deleted, ctx, pending>> /\ call[t].stage = "preempt"
      BY <2>1 DEF Preempt, NewStatus
    <3>2. /\ t \in User /\ t # Consumer /\ other \in Race /\ Serving(Pipeline)
      BY <2>0, <3>1, <1>2 DEF InOrder, LockedStage, Activating
    <3>3. ASSUME NEW u \in Thread PROVE InOrder(u)'
      <4>1. CASE u = t
        BY <3>1, <3>2, <4>1, GotoStage DEF InOrder, LockedStage
      <4>2. CASE u # t
        <5>1. call[u].stage \notin LockedStage
          BY <3>1, <4>2, OneHolder DEF Sound, LockedStage
        <5>2. call[u].stage \notin {"marking", "updating"}
          BY <3>2, <4>2 DEF InOrder, OneSession
        <5> QED BY <3>1, <4>2, <5>1, <5>2, GotoStage, InOrderKept DEF LockedStage
      <4> QED BY <4>1, <4>2
    <3>4. OthersWait' /\ Recovers'
      BY <3>1, <3>2, GotoStage DEF Serving, OthersWait, Recovers
    <3> QED BY <3>1, <3>2, <3>3, <3>4 DEF Orderly
  <2>2. CASE Check(t)
    <3>1. /\ UNCHANGED <<status, startedAt, deleted, ctx, pending>> /\ call[t].stage = "check"
          /\ status[call[t].race] \in ValidFrom[call[t].method] /\ Goto(t, "write")
      BY <2>2 DEF Check
    <3>2. InOrder(t)'
      BY <3>1, GotoStage DEF InOrder, LockedStage
    <3>3. call[t] # Idle
      BY <2>0, <3>1 DEF LockedStage
    <3>4. t = Consumer => /\ Serving(Pipeline) => Serving(Pipeline)'
                          /\ call'[t] = Idle \/ pending = {} \/ call'[t].method = "pause_race"
                          /\ call'[t].method # "pause_race" \/ call'[t].race \notin pending
      BY <3>1, <3>3, GotoStage DEF Serving, Orderly, Recovers
    <3> QED BY <3>1, <3>2, <3>3, <3>4, <1>2, GotoStage, OrderlyMoves
  <2>3. CASE Refuse(t) \/ RowGone(t)
    BY <2>3, OrderlyGivesUp DEF Refuse, RowGone, EndRecovery, Sound
  <2>4. CASE Write(t)
    BY <2>4, OrderlyCommits DEF Write
  <2>5. CASE Snapshot(t)
    <3>1. /\ UNCHANGED <<status, startedAt, deleted, ctx, pending>> /\ Return(t)
          /\ call[t].stage = "snapshot"
      BY <2>5 DEF Snapshot
    <3>2. call'[t] = Idle /\ \A u \in Thread \ {t} : call'[u] = call[u]
      BY <3>1 DEF Return
    <3>3. call[t] # Idle
      BY <2>0, <3>1 DEF LockedStage
    <3>4. t = Consumer => /\ Serving(Pipeline) => Serving(Pipeline)'
                          /\ call'[t].method # "pause_race"
      BY <3>1, <3>2 DEF Serving, Idle, Call
    <3>5. InOrder(t)' /\ (t # Consumer => Serving(Pipeline))
      BY <3>2, <3>3, <1>2, InOrderIdle
    <3> QED BY <3>1, <3>2, <3>4, <3>5, OrderlyMoves
  <2> QED BY <1>4, <2>1, <2>2, <2>3, <2>4, <2>5 DEF InLocked
<1>5. ASSUME NEW t \in User, InUnlocked(t) PROVE Orderly'
  <2>0. t \in Thread /\ t # Consumer
    OBVIOUS
  <2>1. CASE MarkReadyWrite(t)
    <3> DEFINE r == call[t].race
    <3>1. /\ status' = [status EXCEPT ![r] = "ready"] /\ call[t].stage = "marking"
          /\ UNCHANGED <<startedAt, deleted, ctx, pending>> /\ Return(t)
      BY <2>1 DEF MarkReadyWrite, NewStatus
    <3>2. call'[t] = Idle /\ \A u \in Thread \ {t} : call'[u] = call[u]
      BY <2>0, <3>1 DEF Return
    <3>3. r \in Race /\ status[r] \in {"draft", "ready"} /\ r \notin startedAt /\ Serving(Pipeline)
      BY <2>0, <3>1, <1>2 DEF InOrder, Made, Idle, Call
    <3>4. ASSUME NEW u \in Thread \ {t} PROVE InOrder(u)'
      <4>1. u \notin User
        BY <3>4 DEF OneSession
      <4>2. call[u].stage \in {"write", "snapshot"} => call[u].race \in startedAt
        BY <4>1 DEF InOrder
      <4>3. call[u].stage \notin {"marking", "updating", "preempt"}
        BY <4>1 DEF InOrder, LockedStage, Activating
      <4> QED BY <3>1, <3>2, <3>3, <3>4, <4>2, <4>3, InOrderKept
    <3>5. \A q \in startedAt' : status'[q] \notin {"draft", "ready"}
      BY <3>1, <3>3
    <3>6. OthersWait' /\ Recovers'
      BY <2>0, <3>1, <3>2, <3>3 DEF Serving, OthersWait, Recovers
    <3> QED BY <2>0, <3>1, <3>2, <3>4, <3>5, <3>6, InOrderIdle DEF Orderly
  <2>2. CASE UpdateWrite(t)
    <3>1. /\ UNCHANGED <<status, startedAt, deleted, ctx, pending>> /\ Return(t)
          /\ call[t].stage = "updating"
      BY <2>2 DEF UpdateWrite
    <3>2. call'[t] = Idle /\ \A u \in Thread \ {t} : call'[u] = call[u]
      BY <2>0, <3>1 DEF Return
    <3>3. Serving(Pipeline)
      BY <2>0, <3>1, <1>2 DEF Idle, Call
    <3> QED BY <2>0, <3>1, <3>2, <3>3, InOrderIdle, OrderlyMoves
  <2>3. call[t].stage \notin {"deleting", "unlinking", "clearing"}
    BY <2>0 DEF InOrder
  <2> QED BY <1>5, <2>1, <2>2, <2>3 DEF InUnlocked, DeleteWrite, Unlink, Clear, ClearContext
\* The consumer goes on with a lap, or drops it.
<1>6. CASE Recording
  <2>1. CASE Drop \/ Duplicate
    BY <2>1, OrderlyGivesUp DEF Drop, Duplicate, Sound
  <2>2. ASSUME UNCHANGED <<status, startedAt, deleted, ctx, pending>>,
               \A u \in Thread \ {Consumer} : call'[u] = call[u],
               call[Consumer].stage \in {"arrived", "loaded", "registered", "numbered", "ranking"},
               \/ call'[Consumer] = Idle
               \/ /\ call'[Consumer].stage \in {"loaded", "registered", "numbered", "ranking", "due"}
                  /\ call'[Consumer].method = call[Consumer].method
                  /\ call'[Consumer].race = call[Consumer].race
        PROVE  Orderly'
    <3>1. call[Consumer].method # "pause_race" /\ call[Consumer].stage \notin LockedStage
      BY <2>2 DEF InOrder, LockedStage
    <3>2. pending = {}
      BY <2>2, <3>1 DEF Orderly, Recovers, Idle, Call
    <3>3. InOrder(Consumer)'
      BY <2>2, <3>1, InOrderIdle, InOrderGoes
    <3>4. Serving(Pipeline)' /\ call'[Consumer].method # "pause_race"
      BY <2>2, <3>1, <3>2 DEF Serving, Idle, Call
    <3> QED BY <2>2, <3>2, <3>3, <3>4, OrderlyMoves
  <2>3. CASE Load
    <3>1. Exists(call[Consumer].race)
      BY <2>3 DEF Load, InOrder
    <3>2. Goto(Consumer, "loaded") /\ call[Consumer].stage = "arrived"
      BY <2>3, <3>1 DEF Load
    <3> QED BY <2>2, <2>3, <3>2, GotoStage DEF Load
  <2>4. CASE Register \/ LoadCheckpoint
    BY <2>2, <2>4, GotoStage DEF Register, LoadCheckpoint
  <2>5. CASE Rank
    <3>1. \/ call'[Consumer] = Idle
          \/ call'[Consumer] = [call[Consumer] EXCEPT !.stage = "due"]
      BY <2>5 DEF Rank
    <3>2. \/ call'[Consumer] = Idle
          \/ /\ call'[Consumer].stage = "due"
             /\ call'[Consumer].method = call[Consumer].method
             /\ call'[Consumer].race = call[Consumer].race
      BY <3>1 DEF Made, Calls
    <3> QED BY <2>2, <2>5, <3>2 DEF Rank
  <2>6. ASSUME NEW n, StoreLap(n), UNCHANGED <<pending, deleted>>,
               call[Consumer].stage \in {"registered", "numbered"}
        PROVE  Orderly'
    BY <2>2, <2>6, GotoStage DEF StoreLap
  <2>7. CASE FirstLap
    BY <2>6, <2>7 DEF FirstLap
  <2>8. CASE CommitLap
    BY <2>6, <2>8, OrderlyGivesUp DEF CommitLap, Sound
  <2>9. CASE OrphanClear
    BY <2>9 DEF OrphanClear, ClearContext, InOrder
  <2> QED BY <1>6, <2>1, <2>3, <2>4, <2>5, <2>7, <2>8, <2>9 DEF Recording
<1>7. ASSUME NEW c \in Car, NEW cu \in CuTime, LapArrives(c, cu) PROVE Orderly'
  <2>1. /\ UNCHANGED <<status, startedAt, deleted, ctx, pending>> /\ Serving(Pipeline)
        /\ \A u \in Thread \ {Consumer} : call'[u] = call[u]
        /\ call'[Consumer] = Call("arrived", "record_lap", ctx[Pipeline], FALSE)
        /\ ctx[Pipeline] \in startedAt
    BY <1>7 DEF LapArrives, Ready
  <2>2. InOrder(Consumer)' /\ Serving(Pipeline)' /\ pending = {}
    BY <2>1 DEF InOrder, Serving, Call, LockedStage
  <2> QED BY <2>1, <2>2, OrderlyMoves DEF Call
<1>8. CASE TickerPoll \/ TickerJudge
  <2>1. /\ UNCHANGED <<status, startedAt, deleted, ctx, pending>>
        /\ \A u \in Thread \ {Ticker} : call'[u] = call[u]
        /\ \/ call'[Ticker] = Idle /\ call[Ticker].stage = "polled"
           \/ Ready(Ticker) /\ ctx[Pipeline] \in startedAt
              /\ call'[Ticker] = Call("polled", "tick", ctx[Pipeline], FALSE)
           \/ call'[Ticker] = [call[Ticker] EXCEPT !.stage = "due"] /\ call[Ticker].stage = "polled"
    BY <1>8 DEF TickerPoll, TickerJudge
  <2>2. Serving(Pipeline)
    BY <2>1, <1>2 DEF Idle, Call
  <2>3. InOrder(Ticker)'
    <3>1. CASE call'[Ticker] = Idle
      BY <3>1, InOrderIdle
    <3>2. CASE call'[Ticker] = Call("polled", "tick", ctx[Pipeline], FALSE) /\ ctx[Pipeline] \in startedAt
      BY <2>1, <3>2 DEF InOrder, Call, LockedStage
    <3>3. CASE call'[Ticker] = [call[Ticker] EXCEPT !.stage = "due"] /\ call[Ticker].stage = "polled"
      <4>1. /\ call'[Ticker].stage = "due" /\ call'[Ticker].method = call[Ticker].method
            /\ call'[Ticker].race = call[Ticker].race
        BY <3>3 DEF Made, Calls
      <4> QED BY <2>1, <3>3, <4>1, InOrderGoes DEF LockedStage
    <3> QED BY <2>1, <3>1, <3>2, <3>3
  <2> QED BY <2>1, <2>2, <2>3, OrderlyMoves
<1>9. ASSUME NEW t \in {Consumer, Ticker}, AutoFinish(t) PROVE Orderly'
  <2>1. /\ call[t].stage = "due" /\ t \in Thread /\ t \notin User
        /\ BeginCall(t, "finish_race", call[t].race)
        /\ UNCHANGED <<status, startedAt, deleted, ctx, pending>>
    BY <1>9 DEF AutoFinish
  <2>2. /\ call[t].race \in Race /\ call[t].race \in startedAt /\ call[t] # Idle
        /\ call[t].method # "pause_race" /\ "finish_race" \in Locked
    BY <2>1 DEF Made, InOrder, LockedStage, Idle, Call, Locked, Transition, ValidFrom
  <2>3. t = Consumer => pending = {}
    BY <2>2 DEF Orderly, Recovers
  <2> QED BY <2>1, <2>2, <2>3, <1>2, OrderlyBegins
<1>10. CASE BootList
  <2>1. /\ UNCHANGED <<status, startedAt, deleted, ctx>> /\ call'[Consumer] = Idle
        /\ \A u \in Thread \ {Consumer} : call'[u] = call[u]
        /\ pending' = {r \in Race : status[r] = "running"} /\ call[Consumer].stage = "booting"
    BY <1>10 DEF BootList
  <2>2. OthersWait'
    BY <2>1 DEF Orderly, OthersWait, Serving
  <2>3. Recovers'
    BY <2>1 DEF Recovers, Idle, Call
  <2> QED BY <2>1, <2>2, <2>3, InOrderIdle, InOrderKept DEF Orderly
<1>11. ASSUME NEW r \in Race, RecoverNext(r) PROVE Orderly'
  <2>1. /\ call[Consumer] = Idle /\ r \in pending /\ pending' = pending \ {r}
        /\ UNCHANGED <<status, startedAt, deleted>> /\ r \in startedAt
    BY <1>11 DEF RecoverNext
  <2>2. CASE RecoverRunning
    <3>1. call' = call
      BY <1>11, <2>2 DEF RecoverNext
    <3>2. \A u \in Thread \ {Consumer} : call[u] = Idle
      BY <2>1 DEF Orderly, OthersWait, Serving
    <3>3. OthersWait' /\ Recovers'
      BY <2>1, <3>1, <3>2 DEF Orderly, OthersWait, Recovers, Idle, Call
    <3> QED BY <2>1, <3>1, <3>2, <3>3, InOrderIdle DEF Orderly
  <2>3. CASE ~RecoverRunning
    <3>1. BeginCall(Consumer, "pause_race", r) /\ ctx' = ctx /\ "pause_race" \in Locked
      BY <1>11, <2>3 DEF RecoverNext, Locked, Transition, ValidFrom
    <3> QED BY <2>1, <3>1, OrderlyBegins
  <2> QED BY <2>2, <2>3
<1>12. ASSUME NEW p \in Proc, Crash(p) PROVE Orderly'
  <2>1. UNCHANGED <<status, startedAt, deleted>>
    BY <1>12 DEF Crash
  <2>2. CASE p = Pipeline
    <3>1. call'[Consumer] = Boot /\ (\A u \in Thread \ {Consumer} : call'[u] = Idle) /\ pending' = {}
      BY <1>12, <2>2 DEF Crash
    <3>2. OthersWait' /\ Recovers'
      BY <3>1 DEF OthersWait, Recovers, Boot, Call
    <3> QED BY <2>1, <3>1, <3>2, InOrderIdle DEF Orderly
  <2>3. CASE p # Pipeline
    <3>1. (\A u \in Thread : call'[u] = call[u]) /\ pending' = pending /\ ctx'[Pipeline] = ctx[Pipeline]
      BY <1>12, <2>3 DEF Crash, Sound, Typed, TypeOK
    <3>2. OthersWait' /\ Recovers'
      BY <2>1, <3>1 DEF Orderly, OthersWait, Recovers, Serving
    <3> QED BY <2>1, <3>1, <3>2, InOrderKept DEF Orderly
  <2> QED BY <2>2, <2>3
<1>13. ASSUME NEW t \in Thread, DatabaseError(t) PROVE Orderly'
  BY <1>13, OrderlyGivesUp DEF DatabaseError, EndRecovery, Sound
<1>14. CASE RecoveryFails
  <2>1. /\ UNCHANGED <<status, startedAt, deleted, ctx>> /\ pending' = {}
        /\ call'[Consumer] = Idle /\ \A u \in Thread \ {Consumer} : call'[u] = call[u]
    BY <1>14 DEF RecoveryFails
  <2>2. OthersWait' /\ Recovers'
    BY <2>1 DEF OthersWait, Recovers, Serving, Idle, Call
  <2> QED BY <2>1, <2>2, InOrderIdle, InOrderKept DEF Orderly
<1>15. ASSUME NEW t \in Thread, RefreshFails(t) PROVE Orderly'
  BY <1>15, OrderlyCommits DEF RefreshFails
<1> QED
  BY <1>1, <1>3, <1>4, <1>5, <1>6, <1>7, <1>8, <1>9, <1>10, <1>11, <1>12, <1>13, <1>14, <1>15
     DEF Next, Booting

LEMMA AlwaysOrderly == ASSUME OneSession PROVE Spec => [](Sound /\ Orderly)
<1>1. Init => Orderly
  <2> SUFFICES ASSUME Init PROVE Orderly
    OBVIOUS
  <2>1. /\ call[Consumer] = Boot /\ \A t \in Thread \ {Consumer} : call[t] = Idle
        /\ deleted = {} /\ pending = {} /\ startedAt = {}
    BY Constants DEF Init
  <2>2. \A t \in Thread : InOrder(t)
    BY <2>1 DEF InOrder, Idle, Boot, Call, LockedStage
  <2>3. OthersWait /\ Recovers
    BY <2>1 DEF OthersWait, Recovers, Boot, Call
  <2> QED BY <2>1, <2>2, <2>3 DEF Orderly
<1>2. Spec => []Sound
  BY AlwaysTyped, LockSafe, AlwaysStamps, PTL DEF Sound
<1>3. Sound /\ Orderly /\ [Next]_vars => Orderly'
  BY OrderlyNext
<1> QED BY <1>1, <1>2, <1>3, PTL DEF Spec

(***************************************************************************)
(* At most one race runs, and the pipeline knows which: its context names  *)
(* it, or the recovery has yet to visit it.  A call that is about to set a *)
(* race running has found, or made, every other race stand.  All of it     *)
(* until an error leaves a race running that no context names: one that    *)
(* ends a recovery early, or follows the COMMIT of a start or a resume.    *)
(***************************************************************************)
Tracked(r) ==
    \/ ctx[Pipeline] = r
    \/ r \in pending
    \/ call[Consumer].method = "pause_race" /\ call[Consumer].race = r

Activates(t) == call[t].stage \in {"check", "write"} /\ call[t].method \in Activating

Alone ==
    stranded = {} =>
        /\ OneRaceRuns
        /\ call[Consumer].stage # "booting" => \A r \in Race : status[r] = "running" => Tracked(r)
        /\ \A t \in Thread : Activates(t) =>
            \A q \in Race : status[q] = "running" => q = call[t].race

\* A step that sets no race running, loses none, and begins no activation.
LEMMA AloneKept ==
    ASSUME Alone, stranded' = {} => stranded = {},
           \A r \in Race : status'[r] = "running" => status[r] = "running",
           \A r \in Race : status'[r] = "running" /\ Tracked(r) => Tracked(r)',
           call[Consumer].stage = "booting" => call'[Consumer].stage = "booting",
           \A t \in Thread : Activates(t)' => Activates(t) /\ call'[t].race = call[t].race
    PROVE  Alone'
BY DEF Alone, OneRaceRuns

\* A thread moves, and no row and no context does.
LEMMA AloneMoves ==
    ASSUME Alone, NEW t \in Thread, UNCHANGED <<status, ctx, pending>>,
           stranded' = {} => stranded = {},
           \A u \in Thread \ {t} : call'[u] = call[u],
           ~Activates(t)' \/ (Activates(t) /\ call'[t].race = call[t].race),
           t = Consumer => /\ call[t].stage # "booting"
                           /\ \/ call[t].method # "pause_race"
                              \/ call'[t].method = "pause_race" /\ call'[t].race = call[t].race
                              \/ status[call[t].race] # "running"
    PROVE  Alone'
<1>1. \A u \in Thread : Activates(u)' => Activates(u) /\ call'[u].race = call[u].race
  BY DEF Activates
<1>2. ASSUME NEW r \in Race, status[r] = "running", Tracked(r) PROVE Tracked(r)'
  BY <1>2, Constants DEF Tracked
<1>3. call[Consumer].stage = "booting" => call'[Consumer].stage = "booting"
  BY Constants
<1> QED BY <1>1, <1>2, <1>3, AloneKept

\* A call takes the lock; if it is to activate a race, no other race runs.
LEMMA AloneBegins ==
    ASSUME OneSession, Sound, Orderly, Alone, NEW t \in Thread, NEW m \in Locked, NEW r \in Race,
           BeginCall(t, m, r), UNCHANGED <<status, ctx, stranded>>,
           call[t].stage # "booting", call[t].method # "pause_race",
           \/ t \in User /\ Serving(Pipeline) /\ pending' = pending
           \/ m = "finish_race" /\ pending' = pending
           \/ t = Consumer /\ m = "pause_race" /\ pending' = pending \ {r}
    PROVE  Alone'
<1>1. /\ call'[t] = Call(IF MustPreempt(t, m, r) THEN "preempt" ELSE "check", m, r,
                         \/ m = "finish_race"
                         \/ m = "cancel_race" /\ Ran(r))
      /\ \A u \in Thread \ {t} : call'[u] = call[u]
  BY DEF BeginCall, Sound, Typed, CallsMade
<1>2. CASE pending' = pending /\ (m \notin Activating \/ MustPreempt(t, m, r))
  <2>1. ~Activates(t)'
    BY <1>1, <1>2 DEF Activates, Call
  <2> QED BY <1>1, <1>2, <2>1, AloneMoves
<1>3. CASE t \in User /\ Serving(Pipeline) /\ pending' = pending /\ m \in Activating
           /\ ~MustPreempt(t, m, r)
  <2>1. call'[t].race = r
    BY <1>1 DEF Call
  <2>2. ASSUME stranded = {}, NEW q \in Race, status[q] = "running" PROVE q = r
    <3>1. ctx[Pipeline] = q
      BY <1>3, <2>2 DEF Alone, Tracked, Serving
    <3>2. ctx[Pipeline] \in {None, r}
      BY <1>3, <2>2, <3>1, OneProcess DEF MustPreempt, ValidFrom
    <3> QED BY <3>1, <3>2, Constants
  <2>3. call'[Consumer] = call[Consumer]
    BY <1>1, <1>3, Constants
  <2>4. ASSUME stranded' = {}, NEW u \in Thread, Activates(u)', NEW q \in Race, status'[q] = "running"
        PROVE  q = call'[u].race
    <3>1. CASE u = t
      BY <2>1, <2>2, <2>4, <3>1
    <3>2. CASE u # t
      BY <1>1, <2>4, <3>2 DEF Alone, Activates
    <3> QED BY <3>1, <3>2
  <2> QED BY <1>3, <2>3, <2>4 DEF Alone, OneRaceRuns, Tracked
<1>4. CASE t = Consumer /\ m = "pause_race" /\ pending' = pending \ {r}
  <2>1. ~Activates(t)'
    BY <1>1, <1>4 DEF Activates, Call, Activating
  <2>2. call'[Consumer].method = "pause_race" /\ call'[Consumer].race = r
    BY <1>1, <1>4 DEF Call
  <2>3. \A q \in Race : Tracked(q) => Tracked(q)'
    BY <1>4, <2>2 DEF Tracked
  <2>4. \A u \in Thread : Activates(u)' => Activates(u) /\ call'[u].race = call[u].race
    BY <1>1, <2>1 DEF Activates
  <2> QED BY <1>4, <2>3, <2>4, AloneKept
<1> QED BY <1>2, <1>3, <1>4 DEF Activating

LEMMA AloneGivesUp ==
    ASSUME Sound, Orderly, Alone, NEW t \in Thread, GiveUp(t),
           call[t].stage \notin {"idle", "booting"},
           \/ UNCHANGED <<pending, stranded>> /\ (t = Consumer =>
                  call[t].method # "pause_race" \/ status[call[t].race] # "running")
           \/ EndRecovery(t)
    PROVE  Alone'
<1>1. /\ UNCHANGED <<status, ctx>> /\ call'[t] = Idle
      /\ \A u \in Thread \ {t} : call'[u] = call[u]
  BY DEF GiveUp, Return, db, races, Sound, Typed, CallsMade
<1>2. ~Activates(t)'
  BY <1>1 DEF Activates, Idle, Call
<1>3. CASE UNCHANGED <<pending, stranded>> /\ (t = Consumer =>
               call[t].method # "pause_race" \/ status[call[t].race] # "running")
  BY <1>1, <1>2, <1>3, AloneMoves
<1>4. CASE EndRecovery(t) /\ t # Consumer
  BY <1>1, <1>2, <1>4, AloneMoves DEF EndRecovery
<1>5. CASE EndRecovery(t) /\ t = Consumer /\ call[t].method # "pause_race"
  <2>1. call[Consumer] # Idle
    BY <1>5 DEF Idle, Call
  <2>2. pending = {} /\ pending' = {} /\ stranded' = stranded
    BY <1>5, <2>1 DEF EndRecovery, Orderly, Recovers
  <2> QED BY <1>1, <1>2, <1>5, <2>2, AloneMoves
<1>6. CASE EndRecovery(t) /\ t = Consumer /\ call[t].method = "pause_race"
  BY <1>6 DEF EndRecovery, Alone
<1> QED BY <1>3, <1>4, <1>5, <1>6

LEMMA AloneNext ==
    ASSUME OneSession, Sound, Orderly, Alone, [Next]_vars PROVE Alone'
<1>0. /\ CallsMade /\ call \in [Thread -> Made] /\ \A t \in Thread : InOrder(t)
      /\ status \in [Race -> Status \cup {"absent"}] /\ ctx \in [Proc -> Race \cup {None}]
      /\ pending \subseteq Race
      /\ \A t \in Thread : ProcOf(t) = Pipeline
  BY OneProcess, Constants DEF Sound, Typed, TypeOK, CallsMade, Orderly
<1> USE <1>0, Constants DEF db, ledger, races, counters
<1>1. CASE UNCHANGED vars
  BY <1>1 DEF vars, Alone, OneRaceRuns, Tracked, Activates
\* A thread moves inside its call, or leaves it, and activates nothing.
<1>2. ASSUME NEW t \in Thread, UNCHANGED <<status, ctx, pending, stranded>>,
             \A u \in Thread \ {t} : call'[u] = call[u],
             call[t].stage # "booting", call[t].method # "pause_race",
             call'[t].stage \notin LockedStage
      PROVE  Alone'
  BY <1>2, AloneMoves DEF Activates, LockedStage
<1>3. ASSUME NEW t \in User, UserStarts(t) PROVE Alone'
  <2>0. t \in Thread /\ t # Consumer
    OBVIOUS
  <2>1. ASSUME NEW md, NewRace(t, md) PROVE Alone'
    <3>1. PICK r \in Race : status' = [status EXCEPT ![r] = "draft"]
      BY <2>1 DEF NewRace, InitialStatus
    <3>2. UNCHANGED <<ctx, pending, call, stranded>>
      BY <2>1 DEF NewRace
    <3> QED BY <3>1, <3>2, AloneKept DEF Tracked, Activates
  <2>2. ASSUME NEW r \in Race, NEW m \in Locked, UserCall(t, m, r) PROVE Alone'
    <3>1. call[t].stage # "booting" /\ call[t].method # "pause_race" /\ Serving(Pipeline)
      BY <2>0, <2>2 DEF UserCall, Ready, Idle, Call
    <3> QED BY <2>0, <2>2, <3>1, AloneBegins DEF UserCall
  <2>3. ASSUME NEW r \in Race, MarkReady(t, r) \/ UpdateCheck(t, r) \/ DeleteCheck(t, r)
        PROVE  Alone'
    <3>1. /\ UNCHANGED <<status, ctx, pending, stranded>> /\ call[t] = Idle
          /\ \A u \in Thread \ {t} : call'[u] = call[u]
          /\ \/ call'[t] = Call("marking", "mark_ready", r, FALSE)
             \/ call'[t] = Call("updating", "update_race", r, FALSE)
             \/ call'[t] = Call("deleting", "delete_race", r, FALSE)
      BY <2>0, <2>3 DEF MarkReady, UpdateCheck, DeleteCheck, Ready
    <3> QED BY <2>0, <3>1, <1>2 DEF Call, Idle, LockedStage
  <2> QED BY <1>3, <2>1, <2>2, <2>3 DEF UserStarts, CreateRace, RepeatRace
<1>4. ASSUME NEW t \in Thread, InLocked(t) PROVE Alone'
  <2>0. call[t].stage \in LockedStage => call[t].race \in Race /\ call[t].method \in Locked
    BY DEF Made, LockedStage
  <2>1. CASE Preempt(t)
    <3> DEFINE other == ctx[Pipeline]
    <3>1. /\ status' = [status EXCEPT ![other] = "paused"] /\ Goto(t, "check")
          /\ UNCHANGED <<ctx, pending, stranded>> /\ call[t].stage = "preempt"
      BY <2>1 DEF Preempt, NewStatus
    <3>2. other \in Race /\ status[other] = "running" /\ t # Consumer
      BY <3>1 DEF InOrder, LockedStage, Activating
    <3>3. stranded = {} => \A q \in Race : status'[q] # "running"
      BY <3>1, <3>2 DEF Alone, OneRaceRuns
    <3> QED BY <3>1, <3>3 DEF Alone, OneRaceRuns
  <2>2. CASE Check(t)
    BY <2>2, GotoStage, AloneMoves DEF Check, Activates, Activating
  <2>3. CASE Refuse(t)
    <3>1. /\ GiveUp(t) /\ UNCHANGED <<pending, stranded>> /\ call[t].stage = "check"
          /\ call[t].method = "pause_race" => status[call[t].race] # "running"
      BY <2>3 DEF Refuse, ValidFrom
    <3> QED BY <3>1, AloneGivesUp
  <2>4. CASE RowGone(t)
    BY <2>4, AloneGivesUp DEF RowGone
  <2>5. CASE Write(t)
    <3> DEFINE m == call[t].method
               r == call[t].race
    <3>1. /\ status' = [status EXCEPT ![r] = NewStatus[m]] /\ call[t].stage = "write"
          /\ ctx' = [ctx EXCEPT ![Pipeline] = IF m \in Activating THEN r
                                              ELSE IF @ = r THEN None ELSE @]
          /\ UNCHANGED <<pending, stranded>>
          /\ IF call[t].snap THEN Goto(t, "snapshot") ELSE Return(t)
      BY <2>5 DEF Write, Commit, Settle, Cleared
    <3>2. r \in Race /\ m \in Locked
      BY <2>0, <3>1 DEF LockedStage
    <3>3. /\ \A u \in Thread \ {t} : call'[u] = call[u]
          /\ call'[t].stage \in {"snapshot", "idle"}
      BY <3>1, GotoStage, ReturnStage
    <3>4. \A u \in Thread : Activates(u)' => u # t /\ Activates(u) /\ call'[u] = call[u]
      BY <3>3 DEF Activates
    <3>5. call[Consumer].stage = "booting" => call'[Consumer].stage = "booting"
      BY <3>1, <3>3
    <3>6. CASE m \in Activating
      <4>1. ASSUME stranded = {}, NEW q \in Race, status'[q] = "running" PROVE q = r
        BY <3>1, <3>2, <3>6, <4>1 DEF Alone, Activates
      <4>2. \A u \in Thread : ~Activates(u)'
        BY <3>1, <3>3, <3>4, OneHolder DEF Sound, Activates, LockedStage
      <4>3. ctx'[Pipeline] = r
        BY <3>1, <3>6
      <4> QED BY <3>1, <4>1, <4>2, <4>3 DEF Alone, OneRaceRuns, Tracked
    <3>7. CASE m \notin Activating
      <4>1. NewStatus[m] # "running"
        BY <3>2, <3>7 DEF NewStatus, Locked, Transition, ValidFrom, Activating
      <4>2. \A q \in Race : status'[q] = "running" => q # r /\ status[q] = "running"
        BY <3>1, <3>2, <4>1
      <4>3. ASSUME NEW q \in Race, status'[q] = "running", Tracked(q) PROVE Tracked(q)'
        <5>1. q # r
          BY <4>2, <4>3
        <5>2. CASE ctx[Pipeline] = q
          BY <3>1, <3>7, <5>1, <5>2 DEF Tracked
        <5>3. CASE q \in pending
          BY <3>1, <5>3 DEF Tracked
        <5>4. CASE call[Consumer].method = "pause_race" /\ call[Consumer].race = q
          BY <3>3, <5>1, <5>4 DEF Tracked
        <5> QED BY <4>3, <5>2, <5>3, <5>4 DEF Tracked
      <4> QED BY <3>1, <3>4, <3>5, <4>2, <4>3, AloneKept
    <3> QED BY <3>6, <3>7
  <2>6. CASE Snapshot(t)
    <3>1. UNCHANGED <<status, ctx, pending, stranded>> /\ Return(t) /\ call[t].stage = "snapshot"
      BY <2>6 DEF Snapshot
    <3>2. call[t].method = "pause_race" => status[call[t].race] # "running"
      BY <3>1 DEF InOrder, Terminal
    <3> QED BY <3>1, <3>2, ReturnStage, AloneMoves DEF Activates
  <2> QED BY <1>4, <2>1, <2>2, <2>3, <2>4, <2>5, <2>6 DEF InLocked
<1>5. ASSUME NEW t \in User, InUnlocked(t) PROVE Alone'
  <2>0. t \in Thread /\ t # Consumer
    OBVIOUS
  <2>1. CASE MarkReadyWrite(t)
    <3>1. /\ status' = [status EXCEPT ![call[t].race] = "ready"] /\ Return(t)
          /\ UNCHANGED <<ctx, pending, stranded>>
      BY <2>1 DEF MarkReadyWrite, NewStatus
    <3>2. \A r \in Race : status'[r] = "running" => status[r] = "running"
      BY <3>1
    <3>3. \A u \in Thread : Activates(u)' => Activates(u) /\ call'[u].race = call[u].race
      BY <2>0, <3>1, ReturnStage DEF Activates
    <3>4. call'[Consumer] = call[Consumer]
      BY <2>0, <3>1, ReturnStage
    <3> QED BY <3>1, <3>2, <3>3, <3>4, AloneKept DEF Tracked
  <2>2. CASE UpdateWrite(t)
    <3>1. /\ UNCHANGED <<status, ctx, pending, stranded>> /\ Return(t)
          /\ call[t].stage = "updating"
      BY <2>2 DEF UpdateWrite
    <3>2. call[t].method # "pause_race"
      BY <2>0, <3>1 DEF InOrder, LockedStage
    <3> QED BY <2>0, <3>1, <3>2, <1>2, ReturnStage DEF LockedStage
  <2>3. call[t].stage \notin {"deleting", "unlinking", "clearing"}
    BY <2>0 DEF InOrder
  <2> QED BY <1>5, <2>1, <2>2, <2>3 DEF InUnlocked, DeleteWrite, Unlink, Clear, ClearContext
<1>6. CASE Recording
  <2>0. call[Consumer].stage \in Recordings => call[Consumer].method # "pause_race"
    BY DEF InOrder, LockedStage, Recordings
  <2>1. CASE Drop \/ Duplicate
    BY <2>0, <2>1, AloneGivesUp DEF Drop, Duplicate, Recordings
  <2>2. CASE Load \/ Register \/ LoadCheckpoint
    <3>1. \E s \in {"loaded", "orphaned", "registered", "numbered"} : Goto(Consumer, s)
      BY <2>2 DEF Load, Register, LoadCheckpoint
    <3>2. /\ UNCHANGED <<status, ctx, pending, stranded>> /\ call[Consumer].stage \in Recordings
      BY <2>2 DEF Load, Register, LoadCheckpoint, Recordings
    <3> QED BY <2>0, <3>1, <3>2, <1>2, GotoStage DEF LockedStage, Recordings
  <2>3. CASE Rank
    <3>1. /\ UNCHANGED <<status, ctx, pending, stranded>> /\ call[Consumer].stage \in Recordings
          /\ \A u \in Thread \ {Consumer} : call'[u] = call[u]
          /\ call'[Consumer].stage \in {"idle", "due"}
      BY <2>3 DEF Rank, Recordings, Idle, Call, Made, Calls
    <3> QED BY <2>0, <3>1, <1>2 DEF LockedStage, Recordings
  <2>4. ASSUME NEW n, StoreLap(n), UNCHANGED <<pending, stranded>>, call[Consumer].stage \in Recordings
        PROVE  Alone'
    <3>1. /\ \A u \in Thread \ {Consumer} : call'[u] = call[u]
          /\ call'[Consumer].stage \in {"idle", "ranking"}
      BY <2>4, GotoStage DEF StoreLap, Idle, Call
    <3> QED BY <2>0, <2>4, <3>1, <1>2 DEF LockedStage, Recordings, StoreLap
  <2>5. CASE FirstLap
    BY <2>4, <2>5 DEF FirstLap, Recordings
  <2>6. CASE CommitLap
    BY <2>0, <2>4, <2>6, AloneGivesUp DEF CommitLap, Recordings
  <2>7. CASE OrphanClear
    BY <2>7 DEF OrphanClear, ClearContext, InOrder
  <2> QED BY <1>6, <2>1, <2>2, <2>3, <2>5, <2>6, <2>7 DEF Recording
<1>7. ASSUME NEW c \in Car, NEW cu \in CuTime, LapArrives(c, cu) PROVE Alone'
  <2>1. /\ UNCHANGED <<status, ctx, pending, stranded>> /\ call[Consumer] = Idle
        /\ \A u \in Thread \ {Consumer} : call'[u] = call[u]
        /\ call'[Consumer] = Call("arrived", "record_lap", ctx[Pipeline], FALSE)
    BY <1>7 DEF LapArrives, Ready
  <2> QED BY <2>1, <1>2 DEF Call, Idle, LockedStage
<1>8. CASE TickerPoll \/ TickerJudge
  <2>1. /\ UNCHANGED <<status, ctx, pending, stranded>>
        /\ \A u \in Thread \ {Ticker} : call'[u] = call[u]
        /\ call'[Ticker].stage \in {"idle", "polled", "due"}
        /\ call[Ticker] = Idle \/ call[Ticker].stage = "polled"
    BY <1>8 DEF TickerPoll, TickerJudge, Ready, Idle, Call, Made, Calls
  <2>2. call[Ticker].stage # "booting" /\ call[Ticker].method # "pause_race"
    BY <2>1 DEF Idle, Call, InOrder, LockedStage
  <2> QED BY <2>1, <2>2, <1>2 DEF LockedStage
<1>9. ASSUME NEW t \in {Consumer, Ticker}, AutoFinish(t) PROVE Alone'
  <2>1. /\ call[t].stage = "due" /\ t \in Thread
        /\ BeginCall(t, "finish_race", call[t].race)
        /\ UNCHANGED <<status, ctx, pending, stranded>>
    BY <1>9 DEF AutoFinish
  <2>2. /\ call[t].race \in Race /\ call[t].method # "pause_race" /\ "finish_race" \in Locked
    BY <2>1 DEF Made, InOrder, LockedStage, Locked, Transition, ValidFrom
  <2> QED BY <2>1, <2>2, AloneBegins
<1>10. CASE BootList
  <2>1. /\ UNCHANGED <<status, ctx, stranded>> /\ call'[Consumer] = Idle
        /\ \A u \in Thread \ {Consumer} : call'[u] = call[u]
        /\ pending' = {r \in Race : status[r] = "running"}
    BY <1>10 DEF BootList
  <2>2. \A t \in Thread : Activates(t)' => Activates(t) /\ call'[t] = call[t]
    BY <2>1 DEF Activates, Idle, Call
  <2> QED BY <2>1, <2>2 DEF Alone, OneRaceRuns, Tracked
<1>11. ASSUME NEW r \in Race, RecoverNext(r) PROVE Alone'
  <2>1. /\ call[Consumer] = Idle /\ r \in pending /\ pending' = pending \ {r}
        /\ UNCHANGED <<status, stranded>> /\ status[r] = "running"
        /\ call[Consumer].stage # "booting" /\ call[Consumer].method # "pause_race"
    BY <1>11 DEF RecoverNext, Orderly, Recovers, Idle, Call
  <2>2. CASE RecoverRunning
    <3>1. call' = call /\ ctx'[Pipeline] = r
      BY <1>11, <2>2 DEF RecoverNext
    <3> QED BY <2>1, <3>1 DEF Alone, OneRaceRuns, Tracked, Activates
  <2>3. CASE ~RecoverRunning
    <3>1. BeginCall(Consumer, "pause_race", r) /\ ctx' = ctx /\ "pause_race" \in Locked
      BY <1>11, <2>3 DEF RecoverNext, Locked, Transition, ValidFrom
    <3> QED BY <2>1, <3>1, AloneBegins
  <2> QED BY <2>2, <2>3
<1>12. ASSUME NEW p \in Proc, Crash(p) PROVE Alone'
  <2>1. UNCHANGED <<status, stranded>>
    BY <1>12 DEF Crash
  <2>2. CASE p = Pipeline
    <3>1. call'[Consumer].stage = "booting" /\ \A u \in Thread : call'[u].stage \in {"idle", "booting"}
      BY <1>12, <2>2 DEF Crash, Boot, Idle, Call
    <3> QED BY <2>1, <3>1 DEF Alone, OneRaceRuns, Activates
  <2>3. CASE p # Pipeline
    <3>1. (\A u \in Thread : call'[u] = call[u]) /\ pending' = pending /\ ctx'[Pipeline] = ctx[Pipeline]
      BY <1>12, <2>3 DEF Crash
    <3> QED BY <2>1, <3>1, AloneKept DEF Tracked, Activates
  <2> QED BY <2>2, <2>3
<1>13. ASSUME NEW t \in Thread, DatabaseError(t) PROVE Alone'
  BY <1>13, AloneGivesUp DEF DatabaseError
<1>14. CASE RecoveryFails
  <2>1. /\ UNCHANGED <<status, ctx>> /\ pending' = {} /\ call'[Consumer] = Idle
        /\ \A u \in Thread \ {Consumer} : call'[u] = call[u]
    BY <1>14 DEF RecoveryFails
  <2>2. stranded' = {} => stranded = {} /\ \A r \in Race : status[r] # "running"
    BY <1>14 DEF RecoveryFails, Alone, Tracked, Idle, Call
  <2> QED BY <2>1, <2>2 DEF Alone, OneRaceRuns
<1>15. ASSUME NEW t \in Thread, RefreshFails(t) PROVE Alone'
  <2> DEFINE m == call[t].method
             r == call[t].race
  <2>1. /\ r \in Race /\ m \in Locked /\ Commit(m, r) /\ Return(t) /\ ctx' = ctx
        /\ call[t].stage = "write"
    BY <1>15 DEF RefreshFails, Made, LockedStage
  <2>2. stranded' = {} => /\ stranded = {} /\ pending' = pending
                          /\ m \in Activating => ctx[Pipeline] = r
    BY <1>15 DEF RefreshFails
  <2>3. \A u \in Thread : Activates(u)' => u # t /\ Activates(u) /\ call'[u] = call[u]
    BY <2>1, ReturnStage DEF Activates
  <2>4. CASE m \in Activating
    <3>1. \A u \in Thread : ~Activates(u)'
      BY <2>1, <2>3, OneHolder DEF Sound, Activates, LockedStage
    <3>2. ASSUME stranded = {}, NEW q \in Race, status'[q] = "running" PROVE q = r
      BY <2>1, <2>4, <3>2 DEF Commit, Alone, Activates
    <3> SUFFICES ASSUME stranded' = {} PROVE Alone'
      BY DEF Alone
    <3>3. stranded = {} /\ ctx'[Pipeline] = r
      BY <2>1, <2>2, <2>4
    <3> QED BY <3>1, <3>2, <3>3 DEF Alone, OneRaceRuns, Tracked
  <2>5. CASE m \notin Activating
    <3>1. NewStatus[m] # "running"
      BY <2>1, <2>5 DEF NewStatus, Locked, Transition, ValidFrom, Activating
    <3>2. \A q \in Race : status'[q] = "running" => q # r /\ status[q] = "running"
      BY <2>1, <3>1 DEF Commit
    <3>3. CASE stranded' = {}
      <4>1. \A q \in Race : q # r /\ Tracked(q) => Tracked(q)'
        BY <2>1, <2>2, <3>3, ReturnStage DEF Tracked
      <4>2. call[Consumer].stage = "booting" => call'[Consumer].stage = "booting"
        BY <2>1, ReturnStage
      <4> QED BY <2>2, <2>3, <3>2, <3>3, <4>1, <4>2, AloneKept
    <3>4. CASE stranded' # {}
      BY <3>4 DEF Alone
    <3> QED BY <3>3, <3>4
  <2> QED BY <2>4, <2>5
<1> QED
  BY <1>1, <1>3, <1>4, <1>5, <1>6, <1>7, <1>8, <1>9, <1>10, <1>11, <1>12, <1>13, <1>14, <1>15
     DEF Next, Booting

LEMMA AlwaysAlone == ASSUME OneSession PROVE Spec => [](Sound /\ Orderly /\ Alone)
<1>1. Init => Alone
  BY Constants DEF Init, Alone, OneRaceRuns, Activates, Idle, Boot, Call
<1>2. Spec => [](Sound /\ Orderly)
  BY AlwaysOrderly
<1>3. Sound /\ Orderly /\ Alone /\ [Next]_vars => Alone'
  BY AloneNext
<1> QED BY <1>1, <1>2, <1>3, PTL DEF Spec

(***************************************************************************)
(* The pipeline knows the running race: while no error has stranded one, a *)
(* running race is the one in its context, so its laps are recorded and    *)
(* its end is noticed.  Every other error, those that hit a commit or      *)
(* follow one of a pause, a finish or a cancel included, changes nothing.  *)
(***************************************************************************)
THEOREM RunningTracked == ASSUME OneSession PROVE Spec => []RunningIsTracked
<1>1. Alone => RunningIsTracked
  BY DEF Alone, RunningIsTracked, Tracked, Serving
<1> QED BY <1>1, AlwaysAlone, PTL

(***************************************************************************)
(* FR-110 of the requirements, where it does hold: start_race and          *)
(* resume_race check and write in two steps and pause the race before in a *)
(* transaction of its own, and still no two races run at once, until an    *)
(* error strands a race: out of recover_on_startup, or out of the refresh  *)
(* between the COMMIT of a start or a resume and the context.              *)
(***************************************************************************)
THEOREM OneRace == ASSUME OneSession PROVE Spec => [](stranded = {} => OneRaceRuns)
<1>1. Alone => (stranded = {} => OneRaceRuns)
  BY DEF Alone
<1> QED BY <1>1, AlwaysAlone, PTL

(***************************************************************************)
(* The status of every race moves as RaceLifecycle promises, one row at a  *)
(* time, with a start or a resume only when nothing runs, although the     *)
(* check of a transition and its UPDATE by primary key are two steps and   *)
(* mark_ready takes no lock: until an error strands a race.                *)
(***************************************************************************)
LEMMA LifecycleStep ==
    ASSUME OneSession, Sound, Orderly, Alone, [Next]_vars
    PROVE  [Lifecycle!Next \/ stranded # {}]_status
<1> SUFFICES ASSUME stranded = {}, status' # status PROVE Lifecycle!Next
  OBVIOUS
<1>0. /\ call \in [Thread -> Made] /\ \A t \in Thread : InOrder(t)
      /\ ctx \in [Proc -> Race \cup {None}]
      /\ \A t \in Thread : ProcOf(t) = Pipeline
  BY OneProcess, Constants DEF Sound, Typed, TypeOK, CallsMade, Orderly
<1> USE <1>0, Constants
<1>1. ASSUME NEW t \in User, NEW md, NewRace(t, md) PROVE Lifecycle!Next
  BY <1>1 DEF NewRace, NextId, Exists, InitialStatus, Lifecycle!Next, Lifecycle!Create, Lifecycle!Become
<1>2. ASSUME NEW t \in Thread, Preempt(t) PROVE Lifecycle!Next
  <2>1. ctx[Pipeline] \in Race /\ status[ctx[Pipeline]] = "running"
    BY <1>2 DEF Preempt, InOrder
  <2> QED BY <1>2, <2>1 DEF Preempt, NewStatus, Lifecycle!Next, Lifecycle!Pause, Lifecycle!Become
<1>3. ASSUME NEW t \in Thread, Write(t) \/ RefreshFails(t) PROVE Lifecycle!Next
  <2> DEFINE m == call[t].method
             r == call[t].race
  <2>1. /\ r \in Race /\ m \in Locked /\ status[r] \in ValidFrom[m]
        /\ status' = [status EXCEPT ![r] = NewStatus[m]]
    BY <1>3 DEF Write, RefreshFails, Commit, InOrder, Made, LockedStage
  <2>2. m \in Activating => Lifecycle!NoneRunning
    <3>1. m \in Activating => status[r] # "running"
      BY <2>1 DEF Activating, ValidFrom
    <3> QED BY <1>3, <3>1 DEF Write, RefreshFails, Alone, Activates, Lifecycle!NoneRunning
  <2>3. CASE m = "start_race"
    <3>1. status[r] \in {"draft", "ready"} /\ status' = [status EXCEPT ![r] = "running"] /\ Lifecycle!NoneRunning
      BY <2>1, <2>2, <2>3 DEF Activating, ValidFrom, NewStatus
    <3> QED BY <2>1, <3>1 DEF Lifecycle!Next, Lifecycle!Start, Lifecycle!Become
  <2>4. CASE m = "resume_race"
    <3>1. status[r] \in {"paused"} /\ status' = [status EXCEPT ![r] = "running"] /\ Lifecycle!NoneRunning
      BY <2>1, <2>2, <2>4 DEF Activating, ValidFrom, NewStatus
    <3> QED BY <2>1, <3>1 DEF Lifecycle!Next, Lifecycle!Resume, Lifecycle!Become
  <2>5. CASE m = "pause_race"
    <3>1. status[r] \in {"running"} /\ status' = [status EXCEPT ![r] = "paused"]
      BY <2>1, <2>5 DEF ValidFrom, NewStatus
    <3> QED BY <2>1, <3>1 DEF Lifecycle!Next, Lifecycle!Pause, Lifecycle!Become
  <2>6. CASE m = "finish_race"
    <3>1. status[r] \in {"running", "paused"} /\ status' = [status EXCEPT ![r] = "finished"]
      BY <2>1, <2>6 DEF ValidFrom, NewStatus
    <3> QED BY <2>1, <3>1 DEF Lifecycle!Next, Lifecycle!Finish, Lifecycle!Become
  <2>7. CASE m = "cancel_race"
    <3>1. status[r] \in {"draft", "ready", "running", "paused"} /\ status' = [status EXCEPT ![r] = "cancelled"]
      BY <2>1, <2>7 DEF ValidFrom, NewStatus
    <3> QED BY <2>1, <3>1 DEF Lifecycle!Next, Lifecycle!Cancel, Lifecycle!Become
  <2> QED BY <2>1, <2>3, <2>4, <2>5, <2>6, <2>7 DEF Locked, Transition, ValidFrom
<1>4. ASSUME NEW t \in User, MarkReadyWrite(t) PROVE Lifecycle!Next
  <2>1. call[t].race \in Race /\ status[call[t].race] \in {"draft", "ready"}
    BY <1>4 DEF MarkReadyWrite, InOrder, Made
  <2> QED BY <1>4, <2>1
          DEF MarkReadyWrite, NewStatus, Lifecycle!Next, Lifecycle!MarkReady, Lifecycle!Become
<1>5. ASSUME NEW t \in Thread PROVE ~DeleteWrite(t)
  BY DEF DeleteWrite, InOrder
\* Every other action leaves the rows alone.
<1>6. CASE \E t \in User : UserStarts(t)
  BY <1>1, <1>6 DEF UserStarts, CreateRace, RepeatRace, UserCall, MarkReady, UpdateCheck, DeleteCheck,
        db, races
<1>7. CASE \E t \in Thread : InLocked(t)
  BY <1>2, <1>3, <1>7 DEF InLocked, Check, Refuse, Snapshot, RowGone, GiveUp, db, races
<1>8. CASE \E t \in User : InUnlocked(t)
  BY <1>4, <1>5, <1>8 DEF InUnlocked, UpdateWrite, Unlink, Clear, ClearContext, db, races
<1>9. CASE Recording
  BY <1>9 DEF Recording, Load, Drop, OrphanClear, ClearContext, Register, Duplicate, FirstLap,
        LoadCheckpoint, CommitLap, StoreLap, Rank, GiveUp, db, races
<1> QED
  BY <1>3, <1>6, <1>7, <1>8, <1>9 DEF Next, vars, LapArrives, TickerPoll, TickerJudge, AutoFinish,
     Booting, BootList, RecoverNext, Crash, DatabaseError, GiveUp, RecoveryFails, db, races

THEOREM LifecycleKept == ASSUME OneSession PROVE Spec => LifecycleSpec
<1>1. Init => Lifecycle!Init
  BY DEF Init, Lifecycle!Init
<1>2. Sound /\ Orderly /\ Alone /\ [Next]_vars => [Lifecycle!Next \/ stranded # {}]_status
  BY LifecycleStep
<1> QED BY <1>1, <1>2, AlwaysAlone, PTL DEF Spec, LifecycleSpec

(***************************************************************************)
(* The race service implements RaceLifecycle as long as no error strands a *)
(* race: crashes at any point and all other database errors included.      *)
(***************************************************************************)
THEOREM LifecycleImplemented ==
    ASSUME OneSession PROVE Spec /\ [](stranded = {}) => Lifecycle!Spec
<1>1. stranded = {} /\ [Lifecycle!Next \/ stranded # {}]_status => [Lifecycle!Next]_status
  OBVIOUS
<1> QED BY <1>1, LifecycleKept, PTL DEF LifecycleSpec, Lifecycle!Spec

(***************************************************************************)
(* What no step does to a row: a race that has ended keeps its status, and *)
(* one that was started keeps its mode.                                    *)
(***************************************************************************)
LEMMA RowsStay ==
    ASSUME OneSession, Sound, Orderly, [Next]_vars, NEW r \in Race
    PROVE  /\ status[r] \in Terminal => status'[r] = status[r]
           /\ r \in startedAt => mode'[r] = mode[r]
<1>0. /\ call \in [Thread -> Made] /\ \A t \in Thread : InOrder(t)
      /\ status \in [Race -> Status \cup {"absent"}] /\ mode \in [Race -> Mode]
      /\ \A t \in Thread : ProcOf(t) = Pipeline
      /\ \A q \in startedAt : Exists(q) /\ status[q] \notin {"draft", "ready"}
  BY OneProcess, Constants DEF Sound, Typed, TypeOK, CallsMade, Orderly, StampsInv
<1> USE <1>0, Constants
<1>1. ASSUME NEW t \in User, NEW md, NewRace(t, md)
      PROVE  (status[r] \in Terminal => status'[r] = status[r]) /\ (r \in startedAt => mode'[r] = mode[r])
  BY <1>1 DEF NewRace, NextId, Exists, Terminal
<1>2. ASSUME NEW t \in Thread, Preempt(t)
      PROVE  (status[r] \in Terminal => status'[r] = status[r]) /\ mode' = mode
  BY <1>2 DEF Preempt, InOrder, Terminal
<1>3. ASSUME NEW t \in Thread, Write(t) \/ RefreshFails(t)
      PROVE  (status[r] \in Terminal => status'[r] = status[r]) /\ mode' = mode
  <2>1. /\ call[t].race \in Race /\ call[t].method \in Locked
        /\ status[call[t].race] \in ValidFrom[call[t].method]
    BY <1>3 DEF Write, RefreshFails, InOrder, Made, LockedStage
  <2>2. status[call[t].race] \notin Terminal
    BY <2>1 DEF Locked, Transition, ValidFrom, Terminal
  <2>3. status' = [status EXCEPT ![call[t].race] = NewStatus[call[t].method]] /\ mode' = mode
    BY <1>3 DEF Write, RefreshFails, Commit
  <2> QED BY <2>1, <2>2, <2>3
<1>4. ASSUME NEW t \in User, MarkReadyWrite(t)
      PROVE  (status[r] \in Terminal => status'[r] = status[r]) /\ mode' = mode
  BY <1>4 DEF MarkReadyWrite, InOrder, Terminal
<1>5. ASSUME NEW t \in User, UpdateWrite(t)
      PROVE  status' = status /\ (r \in startedAt => mode'[r] = mode[r])
  BY <1>5 DEF UpdateWrite, InOrder
<1>6. ASSUME NEW t \in Thread PROVE ~DeleteWrite(t)
  BY DEF DeleteWrite, InOrder
\* Every other action leaves the rows alone.
<1>7. CASE \E t \in User : UserStarts(t)
  BY <1>1, <1>7 DEF UserStarts, CreateRace, RepeatRace, UserCall, MarkReady, UpdateCheck, DeleteCheck,
        db, races
<1>8. CASE \E t \in Thread : InLocked(t)
  BY <1>2, <1>3, <1>8 DEF InLocked, Check, Refuse, Snapshot, RowGone, GiveUp, db, races
<1>9. CASE \E t \in User : InUnlocked(t)
  BY <1>4, <1>5, <1>6, <1>9 DEF InUnlocked, Unlink, Clear, ClearContext, db, races
<1>10. CASE Recording
  BY <1>10 DEF Recording, Load, Drop, OrphanClear, ClearContext, Register, Duplicate, FirstLap,
        LoadCheckpoint, CommitLap, StoreLap, Rank, GiveUp, db, races
<1> QED
  BY <1>3, <1>7, <1>8, <1>9, <1>10 DEF Next, vars, LapArrives, TickerPoll, TickerJudge, AutoFinish,
     Booting, BootList, RecoverNext, Crash, DatabaseError, GiveUp, RecoveryFails, db, races

(***************************************************************************)
(* A race that was finished or cancelled stays so, although a write that   *)
(* was decided on before its end may come after it: by mark_ready, by the  *)
(* auto-pause of a start, by the consumer, by the ticker, by recovery.     *)
(***************************************************************************)
THEOREM EndIsFinal ==
    ASSUME OneSession
    PROVE  Spec => [][\A r \in Race : status[r] \in Terminal => status'[r] = status[r]]_vars
<1>1. Sound /\ Orderly /\ [Next]_vars
      => [\A r \in Race : status[r] \in Terminal => status'[r] = status[r]]_vars
  BY RowsStay
<1> QED BY <1>1, AlwaysOrderly, PTL DEF Spec

(***************************************************************************)
(* The distance.  A car of a fixed_laps race has at most LapTarget laps    *)
(* and one more per failure; when it has that many, the race is over or    *)
(* the consumer is on its way to finish it, and records no further lap.    *)
(* The consumer decides on that way by what it read of the race's mode     *)
(* when the lap arrived, so that must be the mode still.                   *)
(***************************************************************************)
Bound == LapTarget + failures

Adding(r) == call[Consumer].stage \in NeedsLaps /\ call[Consumer].race = r

Ends(r) ==
    /\ call[Consumer].race = r
    /\ \/ call[Consumer].stage \in {"ranking", "due"}
       \/ call[Consumer].stage \in {"check", "write"} /\ call[Consumer].method = "finish_race"

RankedByMode ==
    call[Consumer].stage \in NeedsLaps => (lap.ranked <=> mode[call[Consumer].race] = "fixed_laps")

Distance ==
    /\ \A r \in Race, c \in Car : mode[r] = "fixed_laps" =>
        /\ Cardinality(laps[r][c]) <= Bound
        /\ Cardinality(laps[r][c]) = Bound => (status[r] \in Terminal \/ Ends(r)) /\ ~Adding(r)
    /\ RankedByMode

\* The number of laps is a number, and not zero only for a race that was started.
LEMMA LapCount ==
    ASSUME Sound, Orderly, NEW r \in Race, NEW c \in Car
    PROVE  /\ Cardinality(laps[r][c]) \in Nat /\ failures \in Nat /\ LapTarget \in Nat \ {0}
           /\ r \notin startedAt => Cardinality(laps[r][c]) = 0
<1>1. IsFiniteSet(laps[r][c]) /\ failures \in Nat /\ LapTarget \in Nat \ {0}
  BY ConstantsAssumption DEF Sound, Typed, TypeOK, FiniteLaps
<1>2. r \notin startedAt => laps[r][c] = {}
  BY DEF Sound, StampsInv, StampsExplainStatus, Orderly, Ran
<1> QED BY <1>1, <1>2, FS_CardinalityType, FS_EmptySet

\* A step that stores no lap.
LEMMA DistanceKept ==
    ASSUME OneSession, Sound, Orderly, Distance, [Next]_vars, laps' = laps,
           failures' \in {failures, failures + 1},
           failures' = failures => \A r \in Race, c \in Car :
              Ends(r) /\ Cardinality(laps[r][c]) >= LapTarget => Ends(r)' \/ status'[r] \in Terminal,
           \A r \in Race : Adding(r)' => Adding(r) \/ (status[r] = "running" /\ ~Ends(r)),
           RankedByMode'
    PROVE  Distance'
<1> SUFFICES ASSUME NEW r \in Race, NEW c \in Car, mode'[r] = "fixed_laps"
             PROVE  /\ Cardinality(laps[r][c]) <= LapTarget + failures'
                    /\ Cardinality(laps[r][c]) = LapTarget + failures'
                       => (status'[r] \in Terminal \/ Ends(r)') /\ ~Adding(r)'
  BY DEF Distance, Bound
<1>1. /\ Cardinality(laps[r][c]) \in Nat /\ failures \in Nat /\ LapTarget \in Nat \ {0}
      /\ r \notin startedAt => Cardinality(laps[r][c]) = 0
  BY LapCount
<1>2. CASE r \notin startedAt
  BY <1>1, <1>2
<1>3. CASE r \in startedAt /\ failures' = failures + 1
  <2>1. Cardinality(laps[r][c]) <= LapTarget + failures
    BY <1>3, RowsStay DEF Distance, Bound
  <2> QED BY <1>1, <1>3, <2>1
<1>4. CASE r \in startedAt /\ failures' = failures
  <2>1. /\ Cardinality(laps[r][c]) <= LapTarget + failures
        /\ Cardinality(laps[r][c]) = LapTarget + failures
           => (status[r] \in Terminal \/ Ends(r)) /\ ~Adding(r)
    BY <1>4, RowsStay DEF Distance, Bound
  <2>2. SUFFICES ASSUME Cardinality(laps[r][c]) = LapTarget + failures
                 PROVE  (status'[r] \in Terminal \/ Ends(r)') /\ ~Adding(r)'
    BY <1>4, <2>1
  <2>3. Cardinality(laps[r][c]) >= LapTarget
    BY <1>1, <2>2
  <2>4. status[r] \in Terminal => status'[r] \in Terminal /\ status[r] # "running"
    BY RowsStay DEF Terminal
  <2> QED BY <1>4, <2>1, <2>2, <2>3, <2>4
<1> QED BY <1>2, <1>3, <1>4

\* The consumer does not move.
LEMMA DistanceOther ==
    ASSUME OneSession, Sound, Orderly, Distance, [Next]_vars, UNCHANGED <<laps, lap>>,
           failures' \in {failures, failures + 1}, call'[Consumer] = call[Consumer]
    PROVE  Distance'
<1>1. \A r \in Race : Ends(r)' = Ends(r) /\ Adding(r)' = Adding(r)
  BY DEF Ends, Adding
<1>2. call[Consumer].stage \in NeedsLaps => call[Consumer].race \in startedAt /\ call[Consumer].race \in Race
  BY Constants DEF Orderly, InOrder, NeedsLaps, Sound, Typed, TypeOK
<1>3. RankedByMode'
  BY <1>2, RowsStay DEF RankedByMode, Distance
<1> QED BY <1>1, <1>3, DistanceKept

\* The consumer moves, not to a lap, and is not on its way to finish a race.
LEMMA DistanceAside ==
    ASSUME OneSession, Sound, Orderly, Distance, [Next]_vars, laps' = laps,
           failures' \in {failures, failures + 1},
           failures' = failures => \A r \in Race : Ends(r) => Ends(r)' \/ status'[r] \in Terminal,
           call'[Consumer].stage \notin NeedsLaps
    PROVE  Distance'
BY DistanceKept DEF Adding, RankedByMode

\* The transaction that stores a lap: the race is not at its bound before it.
LEMMA DistanceStored ==
    ASSUME Sound, Orderly, Distance, UNCHANGED failures,
           call[Consumer].stage \in NeedsLaps, NEW n, StoreLap(n)
    PROVE  Distance'
<1> DEFINE q == call[Consumer].race
           k == lap.car
<1>1. /\ laps \in [Race -> [Car -> SUBSET Nat]] /\ FiniteLaps
      /\ q \in Race /\ k \in Car /\ CallsMade
  BY Constants DEF Sound, Typed, TypeOK, CallsMade, Made, LapInHand, Recordings, Laps, NeedsLaps
<1>2. laps' = [laps EXCEPT ![q][k] = @ \cup {n}] /\ UNCHANGED <<status, mode>>
  BY DEF StoreLap, races
<1>3. /\ call'[Consumer].stage \in {"ranking", "idle"}
      /\ lap.ranked => call'[Consumer].stage = "ranking" /\ call'[Consumer].race = q
  BY <1>1, GotoStage, Constants DEF StoreLap, Idle, Call, CallsMade
<1>4. \A r \in Race : ~Adding(r)' /\ ~Ends(r)
  BY <1>3 DEF Adding, Ends, NeedsLaps
<1>5. RankedByMode'
  BY <1>3 DEF RankedByMode, NeedsLaps
<1>6. ASSUME NEW r \in Race, NEW c \in Car, mode[r] = "fixed_laps"
      PROVE  /\ Cardinality(laps'[r][c]) <= LapTarget + failures
             /\ Cardinality(laps'[r][c]) = LapTarget + failures => status[r] \in Terminal \/ Ends(r)'
  <2>1. /\ Cardinality(laps[r][c]) \in Nat /\ failures \in Nat /\ LapTarget \in Nat \ {0}
        /\ Cardinality(laps[r][c]) <= LapTarget + failures
        /\ Cardinality(laps[r][c]) = LapTarget + failures => status[r] \in Terminal /\ ~Adding(r)
    BY <1>4, <1>6, LapCount DEF Distance, Bound
  <2>2. CASE r = q /\ c = k
    <3>1. Cardinality(laps[r][c]) < LapTarget + failures
      BY <2>1, <2>2 DEF Adding
    <3>2. laps'[r][c] = laps[r][c] \cup {n} /\ IsFiniteSet(laps[r][c])
      BY <1>1, <1>2, <2>2 DEF FiniteLaps
    <3>3. Cardinality(laps'[r][c]) \in {Cardinality(laps[r][c]), Cardinality(laps[r][c]) + 1}
      BY <3>2, FS_AddElement
    <3>4. Ends(r)'
      BY <1>3, <1>6, <2>2 DEF Distance, RankedByMode, Ends
    <3> QED BY <2>1, <3>1, <3>3, <3>4
  <2>3. CASE ~(r = q /\ c = k)
    <3>1. laps'[r][c] = laps[r][c]
      BY <1>1, <1>2, <1>6, <2>3
    <3> QED BY <2>1, <3>1
  <2> QED BY <2>2, <2>3
<1> QED BY <1>2, <1>4, <1>5, <1>6 DEF Distance, Bound

\* The consumer turns to a lap by Load alone, which finds the race running.
LEMMA AddingBegins ==
    ASSUME OneSession, Sound, Orderly, [Next]_vars, NEW r \in Race, Adding(r)'
    PROVE  Adding(r) \/ (status[r] = "running" /\ ~Ends(r))
<1>0. /\ CallsMade /\ call \in [Thread -> Made] /\ InOrder(Consumer)
      /\ \A t \in User : t # Consumer /\ t \in Thread
      /\ call'[Consumer].stage \in {"loaded", "registered", "numbered"} /\ call'[Consumer].race = r
  BY Constants DEF Sound, Typed, CallsMade, Orderly, Adding, NeedsLaps
<1> USE <1>0, Constants
<1>1. CASE call'[Consumer] = call[Consumer]
  BY <1>1 DEF Adding, NeedsLaps
<1>2. ASSUME NEW t \in Thread, Return(t) PROVE call'[Consumer] = call[Consumer]
  BY <1>2, ReturnStage
<1>3. ASSUME NEW t \in Thread, Goto(t, "check") \/ Goto(t, "write") \/ Goto(t, "snapshot")
      PROVE  call'[Consumer] = call[Consumer]
  BY <1>3, GotoStage
<1>4. ASSUME NEW t \in User, UserStarts(t) \/ InUnlocked(t) PROVE call'[Consumer] = call[Consumer]
  <2>1. ASSUME UserStarts(t) PROVE call'[Consumer] = call[Consumer]
    BY <2>1 DEF UserStarts, CreateRace, RepeatRace, NewRace, UserCall, BeginCall, MarkReady,
          UpdateCheck, DeleteCheck
  <2>2. ASSUME InUnlocked(t) PROVE call'[Consumer] = call[Consumer]
    BY <2>2 DEF InUnlocked, MarkReadyWrite, UpdateWrite, DeleteWrite, Unlink, Clear, ClearContext,
          Goto, Return
  <2> QED BY <1>4, <2>1, <2>2
<1>5. CASE \E t \in Thread : InLocked(t) \/ DatabaseError(t) \/ RefreshFails(t)
  BY <1>1, <1>2, <1>3, <1>5
     DEF InLocked, Preempt, Check, Refuse, Write, Snapshot, RowGone, GiveUp, DatabaseError,
         RefreshFails
<1>6. CASE Recording
  <2>1. CASE Load
    <3>1. /\ call[Consumer].stage = "arrived" /\ call[Consumer].race = r
          /\ status[r] \in {"running", "absent"}
      BY <2>1, GotoStage DEF Load
    <3>2. status[r] # "absent"
      BY <2>1, <3>1, GotoStage DEF Load, Exists
    <3> QED BY <3>1, <3>2 DEF Ends
  <2>2. CASE Register \/ LoadCheckpoint
    BY <2>2, GotoStage DEF Register, LoadCheckpoint, Adding, NeedsLaps
  <2>3. CASE Drop \/ Duplicate \/ OrphanClear
    BY <2>3, <1>1, <1>2 DEF Drop, Duplicate, OrphanClear, ClearContext, GiveUp
  <2>4. CASE FirstLap \/ CommitLap
    BY <2>4, <1>1, <1>2, GotoStage DEF FirstLap, CommitLap, StoreLap, GiveUp, Idle, Call
  <2>5. CASE Rank
    BY <2>5 DEF Rank, Idle, Call, Made, Calls
  <2> QED BY <1>6, <2>1, <2>2, <2>3, <2>4, <2>5 DEF Recording
<1>7. CASE \E c \in Car, cu \in CuTime : LapArrives(c, cu)
  BY <1>7 DEF LapArrives, Call
<1>8. CASE TickerPoll \/ TickerJudge \/ RecoveryFails \/ UNCHANGED vars
  BY <1>1, <1>8 DEF TickerPoll, TickerJudge, RecoveryFails, vars, Idle, Call
<1>9. CASE \E t \in {Consumer, Ticker} : AutoFinish(t)
  BY <1>1, <1>9 DEF AutoFinish, BeginCall, Call
<1>10. CASE Booting
  BY <1>1, <1>10 DEF Booting, BootList, RecoverNext, BeginCall, Idle, Call
<1>11. CASE \E p \in Proc : Crash(p)
  BY <1>1, <1>11 DEF Crash, Boot, Call
<1> QED BY <1>1, <1>4, <1>5, <1>6, <1>7, <1>8, <1>9, <1>10, <1>11 DEF Next

LEMMA DistanceNext ==
    ASSUME OneSession, Sound, Orderly, Distance, [Next]_vars PROVE Distance'
<1>0. /\ CallsMade /\ call \in [Thread -> Made] /\ \A t \in Thread : InOrder(t)
      /\ \A t \in User : t # Consumer /\ t \in Thread
      /\ \A r \in startedAt : Exists(r) /\ status[r] \notin {"draft", "ready"}
      /\ status \in [Race -> Status \cup {"absent"}]
  BY Constants DEF Sound, Typed, TypeOK, CallsMade, Orderly, StampsInv
<1> USE <1>0, Constants DEF db, ledger, races, counters
<1>1. CASE UNCHANGED vars
  BY <1>1, DistanceOther DEF vars
\* A thread gives up, and the consumer does so for a failure or with no race to finish.
<1>2. ASSUME NEW t \in Thread, GiveUp(t), failures' \in {failures, failures + 1},
             t = Consumer /\ failures' = failures
             => \A r \in Race : Ends(r) => status[r] \in Terminal
      PROVE  Distance'
  <2>1. UNCHANGED <<laps, status>> /\ Return(t) /\ (t # Consumer => lap' = lap)
    BY <1>2 DEF GiveUp
  <2>2. CASE t = Consumer
    BY <1>2, <2>1, <2>2, ReturnStage, DistanceAside DEF NeedsLaps
  <2>3. CASE t # Consumer
    BY <1>2, <2>1, <2>3, ReturnStage, DistanceOther
  <2> QED BY <2>2, <2>3
<1>3. ASSUME NEW t \in User, UserStarts(t) PROVE Distance'
  <2>1. /\ call'[Consumer] = call[Consumer]
        /\ UNCHANGED <<laps, lap, failures>>
    BY <1>3 DEF UserStarts, CreateRace, RepeatRace, NewRace, UserCall, BeginCall,
                MarkReady, UpdateCheck, DeleteCheck
  <2> QED BY <2>1, DistanceOther
<1>4. ASSUME NEW t \in Thread, InLocked(t) PROVE Distance'
  <2>1. CASE t # Consumer
    <3>1. UNCHANGED <<laps, lap, failures>>
      BY <1>4, <2>1 DEF InLocked, Preempt, Check, Refuse, Write, Commit, Snapshot, RowGone, GiveUp
    <3>2. call'[Consumer] = call[Consumer]
      BY <1>4, <2>1, GotoStage, ReturnStage
         DEF InLocked, Preempt, Check, Refuse, Write, Commit, Snapshot, RowGone, GiveUp
    <3> QED BY <3>1, <3>2, DistanceOther
  <2> SUFFICES ASSUME t = Consumer PROVE Distance'
    BY <2>1
  <2>2. call[t].stage \in LockedStage
        => /\ call[t].race \in startedAt /\ call[t].race \in Race
           /\ call[t].method \in {"finish_race", "pause_race"}
    BY DEF InOrder, LockedStage, Made
  <2>3. CASE Preempt(t)
    BY <2>2, <2>3 DEF Preempt, InOrder, LockedStage, Activating
  <2>4. CASE Check(t)
    BY <2>4, GotoStage, DistanceAside DEF Check, Ends, NeedsLaps
  <2>5. CASE Refuse(t)
    <3>1. GiveUp(t) /\ failures' = failures /\ call[t].stage = "check"
      BY <2>5 DEF Refuse
    <3>2. ASSUME NEW r \in Race, Ends(r) PROVE status[r] \in Terminal
      <4>1. r = call[t].race /\ call[t].method = "finish_race" /\ r \in startedAt
        BY <2>2, <3>1, <3>2 DEF Ends, LockedStage
      <4> QED BY <2>5, <4>1 DEF Refuse, ValidFrom, Exists, Status, Terminal
    <3> QED BY <3>1, <3>2, <1>2
  <2>6. CASE RowGone(t)
    <3>1. GiveUp(t) /\ failures' = failures /\ call[t].stage \notin {"ranking", "due", "check", "preempt"}
      BY <2>2, <2>6 DEF RowGone, InOrder, LockedStage, Activating
    <3>2. call[t].stage # "write"
      BY <2>2, <2>6 DEF RowGone, LockedStage
    <3> QED BY <3>1, <3>2, <1>2 DEF Ends
  <2>7. CASE Write(t)
    <3>1. /\ status' = [status EXCEPT ![call[t].race] = NewStatus[call[t].method]]
          /\ UNCHANGED <<laps, failures>> /\ call[t].stage = "write"
      BY <2>7 DEF Write, Commit
    <3>2. call'[t].stage \in {"snapshot", "idle"}
      BY <2>7, GotoStage, ReturnStage DEF Write, Commit
    <3>3. \A r \in Race : Ends(r) => status'[r] \in Terminal
      BY <2>2, <3>1 DEF Ends, LockedStage, NewStatus, Terminal
    <3> QED BY <3>1, <3>2, <3>3, DistanceAside DEF NeedsLaps
  <2>8. CASE Snapshot(t)
    BY <2>8, ReturnStage, DistanceAside DEF Snapshot, Ends, NeedsLaps
  <2> QED BY <1>4, <2>3, <2>4, <2>5, <2>6, <2>7, <2>8 DEF InLocked
<1>5. ASSUME NEW t \in User, InUnlocked(t) PROVE Distance'
  <2>1. call'[Consumer] = call[Consumer] /\ lap' = lap /\ failures' = failures
    BY <1>5 DEF InUnlocked, MarkReadyWrite, UpdateWrite, DeleteWrite, Unlink, Clear, ClearContext,
                Goto, Return
  <2>2. ~DeleteWrite(t)
    BY DEF DeleteWrite, InOrder
  <2> QED BY <1>5, <2>1, <2>2, DistanceOther
          DEF InUnlocked, MarkReadyWrite, UpdateWrite, Unlink, Clear, ClearContext
<1>6. CASE Recording
  <2> DEFINE q == call[Consumer].race
             k == lap.car
  <2>1. CASE Drop \/ Duplicate
    BY <2>1, <1>2 DEF Drop, Duplicate, Ends
  <2>2. CASE Load \/ Register \/ LoadCheckpoint
    <3>1. /\ UNCHANGED <<laps, failures, mode>> /\ call[Consumer].stage \in {"arrived", "loaded", "registered"}
          /\ call'[Consumer].race = q /\ q \in Race
      BY <2>2, GotoStage DEF Load, Register, LoadCheckpoint, Made
    <3>2. lap \in Laps
      BY <3>1 DEF Sound, Typed, LapInHand, Recordings
    <3>3. CASE Load
      <4>1. lap'.ranked = (mode[q] = "fixed_laps")
        BY <3>2, <3>3 DEF Load, Laps
      <4>2. RankedByMode'
        BY <3>1, <4>1 DEF RankedByMode
      <4> QED BY <3>1, <4>2, AddingBegins, DistanceKept DEF Ends
    <3>4. CASE Register \/ LoadCheckpoint
      <4>1. lap'.ranked = lap.ranked
        BY <3>2, <3>4 DEF Register, LoadCheckpoint, Laps
      <4>2. RankedByMode'
        BY <3>1, <3>4, <4>1 DEF RankedByMode, Distance, NeedsLaps, Register, LoadCheckpoint
      <4> QED BY <3>1, <3>4, <4>2, AddingBegins, DistanceKept DEF Ends, Register, LoadCheckpoint
    <3> QED BY <2>2, <3>3, <3>4
  <2>3. CASE FirstLap
    BY <2>3, DistanceStored DEF FirstLap, NeedsLaps
  <2>4. CASE CommitLap
    BY <2>4, <1>2, DistanceStored DEF CommitLap, NeedsLaps, Ends
  <2>5. CASE Rank
    <3>1. /\ UNCHANGED <<laps, failures>> /\ call[Consumer].stage = "ranking"
          /\ call'[Consumer].stage \in {"idle", "due"} /\ q \in Race
          /\ LeaderDone(q) => call'[Consumer].stage = "due" /\ call'[Consumer].race = q
      BY <2>5 DEF Rank, Idle, Call, Made, Calls
    <3>2. ASSUME NEW r \in Race, NEW c \in Car, Ends(r), Cardinality(laps[r][c]) >= LapTarget
          PROVE  Ends(r)'
      BY <3>1, <3>2 DEF Ends, LeaderDone
    <3>3. RankedByMode'
      BY <3>1 DEF RankedByMode, NeedsLaps
    <3> QED BY <3>1, <3>2, <3>3, AddingBegins, DistanceKept
  <2>6. CASE OrphanClear
    BY <2>6 DEF OrphanClear, ClearContext, InOrder
  <2> QED BY <1>6, <2>1, <2>2, <2>3, <2>4, <2>5, <2>6 DEF Recording
<1>7. ASSUME NEW c \in Car, NEW cu \in CuTime, LapArrives(c, cu) PROVE Distance'
  <2>1. /\ UNCHANGED <<laps, failures>> /\ call[Consumer].stage = "idle" /\ call'[Consumer].stage = "arrived"
    BY <1>7 DEF LapArrives, Ready, Idle, Call
  <2> QED BY <2>1, DistanceAside DEF Ends, NeedsLaps
<1>8. CASE TickerPoll \/ TickerJudge
  <2>1. call'[Consumer] = call[Consumer] /\ UNCHANGED <<laps, lap, failures>>
    BY <1>8 DEF TickerPoll, TickerJudge
  <2> QED BY <2>1, DistanceOther
<1>9. ASSUME NEW t \in {Consumer, Ticker}, AutoFinish(t) PROVE Distance'
  <2>1. UNCHANGED <<laps, lap, failures>> /\ call[t].stage = "due"
    BY <1>9 DEF AutoFinish
  <2>2. /\ call'[t].stage = "check" /\ call'[t].method = "finish_race" /\ call'[t].race = call[t].race
        /\ \A u \in Thread \ {t} : call'[u] = call[u]
    BY <1>9 DEF AutoFinish, BeginCall, MustPreempt, Activating, Call
  <2>3. CASE t = Consumer
    BY <2>1, <2>2, <2>3, DistanceAside DEF Ends, NeedsLaps
  <2>4. CASE t # Consumer
    BY <2>1, <2>2, <2>4, DistanceOther
  <2> QED BY <2>3, <2>4
<1>10. CASE BootList
  <2>1. /\ UNCHANGED <<laps, failures>> /\ call[Consumer].stage = "booting" /\ call'[Consumer].stage = "idle"
    BY <1>10 DEF BootList, Idle, Call
  <2> QED BY <2>1, DistanceAside DEF Ends, NeedsLaps
<1>11. ASSUME NEW q \in Race, RecoverNext(q) PROVE Distance'
  <2>1. /\ UNCHANGED <<laps, failures>> /\ call[Consumer].stage = "idle"
        /\ call'[Consumer].stage \in {"idle", "preempt", "check"}
    BY <1>11 DEF RecoverNext, BeginCall, Idle, Call
  <2> QED BY <2>1, DistanceAside DEF Ends, NeedsLaps
<1>12. ASSUME NEW p \in Proc, Crash(p) PROVE Distance'
  <2>1. UNCHANGED laps /\ failures' = failures + 1 /\ failures \in Nat
    BY <1>12 DEF Crash, Sound, Typed, TypeOK
  <2>2. CASE p = Pipeline
    <3>1. call'[Consumer].stage = "booting"
      BY <1>12, <2>2 DEF Crash, Boot, Call
    <3> QED BY <2>1, <3>1, DistanceAside DEF NeedsLaps
  <2>3. CASE p # Pipeline
    BY <1>12, <2>1, <2>3, DistanceOther DEF Crash
  <2> QED BY <2>2, <2>3
<1>13. ASSUME NEW t \in Thread, DatabaseError(t) PROVE Distance'
  <2>1. GiveUp(t) /\ failures' = failures + 1 /\ failures \in Nat
    BY <1>13 DEF DatabaseError, Sound, Typed, TypeOK
  <2> QED BY <2>1, <1>2
<1>14. CASE RecoveryFails
  <2>1. UNCHANGED laps /\ failures' = failures + 1 /\ call'[Consumer].stage = "idle" /\ failures \in Nat
    BY <1>14 DEF RecoveryFails, Idle, Call, Sound, Typed, TypeOK
  <2> QED BY <2>1, DistanceAside DEF NeedsLaps
<1>15. ASSUME NEW t \in Thread, RefreshFails(t) PROVE Distance'
  <2>1. UNCHANGED <<laps, lap>> /\ Return(t) /\ failures' = failures + 1 /\ failures \in Nat
    BY <1>15 DEF RefreshFails, Commit, Sound, Typed, TypeOK
  <2>2. CASE t = Consumer
    BY <2>1, <2>2, ReturnStage, DistanceAside DEF NeedsLaps
  <2>3. CASE t # Consumer
    BY <2>1, <2>3, ReturnStage, DistanceOther
  <2> QED BY <2>2, <2>3
<1> QED
  BY <1>1, <1>3, <1>4, <1>5, <1>6, <1>7, <1>8, <1>9, <1>10, <1>11, <1>12, <1>13, <1>14, <1>15
     DEF Next, Booting

(***************************************************************************)
(* No race runs past its distance: a car of a fixed_laps race has at most  *)
(* LapTarget laps, and one more for every crash or database error that     *)
(* came between its lap and the auto-finish.                               *)
(***************************************************************************)
THEOREM DistanceSafe == ASSUME OneSession PROVE Spec => []LapsBounded
<1>1. Init => Distance
  <2> SUFFICES ASSUME Init PROVE Distance
    OBVIOUS
  <2>1. \A r \in Race, c \in Car : Cardinality(laps[r][c]) = 0
    BY FS_EmptySet DEF Init
  <2>2. failures = 0 /\ LapTarget \in Nat \ {0} /\ call[Consumer].stage = "booting"
    BY ConstantsAssumption, Constants DEF Init, Boot, Call
  <2> QED BY <2>1, <2>2 DEF Distance, Bound, RankedByMode, NeedsLaps
<1>2. Sound /\ Orderly /\ Distance /\ [Next]_vars => Distance'
  BY DistanceNext
<1>3. Distance => LapsBounded
  BY DEF Distance, LapsBounded, Bound
<1> QED BY <1>1, <1>2, <1>3, AlwaysOrderly, PTL DEF Spec

(***************************************************************************)
(* The report.  What finish_race and cancel_race save is what the laps are *)
(* then; afterwards at most the one lap the consumer had loaded before the *)
(* end is added, since no further lap is loaded for a race that is over.   *)
(***************************************************************************)
LateLap(r) ==
    /\ ~Adding(r)
    /\ \E k \in Car : \E n \in laps[r][k] : laps[r] = [report[r] EXCEPT ![k] = @ \cup {n}]

Reported ==
    \A r \in Race : report[r] # None =>
        status[r] \in Terminal /\ (laps[r] = report[r] \/ LateLap(r))

\* A step that stores neither a lap nor a report.
LEMMA ReportedKept ==
    ASSUME OneSession, Sound, Orderly, Reported, [Next]_vars, UNCHANGED <<laps, report>>
    PROVE  Reported'
<1> SUFFICES ASSUME NEW r \in Race, report[r] # None
             PROVE  status'[r] \in Terminal /\ (laps[r] = report[r] \/ LateLap(r)')
  BY DEF Reported
<1>1. status[r] \in Terminal /\ (laps[r] = report[r] \/ LateLap(r)) /\ status'[r] \in Terminal
  BY RowsStay DEF Reported
<1>2. Adding(r)' => Adding(r)
  BY <1>1, AddingBegins DEF Terminal
<1> QED BY <1>1, <1>2 DEF LateLap

LEMMA ReportedStored ==
    ASSUME Sound, Reported, call[Consumer].stage \in NeedsLaps, NEW n, StoreLap(n)
    PROVE  Reported'
<1> DEFINE q == call[Consumer].race
           k == lap.car
<1>1. /\ laps \in [Race -> [Car -> SUBSET Nat]] /\ report \in [Race -> [Car -> SUBSET Nat] \cup {None}]
      /\ q \in Race /\ k \in Car /\ CallsMade
  BY Constants DEF Sound, Typed, TypeOK, CallsMade, Made, LapInHand, Recordings, Laps, NeedsLaps
<1>2. laps' = [laps EXCEPT ![q][k] = @ \cup {n}] /\ UNCHANGED <<status, report>>
  BY DEF StoreLap, races
<1>3. call'[Consumer].stage \notin NeedsLaps
  BY <1>1, GotoStage, Constants DEF StoreLap, Idle, Call, CallsMade, NeedsLaps
<1> SUFFICES ASSUME NEW r \in Race, report[r] # None
             PROVE  status[r] \in Terminal /\ (laps'[r] = report[r] \/ LateLap(r)')
  BY <1>2 DEF Reported
<1>4. status[r] \in Terminal /\ (laps[r] = report[r] \/ LateLap(r))
  BY DEF Reported
<1>5. CASE r = q
  <2>1. laps[r] = report[r]
    BY <1>4, <1>5 DEF LateLap, Adding
  <2>2. laps'[r] = [report[r] EXCEPT ![k] = @ \cup {n}] /\ n \in laps'[r][k]
    BY <1>1, <1>2, <1>5, <2>1
  <2> QED BY <1>1, <1>2, <1>3, <1>4, <2>2 DEF LateLap, Adding
<1>6. CASE r # q
  <2>1. laps'[r] = laps[r]
    BY <1>1, <1>2, <1>6
  <2> QED BY <1>2, <1>3, <1>4, <2>1 DEF LateLap, Adding
<1> QED BY <1>5, <1>6

LEMMA ReportedNext ==
    ASSUME OneSession, Sound, Orderly, Reported, [Next]_vars PROVE Reported'
<1>1. ASSUME NEW t \in Thread, Snapshot(t) PROVE Reported'
  <2> DEFINE q == call[t].race
  <2>1. q \in Race /\ status[q] \in Terminal /\ call[t].stage = "snapshot"
    BY <1>1 DEF Snapshot, Orderly, InOrder, Sound, Typed, CallsMade, Made
  <2>2. UNCHANGED <<laps, status>> /\ report' = [report EXCEPT ![q] = laps[q]]
    BY <1>1 DEF Snapshot, Summary, ledger, races
  <2>3. CallsMade /\ Consumer \in Thread
    BY Constants DEF Sound, Typed
  <2>4. call'[Consumer] = call[Consumer] \/ call'[Consumer].stage = "idle"
    BY <1>1, <2>3, ReturnStage DEF Snapshot
  <2> SUFFICES ASSUME NEW r \in Race, report'[r] # None
               PROVE  status[r] \in Terminal /\ (laps[r] = report'[r] \/ LateLap(r)')
    BY <2>2 DEF Reported
  <2>5. CASE r = q
    BY <2>1, <2>2, <2>5 DEF Sound, Typed, TypeOK
  <2>6. CASE r # q
    <3>1. report'[r] = report[r]
      BY <2>2, <2>6 DEF Sound, Typed, TypeOK
    <3>2. Adding(r)' => Adding(r)
      BY <2>4 DEF Adding, NeedsLaps
    <3>3. laps'[r] = laps[r] /\ (LateLap(r) => LateLap(r)')
      BY <2>2, <3>1, <3>2 DEF LateLap
    <3> QED BY <3>1, <3>3 DEF Reported
  <2> QED BY <2>5, <2>6
<1>2. CASE FirstLap \/ CommitLap
  <2>1. call[Consumer].stage \in NeedsLaps
    BY <1>2 DEF FirstLap, CommitLap, NeedsLaps
  <2>2. (\E n : StoreLap(n)) \/ GiveUp(Consumer)
    BY <1>2 DEF FirstLap, CommitLap
  <2> QED BY <2>1, <2>2, ReportedStored, ReportedKept DEF GiveUp, db, ledger
<1>3. ASSUME NEW t \in Thread PROVE ~DeleteWrite(t)
  BY DEF DeleteWrite, Orderly, InOrder
\* Every other action leaves both tables alone.
<1>4. CASE UNCHANGED <<laps, report>>
  BY <1>4, ReportedKept
<1>5. CASE \E t \in User : UserStarts(t) \/ InUnlocked(t)
  BY <1>3, <1>4, <1>5, Constants DEF UserStarts, CreateRace, RepeatRace, NewRace, UserCall, MarkReady,
        UpdateCheck, DeleteCheck, InUnlocked, MarkReadyWrite, UpdateWrite, Unlink, Clear,
        ClearContext, db, ledger
<1>6. CASE \E t \in Thread : InLocked(t) \/ DatabaseError(t) \/ RefreshFails(t)
  BY <1>1, <1>4, <1>6 DEF InLocked, Preempt, Check, Refuse, Write, Commit, RowGone, GiveUp,
        DatabaseError, RefreshFails, db, ledger
<1>7. CASE Recording
  BY <1>2, <1>4, <1>7 DEF Recording, Load, Drop, OrphanClear, ClearContext, Register, Duplicate,
        LoadCheckpoint, Rank, GiveUp, db, ledger
<1> QED
  BY <1>4, <1>5, <1>6, <1>7 DEF Next, vars, LapArrives, TickerPoll, TickerJudge, AutoFinish,
     Booting, BootList, RecoverNext, Crash, RecoveryFails, db, ledger

LEMMA OneAtMost ==
    ASSUME NEW S, NEW x, S \subseteq {x} PROVE Cardinality(S) <= 1
<1>1. S = {} \/ S = {x}
  OBVIOUS
<1>2. Cardinality({}) = 0 /\ Cardinality({x}) = 1
  BY FS_EmptySet, FS_Singleton
<1> QED BY <1>1, <1>2

(***************************************************************************)
(* The summary saved at the end of a race is right but for the one lap     *)
(* that was being recorded then.                                           *)
(***************************************************************************)
THEOREM ReportSafe == ASSUME OneSession PROVE Spec => []ReportComplete
<1>1. Init => Reported
  BY DEF Init, Reported
<1>2. Sound /\ Orderly /\ Reported /\ [Next]_vars => Reported'
  BY ReportedNext
<1>3. Sound /\ Reported => ReportComplete
  <2> SUFFICES ASSUME Sound, Reported, NEW r \in Race, report[r] # None
               PROVE  /\ Cardinality(Missed(r)) <= 1
                      /\ \A c \in Car : Cardinality(laps[r][c] \ report[r][c]) <= 1
    BY DEF ReportComplete
  <2>0. report[r] \in [Car -> SUBSET Nat]
    BY DEF Sound, Typed, TypeOK
  <2>1. \E k, n : \A c \in Car : IF c = k THEN laps[r][c] \in {report[r][c], report[r][c] \cup {n}}
                                         ELSE laps[r][c] = report[r][c]
    <3>1. CASE laps[r] = report[r]
      BY <3>1
    <3>2. CASE LateLap(r)
      <4>1. PICK k \in Car : \E n \in laps[r][k] : laps[r] = [report[r] EXCEPT ![k] = @ \cup {n}]
        BY <3>2 DEF LateLap
      <4>2. PICK n \in laps[r][k] : laps[r] = [report[r] EXCEPT ![k] = @ \cup {n}]
        BY <4>1
      <4>3. \A c \in Car : laps[r][c] = IF c = k THEN report[r][c] \cup {n} ELSE report[r][c]
        BY <2>0, <4>2
      <4> QED BY <4>3
    <3> QED BY <3>1, <3>2 DEF Reported
  <2>2. PICK k, n : \A c \in Car : IF c = k THEN laps[r][c] \in {report[r][c], report[r][c] \cup {n}}
                                            ELSE laps[r][c] = report[r][c]
    BY <2>1
  <2>3. Missed(r) \subseteq {k} /\ \A c \in Car : laps[r][c] \ report[r][c] \subseteq {n}
    BY <2>2 DEF Missed
  <2> QED BY <2>3, OneAtMost
<1> QED BY <1>1, <1>2, <1>3, AlwaysOrderly, PTL DEF Spec
=============================================================================
