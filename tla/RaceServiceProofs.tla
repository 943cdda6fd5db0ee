------------------------- MODULE RaceServiceProofs -------------------------
(***************************************************************************)
(* Theorems about RaceService, for any number of races, cars, users and    *)
(* processes, with and without recovery of running races.                  *)
(***************************************************************************)
EXTENDS RaceService, FiniteSetTheorems, TLAPS

(***************************************************************************)
(* Type correctness.  TypeOK is not inductive: a write looks up the method *)
(* of the call in NewStatus and puts its race into a set of races, so a    *)
(* call in progress has both; the seeding of a checkpoint counts a set of  *)
(* laps, which must be finite; and the consumer handles a lap in the       *)
(* stages of record_lap, which must be there.                              *)
(***************************************************************************)
Recordings == {"arrived", "orphaned", "loaded", "registered", "numbered", "ranking"}

\* The calls that threads make: a race is named, and a call under the lock is
\* one of the lifecycle methods.
Made == {x \in Calls : /\ x.stage \notin {"idle", "booting"} => x.race \in Race
                       /\ x.stage \in LockedStage => x.method \in Locked}

CallsMade  == call \in [Thread -> Made]
LapInHand  == call[Consumer].stage \in Recordings => lap \in Laps
FiniteLaps == \A r \in Race, c \in Car : IsFiniteSet(laps[r][c])

Typed == TypeOK /\ CallsMade /\ LapInHand /\ FiniteLaps

\* What the constants are to each other.
LEMMA Constants ==
    /\ NoCheckpoint \notin Nat /\ Pipeline \in Proc
    /\ Consumer \in Thread /\ Ticker \in Thread /\ User \subseteq Thread
    /\ Consumer \notin User /\ Ticker \notin User /\ Consumer # Ticker
    /\ \A t \in Thread : ProcOf(t) \in Proc
    /\ ProcOf(Consumer) = Pipeline /\ ProcOf(Ticker) = Pipeline
    /\ None \notin Thread /\ None \notin Race /\ None \notin Laps
BY ConstantsAssumption DEF NoCheckpoint, Thread, ProcOf, Laps

\* The calls a step can put in the place of a thread's call.
LEMMA MadeIdle == Idle \in Made /\ Boot \in Made
BY DEF Made, Calls, Idle, Boot, Call, Stage, LockedStage, Method

LEMMA MadeCall ==
    ASSUME NEW s \in Stage, NEW m \in Method, NEW r \in Race, NEW b \in BOOLEAN,
           s \in LockedStage => m \in Locked
    PROVE  Call(s, m, r, b) \in Made
BY DEF Made, Calls, Call

LEMMA MadeStage ==
    ASSUME NEW x \in Made, NEW s \in Stage, x.stage \notin {"idle", "booting"},
           s \in LockedStage => x.method \in Locked
    PROVE  [x EXCEPT !.stage = s] \in Made
BY DEF Made, Calls

LEMMA TypedInit == Init => Typed
<1> SUFFICES ASSUME Init PROVE Typed
  OBVIOUS
<1> USE DEF Init
<1>1. CallsMade
  BY MadeIdle DEF CallsMade
<1>2. TypeOK
  BY <1>1, Constants DEF TypeOK, CallsMade, Made, Mode
<1>3. LapInHand
  BY Constants DEF LapInHand, Boot, Call, Recordings
<1>4. FiniteLaps
  BY FS_EmptySet DEF FiniteLaps
<1> QED BY <1>1, <1>2, <1>3, <1>4 DEF Typed

LEMMA PutMade ==
    ASSUME CallsMade, NEW t \in Thread, NEW x \in Made, call' = [call EXCEPT ![t] = x]
    PROVE  CallsMade'
BY DEF CallsMade

LEMMA GotoMade ==
    ASSUME CallsMade, NEW t \in Thread, NEW s \in Stage, Goto(t, s),
           call[t].stage \notin {"idle", "booting"},
           s \in LockedStage => call[t].method \in Locked
    PROVE  CallsMade'
<1>1. [call[t] EXCEPT !.stage = s] \in Made
  BY MadeStage DEF CallsMade
<1>2. call' = [call EXCEPT ![t] = [call[t] EXCEPT !.stage = s]]
  BY DEF Goto, CallsMade
<1> QED BY <1>1, <1>2, PutMade

LEMMA ReturnMade ==
    ASSUME CallsMade, NEW t \in Thread, Return(t) PROVE CallsMade'
BY MadeIdle, PutMade DEF Return

LEMMA BeginMade ==
    ASSUME CallsMade, NEW t \in Thread, NEW m \in Locked, NEW r \in Race,
           BeginCall(t, m, r)
    PROVE  CallsMade'
<1>1. \E x \in Made : call' = [call EXCEPT ![t] = x]
  BY MadeCall DEF BeginCall, Stage, LockedStage, Locked, Method
<1> QED BY <1>1, PutMade

\* The calls stay well made.
LEMMA CallsMadeNext == Typed /\ Next => CallsMade'
<1> SUFFICES ASSUME Typed, Next PROVE CallsMade'
  OBVIOUS
<1>0. CallsMade
  BY DEF Typed
<1>1. \A t \in Thread : /\ call[t] \in Made
                        /\ call[t].stage \notin {"idle", "booting"} => call[t].race \in Race
                        /\ call[t].stage \in LockedStage => call[t].method \in Locked
  BY <1>0 DEF CallsMade, Made
<1> USE <1>0, <1>1, Constants DEF Stage, LockedStage
<1>2. ASSUME NEW t \in User, UserStarts(t) PROVE CallsMade'
  <2>1. CASE CreateRace(t)
    BY <2>1 DEF CreateRace, NewRace, CallsMade
  <2>2. ASSUME NEW r \in Race, NEW m \in Locked, UserCall(t, m, r) PROVE CallsMade'
    BY <2>2, BeginMade DEF UserCall
  <2>3. ASSUME NEW r \in Race, RepeatRace(t, r) PROVE CallsMade'
    BY <2>3 DEF RepeatRace, NewRace, CallsMade
  <2>4. ASSUME NEW r \in Race, MarkReady(t, r) \/ UpdateCheck(t, r) \/ DeleteCheck(t, r)
        PROVE  CallsMade'
    BY <2>4, PutMade, MadeCall DEF MarkReady, UpdateCheck, DeleteCheck, Method, Transition, ValidFrom
  <2> QED BY <1>2, <2>1, <2>2, <2>3, <2>4 DEF UserStarts
<1>3. ASSUME NEW t \in Thread, InLocked(t) PROVE CallsMade'
  <2>1. CASE Preempt(t) \/ Check(t)
    BY <2>1, GotoMade DEF Preempt, Check
  <2>2. CASE Refuse(t) \/ Snapshot(t) \/ RowGone(t)
    BY <2>2, ReturnMade DEF Refuse, Snapshot, RowGone, GiveUp
  <2>3. CASE Write(t)
    BY <2>3, GotoMade, ReturnMade DEF Write
  <2> QED BY <1>3, <2>1, <2>2, <2>3 DEF InLocked
<1>4. ASSUME NEW t \in User, InUnlocked(t) PROVE CallsMade'
  <2>1. CASE MarkReadyWrite(t) \/ UpdateWrite(t) \/ Clear(t)
    BY <2>1, ReturnMade DEF MarkReadyWrite, UpdateWrite, Clear, ClearContext
  <2>2. CASE DeleteWrite(t) \/ Unlink(t)
    BY <2>2, GotoMade, ReturnMade DEF DeleteWrite, Unlink
  <2> QED BY <1>4, <2>1, <2>2 DEF InUnlocked
<1>5. CASE Recording
  <2>1. CASE Drop \/ OrphanClear \/ Duplicate
    BY <2>1, ReturnMade DEF Drop, OrphanClear, Duplicate, GiveUp, ClearContext
  <2>2. CASE Load \/ Register \/ LoadCheckpoint
    BY <2>2, GotoMade DEF Load, Register, LoadCheckpoint
  <2>3. ASSUME call[Consumer].stage \notin {"idle", "booting"}, NEW n, StoreLap(n)
        PROVE  CallsMade'
    BY <2>3, GotoMade, PutMade, MadeIdle DEF StoreLap
  <2>4. CASE FirstLap \/ CommitLap
    BY <2>3, <2>4, ReturnMade DEF FirstLap, CommitLap, GiveUp
  <2>5. CASE Rank
    BY <2>5, PutMade, MadeIdle, MadeStage DEF Rank
  <2> QED BY <1>5, <2>1, <2>2, <2>4, <2>5 DEF Recording
<1>6. ASSUME NEW c \in Car, NEW cu \in CuTime, LapArrives(c, cu) PROVE CallsMade'
  <2>1. ctx[Pipeline] \in Race
    BY <1>6 DEF LapArrives, Typed, TypeOK
  <2> QED BY <1>6, <2>1, PutMade, MadeCall DEF LapArrives, Method
<1>7. CASE TickerPoll
  <2>1. ctx[Pipeline] \in Race
    BY <1>7 DEF TickerPoll, Typed, TypeOK
  <2> QED BY <1>7, <2>1, PutMade, MadeCall DEF TickerPoll, Method
<1>8. CASE TickerJudge
  BY <1>8, PutMade, MadeIdle, MadeStage DEF TickerJudge
<1>9. ASSUME NEW t \in {Consumer, Ticker}, AutoFinish(t) PROVE CallsMade'
  BY <1>9, BeginMade DEF AutoFinish, Locked, Transition, ValidFrom
<1>10. CASE Booting
  <2>1. CASE BootList
    BY <2>1, PutMade, MadeIdle DEF BootList
  <2>2. ASSUME NEW r \in Race, RecoverNext(r) PROVE CallsMade'
    BY <2>2, BeginMade DEF RecoverNext, CallsMade, Locked, Transition, ValidFrom
  <2> QED BY <1>10, <2>1, <2>2 DEF Booting
<1>11. ASSUME NEW p \in Proc, Crash(p) PROVE CallsMade'
  BY <1>11, MadeIdle DEF Crash, CallsMade
<1>12. ASSUME NEW t \in Thread, DatabaseError(t) PROVE CallsMade'
  BY <1>12, ReturnMade DEF DatabaseError, GiveUp
<1>13. CASE RecoveryFails
  BY <1>13, PutMade, MadeIdle DEF RecoveryFails
<1>14. ASSUME NEW t \in Thread, RefreshFails(t) PROVE CallsMade'
  BY <1>14, ReturnMade DEF RefreshFails
<1> QED
  BY <1>2, <1>3, <1>4, <1>5, <1>6, <1>7, <1>8, <1>9, <1>10, <1>11, <1>12, <1>13, <1>14 DEF Next

\* What Goto and Return leave behind.
LEMMA GotoStage ==
    ASSUME CallsMade, NEW t \in Thread, NEW s, Goto(t, s)
    PROVE  /\ call'[t].stage = s
           /\ call'[t].race = call[t].race /\ call'[t].method = call[t].method
           /\ call'[t].snap = call[t].snap
           /\ \A u \in Thread \ {t} : call'[u] = call[u]
BY DEF Goto, CallsMade, Made, Calls

LEMMA ReturnStage ==
    ASSUME CallsMade, NEW t \in Thread, Return(t)
    PROVE  /\ call'[t].stage = "idle"
           /\ \A u \in Thread \ {t} : call'[u] = call[u]
BY DEF Return, CallsMade, Idle, Call

\* The lap in hand stays one while the consumer records it.
LEMMA LapInHandNext == Typed /\ Next => LapInHand'
<1> SUFFICES ASSUME Typed, Next PROVE LapInHand'
  OBVIOUS
<1>0. CallsMade /\ call \in [Thread -> Made] /\ LapInHand /\ Consumer \in Thread
  BY Constants DEF Typed, CallsMade
<1> USE <1>0 DEF LapInHand, Recordings
\* A step of another thread leaves the lap, and the consumer's stage.
<1>1. ASSUME NEW t \in Thread \ {Consumer}, lap' = lap,
             \/ call' = call
             \/ \E x : call' = [call EXCEPT ![t] = x]
      PROVE  LapInHand'
  BY <1>1
\* Any step after which the consumer is not recording.
<1>2. ASSUME call'[Consumer].stage \notin Recordings PROVE LapInHand'
  BY <1>2
<1>3. ASSUME NEW t \in Thread, GiveUp(t) PROVE LapInHand'
  BY <1>3 DEF GiveUp, Return, Idle, Call
<1>4. ASSUME NEW t \in User, UserStarts(t) PROVE LapInHand'
  BY <1>1, <1>4, Constants DEF UserStarts, CreateRace, RepeatRace, NewRace, UserCall, BeginCall,
        MarkReady, UpdateCheck, DeleteCheck
<1>5. ASSUME NEW t \in Thread, InLocked(t) PROVE LapInHand'
  <2>1. CASE Preempt(t) \/ Check(t) \/ Write(t) \/ Snapshot(t)
    <3>1. lap' = lap
      BY <2>1 DEF Preempt, Check, Write, Snapshot
    <3>2. Return(t) \/ Goto(t, "check") \/ Goto(t, "write") \/ Goto(t, "snapshot")
      BY <2>1 DEF Preempt, Check, Write, Snapshot
    <3> QED BY <3>1, <3>2, GotoStage, ReturnStage
  <2>2. CASE Refuse(t) \/ RowGone(t)
    BY <2>2, <1>3 DEF Refuse, RowGone
  <2> QED BY <1>5, <2>1, <2>2 DEF InLocked
<1>6. ASSUME NEW t \in User, InUnlocked(t) PROVE LapInHand'
  BY <1>1, <1>6, Constants DEF InUnlocked, MarkReadyWrite, UpdateWrite, DeleteWrite, Unlink, Clear,
        ClearContext, Goto, Return
<1>7. CASE Recording
  <2>1. CASE Load \/ Register \/ LoadCheckpoint
    <3>1. lap \in Laps /\ call[Consumer].race \in Race
      BY <2>1, <1>0 DEF Load, Register, LoadCheckpoint, Made
    <3>2. ASSUME Load PROVE lap' \in Laps
      BY <3>1, <3>2 DEF Load, Laps
    <3>3. ASSUME LoadCheckpoint PROVE lap' \in Laps
      <4>1. checkpoint[call[Consumer].race][lap.car] \in Nat
        BY <3>1, <3>3 DEF LoadCheckpoint, Typed, TypeOK, Laps
      <4> QED BY <3>1, <3>3, <4>1 DEF LoadCheckpoint, Laps
    <3> QED BY <2>1, <3>1, <3>2, <3>3 DEF Register
  <2>2. CASE Drop \/ Duplicate
    BY <2>2, <1>3 DEF Drop, Duplicate
  <2>3. ASSUME NEW n, StoreLap(n), lap \in Laps PROVE LapInHand'
    BY <2>3 DEF StoreLap, Goto, Idle, Call
  <2>4. CASE FirstLap \/ CommitLap
    BY <2>4, <2>3, <1>3 DEF FirstLap, CommitLap
  <2>5. CASE OrphanClear \/ Rank
    <3>1. ASSUME Rank PROVE call'[Consumer].stage \in {"idle", "due"}
      BY <3>1 DEF Rank, Idle, Call, Made, Calls
    <3> QED BY <2>5, <3>1, ReturnStage DEF OrphanClear, ClearContext
  <2> QED BY <1>7, <2>1, <2>2, <2>4, <2>5 DEF Recording
<1>8. ASSUME NEW c \in Car, NEW cu \in CuTime, LapArrives(c, cu) PROVE LapInHand'
  BY <1>8 DEF LapArrives, Laps
<1>9. CASE TickerPoll \/ TickerJudge
  BY <1>1, <1>9, Constants DEF TickerPoll, TickerJudge
<1>10. ASSUME NEW t \in {Consumer, Ticker}, AutoFinish(t) PROVE LapInHand'
  BY <1>10, <1>1, <1>2, Constants DEF AutoFinish, BeginCall, Call
<1>11. CASE Booting
  BY <1>11 DEF Booting, BootList, RecoverNext, BeginCall, Idle, Call
<1>12. ASSUME NEW p \in Proc, Crash(p) PROVE LapInHand'
  BY <1>12, Constants DEF Crash, Boot, Call
<1>13. ASSUME NEW t \in Thread, DatabaseError(t) PROVE LapInHand'
  BY <1>13, <1>3 DEF DatabaseError
<1>14. CASE RecoveryFails
  BY <1>14, <1>2 DEF RecoveryFails, Idle, Call
<1>15. ASSUME NEW t \in Thread, RefreshFails(t) PROVE LapInHand'
  BY <1>15, ReturnStage DEF RefreshFails
<1> QED
  BY <1>4, <1>5, <1>6, <1>7, <1>8, <1>9, <1>10, <1>11, <1>12, <1>13, <1>14, <1>15 DEF Next

\* Only the commit of a lap adds to the laps, one number at a time.
LEMMA FiniteLapsNext == Typed /\ Next => FiniteLaps'
<1> SUFFICES ASSUME Typed, Next PROVE FiniteLaps'
  OBVIOUS
<1>1. FiniteLaps /\ laps \in [Race -> [Car -> SUBSET Nat]]
  BY DEF Typed, TypeOK
<1>2. CASE UNCHANGED laps
  BY <1>1, <1>2 DEF FiniteLaps
<1>3. ASSUME NEW n, StoreLap(n) PROVE FiniteLaps'
  <2> SUFFICES ASSUME NEW r \in Race, NEW c \in Car PROVE IsFiniteSet(laps'[r][c])
    BY DEF FiniteLaps
  <2>1. laps'[r][c] = laps[r][c] \/ laps'[r][c] = laps[r][c] \cup {n}
    BY <1>1, <1>3 DEF StoreLap
  <2>2. IsFiniteSet(laps[r][c])
    BY <1>1 DEF FiniteLaps
  <2>3. IsFiniteSet(laps[r][c] \cup {n})
    BY <2>2, FS_AddElement
  <2> QED BY <2>1, <2>2, <2>3
<1>4. ASSUME NEW t \in User, DeleteWrite(t) PROVE FiniteLaps'
  BY <1>1, <1>4, FS_EmptySet DEF DeleteWrite, FiniteLaps
<1> QED
  BY <1>2, <1>3, <1>4
     DEF Next, UserStarts, CreateRace, RepeatRace, NewRace, UserCall, MarkReady, UpdateCheck, DeleteCheck,
         InLocked, Preempt, Check, Refuse, Write, Commit, Snapshot, RowGone, GiveUp,
         InUnlocked, MarkReadyWrite, UpdateWrite, Unlink, Clear, ClearContext,
         Recording, Load, Drop, OrphanClear, Register, Duplicate, FirstLap, LoadCheckpoint, CommitLap, Rank,
         LapArrives, TickerPoll, TickerJudge, AutoFinish, Booting, BootList, RecoverNext, Crash,
         DatabaseError, RefreshFails, RecoveryFails, db, ledger

\* Every write is of the right type.  The calls are left to CallsMadeNext.
LEMMA TypeOKNext == Typed /\ Next => TypeOK'
<1> SUFFICES ASSUME Typed, Next PROVE TypeOK'
  OBVIOUS
<1>0. TypeOK /\ CallsMade /\ LapInHand
  BY DEF Typed
<1>1. call' \in [Thread -> Calls]
  BY CallsMadeNext DEF CallsMade, Made
<1>3. \A t \in Thread : /\ call[t].stage \notin {"idle", "booting"} => call[t].race \in Race
                        /\ call[t].stage \in LockedStage => call[t].method \in Locked
  BY DEF Typed, CallsMade, Made
<1>4. \A m \in Transition : NewStatus[m] \in Status
  BY DEF NewStatus, Status, Transition, ValidFrom
<1> USE <1>0, <1>1, <1>3, Constants DEF TypeOK, races, ledger, db, counters
<1>5. ASSUME NEW t \in Thread, GiveUp(t), {pending', stranded'} \subseteq SUBSET Race,
             UNCHANGED <<deleted, deletes>>, failures' \in Nat
      PROVE  TypeOK'
  BY <1>5 DEF GiveUp, Return, Unlock
<1>6. ASSUME NEW t \in Thread, NEW m, NEW r, BeginCall(t, m, r) PROVE lock' \in [Proc -> Thread \cup {None}]
  BY <1>6 DEF BeginCall
<1>7. ASSUME NEW t \in Thread, Return(t) PROVE lock' \in [Proc -> Thread \cup {None}]
  BY <1>7 DEF Return, Unlock
<1>19. ASSUME NEW m \in Transition, NEW r \in Race, Commit(m, r)
       PROVE  /\ status' \in [Race -> Status \cup {"absent"}]
              /\ {startedAt', finishedAt'} \subseteq SUBSET Race
  BY <1>19, <1>4 DEF Commit
<1>8. ASSUME NEW t \in User, UserStarts(t) PROVE TypeOK'
  <2>1. ASSUME NEW md \in Mode, NewRace(t, md) PROVE TypeOK'
    BY <2>1 DEF NewRace, InitialStatus, Status
  <2>2. CASE \E r \in Race, m \in Locked : UserCall(t, m, r)
    BY <2>2, <1>6 DEF UserCall
  <2>3. CASE \E r \in Race : MarkReady(t, r) \/ UpdateCheck(t, r)
    <3>1. UNCHANGED <<db, ctx, lock, lap, pending, counters>>
      BY <2>3 DEF MarkReady, UpdateCheck
    <3> QED BY <3>1
  <2>4. CASE \E r \in Race : DeleteCheck(t, r)
    <3>1. /\ UNCHANGED <<db, ctx, lock, lap, pending, deleted, stranded, failures>>
          /\ deletes' = deletes + 1
      BY <2>4 DEF DeleteCheck
    <3> QED BY <3>1
  <2> QED BY <1>8, <2>1, <2>2, <2>3, <2>4 DEF UserStarts, CreateRace, RepeatRace
<1>9. ASSUME NEW t \in Thread, InLocked(t) PROVE TypeOK'
  <2>1. CASE Preempt(t)
    BY <2>1, <1>4 DEF Preempt, Transition, ValidFrom
  <2>2. CASE Check(t)
    BY <2>2 DEF Check
  <2>3. CASE Refuse(t) \/ RowGone(t)
    <3>1. {pending', stranded'} \subseteq SUBSET Race
      BY <2>3 DEF Refuse, RowGone, EndRecovery
    <3> QED BY <2>3, <3>1, <1>5 DEF Refuse, RowGone
  <2>4. CASE Write(t)
    <3>1. call[t].race \in Race /\ call[t].method \in Transition
      BY <2>4 DEF Write, LockedStage, Locked
    <3>2. ctx' \in [Proc -> Race \cup {None}]
      BY <2>4, <3>1 DEF Write, Settle, Cleared
    <3>3. lock' \in [Proc -> Thread \cup {None}]
      BY <2>4, <1>7 DEF Write
    <3>4. /\ status' \in [Race -> Status \cup {"absent"}]
          /\ {startedAt', finishedAt'} \subseteq SUBSET Race
      BY <2>4, <3>1, <1>19 DEF Write
    <3> QED BY <2>4, <3>1, <3>2, <3>3, <3>4 DEF Write, Commit
  <2>5. CASE Snapshot(t)
    BY <2>5, <1>7 DEF Snapshot, Summary, LockedStage
  <2> QED BY <1>9, <2>1, <2>2, <2>3, <2>4, <2>5 DEF InLocked
<1>10. ASSUME NEW t \in User, InUnlocked(t) PROVE TypeOK'
  <2>1. CASE MarkReadyWrite(t)
    BY <2>1, <1>4, <1>7 DEF MarkReadyWrite, Transition, ValidFrom
  <2>2. CASE UpdateWrite(t)
    BY <2>2, <1>7 DEF UpdateWrite
  <2>3. CASE DeleteWrite(t)
    <3>1. call[t].race \in Race
      BY <2>3 DEF DeleteWrite
    <3>2. /\ status' \in [Race -> Status \cup {"absent"}]
          /\ laps' \in [Race -> [Car -> SUBSET Nat]]
          /\ checkpoint' \in [Race -> [Car -> Nat \cup {NoCheckpoint}]]
          /\ identity' \in [Race -> [Car -> SUBSET CuTime]]
          /\ report' \in [Race -> [Car -> SUBSET Nat] \cup {None}]
      BY <2>3, <3>1 DEF DeleteWrite
    <3> QED BY <2>3, <3>1, <3>2 DEF DeleteWrite
  <2>4. CASE Unlink(t)
    BY <2>4, <1>7 DEF Unlink
  <2>5. CASE Clear(t)
    BY <2>5, <1>7 DEF Clear, ClearContext, Cleared
  <2> QED BY <1>10, <2>1, <2>2, <2>3, <2>4, <2>5 DEF InUnlocked
<1>11. CASE Recording
  <2>1. call[Consumer].stage \in Recordings => lap \in Laps /\ call[Consumer].race \in Race
    BY DEF LapInHand, Recordings
  <2>2. lap' \in Laps \cup {None}
    <3>1. CASE Load \/ LoadCheckpoint
      <4>1. call'[Consumer].stage \in Recordings
        BY <3>1, GotoStage DEF Load, LoadCheckpoint, Recordings
      <4> QED BY <4>1, LapInHandNext DEF LapInHand
    <3>2. CASE Drop \/ Duplicate
      BY <3>2 DEF Drop, Duplicate, GiveUp
    <3>3. CASE OrphanClear \/ Rank
      BY <3>3 DEF OrphanClear, ClearContext, Rank
    <3>4. CASE Register
      BY <3>4 DEF Register
    <3>5. CASE FirstLap \/ CommitLap
      BY <3>5 DEF FirstLap, CommitLap, StoreLap, GiveUp
    <3> QED BY <1>11, <3>1, <3>2, <3>3, <3>4, <3>5 DEF Recording
  <2>3. CASE Load \/ LoadCheckpoint \/ Rank
    BY <2>2, <2>3 DEF Load, LoadCheckpoint, Rank
  <2>4. CASE Drop \/ Duplicate
    BY <2>4, <1>5 DEF Drop, Duplicate
  <2>5. CASE OrphanClear
    BY <2>2, <2>5, <1>7 DEF OrphanClear, ClearContext, Cleared
  <2>6. CASE Register
    BY <2>1, <2>2, <2>6 DEF Register, Recordings, Laps
  <2>7. ASSUME NEW n \in Nat, StoreLap(n), call[Consumer].stage \in Recordings, UNCHANGED <<pending, counters>>
        PROVE  TypeOK'
    BY <2>1, <2>2, <2>7 DEF StoreLap, Laps
  <2>8. CASE FirstLap
    <3>1. Seed(call[Consumer].race)[lap.car] + 1 \in Nat
      BY <2>1, <2>8, FS_CardinalityType DEF FirstLap, Seed, Recordings, Laps, Typed, FiniteLaps
    <3> QED BY <2>7, <2>8, <3>1 DEF FirstLap, Recordings
  <2>9. CASE CommitLap
    BY <2>1, <2>7, <2>9, <1>5 DEF CommitLap, Recordings, Laps
  <2> QED BY <1>11, <2>3, <2>4, <2>5, <2>6, <2>8, <2>9 DEF Recording
<1>12. ASSUME NEW c \in Car, NEW cu \in CuTime, LapArrives(c, cu) PROVE TypeOK'
  BY <1>12 DEF LapArrives, Laps
<1>13. CASE TickerPoll \/ TickerJudge
  <2>1. UNCHANGED <<db, ctx, lock, lap, pending, counters>>
    BY <1>13 DEF TickerPoll, TickerJudge
  <2> QED BY <2>1
<1>14. ASSUME NEW t \in {Consumer, Ticker}, AutoFinish(t) PROVE TypeOK'
  BY <1>14, <1>6 DEF AutoFinish
<1>15. CASE Booting
  <2>1. CASE BootList
    BY <2>1 DEF BootList
  <2>2. ASSUME NEW r \in Race, RecoverNext(r) PROVE TypeOK'
    <3>1. Seed(r) \in [Car -> Nat]
      BY FS_CardinalityType DEF Seed, Typed, FiniteLaps
    <3>2. checkpoint' \in [Race -> [Car -> Nat \cup {NoCheckpoint}]]
      BY <2>2, <3>1 DEF RecoverNext
    <3>3. ctx' \in [Proc -> Race \cup {None}] /\ lock' \in [Proc -> Thread \cup {None}]
      BY <2>2, <1>6 DEF RecoverNext
    <3> QED BY <2>2, <3>2, <3>3 DEF RecoverNext
  <2> QED BY <1>15, <2>1, <2>2 DEF Booting
<1>16. ASSUME NEW p \in Proc, Crash(p) PROVE TypeOK'
  BY <1>16 DEF Crash
<1>17. ASSUME NEW t \in Thread, DatabaseError(t) PROVE TypeOK'
  <2>1. {pending', stranded'} \subseteq SUBSET Race
    BY <1>17 DEF DatabaseError, EndRecovery
  <2>2. GiveUp(t) /\ UNCHANGED <<deleted, deletes>> /\ failures' \in Nat
    BY <1>17 DEF DatabaseError
  <2> QED BY <2>1, <2>2, <1>5
<1>18. CASE RecoveryFails
  <2>1. {pending', stranded'} \subseteq SUBSET Race
    BY <1>18 DEF RecoveryFails
  <2> QED BY <1>18, <2>1 DEF RecoveryFails
<1>20. ASSUME NEW t \in Thread, RefreshFails(t) PROVE TypeOK'
  <2>1. call[t].race \in Race /\ call[t].method \in Transition
    BY <1>20 DEF RefreshFails, LockedStage, Locked
  <2>2. {pending', stranded'} \subseteq SUBSET Race
    BY <1>20, <2>1 DEF RefreshFails
  <2>3. lock' \in [Proc -> Thread \cup {None}]
    BY <1>20, <1>7 DEF RefreshFails
  <2>4. /\ status' \in [Race -> Status \cup {"absent"}]
        /\ {startedAt', finishedAt'} \subseteq SUBSET Race
    BY <1>20, <2>1, <1>19 DEF RefreshFails
  <2> QED BY <1>20, <2>2, <2>3, <2>4 DEF RefreshFails, Commit
<1> QED
  BY <1>8, <1>9, <1>10, <1>11, <1>12, <1>13, <1>14, <1>15, <1>16, <1>17, <1>18, <1>20 DEF Next

\* The inductive invariant behind type correctness.
LEMMA TypedNext == Typed /\ [Next]_vars => Typed'
<1>1. CASE Next
  BY <1>1, CallsMadeNext, LapInHandNext, FiniteLapsNext, TypeOKNext DEF Typed
<1>2. CASE UNCHANGED vars
  BY <1>2 DEF Typed, TypeOK, CallsMade, LapInHand, FiniteLaps, vars, db, races, ledger, counters
<1> QED BY <1>1, <1>2

LEMMA AlwaysTyped == Spec => []Typed
BY TypedInit, TypedNext, PTL DEF Spec

\* Every variable of every reachable state has its type: no write puts a status
\* into a row that the status column does not have, and no lap, call or context
\* refers to something that is not a race.
THEOREM TypeCorrect == Spec => []TypeOK
BY AlwaysTyped, PTL DEF Typed
(***************************************************************************)
(* The lock.  Each step moves at most one thread, and either leaves the    *)
(* lock alone and stays on its side of it, or takes it, or returns; a      *)
(* crash takes all threads of a process out at once.                       *)
(***************************************************************************)

\* No thread crosses the border of the locked stages and no lock moves.
LEMMA LockStays ==
    ASSUME LockDiscipline, lock' = lock,
           \A t \in Thread : call'[t].stage \in LockedStage <=> call[t].stage \in LockedStage
    PROVE  LockDiscipline'
BY DEF LockDiscipline, ProcOf

\* A step of one thread between two unlocked or two locked stages.
LEMMA LockStaysFor ==
    ASSUME CallsMade, LockDiscipline, lock' = lock, NEW t \in Thread, NEW x,
           call' = [call EXCEPT ![t] = x],
           x.stage \in LockedStage <=> call[t].stage \in LockedStage
    PROVE  LockDiscipline'
<1>1. \A u \in Thread : call'[u].stage \in LockedStage <=> call[u].stage \in LockedStage
  BY DEF CallsMade
<1> QED BY <1>1, LockStays

\* A call that starts without the lock.
LEMMA LockAside ==
    ASSUME CallsMade, LockDiscipline, lock' = lock, NEW t \in Thread, call[t] = Idle,
           NEW s \in Stage \ LockedStage, NEW m, NEW r,
           call' = [call EXCEPT ![t] = Call(s, m, r, FALSE)]
    PROVE  LockDiscipline'
<1>1. Call(s, m, r, FALSE).stage = s /\ Idle.stage \notin LockedStage
  BY DEF Call, Idle, LockedStage
<1> QED BY <1>1, LockStaysFor

LEMMA LockStaysGoto ==
    ASSUME CallsMade, LockDiscipline, lock' = lock, NEW t \in Thread, NEW s, Goto(t, s),
           s \in LockedStage <=> call[t].stage \in LockedStage
    PROVE  LockDiscipline'
<1>1. \A u \in Thread : call'[u].stage \in LockedStage <=> call[u].stage \in LockedStage
  BY GotoStage
<1> QED BY <1>1, LockStays

LEMMA LockReturned ==
    ASSUME Typed, LockDiscipline, NEW t \in Thread, Return(t)
    PROVE  LockDiscipline'
<1> SUFFICES ASSUME NEW u \in Thread
             PROVE  call'[u].stage \in LockedStage <=> lock'[ProcOf(u)] = u
  BY DEF LockDiscipline, ProcOf
<1>1. ProcOf(t) \in Proc /\ ProcOf(u) \in Proc /\ lock \in [Proc -> Thread \cup {None}] /\ None # u
  BY Constants DEF Typed, TypeOK
<1>2. lock' = [lock EXCEPT ![ProcOf(t)] = IF @ = t THEN None ELSE @]
  BY DEF Return, Unlock
<1>3. call[u].stage \in LockedStage <=> lock[ProcOf(u)] = u
  BY DEF LockDiscipline
<1>4. CASE u = t
  BY <1>1, <1>2, <1>4, ReturnStage DEF Typed, LockedStage
<1>5. CASE u # t
  <2>1. call'[u] = call[u]
    BY <1>5, ReturnStage DEF Typed
  <2>2. lock'[ProcOf(u)] = u <=> lock[ProcOf(u)] = u
    BY <1>1, <1>2, <1>5
  <2> QED BY <1>3, <2>1, <2>2
<1> QED BY <1>4, <1>5

LEMMA LockTaken ==
    ASSUME Typed, LockDiscipline, NEW t \in Thread, NEW m, NEW r, BeginCall(t, m, r)
    PROVE  LockDiscipline'
<1> SUFFICES ASSUME NEW u \in Thread
             PROVE  call'[u].stage \in LockedStage <=> lock'[ProcOf(u)] = u
  BY DEF LockDiscipline, ProcOf
<1>1. /\ ProcOf(t) \in Proc /\ ProcOf(u) \in Proc /\ None # u
      /\ lock \in [Proc -> Thread \cup {None}] /\ call \in [Thread -> Calls]
  BY Constants DEF Typed, TypeOK
<1>2. lock[ProcOf(t)] = None /\ lock' = [lock EXCEPT ![ProcOf(t)] = t]
  BY DEF BeginCall, Free
<1>3. call[u].stage \in LockedStage <=> lock[ProcOf(u)] = u
  BY DEF LockDiscipline
<1>4. CASE u = t
  BY <1>1, <1>2, <1>4 DEF BeginCall, Call, LockedStage
<1>5. CASE u # t
  BY <1>1, <1>2, <1>3, <1>5 DEF BeginCall
<1> QED BY <1>4, <1>5

LEMMA LockNext == Typed /\ LockDiscipline /\ [Next]_vars => LockDiscipline'
<1> SUFFICES ASSUME Typed, LockDiscipline, [Next]_vars PROVE LockDiscipline'
  OBVIOUS
<1>0. CallsMade /\ call \in [Thread -> Calls]
  BY DEF Typed, TypeOK
<1> USE <1>0, Constants DEF LockedStage
<1>1. ASSUME NEW t \in Thread, GiveUp(t) PROVE LockDiscipline'
  BY <1>1, LockReturned DEF GiveUp
<1>2. CASE UNCHANGED vars
  BY <1>2, LockStays DEF vars
<1>3. ASSUME NEW t \in User, UserStarts(t) PROVE LockDiscipline'
  <2>1. ASSUME NEW md \in Mode, NewRace(t, md) PROVE LockDiscipline'
    BY <2>1, LockStays DEF NewRace
  <2>2. CASE \E r \in Race, m \in Locked : UserCall(t, m, r)
    BY <2>2, LockTaken DEF UserCall
  <2>3. ASSUME NEW r \in Race, MarkReady(t, r) \/ UpdateCheck(t, r) \/ DeleteCheck(t, r)
        PROVE  LockDiscipline'
    <3>1. \E s \in {"marking", "updating", "deleting"}, m \in Method :
             call' = [call EXCEPT ![t] = Call(s, m, r, FALSE)]
      BY <2>3 DEF MarkReady, UpdateCheck, DeleteCheck, Method, Transition, ValidFrom
    <3>2. call[t] = Idle /\ lock' = lock
      BY <2>3 DEF MarkReady, UpdateCheck, DeleteCheck, Ready
    <3> QED BY <3>1, <3>2, LockAside DEF Stage
  <2>4. ASSUME NEW r \in Race, RepeatRace(t, r) PROVE LockDiscipline'
    BY <2>1, <2>4 DEF RepeatRace, Typed, TypeOK
  <2>5. CASE CreateRace(t)
    BY <2>1, <2>5 DEF CreateRace
  <2> QED BY <1>3, <2>2, <2>3, <2>4, <2>5 DEF UserStarts
<1>4. ASSUME NEW t \in Thread, InLocked(t) PROVE LockDiscipline'
  <2>1. CASE Preempt(t) \/ Check(t)
    BY <2>1, LockStaysGoto DEF Preempt, Check
  <2>2. CASE Refuse(t) \/ RowGone(t)
    BY <2>2, <1>1 DEF Refuse, RowGone
  <2>3. CASE Write(t) \/ Snapshot(t)
    BY <2>3, LockStaysGoto, LockReturned DEF Write, Snapshot
  <2> QED BY <1>4, <2>1, <2>2, <2>3 DEF InLocked
<1>5. ASSUME NEW t \in User, InUnlocked(t) PROVE LockDiscipline'
  BY <1>5, LockStaysGoto, LockReturned
     DEF InUnlocked, MarkReadyWrite, UpdateWrite, DeleteWrite, Unlink, Clear, ClearContext
<1>6. CASE Recording
  <2>1. CASE Load \/ Register \/ LoadCheckpoint
    BY <2>1, LockStaysGoto DEF Load, Register, LoadCheckpoint
  <2>2. CASE Drop \/ Duplicate
    BY <2>2, <1>1 DEF Drop, Duplicate
  <2>3. CASE OrphanClear
    BY <2>3, LockReturned DEF OrphanClear, ClearContext
  <2>4. ASSUME NEW n, StoreLap(n), call[Consumer].stage \notin LockedStage PROVE LockDiscipline'
    BY <2>4, LockStaysGoto, LockStaysFor DEF StoreLap, Idle, Call
  <2>5. CASE FirstLap \/ CommitLap
    BY <2>4, <2>5, <1>1 DEF FirstLap, CommitLap
  <2>6. CASE Rank
    <3>1. \E x \in {Idle, [call[Consumer] EXCEPT !.stage = "due"]} : call' = [call EXCEPT ![Consumer] = x]
      BY <2>6 DEF Rank
    <3>2. [call[Consumer] EXCEPT !.stage = "due"].stage = "due"
      BY DEF Calls
    <3> QED BY <2>6, <3>1, <3>2, LockStaysFor DEF Rank, Idle, Call
  <2> QED BY <1>6, <2>1, <2>2, <2>3, <2>5, <2>6 DEF Recording
<1>7. ASSUME NEW c \in Car, NEW cu \in CuTime, LapArrives(c, cu) PROVE LockDiscipline'
  BY <1>7, LockAside DEF LapArrives, Ready, Stage
<1>8. CASE TickerPoll
  BY <1>8, LockAside DEF TickerPoll, Ready, Stage
<1>9. CASE TickerJudge
  <2>1. \E x \in {Idle, [call[Ticker] EXCEPT !.stage = "due"]} : call' = [call EXCEPT ![Ticker] = x]
    BY <1>9 DEF TickerJudge
  <2>2. [call[Ticker] EXCEPT !.stage = "due"].stage = "due"
    BY DEF Calls
  <2> QED BY <1>9, <2>1, <2>2, LockStaysFor DEF TickerJudge, Idle, Call
<1>10. ASSUME NEW t \in {Consumer, Ticker}, AutoFinish(t) PROVE LockDiscipline'
  BY <1>10, LockTaken DEF AutoFinish
<1>11. CASE Booting
  <2>1. CASE BootList
    BY <2>1, LockStaysFor DEF BootList, Idle, Call
  <2>2. ASSUME NEW r \in Race, RecoverNext(r) PROVE LockDiscipline'
    BY <2>2, LockStays, LockTaken DEF RecoverNext
  <2> QED BY <1>11, <2>1, <2>2 DEF Booting
<1>12. ASSUME NEW p \in Proc, Crash(p) PROVE LockDiscipline'
  <2> SUFFICES ASSUME NEW u \in Thread
               PROVE  call'[u].stage \in LockedStage <=> lock'[ProcOf(u)] = u
    BY DEF LockDiscipline, ProcOf
  <2>1. lock' = [lock EXCEPT ![p] = None] /\ lock \in [Proc -> Thread \cup {None}]
    BY <1>12 DEF Crash, Typed, TypeOK
  <2>2. call'[u] = IF ProcOf(u) # p THEN call[u] ELSE IF u = Consumer THEN Boot ELSE Idle
    BY <1>12 DEF Crash
  <2>3. call[u].stage \in LockedStage <=> lock[ProcOf(u)] = u
    BY DEF LockDiscipline
  <2>4. CASE ProcOf(u) = p
    BY <2>1, <2>2, <2>4 DEF Boot, Idle, Call
  <2>5. CASE ProcOf(u) # p
    BY <2>1, <2>2, <2>3, <2>5
  <2> QED BY <2>4, <2>5
<1>13. ASSUME NEW t \in Thread, DatabaseError(t) PROVE LockDiscipline'
  BY <1>13, <1>1 DEF DatabaseError
<1>14. CASE RecoveryFails
  BY <1>14, LockStaysFor DEF RecoveryFails, Idle, Call
<1>15. ASSUME NEW t \in Thread, RefreshFails(t) PROVE LockDiscipline'
  BY <1>15, LockReturned DEF RefreshFails
<1> QED
  BY <1>2, <1>3, <1>4, <1>5, <1>6, <1>7, <1>8, <1>9, <1>10, <1>11, <1>12, <1>13, <1>14, <1>15 DEF Next

\* Whatever the calls, the errors and the crashes, and however many users and
\* processes: a thread holds the lock of its process exactly while it is inside
\* a locked call, so no call leaks it and no two calls of a process overlap.
THEOREM LockSafe == Spec => []LockDiscipline
<1>1. Init => LockDiscipline
  BY Constants DEF Init, LockDiscipline, LockedStage, Boot, Idle, Call
<1>2. Typed /\ LockDiscipline /\ [Next]_vars => LockDiscipline'
  BY LockNext
<1> QED BY <1>1, <1>2, AlwaysTyped, PTL DEF Spec
=============================================================================
