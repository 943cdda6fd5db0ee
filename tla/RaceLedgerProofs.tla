-------------------------- MODULE RaceLedgerProofs --------------------------
(***************************************************************************)
(* Theorems about the rows of RaceService: the lap numbers and checkpoints *)
(* agree, the time stamps explain the status, and a crossing that was seen *)
(* is a lap unless a crash or an error came between.                       *)
(***************************************************************************)
EXTENDS RaceServiceProofs

(***************************************************************************)
(* The ledger.  LapLedger alone is not inductive: CommitLap writes a       *)
(* number computed in an earlier transaction, which must still be one past *)
(* the checkpoint.  It is, because the consumer is the only thread that    *)
(* writes laps, and recovery runs before it consumes any.                  *)
(***************************************************************************)
NumberFresh ==
    call[Consumer].stage = "numbered" /\ call[Consumer].race \notin deleted
    => /\ checkpoint[call[Consumer].race][lap.car] # NoCheckpoint
       /\ lap.number = checkpoint[call[Consumer].race][lap.car] + 1

LedgerInv == LapLedger /\ NumberFresh

\* A car with n numbers 1..n and one more.
LEMMA OneMore ==
    ASSUME NEW S \in SUBSET Nat, IsFiniteSet(S), S = 1 .. Cardinality(S)
    PROVE  /\ S \cup {Cardinality(S) + 1} = 1 .. (Cardinality(S) + 1)
           /\ Cardinality(S \cup {Cardinality(S) + 1}) = Cardinality(S) + 1
           /\ IsFiniteSet(S \cup {Cardinality(S) + 1})
           /\ S \cup {Cardinality(S) + 1} # {}
<1>1. Cardinality(S) \in Nat
  BY FS_CardinalityType
<1>2. S \cup {Cardinality(S) + 1} = 1 .. (Cardinality(S) + 1)
  BY <1>1
<1>3. Cardinality(S) + 1 \notin S
  BY <1>1
<1> QED BY <1>2, <1>3, FS_AddElement

\* The laps and checkpoints of races that a step does not write to.
LEMMA LedgerKept ==
    ASSUME Typed, LedgerInv, UNCHANGED <<laps, checkpoint>>, deleted \subseteq deleted'
    PROVE  LapLedger'
BY DEF LedgerInv, LapLedger, NumbersAgree

\* A step that writes no lap and no checkpoint and does not number the lap.
LEMMA LedgerAside ==
    ASSUME Typed, LedgerInv, UNCHANGED <<laps, checkpoint>>, deleted \subseteq deleted',
           call'[Consumer].stage # "numbered"
    PROVE  LedgerInv'
BY LedgerKept DEF LedgerInv, NumberFresh

\* A step of another thread that writes no lap and no checkpoint.
LEMMA LedgerOther ==
    ASSUME Typed, LedgerInv, UNCHANGED <<laps, checkpoint, lap>>, deleted \subseteq deleted',
           call'[Consumer] = call[Consumer]
    PROVE  LedgerInv'
BY LedgerKept DEF LedgerInv, NumberFresh

\* The transaction that stores the next number.
LEMMA LedgerStored ==
    ASSUME Typed, LedgerInv, UNCHANGED deleted,
           call[Consumer].stage \in {"registered", "numbered"},
           NEW n, StoreLap(n),
           call[Consumer].race \notin deleted
           => n = Cardinality(laps[call[Consumer].race][lap.car]) + 1
    PROVE  LedgerInv'
<1> DEFINE q == call[Consumer].race
           k == lap.car
<1>1. /\ laps \in [Race -> [Car -> SUBSET Nat]] /\ FiniteLaps
      /\ checkpoint \in [Race -> [Car -> Nat \cup {NoCheckpoint}]]
      /\ q \in Race /\ k \in Car /\ CallsMade
  BY Constants DEF Typed, TypeOK, CallsMade, Made, LapInHand, Recordings, Laps
<1>2. /\ laps' = [laps EXCEPT ![q][k] = @ \cup {n}]
      /\ checkpoint' = [checkpoint EXCEPT ![q][k] = n]
  BY DEF StoreLap
<1>3. ASSUME NEW r \in Race \ deleted, NEW c \in Car PROVE NumbersAgree(r, c)'
  <2>1. NumbersAgree(r, c)
    BY <1>3 DEF LedgerInv, LapLedger
  <2>2. CASE r = q /\ c = k
    <3>1. laps'[r][c] = laps[r][c] \cup {Cardinality(laps[r][c]) + 1}
      BY <1>1, <1>2, <1>3, <2>2
    <3>2. checkpoint'[r][c] = Cardinality(laps[r][c]) + 1
      BY <1>1, <1>2, <1>3, <2>2
    <3>3. laps[r][c] \in SUBSET Nat
      BY <1>1
    <3> QED BY <2>1, <3>1, <3>2, <3>3, OneMore DEF NumbersAgree
  <2>3. CASE ~(r = q /\ c = k)
    <3>1. laps'[r][c] = laps[r][c] /\ checkpoint'[r][c] = checkpoint[r][c]
      BY <1>1, <1>2, <2>3
    <3> QED BY <2>1, <3>1 DEF NumbersAgree
  <2> QED BY <2>2, <2>3
<1>4. call'[Consumer].stage \in {"ranking", "idle"}
  BY <1>1, GotoStage, Constants DEF StoreLap, Idle, Call, CallsMade
<1> QED BY <1>3, <1>4 DEF LedgerInv, LapLedger, NumberFresh

LEMMA LedgerNext == Typed /\ LedgerInv /\ [Next]_vars => LedgerInv'
<1> SUFFICES ASSUME Typed, LedgerInv, [Next]_vars PROVE LedgerInv'
  OBVIOUS
<1>0. CallsMade /\ call \in [Thread -> Made] /\ \A t \in User : t # Consumer /\ t \in Thread
  BY Constants DEF Typed, CallsMade
<1> USE <1>0, Constants DEF db, ledger, races, counters
<1>1. CASE UNCHANGED vars
  BY <1>1, LedgerOther DEF vars
\* The consumer is at most told to give up.
<1>2. ASSUME NEW t \in Thread, GiveUp(t), UNCHANGED deleted PROVE LedgerInv'
  BY <1>2, LedgerAside, LedgerOther, ReturnStage DEF GiveUp
<1>3. ASSUME NEW t \in User, UserStarts(t) PROVE LedgerInv'
  <2>1. /\ call'[Consumer] = call[Consumer]
        /\ UNCHANGED <<laps, checkpoint, lap, deleted>>
    BY <1>3 DEF UserStarts, CreateRace, RepeatRace, NewRace, UserCall, BeginCall,
                MarkReady, UpdateCheck, DeleteCheck
  <2> QED BY <2>1, LedgerOther
<1>4. ASSUME NEW t \in Thread, InLocked(t) PROVE LedgerInv'
  <2>1. CASE Refuse(t) \/ RowGone(t)
    BY <2>1, <1>2 DEF Refuse, RowGone
  <2>2. CASE Preempt(t) \/ Check(t) \/ Write(t) \/ Snapshot(t)
    <3>1. UNCHANGED <<laps, checkpoint, lap, deleted>>
      BY <2>2 DEF Preempt, Check, Write, Commit, Snapshot
    <3>2. Return(t) \/ Goto(t, "check") \/ Goto(t, "write") \/ Goto(t, "snapshot")
      BY <2>2 DEF Preempt, Check, Write, Commit, Snapshot
    <3>3. call'[Consumer] = call[Consumer] \/ call'[Consumer].stage # "numbered"
      BY <3>2, GotoStage, ReturnStage
    <3> QED BY <3>1, <3>3, LedgerAside, LedgerOther
  <2> QED BY <1>4, <2>1, <2>2 DEF InLocked
<1>5. ASSUME NEW t \in User, InUnlocked(t) PROVE LedgerInv'
  <2>1. call'[Consumer] = call[Consumer] /\ lap' = lap
    BY <1>5 DEF InUnlocked, MarkReadyWrite, UpdateWrite, DeleteWrite, Unlink, Clear, ClearContext,
                Goto, Return
  <2>2. CASE DeleteWrite(t)
    <3>1. /\ deleted' = deleted \cup {call[t].race}
          /\ laps' = [laps EXCEPT ![call[t].race] = [c \in Car |-> {}]]
          /\ checkpoint' = [checkpoint EXCEPT ![call[t].race] = [c \in Car |-> NoCheckpoint]]
      BY <2>2 DEF DeleteWrite
    <3>2. \A r \in Race \ deleted' : laps'[r] = laps[r] /\ checkpoint'[r] = checkpoint[r]
      BY <3>1 DEF Typed, TypeOK
    <3>3. LapLedger'
      BY <3>1, <3>2 DEF LedgerInv, LapLedger, NumbersAgree
    <3>4. call[Consumer].stage = "numbered" => call[Consumer].race \in Race
      BY DEF Made
    <3>5. NumberFresh'
      BY <2>1, <3>1, <3>2, <3>4 DEF LedgerInv, NumberFresh
    <3> QED BY <3>3, <3>5 DEF LedgerInv
  <2>3. CASE ~DeleteWrite(t)
    BY <1>5, <2>1, <2>3, LedgerOther
       DEF InUnlocked, MarkReadyWrite, UpdateWrite, Unlink, Clear, ClearContext
  <2> QED BY <2>2, <2>3
<1>6. CASE Recording
  <2> DEFINE q == call[Consumer].race
             k == lap.car
  <2>1. CASE Drop \/ Duplicate
    BY <2>1, <1>2 DEF Drop, Duplicate
  <2>2. CASE Load \/ Register \/ OrphanClear \/ Rank
    <3>1. call'[Consumer].stage \in {"loaded", "orphaned", "registered", "idle", "due"}
      BY <2>2, GotoStage, ReturnStage DEF Load, Register, OrphanClear, ClearContext, Rank, Idle, Call, Made, Calls
    <3>2. UNCHANGED <<laps, checkpoint, deleted>>
      BY <2>2 DEF Load, Register, OrphanClear, ClearContext, Rank
    <3> QED BY <3>1, <3>2, LedgerAside
  <2>3. call[Consumer].stage \in {"registered", "numbered"} => q \in Race /\ k \in Car /\ lap \in Laps
    BY DEF Made, Typed, LapInHand, Recordings, Laps
  <2>4. CASE FirstLap
    <3>1. q \notin deleted => laps[q][k] = {}
      <4> SUFFICES ASSUME q \notin deleted PROVE laps[q][k] = {}
        OBVIOUS
      <4>1. NumbersAgree(q, k)
        BY <2>3, <2>4 DEF FirstLap, LedgerInv, LapLedger
      <4>2. Cardinality(laps[q][k]) \in Nat /\ checkpoint[q][k] = NoCheckpoint
        BY <2>4, <4>1, FS_CardinalityType DEF FirstLap, NumbersAgree
      <4> QED BY <4>1, <4>2 DEF NumbersAgree
    <3>2. Seed(q)[k] = Cardinality(laps[q][k])
      BY <2>3, <2>4 DEF FirstLap, Seed
    <3> QED BY <2>4, <3>2, LedgerStored DEF FirstLap
  <2>5. CASE LoadCheckpoint
    <3>1. UNCHANGED <<laps, checkpoint, deleted>> /\ lap' = [lap EXCEPT !.number = checkpoint[q][k] + 1]
      BY <2>5 DEF LoadCheckpoint
    <3>2. call'[Consumer].race = q /\ lap'.car = k /\ lap'.number = checkpoint[q][k] + 1
      BY <2>3, <2>5, <3>1, GotoStage DEF LoadCheckpoint, Laps
    <3>3. NumberFresh'
      BY <2>5, <3>1, <3>2 DEF LoadCheckpoint, NumberFresh
    <3> QED BY <3>1, <3>3, LedgerKept DEF LedgerInv
  <2>6. CASE CommitLap
    <3>1. ASSUME q \notin deleted PROVE lap.number = Cardinality(laps[q][k]) + 1
      <4>1. NumbersAgree(q, k)
        BY <2>3, <2>6, <3>1 DEF CommitLap, LedgerInv, LapLedger
      <4> QED BY <2>6, <3>1, <4>1 DEF CommitLap, LedgerInv, NumberFresh, NumbersAgree
    <3> QED BY <2>6, <3>1, <1>2, LedgerStored DEF CommitLap
  <2> QED BY <1>6, <2>1, <2>2, <2>4, <2>5, <2>6 DEF Recording
<1>7. ASSUME NEW c \in Car, NEW cu \in CuTime, LapArrives(c, cu) PROVE LedgerInv'
  BY <1>7, LedgerAside DEF LapArrives, Call
<1>8. CASE TickerPoll \/ TickerJudge
  <2>1. call'[Consumer] = call[Consumer] /\ UNCHANGED <<laps, checkpoint, lap, deleted>>
    BY <1>8 DEF TickerPoll, TickerJudge
  <2> QED BY <2>1, LedgerOther
<1>9. ASSUME NEW t \in {Consumer, Ticker}, AutoFinish(t) PROVE LedgerInv'
  <2>1. call'[Consumer] = call[Consumer] \/ call'[Consumer].stage # "numbered"
    BY <1>9 DEF AutoFinish, BeginCall, Call
  <2>2. UNCHANGED <<laps, checkpoint, lap, deleted>>
    BY <1>9 DEF AutoFinish
  <2> QED BY <2>1, <2>2, LedgerAside, LedgerOther
<1>10. CASE BootList
  BY <1>10, LedgerAside DEF BootList, Idle, Call
<1>11. ASSUME NEW q \in Race, RecoverNext(q) PROVE LedgerInv'
  <2>1. UNCHANGED <<laps, deleted>> /\ call'[Consumer].stage # "numbered"
    BY <1>11 DEF RecoverNext, BeginCall, Idle, Call
  <2>2. ASSUME NEW r \in Race \ deleted, NEW c \in Car PROVE NumbersAgree(r, c)'
    <3>1. NumbersAgree(r, c)
      BY <2>2 DEF LedgerInv, LapLedger
    <3>2. checkpoint'[r][c] \in {checkpoint[r][c], Cardinality(laps[r][c])}
      BY <1>11 DEF RecoverNext, Seed, Typed, TypeOK
    <3>3. Cardinality(laps[r][c]) # NoCheckpoint
      BY <3>1, FS_CardinalityType DEF NumbersAgree
    <3> QED BY <2>1, <3>1, <3>2, <3>3 DEF NumbersAgree
  <2> QED BY <2>1, <2>2 DEF LedgerInv, LapLedger, NumberFresh
<1>12. ASSUME NEW p \in Proc, Crash(p) PROVE LedgerInv'
  <2>1. CASE p = Pipeline
    BY <1>12, <2>1, LedgerAside DEF Crash, Boot, Call
  <2>2. CASE p # Pipeline
    BY <1>12, <2>2, LedgerOther DEF Crash
  <2> QED BY <2>1, <2>2
<1>13. ASSUME NEW t \in Thread, DatabaseError(t) PROVE LedgerInv'
  BY <1>13, <1>2 DEF DatabaseError
<1>14. CASE RecoveryFails
  BY <1>14, LedgerAside DEF RecoveryFails, Idle, Call
<1>15. ASSUME NEW t \in Thread, RefreshFails(t) PROVE LedgerInv'
  BY <1>15, LedgerAside, LedgerOther, ReturnStage DEF RefreshFails, Commit
<1> QED
  BY <1>1, <1>3, <1>4, <1>5, <1>6, <1>7, <1>8, <1>9, <1>10, <1>11, <1>12, <1>13, <1>14, <1>15
     DEF Next, Booting

LEMMA AlwaysLedger == Spec => []LedgerInv
<1>1. Init => LedgerInv
  BY FS_EmptySet, Constants DEF Init, LedgerInv, LapLedger, NumbersAgree, NumberFresh, Boot, Call
<1> QED BY <1>1, LedgerNext, AlwaysTyped, PTL DEF Spec

\* The lap numbers of every car are 1..n and its checkpoint is n or missing with
\* no lap: through any sequence of laps, crashes, refused writes and recoveries.
THEOREM LedgerSafe == Spec => []LapLedger
BY AlwaysLedger, PTL DEF LedgerInv

(***************************************************************************)
(* The time stamps.  A call writes a status it decided on a step earlier,  *)
(* so the reason must be carried along: whatever a call is about to pause, *)
(* resume, finish or record a lap for, and whatever a context or the list  *)
(* of recovery names, was started once (or its id was deleted since).      *)
(***************************************************************************)
Begun == startedAt \cup deleted

NeedsStart == {"pause_race", "resume_race", "finish_race"}
NeedsLaps  == {"loaded", "registered", "numbered"}

StampsInv ==
    /\ StampsExplainStatus
    /\ \A r \in startedAt \ deleted : Exists(r)
    /\ \A p \in Proc : ctx[p] # None => ctx[p] \in Begun
    /\ pending \subseteq Begun
    /\ \A t \in Thread : call[t].stage = "write" /\ call[t].method \in NeedsStart
                         => call[t].race \in Begun
    /\ call[Consumer].stage \in NeedsLaps => call[Consumer].race \in Begun

\* The rows as a step leaves them when it writes none of them.
LEMMA RowsKept ==
    ASSUME StampsInv, UNCHANGED <<status, startedAt, finishedAt, laps, deleted>>
    PROVE  /\ StampsExplainStatus' /\ Begun' = Begun
           /\ \A r \in startedAt' \ deleted' : Exists(r)'
BY DEF StampsInv, StampsExplainStatus, Begun, Exists, Ran

\* A step that writes no row, and puts nothing new in the contexts and the list.
LEMMA StampsAside ==
    ASSUME StampsInv, UNCHANGED <<status, startedAt, finishedAt, laps, deleted>>,
           \A p \in Proc : ctx'[p] # None => ctx'[p] \in Begun,
           pending' \subseteq Begun,
           \A t \in Thread :
              \/ call'[t] = call[t]
              \/ call'[t].stage \notin NeedsLaps \cup {"write"}
    PROVE  StampsInv'
<1>1. Consumer \in Thread
  BY Constants
<1> QED BY <1>1, RowsKept DEF StampsInv

\* The transaction of a lifecycle call, whatever it does to the context.
LEMMA StampsCommitted ==
    ASSUME Typed, StampsInv, NEW m \in Locked, NEW r \in Race, Commit(m, r),
           m \in NeedsStart => r \in Begun,
           deleted' = deleted, pending' \subseteq pending,
           \A p \in Proc : \/ ctx'[p] \in {ctx[p], None}
                           \/ m \in Activating /\ ctx'[p] = r,
           \A u \in Thread : call'[u] = call[u] \/ call'[u].stage \notin NeedsLaps \cup {"write"}
    PROVE  StampsInv'
<1>1. /\ status \in [Race -> Status \cup {"absent"}] /\ startedAt \subseteq Race
      /\ Consumer \in Thread
  BY Constants DEF Typed, TypeOK
<1>2. /\ status' = [status EXCEPT ![r] = NewStatus[m]]
      /\ startedAt' = IF m = "start_race" THEN startedAt \cup {r} ELSE startedAt
      /\ finishedAt' = IF m \in Ending THEN finishedAt \cup {r} ELSE finishedAt
      /\ laps' = laps /\ Exists(r)
  BY DEF Commit, ledger
<1>3. /\ NewStatus[m] # "absent"
      /\ NewStatus[m] \in {"running", "paused", "finished"} => m \in NeedsStart \cup {"start_race"}
      /\ NewStatus[m] \in Terminal => m \in Ending
      /\ m \in Activating => m \in NeedsStart \cup {"start_race"}
  BY DEF Locked, Transition, ValidFrom, NewStatus, NeedsStart, Terminal, Ending, Activating
<1>4. Begun \subseteq Begun' /\ (m \in NeedsStart \cup {"start_race"} => r \in Begun')
  BY <1>2 DEF Begun
<1>5. StampsExplainStatus'
  <2> SUFFICES ASSUME NEW q \in Race \ deleted'
               PROVE  /\ status'[q] \in {"running", "paused", "finished"} \/ Ran(q)' => q \in startedAt'
                      /\ status'[q] \in Terminal => q \in finishedAt'
    BY DEF StampsExplainStatus
  <2>1. Ran(q)' = Ran(q) /\ (Ran(q) => q \in startedAt)
    BY <1>2 DEF StampsInv, StampsExplainStatus, Ran
  <2>2. CASE q = r
    <3>1. status'[q] = NewStatus[m]
      BY <1>1, <1>2, <2>2
    <3> QED BY <1>2, <1>3, <1>4, <2>1, <2>2, <3>1 DEF Begun
  <2>3. CASE q # r
    <3>1. status'[q] = status[q] /\ startedAt \subseteq startedAt' /\ finishedAt \subseteq finishedAt'
      BY <1>1, <1>2, <2>3
    <3> QED BY <1>2, <2>1, <3>1 DEF StampsInv, StampsExplainStatus
  <2> QED BY <2>2, <2>3
<1>6. \A q \in startedAt' \ deleted' : Exists(q)'
  BY <1>1, <1>2, <1>3 DEF StampsInv, Exists
<1>7. \A p \in Proc : ctx'[p] # None => ctx'[p] \in Begun'
  BY <1>3, <1>4 DEF StampsInv
<1> QED BY <1>1, <1>4, <1>5, <1>6, <1>7 DEF StampsInv

LEMMA StampsNext == Typed /\ StampsInv /\ [Next]_vars => StampsInv'
<1> SUFFICES ASSUME Typed, StampsInv, [Next]_vars PROVE StampsInv'
  OBVIOUS
<1>0. /\ CallsMade /\ call \in [Thread -> Made]
      /\ \A t \in User : t # Consumer /\ t \in Thread
      /\ status \in [Race -> Status \cup {"absent"}] /\ ctx \in [Proc -> Race \cup {None}]
      /\ startedAt \subseteq Race /\ finishedAt \subseteq Race /\ pending \subseteq Race
      /\ laps \in [Race -> [Car -> SUBSET Nat]]
  BY Constants DEF Typed, TypeOK, CallsMade
<1>h. /\ \A p \in Proc : ctx[p] # None => ctx[p] \in Begun
      /\ pending \subseteq Begun
  BY DEF StampsInv
<1> USE <1>0, <1>h, Constants DEF db, ledger, races, counters
<1>1. CASE UNCHANGED vars
  BY <1>1, StampsAside DEF vars
<1>2. ASSUME NEW t \in Thread, GiveUp(t), UNCHANGED deleted, pending' \in {pending, {}}
      PROVE  StampsInv'
  BY <1>2, StampsAside, ReturnStage DEF GiveUp, NeedsLaps
<1>3. ASSUME NEW t \in User, UserStarts(t) PROVE StampsInv'
  <2>1. ASSUME NEW md, NewRace(t, md) PROVE StampsInv'
    <3>1. PICK r \in Race : /\ ~Exists(r) /\ status' = [status EXCEPT ![r] = "draft"]
                            /\ startedAt' = startedAt \ {r} /\ finishedAt' = finishedAt \ {r}
      BY <2>1 DEF NewRace, NextId, InitialStatus
    <3>2. UNCHANGED <<laps, ctx, pending, call, deleted>>
      BY <2>1 DEF NewRace
    <3>3. Begun' = Begun /\ (r \in startedAt => r \in deleted)
      BY <3>1, <3>2 DEF Begun, StampsInv
    <3>4. StampsExplainStatus'
      BY <3>1, <3>2, <3>3 DEF StampsInv, StampsExplainStatus, Ran, Terminal
    <3>5. \A q \in startedAt' \ deleted' : Exists(q)'
      BY <3>1, <3>2 DEF StampsInv, Exists
    <3> QED BY <3>2, <3>3, <3>4, <3>5 DEF StampsInv
  <2>2. CASE \E r \in Race, m \in Locked : UserCall(t, m, r)
    <3>1. UNCHANGED <<status, startedAt, finishedAt, laps, deleted, ctx, pending>>
      BY <2>2 DEF UserCall
    <3>2. call'[t].stage \in {"preempt", "check"} /\ \A u \in Thread \ {t} : call'[u] = call[u]
      BY <2>2 DEF UserCall, BeginCall, Call
    <3> QED BY <3>1, <3>2, StampsAside DEF NeedsLaps
  <2>3. CASE \E r \in Race : MarkReady(t, r) \/ UpdateCheck(t, r) \/ DeleteCheck(t, r)
    <3>1. UNCHANGED <<status, startedAt, finishedAt, laps, deleted, ctx, pending>>
      BY <2>3 DEF MarkReady, UpdateCheck, DeleteCheck
    <3>2. /\ call'[t].stage \in {"marking", "updating", "deleting"}
          /\ \A u \in Thread \ {t} : call'[u] = call[u]
      BY <2>3 DEF MarkReady, UpdateCheck, DeleteCheck, Call
    <3> QED BY <3>1, <3>2, StampsAside DEF NeedsLaps
  <2> QED BY <1>3, <2>1, <2>2, <2>3 DEF UserStarts, CreateRace, RepeatRace
<1>4. ASSUME NEW t \in Thread, InLocked(t) PROVE StampsInv'
  <2>0. call[t].stage \in LockedStage => call[t].race \in Race /\ call[t].method \in Locked
    BY DEF Made, LockedStage
  <2>1. CASE Preempt(t)
    <3> DEFINE other == ctx[ProcOf(t)]
    <3>1. /\ status' = [status EXCEPT ![other] = "paused"] /\ Goto(t, "check") /\ Exists(other)
          /\ UNCHANGED <<startedAt, finishedAt, laps, deleted, ctx, pending>>
      BY <2>1 DEF Preempt, NewStatus
    <3>2. CASE other = None
      <4>1. status' = status
        BY <3>1, <3>2
      <4>2. \A u \in Thread : call'[u] = call[u] \/ call'[u].stage = "check"
        BY <3>1, GotoStage
      <4> QED BY <3>1, <4>1, <4>2, StampsAside DEF NeedsLaps
    <3>3. CASE other # None
      <4>1. other \in Begun /\ other \in Race
        BY <3>3
      <4>2. StampsExplainStatus'
        BY <3>1, <4>1 DEF StampsInv, StampsExplainStatus, Ran, Terminal, Begun
      <4>3. Begun' = Begun /\ \A q \in startedAt' \ deleted' : Exists(q)'
        BY <3>1 DEF StampsInv, Exists, Begun
      <4>4. \A u \in Thread : call'[u] = call[u] \/ call'[u].stage = "check"
        BY <3>1, GotoStage
      <4> QED BY <3>1, <4>2, <4>3, <4>4 DEF StampsInv, NeedsLaps
    <3> QED BY <3>2, <3>3
  <2>2. CASE Check(t)
    <3>1. /\ UNCHANGED <<status, startedAt, finishedAt, laps, deleted, ctx, pending>>
          /\ status[call[t].race] \in ValidFrom[call[t].method] /\ Goto(t, "write")
      BY <2>2 DEF Check
    <3>2. call[t].method \in NeedsStart => call[t].race \in Begun
      BY <2>0, <2>2, <3>1
         DEF Check, ValidFrom, NeedsStart, StampsInv, StampsExplainStatus, Begun, LockedStage
    <3>3. \A u \in Thread : call'[u].stage = "write" /\ call'[u].method \in NeedsStart => call'[u].race \in Begun
      BY <3>1, <3>2, GotoStage DEF StampsInv
    <3>4. call'[Consumer].stage \in NeedsLaps => call'[Consumer].race \in Begun
      BY <3>1, GotoStage DEF StampsInv, NeedsLaps
    <3> QED BY <3>1, <3>3, <3>4, RowsKept DEF StampsInv
  <2>3. CASE Refuse(t) \/ RowGone(t)
    BY <2>3, <1>2 DEF Refuse, RowGone, EndRecovery
  <2>4. CASE Write(t)
    <3>1. /\ call[t].race \in Race /\ call[t].method \in Locked
          /\ call[t].method \in NeedsStart => call[t].race \in Begun
      BY <2>0, <2>4 DEF Write, LockedStage, StampsInv
    <3>2. /\ UNCHANGED <<deleted, pending>> /\ Commit(call[t].method, call[t].race)
          /\ Settle(t, call[t].method, call[t].race) /\ (Return(t) \/ Goto(t, "snapshot"))
      BY <2>4 DEF Write
    <3>3. \A u \in Thread : call'[u] = call[u] \/ call'[u].stage \in {"snapshot", "idle"}
      BY <3>2, GotoStage, ReturnStage
    <3>5. \A p \in Proc : \/ ctx'[p] \in {ctx[p], None}
                          \/ call[t].method \in Activating /\ ctx'[p] = call[t].race
      <4>1. ctx' = [ctx EXCEPT ![ProcOf(t)] = IF call[t].method \in Activating THEN call[t].race
                                              ELSE IF @ = call[t].race THEN None ELSE @]
        BY <3>2 DEF Settle, Cleared
      <4> QED BY <4>1
    <3> QED BY <3>1, <3>2, <3>3, <3>5, StampsCommitted DEF NeedsLaps
  <2>5. CASE Snapshot(t)
    BY <2>5, StampsAside, ReturnStage DEF Snapshot, NeedsLaps
  <2> QED BY <1>4, <2>1, <2>2, <2>3, <2>4, <2>5 DEF InLocked
<1>5. ASSUME NEW t \in User, InUnlocked(t) PROVE StampsInv'
  <2>0. \A u \in Thread : call'[u] = call[u] \/ call'[u].stage \in {"idle", "unlinking", "clearing"}
    BY <1>5, GotoStage, ReturnStage
       DEF InUnlocked, MarkReadyWrite, UpdateWrite, DeleteWrite, Unlink, Clear, ClearContext
  <2>1. CASE MarkReadyWrite(t)
    <3>1. /\ status' = [status EXCEPT ![call[t].race] = "ready"] /\ Exists(call[t].race)
          /\ UNCHANGED <<startedAt, finishedAt, laps, deleted, ctx, pending>>
      BY <2>1 DEF MarkReadyWrite, NewStatus
    <3>2. StampsExplainStatus'
      BY <3>1 DEF StampsInv, StampsExplainStatus, Ran, Terminal
    <3>3. Begun' = Begun /\ \A q \in startedAt' \ deleted' : Exists(q)'
      BY <3>1 DEF StampsInv, Exists, Begun
    <3> QED BY <2>0, <3>1, <3>2, <3>3 DEF StampsInv, NeedsLaps
  <2>2. CASE DeleteWrite(t)
    <3> DEFINE r == call[t].race
    <3>1. /\ status' = [status EXCEPT ![r] = "absent"] /\ deleted' = deleted \cup {r}
          /\ laps' = [laps EXCEPT ![r] = [c \in Car |-> {}]]
          /\ UNCHANGED <<startedAt, finishedAt, ctx, pending>>
      BY <2>2 DEF DeleteWrite
    <3>2. Begun \subseteq Begun'
      BY <3>1 DEF Begun
    <3>3. StampsExplainStatus'
      BY <3>1 DEF StampsInv, StampsExplainStatus, Ran
    <3>4. \A q \in startedAt' \ deleted' : Exists(q)'
      BY <3>1 DEF StampsInv, Exists
    <3> QED BY <2>0, <3>1, <3>2, <3>3, <3>4 DEF StampsInv, NeedsLaps
  <2>3. CASE UpdateWrite(t) \/ Unlink(t) \/ Clear(t)
    <3>1. /\ UNCHANGED <<status, startedAt, finishedAt, laps, deleted, pending>>
          /\ \A p \in Proc : ctx'[p] \in {ctx[p], None}
      BY <2>3 DEF UpdateWrite, Unlink, Clear, ClearContext, Cleared
    <3> QED BY <2>0, <3>1, StampsAside DEF NeedsLaps
  <2> QED BY <1>5, <2>1, <2>2, <2>3 DEF InUnlocked
<1>6. CASE Recording
  <2> DEFINE q == call[Consumer].race
  <2>1. CASE Drop \/ Duplicate
    BY <2>1, <1>2 DEF Drop, Duplicate
  <2>2. CASE OrphanClear \/ Rank
    <3>1. /\ UNCHANGED <<status, startedAt, finishedAt, laps, deleted, pending>>
          /\ \A p \in Proc : ctx'[p] \in {ctx[p], None}
      BY <2>2 DEF OrphanClear, ClearContext, Cleared, Rank
    <3>2. \A u \in Thread : call'[u] = call[u] \/ call'[u].stage \in {"idle", "due"}
      BY <2>2, ReturnStage DEF OrphanClear, ClearContext, Rank, Idle, Call, Made, Calls
    <3> QED BY <3>1, <3>2, StampsAside DEF NeedsLaps
  <2>3. CASE Load \/ Register \/ LoadCheckpoint
    <3>1. UNCHANGED <<status, startedAt, finishedAt, laps, deleted, ctx, pending>>
      BY <2>3 DEF Load, Register, LoadCheckpoint
    <3>2. \A u \in Thread :
             \/ call'[u] = call[u]
             \/ /\ u = Consumer
                /\ call'[u].stage # "write" /\ call'[u].race = q
      <4>1. PICK s \in NeedsLaps \cup {"orphaned"} : Goto(Consumer, s)
        BY <2>3 DEF Load, Register, LoadCheckpoint, NeedsLaps
      <4>2. call'[Consumer].stage = s /\ call'[Consumer].race = q
        BY <4>1, GotoStage
      <4>3. \A u \in Thread \ {Consumer} : call'[u] = call[u]
        BY <4>1, GotoStage
      <4> QED BY <4>2, <4>3 DEF NeedsLaps
    <3>3. CASE Load
      <4>1. q \in Race /\ (Exists(q) => q \in Begun)
        BY <3>3 DEF Load, Made, Exists, StampsInv, StampsExplainStatus, Begun
      <4>2. call'[Consumer].stage \in NeedsLaps => Exists(q)
        BY <3>3, GotoStage DEF Load, NeedsLaps
      <4> QED BY <3>1, <3>2, <4>1, <4>2, RowsKept DEF StampsInv
    <3>4. CASE Register \/ LoadCheckpoint
      <4>1. q \in Begun
        BY <3>4 DEF Register, LoadCheckpoint, StampsInv, NeedsLaps
      <4> QED BY <3>1, <3>2, <4>1, RowsKept DEF StampsInv
    <3> QED BY <2>3, <3>3, <3>4
  <2>4. ASSUME NEW n, StoreLap(n), UNCHANGED <<pending, deleted>>, call[Consumer].stage \in NeedsLaps
        PROVE  StampsInv'
    <3>1. /\ UNCHANGED <<status, startedAt, finishedAt, ctx, pending, deleted>>
          /\ laps' = [laps EXCEPT ![q][lap.car] = @ \cup {n}]
      BY <2>4 DEF StoreLap
    <3>2. q \in Race /\ q \in Begun
      BY <2>4 DEF Made, NeedsLaps, StampsInv
    <3>3. StampsExplainStatus'
      <4>1. \A r \in Race \ {q} : Ran(r)' = Ran(r)
        BY <3>1, <3>2 DEF Ran
      <4> QED BY <3>1, <3>2, <4>1 DEF StampsInv, StampsExplainStatus, Begun
    <3>4. Begun' = Begun /\ \A r \in startedAt' \ deleted' : Exists(r)'
      BY <3>1 DEF StampsInv, Exists, Begun
    <3>5. \A u \in Thread : call'[u] = call[u] \/ call'[u].stage \in {"idle", "ranking"}
      BY <2>4, GotoStage DEF StoreLap, Idle, Call
    <3> QED BY <3>1, <3>3, <3>4, <3>5 DEF StampsInv, NeedsLaps
  <2>5. CASE FirstLap \/ CommitLap
    BY <2>4, <2>5, <1>2 DEF FirstLap, CommitLap, NeedsLaps
  <2> QED BY <1>6, <2>1, <2>2, <2>3, <2>5 DEF Recording
<1>7. ASSUME NEW c \in Car, NEW cu \in CuTime, LapArrives(c, cu) PROVE StampsInv'
  BY <1>7, StampsAside DEF LapArrives, Call, NeedsLaps
<1>8. CASE TickerPoll \/ TickerJudge
  <2>1. \A u \in Thread : call'[u] = call[u] \/ call'[u].stage \in {"polled", "due", "idle"}
    BY <1>8 DEF TickerPoll, TickerJudge, Idle, Call, Made, Calls
  <2>2. UNCHANGED <<db, ctx, pending, counters>>
    BY <1>8 DEF TickerPoll, TickerJudge
  <2> QED BY <2>1, <2>2, StampsAside DEF NeedsLaps
<1>9. ASSUME NEW t \in {Consumer, Ticker}, AutoFinish(t) PROVE StampsInv'
  <2>1. \A u \in Thread : call'[u] = call[u] \/ call'[u].stage \in {"preempt", "check"}
    BY <1>9 DEF AutoFinish, BeginCall, Call
  <2> QED BY <1>9, <2>1, StampsAside DEF AutoFinish, NeedsLaps
<1>10. CASE BootList
  <2>1. pending' \subseteq Begun
    BY <1>10 DEF BootList, StampsInv, StampsExplainStatus, Begun
  <2> QED BY <1>10, <2>1, StampsAside DEF BootList, Idle, Call, NeedsLaps
<1>11. ASSUME NEW r \in Race, RecoverNext(r) PROVE StampsInv'
  <2>1. \A u \in Thread : call'[u] = call[u] \/ call'[u].stage \in {"preempt", "check"}
    BY <1>11 DEF RecoverNext, BeginCall, Call
  <2>2. /\ UNCHANGED <<races, laps, counters>> /\ pending' \subseteq pending
        /\ \A p \in Proc : ctx'[p] \in {ctx[p], r}
    BY <1>11 DEF RecoverNext
  <2>3. r \in Begun
    BY <1>11 DEF RecoverNext
  <2> QED BY <2>1, <2>2, <2>3, StampsAside DEF NeedsLaps
<1>12. ASSUME NEW p \in Proc, Crash(p) PROVE StampsInv'
  <2>1. \A u \in Thread : call'[u] = call[u] \/ call'[u].stage \in {"booting", "idle"}
    BY <1>12 DEF Crash, Boot, Idle, Call
  <2>2. /\ UNCHANGED <<db, deleted>> /\ pending' \subseteq pending
        /\ \A q \in Proc : ctx'[q] \in {ctx[q], None}
    BY <1>12 DEF Crash
  <2> QED BY <2>1, <2>2, StampsAside DEF NeedsLaps
<1>13. ASSUME NEW t \in Thread, DatabaseError(t) PROVE StampsInv'
  BY <1>13, <1>2 DEF DatabaseError, EndRecovery
<1>14. CASE RecoveryFails
  <2>1. \A u \in Thread : call'[u] = call[u] \/ call'[u].stage = "idle"
    BY <1>14 DEF RecoveryFails, Idle, Call
  <2> QED BY <1>14, <2>1, StampsAside DEF RecoveryFails, NeedsLaps
<1>15. ASSUME NEW t \in Thread, RefreshFails(t) PROVE StampsInv'
  <2>1. /\ call[t].race \in Race /\ call[t].method \in Locked
        /\ call[t].method \in NeedsStart => call[t].race \in Begun
    BY <1>15 DEF RefreshFails, LockedStage, Made, StampsInv
  <2>2. \A u \in Thread : call'[u] = call[u] \/ call'[u].stage = "idle"
    BY <1>15, ReturnStage DEF RefreshFails
  <2> QED BY <1>15, <2>1, <2>2, StampsCommitted DEF RefreshFails, NeedsLaps
<1> QED
  BY <1>1, <1>3, <1>4, <1>5, <1>6, <1>7, <1>8, <1>9, <1>10, <1>11, <1>12, <1>13, <1>14, <1>15
     DEF Next, Booting

LEMMA AlwaysStamps == Spec => []StampsInv
<1>1. Init => StampsInv
  <2> SUFFICES ASSUME Init PROVE StampsInv
    OBVIOUS
  <2>1. StampsExplainStatus
    BY DEF Init, StampsExplainStatus, Ran, Terminal
  <2> QED BY <2>1, Constants DEF Init, StampsInv, NeedsLaps, Boot, Idle, Call
<1> QED BY <1>1, StampsNext, AlwaysTyped, PTL DEF Spec

\* Although no UPDATE looks at the status it overwrites, and any number of users
\* and processes issue them: a race that runs, pauses, finished or has laps was
\* started, and a race that ended has the time of its end.
THEOREM StampsSafe == Spec => []StampsExplainStatus
BY AlwaysStamps, PTL DEF StampsInv

(***************************************************************************)
(* The crossings.  An accepted crossing is a row of the identity table; it *)
(* becomes a lap two transactions later.  The count of CrossingsAccounted  *)
(* is inductive once three facts are at hand: the number of that lap is    *)
(* not taken (the ledger above), so storing it adds one; a row that is     *)
(* gone under the consumer was deleted (the time stamps above), so no      *)
(* crossing is lost that way; and the identity table is finite.            *)
(***************************************************************************)
FiniteCrossings == \A r \in Race, c \in Car : IsFiniteSet(identity[r][c])

CrossingsInv == CrossingsAccounted /\ FiniteCrossings

LEMMA InHandType == \A r, c : InHand(r, c) \in {0, 1}
BY DEF InHand

\* The count of one car, with the cardinalities known to be numbers.
LEMMA CrossingsCounted ==
    ASSUME Typed, CrossingsInv, NEW r \in Race \ deleted, NEW c \in Car
    PROVE  /\ Cardinality(laps[r][c]) \in Nat /\ Cardinality(identity[r][c]) \in Nat
           /\ IsFiniteSet(laps[r][c]) /\ IsFiniteSet(identity[r][c])
           /\ Cardinality(laps[r][c]) + InHand(r, c) <= Cardinality(identity[r][c])
           /\ Cardinality(identity[r][c]) <= Cardinality(laps[r][c]) + InHand(r, c) + failures
           /\ failures \in Nat
BY FS_CardinalityType DEF Typed, TypeOK, FiniteLaps, CrossingsInv, FiniteCrossings, CrossingsAccounted

\* A step that writes neither table and leaves the crossing in hand where it is.
LEMMA CrossingsAside ==
    ASSUME Typed, CrossingsInv, UNCHANGED <<laps, identity>>, deleted \subseteq deleted',
           failures' \in {failures, failures + 1},
           \A r \in Race \ deleted', c \in Car : InHand(r, c)' = InHand(r, c)
    PROVE  CrossingsInv'
<1>1. FiniteCrossings'
  BY DEF CrossingsInv, FiniteCrossings
<1>2. ASSUME NEW r \in Race \ deleted', NEW c \in Car
      PROVE  /\ Cardinality(laps'[r][c]) + InHand(r, c)' <= Cardinality(identity'[r][c])
             /\ Cardinality(identity'[r][c]) <= Cardinality(laps'[r][c]) + InHand(r, c)' + failures'
  BY CrossingsCounted, InHandType
<1> QED BY <1>1, <1>2 DEF CrossingsInv, CrossingsAccounted

\* The consumer stays where no crossing is in hand.
LEMMA CrossingsAsideIdle ==
    ASSUME Typed, CrossingsInv, UNCHANGED <<laps, identity>>, deleted \subseteq deleted',
           failures' \in {failures, failures + 1},
           call[Consumer].stage \notin {"registered", "numbered"},
           call'[Consumer].stage \notin {"registered", "numbered"}
    PROVE  CrossingsInv'
BY CrossingsAside DEF InHand

\* The consumer does not move and keeps its lap.
LEMMA CrossingsAsideOther ==
    ASSUME Typed, CrossingsInv, UNCHANGED <<laps, identity, lap>>, deleted \subseteq deleted',
           failures' \in {failures, failures + 1}, call'[Consumer] = call[Consumer]
    PROVE  CrossingsInv'
BY CrossingsAside DEF InHand

\* A crossing in hand is given up: one failure is to blame, or the race is gone.
LEMMA CrossingsDropped ==
    ASSUME Typed, CrossingsInv, UNCHANGED <<laps, identity, deleted>>,
           call'[Consumer].stage \notin {"registered", "numbered"},
           \/ failures' = failures + 1
           \/ failures' = failures /\ (call[Consumer].stage \in {"registered", "numbered"}
                                       => call[Consumer].race \in deleted)
    PROVE  CrossingsInv'
<1>1. FiniteCrossings'
  BY DEF CrossingsInv, FiniteCrossings
<1>2. ASSUME NEW r \in Race \ deleted, NEW c \in Car
      PROVE  /\ Cardinality(laps[r][c]) + InHand(r, c)' <= Cardinality(identity[r][c])
             /\ Cardinality(identity[r][c]) <= Cardinality(laps[r][c]) + InHand(r, c)' + failures'
  <2>1. InHand(r, c)' = 0
    BY DEF InHand
  <2>2. failures' = failures + 1 \/ (failures' = failures /\ InHand(r, c) = 0)
    BY DEF InHand
  <2> QED BY <2>1, <2>2, CrossingsCounted, InHandType
<1> QED BY <1>1, <1>2 DEF CrossingsInv, CrossingsAccounted

\* The crossing in hand becomes a lap.
LEMMA CrossingsStored ==
    ASSUME Typed, CrossingsInv, UNCHANGED <<deleted, failures>>,
           call[Consumer].stage \in {"registered", "numbered"},
           NEW n, StoreLap(n),
           call[Consumer].race \notin deleted => n \notin laps[call[Consumer].race][lap.car]
    PROVE  CrossingsInv'
<1> DEFINE q == call[Consumer].race
           k == lap.car
<1>1. /\ laps \in [Race -> [Car -> SUBSET Nat]] /\ q \in Race /\ k \in Car /\ CallsMade
  BY Constants DEF Typed, TypeOK, CallsMade, Made, LapInHand, Recordings, Laps
<1>2. laps' = [laps EXCEPT ![q][k] = @ \cup {n}] /\ identity' = identity
  BY DEF StoreLap
<1>3. call'[Consumer].stage \in {"ranking", "idle"}
  BY <1>1, GotoStage, Constants DEF StoreLap, Idle, Call, CallsMade
<1>4. FiniteCrossings'
  BY <1>2 DEF CrossingsInv, FiniteCrossings
<1>5. ASSUME NEW r \in Race \ deleted, NEW c \in Car
      PROVE  /\ Cardinality(laps'[r][c]) + InHand(r, c)' <= Cardinality(identity[r][c])
             /\ Cardinality(identity[r][c]) <= Cardinality(laps'[r][c]) + InHand(r, c)' + failures
  <2>1. InHand(r, c)' = 0
    BY <1>3 DEF InHand
  <2>2. CASE r = q /\ c = k
    <3>1. InHand(r, c) = 1
      BY <2>2 DEF InHand
    <3>2. laps'[r][c] = laps[r][c] \cup {n} /\ n \notin laps[r][c]
      BY <1>1, <1>2, <1>5, <2>2
    <3>3. Cardinality(laps'[r][c]) = Cardinality(laps[r][c]) + 1
      BY <3>2, CrossingsCounted, FS_AddElement
    <3> QED BY <2>1, <3>1, <3>3, CrossingsCounted
  <2>3. CASE ~(r = q /\ c = k)
    <3>1. InHand(r, c) = 0 /\ laps'[r][c] = laps[r][c]
      BY <1>1, <1>2, <2>3 DEF InHand
    <3> QED BY <2>1, <3>1, CrossingsCounted
  <2> QED BY <2>2, <2>3
<1> QED BY <1>2, <1>4, <1>5 DEF CrossingsInv, CrossingsAccounted

\* A new row in the identity table: a crossing comes into the consumer's hand.
LEMMA CrossingsRegistered ==
    ASSUME Typed, CrossingsInv, Register PROVE CrossingsInv'
<1> DEFINE q == call[Consumer].race
           k == lap.car
<1>1. /\ identity \in [Race -> [Car -> SUBSET CuTime]] /\ CallsMade
      /\ q \in Race /\ k \in Car
  BY Constants DEF Typed, TypeOK, CallsMade, Made, LapInHand, Recordings, Laps, Register
<1>2. /\ identity' = [identity EXCEPT ![q][k] = @ \cup {lap.cu}] /\ lap.cu \notin identity[q][k]
      /\ UNCHANGED <<laps, lap, deleted, failures>> /\ call[Consumer].stage = "loaded"
  BY DEF Register, Seen, counters
<1>3. call'[Consumer].stage = "registered" /\ call'[Consumer].race = q
  BY <1>1, GotoStage, Constants DEF Register
<1>4. ASSUME NEW r \in Race, NEW c \in Car, IsFiniteSet(identity[r][c])
      PROVE  IsFiniteSet(identity'[r][c])
  BY <1>1, <1>2, <1>4, FS_AddElement
<1>5. ASSUME NEW r \in Race \ deleted, NEW c \in Car
      PROVE  /\ Cardinality(laps[r][c]) + InHand(r, c)' <= Cardinality(identity'[r][c])
             /\ Cardinality(identity'[r][c]) <= Cardinality(laps[r][c]) + InHand(r, c)' + failures
  <2>1. InHand(r, c) = 0
    BY <1>2 DEF InHand
  <2>2. CASE r = q /\ c = k
    <3>1. InHand(r, c)' = 1
      BY <1>2, <1>3, <2>2 DEF InHand
    <3>2. identity'[r][c] = identity[r][c] \cup {lap.cu} /\ lap.cu \notin identity[r][c]
      BY <1>1, <1>2, <2>2
    <3>3. Cardinality(identity'[r][c]) = Cardinality(identity[r][c]) + 1
      BY <3>2, CrossingsCounted, FS_AddElement
    <3> QED BY <2>1, <3>1, <3>3, CrossingsCounted
  <2>3. CASE ~(r = q /\ c = k)
    <3>1. InHand(r, c)' = 0 /\ identity'[r][c] = identity[r][c]
      BY <1>1, <1>2, <1>3, <2>3 DEF InHand
    <3> QED BY <2>1, <3>1, CrossingsCounted
  <2> QED BY <2>2, <2>3
<1> QED BY <1>2, <1>4, <1>5 DEF CrossingsInv, CrossingsAccounted, FiniteCrossings

LEMMA CrossingsNext ==
    Typed /\ LedgerInv /\ StampsInv /\ CrossingsInv /\ [Next]_vars => CrossingsInv'
<1> SUFFICES ASSUME Typed, LedgerInv, StampsInv, CrossingsInv, [Next]_vars PROVE CrossingsInv'
  OBVIOUS
<1>0. CallsMade /\ call \in [Thread -> Made] /\ \A t \in User : t # Consumer /\ t \in Thread
  BY Constants DEF Typed, CallsMade
<1> USE <1>0, Constants DEF db, ledger, races, counters
<1>1. CASE UNCHANGED vars
  BY <1>1, CrossingsAsideOther DEF vars
\* A thread gives up with nobody to blame.
<1>2. ASSUME NEW t \in Thread, GiveUp(t), UNCHANGED <<deleted, failures>>,
             t = Consumer /\ call[t].stage \in {"registered", "numbered"}
             => call[t].race \in deleted
      PROVE  CrossingsInv'
  BY <1>2, CrossingsDropped, CrossingsAsideOther, ReturnStage DEF GiveUp
<1>3. ASSUME NEW t \in User, UserStarts(t) PROVE CrossingsInv'
  <2>1. /\ call'[Consumer] = call[Consumer]
        /\ UNCHANGED <<laps, identity, lap, deleted, failures>>
    BY <1>3 DEF UserStarts, CreateRace, RepeatRace, NewRace, UserCall, BeginCall,
                MarkReady, UpdateCheck, DeleteCheck
  <2> QED BY <2>1, CrossingsAsideOther
<1>4. ASSUME NEW t \in Thread, InLocked(t) PROVE CrossingsInv'
  <2>1. CASE Refuse(t)
    BY <2>1, <1>2 DEF Refuse
  <2>2. CASE RowGone(t)
    <3>1. t = Consumer /\ call[t].stage \in {"registered", "numbered"}
          => call[t].race \in deleted
      <4> SUFFICES ASSUME t = Consumer, call[t].stage \in {"registered", "numbered"}
                   PROVE  call[t].race \in deleted
        OBVIOUS
      <4>1. ~Exists(call[t].race)
        BY <2>2 DEF RowGone
      <4>2. call[t].race \in Begun
        BY DEF StampsInv, NeedsLaps
      <4> QED BY <4>1, <4>2 DEF StampsInv, Begun
    <3> QED BY <2>2, <3>1, <1>2 DEF RowGone
  <2>3. CASE Preempt(t) \/ Check(t) \/ Write(t) \/ Snapshot(t)
    <3>1. UNCHANGED <<laps, identity, lap, deleted, failures>>
      BY <2>3 DEF Preempt, Check, Write, Commit, Snapshot
    <3>2. Return(t) \/ Goto(t, "check") \/ Goto(t, "write") \/ Goto(t, "snapshot")
      BY <2>3 DEF Preempt, Check, Write, Commit, Snapshot
    <3>3. call[t].stage \in LockedStage
      BY <2>3 DEF Preempt, Check, Write, Commit, Snapshot, LockedStage
    <3>4. CASE t = Consumer
      <4>1. call'[Consumer].stage \notin {"registered", "numbered"}
        BY <3>2, <3>4, GotoStage, ReturnStage
      <4> QED BY <3>1, <3>3, <3>4, <4>1, CrossingsAsideIdle DEF LockedStage
    <3>5. CASE t # Consumer
      BY <3>1, <3>2, <3>5, CrossingsAsideOther, GotoStage, ReturnStage
    <3> QED BY <3>4, <3>5
  <2> QED BY <1>4, <2>1, <2>2, <2>3 DEF InLocked
<1>5. ASSUME NEW t \in User, InUnlocked(t) PROVE CrossingsInv'
  <2>1. call'[Consumer] = call[Consumer] /\ lap' = lap /\ failures' = failures
    BY <1>5 DEF InUnlocked, MarkReadyWrite, UpdateWrite, DeleteWrite, Unlink, Clear, ClearContext,
                Goto, Return
  <2>2. CASE DeleteWrite(t)
    <3>1. /\ deleted' = deleted \cup {call[t].race}
          /\ laps' = [laps EXCEPT ![call[t].race] = [c \in Car |-> {}]]
          /\ identity' = [identity EXCEPT ![call[t].race] = [c \in Car |-> {}]]
      BY <2>2 DEF DeleteWrite
    <3>2. \A r \in Race \ deleted' : laps'[r] = laps[r] /\ identity'[r] = identity[r]
      BY <3>1 DEF Typed, TypeOK
    <3>3. FiniteCrossings'
      BY <3>1, FS_EmptySet DEF CrossingsInv, FiniteCrossings, Typed, TypeOK
    <3>4. \A r \in Race \ deleted', c \in Car : InHand(r, c)' = InHand(r, c)
      BY <2>1 DEF InHand
    <3>5. CrossingsAccounted'
      BY <2>1, <3>1, <3>2, <3>4 DEF CrossingsInv, CrossingsAccounted
    <3> QED BY <3>3, <3>5 DEF CrossingsInv
  <2>3. CASE ~DeleteWrite(t)
    BY <1>5, <2>1, <2>3, CrossingsAsideOther
       DEF InUnlocked, MarkReadyWrite, UpdateWrite, Unlink, Clear, ClearContext
  <2> QED BY <2>2, <2>3
<1>6. CASE Recording
  <2> DEFINE q == call[Consumer].race
             k == lap.car
  <2>1. CASE Drop \/ Duplicate
    BY <2>1, <1>2 DEF Drop, Duplicate
  <2>2. CASE Load \/ OrphanClear \/ Rank
    <3>1. call[Consumer].stage \in {"arrived", "orphaned", "ranking"}
      BY <2>2 DEF Load, OrphanClear, ClearContext, Rank
    <3>2. call'[Consumer].stage \in {"loaded", "orphaned", "idle", "due"}
      BY <2>2, GotoStage, ReturnStage DEF Load, OrphanClear, ClearContext, Rank, Idle, Call, Made, Calls
    <3>3. UNCHANGED <<laps, identity, deleted, failures>>
      BY <2>2 DEF Load, OrphanClear, ClearContext, Rank
    <3> QED BY <3>1, <3>2, <3>3, CrossingsAsideIdle
  <2>3. CASE Register
    BY <2>3, CrossingsRegistered
  <2>4. call[Consumer].stage \in {"registered", "numbered"} => q \in Race /\ k \in Car /\ lap \in Laps
    BY DEF Made, Typed, LapInHand, Recordings, Laps
  <2>5. CASE FirstLap
    <3>1. q \notin deleted => laps[q][k] = {}
      <4> SUFFICES ASSUME q \notin deleted PROVE laps[q][k] = {}
        OBVIOUS
      <4>1. NumbersAgree(q, k)
        BY <2>4, <2>5 DEF FirstLap, LedgerInv, LapLedger
      <4>2. Cardinality(laps[q][k]) \in Nat /\ checkpoint[q][k] = NoCheckpoint
        BY <2>5, <4>1, FS_CardinalityType DEF FirstLap, NumbersAgree
      <4> QED BY <4>1, <4>2 DEF NumbersAgree
    <3>2. q \notin deleted => Seed(q)[k] + 1 \notin laps[q][k]
      BY <3>1
    <3> QED BY <2>5, <3>2, CrossingsStored DEF FirstLap
  <2>6. CASE LoadCheckpoint
    <3>1. lap' = [lap EXCEPT !.number = checkpoint[q][k] + 1] /\ Goto(Consumer, "numbered")
      BY <2>6 DEF LoadCheckpoint
    <3>2. call'[Consumer].race = q /\ lap'.car = k /\ call'[Consumer].stage = "numbered"
      BY <2>4, <2>6, <3>1, GotoStage DEF LoadCheckpoint, Laps
    <3>3. \A r, c : InHand(r, c)' = InHand(r, c)
      BY <2>6, <3>2 DEF InHand, LoadCheckpoint
    <3> QED BY <2>6, <3>3, CrossingsAside DEF LoadCheckpoint
  <2>7. CASE CommitLap
    <3>1. ASSUME q \notin deleted PROVE lap.number \notin laps[q][k]
      <4>1. NumbersAgree(q, k)
        BY <2>4, <2>7, <3>1 DEF CommitLap, LedgerInv, LapLedger
      <4>2. lap.number = Cardinality(laps[q][k]) + 1
        BY <2>7, <3>1, <4>1 DEF CommitLap, LedgerInv, NumberFresh, NumbersAgree
      <4> QED BY <4>1, <4>2, FS_CardinalityType DEF NumbersAgree
    <3>2. CASE lap.number \in laps[q][k]
      BY <2>7, <3>1, <3>2, <1>2 DEF CommitLap
    <3>3. CASE lap.number \notin laps[q][k]
      BY <2>7, <3>3, CrossingsStored DEF CommitLap
    <3> QED BY <3>2, <3>3
  <2> QED BY <1>6, <2>1, <2>2, <2>3, <2>5, <2>6, <2>7 DEF Recording
<1>7. ASSUME NEW c \in Car, NEW cu \in CuTime, LapArrives(c, cu) PROVE CrossingsInv'
  BY <1>7, CrossingsAsideIdle DEF LapArrives, Call, Ready, Idle
<1>8. CASE TickerPoll \/ TickerJudge
  <2>1. call'[Consumer] = call[Consumer] /\ UNCHANGED <<laps, identity, lap, deleted, failures>>
    BY <1>8 DEF TickerPoll, TickerJudge
  <2> QED BY <2>1, CrossingsAsideOther
<1>9. ASSUME NEW t \in {Consumer, Ticker}, AutoFinish(t) PROVE CrossingsInv'
  <2>1. UNCHANGED <<laps, identity, lap, deleted, failures>> /\ call[t].stage = "due"
    BY <1>9 DEF AutoFinish
  <2>2. call'[t].stage \in {"preempt", "check"} /\ \A u \in Thread \ {t} : call'[u] = call[u]
    BY <1>9 DEF AutoFinish, BeginCall, Call
  <2> QED BY <2>1, <2>2, CrossingsAsideIdle, CrossingsAsideOther
<1>10. CASE BootList
  BY <1>10, CrossingsAsideIdle DEF BootList, Idle, Call
<1>11. ASSUME NEW q \in Race, RecoverNext(q) PROVE CrossingsInv'
  BY <1>11, CrossingsAsideIdle DEF RecoverNext, BeginCall, Idle, Call
<1>12. ASSUME NEW p \in Proc, Crash(p) PROVE CrossingsInv'
  <2>1. CASE p = Pipeline
    BY <1>12, <2>1, CrossingsDropped DEF Crash, Boot, Call
  <2>2. CASE p # Pipeline
    BY <1>12, <2>2, CrossingsAsideOther DEF Crash
  <2> QED BY <2>1, <2>2
<1>13. ASSUME NEW t \in Thread, DatabaseError(t) PROVE CrossingsInv'
  <2>1. CASE t = Consumer
    BY <1>13, <2>1, CrossingsDropped, ReturnStage DEF DatabaseError, GiveUp
  <2>2. CASE t # Consumer
    BY <1>13, <2>2, CrossingsAsideOther, ReturnStage DEF DatabaseError, GiveUp
  <2> QED BY <2>1, <2>2
<1>14. CASE RecoveryFails
  BY <1>14, CrossingsDropped DEF RecoveryFails, Idle, Call
<1>15. ASSUME NEW t \in Thread, RefreshFails(t) PROVE CrossingsInv'
  <2>1. CASE t = Consumer
    BY <1>15, <2>1, CrossingsDropped, ReturnStage DEF RefreshFails, Commit
  <2>2. CASE t # Consumer
    BY <1>15, <2>2, CrossingsAsideOther, ReturnStage DEF RefreshFails, Commit
  <2> QED BY <2>1, <2>2
<1> QED
  BY <1>1, <1>3, <1>4, <1>5, <1>6, <1>7, <1>8, <1>9, <1>10, <1>11, <1>12, <1>13, <1>14, <1>15
     DEF Next, Booting

\* No crossing is counted twice and none vanishes: of every race and car, the
\* laps and the crossing in the consumer's hand are together at most the
\* accepted crossings, and short of them by at most the crashes and the database
\* errors so far, whatever the users do meanwhile.
THEOREM CrossingsSafe == Spec => []CrossingsAccounted
<1>1. Init => CrossingsInv
  <2> SUFFICES ASSUME Init PROVE CrossingsInv
    OBVIOUS
  <2>1. \A r \in Race, c \in Car : identity[r][c] = {} /\ laps[r][c] = {} /\ InHand(r, c) = 0
    BY Constants DEF Init, InHand, Boot, Call
  <2> QED BY <2>1, FS_EmptySet DEF CrossingsInv, CrossingsAccounted, FiniteCrossings, Init
<1>2. Typed /\ LedgerInv /\ StampsInv /\ CrossingsInv /\ [Next]_vars => CrossingsInv'
  BY CrossingsNext
<1>3. CrossingsInv => CrossingsAccounted
  BY DEF CrossingsInv
<1> QED BY <1>1, <1>2, <1>3, AlwaysTyped, AlwaysLedger, AlwaysStamps, PTL DEF Spec
=============================================================================
