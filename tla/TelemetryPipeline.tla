------------------------- MODULE TelemetryPipeline -------------------------
(***************************************************************************)
(* The telemetry process between its adapter and its files: main.py's pump *)
(* and shutdown, event_bus.py, state_manager.py, storage.py, and the race  *)
(* runner as one more subscriber, whose calls may take forever.  All of it *)
(* runs on one event loop: a step is what a coroutine does between two     *)
(* suspensions, and a file is written within a step: of what is written,   *)
(* any part may stay in the buffer of the file or be lost when the disk    *)
(* refuses.                                                                *)
(*                                                                         *)
(* An event is named by its place in the stream it came from: emitted for  *)
(* the adapter's queue, published for the subscribers' queues.             *)
(***************************************************************************)
EXTENDS DropOldest, FiniteSets, SequencesExt

CONSTANTS
    Cap,           \* what each queue holds
    Batch,         \* how many events the writer takes at once
    Stories        \* what the adapter may say: sequences of events

Subscribers == {"storage", "state", "race"}

Queues == Subscribers \cup {"adapter"}

\* No car, or no lap time yet: a time of 0 is one.
None == -1

Events == [kind : {"lap", "fuel", "link"}, car : Nat \cup {None}, n : Nat, ms : Nat]

ASSUME PipelineAssumption ==
    /\ Cap \in [Queues -> Nat \ {0}]
    /\ Batch \in Nat \ {0}
    /\ Stories \subseteq Seq(Events)

VARIABLES
    emitted,       \* what the adapter has emitted
    published,     \* what the pump has published on the bus
    queue,         \* the queues
    got,           \* what the consumer of each queue has taken (history)
    main,          \* how far the shutdown of main.py is
    pumping,       \* the pump runs
    writing,       \* the writer's task runs
    disk,          \* the log file: its lines, the lines kept in its buffer, the
                   \* lines that are lost, and whether it ends in a torn line
    managing,      \* the state manager's task runs
    board,         \* the state manager's state
    shown,         \* what the state file shows
    racing,        \* the race runner's consumer runs
    busy           \* a call of the race service is under way

streams == <<emitted, published, queue, got>>
writer == <<writing, disk>>
manager == <<managing, board, shown>>
runner == <<racing, busy>>
vars == <<streams, writer, manager, runner, main, pumping>>

-----------------------------------------------------------------------------
(* The streams *)

Emitted(e) ==
    /\ emitted' = Append(emitted, e)
    /\ queue' = [queue EXCEPT !["adapter"] = Offer(@, Len(emitted'), Cap["adapter"])]
    /\ UNCHANGED <<published, got>>

\* Take the first n events of the queue of s.
Taken(s, n) ==
    /\ queue' = [queue EXCEPT ![s] = SubSeq(@, n + 1, Len(@))]
    /\ got' = [got EXCEPT ![s] = @ \o SubSeq(queue[s], 1, n)]
    /\ UNCHANGED <<emitted, published>>

\* The adapter talks until main.py shuts it down.
Emit ==
    /\ main \in {"serving", "pump", "adapter"}
    /\ \E story \in Stories :
         /\ IsStrictPrefix(emitted, story)
         /\ Emitted(story[Len(emitted) + 1])
    /\ UNCHANGED <<writer, manager, runner, main, pumping>>

\* Mutant: the bus waits for a subscriber that is full.
PumpWaits ==
    /\ pumping /\ queue["adapter"] # <<>> /\ Len(queue["race"]) < Cap["race"]
    /\ LET i == Head(queue["adapter"]) IN
       /\ published' = Append(published, emitted[i])
       /\ got' = [got EXCEPT !["adapter"] = Append(@, i)]
    /\ queue' = [q \in Queues |->
                   IF q = "adapter" THEN Tail(queue[q])
                                    ELSE Offer(queue[q], Len(published'), Cap[q])]
    /\ UNCHANGED <<emitted, writer, manager, runner, main, pumping>>

\* pump, EventBus.publish
Pump ==
    /\ pumping /\ queue["adapter"] # <<>>
    /\ LET i == Head(queue["adapter"]) IN
       /\ published' = Append(published, emitted[i])
       /\ got' = [got EXCEPT !["adapter"] = Append(@, i)]
    /\ queue' = [q \in Queues |->
                   IF q = "adapter" THEN Tail(queue[q])
                                    ELSE Offer(queue[q], Len(published'), Cap[q])]
    /\ UNCHANGED <<emitted, writer, manager, runner, main, pumping>>

-----------------------------------------------------------------------------
(* The writer *)

From(lines, n) == SubSeq(lines, n, Len(lines))

\* Lines get to the file; the first one only makes a torn line longer.
Reached(d, lines) ==
    IF d.cut /\ lines # <<>>
    THEN [d EXCEPT !.log = @ \o Tail(lines), !.failed = @ \cup {Head(lines)}, !.cut = FALSE]
    ELSE [d EXCEPT !.log = @ \o lines]

\* The disk refuses lines that no buffer holds; it may have taken a part of one.
Refused(d, lines) ==
    {[d EXCEPT !.kept = <<>>, !.failed = @ \cup Range(lines), !.cut = @ \/ torn] : torn \in BOOLEAN}

\* _write_batch.  The buffer is flushed when it is full and after each batch; a
\* flush that fails keeps what the disk did not take.  A batch is lost when it has
\* no room beside that, or in part when it is larger than the buffer.
Writes(d, batch) ==
    LET all == d.kept \o batch
        old == Len(d.kept)
        Flushed(n) == Reached(d, SubSeq(all, 1, n))
    IN {[Flushed(n) EXCEPT !.kept = From(all, n + 1)] : n \in 0 .. Len(all)}
       \cup {[Flushed(n) EXCEPT !.kept = From(d.kept, n + 1), !.failed = @ \cup Range(batch)] :
               n \in 0 .. old - 1}
       \cup UNION {Refused(Flushed(n), From(all, n + 1)) : n \in old .. Len(all) - 1}

\* flush and close: what the disk does not take now is lost.
Closes(d) ==
    {[Reached(d, d.kept) EXCEPT !.kept = <<>>]}
    \cup UNION {Refused(Reached(d, SubSeq(d.kept, 1, n)), From(d.kept, n + 1)) :
                  n \in 0 .. Len(d.kept) - 1}

\* _collect_batch
Collected ==
    LET n == IF Len(queue["storage"]) < Batch THEN Len(queue["storage"]) ELSE Batch IN
    Taken("storage", n) /\ disk' \in Writes(disk, SubSeq(queue["storage"], 1, n))

Write ==
    /\ writing /\ main # "writer" /\ queue["storage"] # <<>>
    /\ Collected
    /\ UNCHANGED <<writing, manager, runner, main, pumping>>

\* stop: the task ends after the batch it is waiting for, if there is one.
WriterEnds ==
    /\ main = "writer" /\ writing
    /\ writing' = FALSE
    /\ IF queue["storage"] # <<>> THEN Collected ELSE UNCHANGED <<streams, disk>>
    /\ UNCHANGED <<manager, runner, main, pumping>>

\* Mutant: what is still queued is left there.
WriterClosesAtOnce ==
    /\ main = "writer" /\ ~writing
    /\ main' = "race"
    /\ disk' \in Closes(disk)
    /\ UNCHANGED <<streams, writing, manager, runner, pumping>>

\* _drain_remaining, and the files are closed.
WriterCloses ==
    /\ main = "writer" /\ ~writing
    /\ main' = "race"
    /\ IF queue["storage"] # <<>>
       THEN /\ Taken("storage", Len(queue["storage"]))
            /\ \E d \in Writes(disk, queue["storage"]) : disk' \in Closes(d)
       ELSE disk' \in Closes(disk) /\ UNCHANGED streams
    /\ UNCHANGED <<writing, manager, runner, pumping>>

-----------------------------------------------------------------------------
(* The state manager *)

NoCar == [laps |-> 0, last |-> None, best |-> None, samples |-> 0]

Canonical == 1 .. 6

\* CarState, _connection and the diagnostics of the lap events.
EmptyBoard == [cars |-> [c \in {} |-> NoCar], link |-> FALSE, laps |-> 0, refused |-> 0]

\* Mutant: the best lap is the last one.
Latest(best, ms) == ms

Better(best, ms) == IF best = None \/ ms < best THEN ms ELSE best

WithLap(car, e) ==
    [laps    |-> IF e.n > car.laps THEN e.n ELSE car.laps,
     last    |-> e.ms,
     best    |-> Better(car.best, e.ms),
     samples |-> car.samples + 1]

CarOf(b, c) == IF c \in DOMAIN b.cars THEN b.cars[c] ELSE NoCar

WithCar(b, c, car) == [b EXCEPT !.cars = [d \in DOMAIN @ \cup {c} |-> IF d = c THEN car ELSE @[d]]]

\* Mutant: a lap counts as the lap it says it is.
ApplyNewest(b, e) ==
    CASE e.kind = "link" -> [b EXCEPT !.link = (e.n = 1)]
      [] e.kind = "fuel" -> IF e.car \in Canonical THEN WithCar(b, e.car, CarOf(b, e.car)) ELSE b
      [] e.kind = "lap"  ->
           IF e.car \in Canonical
           THEN [WithCar(b, e.car, [WithLap(CarOf(b, e.car), e) EXCEPT !.laps = e.n]) EXCEPT !.laps = @ + 1]
           ELSE [b EXCEPT !.laps = @ + 1, !.refused = @ + 1]

\* apply.  "fuel" stands for every other event about a car.
Apply(b, e) ==
    CASE e.kind = "link" -> [b EXCEPT !.link = (e.n = 1)]
      [] e.kind = "fuel" -> IF e.car \in Canonical THEN WithCar(b, e.car, CarOf(b, e.car)) ELSE b
      [] e.kind = "lap"  ->
           IF e.car \in Canonical
           THEN [WithCar(b, e.car, WithLap(CarOf(b, e.car), e)) EXCEPT !.laps = @ + 1]
           ELSE [b EXCEPT !.laps = @ + 1, !.refused = @ + 1]

\* _build_race_metrics: more laps, then the better best lap, then the lower id.
Ahead(b, c, d) ==
    LET x == b.cars[c]
        y == b.cars[d]
    IN \/ x.laps > y.laps
       \/ x.laps = y.laps /\ x.best # y.best /\ x.best # None /\ (y.best = None \/ x.best < y.best)
       \/ x.laps = y.laps /\ x.best = y.best /\ c < d

\* The cars, the leader first.
Order(b) ==
    CHOOSE order \in [1 .. Cardinality(DOMAIN b.cars) -> DOMAIN b.cars] :
        \A i, j \in DOMAIN order : i < j => Ahead(b, order[i], order[j])

\* snapshot
Snapshot(b) == [board |-> b, order |-> Order(b)]

\* write_snapshot: the file is replaced, or stays as it is when the disk refuses.
Show(b) == shown' \in {shown, Snapshot(b)}

\* _run, with an event; the snapshot is written when the last one is old enough.
Manage ==
    /\ managing /\ main # "state" /\ queue["state"] # <<>>
    /\ Taken("state", 1)
    /\ board' = Apply(board, published[Head(queue["state"])])
    /\ Show(board')
    /\ UNCHANGED <<managing, writer, runner, main, pumping>>

\* _run, without one.
Refresh ==
    /\ managing /\ main # "state" /\ queue["state"] = <<>>
    /\ shown' = Snapshot(board)
    /\ UNCHANGED <<streams, managing, board, writer, runner, main, pumping>>

\* stop: the task ends after the event it is waiting for, if there is one.
ManagerEnds ==
    /\ main = "state" /\ managing
    /\ managing' = FALSE
    /\ IF queue["state"] # <<>>
       THEN Taken("state", 1) /\ board' = Apply(board, published[Head(queue["state"])])
       ELSE UNCHANGED <<streams, board>>
    /\ Show(board')
    /\ UNCHANGED <<writer, runner, main, pumping>>

\* The final snapshot.
ManagerCloses ==
    /\ main = "state" /\ ~managing
    /\ main' = "writer"
    /\ Show(board)
    /\ UNCHANGED <<streams, managing, board, writer, runner, pumping>>

-----------------------------------------------------------------------------
(* The race runner *)

RaceCalls ==
    /\ racing /\ ~busy /\ queue["race"] # <<>>
    /\ Taken("race", 1)
    /\ busy' = TRUE
    /\ UNCHANGED <<racing, writer, manager, main, pumping>>

RaceReturns ==
    /\ busy
    /\ busy' = FALSE
    /\ UNCHANGED <<streams, racing, writer, manager, main, pumping>>

\* Mutant: stop waits for the call.
RaceStopsAfterTheCall ==
    /\ main = "race" /\ ~busy
    /\ racing' = FALSE
    /\ main' = "joining"
    /\ UNCHANGED <<streams, busy, writer, manager, pumping>>

\* stop cancels the consumer; a call under way goes on in its thread.
RaceStops ==
    /\ main = "race"
    /\ racing' = FALSE
    /\ main' = "joining"
    /\ UNCHANGED <<streams, busy, writer, manager, pumping>>

-----------------------------------------------------------------------------
(* main.py *)

Signal ==
    /\ main = "serving"
    /\ main' = "pump"
    /\ UNCHANGED <<streams, writer, manager, runner, pumping>>

PumpCancelled ==
    /\ main = "pump"
    /\ pumping' = FALSE
    /\ main' = "adapter"
    /\ UNCHANGED <<streams, writer, manager, runner>>

\* A supervisor reports that it has disconnected, to a queue nobody reads now.
AdapterStops ==
    /\ main = "adapter"
    /\ main' = "state"
    /\ \/ UNCHANGED streams
       \/ Emitted([kind |-> "link", car |-> None, n |-> 0, ms |-> 0])
    /\ UNCHANGED <<writer, manager, runner, pumping>>

\* asyncio.run returns once the threads that run the calls have ended.
ProcessEnds ==
    /\ main = "joining" /\ ~busy
    /\ main' = "down"
    /\ UNCHANGED <<streams, writer, manager, runner, pumping>>

Init ==
    /\ emitted = <<>> /\ published = <<>>
    /\ queue = [q \in Queues |-> <<>>] /\ got = [q \in Queues |-> <<>>]
    /\ main = "serving" /\ pumping = TRUE
    /\ writing = TRUE /\ disk = [log |-> <<>>, kept |-> <<>>, failed |-> {}, cut |-> FALSE]
    /\ managing = TRUE /\ board = EmptyBoard /\ shown = Snapshot(EmptyBoard)
    /\ racing = TRUE /\ busy = FALSE

Shutdown ==
    \/ PumpCancelled \/ AdapterStops \/ ManagerEnds \/ ManagerCloses
    \/ WriterEnds \/ WriterCloses \/ RaceStops \/ ProcessEnds

Next ==
    \/ Emit \/ Pump \/ Write \/ Manage \/ Refresh \/ RaceCalls \/ RaceReturns
    \/ Signal \/ Shutdown

\* The event loop runs every task that can run, and Refresh stands for a write of
\* the snapshot that the disk accepts.  A call of the race service may never
\* return, the adapter may fall silent, and nobody has to stop the process.
Fairness ==
    /\ WF_vars(Pump) /\ WF_vars(Write) /\ WF_vars(Manage) /\ WF_vars(Refresh)
    /\ WF_vars(Shutdown)

Spec == Init /\ [][Next]_vars /\ Fairness

-----------------------------------------------------------------------------
(* Properties *)

TypeOK ==
    /\ emitted \in Seq(Events)
    /\ published \in Seq(Events)
    /\ DOMAIN queue = Queues /\ \A q \in Queues : Len(queue[q]) <= Cap[q]
    /\ main \in {"serving", "pump", "adapter", "state", "writer", "race", "joining", "down"}
    /\ {pumping, writing, managing, racing, busy} \subseteq BOOLEAN

AdapterFeed == INSTANCE LossyFeed WITH
    Cap <- Cap["adapter"], sent <- Len(emitted), got <- got["adapter"]

StorageFeed == INSTANCE LossyFeed WITH
    Cap <- Cap["storage"], sent <- Len(published), got <- got["storage"]

StateFeed == INSTANCE LossyFeed WITH
    Cap <- Cap["state"], sent <- Len(published), got <- got["state"]

RaceFeed == INSTANCE LossyFeed WITH
    Cap <- Cap["race"], sent <- Len(published), got <- got["race"]

\* Each subscriber of the bus, and the pump, is served as the lossy feed promises,
\* whatever the other subscribers do.
FeedSpec ==
    /\ AdapterFeed!Spec
    /\ StorageFeed!Spec
    /\ StateFeed!Spec
    /\ RaceFeed!Spec

\* The log and the buffer in front of it hold what the writer took, in order and
\* once, except the lines that a refusing disk lost; after a shutdown nothing is
\* left in the writer's queue or in the buffer.
LogTellsAll ==
    LET lines == disk.log \o disk.kept IN
    /\ \A i, j \in DOMAIN lines : i < j => lines[i] < lines[j]
    /\ Range(lines) = Range(got["storage"]) \ disk.failed
    /\ main \in {"race", "joining", "down"} => queue["storage"] = <<>> /\ disk.kept = <<>>

\* What a sequence of events amounts to, stated at once and not event by event.
Account(events) ==
    LET Laps(c) == {i \in DOMAIN events : events[i].kind = "lap" /\ events[i].car = c}
        Cars    == {c \in Canonical : \E i \in DOMAIN events :
                                        events[i].kind # "link" /\ events[i].car = c}
        Links   == {i \in DOMAIN events : events[i].kind = "link"}
        AllLaps == {i \in DOMAIN events : events[i].kind = "lap"}
        Car(c)  == IF Laps(c) = {} THEN NoCar
                   ELSE [laps    |-> Max({events[i].n : i \in Laps(c)}),
                         last    |-> events[Max(Laps(c))].ms,
                         best    |-> Min({events[i].ms : i \in Laps(c)}),
                         samples |-> Cardinality(Laps(c))]
    IN [cars    |-> [c \in Cars |-> Car(c)],
        link    |-> Links # {} /\ events[Max(Links)].n = 1,
        laps    |-> Cardinality(AllLaps),
        refused |-> Cardinality({i \in AllLaps : events[i].car \notin Canonical})]

Applied(k) == Account([i \in 1 .. k |-> published[got["state"][i]]])

\* The state file accounts for the events the manager had taken at some moment,
\* and its order is that of the account: the leader first, no car twice.
FileTellsAPrefix ==
    /\ board = Applied(Len(got["state"]))
    /\ \E k \in 0 .. Len(got["state"]) : shown.board = Applied(k)
    /\ \A i, j \in DOMAIN shown.order :
         LET x == shown.board.cars[shown.order[i]]
             y == shown.board.cars[shown.order[j]]
         IN i < j => \/ x.laps > y.laps
                     \/ x.laps = y.laps /\ (y.best = None \/ (x.best # None /\ x.best <= y.best))
    /\ Len(shown.order) = Cardinality(DOMAIN shown.board.cars)

\* What a reader has seen in the state file is never taken back: cars stay, laps are
\* not uncounted and a best lap is only replaced by a better one.
FileTakesNothingBack ==
    [][\A c \in DOMAIN shown.board.cars :
         /\ c \in DOMAIN shown'.board.cars
         /\ LET old == shown.board.cars[c]
                new == shown'.board.cars[c]
            IN /\ new.laps >= old.laps /\ new.samples >= old.samples
               /\ old.best # None => new.best # None /\ new.best <= old.best]_shown

\* While main.py serves, what the adapter emitted gets to the log and to the state
\* file, unless a full queue or the disk loses it, though a call of the race service
\* never returns.
Settled ==
    /\ \A q \in {"adapter", "storage", "state"} : queue[q] = <<>>
    /\ shown.board = board

NobodyWaitsForTheRace == []<>(main = "serving" => Settled)

\* A signal stops every task and closes the files, though a call of the race
\* service never returns; the process ends, unless such a call keeps its thread.
StopsWhenTold ==
    /\ main = "pump" ~> main \in {"joining", "down"}
    /\ []<>~busy => (main = "pump" ~> main = "down")
=============================================================================
