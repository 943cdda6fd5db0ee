----------------------------- MODULE LiveRunner -----------------------------
(***************************************************************************)
(* carrera_client.py: a CarreraClientRunner and the LiveCarreraAdapters it *)
(* makes, one after the other, to hold a link to one control unit.  The    *)
(* reader of an adapter is a task that polls the unit in a thread, the     *)
(* runner a task that takes the adapter's events, and disconnect is called *)
(* by a third one, at any moment.                                          *)
(*                                                                         *)
(* A connection state "reconnecting" is told by its reason.                *)
(***************************************************************************)
EXTENDS RawFrames, DropOldest, FiniteSetsExt

CONSTANTS
    Slots,             \* the slots of the cars on the track
    Statuses,          \* what a Status of the unit may say
    MaxClock,          \* bound on the clock of the unit
    QueueCap,          \* what the queue of an adapter holds
    Warning, Hard,     \* idle_warning_seconds, idle_timeout_seconds
    InitialBackoff, MaxBackoff,
    Periodic,          \* whether the link is renewed from time to time
    DebugRaw

ASSUME LiveAssumption ==
    /\ Slots \subseteq Nat /\ MaxClock \in Nat
    /\ Statuses \subseteq [fuel : Seq(Nat), pit : Seq(BOOLEAN), speed : Seq(Int), start : Nat]
    /\ QueueCap \in Nat \ {0}
    /\ Warning \in Nat \ {0}
    /\ Hard \in Nat /\ Hard >= 3
    /\ InitialBackoff \in Nat /\ MaxBackoff \in Nat /\ MaxBackoff >= InitialBackoff
    /\ {Periodic, DebugRaw} \subseteq BOOLEAN

Cars == {NormalizeSlot(s) : s \in Slots} \ {None}

VARIABLES
    \* the control unit
    clock,       \* of the unit; one tick per crossing
    saying,      \* the frame it answers a poll with
    \* the adapter of the moment
    cu,          \* "none" or "open": its control unit
    reader,      \* its read task: "none", "polling", "cancelling", "cancelled", "failed"
    why,         \* why the task failed: "idle" or "poll"
    streak,      \* polls that timed out in a row
    heard,       \* prev_data, prev_status, _prev_lap_ts and _lap_counts
    inq,         \* its queue of events
    \* the runner
    runner,      \* its task: "off", "connecting", "resetting", "pumping", "closing",
                 \* "dying", "sleeping", "ended", "cancelled"
    first,       \* it has not yet had to try again
    backoff,
    latest,      \* _latest_race_state
    said,        \* the last connection state that it told
    \* disconnect
    asking,      \* "no", "closing", "unlinking", "waiting", "cancelling", "done", "raised"
    \* history
    laps,        \* the laps that the adapters have told
    lost,        \* the queue of this adapter has overflowed
    leaked       \* a link was opened or left open by a cancelled connect

unit == <<clock, saying>>
adapter == <<cu, reader, why, streak, heard, inq, lost>>
client == <<runner, first, backoff, latest, said>>
vars == <<unit, adapter, client, asking, laps, leaked>>

stop == asking # "no"

-----------------------------------------------------------------------------
(* The control unit (external) *)

Silence == [kind |-> "silence"]

\* A unit that is polled has one thing taken from it before it says the next.
Free == reader = "polling" => saying = heard.data

Cross ==
    /\ Free /\ clock < MaxClock
    /\ clock' = clock + 1
    /\ \E s \in Slots : saying' = [kind |-> "timer", slot |-> s, stamp |-> clock']
    /\ UNCHANGED <<adapter, client, asking, laps, leaked>>

Report ==
    /\ Free
    /\ \E s \in Statuses : saying' = [kind |-> "status", status |-> s]
    /\ UNCHANGED <<clock, adapter, client, asking, laps, leaked>>

-----------------------------------------------------------------------------
(* The adapter *)

Fresh == [data |-> Silence, status |-> NoStatus,
          stamp |-> [c \in Cars |-> -1], count |-> [c \in Cars |-> 0]]

Link(state) == [type |-> "connection_state", car |-> None, state |-> state]

\* _enqueue, of several events.
Enqueue(events) ==
    /\ inq' = OfferAll(inq, events, QueueCap)
    /\ lost' = (lost \/ Len(inq) + Len(events) > QueueCap)

\* The read task polls no more, and nobody reads what it knew.
Ends(how) ==
    /\ reader' = how
    /\ heard' = Fresh /\ streak' = 0

\* Mutant: a stalled link is told, and polled on.
StallsOnly ==
    /\ reader = "polling" /\ cu = "open"
    /\ IF streak + 1 >= Hard
       THEN Enqueue(<<Link("stalled")>>) /\ UNCHANGED <<reader, heard, streak, why>>
       ELSE /\ Enqueue(IF streak + 1 >= Warning THEN <<Link("degraded")>> ELSE <<>>)
            /\ streak' = streak + 1
            /\ UNCHANGED <<reader, heard, why>>
    /\ UNCHANGED <<unit, cu, client, asking, laps, leaked>>

\* LinkHealthTracker.on_timeout, and the hard limit of the read loop.
TimesOut ==
    /\ reader = "polling" /\ cu = "open"
    /\ IF streak + 1 >= Hard
       THEN Enqueue(<<Link("stalled")>>) /\ Ends("failed") /\ why' = "idle"
       ELSE /\ Enqueue(IF streak + 1 >= Warning THEN <<Link("degraded")>> ELSE <<>>)
            /\ streak' = streak + 1
            /\ UNCHANGED <<reader, heard, why>>
    /\ UNCHANGED <<unit, cu, client, asking, laps, leaked>>

\* poll raises, on a unit that disconnect has taken away in any case.
PollFails ==
    /\ reader = "polling"
    /\ Ends("failed") /\ why' = "poll"
    /\ UNCHANGED <<unit, cu, inq, lost, client, asking, laps, leaked>>

\* The events of the raw frames of a status, of each frame as many: none is unsupported.
Events(frames) ==
    LET each == IF DebugRaw THEN 2 ELSE 1 IN
    [k \in 1 .. each * Len(frames) |->
       Translate(frames[((k - 1) \div each) + 1], DebugRaw)[((k - 1) % each) + 1]]

Recovered == IF streak > 0 THEN <<Link("connected")>> ELSE <<>>

\* The frame of before again.
Repeats ==
    /\ reader = "polling" /\ cu = "open"
    /\ saying # Silence /\ saying = heard.data
    /\ streak' = 0
    /\ Enqueue(Recovered)
    /\ UNCHANGED <<unit, cu, reader, why, heard, client, asking, laps, leaked>>

HearsStatus ==
    /\ reader = "polling" /\ cu = "open"
    /\ saying.kind = "status" /\ saying # heard.data
    /\ streak' = 0
    /\ heard' = [heard EXCEPT !.data = saying, !.status = saying.status]
    /\ Enqueue(Recovered \o Events(StatusFrames(heard.status, saying.status)))
    /\ UNCHANGED <<unit, cu, reader, why, client, asking, laps, leaked>>

\* Mutant: a frame that is heard again counts again.
HearsTimerAgain ==
    /\ reader = "polling" /\ cu = "open"
    /\ saying.kind = "timer"
    /\ streak' = 0
    /\ LET car   == NormalizeSlot(saying.slot)
           count == heard.count[car] + 1
           frame == LapFrame(car, count, heard.stamp[car], saying.stamp)
       IN IF car # None /\ heard.stamp[car] # -1
          THEN /\ heard' = [heard EXCEPT !.data = saying, !.stamp[car] = saying.stamp,
                                         !.count[car] = count]
               /\ Enqueue(Recovered \o Translate(frame, DebugRaw))
               /\ laps' = Append(laps, frame)
          ELSE /\ heard' = IF car = None THEN [heard EXCEPT !.data = saying]
                           ELSE [heard EXCEPT !.data = saying, !.stamp[car] = saying.stamp]
               /\ Enqueue(Recovered)
               /\ UNCHANGED laps
    /\ UNCHANGED <<unit, cu, reader, why, client, asking, leaked>>

\* _translate_timer: the first crossing of a car is no lap.
HearsTimer ==
    /\ reader = "polling" /\ cu = "open"
    /\ saying.kind = "timer" /\ saying # heard.data
    /\ streak' = 0
    /\ LET car   == NormalizeSlot(saying.slot)
           count == heard.count[car] + 1
           frame == LapFrame(car, count, heard.stamp[car], saying.stamp)
       IN IF car # None /\ heard.stamp[car] # -1
          THEN /\ heard' = [heard EXCEPT !.data = saying, !.stamp[car] = saying.stamp,
                                         !.count[car] = count]
               /\ Enqueue(Recovered \o Translate(frame, DebugRaw))
               /\ laps' = Append(laps, frame)
          ELSE /\ heard' = IF car = None THEN [heard EXCEPT !.data = saying]
                           ELSE [heard EXCEPT !.data = saying, !.stamp[car] = saying.stamp]
               /\ Enqueue(Recovered)
               /\ UNCHANGED laps
    /\ UNCHANGED <<unit, cu, reader, why, client, asking, leaked>>

\* disconnect of the adapter, until it waits for the read task that it cancelled.
BeginClose ==
    IF reader = "polling" THEN Ends("cancelling") ELSE UNCHANGED <<reader, heard, streak>>

ReaderCancelled ==
    /\ reader = "cancelling"
    /\ reader' = "cancelled"
    /\ UNCHANGED <<unit, cu, why, streak, heard, inq, lost, client, asking, laps, leaked>>

\* The rest of it.
EndClose ==
    /\ reader \notin {"polling", "cancelling"}
    /\ reader' = "none"
    /\ cu' = "none"

-----------------------------------------------------------------------------
(* The runner *)

\* The runner leaves the adapter, with what is still in its queue.
Leaves(how) ==
    /\ runner' = how
    /\ BeginClose
    /\ inq' = <<>> /\ lost' = FALSE /\ why' = "poll"

\* The loop of _run: a new adapter.
Attempt ==
    /\ runner' = "connecting"
    /\ said' = "connecting"

\* connect
Connect ==
    /\ runner = "off"
    /\ Attempt
    /\ UNCHANGED <<unit, adapter, first, backoff, latest, asking, laps, leaked>>

ConnectFails ==
    /\ runner = "connecting"
    /\ runner' = IF stop THEN "ended" ELSE "sleeping"
    /\ said' = IF stop THEN "disconnected" ELSE "connect_failed"
    /\ UNCHANGED <<unit, adapter, first, backoff, latest, asking, laps, leaked>>

\* Mutant: a success does not count.
PumpingOn ==
    /\ runner' = "pumping"
    /\ said' = "connected"
    /\ reader' = "polling"
    /\ UNCHANGED backoff

Pumping ==
    /\ runner' = "pumping"
    /\ said' = "connected"
    /\ backoff' = InitialBackoff
    /\ reader' = "polling"

\* Mutant: every unit is reset.
OpenedAnew ==
    /\ runner = "connecting"
    /\ cu' = "open"
    /\ runner' = "resetting"
    /\ UNCHANGED <<unit, said, backoff, reader, why, streak, heard, inq, lost, first, latest,
                   asking, laps, leaked>>

\* The unit is open; a unit of a later attempt is not reset.
Opened ==
    /\ runner = "connecting"
    /\ cu' = "open"
    /\ IF first THEN runner' = "resetting" /\ UNCHANGED <<said, backoff, reader>> ELSE Pumping
    /\ UNCHANGED <<unit, why, streak, heard, inq, lost, first, latest, asking, laps, leaked>>

\* The reset may fail.
Resets ==
    /\ runner = "resetting"
    /\ \/ clock' = 0 /\ saying' = Silence
       \/ UNCHANGED unit
    /\ Pumping
    /\ UNCHANGED <<cu, why, streak, heard, inq, lost, first, latest, asking, laps, leaked>>

\* An event of the adapter; the link is renewed after one, but not in a race.
Forward ==
    /\ runner = "pumping" /\ inq # <<>>
    /\ latest' = IF Head(inq).type = "race_state" THEN Head(inq).state ELSE latest
    /\ LET told == IF Head(inq).type = "connection_state" THEN Head(inq).state ELSE said IN
       \/ /\ ~stop
          /\ said' = told
          /\ inq' = Tail(inq)
          /\ UNCHANGED <<runner, reader, heard, streak, lost, why>>
       \/ /\ stop
          /\ said' = told
          /\ Leaves("closing")
       \/ /\ ~stop /\ Periodic /\ latest' # "running"
          /\ said' = "periodic_maintenance"
          /\ Leaves("closing")
    /\ UNCHANGED <<unit, cu, first, backoff, asking, laps, leaked>>

\* Mutant: the error of the read task is noticed as soon as it has one.
SeesErrorAtOnce ==
    /\ runner = "pumping" /\ reader = "failed"
    /\ said' = "adapter_read_error"
    /\ Leaves("closing")
    /\ UNCHANGED <<unit, cu, first, backoff, latest, asking, laps, leaked>>

\* events raises the error of the read task, once there is nothing else to tell.
SeesError ==
    /\ runner = "pumping" /\ inq = <<>> /\ reader = "failed"
    /\ said' = "adapter_read_error"
    /\ Leaves("closing")
    /\ UNCHANGED <<unit, cu, first, backoff, latest, asking, laps, leaked>>

\* Another caller is closing the adapter; its cancellation of the read task is taken
\* for one of the runner in the moment before that caller forgets the task.
SeesEnd ==
    /\ runner = "pumping" /\ inq = <<>> /\ reader \in {"none", "cancelling", "cancelled"}
    /\ Leaves(IF reader = "cancelled" THEN "dying" ELSE "closing")
    /\ UNCHANGED <<unit, cu, first, backoff, latest, said, asking, laps, leaked>>

\* Mutant: an adapter that is stopped is left alone.
LeavesStopped ==
    /\ runner \in {"closing", "dying"}
    /\ IF stop THEN UNCHANGED <<reader, cu>> ELSE EndClose
    /\ runner' = CASE runner = "dying" -> "cancelled" [] stop -> "ended" [] OTHER -> "sleeping"
    /\ said' = IF stop THEN "disconnected" ELSE said
    /\ UNCHANGED <<unit, why, streak, heard, inq, lost, first, backoff, latest, asking, laps, leaked>>

Closes ==
    /\ runner \in {"closing", "dying"}
    /\ EndClose
    /\ runner' = CASE runner = "dying" -> "cancelled" [] stop -> "ended" [] OTHER -> "sleeping"
    /\ said' = IF stop THEN "disconnected" ELSE said
    /\ UNCHANGED <<unit, why, streak, heard, inq, lost, first, backoff, latest, asking, laps, leaked>>

Later(b) ==
    LET twice == IF b = 0 THEN 1 ELSE 2 * b IN IF twice < MaxBackoff THEN twice ELSE MaxBackoff

Wakes ==
    /\ runner = "sleeping"
    /\ backoff' = Later(backoff)
    /\ first' = FALSE
    /\ IF stop
       THEN runner' = "ended" /\ said' = "disconnected"
       ELSE Attempt
    /\ UNCHANGED <<unit, adapter, latest, asking, laps, leaked>>

-----------------------------------------------------------------------------
(* disconnect *)

\* The adapter of the moment is closed first, as far as it has got.
Disconnect ==
    /\ asking = "no" /\ runner # "off"
    /\ asking' = CASE reader # "none" -> "closing"
                   [] reader = "none" /\ cu = "open" -> "unlinking"
                   [] OTHER -> "waiting"
    /\ BeginClose
    /\ UNCHANGED <<unit, cu, why, inq, lost, client, laps, leaked>>

Closed ==
    /\ \/ asking = "closing" /\ EndClose
       \/ asking = "unlinking" /\ cu' = "none" /\ UNCHANGED reader
    /\ asking' = "waiting"
    /\ UNCHANGED <<unit, why, streak, heard, inq, lost, client, laps, leaked>>

\* Mutant: the task is waited for as long as it takes.
NeverCancels == FALSE /\ UNCHANGED vars

\* Two seconds are over: the task is cancelled.  A thread that is opening the unit
\* goes on, and a unit that is being reset is left as it is; a task that is waiting
\* for the read task does not notice.
Cancel ==
    /\ asking = "waiting" /\ runner \notin {"ended", "cancelled"}
    /\ asking' = "cancelling"
    /\ \/ /\ runner \in {"connecting", "resetting", "sleeping"}
          /\ runner' = "cancelled" /\ said' = "disconnected"
          /\ leaked' \in CASE runner = "connecting" -> {leaked, TRUE}
                          [] runner = "resetting"  -> {leaked \/ cu = "open"}
                          [] OTHER                 -> {leaked}
          /\ UNCHANGED adapter
       \/ /\ runner = "pumping"
          /\ Leaves("dying")
          /\ UNCHANGED <<cu, said, leaked>>
       \/ /\ runner \in {"closing", "dying"}
          /\ IF reader = "cancelling"
             THEN UNCHANGED <<runner, said, reader, cu>>
             ELSE runner' = "cancelled" /\ said' = "disconnected" /\ EndClose
          /\ UNCHANGED <<why, streak, heard, inq, lost, leaked>>
    /\ UNCHANGED <<unit, first, backoff, latest, laps>>

\* The task has ended; a task that was cancelled by no one else raises here.
Returned ==
    /\ asking \in {"waiting", "cancelling"} /\ runner \in {"ended", "cancelled"}
    /\ asking' = IF asking = "waiting" /\ runner = "cancelled" THEN "raised" ELSE "done"
    /\ UNCHANGED <<unit, adapter, client, laps, leaked>>

-----------------------------------------------------------------------------

Init ==
    /\ clock = 0 /\ saying = Silence
    /\ cu = "none" /\ reader = "none" /\ why = "poll" /\ streak = 0
    /\ heard = Fresh /\ inq = <<>> /\ lost = FALSE
    /\ runner = "off" /\ first = TRUE /\ backoff = InitialBackoff
    /\ latest = "unknown" /\ said = "disconnected"
    /\ asking = "no" /\ laps = <<>> /\ leaked = FALSE

Reader == TimesOut \/ PollFails \/ Repeats \/ HearsStatus \/ HearsTimer \/ ReaderCancelled

Runner ==
    \/ ConnectFails \/ Opened \/ Resets
    \/ Forward \/ SeesError \/ SeesEnd \/ Closes \/ Wakes

Disconnecting == Closed \/ Cancel \/ Returned

Next == Cross \/ Report \/ Reader \/ Connect \/ Runner \/ Disconnect \/ Disconnecting

\* The loop runs every task that can run, and a poll and a close end.  To open or
\* to reset a unit may take forever, the unit may be silent, and nobody has to
\* call connect or disconnect.
Fairness ==
    /\ WF_vars(Reader)
    /\ WF_vars(Forward \/ SeesError \/ SeesEnd \/ Closes)
    /\ WF_vars(Wakes)
    /\ WF_vars(Disconnecting)

Spec == Init /\ [][Next]_vars /\ Fairness

-----------------------------------------------------------------------------
(* Properties *)

TypeOK ==
    /\ clock \in 0 .. MaxClock
    /\ cu \in {"none", "open"}
    /\ reader \in {"none", "polling", "cancelling", "cancelled", "failed"}
    /\ why \in {"idle", "poll"}
    /\ streak \in 0 .. Hard - 1
    /\ Len(inq) <= QueueCap /\ \A i \in DOMAIN inq : Accepts(inq[i])
    /\ runner \in {"off", "connecting", "resetting", "pumping", "closing", "dying",
                   "sleeping", "ended", "cancelled"}
    /\ backoff \in InitialBackoff .. MaxBackoff
    /\ asking \in {"no", "closing", "unlinking", "waiting", "cancelling", "done", "raised"}
    /\ {first, lost, leaked} \subseteq BOOLEAN

\* Of one car, the laps that a session tells lie one after the other on the clock of
\* the unit, however often the link was renewed and a frame repeated.
LapsDoNotOverlap ==
    \A i, j \in DOMAIN laps :
       i < j /\ laps[i].car = laps[j].car =>
         /\ laps[j].time > 0
         /\ laps[j].stamp - laps[j].time >= laps[i].stamp

\* The last event of a kind on its way to the runner, or what it has got already.
LastOf(type, got) ==
    LET there == {i \in DOMAIN inq : inq[i].type = type} IN
    IF there = {} THEN got ELSE inq[Max(there)].state

\* While a unit is polled, what has been told of the link and of the race is what the
\* polls say, unless the queue lost some of it.
ToldAsPolled ==
    runner = "pumping" /\ reader = "polling" /\ ~lost =>
      /\ (LastOf("connection_state", said) = "degraded") = (streak >= Warning)
      /\ heard.status # NoStatus =>
           LastOf("race_state", latest) = StartState(heard.status.start)

\* A link that is given up because it is idle was told to have stalled just before.
StallToldFirst ==
    [][/\ runner = "pumping" /\ said' = "adapter_read_error" /\ said' # said
       /\ why = "idle" /\ ~lost
       => said = "stalled"]_vars

\* When disconnect is through, no task and no link of it is left, except a link that
\* was being opened or reset when two seconds were over.
NothingLeftOpen ==
    asking \in {"done", "raised"} =>
      /\ runner \in {"ended", "cancelled"}
      /\ reader \notin {"polling", "cancelling"}
      /\ cu = "none" \/ leaked

\* After a link that was up, the next attempt is not put off longer than the first.
BackoffStartsAnew ==
    [][runner = "closing" /\ runner' = "sleeping" => backoff = InitialBackoff]_vars

\* A unit that is silent for good is not polled forever.
SilenceIsGivenUp == []<>(streak = 0 \/ reader # "polling")

\* disconnect comes to an end, whatever the runner was doing.
DisconnectEnds == stop ~> asking \in {"done", "raised"}
=============================================================================
