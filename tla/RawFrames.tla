----------------------------- MODULE RawFrames -----------------------------
(***************************************************************************)
(* What the live adapter makes of what the control unit says: a Timer or   *)
(* Status of the unit becomes raw frames (carrera_client.py), a raw frame  *)
(* becomes telemetry events, and event_model.py refuses a malformed event. *)
(*                                                                         *)
(* A level is in fifteenths of a percent and an input in hundredths, so    *)
(* that both are integers.                                                 *)
(***************************************************************************)
EXTENDS Integers, Sequences, FiniteSets

None == 0

RaceStates == {"idle", "countdown", "running", "paused", "finished"}

LinkStates == {"disconnected", "manually_disconnected", "scanning", "connecting",
               "connected", "subscribing", "ready", "stale", "degraded", "stalled",
               "reconnecting", "error"}

PitReasons == {"manual", "fuel", "unknown"}

FullTank == 1500

-----------------------------------------------------------------------------
(* From a raw frame to an event *)

Clamp(value, lo, hi) == IF value < lo THEN lo ELSE IF value > hi THEN hi ELSE value

NotNegative(value) == IF value < 0 THEN 0 ELSE value

Unsupported == [type |-> "not_supported", car |-> None]

\* TelemetryEvent: what the checks of the payload let through.
Accepts(e) ==
    /\ e.car \in {None} \cup 1 .. 8
    /\ CASE e.type = "lap"              -> e.number >= 1 /\ e.time >= 0 /\ e.stamp >= 0
         [] e.type = "race_state"       -> e.state \in RaceStates
         [] e.type = "fuel"             -> e.level \in 0 .. FullTank
         [] e.type = "controller_input" -> e.throttle \in 0 .. 100 /\ e.brake \in 0 .. 100
         [] e.type = "speed"            -> e.speed >= 0
         [] e.type = "brake"            -> e.brake \in 0 .. 100
         [] e.type = "pitlane"          -> e.reason \in PitReasons
         [] e.type = "connection_state" -> e.state \in LinkStates
         [] OTHER                       -> e.type \in {"raw", "not_supported"}

LapEvent(f) ==
    [type |-> "lap", car |-> f.car, number |-> f.number, time |-> f.time, stamp |-> f.stamp]

\* translate_raw_frame.  Only a lap that the model refuses is turned into another event.
Primary(f) ==
    CASE f.kind = "lap" -> IF Accepts(LapEvent(f)) THEN LapEvent(f) ELSE Unsupported
      [] f.kind = "fuel" ->
           [type |-> "fuel", car |-> f.car, level |-> Clamp(f.level, 0, FullTank)]
      [] f.kind = "race_state" ->
           [type |-> "race_state", car |-> None,
            state |-> IF f.state \in RaceStates THEN f.state ELSE "idle"]
      [] f.kind = "controller_input" ->
           [type |-> "controller_input", car |-> f.car,
            throttle |-> Clamp(f.throttle, 0, 100), brake |-> Clamp(f.brake, 0, 100)]
      [] f.kind = "speed" ->
           [type |-> "speed", car |-> f.car, speed |-> NotNegative(f.speed)]
      [] f.kind = "brake" ->
           [type |-> "brake", car |-> f.car, brake |-> Clamp(f.brake, 0, 100)]
      [] f.kind = "pitlane" ->
           [type |-> "pitlane", car |-> f.car, pit |-> f.pit,
            reason |-> IF f.reason \in PitReasons THEN f.reason ELSE "unknown"]
      [] f.kind = "connection_state" ->
           [type |-> "connection_state", car |-> None,
            state |-> IF f.state \in LinkStates THEN f.state ELSE "disconnected"]
      [] OTHER -> Unsupported

\* The event, and its companion when raw frames are wanted.
Translate(f, debugRaw) ==
    IF debugRaw /\ Primary(f).type # "not_supported"
    THEN <<Primary(f), [type |-> "raw", car |-> Primary(f).car]>>
    ELSE <<Primary(f)>>

-----------------------------------------------------------------------------
(* From the control unit to raw frames *)

\* CarSlotMapping in its zero_based mode; None for a slot without a car.
NormalizeSlot(slot) == IF slot + 1 \in 1 .. 6 THEN slot + 1 ELSE None

\* _START_TO_STATE
StartState(start) ==
    CASE start \in 1 .. 5 -> "countdown"
      [] start = 6        -> "running"
      [] start = 7        -> "paused"
      [] OTHER            -> "idle"

\* The numbers of S, the least first.
InOrder(S) ==
    CHOOSE order \in [1 .. Cardinality(S) -> S] :
        \A i, j \in DOMAIN order : i < j => order[i] < order[j]

\* The slots of now with a car, whose value is not that of prev.
ChangedSlots(prev, now) ==
    InOrder({i \in 1 .. Len(now) :
               NormalizeSlot(i - 1) # None /\ (i > Len(prev) \/ prev[i] # now[i])})

FuelFrames(prev, status) ==
    LET slots == ChangedSlots(prev.fuel, status.fuel) IN
    [k \in DOMAIN slots |->
       [kind |-> "fuel", car |-> NormalizeSlot(slots[k] - 1), level |-> status.fuel[slots[k]] * 100]]

PitFrames(prev, status) ==
    LET slots == ChangedSlots(prev.pit, status.pit) IN
    [k \in DOMAIN slots |->
       [kind |-> "pitlane", car |-> NormalizeSlot(slots[k] - 1),
        pit |-> status.pit[slots[k]], reason |-> "unknown"]]

\* Some builds of the unit's library tell the speeds as well.
SpeedFrames(prev, status) ==
    LET slots == ChangedSlots(prev.speed, status.speed) IN
    [k \in DOMAIN slots |->
       [kind |-> "speed", car |-> NormalizeSlot(slots[k] - 1),
        speed |-> NotNegative(status.speed[slots[k]])]]

\* Before the first status of an adapter.
NoStatus == [fuel |-> <<>>, pit |-> <<>>, speed |-> <<>>, start |-> -1]

\* Mutant: the first status says nothing of the race.
StartFramesOfAChange(prev, status) ==
    IF prev.start \notin {-1, status.start}
    THEN <<[kind |-> "race_state", state |-> StartState(status.start)]>>
    ELSE <<>>

StartFrames(prev, status) ==
    IF prev.start # status.start
    THEN <<[kind |-> "race_state", state |-> StartState(status.start)]>>
    ELSE <<>>

\* _translate_status
StatusFrames(prev, status) ==
    FuelFrames(prev, status) \o PitFrames(prev, status)
        \o SpeedFrames(prev, status) \o StartFrames(prev, status)

\* _translate_timer: the crossing of a car that crossed before at the stamp prev.
LapFrame(car, number, prev, stamp) ==
    [kind |-> "lap", car |-> car, number |-> number, time |-> stamp - prev, stamp |-> stamp]
=============================================================================
