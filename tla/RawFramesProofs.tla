--------------------------- MODULE RawFramesProofs ---------------------------
(***************************************************************************)
(* What the translation of raw frames promises for every number in them.   *)
(* translate_raw_frame catches the refusal of a lap and of nothing else:   *)
(* the refusal of any other event would end the read loop.                 *)
(***************************************************************************)
EXTENDS RawFrames, TLAPS

\* A car as the control unit can name it, or none.
CarIds == {None} \cup 1 .. 8

\* Any string; the provers have to be told that a name in quotes is one.
Words == STRING \cup RaceStates \cup LinkStates \cup PitReasons

\* The frames with fields of the right kind, whatever their values.
Frames ==
    [kind : {"lap"}, car : CarIds, number : Int, time : Int, stamp : Int]
    \cup [kind : {"fuel"}, car : CarIds, level : Int]
    \cup [kind : {"race_state"}, state : Words]
    \cup [kind : {"controller_input"}, car : CarIds, throttle : Int, brake : Int]
    \cup [kind : {"speed"}, car : CarIds, speed : Int]
    \cup [kind : {"brake"}, car : CarIds, brake : Int]
    \cup [kind : {"pitlane"}, car : CarIds, pit : BOOLEAN, reason : Words]
    \cup [kind : {"connection_state"}, state : Words]
    \cup [kind : {"unknown"}]

\* Every frame becomes an event that the event model accepts, so that a poll never ends
\* the read loop by what it says (carrera_client.py, translate_raw_frame against
\* event_model.py, _payload_shape).
THEOREM AlwaysAccepted == \A f \in Frames : Accepts(Primary(f))
<1> SUFFICES ASSUME NEW f \in Frames
             PROVE  Accepts(Primary(f))
  OBVIOUS
<1>1. CASE f \in [kind : {"lap"}, car : CarIds, number : Int, time : Int, stamp : Int]
  <2>1. Primary(f) = IF Accepts(LapEvent(f)) THEN LapEvent(f) ELSE Unsupported
    BY <1>1 DEF Primary
  <2>2. Accepts(Unsupported)
    BY DEF Accepts, Unsupported, None
  <2> QED
    BY <2>1, <2>2
<1>2. CASE f \in [kind : {"fuel"}, car : CarIds, level : Int]
  <2>1. Primary(f) = [type |-> "fuel", car |-> f.car, level |-> Clamp(f.level, 0, FullTank)]
    BY <1>2 DEF Primary
  <2>2. Clamp(f.level, 0, FullTank) \in 0 .. FullTank
    <3>1. f.level \in Int
      BY <1>2
    <3> QED
      BY <3>1 DEF Clamp, FullTank
  <2>3. f.car \in CarIds
    BY <1>2
  <2> QED
    BY <2>1, <2>2, <2>3 DEF Accepts, CarIds
<1>3. CASE f \in [kind : {"race_state"}, state : Words]
  BY <1>3 DEF Primary, Accepts, RaceStates, None
<1>4. CASE f \in [kind : {"controller_input"}, car : CarIds, throttle : Int, brake : Int]
  <2>1. Primary(f) = [type |-> "controller_input", car |-> f.car,
                      throttle |-> Clamp(f.throttle, 0, 100), brake |-> Clamp(f.brake, 0, 100)]
    BY <1>4 DEF Primary
  <2>2. Clamp(f.throttle, 0, 100) \in 0 .. 100 /\ Clamp(f.brake, 0, 100) \in 0 .. 100
    <3>1. f.throttle \in Int /\ f.brake \in Int
      BY <1>4
    <3> QED
      BY <3>1 DEF Clamp
  <2>3. f.car \in CarIds
    BY <1>4
  <2> QED
    BY <2>1, <2>2, <2>3 DEF Accepts, CarIds
<1>5. CASE f \in [kind : {"speed"}, car : CarIds, speed : Int]
  <2>1. Primary(f) = [type |-> "speed", car |-> f.car, speed |-> NotNegative(f.speed)]
    BY <1>5 DEF Primary
  <2>2. NotNegative(f.speed) >= 0
    <3>1. f.speed \in Int
      BY <1>5
    <3> QED
      BY <3>1 DEF NotNegative
  <2>3. f.car \in CarIds
    BY <1>5
  <2> QED
    BY <2>1, <2>2, <2>3 DEF Accepts, CarIds
<1>6. CASE f \in [kind : {"brake"}, car : CarIds, brake : Int]
  <2>1. Primary(f) = [type |-> "brake", car |-> f.car, brake |-> Clamp(f.brake, 0, 100)]
    BY <1>6 DEF Primary
  <2>2. Clamp(f.brake, 0, 100) \in 0 .. 100
    <3>1. f.brake \in Int
      BY <1>6
    <3> QED
      BY <3>1 DEF Clamp
  <2>3. f.car \in CarIds
    BY <1>6
  <2> QED
    BY <2>1, <2>2, <2>3 DEF Accepts, CarIds
<1>7. CASE f \in [kind : {"pitlane"}, car : CarIds, pit : BOOLEAN, reason : Words]
  BY <1>7 DEF Primary, Accepts, CarIds, PitReasons
<1>8. CASE f \in [kind : {"connection_state"}, state : Words]
  BY <1>8 DEF Primary, Accepts, LinkStates, None
<1>9. CASE f \in [kind : {"unknown"}]
  BY <1>9 DEF Primary, Accepts, Unsupported, None
<1> QED
  BY <1>1, <1>2, <1>3, <1>4, <1>5, <1>6, <1>7, <1>8, <1>9 DEF Frames

\* A crossing of a car after an earlier one is told as a lap with its number, never as
\* an event that is not supported (carrera_client.py, _translate_timer).
THEOREM CrossingIsALap ==
    ASSUME NEW car \in 1 .. 6, NEW number \in Nat \ {0},
           NEW prev \in Nat, NEW stamp \in Nat, prev <= stamp
    PROVE  Primary(LapFrame(car, number, prev, stamp)) =
             [type |-> "lap", car |-> car, number |-> number, time |-> stamp - prev, stamp |-> stamp]
<1> DEFINE f == LapFrame(car, number, prev, stamp)
<1>1. LapEvent(f) =
        [type |-> "lap", car |-> car, number |-> number, time |-> stamp - prev, stamp |-> stamp]
  BY DEF LapEvent, LapFrame
<1>2. Accepts(LapEvent(f))
  BY <1>1 DEF Accepts
<1>3. Primary(f) = IF Accepts(LapEvent(f)) THEN LapEvent(f) ELSE Unsupported
  BY DEF Primary, LapFrame
<1> QED
  BY <1>1, <1>2, <1>3
=============================================================================
