-------------------------- MODULE LiveRunnerProofs --------------------------
(***************************************************************************)
(* What holds of LiveRunner for every set of slots and statuses, every     *)
(* limit and every queue: a disconnect leaves nothing behind, an attempt   *)
(* after a success is not put off, the laps lie one after the other, and   *)
(* what the queue tells the runner is what the polls have said.            *)
(***************************************************************************)
EXTENDS LiveRunner, RawFramesProofs, FiniteSetTheorems, TLAPS

ST == INSTANCE SequenceTheorems

-----------------------------------------------------------------------------
(* Who holds the unit *)

(* Where the runner is tells what of its adapter is left: nothing before it  *)
(* has opened a unit and after it has closed one, no reader while it resets. *)
Control ==
    /\ cu \in {"none", "open"} /\ leaked \in BOOLEAN
    /\ runner \in {"off", "connecting", "sleeping", "ended"} => reader = "none" /\ cu = "none"
    /\ runner = "resetting" => reader = "none"
    /\ runner = "cancelled" => reader = "none" /\ (cu = "none" \/ leaked)
    /\ asking \in {"done", "raised"} => runner \in {"ended", "cancelled"}

\* The back-off is the first one from a success until the runner sleeps.
Anew == runner \in {"pumping", "closing", "dying"} => backoff = InitialBackoff

LEMMA ControlInit == Init => Control /\ Anew
BY DEF Init, Control, Anew

\* Steps of the unit and of the reader leave the runner and its unit alone; the
\* reader goes on only from a poll or from its cancellation.
LEMMA ControlReader ==
    ASSUME Control, Anew, Cross \/ Report \/ Reader
    PROVE  Control' /\ Anew'
<1>1. CASE Cross \/ Report
  BY <1>1 DEF Cross, Report, Control, Anew, adapter, client
<1>2. CASE TimesOut \/ PollFails
  BY <1>2 DEF TimesOut, PollFails, Ends, Control, Anew, client
<1>3. CASE Repeats \/ HearsStatus \/ HearsTimer \/ ReaderCancelled
  BY <1>3 DEF Repeats, HearsStatus, HearsTimer, ReaderCancelled, Control, Anew, client
<1> QED
  BY <1>1, <1>2, <1>3 DEF Reader

LEMMA ControlConnect ==
    ASSUME Control, Anew, Connect \/ ConnectFails \/ Opened \/ Resets \/ Wakes
    PROVE  Control' /\ Anew'
<1>1. CASE Connect
  BY <1>1 DEF Connect, Attempt, Control, Anew, adapter
<1>2. CASE ConnectFails
  BY <1>2 DEF ConnectFails, Control, Anew, adapter
<1>3. CASE Opened
  BY <1>3 DEF Opened, Pumping, Control, Anew
<1>4. CASE Resets
  BY <1>4 DEF Resets, Pumping, Control, Anew
<1>5. CASE Wakes
  BY <1>5 DEF Wakes, Attempt, Control, Anew, adapter
<1> QED
  BY <1>1, <1>2, <1>3, <1>4, <1>5

LEMMA ControlPump ==
    ASSUME Control, Anew, Forward \/ SeesError \/ SeesEnd \/ Closes
    PROVE  Control' /\ Anew'
<1>1. CASE Forward
  BY <1>1 DEF Forward, Leaves, BeginClose, Ends, Control, Anew
<1>2. CASE SeesError \/ SeesEnd
  BY <1>2 DEF SeesError, SeesEnd, Leaves, BeginClose, Ends, Control, Anew
<1>3. CASE Closes
  BY <1>3 DEF Closes, EndClose, Control, Anew
<1> QED
  BY <1>1, <1>2, <1>3

LEMMA ControlDisconnect ==
    ASSUME Control, Anew, Disconnect \/ Disconnecting
    PROVE  Control' /\ Anew'
<1>1. CASE Disconnect
  BY <1>1 DEF Disconnect, BeginClose, Ends, Control, Anew, client
<1>2. CASE Closed
  BY <1>2 DEF Closed, EndClose, Control, Anew, client
<1>3. CASE Cancel
  <2>1. CASE runner \in {"connecting", "resetting", "sleeping"}
    BY <1>3, <2>1 DEF Cancel, Control, Anew, adapter
  <2>2. CASE runner = "pumping"
    BY <1>3, <2>2 DEF Cancel, Leaves, BeginClose, Ends, Control, Anew
  <2>3. CASE runner \in {"closing", "dying"}
    BY <1>3, <2>3 DEF Cancel, EndClose, Control, Anew
  <2> QED
    BY <1>3, <2>1, <2>2, <2>3 DEF Cancel
<1>4. CASE Returned
  BY <1>4 DEF Returned, Control, Anew, adapter, client
<1> QED
  BY <1>1, <1>2, <1>3, <1>4 DEF Disconnecting

LEMMA ControlStep == Control /\ Anew /\ [Next]_vars => Control' /\ Anew'
<1> SUFFICES ASSUME Control, Anew, [Next]_vars
             PROVE  Control' /\ Anew'
  OBVIOUS
<1>1. CASE UNCHANGED vars
  BY <1>1 DEF vars, adapter, client, Control, Anew
<1> QED
  BY <1>1, ControlReader, ControlConnect, ControlPump, ControlDisconnect DEF Next, Runner

LEMMA AlwaysControl == Spec => [](Control /\ Anew)
BY ControlInit, ControlStep, PTL DEF Spec

\* When a disconnect is through, no task of the runner polls or waits, and no unit is
\* open but one whose opening or reset was cancelled (carrera_client.py, disconnect
\* of the runner and of the adapter).
THEOREM NothingLeft == Spec => []NothingLeftOpen
<1>1. Control => NothingLeftOpen
  BY DEF Control, NothingLeftOpen
<1> QED
  BY <1>1, AlwaysControl, PTL

\* Every way from a link that was up to the next wait has the first back-off
\* (carrera_client.py, _run).
THEOREM BackoffAnew == Spec => BackoffStartsAnew
<1>1. Anew => (runner = "closing" /\ runner' = "sleeping" => backoff = InitialBackoff)
  BY DEF Anew
<1> QED
  BY <1>1, AlwaysControl, PTL DEF BackoffStartsAnew

-----------------------------------------------------------------------------
(* The laps *)

Sayings ==
    {Silence} \cup [kind : {"timer"}, slot : Slots, stamp : Nat]
        \cup [kind : {"status"}, status : Statuses]

Laps == [kind : {"lap"}, car : Cars, number : Int, time : Int, stamp : Nat]

Knowledge ==
    [data : Sayings, status : Statuses \cup {NoStatus},
     stamp : [Cars -> Int], count : [Cars -> Nat]]

LapTypes ==
    /\ clock \in Nat /\ saying \in Sayings
    /\ heard \in Knowledge
    /\ laps \in Seq(Laps)

(* What is remembered of an adapter goes with its reader, and no lap is told     *)
(* before the one reset of the clock.                                        *)
Memory ==
    /\ reader # "polling" => heard = Fresh
    /\ runner = "off" => first
    /\ runner \in {"off", "resetting"} => laps = <<>>
    /\ runner = "connecting" /\ first => laps = <<>>

(* The clock is not behind anything that was told, and a crossing that is not    *)
(* the one heard last is after all that this reader has heard.               *)
Stamps ==
    /\ \A c \in Cars : heard.stamp[c] <= clock
    /\ \A i \in DOMAIN laps :
         /\ laps[i].stamp <= clock
         /\ heard.stamp[laps[i].car] # -1 => laps[i].stamp <= heard.stamp[laps[i].car]
    /\ saying.kind = "timer" =>
         /\ saying.stamp <= clock
         /\ \A i \in DOMAIN laps : laps[i].stamp <= saying.stamp
         /\ saying = heard.data \/ \A c \in Cars : heard.stamp[c] < saying.stamp

LapInv == LapTypes /\ Memory /\ Stamps /\ LapsDoNotOverlap

LEMMA FreshTyped == Fresh \in Knowledge
BY DEF Fresh, Knowledge, Sayings

LEMMA LapAt == LapInv => \A i \in DOMAIN laps : laps[i] \in Laps
BY DEF LapInv, LapTypes

LEMMA LapsInit == Init => LapInv
<1> SUFFICES ASSUME Init PROVE LapInv
  OBVIOUS
<1>1. LapTypes
  BY FreshTyped DEF Init, LapTypes, Sayings
<1>2. Memory /\ LapsDoNotOverlap
  BY DEF Init, Memory, LapsDoNotOverlap
<1>3. Stamps
  BY DEF Init, Stamps, Fresh, Silence
<1> QED
  BY <1>1, <1>2, <1>3 DEF LapInv

\* A reader that stops forgets: nothing it heard holds the next one back.
LEMMA Forgotten ==
    ASSUME LapInv, UNCHANGED <<clock, saying, laps>>,
           heard' = Fresh \/ heard' = heard,
           Memory'
    PROVE  LapInv'
<1>1. LapTypes' /\ LapsDoNotOverlap'
  BY FreshTyped DEF LapInv, LapTypes, LapsDoNotOverlap
<1>2. Stamps'
  <2>1. CASE heard' = heard
    BY <2>1 DEF LapInv, Stamps
  <2>2. CASE heard' = Fresh
    <3>1. \A i \in DOMAIN laps : laps[i].car \in Cars
      BY LapAt DEF Laps
    <3>2. saying.kind = "timer" => saying.stamp \in Nat
      BY DEF LapInv, LapTypes, Sayings, Silence
    <3>3. \A c \in Cars : heard'.stamp[c] = -1
      BY <2>2 DEF Fresh
    <3> QED
      BY <3>1, <3>2, <3>3 DEF LapInv, LapTypes, Stamps
  <2> QED
    BY <2>1, <2>2
<1> QED
  BY <1>1, <1>2 DEF LapInv

LEMMA LapsOfReader ==
    ASSUME Control, LapInv, TimesOut \/ PollFails \/ Repeats \/ ReaderCancelled
    PROVE  LapInv'
<1>1. heard' = Fresh \/ heard' = heard
  BY DEF TimesOut, PollFails, Repeats, ReaderCancelled, Ends
<1>2. UNCHANGED <<clock, saying, laps, runner, first>>
  BY DEF TimesOut, PollFails, Repeats, ReaderCancelled, unit, client
<1>3. reader' # "polling" => heard' = Fresh
  BY DEF TimesOut, PollFails, Repeats, ReaderCancelled, Ends, LapInv, Memory
<1>4. Memory'
  BY <1>2, <1>3 DEF LapInv, Memory
<1> QED
  BY <1>1, <1>2, <1>4, Forgotten

LEMMA LapsOfUnit ==
    ASSUME Control, LapInv, Cross \/ Report
    PROVE  LapInv'
<1>1. UNCHANGED <<heard, laps, reader, runner, first>>
  BY DEF Cross, Report, adapter, client
<1>2. Memory' /\ LapsDoNotOverlap'
  BY <1>1 DEF LapInv, Memory, LapsDoNotOverlap
<1>3. CASE Cross
  <2>1. PICK s \in Slots : saying' = [kind |-> "timer", slot |-> s, stamp |-> clock']
    BY <1>3 DEF Cross
  <2>2. clock' = clock + 1 /\ clock \in Nat
    BY <1>3 DEF Cross, LapInv, LapTypes
  <2>3. LapTypes'
    BY <1>1, <2>1, <2>2 DEF LapInv, LapTypes, Sayings
  <2>4. \A i \in DOMAIN laps : laps[i].stamp \in Nat /\ laps[i].car \in Cars
    BY LapAt DEF Laps
  <2>5. \A c \in Cars : heard.stamp[c] \in Int
    BY DEF LapInv, LapTypes, Knowledge
  <2>6. Stamps'
    BY <1>1, <2>1, <2>2, <2>4, <2>5 DEF LapInv, Stamps
  <2> QED
    BY <1>2, <2>3, <2>6 DEF LapInv
<1>4. CASE Report
  <2>1. PICK s \in Statuses : saying' = [kind |-> "status", status |-> s]
    BY <1>4 DEF Report
  <2>2. clock' = clock
    BY <1>4 DEF Report
  <2>3. LapTypes'
    BY <1>1, <2>1, <2>2 DEF LapInv, LapTypes, Sayings
  <2>4. saying'.kind # "timer"
    BY <2>1
  <2>5. Stamps'
    BY <1>1, <2>2, <2>4 DEF LapInv, Stamps
  <2> QED
    BY <1>2, <2>3, <2>5 DEF LapInv
<1> QED
  BY <1>3, <1>4

LEMMA LapsOfStatus ==
    ASSUME Control, LapInv, HearsStatus
    PROVE  LapInv'
<1>1. UNCHANGED <<clock, saying, laps, reader, runner, first>>
  BY DEF HearsStatus, unit, client
<1>2. saying.kind = "status" /\ reader = "polling"
  BY DEF HearsStatus
<1>3. heard' = [heard EXCEPT !.data = saying, !.status = saying.status]
  BY DEF HearsStatus
<1>4. saying.status \in Statuses
  BY <1>2 DEF LapInv, LapTypes, Sayings, Silence
<1>5. heard' \in Knowledge /\ heard'.stamp = heard.stamp
  BY <1>3, <1>4 DEF LapInv, LapTypes, Knowledge
<1>6. LapTypes' /\ LapsDoNotOverlap'
  BY <1>1, <1>5 DEF LapInv, LapTypes, LapsDoNotOverlap
<1>7. Memory' /\ Stamps'
  BY <1>1, <1>2, <1>5 DEF LapInv, Memory, Stamps
<1> QED
  BY <1>6, <1>7 DEF LapInv

\* What the reader knows after a crossing: the first of a car, or a lap.
LEMMA Heard1 ==
    ASSUME LapInv, NEW c \in Cars, NEW t \in Int,
           heard' = [heard EXCEPT !.data = saying, !.stamp[c] = t]
    PROVE  /\ heard' \in Knowledge /\ heard'.data = saying
           /\ \A d \in Cars : heard'.stamp[d] = IF d = c THEN t ELSE heard.stamp[d]
<1>1. heard \in Knowledge /\ saying \in Sayings
  BY DEF LapInv, LapTypes
<1>2. heard' = [data |-> saying, status |-> heard.status,
                stamp |-> [heard.stamp EXCEPT ![c] = t], count |-> heard.count]
  BY <1>1 DEF Knowledge
<1> QED
  BY <1>1, <1>2 DEF Knowledge

LEMMA Heard2 ==
    ASSUME LapInv, NEW c \in Cars, NEW t \in Int, NEW n \in Nat,
           heard' = [heard EXCEPT !.data = saying, !.stamp[c] = t, !.count[c] = n]
    PROVE  /\ heard' \in Knowledge /\ heard'.data = saying
           /\ \A d \in Cars : heard'.stamp[d] = IF d = c THEN t ELSE heard.stamp[d]
<1>1. heard \in Knowledge /\ saying \in Sayings
  BY DEF LapInv, LapTypes
<1>2. heard' = [data |-> saying, status |-> heard.status,
                stamp |-> [heard.stamp EXCEPT ![c] = t],
                count |-> [heard.count EXCEPT ![c] = n]]
  BY <1>1 DEF Knowledge
<1> QED
  BY <1>1, <1>2 DEF Knowledge

\* A crossing that is heard is after all laps told and after all crossings heard.
LEMMA LapsOfTimer ==
    ASSUME Control, LapInv, HearsTimer
    PROVE  LapInv'
<1> DEFINE car   == NormalizeSlot(saying.slot)
           now   == saying.stamp
           frame == LapFrame(car, heard.count[car] + 1, heard.stamp[car], now)
<1>1. UNCHANGED <<clock, saying, reader, runner, first>>
  BY DEF HearsTimer, unit, client
<1>2. /\ saying \in [kind : {"timer"}, slot : Slots, stamp : Nat]
      /\ reader = "polling" /\ saying # heard.data
  BY DEF HearsTimer, LapInv, LapTypes, Sayings, Silence
<1>3. now \in Nat /\ now <= clock /\ clock \in Nat
  BY <1>2 DEF LapInv, LapTypes, Stamps
<1>4. car # None => car \in Cars
  BY <1>2 DEF Cars
<1>5. \A c \in Cars : heard.stamp[c] \in Int /\ heard.stamp[c] < now /\ heard.count[c] \in Nat
  BY <1>2 DEF LapInv, LapTypes, Knowledge, Stamps
<1>6. \A i \in DOMAIN laps :
         /\ laps[i] \in Laps /\ laps[i].stamp <= now
         /\ heard.stamp[laps[i].car] # -1 => laps[i].stamp <= heard.stamp[laps[i].car]
  BY <1>2 DEF LapInv, LapTypes, Stamps
<1>7. ~ (runner \in {"off", "resetting"}) /\ ~ (runner = "connecting" /\ first)
  BY <1>2 DEF Control
<1>8. Memory'
  BY <1>1, <1>2, <1>7 DEF LapInv, Memory
<1>9. CASE car = None
  <2>1. heard' = [heard EXCEPT !.data = saying] /\ laps' = laps
    BY <1>9 DEF HearsTimer
  <2>2. heard' \in Knowledge /\ heard'.stamp = heard.stamp /\ heard'.data = saying
    BY <2>1 DEF LapInv, LapTypes, Knowledge
  <2>3. LapTypes' /\ Stamps' /\ LapsDoNotOverlap'
    BY <1>1, <2>1, <2>2 DEF LapInv, LapTypes, Stamps, LapsDoNotOverlap
  <2> QED
    BY <1>8, <2>3 DEF LapInv
<1>10. CASE car # None /\ heard.stamp[car] = -1
  <2>1. heard' = [heard EXCEPT !.data = saying, !.stamp[car] = now] /\ laps' = laps
    BY <1>10 DEF HearsTimer
  <2>2. /\ heard' \in Knowledge /\ heard'.data = saying
        /\ \A c \in Cars : heard'.stamp[c] = IF c = car THEN now ELSE heard.stamp[c]
    <3>1. car \in Cars /\ now \in Int
      BY <1>3, <1>4, <1>10
    <3> HIDE DEF car, now
    <3> QED
      BY ONLY LapInv, <2>1, <3>1, Heard1
  <2>3. LapTypes' /\ LapsDoNotOverlap'
    BY <1>1, <2>1, <2>2 DEF LapInv, LapTypes, LapsDoNotOverlap
  <2>4. Stamps'
    BY <1>1, <1>3, <1>5, <1>6, <2>1, <2>2 DEF LapInv, Stamps, Laps
  <2> QED
    BY <1>8, <2>3, <2>4 DEF LapInv
<1>11. CASE car # None /\ heard.stamp[car] # -1
  <2>1. /\ heard' = [heard EXCEPT !.data = saying, !.stamp[car] = now,
                                  !.count[car] = heard.count[car] + 1]
        /\ laps' = Append(laps, frame)
    BY <1>11 DEF HearsTimer
  <2>2. /\ heard' \in Knowledge /\ heard'.data = saying
        /\ \A c \in Cars : heard'.stamp[c] = IF c = car THEN now ELSE heard.stamp[c]
    <3>1. car \in Cars /\ now \in Int /\ heard.count[car] + 1 \in Nat
      BY <1>3, <1>4, <1>5, <1>11
    <3> HIDE DEF car, now
    <3> QED
      BY ONLY LapInv, <2>1, <3>1, Heard2
  <2>3. /\ frame \in Laps /\ frame.car = car /\ frame.stamp = now
        /\ frame.time = now - heard.stamp[car]
    BY <1>3, <1>4, <1>5, <1>11 DEF LapFrame, Laps
  <2> HIDE DEF frame
  <2>4. laps \in Seq(Laps)
    BY DEF LapInv, LapTypes
  <2>5. LapTypes'
    BY <1>1, <2>1, <2>2, <2>3, <2>4 DEF LapInv, LapTypes
  <2>6. /\ DOMAIN laps' = 1 .. Len(laps) + 1 /\ Len(laps) \in Nat
        /\ \A i \in 1 .. Len(laps) : laps'[i] = laps[i]
        /\ laps'[Len(laps) + 1] = frame /\ DOMAIN laps = 1 .. Len(laps)
    BY <2>1, <2>4
  <2>7. Stamps'
    <3>1. ASSUME NEW i \in DOMAIN laps'
          PROVE  /\ laps'[i].car \in Cars /\ laps'[i].stamp \in Nat /\ laps'[i].stamp <= now
                 /\ heard'.stamp[laps'[i].car] # -1 => laps'[i].stamp <= heard'.stamp[laps'[i].car]
      <4>1. CASE i = Len(laps) + 1
        BY <1>3, <1>4, <1>11, <2>2, <2>3, <2>6, <4>1
      <4>2. CASE i \in DOMAIN laps
        BY <1>6, <2>2, <2>6, <4>2 DEF Laps
      <4> QED
        BY <2>6, <4>1, <4>2
    <3>2. \A c \in Cars : heard'.stamp[c] <= clock'
      BY <1>1, <1>3, <2>2 DEF LapInv, Stamps
    <3> QED
      BY <1>1, <1>3, <2>2, <3>1, <3>2 DEF Stamps
  <2>8. LapsDoNotOverlap'
    <3> SUFFICES ASSUME NEW i \in DOMAIN laps', NEW j \in DOMAIN laps',
                        i < j, laps'[i].car = laps'[j].car
                 PROVE  /\ laps'[j].time > 0
                        /\ laps'[j].stamp - laps'[j].time >= laps'[i].stamp
      BY DEF LapsDoNotOverlap
    <3>1. CASE j \in DOMAIN laps
      <4>1. i \in DOMAIN laps
        BY <2>6, <3>1
      <4> QED
        BY <2>6, <3>1, <4>1 DEF LapInv, LapsDoNotOverlap
    <3>2. CASE j = Len(laps) + 1
      <4>1. i \in DOMAIN laps /\ laps'[i] = laps[i] /\ laps'[j] = frame
        BY <2>6, <3>2
      <4>2. laps[i].car = car
        BY <2>3, <4>1
      <4>3. laps[i].stamp <= heard.stamp[car] /\ laps[i].stamp \in Nat
        BY <1>6, <1>11, <4>1, <4>2 DEF Laps
      <4> QED
        BY <1>3, <1>4, <1>5, <1>11, <2>3, <4>1, <4>3
    <3> QED
      BY <2>6, <3>1, <3>2
  <2> QED
    BY <1>8, <2>5, <2>7, <2>8 DEF LapInv
<1> QED
  BY <1>9, <1>10, <1>11

\* Of the runner's steps, only the reset touches the clock, and it comes first.
LEMMA LapsOfRunner ==
    ASSUME Control, LapInv, Connect \/ Runner \/ Disconnect \/ Disconnecting
    PROVE  LapInv'
<1>1. CASE Resets /\ clock' = 0 /\ saying' = Silence
  <2>1. reader = "none" /\ runner = "resetting" /\ heard = Fresh /\ laps = <<>>
    BY <1>1 DEF Resets, Control, LapInv, Memory
  <2>2. heard' = heard /\ laps' = laps /\ reader' = "polling" /\ runner' = "pumping"
    BY <1>1 DEF Resets, Pumping
  <2>3. LapTypes'
    BY <1>1, <2>2 DEF LapInv, LapTypes, Sayings
  <2>4. Memory' /\ LapsDoNotOverlap'
    BY <2>1, <2>2 DEF LapInv, Memory, LapsDoNotOverlap
  <2>5. Stamps'
    BY <1>1, <2>1, <2>2 DEF Stamps, Fresh, Silence
  <2> QED
    BY <2>3, <2>4, <2>5 DEF LapInv
<1>2. CASE Resets /\ UNCHANGED unit
  <2>1. UNCHANGED <<clock, saying, laps, heard>>
    BY <1>2 DEF Resets, unit
  <2>2. Memory'
    BY <1>2 DEF Resets, Pumping, LapInv, Memory
  <2> QED
    BY <2>1, <2>2, Forgotten
<1>3. CASE Connect \/ ConnectFails \/ Opened \/ Wakes
  <2>1. UNCHANGED <<clock, saying, laps, heard>>
    BY <1>3 DEF Connect, ConnectFails, Opened, Wakes, unit, adapter
  <2>2. Memory'
    BY <1>3 DEF Connect, ConnectFails, Opened, Wakes, Attempt, Pumping, adapter, LapInv, Memory
  <2> QED
    BY <2>1, <2>2, Forgotten
<1>4. CASE Forward \/ SeesError \/ SeesEnd \/ Closes
  <2>1. UNCHANGED <<clock, saying, laps, first>> /\ (heard' = Fresh \/ heard' = heard)
    BY <1>4 DEF Forward, SeesError, SeesEnd, Closes, Leaves, BeginClose, Ends, unit
  <2>2. Memory'
    BY <1>4 DEF Forward, SeesError, SeesEnd, Closes, Leaves, BeginClose, Ends, EndClose, LapInv, Memory
  <2> QED
    BY <2>1, <2>2, Forgotten
<1>5. CASE Disconnect \/ Disconnecting
  <2>1. UNCHANGED <<clock, saying, laps, first>> /\ (heard' = Fresh \/ heard' = heard)
    BY <1>5 DEF Disconnect, Disconnecting, Closed, Cancel, Returned, Leaves, BeginClose, Ends,
                unit, adapter, client
  <2>2. CASE Disconnect \/ Closed \/ Returned
    <3>1. Memory'
      BY <2>2 DEF Disconnect, Closed, Returned, BeginClose, Ends, EndClose, adapter, client,
                  LapInv, Memory
    <3> QED
      BY <2>1, <3>1, Forgotten
  <2>3. CASE Cancel
    <3>1. runner' = runner \/ runner' \in {"cancelled", "dying"}
      BY <2>3 DEF Cancel, Leaves
    <3>2. reader' # "polling" => heard' = Fresh
      BY <2>3 DEF Cancel, Leaves, BeginClose, Ends, EndClose, adapter, LapInv, Memory
    <3>3. Memory'
      BY <2>1, <3>1, <3>2 DEF LapInv, Memory
    <3> QED
      BY <2>1, <3>3, Forgotten
  <2> QED
    BY <1>5, <2>2, <2>3 DEF Disconnecting
<1> QED
  BY <1>1, <1>2, <1>3, <1>4, <1>5 DEF Runner, Resets

LEMMA LapsStep == Control /\ LapInv /\ [Next]_vars => LapInv'
<1> SUFFICES ASSUME Control, LapInv, [Next]_vars
             PROVE  LapInv'
  OBVIOUS
<1>1. CASE UNCHANGED vars
  <2>1. UNCHANGED <<clock, saying, heard, laps>> /\ Memory'
    BY <1>1 DEF vars, unit, adapter, client, LapInv, Memory
  <2> QED
    BY <2>1, Forgotten
<1> QED
  BY <1>1, LapsOfReader, LapsOfUnit, LapsOfStatus, LapsOfTimer, LapsOfRunner DEF Next, Reader

\* The laps of a car lie one after the other on the clock of the unit, for any number
\* of cars, frames and renewals of the link (carrera_client.py, _translate_timer, the
\* frame that is not taken twice, and the reset of the first attempt only).
THEOREM LapsInOrder == Spec => []LapsDoNotOverlap
<1>1. LapInv => LapsDoNotOverlap
  BY DEF LapInv
<1> QED
  BY <1>1, LapsInit, LapsStep, AlwaysControl, PTL DEF Spec

-----------------------------------------------------------------------------
(* The queue *)

\* The last of all that was in a queue or is put in it, as many as it holds.
LEMMA OfferAllOf ==
    ASSUME NEW S, NEW q \in Seq(S), NEW items \in Seq(S), NEW cap \in Nat \ {0}
    PROVE  /\ OfferAll(q, items, cap) \in Seq(S)
           /\ Len(OfferAll(q, items, cap)) <= cap
           /\ Len(q) + Len(items) <= cap => OfferAll(q, items, cap) = q \o items
<1> DEFINE all == q \o items
           from == IF Len(all) > cap THEN Len(all) - cap + 1 ELSE 1
<1>1. all \in Seq(S) /\ Len(all) = Len(q) + Len(items)
  BY ST!ConcatProperties
<1>2. Len(all) \in Nat /\ Len(q) \in Nat /\ Len(items) \in Nat
  BY <1>1, ST!LenProperties
<1>3. OfferAll(q, items, cap) = SubSeq(all, from, Len(all))
  BY DEF OfferAll
<1> HIDE DEF all
<1>4. from \in 1 .. Len(all) + 1 /\ Len(all) - from + 1 <= cap
  BY <1>2
<1>5. (Len(q) + Len(items) <= cap) => from = 1
  BY <1>1, <1>2
<1> HIDE DEF from
<1>6. \A i \in from .. Len(all) : all[i] \in S
  BY <1>1, <1>2, <1>4, ST!ElementOfSeq
<1>7. /\ SubSeq(all, from, Len(all)) \in Seq(S)
      /\ Len(SubSeq(all, from, Len(all))) = IF from <= Len(all) THEN Len(all) - from + 1 ELSE 0
  BY <1>2, <1>4, <1>6, ST!SubSeqProperties
<1>8. Len(SubSeq(all, from, Len(all))) <= cap
  BY <1>2, <1>4, <1>7
<1>9. SubSeq(all, 1, Len(all)) = all
  BY <1>1, ST!SubSeqFull
<1> QED
  BY <1>3, <1>5, <1>7, <1>8, <1>9 DEF all

\* Several items are offered as if each was offered to what the ones before it left
\* (carrera_client.py, _enqueue, called for one event after the other).
THEOREM OfferedInTurn ==
    ASSUME NEW S, NEW q \in Seq(S), NEW items \in Seq(S), NEW x \in S, NEW cap \in Nat \ {0},
           Len(q) <= cap
    PROVE  /\ OfferAll(q, <<>>, cap) = q
           /\ OfferAll(q, Append(items, x), cap) = Offer(OfferAll(q, items, cap), x, cap)
<1>1. OfferAll(q, <<>>, cap) = q
  <2>1. q \o <<>> = q /\ Len(q) \in Nat /\ <<>> \in Seq(S) /\ Len(<<>>) = 0
    BY ST!ConcatEmptySeq, ST!LenProperties
  <2>2. Len(q) + Len(<<>>) <= cap
    BY <2>1
  <2> QED
    BY <2>1, <2>2, OfferAllOf
<1> DEFINE all == q \o items
           from == IF Len(all) > cap THEN Len(all) - cap + 1 ELSE 1
           buf == SubSeq(all, from, Len(all))
           more == q \o Append(items, x)
           start == IF Len(more) > cap THEN Len(more) - cap + 1 ELSE 1
<1>2. /\ all \in Seq(S) /\ Len(all) \in Nat /\ more = Append(all, x)
      /\ more \in Seq(S) /\ Len(more) = Len(all) + 1
      /\ \A i \in 1 .. Len(all) : more[i] = all[i]
      /\ more[Len(all) + 1] = x
  <2>1. all \in Seq(S) /\ Len(all) \in Nat
    BY ST!ConcatProperties, ST!LenProperties
  <2>2. more = Append(all, x)
    <3>1. <<x>> \in Seq(S) /\ Append(items, x) = items \o <<x>> /\ Append(all, x) = all \o <<x>>
      BY <2>1, ST!AppendIsConcat
    <3>2. q \o (items \o <<x>>) = (q \o items) \o <<x>>
      BY <3>1, ST!ConcatAssociative
    <3> QED
      BY <3>1, <3>2
  <2> HIDE DEF all, more
  <2>3. /\ Append(all, x) \in Seq(S) /\ Len(Append(all, x)) = Len(all) + 1
        /\ \A i \in 1 .. Len(all) : Append(all, x)[i] = all[i]
        /\ Append(all, x)[Len(all) + 1] = x
    BY <2>1, ST!AppendProperties
  <2> QED
    BY <2>1, <2>2, <2>3
<1>3. OfferAll(q, items, cap) = buf /\ OfferAll(q, Append(items, x), cap) = SubSeq(more, start, Len(more))
  BY DEF OfferAll
<1> HIDE DEF all, more
<1>4. from \in 1 .. Len(all) + 1 /\ start \in 1 .. Len(more) /\ Len(more) - start + 1 <= cap
  BY <1>2
<1>5. (Len(all) < cap => start = from /\ from = 1) /\ (~(Len(all) < cap) => start = from + 1 /\ Len(all) - from + 1 = cap)
  BY <1>2
<1> HIDE DEF from, start
<1>6. /\ buf \in Seq(S) /\ Len(buf) = Len(all) - from + 1
      /\ \A i \in 1 .. Len(all) - from + 1 : buf[i] = all[from + i - 1]
  <2>1. \A i \in from .. Len(all) : all[i] \in S
    BY <1>2, <1>4, ST!ElementOfSeq
  <2>2. /\ buf \in Seq(S)
        /\ Len(buf) = IF from <= Len(all) THEN Len(all) - from + 1 ELSE 0
        /\ \A i \in 1 .. Len(all) - from + 1 : buf[i] = all[from + i - 1]
    BY <1>2, <1>4, <2>1, ST!SubSeqProperties
  <2> QED
    BY <1>2, <1>4, <2>2
<1> DEFINE next == SubSeq(more, start, Len(more))
<1>7. /\ next \in Seq(S) /\ Len(next) = Len(more) - start + 1
      /\ \A i \in 1 .. Len(more) - start + 1 : next[i] = more[start + i - 1]
  <2>1. \A i \in start .. Len(more) : more[i] \in S
    BY <1>2, <1>4, ST!ElementOfSeq
  <2>2. /\ next \in Seq(S)
        /\ Len(next) = IF start <= Len(more) THEN Len(more) - start + 1 ELSE 0
        /\ \A i \in 1 .. Len(more) - start + 1 : next[i] = more[start + i - 1]
    <3>1. start \in Int /\ Len(more) \in Int
      BY <1>2, <1>4
    <3> QED
      BY ONLY <2>1, <3>1, ST!SubSeqProperties
  <2>3. start <= Len(more)
    BY <1>2, <1>4
  <2> HIDE DEF next
  <2> QED
    BY ONLY <2>2, <2>3
<1> HIDE DEF buf, next
<1>8. next = Offer(buf, x, cap)
  <2>1. CASE Len(all) < cap
    <3>1. Offer(buf, x, cap) = Append(buf, x)
      BY <1>2, <1>5, <1>6, <2>1 DEF Offer
    <3>2. /\ Append(buf, x) \in Seq(S) /\ Len(Append(buf, x)) = Len(buf) + 1
          /\ \A i \in 1 .. Len(buf) : Append(buf, x)[i] = buf[i]
          /\ Append(buf, x)[Len(buf) + 1] = x
      BY <1>6, ST!AppendProperties
    <3>3. Len(next) = Len(Append(buf, x))
      BY <1>2, <1>5, <1>6, <1>7, <2>1, <3>2
    <3>4. ASSUME NEW i \in 1 .. Len(next)
          PROVE  next[i] = Append(buf, x)[i]
      <4>1. CASE i \in 1 .. Len(all)
        BY <1>2, <1>5, <1>6, <1>7, <2>1, <3>2, <4>1
      <4>2. CASE i = Len(all) + 1
        BY <1>2, <1>5, <1>6, <1>7, <2>1, <3>2, <4>2
      <4>3. i \in 1 .. Len(all) \/ i = Len(all) + 1
        <5>1. Len(next) = Len(all) + 1 /\ Len(all) \in Nat
          BY <1>2, <1>5, <1>7, <2>1
        <5>2. i \in 1 .. Len(all) + 1
          BY <5>1
        <5> QED
          BY <5>1, <5>2
      <4> QED
        BY ONLY <4>1, <4>2, <4>3
    <3> QED
      BY <1>7, <3>1, <3>2, <3>3, <3>4, ST!SeqEqual
  <2>2. CASE ~(Len(all) < cap)
    <3> DEFINE tail == Tail(buf)
    <3>0. Len(buf) = cap /\ buf # <<>>
      BY <1>2, <1>5, <1>6, <2>2
    <3>1. Offer(buf, x, cap) = Append(tail, x)
      BY <3>0 DEF Offer
    <3>2. /\ tail \in Seq(S) /\ Len(tail) = Len(buf) - 1
          /\ \A i \in 1 .. Len(tail) : tail[i] = buf[i + 1]
      BY <1>6, <3>0, ST!HeadTailProperties
    <3> HIDE DEF tail
    <3>3. /\ Append(tail, x) \in Seq(S) /\ Len(Append(tail, x)) = Len(tail) + 1
          /\ \A i \in 1 .. Len(tail) : Append(tail, x)[i] = tail[i]
          /\ Append(tail, x)[Len(tail) + 1] = x
      BY <3>2, ST!AppendProperties
    <3>4. Len(next) = Len(Append(tail, x)) /\ Len(next) = cap
      BY <1>2, <1>4, <1>5, <1>6, <1>7, <2>2, <3>0, <3>2, <3>3
    <3>5. ASSUME NEW i \in 1 .. Len(next)
          PROVE  next[i] = Append(tail, x)[i]
      <4>1. CASE i \in 1 .. cap - 1
        <5>1. Append(tail, x)[i] = buf[i + 1]
          BY <3>0, <3>2, <3>3, <4>1
        <5>2. buf[i + 1] = all[from + (i + 1) - 1]
          BY <1>2, <1>4, <1>5, <1>6, <2>2, <4>1
        <5>3. next[i] = more[start + i - 1]
          BY <1>7, <3>4
        <5>4. start + i - 1 = from + (i + 1) - 1 /\ start + i - 1 \in 1 .. Len(all)
          BY <1>2, <1>4, <1>5, <2>2, <4>1
        <5> QED
          BY <1>2, <5>1, <5>2, <5>3, <5>4
      <4>2. CASE i = cap
        <5>1. next[i] = more[start + i - 1]
          BY <1>7, <3>4
        <5>2. start + i - 1 = Len(all) + 1
          <6>1. Len(all) \in Nat /\ from \in Int /\ start \in Int /\ cap \in Nat
            BY <1>2, <1>4
          <6> QED
            BY ONLY <1>5, <2>2, <4>2, <6>1
        <5> QED
          BY <1>2, <3>0, <3>2, <3>3, <4>2, <5>1, <5>2
      <4>3. i \in 1 .. cap - 1 \/ i = cap
        <5>1. i \in 1 .. cap
          BY <3>4
        <5> QED
          BY <5>1
      <4> QED
        BY ONLY <4>1, <4>2, <4>3
    <3> QED
      BY <1>7, <3>1, <3>3, <3>4, <3>5, ST!SeqEqual
  <2> QED
    BY <2>1, <2>2
<1> QED
  BY <1>1, <1>3, <1>8 DEF next

-----------------------------------------------------------------------------
(* The frames of a status *)

\* A finite set of numbers can be put in order: the place of each is the number of
\* those that are not greater.
LEMMA InOrderOf ==
    ASSUME NEW S, S \subseteq Nat, IsFiniteSet(S)
    PROVE  /\ InOrder(S) \in Seq(S)
           /\ InOrder(S) \in [1 .. Cardinality(S) -> S] /\ Cardinality(S) \in Nat
<1> DEFINE N == Cardinality(S)
           Upto(x) == {y \in S : y <= x}
           rank == [x \in S |-> Cardinality(Upto(x))]
<1>1. N \in Nat /\ IsFiniteSet(1 .. N) /\ Cardinality(1 .. N) = N
  BY FS_CardinalityType, FS_Interval
<1>2. \A x \in S : IsFiniteSet(Upto(x)) /\ Cardinality(Upto(x)) \in Nat /\ Cardinality(Upto(x)) <= N
  BY FS_Subset, FS_CardinalityType
<1>3. ASSUME NEW x \in S, NEW y \in S, x < y
      PROVE  rank[x] < rank[y]
  <2>0. x \in Nat /\ y \in Nat /\ \A z \in S : z \in Nat
    OBVIOUS
  <2>1. Upto(x) \cup {y} \subseteq Upto(y) /\ y \notin Upto(x)
    <3>1. ASSUME NEW z \in Upto(x)
          PROVE  z \in Upto(y)
      BY <1>3, <2>0
    <3>2. y \in Upto(y) /\ y \notin Upto(x)
      BY <1>3, <2>0
    <3> QED
      BY <3>1, <3>2
  <2>2. Cardinality(Upto(x) \cup {y}) = Cardinality(Upto(x)) + 1
    BY <1>2, <2>1, FS_AddElement
  <2>3. Cardinality(Upto(x) \cup {y}) <= Cardinality(Upto(y))
    BY <1>2, <2>1, FS_Subset
  <2> HIDE DEF Upto
  <2> QED
    BY <1>2, <2>2, <2>3
<1>4. \A x \in S : rank[x] \in 1 .. N
  <2> TAKE x \in S
  <2>1. x \in Upto(x)
    OBVIOUS
  <2>2. Cardinality(Upto(x)) # 0
    BY <1>2, <2>1, FS_EmptySet
  <2> HIDE DEF Upto, N
  <2> QED
    BY <1>1, <1>2, <2>2
<1>5. rank \in [S -> 1 .. N]
  BY <1>4
<1>6. ASSUME NEW x \in S, NEW y \in S, rank[x] = rank[y]
      PROVE  x = y
  <2> HIDE DEF rank, N
  <2>1. rank[x] \in Nat /\ rank[y] \in Nat /\ x \in Nat /\ y \in Nat
    BY <1>1, <1>4
  <2> QED
    BY <1>3, <1>6, <2>1
<1>7. rank \in Surjection(S, 1 .. N)
  <2>1. rank \in Injection(S, 1 .. N)
    BY <1>5, <1>6 DEF Injection, IsInjective
  <2> QED
    BY <1>1, <2>1, FS_Injection
<1> HIDE DEF rank
<1>8. \A i \in 1 .. N : \E x \in S : rank[x] = i
  BY <1>7 DEF Surjection
<1> DEFINE order == [i \in 1 .. N |-> CHOOSE x \in S : rank[x] = i]
<1>9. \A i \in 1 .. N : order[i] \in S /\ rank[order[i]] = i
  BY <1>8
<1>10. order \in [1 .. N -> S] /\ DOMAIN order = 1 .. N
  BY <1>9
<1> HIDE DEF order, N
<1>11. ASSUME NEW i \in DOMAIN order, NEW j \in DOMAIN order, i < j
       PROVE  order[i] < order[j]
  <2>1. order[i] \in S /\ order[j] \in S /\ rank[order[i]] = i /\ rank[order[j]] = j
    BY <1>9, <1>10
  <2>2. order[i] \in Nat /\ order[j] \in Nat
    BY <2>1
  <2>5. i \in Nat /\ j \in Nat
    BY <1>1, <1>10
  <2>3. ~(order[j] < order[i])
    BY <1>3, <1>11, <2>1, <2>2, <2>5
  <2>4. order[i] # order[j]
    BY <1>11, <2>1, <2>2, <2>5
  <2> QED
    BY <2>2, <2>3, <2>4
<1>12. \E o \in [1 .. N -> S] : \A i, j \in DOMAIN o : i < j => o[i] < o[j]
  BY <1>10, <1>11
<1>13. InOrder(S) \in [1 .. N -> S]
  BY <1>12 DEF InOrder, N
<1>14. InOrder(S) \in Seq(S)
  BY <1>1, <1>13, ST!IsASeq
<1> QED
  BY <1>1, <1>13, <1>14 DEF N

-----------------------------------------------------------------------------
(* What a status is made into *)

\* The frames of the cars, in a status.
CarFrames ==
    [kind : {"fuel"}, car : CarIds, level : Int]
    \cup [kind : {"pitlane"}, car : CarIds, pit : BOOLEAN, reason : {"unknown"}]
    \cup [kind : {"speed"}, car : CarIds, speed : Int]

AnyStatus == [fuel : Seq(Nat), pit : Seq(BOOLEAN), speed : Seq(Int), start : Int]

LEMMA StatusTyped == Statuses \cup {NoStatus} \subseteq AnyStatus
<1>1. NoStatus \in AnyStatus
  BY DEF NoStatus, AnyStatus
<1>2. Statuses \subseteq AnyStatus
  BY LiveAssumption DEF AnyStatus
<1> QED
  BY <1>1, <1>2

LEMMA SlotIsACar == \A i \in Nat : NormalizeSlot(i - 1) \in CarIds
BY DEF NormalizeSlot, CarIds, None

\* The slots that changed, in order, are slots of the status.
LEMMA ChangedAre ==
    ASSUME NEW S, NEW prev, NEW now \in Seq(S)
    PROVE  ChangedSlots(prev, now) \in Seq(1 .. Len(now))
<1> DEFINE slots == {i \in 1 .. Len(now) :
                       NormalizeSlot(i - 1) # None /\ (i > Len(prev) \/ prev[i] # now[i])}
<1>1. slots \subseteq 1 .. Len(now) /\ slots \subseteq Nat /\ Len(now) \in Nat
  BY ST!LenProperties
<1>2. IsFiniteSet(slots)
  <2>1. IsFiniteSet(1 .. Len(now))
    BY <1>1, FS_Interval
  <2> HIDE DEF slots
  <2> QED
    BY <1>1, <2>1, FS_Subset
<1>3. ChangedSlots(prev, now) = InOrder(slots)
  BY DEF ChangedSlots
<1> HIDE DEF slots
<1>4. InOrder(slots) \in Seq(slots)
  BY <1>1, <1>2, InOrderOf
<1>5. ASSUME NEW s \in Seq(slots)
      PROVE  s \in Seq(1 .. Len(now))
  <2>1. Len(s) \in Nat /\ s \in [1 .. Len(s) -> slots]
    BY ST!LenProperties
  <2>2. s \in [1 .. Len(s) -> 1 .. Len(now)]
    BY <1>1, <2>1
  <2> QED
    BY <2>1, <2>2, ST!IsASeq
<1> QED
  BY <1>3, <1>4, <1>5

LEMMA FramesOfCars ==
    ASSUME NEW prev \in AnyStatus, NEW now \in AnyStatus
    PROVE  FuelFrames(prev, now) \o PitFrames(prev, now) \o SpeedFrames(prev, now) \in Seq(CarFrames)
<1>1. /\ now.fuel \in Seq(Nat) /\ now.pit \in Seq(BOOLEAN) /\ now.speed \in Seq(Int)
      /\ Len(now.fuel) \in Nat /\ Len(now.pit) \in Nat /\ Len(now.speed) \in Nat
  BY ST!LenProperties DEF AnyStatus
<1>2. FuelFrames(prev, now) \in Seq(CarFrames)
  <2> DEFINE slots == ChangedSlots(prev.fuel, now.fuel)
  <2>1. slots \in Seq(1 .. Len(now.fuel))
    BY <1>1, ChangedAre
  <2> HIDE DEF slots
  <2>2. \A k \in DOMAIN slots : slots[k] \in 1 .. Len(now.fuel)
    BY <2>1
  <2>3. ASSUME NEW k \in DOMAIN slots
        PROVE  [kind |-> "fuel", car |-> NormalizeSlot(slots[k] - 1),
                level |-> now.fuel[slots[k]] * 100] \in CarFrames
    <3>1. slots[k] \in Nat /\ now.fuel[slots[k]] \in Nat
      BY <1>1, <2>2
    <3> QED
      BY <3>1, SlotIsACar DEF CarFrames
  <2>4. FuelFrames(prev, now) =
          [k \in 1 .. Len(slots) |->
             [kind |-> "fuel", car |-> NormalizeSlot(slots[k] - 1), level |-> now.fuel[slots[k]] * 100]]
        /\ DOMAIN slots = 1 .. Len(slots) /\ Len(slots) \in Nat
    BY <2>1 DEF FuelFrames, slots
  <2> QED
    BY <2>3, <2>4
<1>3. PitFrames(prev, now) \in Seq(CarFrames)
  <2> DEFINE slots == ChangedSlots(prev.pit, now.pit)
  <2>1. slots \in Seq(1 .. Len(now.pit))
    BY <1>1, ChangedAre
  <2> HIDE DEF slots
  <2>2. \A k \in DOMAIN slots : slots[k] \in 1 .. Len(now.pit)
    BY <2>1
  <2>3. ASSUME NEW k \in DOMAIN slots
        PROVE  [kind |-> "pitlane", car |-> NormalizeSlot(slots[k] - 1),
                pit |-> now.pit[slots[k]], reason |-> "unknown"] \in CarFrames
    <3>1. slots[k] \in Nat /\ now.pit[slots[k]] \in BOOLEAN
      BY <1>1, <2>2, ST!ElementOfSeq
    <3> QED
      BY <3>1, SlotIsACar DEF CarFrames
  <2>4. PitFrames(prev, now) =
          [k \in 1 .. Len(slots) |->
             [kind |-> "pitlane", car |-> NormalizeSlot(slots[k] - 1),
              pit |-> now.pit[slots[k]], reason |-> "unknown"]]
        /\ DOMAIN slots = 1 .. Len(slots) /\ Len(slots) \in Nat
    BY <2>1 DEF PitFrames, slots
  <2> QED
    BY <2>3, <2>4
<1>4. SpeedFrames(prev, now) \in Seq(CarFrames)
  <2> DEFINE slots == ChangedSlots(prev.speed, now.speed)
  <2>1. slots \in Seq(1 .. Len(now.speed))
    BY <1>1, ChangedAre
  <2> HIDE DEF slots
  <2>2. \A k \in DOMAIN slots : slots[k] \in 1 .. Len(now.speed)
    BY <2>1
  <2>3. ASSUME NEW k \in DOMAIN slots
        PROVE  [kind |-> "speed", car |-> NormalizeSlot(slots[k] - 1),
                speed |-> NotNegative(now.speed[slots[k]])] \in CarFrames
    <3>1. slots[k] \in Nat /\ now.speed[slots[k]] \in Int
      BY <1>1, <2>2
    <3>2. NotNegative(now.speed[slots[k]]) \in Int
      BY <3>1 DEF NotNegative
    <3> QED
      BY <3>1, <3>2, SlotIsACar DEF CarFrames
  <2>4. SpeedFrames(prev, now) =
          [k \in 1 .. Len(slots) |->
             [kind |-> "speed", car |-> NormalizeSlot(slots[k] - 1),
              speed |-> NotNegative(now.speed[slots[k]])]]
        /\ DOMAIN slots = 1 .. Len(slots) /\ Len(slots) \in Nat
    BY <2>1 DEF SpeedFrames, slots
  <2>5. SpeedFrames(prev, now) \in [1 .. Len(slots) -> CarFrames]
    BY ONLY <2>3, <2>4
  <2> QED
    BY <2>4, <2>5, ST!IsASeq
<1> QED
  BY <1>2, <1>3, <1>4, ST!ConcatProperties

-----------------------------------------------------------------------------
(* What the frames are made into *)

Raw(f) == [type |-> "raw", car |-> Primary(f).car]

\* The events that an adapter may put in its queue.
EventSet ==
    {Primary(f) : f \in Frames} \cup {Raw(f) : f \in Frames}
        \cup {Link(state) : state \in LinkStates}

LEMMA EventsAccepted == \A e \in EventSet : Accepts(e)
<1>1. \A f \in Frames : Accepts(Primary(f))
  BY AlwaysAccepted
<1>2. \A f \in Frames : Accepts(Raw(f))
  BY <1>1 DEF Accepts, Raw
<1>3. \A state \in LinkStates : Accepts(Link(state))
  BY DEF Accepts, Link, None
<1> QED
  BY <1>1, <1>2, <1>3 DEF EventSet

Each == IF DebugRaw THEN 2 ELSE 1

LEMMA EachOf ==
    /\ Each \in {1, 2} /\ (Each = 2 <=> DebugRaw)
    /\ \A k \in Nat : LET m == k \div Each IN
         m \in Nat /\ k % Each \in 0 .. Each - 1 /\ k = Each * m + (k % Each)
<1>1. \A k \in Nat : LET m == k \div 1 IN m \in Nat /\ k % 1 \in 0 .. 0 /\ k = 1 * m + (k % 1)
  OBVIOUS
<1>2. \A k \in Nat : LET m == k \div 2 IN m \in Nat /\ k % 2 \in 0 .. 1 /\ k = 2 * m + (k % 2)
  OBVIOUS
<1>3. CASE DebugRaw
  BY <1>2, <1>3 DEF Each
<1>4. CASE ~DebugRaw
  BY <1>1, <1>4 DEF Each
<1> QED
  BY <1>3, <1>4

LEMMA PlaceOf ==
    ASSUME NEW e \in {1, 2}, NEW a \in Int, NEW m \in Int, NEW b \in 1 .. e,
           e * (m - 1) + 1 = e * (a - 1) + b
    PROVE  a = m /\ b = 1
<1>1. CASE e = 1
  BY <1>1
<1>2. CASE e = 2
  <2>1. b \in 1 .. 2 /\ 2 * (m - 1) + 1 = 2 * (a - 1) + b
    BY <1>2
  <2> QED
    BY <2>1
<1> QED
  BY <1>1, <1>2

\* Each frame that is supported is made into its event and, where raw frames are
\* wanted, its companion; they follow one another.
LEMMA EventsOf ==
    ASSUME NEW frames \in Seq(Frames),
           \A m \in DOMAIN frames : Primary(frames[m]).type # "not_supported"
    PROVE  /\ Events(frames) \in Seq(EventSet)
           /\ Len(Events(frames)) = Each * Len(frames)
           /\ \A m \in 1 .. Len(frames) :
                /\ Events(frames)[Each * (m - 1) + 1] = Primary(frames[m])
                /\ Each * (m - 1) + 1 \in DOMAIN Events(frames)
           /\ \A k \in DOMAIN Events(frames) :
                \E m \in 1 .. Len(frames) :
                   \/ k = Each * (m - 1) + 1 /\ Events(frames)[k] = Primary(frames[m])
                   \/ k = Each * (m - 1) + 2 /\ Events(frames)[k] = Raw(frames[m])
<1> DEFINE n == Len(frames)
           ev == Events(frames)
           at(k) == ((k - 1) \div Each) + 1
           no(k) == ((k - 1) % Each) + 1
<1>1. n \in Nat /\ Each \in {1, 2} /\ DOMAIN frames = 1 .. n /\ Each * n \in Nat
  <2>1. n \in Nat /\ DOMAIN frames = 1 .. n
    BY ST!LenProperties
  <2> HIDE DEF n
  <2> QED
    BY <2>1, EachOf
<1>2. ev = [k \in 1 .. Each * n |-> Translate(frames[at(k)], DebugRaw)[no(k)]]
  BY DEF Events, Each
<1> HIDE DEF n, ev
<1>3. ASSUME NEW m \in 1 .. n
      PROVE  /\ frames[m] \in Frames
             /\ Translate(frames[m], DebugRaw)[1] = Primary(frames[m])
             /\ Each = 2 => Translate(frames[m], DebugRaw)[2] = Raw(frames[m])
  <2>1. frames[m] \in Frames /\ Primary(frames[m]).type # "not_supported"
    BY <1>1
  <2> QED
    BY <2>1, EachOf DEF Translate, Raw
<1>4. ASSUME NEW k \in 1 .. Each * n
      PROVE  /\ at(k) \in 1 .. n /\ no(k) \in 1 .. Each
             /\ k = Each * (at(k) - 1) + no(k)
  <2> DEFINE d == (k - 1) \div Each
             r == (k - 1) % Each
  <2>0. k - 1 \in Nat /\ k \in Nat
    BY <1>1
  <2>1. d \in Nat /\ r \in 0 .. Each - 1 /\ k - 1 = Each * d + r
    BY <2>0, EachOf
  <2>2. at(k) = d + 1 /\ no(k) = r + 1
    OBVIOUS
  <2> HIDE DEF d, r, at, no
  <2>3. k <= Each * n
    BY <1>1
  <2>4. d < n
    <3>1. CASE Each = 1
      BY <1>1, <2>0, <2>1, <2>3, <3>1
    <3>2. CASE Each = 2
      BY <1>1, <2>0, <2>1, <2>3, <3>2
    <3> QED
      BY <1>1, <3>1, <3>2
  <2>5. d + 1 \in 1 .. n /\ r + 1 \in 1 .. Each
    BY <1>1, <2>1, <2>4
  <2>6. k = Each * ((d + 1) - 1) + (r + 1)
    <3>1. (d + 1) - 1 = d
      BY <2>1
    <3>2. CASE Each = 1
      BY <2>0, <2>1, <3>1, <3>2
    <3>3. CASE Each = 2
      BY <2>0, <2>1, <3>1, <3>3
    <3> QED
      BY <1>1, <3>2, <3>3
  <2> QED
    BY <2>2, <2>5, <2>6
<1> HIDE DEF at, no
<1>5. ASSUME NEW k \in 1 .. Each * n
      PROVE  \/ k = Each * (at(k) - 1) + 1 /\ ev[k] = Primary(frames[at(k)])
             \/ k = Each * (at(k) - 1) + 2 /\ ev[k] = Raw(frames[at(k)])
  <2>1. ev[k] = Translate(frames[at(k)], DebugRaw)[no(k)]
    BY <1>2
  <2>2. no(k) = 1 \/ (no(k) = 2 /\ Each = 2)
    <3>0. no(k) \in 1 .. Each
      BY <1>4
    <3>1. CASE Each = 1
      BY <3>0, <3>1
    <3>2. CASE Each = 2
      BY <3>0, <3>2
    <3> QED
      BY <1>1, <3>1, <3>2
  <2> QED
    BY <1>3, <1>4, <2>1, <2>2
<1>6. \A k \in 1 .. Each * n : ev[k] \in EventSet
  BY <1>3, <1>4, <1>5 DEF EventSet
<1>7. ev \in Seq(EventSet) /\ Len(ev) = Each * n /\ DOMAIN ev = 1 .. Each * n
  <2>1. ev \in [1 .. Each * n -> EventSet]
    BY <1>2, <1>6
  <2> QED
    BY <1>1, <2>1, ST!IsASeq, ST!LenProperties
<1>8. ASSUME NEW m \in 1 .. n
      PROVE  ev[Each * (m - 1) + 1] = Primary(frames[m]) /\ Each * (m - 1) + 1 \in 1 .. Each * n
  <2> DEFINE k == Each * (m - 1) + 1
  <2>1. k \in 1 .. Each * n /\ m \in Nat
    <3>1. CASE Each = 1
      BY <1>1, <3>1
    <3>2. CASE Each = 2
      BY <1>1, <3>2
    <3> QED
      BY <1>1, <3>1, <3>2
  <2>2. at(k) \in 1 .. n /\ no(k) \in 1 .. Each /\ k = Each * (at(k) - 1) + no(k)
    BY <1>4, <2>1
  <2>3. at(k) = m /\ no(k) = 1
    <3>1. at(k) \in Int /\ m \in Int /\ no(k) \in 1 .. Each /\ Each \in {1, 2}
      BY <1>1, <2>1, <2>2
    <3>2. Each * (m - 1) + 1 = Each * (at(k) - 1) + no(k)
      BY <2>2
    <3> HIDE DEF k
    <3> QED
      BY ONLY <3>1, <3>2, PlaceOf
  <2> HIDE DEF k
  <2>4. ev[k] = Translate(frames[m], DebugRaw)[1]
    BY <1>2, <2>1, <2>3
  <2> QED
    BY <1>3, <2>1, <2>4 DEF k
<1> QED
  BY <1>4, <1>5, <1>7, <1>8 DEF n, ev

-----------------------------------------------------------------------------
(* What a queue says last *)

Silent(items, type) == \A i \in DOMAIN items : items[i].type # type

SaysLast(items, type, v) ==
    \E i \in DOMAIN items :
       /\ items[i].type = type /\ items[i].state = v
       /\ \A j \in DOMAIN items : j > i => items[j].type # type

\* What the reader of the queue has got of a type is v, when it has read all of it.
LatestIs(items, type, got, v) == (Silent(items, type) /\ v = got) \/ SaysLast(items, type, v)

LEMMA LastIsLatest ==
    ASSUME NEW type, NEW got, NEW v, inq \in Seq(EventSet), LatestIs(inq, type, got, v)
    PROVE  LastOf(type, got) = v
<1> DEFINE there == {i \in DOMAIN inq : inq[i].type = type}
<1>1. LastOf(type, got) = IF there = {} THEN got ELSE inq[Max(there)].state
  BY DEF LastOf
<1>2. CASE Silent(inq, type) /\ v = got
  <2>1. there = {}
    BY <1>2 DEF Silent
  <2> QED
    BY <1>1, <1>2, <2>1
<1>3. CASE SaysLast(inq, type, v)
  <2>1. PICK i \in DOMAIN inq :
             /\ inq[i].type = type /\ inq[i].state = v
             /\ \A j \in DOMAIN inq : j > i => inq[j].type # type
    BY <1>3 DEF SaysLast
  <2>2. DOMAIN inq \subseteq Nat
    BY ST!LenProperties
  <2>3. i \in there /\ \A j \in there : i >= j
    BY <2>1, <2>2
  <2>4. ASSUME NEW m \in there, \A j \in there : m >= j
        PROVE  m = i
    <3>1. m \in Nat /\ i \in Nat /\ m >= i /\ i >= m
      BY <2>2, <2>3, <2>4
    <3> QED
      BY <3>1
  <2> HIDE DEF there
  <2>5. Max(there) = i
    BY <2>3, <2>4 DEF Max
  <2> QED
    BY <1>1, <2>1, <2>3, <2>5
<1> QED
  BY <1>2, <1>3 DEF LatestIs

LEMMA JoinedAt ==
    ASSUME NEW S, NEW q \in Seq(S), NEW items \in Seq(S)
    PROVE  /\ Len(q) \in Nat /\ Len(items) \in Nat
           /\ DOMAIN q = 1 .. Len(q) /\ DOMAIN items = 1 .. Len(items)
           /\ DOMAIN (q \o items) = 1 .. Len(q) + Len(items)
           /\ \A i \in 1 .. Len(q) : (q \o items)[i] = q[i]
           /\ \A i \in 1 .. Len(items) : (q \o items)[Len(q) + i] = items[i]
           /\ \A i \in 1 .. Len(q) + Len(items) :
                i \in 1 .. Len(q) \/ \E j \in 1 .. Len(items) : i = Len(q) + j
<1>1. /\ Len(q) \in Nat /\ Len(items) \in Nat
      /\ DOMAIN q = 1 .. Len(q) /\ DOMAIN items = 1 .. Len(items)
  BY ST!LenProperties
<1>2. /\ q \o items \in Seq(S) /\ Len(q \o items) = Len(q) + Len(items)
      /\ \A i \in 1 .. Len(q) + Len(items) :
           (q \o items)[i] = IF i <= Len(q) THEN q[i] ELSE items[i - Len(q)]
  BY ST!ConcatProperties
<1>3. DOMAIN (q \o items) = 1 .. Len(q) + Len(items)
  BY <1>2, ST!LenProperties
<1> DEFINE all == q \o items
           a == Len(q)
           b == Len(items)
<1> HIDE DEF all, a, b
<1>4. a \in Nat /\ b \in Nat
  BY <1>1 DEF a, b
<1>5. \A i \in 1 .. a + b : all[i] = IF i <= a THEN q[i] ELSE items[i - a]
  BY <1>2 DEF all, a, b
<1>6. \A i \in 1 .. a : all[i] = q[i]
  BY <1>4, <1>5
<1>7. ASSUME NEW i \in 1 .. b
      PROVE  all[a + i] = items[i]
  <2>1. a + i \in 1 .. a + b /\ ~(a + i <= a) /\ (a + i) - a = i
    BY <1>4
  <2> QED
    BY <1>5, <2>1
<1>8. ASSUME NEW i \in 1 .. a + b, i \notin 1 .. a
      PROVE  \E j \in 1 .. b : i = a + j
  <2>1. i - a \in 1 .. b /\ i = a + (i - a)
    BY <1>4, <1>8
  <2> QED
    BY <2>1
<1> QED
  BY <1>1, <1>3, <1>6, <1>7, <1>8 DEF all, a, b

LEMMA JoinedSilent ==
    ASSUME NEW S, NEW q \in Seq(S), NEW items \in Seq(S), NEW type,
           Silent(q, type), Silent(items, type)
    PROVE  Silent(q \o items, type)
BY JoinedAt DEF Silent

LEMMA JoinedLast ==
    ASSUME NEW S, NEW q \in Seq(S), NEW items \in Seq(S), NEW type, NEW v,
           SaysLast(items, type, v)
    PROVE  SaysLast(q \o items, type, v)
<1>1. PICK i \in DOMAIN items :
           /\ items[i].type = type /\ items[i].state = v
           /\ \A j \in DOMAIN items : j > i => items[j].type # type
  BY DEF SaysLast
<1> DEFINE all == q \o items
           k == Len(q) + i
<1>2. /\ Len(q) \in Nat /\ Len(items) \in Nat /\ i \in 1 .. Len(items)
      /\ DOMAIN all = 1 .. Len(q) + Len(items)
      /\ \A j \in 1 .. Len(items) : all[Len(q) + j] = items[j] /\ j \in DOMAIN items
  BY JoinedAt
<1> HIDE DEF all
<1>3. k \in DOMAIN all /\ all[k] = items[i]
  BY <1>2
<1>4. ASSUME NEW j \in DOMAIN all, j > k
      PROVE  all[j].type # type
  <2> DEFINE m == j - Len(q)
  <2>1. m \in 1 .. Len(items) /\ m > i /\ Len(q) + m = j
    BY <1>2, <1>4
  <2> HIDE DEF m
  <2>2. all[j] = items[m] /\ m \in DOMAIN items
    BY <1>2, <2>1
  <2> QED
    BY <1>1, <2>1, <2>2
<1> HIDE DEF k
<1>5. SaysLast(all, type, v)
  BY <1>1, <1>3, <1>4 DEF SaysLast
<1> QED
  BY <1>5 DEF all

LEMMA JoinedBefore ==
    ASSUME NEW S, NEW q \in Seq(S), NEW items \in Seq(S), NEW type, NEW v,
           SaysLast(q, type, v), Silent(items, type)
    PROVE  SaysLast(q \o items, type, v)
<1>1. PICK i \in DOMAIN q :
           /\ q[i].type = type /\ q[i].state = v
           /\ \A j \in DOMAIN q : j > i => q[j].type # type
  BY DEF SaysLast
<1> DEFINE all == q \o items
<1>2. /\ Len(q) \in Nat /\ Len(items) \in Nat
      /\ DOMAIN q = 1 .. Len(q) /\ DOMAIN items = 1 .. Len(items)
      /\ DOMAIN all = 1 .. Len(q) + Len(items)
      /\ \A j \in 1 .. Len(q) : all[j] = q[j]
      /\ \A j \in 1 .. Len(items) : all[Len(q) + j] = items[j]
      /\ \A j \in 1 .. Len(q) + Len(items) :
           j \in 1 .. Len(q) \/ \E m \in 1 .. Len(items) : j = Len(q) + m
  BY JoinedAt
<1> HIDE DEF all
<1>3. i \in DOMAIN all /\ all[i] = q[i]
  BY <1>2
<1>4. ASSUME NEW j \in DOMAIN all, j > i
      PROVE  all[j].type # type
  <2>1. CASE j \in 1 .. Len(q)
    BY <1>1, <1>2, <1>4, <2>1
  <2>2. CASE j \notin 1 .. Len(q)
    <3>1. PICK m \in 1 .. Len(items) : j = Len(q) + m
      BY <1>2, <2>2
    <3> QED
      BY <1>2, <3>1 DEF Silent
  <2> QED
    BY <2>1, <2>2
<1>5. SaysLast(all, type, v)
  BY <1>1, <1>3, <1>4 DEF SaysLast
<1> QED
  BY <1>5 DEF all

\* What is put in the queue and says nothing of a type leaves the latest of it.
LEMMA StillLatest ==
    ASSUME NEW S, NEW q \in Seq(S), NEW items \in Seq(S), NEW type, NEW got, NEW v,
           LatestIs(q, type, got, v), Silent(items, type)
    PROVE  LatestIs(q \o items, type, got, v)
BY JoinedSilent, JoinedBefore DEF LatestIs

\* The reader that takes an event knows what it said.
LEMMA LatestOfTail ==
    ASSUME NEW S, NEW q \in Seq(S), q # <<>>, NEW type, NEW got, NEW v,
           LatestIs(q, type, got, v)
    PROVE  LatestIs(Tail(q), type, IF Head(q).type = type THEN Head(q).state ELSE got, v)
<1> DEFINE rest == Tail(q)
           now == IF Head(q).type = type THEN Head(q).state ELSE got
<1>1. /\ Len(q) \in Nat \ {0} /\ DOMAIN q = 1 .. Len(q) /\ Head(q) = q[1]
      /\ DOMAIN rest = 1 .. Len(q) - 1
      /\ \A i \in 1 .. Len(q) - 1 : rest[i] = q[i + 1]
  <2>1. Len(q) \in Nat \ {0} /\ DOMAIN q = 1 .. Len(q) /\ Head(q) = q[1]
    BY ST!LenProperties, ST!EmptySeq
  <2>2. /\ rest \in Seq(S) /\ Len(rest) = Len(q) - 1
        /\ \A i \in 1 .. Len(rest) : rest[i] = q[i + 1]
    BY ST!HeadTailProperties
  <2>3. DOMAIN rest = 1 .. Len(rest)
    BY <2>2, ST!LenProperties
  <2> QED
    BY <2>1, <2>2, <2>3
<1> HIDE DEF rest
<1>2. CASE Silent(q, type) /\ v = got
  <2>1. now = got
    BY <1>1, <1>2 DEF Silent
  <2>2. Silent(rest, type)
    BY <1>1, <1>2 DEF Silent
  <2> QED
    BY <1>2, <2>1, <2>2 DEF LatestIs, rest
<1>3. CASE SaysLast(q, type, v)
  <2>1. PICK i \in DOMAIN q :
             /\ q[i].type = type /\ q[i].state = v
             /\ \A j \in DOMAIN q : j > i => q[j].type # type
    BY <1>3 DEF SaysLast
  <2>2. CASE i = 1
    <3>1. now = v
      BY <1>1, <2>1, <2>2
    <3>2. ASSUME NEW j \in DOMAIN rest
          PROVE  rest[j].type # type
      <4>1. j + 1 \in DOMAIN q /\ j + 1 > i /\ rest[j] = q[j + 1]
        BY <1>1, <2>2
      <4> QED
        BY <2>1, <4>1
    <3> QED
      BY <3>1, <3>2 DEF LatestIs, Silent, rest
  <2>3. CASE i # 1
    <3> DEFINE k == i - 1
    <3>1. k \in DOMAIN rest /\ k + 1 = i /\ k \in Nat
      BY <1>1, <2>3
    <3> HIDE DEF k
    <3>2. rest[k] = q[i]
      BY <1>1, <3>1
    <3>3. ASSUME NEW j \in DOMAIN rest, j > k
          PROVE  rest[j].type # type
      <4>1. j + 1 \in DOMAIN q /\ j + 1 > i /\ rest[j] = q[j + 1]
        BY <1>1, <3>1, <3>3
      <4> QED
        BY <2>1, <4>1
    <3>4. SaysLast(rest, type, v)
      BY <2>1, <3>1, <3>2, <3>3 DEF SaysLast
    <3> QED
      BY <3>4 DEF LatestIs, rest
  <2> QED
    BY <2>2, <2>3
<1> QED
  BY <1>2, <1>3 DEF LatestIs

-----------------------------------------------------------------------------
(* What the reader puts in the queue *)

LEMMA CarFrameEvents ==
    \A f \in CarFrames :
       /\ f \in Frames
       /\ Primary(f).type \in {"fuel", "pitlane", "speed"}
<1> SUFFICES ASSUME NEW f \in CarFrames
             PROVE  f \in Frames /\ Primary(f).type \in {"fuel", "pitlane", "speed"}
  OBVIOUS
<1>1. CASE f \in [kind : {"fuel"}, car : CarIds, level : Int]
  BY <1>1 DEF Frames, Primary
<1>2. CASE f \in [kind : {"pitlane"}, car : CarIds, pit : BOOLEAN, reason : {"unknown"}]
  <2>1. f.kind = "pitlane" /\ f \in [kind : {"pitlane"}, car : CarIds, pit : BOOLEAN, reason : Words]
    BY <1>2 DEF Words, PitReasons
  <2>2. Primary(f) = [type |-> "pitlane", car |-> f.car, pit |-> f.pit,
                      reason |-> IF f.reason \in PitReasons THEN f.reason ELSE "unknown"]
    BY <2>1 DEF Primary
  <2> QED
    BY <2>1, <2>2 DEF Frames
<1>3. CASE f \in [kind : {"speed"}, car : CarIds, speed : Int]
  BY <1>3 DEF Frames, Primary
<1> QED
  BY <1>1, <1>2, <1>3 DEF CarFrames

LEMMA RaceFrameEvent ==
    ASSUME NEW start
    PROVE  LET f == [kind |-> "race_state", state |-> StartState(start)] IN
           f \in Frames /\ Primary(f).type = "race_state" /\ Primary(f).state = StartState(start)
<1> DEFINE f == [kind |-> "race_state", state |-> StartState(start)]
<1>1. StartState(start) \in RaceStates /\ StartState(start) \in Words
  <2>1. StartState(start) \in {"countdown", "running", "paused", "idle"}
    <3>1. CASE start \in 1 .. 5
      BY <3>1 DEF StartState
    <3>2. CASE start \notin 1 .. 5 /\ start = 6
      BY <3>2 DEF StartState
    <3>3. CASE start \notin 1 .. 5 /\ start = 7
      BY <3>3 DEF StartState
    <3>4. CASE start \notin 1 .. 5 /\ start # 6 /\ start # 7
      BY <3>4 DEF StartState
    <3> QED
      BY <3>1, <3>2, <3>3, <3>4
  <2> QED
    BY <2>1 DEF RaceStates, Words
<1>2. f \in Frames
  BY <1>1 DEF Frames
<1>3. Primary(f) = [type |-> "race_state", car |-> None, state |-> StartState(start)]
  BY <1>1 DEF Primary
<1> QED
  BY <1>2, <1>3

\* A status says nothing of the link, and says where the race is if that has changed.
LEMMA StatusEvents ==
    ASSUME NEW prev \in AnyStatus, NEW now \in AnyStatus
    PROVE  LET ev == Events(StatusFrames(prev, now)) IN
           /\ ev \in Seq(EventSet)
           /\ Silent(ev, "connection_state")
           /\ prev.start = now.start => Silent(ev, "race_state")
           /\ prev.start # now.start => SaysLast(ev, "race_state", StartState(now.start))
<1> DEFINE cars == FuelFrames(prev, now) \o PitFrames(prev, now) \o SpeedFrames(prev, now)
           race == [kind |-> "race_state", state |-> StartState(now.start)]
           frames == StatusFrames(prev, now)
           ev == Events(frames)
<1>1. cars \in Seq(CarFrames)
  BY FramesOfCars
<1>2. race \in Frames /\ Primary(race).type = "race_state" /\ Primary(race).state = StartState(now.start)
  BY RaceFrameEvent
<1>3. frames = cars \o StartFrames(prev, now)
  BY DEF StatusFrames
<1>4. StartFrames(prev, now) = IF prev.start # now.start THEN <<race>> ELSE <<>>
  BY DEF StartFrames
<1> HIDE DEF cars, race, frames, ev
<1>5. /\ Len(cars) \in Nat /\ DOMAIN cars = 1 .. Len(cars)
      /\ \A m \in 1 .. Len(cars) :
           /\ cars[m] \in Frames
           /\ Primary(cars[m]).type \in {"fuel", "pitlane", "speed"}
      /\ cars \in Seq(Frames)
  <2>1. Len(cars) \in Nat /\ DOMAIN cars = 1 .. Len(cars) /\ cars \in [1 .. Len(cars) -> CarFrames]
    BY <1>1, ST!LenProperties
  <2>2. \A m \in 1 .. Len(cars) : cars[m] \in CarFrames
    BY <2>1
  <2>3. \A m \in 1 .. Len(cars) :
           cars[m] \in Frames /\ Primary(cars[m]).type \in {"fuel", "pitlane", "speed"}
    BY <2>2, CarFrameEvents
  <2>4. cars \in [1 .. Len(cars) -> Frames]
    BY <2>1, <2>3
  <2> QED
    BY <2>1, <2>3, <2>4, ST!IsASeq
<1>6. CASE prev.start = now.start
  <2>1. frames = cars
    BY <1>3, <1>4, <1>5, <1>6, ST!ConcatEmptySeq
  <2>2. \A m \in DOMAIN cars : Primary(cars[m]).type # "not_supported"
    BY <1>5
  <2>3. /\ ev \in Seq(EventSet)
        /\ \A k \in DOMAIN ev : \E m \in 1 .. Len(cars) :
              ev[k] = Primary(cars[m]) \/ ev[k] = Raw(cars[m])
    BY <1>5, <2>1, <2>2, EventsOf DEF ev
  <2>4. \A k \in DOMAIN ev : ev[k].type \in {"fuel", "pitlane", "speed", "raw"}
    BY <1>5, <2>3 DEF Raw
  <2> QED
    BY <1>6, <2>3, <2>4 DEF Silent, ev, frames
<1>7. CASE prev.start # now.start
  <2> DEFINE n == Len(cars) + 1
             last == Each * (n - 1) + 1
  <2>1. frames = Append(cars, race)
    BY <1>2, <1>3, <1>4, <1>5, <1>7, ST!AppendIsConcat
  <2>2. /\ frames \in Seq(Frames) /\ Len(frames) = n
        /\ \A m \in 1 .. Len(cars) : frames[m] = cars[m]
        /\ frames[n] = race
    BY <1>2, <1>5, <2>1, ST!AppendProperties
  <2>3. \A m \in 1 .. n :
           IF m = n THEN frames[m] = race
           ELSE Primary(frames[m]).type \in {"fuel", "pitlane", "speed"}
    BY <1>5, <2>2
  <2>4. \A m \in DOMAIN frames : Primary(frames[m]).type # "not_supported"
    <3>1. DOMAIN frames = 1 .. n
      BY <2>2, ST!LenProperties
    <3> HIDE DEF n
    <3> QED
      BY <1>2, <2>3, <3>1
  <2>5. n \in Nat \ {0} /\ Each \in {1, 2}
    BY <1>5, EachOf
  <2> HIDE DEF n
  <2>6. /\ ev \in Seq(EventSet)
        /\ ev[last] = Primary(frames[n]) /\ last \in DOMAIN ev
        /\ \A k \in DOMAIN ev : \E m \in 1 .. n :
             \/ k = Each * (m - 1) + 1 /\ ev[k] = Primary(frames[m])
             \/ k = Each * (m - 1) + 2 /\ ev[k] = Raw(frames[m])
    <3>1. \A m \in 1 .. Len(frames) :
            /\ Events(frames)[Each * (m - 1) + 1] = Primary(frames[m])
            /\ Each * (m - 1) + 1 \in DOMAIN Events(frames)
      BY <2>2, <2>4, EventsOf
    <3>2. /\ Events(frames) \in Seq(EventSet)
          /\ \A k \in DOMAIN Events(frames) :
                \E m \in 1 .. Len(frames) :
                   \/ k = Each * (m - 1) + 1 /\ Events(frames)[k] = Primary(frames[m])
                   \/ k = Each * (m - 1) + 2 /\ Events(frames)[k] = Raw(frames[m])
      BY <2>2, <2>4, EventsOf
    <3>3. n \in 1 .. n
      BY <2>5
    <3> QED
      BY <2>2, <3>1, <3>2, <3>3 DEF ev
  <2>7. Silent(ev, "connection_state")
    <3>1. \A m \in 1 .. n : Primary(frames[m]).type # "connection_state"
      BY <1>2, <2>3
    <3> QED
      BY <2>6, <3>1 DEF Silent, Raw
  <2>8. ASSUME NEW k \in DOMAIN ev, k > last
        PROVE  ev[k].type # "race_state"
    <3>1. PICK m \in 1 .. n :
             \/ k = Each * (m - 1) + 1 /\ ev[k] = Primary(frames[m])
             \/ k = Each * (m - 1) + 2 /\ ev[k] = Raw(frames[m])
      BY <2>6
    <3>2. CASE k = Each * (m - 1) + 1 /\ ev[k] = Primary(frames[m])
      <4>1. Each * (m - 1) + 1 > Each * (n - 1) + 1
        BY <2>8, <3>2
      <4>2. CASE Each = 1
        BY <2>5, <4>1, <4>2
      <4>3. CASE Each = 2
        BY <2>5, <4>1, <4>3
      <4> QED
        BY <2>5, <4>2, <4>3
    <3>3. CASE ev[k] = Raw(frames[m])
      BY <3>3 DEF Raw
    <3> QED
      BY <3>1, <3>2, <3>3
  <2>9. ev[last].type = "race_state" /\ ev[last].state = StartState(now.start)
    BY <1>2, <2>2, <2>6
  <2> HIDE DEF last
  <2>10. SaysLast(ev, "race_state", StartState(now.start))
    BY <2>6, <2>8, <2>9 DEF SaysLast
  <2> QED
    BY <1>7, <2>6, <2>7, <2>10 DEF ev, frames
<1> QED
  BY <1>6, <1>7

\* A lap says nothing of the link and nothing of where the race is.
LEMMA LapEvents ==
    ASSUME NEW f \in [kind : {"lap"}, car : CarIds, number : Int, time : Int, stamp : Int]
    PROVE  LET ev == Translate(f, DebugRaw) IN
           ev \in Seq(EventSet) /\ Silent(ev, "connection_state") /\ Silent(ev, "race_state")
<1>1. f \in Frames
  BY DEF Frames
<1>2. Primary(f).type \in {"lap", "not_supported"}
  BY DEF Primary, LapEvent, Unsupported
<1>3. Primary(f) \in EventSet /\ Raw(f) \in EventSet
  BY <1>1 DEF EventSet
<1>4. Translate(f, DebugRaw) \in {<<Primary(f), Raw(f)>>, <<Primary(f)>>}
  BY DEF Translate, Raw
<1>5. Raw(f).type = "raw"
  BY DEF Raw
<1> QED
  <2>1. CASE Translate(f, DebugRaw) = <<Primary(f)>>
    <3>1. /\ <<Primary(f)>> \in Seq(EventSet) /\ DOMAIN <<Primary(f)>> = {1}
          /\ <<Primary(f)>>[1] = Primary(f)
      BY <1>3
    <3> QED
      BY <1>2, <2>1, <3>1 DEF Silent
  <2>2. CASE Translate(f, DebugRaw) = <<Primary(f), Raw(f)>>
    <3>1. /\ <<Primary(f), Raw(f)>> \in Seq(EventSet) /\ DOMAIN <<Primary(f), Raw(f)>> = {1, 2}
          /\ <<Primary(f), Raw(f)>>[1] = Primary(f) /\ <<Primary(f), Raw(f)>>[2] = Raw(f)
      BY <1>3
    <3> QED
      BY <1>2, <1>5, <2>2, <3>1 DEF Silent
  <2> QED
    BY <1>4, <2>1, <2>2

LEMMA LinkEvents ==
    ASSUME NEW state \in LinkStates
    PROVE  LET ev == <<Link(state)>> IN
           /\ ev \in Seq(EventSet)
           /\ SaysLast(ev, "connection_state", state) /\ Silent(ev, "race_state")
<1>1. Link(state) \in EventSet
  BY DEF EventSet
<1>2. Link(state).type = "connection_state" /\ Link(state).state = state
  BY DEF Link
<1>3. <<Link(state)>> \in Seq(EventSet) /\ DOMAIN <<Link(state)>> = {1} /\ <<Link(state)>>[1] = Link(state)
  BY <1>1
<1> QED
  BY <1>2, <1>3 DEF SaysLast, Silent

LEMMA RecoveredSays ==
    /\ Recovered \in Seq(EventSet) /\ Silent(Recovered, "race_state")
    /\ IF streak > 0 THEN SaysLast(Recovered, "connection_state", "connected")
       ELSE Recovered = <<>>
<1>1. "connected" \in LinkStates
  BY DEF LinkStates
<1>2. CASE streak > 0
  BY <1>1, <1>2, LinkEvents DEF Recovered
<1>3. CASE ~(streak > 0)
  BY <1>3 DEF Recovered, Silent
<1> QED
  BY <1>2, <1>3

LEMMA NothingSays ==
    <<>> \in Seq(EventSet) /\ \A type : Silent(<<>>, type)
BY DEF Silent

-----------------------------------------------------------------------------
(* The types, and what is left where nobody polls *)

LiveTypes ==
    /\ cu \in {"none", "open"}
    /\ reader \in {"none", "polling", "cancelling", "cancelled", "failed"}
    /\ why \in {"idle", "poll"}
    /\ streak \in 0 .. Hard - 1
    /\ inq \in Seq(EventSet) /\ Len(inq) <= QueueCap
    /\ runner \in {"off", "connecting", "resetting", "pumping", "closing", "dying",
                   "sleeping", "ended", "cancelled"}
    /\ backoff \in InitialBackoff .. MaxBackoff
    /\ asking \in {"no", "closing", "unlinking", "waiting", "cancelling", "done", "raised"}
    /\ first \in BOOLEAN /\ lost \in BOOLEAN /\ leaked \in BOOLEAN

(* A unit is polled for a runner that takes the events, and an adapter that is left *)
(* behind leaves no event and no count of polls to the next one.                *)
Idle ==
    /\ reader = "polling" => runner = "pumping"
    /\ runner # "pumping" => inq = <<>> /\ lost = FALSE
    /\ reader # "polling" => streak = 0

(* What the queue and the runner say of the link and of the race is what the reader *)
(* has heard, and a reader that gave up a silent unit has said so last.          *)
Told ==
    runner = "pumping" /\ ~lost =>
      /\ reader = "polling" /\ streak >= Warning =>
           LatestIs(inq, "connection_state", said, "degraded")
      /\ reader = "polling" /\ streak < Warning =>
           \E v : v # "degraded" /\ LatestIs(inq, "connection_state", said, v)
      /\ reader = "polling" /\ heard.status # NoStatus =>
           LatestIs(inq, "race_state", latest, StartState(heard.status.start))
      /\ reader = "failed" /\ why = "idle" =>
           LatestIs(inq, "connection_state", said, "stalled")

Turn == LiveTypes /\ Idle /\ Told

LEMMA TurnInit == Init => Turn
<1> SUFFICES ASSUME Init PROVE Turn
  OBVIOUS
<1>1. LiveTypes
  <2>1. 0 \in 0 .. Hard - 1 /\ Len(<<>>) <= QueueCap /\ InitialBackoff \in InitialBackoff .. MaxBackoff
    BY LiveAssumption
  <2>2. <<>> \in Seq(EventSet)
    BY NothingSays
  <2> QED
    BY <2>1, <2>2 DEF Init, LiveTypes
<1>2. Idle /\ Told
  BY DEF Init, Idle, Told
<1> QED
  BY <1>1, <1>2 DEF Turn

\* An enqueue keeps what is queued a sequence of events that fits; where nothing is
\* lost, the new events follow the old ones.
LEMMA Put ==
    ASSUME LiveTypes, NEW items \in Seq(EventSet), Enqueue(items)
    PROVE  /\ inq' \in Seq(EventSet) /\ Len(inq') <= QueueCap /\ lost' \in BOOLEAN
           /\ ~lost' => ~lost /\ inq' = inq \o items
<1>1. inq \in Seq(EventSet) /\ QueueCap \in Nat \ {0} /\ lost \in BOOLEAN
  BY LiveAssumption DEF LiveTypes
<1>2. inq' = OfferAll(inq, items, QueueCap)
  BY DEF Enqueue
<1>3. lost' = (lost \/ Len(inq) + Len(items) > QueueCap)
  BY DEF Enqueue
<1>4. /\ inq' \in Seq(EventSet) /\ Len(inq') <= QueueCap
      /\ Len(inq) + Len(items) <= QueueCap => inq' = inq \o items
  BY <1>1, <1>2, OfferAllOf
<1>5. Len(inq) \in Nat /\ Len(items) \in Nat
  BY <1>1, ST!LenProperties
<1>6. lost' \in BOOLEAN
  BY <1>3
<1>7. ASSUME ~lost'
      PROVE  ~lost /\ Len(inq) + Len(items) <= QueueCap
  <2>1. ~lost /\ ~(Len(inq) + Len(items) > QueueCap)
    BY <1>3, <1>7, Zenon
  <2> QED
    BY <1>1, <1>5, <2>1
<1> QED
  BY <1>4, <1>6, <1>7

-----------------------------------------------------------------------------
(* The unit and the reader *)

LEMMA TurnOfUnit == ASSUME Turn, Cross \/ Report PROVE Turn'
<1>1. UNCHANGED <<adapter, client, asking, leaked>>
  BY DEF Cross, Report
<1> QED
  BY <1>1 DEF Turn, LiveTypes, Idle, Told, adapter, client

LEMMA TurnOfTimeout == ASSUME Turn, TimesOut PROVE Turn'
<1>1. /\ reader = "polling" /\ runner = "pumping" /\ streak \in 0 .. Hard - 1
      /\ Hard \in Nat /\ Hard >= 3 /\ Warning \in Nat \ {0} /\ inq \in Seq(EventSet)
  BY LiveAssumption DEF TimesOut, Turn, LiveTypes, Idle
<1>2. UNCHANGED <<cu, runner, first, backoff, latest, said, asking, leaked>>
  BY DEF TimesOut, client
<1>3. {"stalled", "degraded"} \subseteq LinkStates
  BY DEF LinkStates
<1>4. CASE streak + 1 >= Hard
  <2>1. Enqueue(<<Link("stalled")>>) /\ reader' = "failed" /\ streak' = 0 /\ why' = "idle"
    BY <1>4 DEF TimesOut, Ends
  <2> DEFINE items == <<Link("stalled")>>
  <2>2. items \in Seq(EventSet) /\ SaysLast(items, "connection_state", "stalled")
    BY <1>3, LinkEvents
  <2> HIDE DEF items
  <2>3. /\ inq' \in Seq(EventSet) /\ Len(inq') <= QueueCap /\ lost' \in BOOLEAN
        /\ ~lost' => inq' = inq \o items
    BY <2>1, <2>2, Put DEF Turn, items
  <2>4. ~lost' => LatestIs(inq', "connection_state", said, "stalled")
    BY <1>1, <2>2, <2>3, JoinedLast DEF LatestIs
  <2>5. 0 \in 0 .. Hard - 1
    BY <1>1
  <2>6. LiveTypes'
    BY <1>2, <2>1, <2>3, <2>5 DEF Turn, LiveTypes
  <2>7. Idle'
    BY <1>1, <1>2, <2>1 DEF Idle
  <2>8. Told'
    BY <1>2, <2>1, <2>4 DEF Told
  <2> QED
    BY <2>6, <2>7, <2>8 DEF Turn
<1>5. CASE streak + 1 < Hard
  <2>1. /\ Enqueue(IF streak + 1 >= Warning THEN <<Link("degraded")>> ELSE <<>>)
        /\ streak' = streak + 1 /\ UNCHANGED <<reader, heard, why>>
    BY <1>1, <1>5 DEF TimesOut
  <2>2. streak' \in 0 .. Hard - 1 /\ streak' \in Nat /\ streak \in Nat
    BY <1>1, <1>5, <2>1
  <2> DEFINE items == IF streak + 1 >= Warning THEN <<Link("degraded")>> ELSE <<>>
  <2>3. /\ items \in Seq(EventSet) /\ Silent(items, "race_state")
        /\ streak' >= Warning => SaysLast(items, "connection_state", "degraded")
        /\ streak' < Warning => Silent(items, "connection_state")
    <3>1. CASE streak + 1 >= Warning
      BY <1>1, <1>3, <2>1, <2>2, <3>1, LinkEvents
    <3>2. CASE ~(streak + 1 >= Warning)
      BY <2>1, <3>2, NothingSays
    <3> QED
      BY <3>1, <3>2
  <2> HIDE DEF items
  <2>4. /\ inq' \in Seq(EventSet) /\ Len(inq') <= QueueCap /\ lost' \in BOOLEAN
        /\ ~lost' => ~lost /\ inq' = inq \o items
    BY <2>1, <2>3, Put DEF Turn, items
  <2>5. LiveTypes'
    BY <1>2, <2>1, <2>2, <2>4 DEF Turn, LiveTypes
  <2>6. Idle'
    BY <1>1, <1>2, <2>1 DEF Idle
  <2>7. Told'
    <3> SUFFICES ASSUME ~lost'
                 PROVE  /\ streak' >= Warning =>
                             LatestIs(inq', "connection_state", said', "degraded")
                        /\ streak' < Warning =>
                             \E v : v # "degraded" /\ LatestIs(inq', "connection_state", said', v)
                        /\ heard'.status # NoStatus =>
                             LatestIs(inq', "race_state", latest', StartState(heard'.status.start))
      BY <1>1, <2>1 DEF Told
    <3>1. ~lost /\ inq' = inq \o items
      BY <2>4
    <3>2. streak' >= Warning => LatestIs(inq', "connection_state", said', "degraded")
      BY <1>1, <2>3, <3>1, JoinedLast DEF LatestIs
    <3>3. ASSUME streak' < Warning
          PROVE  \E v : v # "degraded" /\ LatestIs(inq', "connection_state", said', v)
      <4>1. streak < Warning
        BY <1>1, <2>1, <2>2, <3>3
      <4>2. PICK v : v # "degraded" /\ LatestIs(inq, "connection_state", said, v)
        BY <1>1, <3>1, <4>1 DEF Turn, Told
      <4>3. LatestIs(inq', "connection_state", said', v)
        BY <1>1, <1>2, <2>3, <3>1, <3>3, <4>2, StillLatest
      <4> QED
        BY <4>2, <4>3
    <3>4. ASSUME heard'.status # NoStatus
          PROVE  LatestIs(inq', "race_state", latest', StartState(heard'.status.start))
      <4>1. LatestIs(inq, "race_state", latest, StartState(heard.status.start))
        BY <1>1, <2>1, <3>1, <3>4 DEF Turn, Told
      <4> QED
        BY <1>1, <1>2, <2>1, <2>3, <3>1, <4>1, StillLatest
    <3> QED
      BY <3>2, <3>3, <3>4
  <2> QED
    BY <2>5, <2>6, <2>7 DEF Turn
<1>6. Hard \in Nat /\ streak \in Nat
  BY <1>1
<1> QED
  BY <1>4, <1>5, <1>6

\* A poll that is answered: the link is up again, and the race is where the answer says.
LEMMA TurnOfAnswer ==
    ASSUME Turn, reader = "polling", reader' = "polling", streak' = 0,
           UNCHANGED <<cu, why, runner, first, backoff, latest, said, asking, leaked>>,
           NEW ev \in Seq(EventSet), Silent(ev, "connection_state"),
           Enqueue(Recovered \o ev),
           heard'.status # NoStatus =>
             \/ /\ heard.status # NoStatus /\ heard'.status.start = heard.status.start
                /\ Silent(ev, "race_state")
             \/ SaysLast(ev, "race_state", StartState(heard'.status.start))
    PROVE  Turn'
<1>1. /\ runner = "pumping" /\ streak \in Nat /\ 0 \in 0 .. Hard - 1 /\ Warning \in Nat \ {0}
      /\ inq \in Seq(EventSet)
  BY LiveAssumption DEF Turn, LiveTypes, Idle
<1> DEFINE items == Recovered \o ev
<1>2. items \in Seq(EventSet)
  BY RecoveredSays, ST!ConcatProperties
<1>3. /\ inq' \in Seq(EventSet) /\ Len(inq') <= QueueCap /\ lost' \in BOOLEAN
      /\ ~lost' => ~lost /\ inq' = inq \o items
  BY <1>2, Put DEF Turn
<1>4. LiveTypes'
  BY <1>1, <1>3 DEF Turn, LiveTypes
<1>5. Idle'
  BY <1>1 DEF Idle
<1>6. ASSUME ~lost'
      PROVE  \E v : v # "degraded" /\ LatestIs(inq', "connection_state", said', v)
  <2>1. CASE streak > 0
    <3>1. SaysLast(items, "connection_state", "connected")
      BY <2>1, RecoveredSays, JoinedBefore
    <3> HIDE DEF items
    <3>2. LatestIs(inq', "connection_state", said', "connected")
      BY <1>1, <1>2, <1>3, <1>6, <3>1, JoinedLast DEF LatestIs
    <3> QED
      BY <3>2
  <2>2. CASE ~(streak > 0)
    <3>1. items = ev
      BY <2>2, RecoveredSays, ST!ConcatEmptySeq
    <3>2. streak < Warning
      BY <1>1, <2>2
    <3>3. PICK v : v # "degraded" /\ LatestIs(inq, "connection_state", said, v)
      BY <1>1, <1>3, <1>6, <3>2 DEF Turn, Told
    <3> HIDE DEF items
    <3>4. LatestIs(inq', "connection_state", said', v)
      BY <1>1, <1>3, <1>6, <3>1, <3>3, StillLatest
    <3> QED
      BY <3>3, <3>4
  <2> QED
    BY <2>1, <2>2
<1>7. ASSUME ~lost', heard'.status # NoStatus
      PROVE  LatestIs(inq', "race_state", latest', StartState(heard'.status.start))
  <2>1. CASE /\ heard.status # NoStatus /\ heard'.status.start = heard.status.start
             /\ Silent(ev, "race_state")
    <3>1. Silent(items, "race_state")
      BY <2>1, RecoveredSays, JoinedSilent
    <3>2. LatestIs(inq, "race_state", latest, StartState(heard.status.start))
      BY <1>1, <1>3, <1>7, <2>1 DEF Turn, Told
    <3> HIDE DEF items
    <3> QED
      BY <1>1, <1>2, <1>3, <1>7, <2>1, <3>1, <3>2, StillLatest
  <2>2. CASE SaysLast(ev, "race_state", StartState(heard'.status.start))
    <3>1. SaysLast(items, "race_state", StartState(heard'.status.start))
      BY <2>2, RecoveredSays, JoinedLast
    <3> HIDE DEF items
    <3> QED
      BY <1>1, <1>2, <1>3, <1>7, <3>1, JoinedLast DEF LatestIs
  <2> QED
    BY <1>7, <2>1, <2>2
<1> HIDE DEF items
<1>8. streak' < Warning /\ ~(streak' >= Warning)
  BY <1>1
<1>9. Told'
  BY <1>6, <1>7, <1>8 DEF Told
<1> QED
  BY <1>4, <1>5, <1>9 DEF Turn

-----------------------------------------------------------------------------

LEMMA TurnOfReader ==
    ASSUME Turn, LapInv, PollFails \/ Repeats \/ HearsStatus \/ ReaderCancelled
    PROVE  Turn'
<1>1. CASE PollFails
  <2>1. /\ reader = "polling" /\ reader' = "failed" /\ why' = "poll" /\ streak' = 0
        /\ UNCHANGED <<cu, inq, lost, runner, first, backoff, latest, said, asking, leaked>>
    BY <1>1 DEF PollFails, Ends, client
  <2>2. 0 \in 0 .. Hard - 1
    BY LiveAssumption
  <2> QED
    BY <2>1, <2>2 DEF Turn, LiveTypes, Idle, Told
<1>2. CASE Repeats
  <2>1. /\ reader = "polling" /\ reader' = "polling" /\ streak' = 0 /\ Enqueue(Recovered)
        /\ UNCHANGED <<cu, why, heard, runner, first, backoff, latest, said, asking, leaked>>
    BY <1>2 DEF Repeats, client
  <2>2. Recovered \o <<>> = Recovered
    BY RecoveredSays, ST!ConcatEmptySeq
  <2>3. Enqueue(Recovered \o <<>>)
    BY <2>1, <2>2
  <2> QED
    BY <2>1, <2>3, NothingSays, TurnOfAnswer
<1>3. CASE HearsStatus
  <2> DEFINE now == saying.status
             ev == Events(StatusFrames(heard.status, now))
  <2>1. /\ reader = "polling" /\ reader' = "polling" /\ streak' = 0 /\ Enqueue(Recovered \o ev)
        /\ UNCHANGED <<cu, why, runner, first, backoff, latest, said, asking, leaked>>
    BY <1>3 DEF HearsStatus, client
  <2>2. saying.kind = "status" /\ heard' = [heard EXCEPT !.data = saying, !.status = now]
    BY <1>3 DEF HearsStatus
  <2>3. now \in Statuses
    BY <2>2 DEF LapInv, LapTypes, Sayings, Silence
  <2>4. heard \in Knowledge
    BY DEF LapInv, LapTypes
  <2>5. heard'.status = now
    BY <2>2, <2>4 DEF Knowledge
  <2>6. heard.status \in AnyStatus /\ now \in AnyStatus
    BY <2>3, <2>4, StatusTyped DEF Knowledge
  <2>7. /\ ev \in Seq(EventSet) /\ Silent(ev, "connection_state")
        /\ heard.status.start = now.start => Silent(ev, "race_state")
        /\ heard.status.start # now.start => SaysLast(ev, "race_state", StartState(now.start))
    BY <2>6, StatusEvents
  <2>8. heard.status = NoStatus => heard.status.start # now.start
    <3>1. now.start \in Nat /\ NoStatus.start = -1
      BY <2>3, LiveAssumption DEF NoStatus
    <3> QED
      BY <3>1
  <2> HIDE DEF now, ev
  <2>9. \/ heard.status # NoStatus /\ heard'.status.start = heard.status.start /\ Silent(ev, "race_state")
        \/ SaysLast(ev, "race_state", StartState(heard'.status.start))
    BY <2>5, <2>7, <2>8
  <2> QED
    BY <2>1, <2>7, <2>9, TurnOfAnswer
<1>4. CASE ReaderCancelled
  <2>1. /\ reader = "cancelling" /\ reader' = "cancelled"
        /\ UNCHANGED <<cu, why, streak, inq, lost, runner, first, backoff, latest, said, asking, leaked>>
    BY <1>4 DEF ReaderCancelled, client
  <2> QED
    BY <2>1 DEF Turn, LiveTypes, Idle, Told
<1> QED
  BY <1>1, <1>2, <1>3, <1>4

LEMMA TurnOfTimer == ASSUME Turn, LapInv, HearsTimer PROVE Turn'
<1> DEFINE car   == NormalizeSlot(saying.slot)
           count == heard.count[car] + 1
           frame == LapFrame(car, count, heard.stamp[car], saying.stamp)
           ev == IF car # None /\ heard.stamp[car] # -1 THEN Translate(frame, DebugRaw) ELSE <<>>
<1>1. /\ reader = "polling" /\ reader' = "polling" /\ streak' = 0
      /\ UNCHANGED <<cu, why, runner, first, backoff, latest, said, asking, leaked>>
  BY DEF HearsTimer, client
<1>2. saying \in [kind : {"timer"}, slot : Slots, stamp : Nat] /\ heard \in Knowledge
  BY DEF HearsTimer, LapInv, LapTypes, Sayings, Silence
<1>3. heard'.status = heard.status
  <2>1. \/ heard' = [heard EXCEPT !.data = saying, !.stamp[car] = saying.stamp, !.count[car] = count]
        \/ heard' = [heard EXCEPT !.data = saying]
        \/ heard' = [heard EXCEPT !.data = saying, !.stamp[car] = saying.stamp]
    BY DEF HearsTimer
  <2> HIDE DEF car, count
  <2> QED
    BY <1>2, <2>1 DEF Knowledge
<1>4. Enqueue(Recovered \o ev)
  <2>1. CASE car # None /\ heard.stamp[car] # -1
    BY <2>1 DEF HearsTimer
  <2>2. CASE ~(car # None /\ heard.stamp[car] # -1)
    <3>1. Enqueue(Recovered)
      BY <2>2 DEF HearsTimer
    <3>2. Recovered \o <<>> = Recovered
      BY RecoveredSays, ST!ConcatEmptySeq
    <3> QED
      BY <2>2, <3>1, <3>2
  <2> QED
    BY <2>1, <2>2
<1>5. ev \in Seq(EventSet) /\ Silent(ev, "connection_state") /\ Silent(ev, "race_state")
  <2>1. CASE car # None /\ heard.stamp[car] # -1
    <3>1. car \in CarIds
      <4>1. saying.slot \in Nat
        BY <1>2, LiveAssumption
      <4> QED
        BY <4>1 DEF NormalizeSlot, CarIds, None
    <3>2. car \in Cars
      BY <1>2, <2>1 DEF Cars
    <3>3. heard.count[car] \in Nat /\ heard.stamp[car] \in Int /\ saying.stamp \in Nat
      BY <1>2, <3>2 DEF Knowledge
    <3> HIDE DEF car
    <3>4. frame \in [kind : {"lap"}, car : CarIds, number : Int, time : Int, stamp : Int]
      BY <3>1, <3>3 DEF LapFrame
    <3> HIDE DEF frame
    <3> QED
      BY <2>1, <3>4, LapEvents
  <2>2. CASE ~(car # None /\ heard.stamp[car] # -1)
    BY <2>2, NothingSays
  <2> QED
    BY <2>1, <2>2
<1> HIDE DEF ev
<1>6. /\ heard'.status.start = heard.status.start
      /\ heard'.status # NoStatus => heard.status # NoStatus
  BY <1>3
<1> QED
  BY <1>1, <1>4, <1>5, <1>6, TurnOfAnswer

-----------------------------------------------------------------------------
(* The runner *)

LEMMA LaterBounded ==
    ASSUME NEW b \in InitialBackoff .. MaxBackoff
    PROVE  Later(b) \in InitialBackoff .. MaxBackoff
BY LiveAssumption DEF Later

LEMMA TurnOfConnect ==
    ASSUME Turn, Control, LapInv, Connect \/ ConnectFails \/ Opened \/ Resets \/ Wakes
    PROVE  Turn'
<1>0. InitialBackoff \in InitialBackoff .. MaxBackoff
  BY LiveAssumption
<1>1. CASE Connect \/ ConnectFails
  <2>1. /\ UNCHANGED <<adapter, first, backoff, latest, asking, leaked>>
        /\ runner \in {"off", "connecting"} /\ runner' \in {"connecting", "ended", "sleeping"}
    BY <1>1 DEF Connect, ConnectFails, Attempt
  <2> QED
    BY <2>1 DEF Turn, LiveTypes, Idle, Told, adapter
<1>2. CASE Wakes
  <2>1. /\ UNCHANGED <<adapter, latest, asking, leaked>>
        /\ runner = "sleeping" /\ runner' \in {"connecting", "ended"}
        /\ backoff' = Later(backoff) /\ first' = FALSE
    BY <1>2 DEF Wakes, Attempt
  <2>2. backoff' \in InitialBackoff .. MaxBackoff
    BY <2>1, LaterBounded DEF Turn, LiveTypes
  <2> QED
    BY <2>1, <2>2 DEF Turn, LiveTypes, Idle, Told, adapter
<1>3. CASE runner' = "resetting"
  <2>1. /\ UNCHANGED <<backoff, reader, why, streak, inq, lost, first, asking, leaked>>
        /\ runner = "connecting" /\ cu' = "open"
    BY <1>0, <1>3 DEF Connect, ConnectFails, Opened, Resets, Wakes, Attempt, Pumping
  <2> QED
    BY <1>3, <2>1 DEF Turn, LiveTypes, Idle, Told
<1>4. CASE (Opened \/ Resets) /\ runner' # "resetting"
  <2>1. /\ runner \in {"connecting", "resetting"} /\ runner' = "pumping"
        /\ said' = "connected" /\ backoff' = InitialBackoff /\ reader' = "polling"
        /\ UNCHANGED <<why, streak, heard, inq, lost, first, latest, asking, leaked>>
        /\ cu' \in {cu, "open"}
    BY <1>4 DEF Opened, Resets, Pumping
  <2>2. reader = "none" /\ inq = <<>> /\ lost = FALSE /\ streak = 0 /\ heard.status = NoStatus
    BY <2>1 DEF Control, Turn, Idle, LapInv, Memory, Fresh
  <2>3. LatestIs(inq', "connection_state", said', "connected") /\ streak' < Warning
        /\ ~(streak' >= Warning)
    BY <2>1, <2>2, LiveAssumption, NothingSays DEF LatestIs
  <2>4. LiveTypes' /\ Idle'
    BY <1>0, <2>1 DEF Turn, LiveTypes, Idle
  <2>5. Told'
    BY <2>1, <2>2, <2>3 DEF Told
  <2> QED
    BY <2>4, <2>5 DEF Turn
<1> QED
  BY <1>1, <1>2, <1>3, <1>4

\* A runner that leaves takes nothing of the adapter with it.
LEMMA TurnOfLeaving ==
    ASSUME Turn, NEW how \in {"closing", "dying"}, Leaves(how),
           UNCHANGED <<cu, first, backoff, leaked>>,
           asking' \in {"no", "closing", "unlinking", "waiting", "cancelling", "done", "raised"}
    PROVE  Turn'
<1>1. /\ runner' = how /\ inq' = <<>> /\ lost' = FALSE /\ why' = "poll"
      /\ IF reader = "polling" THEN reader' = "cancelling" /\ streak' = 0
         ELSE UNCHANGED <<reader, streak>>
  BY DEF Leaves, BeginClose, Ends
<1>2. <<>> \in Seq(EventSet) /\ Len(<<>>) <= QueueCap /\ 0 \in 0 .. Hard - 1
  BY LiveAssumption, NothingSays
<1> QED
  BY <1>1, <1>2 DEF Turn, LiveTypes, Idle, Told

LEMMA TurnOfForward == ASSUME Turn, Forward PROVE Turn'
<1> DEFINE told == IF Head(inq).type = "connection_state" THEN Head(inq).state ELSE said
<1>1. /\ runner = "pumping" /\ inq # <<>> /\ inq \in Seq(EventSet)
      /\ UNCHANGED <<cu, first, backoff, asking, leaked>>
      /\ latest' = IF Head(inq).type = "race_state" THEN Head(inq).state ELSE latest
  BY DEF Forward, Turn, LiveTypes
<1>2. CASE Leaves("closing")
  BY <1>1, <1>2, TurnOfLeaving DEF Turn, LiveTypes
<1>3. CASE ~Leaves("closing")
  <2>1. /\ said' = told /\ inq' = Tail(inq)
        /\ UNCHANGED <<runner, reader, heard, streak, lost, why>>
    BY <1>3 DEF Forward
  <2>2. inq' \in Seq(EventSet) /\ Len(inq') <= QueueCap
    <3>1. Tail(inq) \in Seq(EventSet) /\ Len(Tail(inq)) = Len(inq) - 1
      BY <1>1, ST!HeadTailProperties
    <3>2. Len(inq) \in Nat /\ Len(inq) <= QueueCap /\ QueueCap \in Nat
      BY <1>1, LiveAssumption, ST!LenProperties DEF Turn, LiveTypes
    <3> QED
      BY <2>1, <3>1, <3>2
  <2>3. \A v : LatestIs(inq, "connection_state", said, v) =>
                 LatestIs(inq', "connection_state", said', v)
    BY <1>1, <2>1, LatestOfTail
  <2>4. \A v : LatestIs(inq, "race_state", latest, v) =>
                 LatestIs(inq', "race_state", latest', v)
    BY <1>1, <2>1, LatestOfTail
  <2> HIDE DEF told
  <2>5. LiveTypes' /\ Idle'
    BY <1>1, <2>1, <2>2 DEF Turn, LiveTypes, Idle
  <2>6. Told'
    BY <1>1, <2>1, <2>3, <2>4 DEF Turn, Told
  <2> QED
    BY <2>5, <2>6 DEF Turn
<1> QED
  BY <1>2, <1>3

LEMMA TurnOfPump == ASSUME Turn, SeesError \/ SeesEnd \/ Closes PROVE Turn'
<1>1. CASE SeesError
  BY <1>1, TurnOfLeaving DEF SeesError, Turn, LiveTypes
<1>2. CASE SeesEnd
  BY <1>2, TurnOfLeaving DEF SeesEnd, Turn, LiveTypes
<1>3. CASE Closes
  <2>1. /\ runner \in {"closing", "dying"} /\ runner' \in {"cancelled", "ended", "sleeping"}
        /\ reader' = "none" /\ cu' = "none"
        /\ UNCHANGED <<why, streak, inq, lost, first, backoff, asking, leaked>>
    BY <1>3 DEF Closes, EndClose
  <2> QED
    BY <2>1 DEF Turn, LiveTypes, Idle, Told
<1> QED
  BY <1>1, <1>2, <1>3

-----------------------------------------------------------------------------
(* disconnect *)

LEMMA TurnOfDisconnect == ASSUME Turn, Disconnect \/ Disconnecting PROVE Turn'
<1>0. 0 \in 0 .. Hard - 1
  BY LiveAssumption
<1>1. CASE Disconnect
  <2>1. /\ asking' \in {"closing", "unlinking", "waiting"}
        /\ UNCHANGED <<cu, why, inq, lost, runner, first, backoff, latest, said, leaked>>
        /\ \/ reader = "polling" /\ reader' = "cancelling" /\ streak' = 0
           \/ reader # "polling" /\ UNCHANGED <<reader, streak, heard>>
    BY <1>1 DEF Disconnect, BeginClose, Ends, client
  <2> QED
    BY <1>0, <2>1 DEF Turn, LiveTypes, Idle, Told
<1>2. CASE Closed
  <2>1. /\ asking' = "waiting" /\ cu' = "none"
        /\ UNCHANGED <<why, streak, heard, inq, lost, runner, first, backoff, latest, said, leaked>>
        /\ (reader' = "none" /\ reader # "polling") \/ reader' = reader
    BY <1>2 DEF Closed, EndClose, client
  <2> QED
    BY <2>1 DEF Turn, LiveTypes, Idle, Told
<1>3. CASE Cancel
  <2>1. asking' = "cancelling" /\ UNCHANGED <<first, backoff, latest>>
    BY <1>3 DEF Cancel
  <2>2. CASE runner \in {"connecting", "resetting", "sleeping"}
    <3>1. runner' = "cancelled" /\ UNCHANGED <<cu, reader, why, streak, inq, lost>>
          /\ leaked' \in {leaked, TRUE, leaked \/ cu = "open"}
      BY <1>3, <2>2 DEF Cancel, adapter
    <3>2. leaked' \in BOOLEAN
      BY <3>1 DEF Turn, LiveTypes
    <3> QED
      BY <2>1, <2>2, <3>1, <3>2 DEF Turn, LiveTypes, Idle, Told
  <2>3. CASE runner = "pumping"
    <3>1. Leaves("dying") /\ UNCHANGED <<cu, said, leaked>>
      BY <1>3, <2>3 DEF Cancel
    <3> QED
      BY <2>1, <3>1, TurnOfLeaving
  <2>4. CASE runner \in {"closing", "dying"}
    <3>1. /\ UNCHANGED <<why, streak, inq, lost, leaked>>
          /\ runner' \in {runner, "cancelled"}
          /\ reader' = "none" \/ reader' = reader
          /\ cu' = "none" \/ cu' = cu
      BY <1>3, <2>4 DEF Cancel, EndClose
    <3> QED
      BY <2>1, <2>4, <3>1 DEF Turn, LiveTypes, Idle, Told
  <2> QED
    BY <1>3, <2>2, <2>3, <2>4 DEF Cancel
<1>4. CASE Returned
  <2>1. asking' \in {"raised", "done"} /\ UNCHANGED <<adapter, client, leaked>>
    BY <1>4 DEF Returned
  <2> QED
    BY <2>1 DEF Turn, LiveTypes, Idle, Told, adapter, client
<1> QED
  BY <1>1, <1>2, <1>3, <1>4 DEF Disconnecting

LEMMA TurnStep == Control /\ LapInv /\ Turn /\ [Next]_vars => Turn'
<1> SUFFICES ASSUME Control, LapInv, Turn, [Next]_vars
             PROVE  Turn'
  OBVIOUS
<1>1. CASE UNCHANGED vars
  BY <1>1 DEF vars, adapter, client, Turn, LiveTypes, Idle, Told
<1> QED
  BY <1>1, TurnOfUnit, TurnOfTimeout, TurnOfReader, TurnOfTimer, TurnOfConnect,
     TurnOfForward, TurnOfPump, TurnOfDisconnect DEF Next, Reader, Runner

LEMMA AlwaysTurn == Spec => [](Control /\ LapInv /\ Turn)
BY LapsInit, LapsStep, TurnInit, TurnStep, AlwaysControl, PTL DEF Spec

-----------------------------------------------------------------------------
(* What the runner is told *)

LEMMA ClockBounded ==
    ASSUME clock \in 0 .. MaxClock, [Next]_vars
    PROVE  clock' \in 0 .. MaxClock
<1>1. MaxClock \in Nat
  BY LiveAssumption
<1>2. CASE Cross
  <2>1. clock < MaxClock /\ clock' = clock + 1
    BY <1>2 DEF Cross
  <2> QED
    BY <1>1, <2>1
<1>3. CASE Resets
  BY <1>1, <1>3 DEF Resets, unit
<1>4. CASE ~Cross /\ ~Resets
  <2>1. clock' = clock
    <3>1. CASE Report \/ Connect \/ Disconnect \/ UNCHANGED vars
      BY <3>1 DEF Report, Connect, Disconnect, vars, unit
    <3>2. CASE Reader
      BY <3>2 DEF Reader, TimesOut, PollFails, Repeats, HearsStatus, HearsTimer,
                  ReaderCancelled, unit
    <3>3. CASE Runner
      BY <1>4, <3>3 DEF Runner, ConnectFails, Opened, Forward, SeesError, SeesEnd, Closes,
                        Wakes, unit
    <3>4. CASE Disconnecting
      BY <3>4 DEF Disconnecting, Closed, Cancel, Returned, unit
    <3> QED
      BY <1>4, <3>1, <3>2, <3>3, <3>4 DEF Next
  <2> QED
    BY <2>1
<1> QED
  BY <1>2, <1>3, <1>4

\* Every state of the parts is one of its own, the queue of an adapter holds no more than
\* it may, and all that is in it the event model accepts (carrera_client.py, _enqueue,
\* LinkHealthTracker and the tasks of the runner).
THEOREM TypeCorrect == Spec => []TypeOK
<1>1. LiveTypes /\ clock \in 0 .. MaxClock => TypeOK
  <2> SUFFICES ASSUME LiveTypes, clock \in 0 .. MaxClock
               PROVE  TypeOK
    OBVIOUS
  <2>1. \A i \in DOMAIN inq : Accepts(inq[i])
    <3>1. \A i \in DOMAIN inq : inq[i] \in EventSet
      BY ST!LenProperties, ST!ElementOfSeq DEF LiveTypes
    <3> QED
      BY <3>1, EventsAccepted
  <2> QED
    BY <2>1 DEF LiveTypes, TypeOK
<1>2. Init => clock \in 0 .. MaxClock
  BY LiveAssumption DEF Init
<1>3. clock \in 0 .. MaxClock /\ [Next]_vars => (clock \in 0 .. MaxClock)'
  BY ClockBounded
<1>4. Spec => [](clock \in 0 .. MaxClock)
  BY <1>2, <1>3, PTL DEF Spec
<1>5. Turn => LiveTypes
  BY DEF Turn
<1> QED
  BY <1>1, <1>4, <1>5, AlwaysTurn, PTL

\* While a unit is polled, the last that the queue and the runner say of the link and of
\* the race is what the polls have said, if nothing was lost (carrera_client.py, the read
\* loop, LinkHealthTracker and _translate_status against the loop of the runner).
THEOREM ToldAll == Spec => []ToldAsPolled
<1>1. Turn => ToldAsPolled
  <2> SUFFICES ASSUME Turn, runner = "pumping", reader = "polling", ~lost
               PROVE  /\ (LastOf("connection_state", said) = "degraded") = (streak >= Warning)
                      /\ heard.status # NoStatus =>
                           LastOf("race_state", latest) = StartState(heard.status.start)
    BY DEF ToldAsPolled
  <2>1. inq \in Seq(EventSet) /\ streak \in Nat /\ Warning \in Nat
    BY LiveAssumption DEF Turn, LiveTypes
  <2>2. (LastOf("connection_state", said) = "degraded") = (streak >= Warning)
    <3>1. CASE streak >= Warning
      <4>1. LastOf("connection_state", said) = "degraded"
        BY <2>1, <3>1, LastIsLatest DEF Turn, Told
      <4> QED
        BY <3>1, <4>1
    <3>2. CASE ~(streak >= Warning)
      <4>1. PICK v : v # "degraded" /\ LatestIs(inq, "connection_state", said, v)
        BY <2>1, <3>2 DEF Turn, Told
      <4>2. LastOf("connection_state", said) = v
        BY <2>1, <4>1, LastIsLatest
      <4> QED
        BY <3>2, <4>1, <4>2
    <3> QED
      BY <3>1, <3>2
  <2>3. heard.status # NoStatus => LastOf("race_state", latest) = StartState(heard.status.start)
    BY <2>1, LastIsLatest DEF Turn, Told
  <2> QED
    BY <2>2, <2>3
<1> QED
  BY <1>1, AlwaysTurn, PTL

\* The runner learns that a silent unit was given up only after it was told of the stall
\* (carrera_client.py, the read loop and events).
THEOREM StallTold == Spec => StallToldFirst
<1>1. Turn /\ [Next]_vars =>
        (runner = "pumping" /\ said' = "adapter_read_error" /\ said' # said
           /\ why = "idle" /\ ~lost => said = "stalled")
  <2> SUFFICES ASSUME Turn, [Next]_vars, runner = "pumping", said' = "adapter_read_error",
                      said' # said, why = "idle", ~lost
               PROVE  said = "stalled"
    OBVIOUS
  <2>1. CASE SeesError
    <3>1. inq = <<>> /\ reader = "failed"
      BY <2>1 DEF SeesError
    <3>2. LatestIs(<<>>, "connection_state", said, "stalled")
      BY <3>1 DEF Turn, Told
    <3> QED
      BY <3>2 DEF LatestIs, SaysLast
  <2>2. ~Forward
    <3> SUFFICES ASSUME Forward PROVE FALSE
      OBVIOUS
    <3>1. inq \in Seq(EventSet) /\ inq # <<>>
      BY DEF Forward, Turn, LiveTypes
    <3>2. Head(inq) \in EventSet
      BY <3>1, ST!HeadTailProperties
    <3>3. Head(inq).type = "connection_state" => Head(inq).state \in LinkStates
      BY <3>2, EventsAccepted DEF Accepts
    <3>4. \/ said' \in {said, "periodic_maintenance"}
          \/ Head(inq).type = "connection_state" /\ said' = Head(inq).state
      BY DEF Forward
    <3> QED
      BY <3>3, <3>4 DEF LinkStates
  <2>3. CASE UNCHANGED said
    BY <2>3
  <2>4. CASE ~SeesError /\ ~(UNCHANGED said)
    <3>1. ~(Cross \/ Report \/ Disconnect \/ UNCHANGED vars)
      BY <2>4 DEF Cross, Report, Disconnect, vars, client
    <3>2. ~Reader
      BY <2>4 DEF Reader, TimesOut, PollFails, Repeats, HearsStatus, HearsTimer,
                  ReaderCancelled, client
    <3>3. ~Disconnecting
      BY <2>4 DEF Disconnecting, Closed, Cancel, Returned, client
    <3>4. ~(Connect \/ Runner)
      BY <2>2, <2>4 DEF Runner, Connect, ConnectFails, Opened, Resets, SeesEnd, Closes, Wakes
    <3> QED
      BY <3>1, <3>2, <3>3, <3>4 DEF Next
  <2> QED
    BY <2>1, <2>3, <2>4
<1> QED
  BY <1>1, AlwaysTurn, PTL DEF StallToldFirst, Spec
=============================================================================
