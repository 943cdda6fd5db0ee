---------------------- MODULE BluetoothSupervisorProofs ----------------------
(***************************************************************************)
(* The supervisor has one link at a time and implements ManagedLink, for   *)
(* any number of sessions, presses, calls and restarts.                    *)
(*                                                                         *)
(* Opening a link takes place under the operation lock; closing one does   *)
(* not when the run loop does it.  What keeps the two apart is that an     *)
(* adapter is given up before it is closed, and that nobody but the run    *)
(* loop, which cannot open while it closes, puts a new one in its place.   *)
(*                                                                         *)
(* The coroutines take turns at the file (Turns), so that what the process *)
(* has loaded of it was loaded after its last look at the command slot.    *)
(* A reading of the defaults brings the slot back only when a setter saves *)
(* it; what the supervisor reads itself is never ahead of the file.        *)
(***************************************************************************)
EXTENDS BluetoothSupervisor, FiniteSetTheorems, TLAPS

Opening == loop \in {"resolve", "write", "connecting"}

\* Who works under the operation lock holds it.
LockHeld ==
    /\ loop \in {"resolve", "write", "connecting", "scanning"} => lock = "loop"
    /\ api.at \in {"enter", "write", "close", "scanning"} => lock = "api"

\* Nobody opens, or waits to open, beside an adapter; nobody closes one that is in use,
\* and a call and the loop never close one each.
OneAdapter ==
    /\ Opening \/ loop = "want_link" => adapter = "none"
    /\ LoopCloses => adapter = "none" /\ api.at # "close"
    /\ api.at = "close" => adapter = "none"

\* main.py calls connect and shutdown only, so that a wish lasts while the loop waits.
WishLasts ==
    /\ use \in {"monitor", "embedded"}
    /\ use = "monitor" => api.op \in {"none", "connect", "shutdown"}
    /\ use = "monitor" /\ loop = "want_link" => desired

LinkInv == LockHeld /\ OneAdapter /\ WishLasts

ApiRecord == api = [op |-> api.op, at |-> api.at]

-----------------------------------------------------------------------------
(* The invariant *)

Closers == {"close_ui", "close_retry", "close_stale", "close_lost"}

LEMMA ClosingNames ==
    ASSUME NEW x
    PROVE  (\E why \in DOMAIN Closing : x = Closing[why]) <=> x \in Closers
<1>1. DOMAIN Closing = {"ui", "retry", "stale", "lost"}
  BY DEF Closing
<1>2. /\ Closing["ui"] = "close_ui" /\ Closing["retry"] = "close_retry"
      /\ Closing["stale"] = "close_stale" /\ Closing["lost"] = "close_lost"
  BY DEF Closing
<1> QED
  BY <1>1, <1>2 DEF Closers

LEMMA ClosersOf == (LoopCloses <=> loop \in Closers) /\ (LoopCloses' <=> loop' \in Closers)
BY ClosingNames DEF LoopCloses

LEMMA LinkInvInit == Init => LinkInv
<1> SUFFICES ASSUME Init
             PROVE  LinkInv
  OBVIOUS
<1>1. /\ use \in {"monitor", "embedded"} /\ adapter = "none" /\ lock = "free" /\ loop = "none"
      /\ api.at = "down" /\ api.op = "none"
  BY UsesAssumption DEF Init
<1> QED
  BY <1>1, ClosersOf DEF LinkInv, LockHeld, OneAdapter, WishLasts, Opening, Closers

\* What the loop does after it closed, or found nothing to close.
LEMMA AfterClosing ==
    ASSUME NEW why \in DOMAIN Closing, Closed(why)
    PROVE  loop' \in {"decide", "top", "wait"}
BY DEF Closed, Closing

LEMMA AfterClose ==
    ASSUME NEW why \in DOMAIN Closing, Close(why)
    PROVE  \/ adapter = "none" /\ adapter' = "none" /\ loop' \in {"decide", "top", "wait"}
           \/ adapter # "none" /\ adapter' = "none" /\ loop' \in Closers
<1>1. Closing[why] \in Closers
  BY ClosingNames
<1> QED
  BY <1>1, AfterClosing DEF Close

\* A step that leaves the lock, the call and what is wished for alone, and the loop
\* outside of the lock.
LEMMA LoopAside ==
    ASSUME LinkInv, lock' = lock, api' = api, use' = use,
           loop' \notin {"want_link", "resolve", "write", "connecting", "scanning"},
           loop' \in Closers => adapter' = "none" /\ api.at # "close",
           adapter = "none" => adapter' = "none"
    PROVE  LinkInv'
BY ClosersOf DEF LinkInv, LockHeld, OneAdapter, WishLasts, Opening, Closers

\* What the loop may read, and what it makes of the command slot.
LEMMA ReadingIs == \A f \in Readings : f \in {file, Defaults}
BY DEF Readings

LEMMA Consumed ==
    ASSUME Consume
    PROVE  /\ loop = "sync"
           /\ UNCHANGED <<file, todo, hand, presses, forgotten, bounds, torn, stop, api>>
           /\ \E f \in Readings : \E cmd :
                /\ Counted(f)
                /\ lastSeq' = IF f.seq > lastSeq THEN f.seq ELSE lastSeq
                /\ \/ /\ cmd \in {"none", "connect", "scan"}
                      /\ loop' \in {"want_scan", "decide"}
                      /\ desired' = (desired \/ cmd = "connect")
                      /\ manual' = (manual /\ cmd # "connect")
                      /\ lock' = lock \/ Ask("loop")
                      /\ UNCHANGED <<status, adapter>>
                   \/ /\ cmd \in {"disconnect", "retry"}
                      /\ desired' = (cmd = "retry")
                      /\ manual' = (cmd = "disconnect")
                      /\ lock' = lock
                      /\ \E why \in {"ui", "retry"} : Close(why)
<1>1. loop = "sync" /\ UNCHANGED <<file, todo, hand, presses, forgotten, bounds, torn, stop, api>>
  BY DEF Consume
<1>2. PICK f \in Readings :
        LET cmd == IF f.seq > lastSeq THEN f.cmd ELSE "none" IN
        /\ Counted(f)
        /\ lastSeq' = IF f.seq > lastSeq THEN f.seq ELSE lastSeq
        /\ \/ /\ cmd \in {"none", "connect", "scan"}
              /\ loop' = IF cmd = "scan" THEN "want_scan" ELSE "decide"
              /\ desired' = (desired \/ cmd = "connect")
              /\ manual' = (manual /\ cmd # "connect")
              /\ IF cmd = "scan" THEN Ask("loop") ELSE UNCHANGED lock
              /\ UNCHANGED <<status, adapter>>
           \/ /\ cmd \in {"disconnect", "retry"}
              /\ desired' = (cmd = "retry")
              /\ manual' = (cmd = "disconnect")
              /\ Close(IF cmd = "disconnect" THEN "ui" ELSE "retry")
              /\ UNCHANGED lock
  BY DEF Consume
<1> DEFINE cmd == IF f.seq > lastSeq THEN f.cmd ELSE "none"
<1>3. /\ Counted(f)
      /\ lastSeq' = IF f.seq > lastSeq THEN f.seq ELSE lastSeq
  BY <1>2
<1>4. \/ /\ cmd \in {"none", "connect", "scan"}
         /\ loop' \in {"want_scan", "decide"}
         /\ desired' = (desired \/ cmd = "connect")
         /\ manual' = (manual /\ cmd # "connect")
         /\ lock' = lock \/ Ask("loop")
         /\ UNCHANGED <<status, adapter>>
      \/ /\ cmd \in {"disconnect", "retry"}
         /\ desired' = (cmd = "retry")
         /\ manual' = (cmd = "disconnect")
         /\ lock' = lock
         /\ \E why \in {"ui", "retry"} : Close(why)
  BY <1>2
<1> HIDE DEF cmd
<1> QED
  BY <1>1, <1>3, <1>4

LEMMA InvRequests ==
    ASSUME LinkInv, TaskStarts \/ Top \/ Consume \/ LoopClosed \/ Waited
    PROVE  LinkInv'
<1>1. CASE TaskStarts \/ Top \/ Waited
  <2>1. /\ lock' = lock /\ api' = api /\ use' = use /\ adapter' = adapter
        /\ loop' \in {"top", "sync", "done"}
    BY <1>1 DEF TaskStarts, Top, Waited, bounds
  <2> QED
    BY <2>1, LoopAside DEF Closers
<1>2. CASE LoopClosed
  <2>1. /\ lock' = lock /\ api' = api /\ use' = use /\ adapter' = adapter
        /\ \E why \in DOMAIN Closing : Closed(why)
    BY <1>2 DEF LoopClosed, bounds
  <2>2. loop' \in {"decide", "top", "wait"}
    BY <2>1, AfterClosing
  <2> QED
    BY <2>1, <2>2, LoopAside DEF Closers
<1>3. CASE Consume
  <2>1. api' = api /\ use' = use /\ loop = "sync"
    BY <1>3, Consumed DEF bounds
  <2>2. CASE /\ adapter' = adapter /\ loop' \in {"want_scan", "decide"}
             /\ lock' = lock \/ Ask("loop")
    <3>1. lock' = lock \/ (lock = "free" /\ lock' = "loop")
      BY <2>2 DEF Ask
    <3> QED
      BY <2>1, <2>2, <3>1, ClosersOf DEF LinkInv, LockHeld, OneAdapter, WishLasts, Opening, Closers
  <2>3. CASE lock' = lock /\ \E why \in {"ui", "retry"} : Close(why)
    <3>1. {"ui", "retry"} \subseteq DOMAIN Closing
      BY DEF Closing
    <3>2. \/ adapter = "none" /\ adapter' = "none" /\ loop' \in {"decide", "top", "wait"}
          \/ adapter # "none" /\ adapter' = "none" /\ loop' \in Closers
      BY <2>3, <3>1, AfterClose
    <3> QED
      BY <2>1, <2>3, <3>2, LoopAside DEF LinkInv, OneAdapter, Closers
  <2> QED
    BY <1>3, <2>2, <2>3, Consumed
<1> QED
  BY <1>1, <1>2, <1>3

LEMMA InvConnect ==
    ASSUME LinkInv, Decide \/ Resolve \/ Resolved \/ TargetStored \/ Connected \/ ConnectFails
    PROVE  LinkInv'
<1> USE ClosersOf DEF LinkInv, LockHeld, OneAdapter, WishLasts, Opening, Closers, bounds
<1>1. CASE Decide
  <2>1. /\ loop = "decide" /\ api' = api /\ use' = use /\ adapter' = adapter /\ desired' = desired
        /\ lock' = lock \/ (lock = "free" /\ lock' = "loop")
        /\ \/ loop' \in {"wait", "pump"}
           \/ loop' = "want_link" /\ desired /\ adapter = "none"
    BY <1>1 DEF Decide, Ask
  <2> QED
    BY <2>1
<1>2. CASE Resolve
  BY <1>2 DEF Resolve, At
<1>3. CASE Resolved
  BY <1>3 DEF Resolved, At, ApiBusy
<1>4. CASE TargetStored
  BY <1>4 DEF TargetStored
<1>5. CASE Connected
  <2>1. lock = "loop" /\ loop = "connecting" /\ lock' \in {"free", "api"} /\ loop' = "top"
    BY <1>5 DEF Connected, Release, At
  <2> QED
    BY <1>5, <2>1 DEF Connected
<1>6. CASE ConnectFails
  <2>1. /\ lock = "loop" /\ lock' \in {"free", "api"} /\ loop' \in {"wait", "top"}
        /\ adapter' = adapter /\ api' = api /\ use' = use
    BY <1>6 DEF ConnectFails, Release, At
  <2> QED
    BY <2>1
<1> QED
  BY <1>1, <1>2, <1>3, <1>4, <1>5, <1>6

\* Reading the adapter.
LEMMA InvPump ==
    ASSUME LinkInv, Event \/ Quiet \/ StreamEnds \/ LoopPoisoned \/ LinkFails
    PROVE  LinkInv'
<1>1. ASSUME NEW st, NEW ad, MaybeStale(st, ad)
      PROVE  \/ loop' = "top" /\ adapter' = ad
             \/ loop' \in Closers /\ adapter' = "none" /\ ad # "none"
  BY <1>1 DEF MaybeStale, Closing, Closers
<1>2. CASE Event
  <2>1. /\ lock' = lock /\ api' = api /\ use' = use
        /\ \/ loop' = "top" /\ adapter' = adapter
           \/ loop' \in Closers /\ adapter' = "none" /\ adapter # "none"
    BY <1>1, <1>2 DEF Event, bounds
  <2> QED
    BY <2>1, LoopAside DEF LinkInv, OneAdapter, Closers
<1>3. CASE Quiet
  <2>1. /\ lock' = lock /\ api' = api /\ use' = use
        /\ \/ loop' = "top" /\ adapter' = IF adapter = "live" THEN "finished" ELSE "none"
           \/ loop' \in Closers /\ adapter' = "none" /\ adapter # "none"
    BY <1>1, <1>3 DEF Quiet, bounds
  <2> QED
    BY <2>1, LoopAside DEF LinkInv, OneAdapter, Closers
<1>4. CASE StreamEnds
  <2>1. "lost" \in DOMAIN Closing
    BY DEF Closing
  <2>2. /\ lock' = lock /\ api' = api /\ use' = use
        /\ \/ loop' = "top" /\ adapter' = adapter
           \/ Close("lost")
    BY <1>4 DEF StreamEnds, Lost, bounds
  <2>3. \/ loop' = "top" /\ adapter' = adapter
        \/ adapter = "none" /\ adapter' = "none" /\ loop' \in {"decide", "top", "wait"}
        \/ adapter # "none" /\ adapter' = "none" /\ loop' \in Closers
    BY <2>1, <2>2, AfterClose
  <2> QED
    BY <2>2, <2>3, LoopAside DEF LinkInv, OneAdapter, Closers
<1>5. CASE LoopPoisoned
  <2>1. lock' = lock /\ api' = api /\ use' = use /\ adapter' = adapter /\ loop' = "done"
    BY <1>5 DEF LoopPoisoned, bounds
  <2> QED
    BY <2>1, LoopAside DEF Closers
<1>6. CASE LinkFails
  BY <1>6, ClosersOf DEF LinkFails, LinkInv, LockHeld, OneAdapter, WishLasts, Opening, Closers, bounds
<1> QED
  BY <1>2, <1>3, <1>4, <1>5, <1>6

LEMMA InvScan ==
    ASSUME LinkInv, LoopScans \/ LoopScanned
    PROVE  LinkInv'
<1> USE ClosersOf DEF LinkInv, LockHeld, OneAdapter, WishLasts, Opening, Closers, bounds
<1>1. CASE LoopScans
  <2>1. /\ lock = "loop" /\ api' = api /\ use' = use /\ adapter' = adapter
        /\ \/ loop' = "decide" /\ lock' \in {"free", "api"}
           \/ loop' = "scanning" /\ lock' = lock
    BY <1>1 DEF LoopScans, Release, At
  <2> QED
    BY <2>1
<1>2. CASE LoopScanned
  <2>1. /\ lock = "loop" /\ api' = api /\ use' = use /\ adapter' = adapter
        /\ loop' \in {"decide", "wait"} /\ lock' \in {"free", "api"}
    BY <1>2 DEF LoopScanned, Release, At
  <2> QED
    BY <2>1
<1> QED
  BY <1>1, <1>2

\* The end of a call: its lock goes to the loop, if that waits for it.
LEMMA AfterFinish ==
    ASSUME lock = "api", Finish
    PROVE  /\ api'.op = "none" /\ api'.at \in {"idle", "down"}
           /\ lock' \in {"free", "loop"}
BY DEF Finish, Release

\* The end of a call that left the link alone.
LEMMA Finished ==
    ASSUME LinkInv, lock = "api", use' = use,
           api'.op = "none", api'.at \in {"idle", "down"}, lock' \in {"free", "loop"},
           loop' \in {loop, "new"}, adapter' = adapter, desired' = desired
    PROVE  LinkInv'
BY ClosersOf DEF LinkInv, LockHeld, OneAdapter, WishLasts, Opening, Closers

\* A call that closes the adapter, if there is one; it holds the lock, so that the loop
\* opens nothing meanwhile.
LEMMA AfterCallCloses ==
    ASSUME lock = "api", CallCloses
    PROVE  \/ /\ api'.op = "none" /\ api'.at \in {"idle", "down"}
              /\ lock' \in {"free", "loop"} /\ adapter' = adapter
           \/ /\ adapter # "none" /\ adapter' = "none"
              /\ api' = [api EXCEPT !.at = "close"] /\ lock' = lock
<1>1. CASE adapter = "none"
  BY <1>1, AfterFinish DEF CallCloses
<1>2. CASE adapter # "none"
  BY <1>2 DEF CallCloses
<1> QED
  BY <1>1, <1>2

LEMMA CloseInCall ==
    ASSUME LinkInv, ApiRecord, lock = "api", CallCloses,
           use' = use, loop' \in {loop, "new"}, desired' = desired
    PROVE  LinkInv'
<1>1. CASE /\ api'.op = "none" /\ api'.at \in {"idle", "down"}
           /\ lock' \in {"free", "loop"} /\ adapter' = adapter
  BY <1>1, Finished
<1>2. CASE /\ adapter # "none" /\ adapter' = "none"
           /\ api' = [api EXCEPT !.at = "close"] /\ lock' = lock
  <2>1. api'.op = api.op /\ api'.at = "close"
    BY <1>2 DEF ApiRecord
  <2> QED
    BY <1>2, <2>1, ClosersOf DEF LinkInv, LockHeld, OneAdapter, WishLasts, Opening, Closers
<1> QED
  BY <1>1, <1>2, AfterCallCloses

LEMMA InvEnter == ASSUME LinkInv, ApiRecord, Enter PROVE LinkInv'
<1>1. lock = "api" /\ loop' = loop /\ use' = use
  BY DEF Enter, bounds, LinkInv, LockHeld
<1>2. CASE api.op \in {"connect", "disconnect", "drop", "retry"} /\ CallWrites(api.op)
  <2>1. /\ api'.op = api.op /\ api'.at = "write" /\ adapter' = adapter /\ lock' = lock
        /\ api.op \in {"connect", "retry"} => desired'
    BY <1>2 DEF CallWrites
  <2> QED
    BY <1>1, <1>2, <2>1, ClosersOf DEF LinkInv, LockHeld, OneAdapter, WishLasts, Opening, Closers
<1>3. CASE api.op = "scan" /\ CallScans
  <2>1. CASE status \in BusyStates
    BY <1>1, <1>3, <2>1, AfterFinish, Finished DEF CallScans
  <2>2. CASE status \notin BusyStates
    <3>1. /\ api' = [api EXCEPT !.at = "scanning"] /\ lock' = lock
          /\ adapter' = adapter /\ desired' = desired
      BY <1>3, <2>2 DEF CallScans
    <3>2. api'.op = api.op /\ api'.at = "scanning"
      BY <3>1 DEF ApiRecord
    <3> QED
      BY <1>1, <3>1, <3>2, ClosersOf
         DEF LinkInv, LockHeld, OneAdapter, WishLasts, Opening, Closers
  <2> QED
    BY <2>1, <2>2
<1>4. CASE api.op = "shutdown" /\ CallCloses /\ UNCHANGED <<todo, desired, manual>>
  BY <1>1, <1>4, CloseInCall
<1> QED
  BY <1>2, <1>3, <1>4 DEF Enter

LEMMA Started == EnsureStarted => loop' \in {loop, "new"}
BY DEF EnsureStarted

LEMMA InvWritten == ASSUME LinkInv, ApiRecord, Written PROVE LinkInv'
<1>1. lock = "api" /\ use' = use /\ desired' = desired /\ loop' \in {loop, "new"}
  BY Started DEF Written, bounds, LinkInv, LockHeld
<1>2. CASE api.op = "connect"
  <2>1. Finish /\ adapter' = adapter
    BY <1>2 DEF Written
  <2> QED
    BY <1>1, <2>1, AfterFinish, Finished
<1>3. CASE api.op # "connect"
  <2>1. CallCloses
    BY <1>3 DEF Written
  <2> QED
    BY <1>1, <2>1, CloseInCall
<1> QED
  BY <1>2, <1>3

LEMMA InvCallEnds ==
    ASSUME LinkInv, WriteFails \/ CallClosed \/ CallScanned
    PROVE  LinkInv'
<1>1. CASE WriteFails
  <2>1. /\ lock = "api" /\ use' = use /\ desired' = desired /\ adapter' = adapter /\ loop' = loop
        /\ api'.op = "none" /\ api'.at \in {"idle", "down"} /\ lock' \in {"free", "loop"}
    BY <1>1 DEF WriteFails, Release, bounds, LinkInv, LockHeld
  <2> QED
    BY <2>1, Finished
<1>2. CASE CallClosed
  <2>1. /\ lock = "api" /\ use' = use /\ desired' = desired /\ adapter' = adapter
        /\ loop' \in {loop, "new"} /\ Finish
    BY <1>2, Started DEF CallClosed, ApiAt, bounds, LinkInv, LockHeld
  <2> QED
    BY <2>1, AfterFinish, Finished
<1>3. CASE CallScanned
  <2>1. /\ lock = "api" /\ use' = use /\ desired' = desired /\ adapter' = adapter
        /\ loop' = loop /\ Finish
    BY <1>3 DEF CallScanned, ApiAt, bounds, LinkInv, LockHeld
  <2> QED
    BY <2>1, AfterFinish, Finished
<1> QED
  BY <1>1, <1>2, <1>3

\* A shutdown: it cancels the loop and then enters as the other calls do.
LEMMA InvCall ==
    ASSUME LinkInv, ApiRecord, Call \/ LoopCancelled \/ Awaited
    PROVE  LinkInv'
<1> USE ClosersOf DEF LinkInv, LockHeld, OneAdapter, WishLasts, Opening, Closers, bounds
<1>1. ASSUME NEW op, ApiAsks(op)
      PROVE  /\ api'.op = op
             /\ \/ api'.at = "enter" /\ lock = "free" /\ lock' = "api"
                \/ api'.at = "want" /\ lock' = lock
  BY <1>1 DEF ApiAsks, Ask
<1>2. CASE Call
  <2>1. PICK op \in IF use = "monitor" THEN {"shutdown"} ELSE Calls :
          IF op = "shutdown" /\ LoopAlive
          THEN api' = [op |-> op, at |-> "cancel"] /\ UNCHANGED lock
          ELSE ApiAsks(op)
    BY <1>2 DEF Call
  <2>2. use' = use /\ desired' = desired /\ adapter' = adapter /\ loop' = loop
    BY <1>2 DEF Call
  <2>3. use = "monitor" => op = "shutdown"
    BY <2>1
  <2>4. CASE op = "shutdown" /\ LoopAlive
    BY <2>1, <2>2, <2>3, <2>4
  <2>5. CASE ~(op = "shutdown" /\ LoopAlive)
    BY <1>1, <2>1, <2>2, <2>3, <2>5
  <2> QED
    BY <2>4, <2>5
<1>3. CASE LoopCancelled
  <2>1. /\ api'.op = api.op /\ api'.at = "await" /\ use' = use /\ desired' = desired
    BY <1>3 DEF LoopCancelled, ApiRecord
  <2>2. CASE /\ loop' = "done"
             /\ adapter' = IF loop = "pump" /\ adapter = "live" THEN "finished" ELSE adapter
             /\ Release("loop")
    BY <2>1, <2>2
  <2>3. CASE UNCHANGED <<loop, adapter, lock>>
    BY <2>1, <2>3
  <2> QED
    BY <1>3, <2>2, <2>3 DEF LoopCancelled
<1>4. CASE Awaited
  <2>1. /\ ApiAsks("shutdown") /\ loop' = "none"
        /\ use' = use /\ desired' = desired /\ adapter' = adapter
    BY <1>4 DEF Awaited
  <2> QED
    BY <1>1, <2>1
<1> QED
  BY <1>2, <1>3, <1>4

LEMMA InvProcess ==
    ASSUME LinkInv, Boot \/ Crash
    PROVE  LinkInv'
<1> USE ClosersOf DEF LinkInv, LockHeld, OneAdapter, WishLasts, Opening, Closers, bounds
<1>1. CASE Crash
  BY <1>1 DEF Crash
<1>2. CASE Boot
  <2>1. /\ loop' = "none" /\ use' = use
        /\ \/ api'.op = "connect" /\ api'.at = "enter" /\ lock' = "api"
           \/ api'.op = "none" /\ api'.at = "idle" /\ lock' = "free"
    BY <1>2 DEF Boot, NoCall
  <2>2. adapter' = adapter
    BY <1>2 DEF Boot
  <2> QED
    BY <2>1, <2>2
<1> QED
  BY <1>1, <1>2

\* The file and the bounds are none of the link's business.
LEMMA InvAside ==
    ASSUME LinkInv, UNCHANGED <<use, desired, adapter, lock, loop, api>>
    PROVE  LinkInv'
BY ClosersOf DEF LinkInv, LockHeld, OneAdapter, WishLasts, Opening, Closers

LEMMA AsideSteps ==
    ASSUME Writes \/ Pages \/ StrayEnds \/ UNCHANGED vars
    PROVE  UNCHANGED <<use, desired, adapter, lock, loop, api>>
<1>1. CASE Writes
  BY <1>1 DEF Writes, WritesOf, process, bounds
<1>2. CASE Pages
  BY <1>2 DEF Pages, process, bounds
<1>3. CASE UNCHANGED vars
  BY <1>3 DEF vars, process, bounds
<1>4. CASE StrayEnds
  BY <1>4 DEF StrayEnds, process
<1> QED
  BY <1>1, <1>2, <1>3, <1>4

LEMMA RecordStep == ASSUME ApiRecord, [Next]_vars PROVE ApiRecord'
<1> USE DEF ApiRecord
<1>1. ASSUME NEW op, NEW at, api' = [op |-> op, at |-> at]
      PROVE  ApiRecord'
  BY <1>1
<1>2. ASSUME NEW at, api' = [api EXCEPT !.at = at]
      PROVE  ApiRecord'
  BY <1>2
<1>3. ASSUME LoopStep
      PROVE  api' = api
  BY <1>3 DEF LoopStep, TaskStarts, Top, Consume, LoopClosed, Decide, Waited, Resolve, Resolved,
       TargetStored, Connected, ConnectFails, Event, Quiet, StreamEnds, LoopPoisoned, LoopScans,
       LoopScanned
<1>4. ASSUME Finish
      PROVE  ApiRecord'
  BY <1>4, <1>1 DEF Finish
<1>5. ASSUME CallCloses
      PROVE  ApiRecord'
  BY <1>2, <1>4, <1>5 DEF CallCloses
<1>6. ASSUME Enter
      PROVE  ApiRecord'
  BY <1>1, <1>2, <1>4, <1>5, <1>6 DEF Enter, CallWrites, CallScans
<1>7. ASSUME Written
      PROVE  ApiRecord'
  BY <1>4, <1>5, <1>7 DEF Written
<1>8. ASSUME WriteFails \/ CallClosed \/ CallScanned
      PROVE  ApiRecord'
  BY <1>1, <1>4, <1>8 DEF WriteFails, CallClosed, CallScanned
<1>9. ASSUME LoopCancelled \/ Awaited
      PROVE  ApiRecord'
  BY <1>1, <1>2, <1>9 DEF LoopCancelled, Awaited, ApiAsks
<1>10. ASSUME Call
       PROVE  ApiRecord'
  BY <1>1, <1>10 DEF Call, ApiAsks
<1>11. ASSUME Boot \/ Crash
       PROVE  ApiRecord'
  BY <1>1, <1>11 DEF Boot, Crash, NoCall
<1>12. ASSUME LinkFails
       PROVE  ApiRecord'
  BY <1>12 DEF LinkFails
<1> QED
  BY <1>3, <1>6, <1>7, <1>8, <1>9, <1>10, <1>11, <1>12, AsideSteps DEF Next, CallStep

LEMMA InvStep == LinkInv /\ ApiRecord /\ [Next]_vars => LinkInv' /\ ApiRecord'
<1> SUFFICES ASSUME LinkInv, ApiRecord, [Next]_vars
             PROVE  LinkInv'
  BY RecordStep
<1>1. CASE LoopStep \/ LinkFails
  BY <1>1, InvRequests, InvConnect, InvPump, InvScan DEF LoopStep
<1>2. CASE CallStep \/ Call
  BY <1>2, InvEnter, InvWritten, InvCallEnds, InvCall DEF CallStep
<1>3. CASE Boot \/ Crash
  BY <1>3, InvProcess
<1>4. CASE Writes \/ Pages \/ StrayEnds \/ UNCHANGED vars
  BY <1>4, AsideSteps, InvAside
<1> QED
  BY <1>1, <1>2, <1>3, <1>4 DEF Next

LEMMA AlwaysInv == Spec => [](LinkInv /\ ApiRecord)
<1>1. Init => ApiRecord
  BY DEF Init, ApiRecord
<1> QED
  BY <1>1, LinkInvInit, InvStep, PTL DEF Spec

-----------------------------------------------------------------------------
(* One link *)

LEMMA HeldOnce == LinkInv => Held \in {0, 1}
<1> SUFFICES ASSUME LinkInv
             PROVE  Held \in {0, 1}
  OBVIOUS
<1> DEFINE Links ==
      {x \in {"used", "opening", "closing", "closing for a call"} :
          \/ x = "used" /\ adapter # "none"
          \/ x = "opening" /\ loop \in {"resolve", "write", "connecting"}
          \/ x = "closing" /\ LoopCloses
          \/ x = "closing for a call" /\ api.at = "close"}
<1>1. \A x, y \in Links : x = y
  BY ClosersOf DEF LinkInv, LockHeld, OneAdapter, Opening, Closers
<1>2. Held = Cardinality(Links)
  BY DEF Held
<1> HIDE DEF Links
<1>3. CASE Links = {}
  BY <1>2, <1>3, FS_EmptySet
<1>4. CASE Links # {}
  <2>1. PICK x \in Links : TRUE
    BY <1>4
  <2>2. Links = {x}
    BY <1>1, <2>1
  <2> QED
    BY <1>2, <2>2, FS_Singleton
<1> QED
  BY <1>3, <1>4

-----------------------------------------------------------------------------
(* The managed link *)

wanted == desired \/ (use = "embedded" /\ loop = "want_link")

link == CASE adapter # "none"                            -> "up"
          [] LoopCloses \/ api.at = "close"              -> "dropping"
          [] loop \in {"resolve", "write", "connecting"} -> "trying"
          [] OTHER                                       -> "down"

\* What the link is, by what the invariant excludes.
LinkTells ==
    /\ adapter # "none" <=> link = "up"
    /\ LoopCloses \/ api.at = "close" <=> link = "dropping"
    /\ Opening <=> link = "trying"
    /\ link \in {"up", "dropping", "trying", "down"}

LEMMA LinkIs == LinkInv => LinkTells
BY ClosersOf DEF LinkTells, link, LinkInv, LockHeld, OneAdapter, Opening, Closers

LEMMA LinkIsNext == LinkInv' => LinkTells'
BY LinkIs, PTL

LEMMA LinkInit == Init => Link!Init
<1> SUFFICES ASSUME Init
             PROVE  Link!Init
  OBVIOUS
<1>1. desired = FALSE /\ adapter = "none" /\ loop = "none" /\ api.at = "down"
  BY DEF Init
<1> QED
  BY <1>1, ClosersOf DEF Link!Init, Closers

\* The transitions of ManagedLink, told from the two states of the link.
LEMMA LinkMoves ==
    ASSUME \/ link' = link
           \/ link' = "down"
           \/ link = "down" /\ link' = "trying" /\ wanted
           \/ link = "trying" /\ link' = "up" /\ wanted' = wanted
           \/ link = "up" /\ link' = "dropping"
    PROVE  [Link!Next]_Link!vars
<1>1. wanted' \in BOOLEAN
  BY DEF wanted
<1> QED
  BY <1>1 DEF link, wanted, Link!Next, Link!vars, Link!Wish, Link!Try, Link!Open, Link!Drop, Link!Down

\* A step that closes nothing and opens nothing at most ends what is under way.
LEMMA MovesAside ==
    ASSUME LinkInv, LinkInv',
           adapter' = "none" <=> adapter = "none",
           api'.at = "close" => api.at = "close",
           loop' = loop \/ loop' \notin Closers \cup {"resolve", "write", "connecting"}
    PROVE  [Link!Next]_Link!vars
<1>1. LinkTells /\ LinkTells'
  BY LinkIs, LinkIsNext
<1>2. link' \in {link, "down"}
  BY <1>1, ClosersOf DEF LinkTells, Opening
<1> QED
  BY <1>2, LinkMoves

LEMMA MovesDrop ==
    ASSUME LinkInv, LinkInv',
           adapter # "none", adapter' = "none", loop' \in Closers \/ api'.at = "close"
    PROVE  [Link!Next]_Link!vars
<1>1. LinkTells /\ LinkTells'
  BY LinkIs, LinkIsNext
<1>2. link = "up" /\ link' = "dropping"
  BY <1>1, ClosersOf DEF LinkTells
<1> QED
  BY <1>2, LinkMoves

LEMMA MovesConnect ==
    ASSUME LinkInv, LinkInv',
           Decide \/ Resolve \/ Resolved \/ TargetStored \/ Connected \/ ConnectFails
    PROVE  [Link!Next]_Link!vars
<1>1. LinkTells /\ LinkTells'
  BY LinkIs, LinkIsNext
<1>2. CASE Decide \/ ConnectFails
  <2>1. adapter' = adapter /\ api' = api /\ loop' \in {"wait", "top", "want_link", "pump"}
    BY <1>2 DEF Decide, ConnectFails
  <2> QED
    BY <2>1, MovesAside DEF Closers
<1>3. CASE Resolve
  <2>1. /\ loop = "want_link" /\ loop' = "resolve" /\ lock = "loop"
        /\ adapter = "none" /\ api.at # "close"
    BY <1>3 DEF Resolve, At, LinkInv, LockHeld, OneAdapter
  <2>2. link = "down"
    BY <1>1, <2>1, ClosersOf DEF LinkTells, Closers, Opening
  <2>3. wanted
    BY <2>1 DEF wanted, LinkInv, WishLasts
  <2>4. link' = "trying"
    BY <1>1, <2>1 DEF LinkTells, Opening
  <2> QED
    BY <2>2, <2>3, <2>4, LinkMoves
<1>4. CASE Resolved \/ TargetStored
  <2>1. Opening /\ Opening'
    BY <1>4 DEF Resolved, TargetStored, At, Opening
  <2>2. link' = link
    BY <1>1, <2>1 DEF LinkTells
  <2> QED
    BY <2>2, LinkMoves
<1>5. CASE Connected
  <2>1. /\ loop = "connecting" /\ loop' = "top" /\ adapter' = "live"
        /\ desired' = desired /\ use' = use
    BY <1>5 DEF Connected, At, bounds
  <2>2. link = "trying" /\ link' = "up"
    BY <1>1, <2>1 DEF LinkTells, Opening
  <2>3. wanted' = wanted
    BY <2>1 DEF wanted
  <2> QED
    BY <2>2, <2>3, LinkMoves
<1> QED
  BY <1>2, <1>3, <1>4, <1>5

\* A step in which the run loop may close the adapter.
LEMMA MovesClose ==
    ASSUME LinkInv, LinkInv', NEW why \in DOMAIN Closing, Close(why), api' = api
    PROVE  [Link!Next]_Link!vars
<1>1. CASE adapter = "none" /\ adapter' = "none" /\ loop' \in {"decide", "top", "wait"}
  BY <1>1, MovesAside DEF Closers
<1>2. CASE adapter # "none" /\ adapter' = "none" /\ loop' \in Closers
  BY <1>2, MovesDrop
<1> QED
  BY <1>1, <1>2, AfterClose

LEMMA MovesRequests ==
    ASSUME LinkInv, LinkInv', TaskStarts \/ Top \/ Consume \/ LoopClosed \/ Waited
    PROVE  [Link!Next]_Link!vars
<1>1. CASE TaskStarts \/ Top \/ Waited
  <2>1. adapter' = adapter /\ api' = api /\ loop' \in {"top", "sync", "done"}
    BY <1>1 DEF TaskStarts, Top, Waited
  <2> QED
    BY <2>1, MovesAside DEF Closers
<1>2. CASE LoopClosed
  <2>1. adapter' = adapter /\ api' = api /\ \E why \in DOMAIN Closing : Closed(why)
    BY <1>2 DEF LoopClosed
  <2>2. loop' \in {"decide", "top", "wait"}
    BY <2>1, AfterClosing
  <2> QED
    BY <2>1, <2>2, MovesAside DEF Closers
<1>3. CASE Consume
  <2>1. {"ui", "retry"} \subseteq DOMAIN Closing
    BY DEF Closing
  <2>2. /\ api' = api
        /\ \/ adapter' = adapter /\ loop' \in {"want_scan", "decide"}
           \/ \E why \in {"ui", "retry"} : Close(why)
    BY <1>3, Consumed
  <2> QED
    BY <2>1, <2>2, MovesAside, MovesClose DEF Closers
<1> QED
  BY <1>1, <1>2, <1>3

LEMMA MovesPump ==
    ASSUME LinkInv, LinkInv', Event \/ Quiet \/ StreamEnds \/ LoopPoisoned \/ LinkFails
    PROVE  [Link!Next]_Link!vars
<1>1. ASSUME NEW st, NEW ad, MaybeStale(st, ad)
      PROVE  \/ loop' = "top" /\ adapter' = ad
             \/ loop' \in Closers /\ adapter' = "none" /\ ad # "none"
  BY <1>1 DEF MaybeStale, Closing, Closers
<1>2. CASE Event
  <2>1. /\ api' = api
        /\ \/ loop' = "top" /\ adapter' = adapter
           \/ loop' \in Closers /\ adapter' = "none" /\ adapter # "none"
    BY <1>1, <1>2 DEF Event
  <2> QED
    BY <2>1, MovesAside, MovesDrop DEF Closers
<1>3. CASE Quiet
  <2>1. /\ api' = api /\ adapter \in {"live", "none"}
        /\ \/ loop' = "top" /\ adapter' = IF adapter = "live" THEN "finished" ELSE "none"
           \/ loop' \in Closers /\ adapter' = "none" /\ adapter # "none"
    BY <1>1, <1>3 DEF Quiet
  <2> QED
    BY <2>1, MovesAside, MovesDrop DEF Closers
<1>4. CASE StreamEnds
  <2>1. "lost" \in DOMAIN Closing
    BY DEF Closing
  <2>2. api' = api /\ ((loop' = "top" /\ adapter' = adapter) \/ Close("lost"))
    BY <1>4 DEF StreamEnds, Lost
  <2> QED
    BY <2>1, <2>2, MovesAside, MovesClose DEF Closers
<1>5. CASE LoopPoisoned \/ LinkFails
  <2>1. /\ api' = api /\ (adapter' = "none" <=> adapter = "none")
        /\ loop' \in {loop, "done"}
    BY <1>5 DEF LoopPoisoned, LinkFails
  <2> QED
    BY <2>1, MovesAside DEF Closers
<1> QED
  BY <1>2, <1>3, <1>4, <1>5

LEMMA MovesScan ==
    ASSUME LinkInv, LinkInv', LoopScans \/ LoopScanned
    PROVE  [Link!Next]_Link!vars
<1>1. adapter' = adapter /\ api' = api /\ loop' \in {"decide", "scanning", "wait"}
  BY DEF LoopScans, LoopScanned
<1> QED
  BY <1>1, MovesAside DEF Closers

\* A call in which the adapter may be closed, or which ends.
LEMMA MovesCall ==
    ASSUME LinkInv, LinkInv', ApiRecord, CallStep \/ Call
    PROVE  [Link!Next]_Link!vars
<1>1. ASSUME CallCloses
      PROVE  \/ adapter' = adapter /\ api'.at # "close"
             \/ adapter # "none" /\ adapter' = "none" /\ api'.at = "close"
  BY <1>1 DEF CallCloses, Finish, ApiRecord
<1>2. CASE Enter
  <2>1. loop' = loop
    BY <1>2 DEF Enter
  <2>2. \/ adapter' = adapter /\ api'.at # "close"
        \/ adapter # "none" /\ adapter' = "none" /\ api'.at = "close"
    <3>1. CASE CallWrites(api.op)
      BY <3>1 DEF CallWrites
    <3>2. CASE CallScans
      <4>1. api'.at # "close"
        BY <3>2 DEF CallScans, Finish, ApiRecord
      <4>2. adapter' = adapter
        BY <3>2 DEF CallScans
      <4> QED
        BY <4>1, <4>2
    <3>3. CASE CallCloses
      BY <1>1, <3>3
    <3> QED
      BY <1>2, <3>1, <3>2, <3>3 DEF Enter
  <2> QED
    BY <2>1, <2>2, MovesAside, MovesDrop
<1>3. CASE Written
  <2>1. loop' \in {loop, "new"}
    BY <1>3, Started DEF Written
  <2>2. \/ adapter' = adapter /\ api'.at # "close"
        \/ adapter # "none" /\ adapter' = "none" /\ api'.at = "close"
    BY <1>1, <1>3 DEF Written, Finish
  <2> QED
    BY <2>1, <2>2, MovesAside, MovesDrop DEF Closers
<1>4. CASE WriteFails \/ CallClosed \/ CallScanned
  <2>1. adapter' = adapter /\ api'.at # "close" /\ loop' \in {loop, "new"}
    BY <1>4, Started DEF WriteFails, CallClosed, CallScanned, Finish
  <2> QED
    BY <2>1, MovesAside DEF Closers
<1>5. CASE LoopCancelled
  <2>1. /\ api'.at = "await" /\ (adapter' = "none" <=> adapter = "none")
        /\ loop' \in {loop, "done"}
    BY <1>5 DEF LoopCancelled, ApiRecord
  <2> QED
    BY <2>1, MovesAside DEF Closers
<1>6. CASE Awaited \/ Call
  <2>1. adapter' = adapter /\ api'.at # "close" /\ loop' \in {loop, "none"}
    BY <1>6 DEF Awaited, Call, ApiAsks
  <2> QED
    BY <2>1, MovesAside DEF Closers
<1> QED
  BY <1>2, <1>3, <1>4, <1>5, <1>6 DEF CallStep

LEMMA MovesProcess ==
    ASSUME LinkInv, LinkInv', Boot \/ Crash
    PROVE  [Link!Next]_Link!vars
<1>1. CASE Boot
  <2>1. adapter' = adapter /\ api'.at # "close" /\ loop' = "none"
    BY <1>1 DEF Boot, NoCall
  <2> QED
    BY <2>1, MovesAside DEF Closers
<1>2. CASE Crash
  <2>1. adapter' = "none" /\ api'.at = "down" /\ loop' = "none"
    BY <1>2 DEF Crash
  <2>2. LinkTells'
    BY LinkIsNext
  <2>3. link' = "down"
    BY <2>1, <2>2, ClosersOf DEF LinkTells, Opening, Closers
  <2> QED
    BY <2>3, LinkMoves
<1> QED
  BY <1>1, <1>2

LEMMA MovesNext ==
    LinkInv /\ ApiRecord /\ LinkInv' /\ [Next]_vars => [Link!Next]_Link!vars
<1> SUFFICES ASSUME LinkInv, ApiRecord, LinkInv', [Next]_vars
             PROVE  [Link!Next]_Link!vars
  OBVIOUS
<1>1. CASE LoopStep \/ LinkFails
  BY <1>1, MovesRequests, MovesConnect, MovesPump, MovesScan DEF LoopStep
<1>2. CASE CallStep \/ Call
  BY <1>2, MovesCall
<1>3. CASE Boot \/ Crash
  BY <1>3, MovesProcess
<1>4. CASE Writes \/ Pages \/ StrayEnds \/ UNCHANGED vars
  BY <1>4, AsideSteps, MovesAside
<1> QED
  BY <1>1, <1>2, <1>3, <1>4 DEF Next

\* The supervisor implements the managed link: it tries for a link only on a wish, and
\* it does not try for one before the last one is closed
\* (bluetooth_connection_supervisor.py, _connect_cycle and the calls of its API).
THEOREM LinkManaged == Spec => LinkSpec
BY LinkInit, AlwaysInv, MovesNext, PTL DEF Spec, LinkSpec, Link!Spec

-----------------------------------------------------------------------------
(* The status *)

\* Which call is where.
CallDoes ==
    /\ api.at = "write" => api.op \in {"connect", "disconnect", "drop", "retry"}
    /\ api.at = "scanning" => api.op = "scan"
    /\ api.at \in {"cancel", "await"} => api.op = "shutdown"
    /\ api.at \in {"idle", "down"} => api.op = "none"

StatusInv == StatusTellsTheLink /\ CallDoes

\* A step that leaves the adapter alone, or closes it, and does not end a shutdown.
LEMMA StatusAside ==
    ASSUME StatusInv,
           status' \in ConnectedStates => status \in ConnectedStates,
           api' = api,
           \/ adapter' = "none" <=> adapter = "none"
           \/ loop' \in Closers,
           loop \in Closers => loop' \in Closers \/ status' \notin ConnectedStates
    PROVE  StatusInv'
BY ClosersOf DEF StatusInv, StatusTellsTheLink, CallDoes

LEMMA StatusLoop ==
    ASSUME StatusInv, LinkInv, LoopStep \/ LinkFails
    PROVE  StatusInv'
<1>1. CASE TaskStarts \/ Top \/ Waited \/ Decide \/ Resolve \/ LinkFails
  <2>1. /\ status' = status /\ api' = api /\ (adapter' = "none" <=> adapter = "none")
        /\ loop \notin Closers \/ loop' = loop
    BY <1>1 DEF TaskStarts, Top, Waited, Decide, Resolve, LinkFails, At, Closers
  <2> QED
    BY <2>1, StatusAside
<1>2. CASE Resolved \/ TargetStored \/ ConnectFails \/ LoopScans \/ LoopScanned
  <2>1. /\ api' = api /\ adapter' = adapter
        /\ status' = status \/ status' \notin ConnectedStates
        /\ loop \notin Closers
    BY <1>2 DEF Resolved, TargetStored, ConnectFails, LoopScans, LoopScanned, At, Closers,
                ConnectedStates
  <2> QED
    BY <2>1, StatusAside
<1>3. CASE Connected
  <2>1. api' = api /\ adapter' = "live"
    BY <1>3 DEF Connected
  <2> QED
    BY <2>1 DEF StatusInv, StatusTellsTheLink, CallDoes
<1>4. ASSUME NEW why \in DOMAIN Closing, Closed(why)
      PROVE  status' \notin ConnectedStates
  BY <1>4 DEF Closed, Closing, ConnectedStates
<1>5. CASE LoopClosed
  <2>1. api' = api /\ adapter' = adapter /\ status' \notin ConnectedStates
    BY <1>4, <1>5 DEF LoopClosed
  <2> QED
    BY <2>1, StatusAside
<1>6. ASSUME NEW why \in DOMAIN Closing, Close(why), api' = api, loop \notin Closers
      PROVE  StatusInv'
  <2>1. CASE adapter = "none"
    <3>1. adapter' = "none" /\ status' \notin ConnectedStates
      BY <1>4, <1>6, <2>1 DEF Close
    <3> QED
      BY <1>6, <2>1, <3>1, StatusAside
  <2>2. CASE adapter # "none"
    <3>1. status' = status /\ loop' \in Closers
      BY <1>6, <2>2, AfterClose DEF Close
    <3> QED
      BY <1>6, <3>1, StatusAside
  <2> QED
    BY <2>1, <2>2
<1>7. CASE Consume
  <2>1. {"ui", "retry"} \subseteq DOMAIN Closing
    BY DEF Closing
  <2>2. /\ api' = api /\ loop \notin Closers
        /\ \/ adapter' = adapter /\ status' = status
           \/ \E why \in {"ui", "retry"} : Close(why)
    BY <1>7, Consumed DEF Closers
  <2> QED
    BY <1>6, <2>1, <2>2, StatusAside
<1>8. CASE StreamEnds
  <2>1. "lost" \in DOMAIN Closing
    BY DEF Closing
  <2>2. /\ api' = api /\ loop \notin Closers
        /\ (adapter' = adapter /\ status' = status) \/ Close("lost")
    BY <1>8 DEF StreamEnds, Lost, At, Closers
  <2> QED
    BY <1>6, <2>1, <2>2, StatusAside
<1>9. CASE Event \/ Quiet
  <2>1. ASSUME NEW st, NEW ad, MaybeStale(st, ad), st \in ConnectedStates => status \in ConnectedStates,
               ad = "none" <=> adapter = "none", api' = api, loop \notin Closers
        PROVE  StatusInv'
    <3>1. /\ status' \in ConnectedStates => status \in ConnectedStates
          /\ (adapter' = "none" <=> adapter = "none") \/ loop' \in Closers
      BY <2>1 DEF MaybeStale, ConnectedStates, Closing, Closers
    <3> QED
      BY <2>1, <3>1, StatusAside
  <2>2. api' = api /\ loop \notin Closers
    BY <1>9 DEF Event, Quiet, At, Closers
  <2>3. CASE Event
    <3>1. PICK telemetry \in BOOLEAN :
            MaybeStale(IF telemetry /\ status = "stale" THEN "ready" ELSE status, adapter)
      BY <2>3 DEF Event
    <3> QED
      BY <2>1, <2>2, <3>1 DEF ConnectedStates
  <2>4. CASE Quiet
    <3>1. /\ adapter \in {"live", "none"}
          /\ MaybeStale(status, IF adapter = "live" THEN "finished" ELSE "none")
      BY <2>4 DEF Quiet
    <3> QED
      BY <2>1, <2>2, <3>1
  <2> QED
    BY <1>9, <2>3, <2>4
<1>10. CASE LoopPoisoned
  <2>1. api' = api /\ adapter' = adapter /\ status' = status /\ loop \notin Closers
    BY <1>10 DEF LoopPoisoned, At, Closers
  <2> QED
    BY <2>1, StatusAside
<1> QED
  BY <1>1, <1>2, <1>3, <1>5, <1>7, <1>8, <1>9, <1>10 DEF LoopStep

LEMMA StatusCall ==
    ASSUME StatusInv, LinkInv, ApiRecord, CallStep \/ Call
    PROVE  StatusInv'
<1> USE ClosersOf DEF StatusInv, StatusTellsTheLink, CallDoes
<1>1. ASSUME CallCloses
      PROVE  \/ /\ status' \notin ConnectedStates
                /\ api'.op = "none" /\ api'.at \in {"idle", "down"}
             \/ api'.at = "close"
  BY <1>1 DEF CallCloses, Finish, ApiRecord, ConnectedStates
<1>2. CASE Enter
  <2>1. loop' = loop /\ api.at \in {"enter", "want"}
    BY <1>2 DEF Enter, ApiAt
  <2>2. CASE api.op \in {"connect", "disconnect", "drop", "retry"} /\ CallWrites(api.op)
    <3>1. api' = [op |-> api.op, at |-> "write"] /\ adapter' = adapter /\ status' = status
      BY <2>2 DEF CallWrites
    <3> QED
      BY <2>1, <2>2, <3>1
  <2>3. CASE api.op = "scan" /\ CallScans
    <3>1. adapter' = adapter
      BY <2>3 DEF CallScans
    <3>2. \/ status' = status /\ api'.op = "none" /\ api'.at \in {"idle", "down"}
          \/ status' = "scanning" /\ api'.at = "scanning" /\ api'.op = "scan"
      BY <2>3 DEF CallScans, Finish, ApiRecord
    <3> QED
      BY <2>1, <2>3, <3>1, <3>2 DEF ConnectedStates
  <2>4. CASE api.op = "shutdown" /\ CallCloses
    BY <1>1, <2>4
  <2> QED
    BY <1>2, <2>2, <2>3, <2>4 DEF Enter
<1>3. CASE Written
  <2>1. CASE api.op = "connect"
    <3>1. /\ status' = status \/ status' \notin ConnectedStates
          /\ adapter' = adapter /\ api.at = "write"
          /\ api'.op = "none" /\ api'.at \in {"idle", "down"}
      BY <1>3, <2>1 DEF Written, Finish, ConnectedStates
    <3>2. loop' = loop \/ loop \notin Closers
      BY <1>3, <2>1 DEF Written, EnsureStarted, LoopAlive, Closers
    <3> QED
      BY <2>1, <3>1, <3>2
  <2>2. CASE api.op # "connect"
    BY <1>1, <1>3, <2>2 DEF Written
  <2> QED
    BY <2>1, <2>2
<1>4. CASE WriteFails
  <2>1. /\ status' = status /\ adapter' = adapter /\ api.at = "write" /\ loop' = loop
        /\ api'.op = "none" /\ api'.at \in {"idle", "down"}
    BY <1>4 DEF WriteFails
  <2> QED
    BY <2>1
<1>5. CASE CallClosed
  <2>1. status' \notin ConnectedStates /\ api'.op = "none" /\ api'.at \in {"idle", "down"}
    BY <1>5 DEF CallClosed, Finish, ConnectedStates
  <2> QED
    BY <2>1
<1>6. CASE CallScanned
  <2>1. /\ status' = status \/ status' \notin ConnectedStates
        /\ adapter' = adapter /\ api.at = "scanning" /\ loop' = loop
        /\ api'.op = "none" /\ api'.at \in {"idle", "down"}
    BY <1>6 DEF CallScanned, ApiAt, Finish, ConnectedStates
  <2> QED
    BY <2>1
<1>7. CASE LoopCancelled \/ Awaited
  <2>1. CASE LoopCancelled
    <3>1. api.at = "cancel" /\ api' = [api EXCEPT !.at = "await"]
      BY <2>1 DEF LoopCancelled, ApiAt
    <3> QED
      BY <3>1 DEF ApiRecord
  <2>2. CASE Awaited
    <3>1. api'.op = "shutdown" /\ api'.at \in {"enter", "want"}
      BY <2>2 DEF Awaited, ApiAsks
    <3> QED
      BY <3>1
  <2> QED
    BY <1>7, <2>1, <2>2
<1>8. CASE Call
  <2>1. /\ status' = status /\ adapter' = adapter /\ loop' = loop
        /\ api.at = "idle"
        /\ \/ api'.at = "cancel" /\ api'.op = "shutdown"
           \/ api'.at \in {"enter", "want"}
    BY <1>8 DEF Call, ApiAt, ApiAsks
  <2> QED
    BY <2>1
<1> QED
  BY <1>2, <1>3, <1>4, <1>5, <1>6, <1>7, <1>8 DEF CallStep

LEMMA StatusStep ==
    StatusInv /\ LinkInv /\ ApiRecord /\ [Next]_vars => StatusInv'
<1> SUFFICES ASSUME StatusInv, LinkInv, ApiRecord, [Next]_vars
             PROVE  StatusInv'
  OBVIOUS
<1>1. CASE LoopStep \/ LinkFails
  BY <1>1, StatusLoop
<1>2. CASE CallStep \/ Call
  BY <1>2, StatusCall
<1>3. CASE Boot
  <2>1. /\ status' = "disconnected"
        /\ \/ api'.at = "enter"
           \/ api'.at = "idle" /\ api'.op = "none"
    BY <1>3 DEF Boot, NoCall
  <2> QED
    BY <2>1, ClosersOf DEF StatusInv, StatusTellsTheLink, CallDoes, ConnectedStates
<1>4. CASE Crash
  <2>1. api'.at = "down" /\ api'.op = "none"
    BY <1>4 DEF Crash
  <2> QED
    BY <2>1, ClosersOf DEF StatusInv, StatusTellsTheLink, CallDoes
<1>5. CASE Writes \/ Pages \/ StrayEnds \/ UNCHANGED vars
  <2>1. UNCHANGED <<status, adapter, loop, api>>
    BY <1>5 DEF Writes, WritesOf, Pages, StrayEnds, vars, process
  <2> QED
    BY <2>1, ClosersOf DEF StatusInv, StatusTellsTheLink, CallDoes
<1> QED
  BY <1>1, <1>2, <1>3, <1>4, <1>5 DEF Next

LEMMA AlwaysStatus == Spec => []StatusInv
<1>1. Init => StatusInv
  <2> SUFFICES ASSUME Init
               PROVE  StatusInv
    OBVIOUS
  <2>1. status = "disconnected" /\ api.at = "down" /\ api.op = "none"
    BY DEF Init
  <2> QED
    BY <2>1 DEF StatusInv, StatusTellsTheLink, CallDoes, ConnectedStates
<1> QED
  BY <1>1, AlwaysInv, StatusStep, PTL DEF Spec

\* A status that says connected is about an adapter that is there, or is being closed
\* (bluetooth_connection_supervisor.py, _set_state and get_status).
THEOREM StatusOfTheLink == Spec => []StatusTellsTheLink
BY AlwaysStatus, PTL DEF StatusInv

-----------------------------------------------------------------------------
(* Types *)

File == [desired : BOOLEAN, seq : Nat, cmd : Commands \cup {"none"}]

SettingsTyped ==
    /\ file \in File
    /\ todo \in [Writers -> Seq(Setter)]
    /\ hand \in [Writers -> File \cup {NoFile}]
    /\ \A w \in Writers : hand[w] # NoFile => todo[w] # <<>>
    /\ presses \in 0 .. MaxPresses
    /\ misreads \in 0 .. MaxMisreads /\ forgotten \in BOOLEAN

ProcessTyped ==
    /\ desired \in BOOLEAN /\ manual \in BOOLEAN /\ status \in States
    /\ adapter \in {"none", "live", "failed", "finished"}
    /\ lock \in {"free", "loop", "api"} /\ stop \in BOOLEAN /\ lastSeq \in Nat
    /\ api.op \in Calls \cup {"none"}

BoundsTyped ==
    /\ use \in Uses /\ calls \in Nat /\ boots \in Nat
    /\ presses + calls + boots <= MaxEvents /\ torn \in BOOLEAN
    /\ strays \in 0 .. drops /\ drops \in 0 .. MaxDrops

Typed == SettingsTyped /\ ProcessTyped /\ BoundsTyped

LEMMA SetterIs ==
    ASSUME NEW s \in Setter
    PROVE  /\ s.key \in {"desired", "other", "command"} /\ s.on \in BOOLEAN
           /\ s.key = "command" => s.cmd \in Commands
<1>1. CASE \E b \in BOOLEAN : s = SetDesired(b)
  BY <1>1 DEF SetDesired
<1>2. CASE s = SetOther
  BY <1>2 DEF SetOther
<1>3. CASE \E c \in Commands : s = Request(c)
  <2>1. PICK c \in Commands : s = Request(c)
    BY <1>3
  <2>2. s.key = "command" /\ s.cmd = c /\ s.on = (c = "connect")
    BY <2>1 DEF Request
  <2>3. s.on \in BOOLEAN
    BY <2>2
  <2> QED
    BY <2>2, <2>3
<1> QED
  BY <1>1, <1>2, <1>3 DEF Setter

LEMMA FileTyped == NoFile \notin File /\ Defaults \in File
<1>1. \A f \in File : f.seq \in Nat
  BY DEF File
<1>2. NoFile.seq = -1
  BY DEF NoFile
<1>3. NoFile \in [desired : BOOLEAN, seq : Int, cmd : Commands \cup {"none"}]
  BY DEF NoFile
<1>4. Defaults = [NoFile EXCEPT !.seq = 0]
  BY DEF Defaults
<1>5. Defaults \in File
  BY <1>3, <1>4 DEF File
<1>6. ~(-1 \in Nat)
  OBVIOUS
<1> QED
  BY <1>1, <1>2, <1>5, <1>6

LEMMA StoredTyped ==
    ASSUME NEW f \in File, NEW s \in Setter
    PROVE  /\ Stored(f, s) \in File
           /\ Stored(f, s).seq = IF s.key = "command" THEN f.seq + 1 ELSE f.seq
<1>1. CASE s.key = "desired"
  BY <1>1, SetterIs DEF Stored, File
<1>2. CASE s.key = "other"
  BY <1>2 DEF Stored, File
<1>3. CASE s.key = "command"
  <2>1. Stored(f, s) = WithCommand(f, s)
    BY <1>3 DEF Stored
  <2>2. s.cmd \in Commands /\ s.on \in BOOLEAN
    BY <1>3, SetterIs
  <2> DEFINE on == IF s.cmd \in {"connect", "disconnect"} THEN s.on ELSE f.desired
  <2>3. on \in BOOLEAN
    BY <2>2 DEF File
  <2>4. WithCommand(f, s) = [f EXCEPT !.seq = @ + 1, !.cmd = s.cmd, !.desired = on]
    BY DEF WithCommand
  <2> HIDE DEF on
  <2>5. WithCommand(f, s) = [desired |-> on, seq |-> f.seq + 1, cmd |-> s.cmd]
    BY <2>4 DEF File
  <2>6. f.seq + 1 \in Nat /\ s.cmd \in Commands \cup {"none"}
    BY <2>2 DEF File
  <2>7. WithCommand(f, s) \in File
    BY <2>3, <2>5, <2>6 DEF File
  <2>8. WithCommand(f, s).seq = f.seq + 1
    BY <2>5
  <2> QED
    BY <1>3, <2>1, <2>7, <2>8
<1> QED
  BY <1>1, <1>2, <1>3, SetterIs

\* A read, of the file or of the defaults, and its count.
LEMMA ReadTyped ==
    ASSUME SettingsTyped, NEW f \in Readings, Counted(f)
    PROVE  f \in File /\ f # NoFile /\ misreads' \in 0 .. MaxMisreads
<1>1. f \in File /\ f # NoFile
  BY ReadingIs, FileTyped DEF SettingsTyped
<1>2. CASE f = file
  BY <1>1, <1>2 DEF Counted, SettingsTyped
<1>3. CASE f # file
  <2>1. misreads < MaxMisreads /\ misreads' = misreads + 1
    BY <1>3 DEF Counted, Readings
  <2> QED
    BY <1>1, <2>1, SessionsAssumption DEF SettingsTyped
<1> QED
  BY <1>1, <1>2, <1>3

\* A step that reads the file, and writes nothing.
LEMMA OnlyRead ==
    ASSUME SettingsTyped, UNCHANGED <<file, todo, hand, presses, forgotten>>,
           misreads' = misreads \/ \E f \in Readings : Counted(f)
    PROVE  SettingsTyped'
<1>1. misreads' \in 0 .. MaxMisreads
  BY ReadTyped DEF SettingsTyped
<1> QED
  BY <1>1 DEF SettingsTyped

LEMMA LoadTyped == ASSUME SettingsTyped, NEW w \in Writers, Load(w) PROVE SettingsTyped'
<1>1. PICK f \in Readings :
        /\ hand' = [hand EXCEPT ![w] = f]
        /\ Counted(f)
        /\ forgotten' = (forgotten \/ f # file)
  BY DEF Load
<1>2. f \in File /\ misreads' \in 0 .. MaxMisreads /\ forgotten' \in BOOLEAN
  BY <1>1, ReadTyped
<1> QED
  BY <1>1, <1>2 DEF SettingsTyped, Load

\* The setter that a writer is about to finish.
LEMMA HeadTyped ==
    ASSUME SettingsTyped, NEW w \in Writers, hand[w] # NoFile
    PROVE  hand[w] \in File /\ todo[w] \in Seq(Setter) /\ Head(todo[w]) \in Setter
BY DEF SettingsTyped

LEMMA SaveTyped == ASSUME SettingsTyped, NEW w \in Writers, Save(w) PROVE SettingsTyped'
<1>1. hand[w] \in File /\ todo[w] \in Seq(Setter) /\ todo[w] # <<>> /\ Head(todo[w]) \in Setter
  BY HeadTyped DEF Save, SettingsTyped
<1>2. file' \in File
  BY <1>1, StoredTyped DEF Save
<1>3. Tail(todo[w]) \in Seq(Setter)
  BY <1>1
<1> QED
  BY <1>2, <1>3 DEF Save, SettingsTyped, reading

LEMMA SaveFailsTyped == ASSUME SettingsTyped, NEW w \in Writers, SaveFails(w) PROVE SettingsTyped'
BY DEF SaveFails, SettingsTyped, reading

\* A writer is given setters to call.
LEMMA AssignedTyped ==
    ASSUME SettingsTyped, NEW w \in Writers, NEW setters \in Seq(Setter),
           setters # <<>> \/ hand[w] = NoFile,
           todo' = [todo EXCEPT ![w] = setters], UNCHANGED <<file, hand, reading>>,
           presses' \in 0 .. MaxPresses
    PROVE  SettingsTyped'
BY DEF SettingsTyped, reading

LEMMA ShortSequences ==
    ASSUME NEW S, NEW a \in S, NEW b \in S, NEW c \in S
    PROVE  /\ <<a>> \in Seq(S) /\ <<a, b>> \in Seq(S) /\ <<a, b, c>> \in Seq(S)
           /\ <<a>> # <<>> /\ <<a, b>> # <<>> /\ <<a, b, c>> # <<>>
OBVIOUS

LEMMA Setters ==
    /\ SetDesired(TRUE) \in Setter /\ SetDesired(FALSE) \in Setter /\ SetOther \in Setter
    /\ Request("connect") \in Setter /\ Request("disconnect") \in Setter
    /\ Request("scan") \in Setter /\ Request("retry") \in Setter
BY DEF Setter, Commands

LEMMA ButtonsTyped == \A b \in Buttons : b \in Seq(Setter) /\ b # <<>>
<1>1. ASSUME NEW b \in Buttons
      PROVE  \E x, y, z \in Setter : b \in {<<x>>, <<x, y>>, <<x, y, z>>}
  <2>1. \/ b = <<SetDesired(TRUE), Request("connect")>>
        \/ b = <<SetDesired(TRUE), Request("connect"), SetOther>>
        \/ b = <<SetDesired(FALSE), Request("disconnect")>>
        \/ b = <<Request("scan")>>
        \/ b = <<SetDesired(TRUE), Request("retry")>>
        \/ b = <<SetOther>>
    BY DEF Buttons
  <2> QED
    BY <2>1, Setters, Zenon
<1> QED
  <2> TAKE b \in Buttons
  <2>1. PICK x, y, z \in Setter : b \in {<<x>>, <<x, y>>, <<x, y, z>>}
    BY <1>1
  <2>2. /\ <<x>> \in Seq(Setter) /\ <<x, y>> \in Seq(Setter) /\ <<x, y, z>> \in Seq(Setter)
        /\ <<x>> # <<>> /\ <<x, y>> # <<>> /\ <<x, y, z>> # <<>>
    BY ShortSequences
  <2> QED
    BY <2>1, <2>2
LEMMA PressTyped == ASSUME SettingsTyped, NEW s \in Sessions, Press(s) PROVE SettingsTyped'
<1>1. s \in Writers
  BY DEF Writers
<1>2. presses' \in 0 .. MaxPresses
  BY SessionsAssumption DEF Press, SettingsTyped
<1> QED
  BY <1>1, <1>2, ButtonsTyped, AssignedTyped DEF Press

LEMMA SettingsKept == ASSUME SettingsTyped, UNCHANGED settings PROVE SettingsTyped'
BY DEF SettingsTyped, settings, reading

LEMMA ProcessWriters == {"loop", "api"} \subseteq Writers
BY DEF Writers

LEMMA TypedInit == Init => Typed
<1> SUFFICES ASSUME Init
             PROVE  Typed
  OBVIOUS
<1>1. SettingsTyped
  <2>1. misreads \in 0 .. MaxMisreads /\ presses \in 0 .. MaxPresses
    BY SessionsAssumption DEF Init, SettingsInit
  <2>2. forgotten \in BOOLEAN
    BY DEF Init, SettingsInit
  <2>3. /\ file \in File
        /\ todo \in [Writers -> Seq(Setter)] /\ hand \in [Writers -> File \cup {NoFile}]
        /\ \A w \in Writers : hand[w] # NoFile => todo[w] # <<>>
    BY FileTyped DEF Init, SettingsInit
  <2> QED
    BY <2>1, <2>2, <2>3 DEF SettingsTyped
<1>2. ProcessTyped
  BY DEF Init, ProcessTyped, States
<1>3. BoundsTyped
  <2>1. /\ use \in Uses /\ calls = 0 /\ boots = 0 /\ presses = 0 /\ torn = FALSE
        /\ strays = 0 /\ drops = 0
    BY DEF Init, SettingsInit
  <2> QED
    <3>1. presses + calls + boots <= MaxEvents
      BY <2>1, UsesAssumption
    <3>2. torn \in BOOLEAN
      BY <2>1
    <3>3. calls \in Nat /\ boots \in Nat /\ strays \in 0 .. drops /\ drops \in 0 .. MaxDrops
      BY <2>1, UsesAssumption
    <3> QED
      BY <2>1, <3>1, <3>2, <3>3, Zenon DEF BoundsTyped
<1> QED
  BY <1>1, <1>2, <1>3 DEF Typed

-----------------------------------------------------------------------------

\* What the steps of the run loop do to the file.
LEMMA LoopSettings ==
    ASSUME SettingsTyped, LoopStep \/ LinkFails
    PROVE  SettingsTyped'
<1>1. CASE TaskStarts \/ LoopClosed \/ Decide \/ Waited \/ Resolve \/ TargetStored
           \/ Connected \/ Event \/ Quiet \/ StreamEnds \/ LoopPoisoned \/ LoopScans \/ LoopScanned
           \/ LinkFails
  <2>1. UNCHANGED settings
    BY <1>1 DEF TaskStarts, LoopClosed, Decide, Waited, Resolve, TargetStored,
                Connected, Event, Quiet, StreamEnds, LoopPoisoned, LoopScans, LoopScanned, LinkFails
  <2> QED
    BY <2>1, SettingsKept
<1>2. CASE Resolved
  <2>1. CASE UNCHANGED todo
    BY <1>2, <2>1, SettingsKept DEF Resolved, settings
  <2>2. CASE todo' = [todo EXCEPT !["loop"] = <<SetOther>>]
    <3>1. <<SetOther>> \in Seq(Setter) /\ <<SetOther>> # <<>>
      BY DEF Setter
    <3>2. presses' \in 0 .. MaxPresses /\ UNCHANGED <<file, hand, reading>>
      BY <1>2 DEF Resolved, SettingsTyped
    <3> QED
      BY <2>2, <3>1, <3>2, ProcessWriters, AssignedTyped
  <2> QED
    BY <1>2, <2>1, <2>2 DEF Resolved
<1>3. CASE ConnectFails
  BY <1>3, ProcessWriters, SaveFailsTyped, SettingsKept DEF ConnectFails
<1>4. CASE Top
  <2>1. /\ UNCHANGED <<file, todo, hand, presses, forgotten>>
        /\ misreads' = misreads \/ \E f \in Readings : Counted(f)
    BY <1>4 DEF Top
  <2> QED
    BY <2>1, OnlyRead
<1>5. CASE Consume
  BY <1>5, Consumed, OnlyRead
<1> QED
  BY <1>1, <1>2, <1>3, <1>4, <1>5 DEF LoopStep

LEMMA CallSettings ==
    ASSUME SettingsTyped, CallStep \/ Call
    PROVE  SettingsTyped'
<1>1. CASE Written \/ CallClosed \/ CallScanned \/ LoopCancelled \/ Awaited \/ Call
  <2>1. UNCHANGED settings
    BY <1>1 DEF Written, CallClosed, CallScanned, LoopCancelled, Awaited, Call
  <2> QED
    BY <2>1, SettingsKept
<1>2. CASE WriteFails
  BY <1>2, ProcessWriters, SaveFailsTyped DEF WriteFails
<1>3. CASE Enter
  <2>1. UNCHANGED <<file, hand, presses, reading>>
    BY <1>3 DEF Enter
  <2>2. CASE UNCHANGED todo
    BY <2>1, <2>2, SettingsKept DEF settings
  <2>3. CASE CallWrites(api.op)
    <3>1. PICK setters :
            /\ \/ setters \in {<<SetDesired(TRUE)>>, <<SetOther, SetDesired(TRUE)>>}
               \/ setters = <<SetDesired(TRUE), Request("retry")>>
               \/ setters = <<SetDesired(FALSE)>>
            /\ todo' = [todo EXCEPT !["api"] = setters]
      BY <2>3 DEF CallWrites
    <3>3. setters \in Seq(Setter) /\ setters # <<>>
      <4>1. \E x, y \in Setter : setters \in {<<x>>, <<x, y>>}
        BY <3>1, Setters, Zenon
      <4> QED
        BY <4>1, ShortSequences
    <3>4. presses' \in 0 .. MaxPresses
      BY <2>1 DEF SettingsTyped
    <3> QED
      BY <2>1, <3>1, <3>3, <3>4, ProcessWriters, AssignedTyped
  <2> QED
    BY <1>3, <2>2, <2>3 DEF Enter, CallScans
<1> QED
  BY <1>1, <1>2, <1>3 DEF CallStep

LEMMA OtherSettings ==
    ASSUME SettingsTyped, Writes \/ Pages \/ StrayEnds \/ Boot \/ Crash \/ UNCHANGED vars
    PROVE  SettingsTyped'
<1>1. CASE Writes
  BY <1>1, LoadTyped, SaveTyped DEF Writes, WritesOf
<1>2. CASE Pages
  <2>1. PICK s \in Sessions : Press(s) \/ SaveFails(s)
    BY <1>2 DEF Pages
  <2>2. s \in Writers
    BY DEF Writers
  <2> QED
    BY <2>1, <2>2, PressTyped, SaveFailsTyped
<1>3. CASE StrayEnds \/ UNCHANGED vars
  <2>1. UNCHANGED settings
    BY <1>3 DEF StrayEnds, vars
  <2> QED
    BY <2>1, SettingsKept
<1>5. CASE Boot
  <2>1. /\ UNCHANGED <<file, todo, hand, presses, forgotten>>
        /\ \E f, g \in Readings : Counted(IF f = file THEN g ELSE f)
    BY <1>5 DEF Boot
  <2>2. \E f \in Readings : Counted(f)
    BY <2>1, Zenon
  <2> QED
    BY <2>1, <2>2, OnlyRead
<1>4. CASE Crash
  <2>1. /\ file' \in File /\ presses' \in 0 .. MaxPresses /\ UNCHANGED reading
        /\ todo' = [todo EXCEPT !["loop"] = <<>>, !["api"] = <<>>]
        /\ hand' = [hand EXCEPT !["loop"] = NoFile, !["api"] = NoFile]
    BY <1>4 DEF Crash, SettingsTyped
  <2>2. todo' \in [Writers -> Seq(Setter)] /\ hand' \in [Writers -> File \cup {NoFile}]
    <3>1. <<>> \in Seq(Setter) /\ NoFile \in File \cup {NoFile}
      OBVIOUS
    <3> QED
      BY <2>1, <3>1, ProcessWriters DEF SettingsTyped
  <2>3. \A w \in Writers : hand'[w] # NoFile => todo'[w] = todo[w] /\ hand'[w] = hand[w]
    BY <2>1, ProcessWriters DEF SettingsTyped
  <2> QED
    BY <2>1, <2>2, <2>3 DEF SettingsTyped, reading
<1> QED
  BY <1>1, <1>2, <1>3, <1>4, <1>5

LEMMA UseStays == [Next]_vars => use' = use
<1> SUFFICES ASSUME [Next]_vars PROVE use' = use
  OBVIOUS
<1>1. CASE LoopStep \/ LinkFails
  BY <1>1 DEF LoopStep, TaskStarts, Top, Consume, LoopClosed, Decide, Waited, Resolve, Resolved,
       TargetStored, Connected, ConnectFails, Event, Quiet, StreamEnds, LoopPoisoned, LoopScans,
       LoopScanned, LinkFails, bounds
<1>2. CASE CallStep \/ Call \/ Boot \/ Crash
  BY <1>2 DEF CallStep, Enter, Written, WriteFails, CallClosed, CallScanned, LoopCancelled, Awaited,
       Call, Boot, Crash, bounds
<1>3. CASE Writes \/ Pages \/ StrayEnds \/ UNCHANGED vars
  BY <1>3 DEF Writes, WritesOf, Pages, StrayEnds, vars, bounds
<1> QED
  BY <1>1, <1>2, <1>3 DEF Next

\* A link that is left to a thread is counted, and the count never goes back.
StraysCounted == strays \in 0 .. drops /\ drops \in 0 .. MaxDrops

LEMMA StraysStep == ASSUME StraysCounted, [Next]_vars PROVE StraysCounted'
<1> USE DEF StraysCounted
<1>0. MaxDrops \in Nat
  BY UsesAssumption
<1>1. ASSUME UNCHANGED left
      PROVE  StraysCounted'
  BY <1>1 DEF left
<1>2. ASSUME LinkLeft
      PROVE  StraysCounted'
  BY <1>0, <1>1, <1>2 DEF LinkLeft
<1>3. CASE LoopStep \/ LinkFails
  <2>1. UNCHANGED left \/ LinkLeft
    BY <1>3 DEF LoopStep, TaskStarts, Top, Consume, LoopClosed, Decide, Waited, Resolve, Resolved,
         TargetStored, Connected, ConnectFails, Event, Quiet, StreamEnds, LoopPoisoned, LoopScans,
         LoopScanned, LinkFails, bounds
  <2> QED
    BY <1>1, <1>2, <2>1
<1>4. CASE CallStep \/ Call
  <2>1. UNCHANGED left \/ LinkLeft
    BY <1>4 DEF CallStep, Enter, Written, WriteFails, CallClosed, CallScanned, LoopCancelled,
         Awaited, Call, bounds
  <2> QED
    BY <1>1, <1>2, <2>1
<1>5. CASE Boot \/ Crash \/ StrayEnds
  <2>1. drops' = drops /\ (strays' = 0 \/ (strays > 0 /\ strays' = strays - 1))
    BY <1>5 DEF Boot, Crash, StrayEnds
  <2> QED
    BY <1>0, <2>1
<1>6. CASE Writes \/ Pages \/ UNCHANGED vars
  <2>1. UNCHANGED left
    BY <1>6 DEF Writes, WritesOf, Pages, vars, bounds
  <2> QED
    BY <1>1, <2>1
<1> QED
  BY <1>3, <1>4, <1>5, <1>6 DEF Next

LEMMA BoundsStep ==
    ASSUME SettingsTyped, BoundsTyped, ProcessTyped, [Next]_vars
    PROVE  BoundsTyped'
<1>1. presses \in Nat /\ calls \in Nat /\ boots \in Nat /\ MaxEvents \in Nat
  BY UsesAssumption, SessionsAssumption DEF SettingsTyped, BoundsTyped
<1>2. \/ UNCHANGED <<presses, calls, boots>>
      \/ Room /\ presses' = presses + 1 /\ UNCHANGED <<calls, boots>>
      \/ Room /\ calls' = calls + 1 /\ UNCHANGED <<presses, boots>>
      \/ Room /\ boots' = boots + 1 /\ UNCHANGED <<presses, calls>>
  <2>1. CASE LoopStep \/ LinkFails
    BY <2>1 DEF LoopStep, TaskStarts, Top, Consume, LoopClosed, Decide, Waited, Resolve, Resolved,
         TargetStored, Connected, ConnectFails, Event, Quiet, StreamEnds, LoopPoisoned, LoopScans,
         LoopScanned, LinkFails, settings, bounds, SaveFails
  <2>2. CASE CallStep
    BY <2>2 DEF CallStep, Enter, Written, WriteFails, CallClosed, CallScanned, LoopCancelled, Awaited,
         settings, bounds, SaveFails
  <2>3. CASE Call
    BY <2>3 DEF Call, settings
  <2>4. CASE Boot
    BY <2>4 DEF Boot, settings
  <2>5. CASE Crash
    BY <2>5 DEF Crash, bounds
  <2>6. CASE Writes
    BY <2>6 DEF Writes, WritesOf, Load, Save, bounds
  <2>7. CASE Pages
    BY <2>7 DEF Pages, Press, SaveFails, bounds
  <2>8. CASE StrayEnds \/ UNCHANGED vars
    BY <2>8 DEF StrayEnds, vars, settings, bounds
  <2> QED
    BY <2>1, <2>2, <2>3, <2>4, <2>5, <2>6, <2>7, <2>8 DEF Next
<1>3. use' = use
  BY UseStays
<1>4. torn' \in BOOLEAN
  <2>1. torn' = torn \/ torn' \in BOOLEAN
    <3>1. CASE LoopStep \/ LinkFails
      BY <3>1 DEF LoopStep, TaskStarts, Top, Consume, LoopClosed, Decide, Waited, Resolve, Resolved,
         TargetStored, Connected, ConnectFails, Event, Quiet, StreamEnds, LoopPoisoned, LoopScans,
         LoopScanned, LinkFails
    <3>2. CASE CallStep \/ Call \/ Boot \/ Crash
      BY <3>2 DEF CallStep, Enter, Written, WriteFails, CallClosed, CallScanned, LoopCancelled, Awaited,
         Call, Boot, Crash
    <3>3. CASE Writes
      BY <3>3 DEF Writes, WritesOf
    <3>4. CASE Pages \/ StrayEnds \/ UNCHANGED vars
      BY <3>4 DEF Pages, StrayEnds, vars
    <3> QED
      BY <3>1, <3>2, <3>3, <3>4 DEF Next
  <2> QED
    BY <2>1 DEF BoundsTyped
<1>5. presses + calls + boots <= MaxEvents /\ use \in Uses
  BY DEF BoundsTyped
<1>6. calls' \in Nat /\ boots' \in Nat /\ presses' + calls' + boots' <= MaxEvents
  BY <1>1, <1>2, <1>5 DEF Room
<1>7. strays' \in 0 .. drops' /\ drops' \in 0 .. MaxDrops
  BY StraysStep DEF BoundsTyped, StraysCounted
<1> QED
  BY <1>3, <1>4, <1>5, <1>6, <1>7 DEF BoundsTyped

LEMMA AlwaysStrays == Spec => []StraysCounted
<1>1. Init => StraysCounted
  BY UsesAssumption DEF Init, StraysCounted
<1>2. StraysCounted /\ [Next]_vars => StraysCounted'
  BY StraysStep
<1> QED
  BY <1>1, <1>2, PTL DEF Spec

\* Whatever pages, callers and restarts do, the run loop and the calls never have two
\* links at hand, and every other link is of a connect or close that a time limit or a
\* shutdown cut short (bluetooth_connection_supervisor.py, _connect_once_locked,
\* _disconnect_current_locked and shutdown).
THEOREM OneLinkAtATime == Spec => []OneLink
<1>1. LinkInv /\ StraysCounted => OneLink
  BY HeldOnce, UsesAssumption DEF OneLink, StraysCounted
<1> QED
  BY <1>1, AlwaysInv, AlwaysStrays, PTL

\* Asking for the lock, and giving it back.
LEMMA LockTyped ==
    ASSUME lock \in {"free", "loop", "api"}, NEW c \in {"loop", "api"},
           lock' = lock \/ Ask(c) \/ Release(c)
    PROVE  lock' \in {"free", "loop", "api"}
BY DEF Ask, Release

LEMMA ClosedTyped ==
    ASSUME status \in States, NEW why \in DOMAIN Closing, Closed(why)
    PROVE  status' \in States
BY DEF Closed, Closing, States, BusyStates

LEMMA CloseTyped ==
    ASSUME status \in States, NEW why \in DOMAIN Closing, Close(why)
    PROVE  status' \in States /\ adapter' \in {adapter, "none"}
BY ClosedTyped DEF Close

LEMMA StaleTyped ==
    ASSUME NEW st \in States, NEW ad \in {"none", "live", "failed", "finished"}, MaybeStale(st, ad)
    PROVE  status' \in States /\ adapter' \in {"none", "live", "failed", "finished"}
BY DEF MaybeStale, States, ConnectedStates, BusyStates

LEMMA LoopTyped ==
    ASSUME Typed, LoopStep \/ LinkFails
    PROVE  ProcessTyped'
<1> USE DEF ProcessTyped
<1>0. ProcessTyped /\ file.desired \in BOOLEAN /\ file.seq \in Nat
  BY DEF Typed, SettingsTyped, File
<1>1. CASE TaskStarts \/ Top \/ Waited \/ Decide \/ Resolve \/ LoopPoisoned \/ LinkFails
  <2>0. \A f \in Readings : f.desired \in BOOLEAN
    BY <1>0, ReadingIs, FileTyped DEF File
  <2>1. /\ UNCHANGED <<manual, status, stop, lastSeq, api>>
        /\ desired' = desired \/ \E f \in Readings : desired' = f.desired
        /\ adapter' \in {adapter, "failed"}
        /\ lock' = lock \/ Ask("loop")
    BY <1>1 DEF TaskStarts, Top, Waited, Decide, Resolve, LoopPoisoned, LinkFails
  <2> QED
    BY <1>0, <2>0, <2>1, LockTyped
<1>2. CASE Consume
  <2>0. \A f \in Readings : f.seq \in Nat
    BY <1>0, ReadingIs, FileTyped DEF File
  <2>1. /\ UNCHANGED <<stop, api>>
        /\ lastSeq' = lastSeq \/ \E f \in Readings : lastSeq' = f.seq
    BY <1>2, Consumed
  <2>2. PICK cmd :
          \/ /\ desired' = (desired \/ cmd = "connect")
             /\ manual' = (manual /\ cmd # "connect")
             /\ lock' = lock \/ Ask("loop")
             /\ UNCHANGED <<status, adapter>>
          \/ /\ desired' = (cmd = "retry")
             /\ manual' = (cmd = "disconnect")
             /\ lock' = lock
             /\ \E why \in {"ui", "retry"} : Close(why)
    BY <1>2, Consumed
  <2>3. desired' \in BOOLEAN /\ manual' \in BOOLEAN
    BY <2>2
  <2>4. lock' \in {"free", "loop", "api"}
    BY <1>0, <2>2, LockTyped
  <2>5. {"ui", "retry"} \subseteq DOMAIN Closing
    BY DEF Closing
  <2>6. status' \in States /\ adapter' \in {adapter, "none"}
    BY <1>0, <2>2, <2>5, CloseTyped
  <2> QED
    BY <1>0, <2>0, <2>1, <2>3, <2>4, <2>6
<1>3. CASE LoopClosed
  <2>1. /\ UNCHANGED <<desired, manual, adapter, lock, stop, lastSeq, api>>
        /\ \E why \in DOMAIN Closing : Closed(why)
    BY <1>3 DEF LoopClosed
  <2> QED
    BY <1>0, <2>1, ClosedTyped
<1>4. CASE Resolved \/ TargetStored \/ Connected \/ ConnectFails \/ LoopScans \/ LoopScanned
  <2>1. /\ UNCHANGED <<desired, manual, stop, lastSeq, api>>
        /\ status' \in {status, "connecting", "ready", "reconnecting", "error", "scanning", "disconnected"}
        /\ adapter' \in {adapter, "live"}
        /\ lock' = lock \/ Release("loop")
    BY <1>4 DEF Resolved, TargetStored, Connected, ConnectFails, LoopScans, LoopScanned
  <2> QED
    BY <1>0, <2>1, LockTyped DEF States, BusyStates
<1>5. CASE Event
  <2>1. /\ UNCHANGED <<desired, manual, lock, stop, lastSeq, api>>
        /\ \E telemetry \in BOOLEAN :
             MaybeStale(IF telemetry /\ status = "stale" THEN "ready" ELSE status, adapter)
    BY <1>5 DEF Event
  <2>2. "ready" \in States
    BY DEF States, BusyStates
  <2> QED
    BY <1>0, <2>1, <2>2, StaleTyped
<1>6. CASE Quiet
  <2>1. /\ UNCHANGED <<desired, manual, lock, stop, lastSeq, api>>
        /\ MaybeStale(status, IF adapter = "live" THEN "finished" ELSE "none")
    BY <1>6 DEF Quiet
  <2> QED
    BY <1>0, <2>1, StaleTyped
<1>7. CASE StreamEnds
  <2>1. "lost" \in DOMAIN Closing
    BY DEF Closing
  <2>2. /\ UNCHANGED <<desired, manual, lock, stop, lastSeq, api>>
        /\ UNCHANGED <<status, adapter>> \/ Close("lost")
    BY <1>7 DEF StreamEnds, Lost
  <2> QED
    BY <1>0, <2>1, <2>2, CloseTyped
<1> QED
  BY <1>1, <1>2, <1>3, <1>4, <1>5, <1>6, <1>7 DEF LoopStep

LEMMA FinishTyped ==
    ASSUME lock \in {"free", "loop", "api"}, Finish
    PROVE  api'.op = "none" /\ lock' \in {"free", "loop", "api"}
BY LockTyped DEF Finish

LEMMA CallClosesTyped ==
    ASSUME ProcessTyped, ApiRecord, CallCloses
    PROVE  /\ status' \in States /\ adapter' \in {adapter, "none"}
           /\ lock' \in {"free", "loop", "api"} /\ api'.op \in {"none", api.op}
<1>1. CASE adapter = "none"
  BY <1>1, FinishTyped DEF CallCloses, ProcessTyped, States
<1>2. CASE adapter # "none"
  BY <1>2 DEF CallCloses, ProcessTyped, ApiRecord, States, BusyStates
<1> QED
  BY <1>1, <1>2

LEMMA StopTyped ==
    ASSUME ProcessTyped, EnsureStarted \/ UNCHANGED stop
    PROVE  stop' \in BOOLEAN
BY DEF EnsureStarted, ProcessTyped

LEMMA CallTyped ==
    ASSUME Typed, ApiRecord, CallStep \/ Call
    PROVE  ProcessTyped'
<1> USE DEF ProcessTyped
<1>0. ProcessTyped
  BY DEF Typed
<1>1. CASE Enter
  <2>1. UNCHANGED <<stop, lastSeq>>
    BY <1>1 DEF Enter
  <2>2. CASE api.op \in {"connect", "disconnect", "drop", "retry"} /\ CallWrites(api.op)
    <3>1. /\ api'.op = api.op /\ UNCHANGED <<adapter, lock>>
          /\ desired' = (api.op \in {"connect", "retry"}) /\ manual' = (api.op = "disconnect")
          /\ status' = status
      BY <2>2 DEF CallWrites
    <3>2. desired' \in BOOLEAN /\ manual' \in BOOLEAN
      BY <3>1
    <3> QED
      BY <1>0, <2>1, <3>1, <3>2
  <2>3. CASE CallScans
    <3>1. UNCHANGED <<desired, manual, adapter>> /\ status' \in {status, "scanning"}
      BY <2>3 DEF CallScans
    <3>2. Finish \/ (api' = [api EXCEPT !.at = "scanning"] /\ lock' = lock)
      BY <2>3 DEF CallScans
    <3>3. api'.op \in {"none", api.op} /\ lock' \in {"free", "loop", "api"}
      BY <1>0, <3>2, FinishTyped DEF ApiRecord
    <3> QED
      BY <1>0, <2>1, <3>1, <3>3 DEF States
  <2>4. CASE CallCloses /\ UNCHANGED <<desired, manual>>
    BY <1>0, <2>1, <2>4, CallClosesTyped
  <2> QED
    BY <1>1, <2>2, <2>3, <2>4 DEF Enter
<1>2. CASE Written
  <2>1. UNCHANGED <<desired, manual, lastSeq>> /\ (EnsureStarted \/ UNCHANGED stop)
    BY <1>2 DEF Written
  <2>2. stop' \in BOOLEAN
    BY <1>0, <2>1, StopTyped
  <2>3. \/ Finish /\ adapter' = adapter /\ status' \in {status, "disconnected"}
        \/ CallCloses
    BY <1>2 DEF Written
  <2>4. CASE Finish /\ adapter' = adapter /\ status' \in {status, "disconnected"}
    BY <1>0, <2>1, <2>2, <2>4, FinishTyped DEF States
  <2>5. CASE CallCloses
    BY <1>0, <2>1, <2>2, <2>5, CallClosesTyped
  <2> QED
    BY <2>3, <2>4, <2>5
<1>3. CASE WriteFails
  <2>1. /\ UNCHANGED <<desired, manual, status, adapter, stop, lastSeq>>
        /\ api'.op = "none" /\ Release("api")
    BY <1>3 DEF WriteFails
  <2> QED
    BY <1>0, <2>1, LockTyped
<1>4. CASE CallClosed \/ CallScanned
  <2>1. /\ UNCHANGED <<desired, manual, adapter, lastSeq>> /\ (EnsureStarted \/ UNCHANGED stop)
        /\ Finish /\ status' \in {status, "manually_disconnected", "disconnected"}
    BY <1>4 DEF CallClosed, CallScanned
  <2>2. stop' \in BOOLEAN
    BY <1>0, <2>1, StopTyped
  <2> QED
    BY <1>0, <2>1, <2>2, FinishTyped DEF States
<1>5. CASE LoopCancelled
  <2>1. /\ UNCHANGED <<desired, manual, status, stop, lastSeq>>
        /\ api' = [api EXCEPT !.at = "await"]
        /\ adapter' \in {adapter, "finished"} /\ (lock' = lock \/ Release("loop"))
    BY <1>5 DEF LoopCancelled
  <2>2. api'.op = api.op
    BY <2>1 DEF ApiRecord
  <2> QED
    BY <1>0, <2>1, <2>2, LockTyped
<1>6. CASE Awaited
  <2>1. /\ UNCHANGED <<desired, manual, status, adapter, stop, lastSeq>>
        /\ api'.op = "shutdown" /\ Ask("api")
    BY <1>6 DEF Awaited, ApiAsks
  <2> QED
    BY <1>0, <2>1, LockTyped DEF Calls
<1>7. CASE Call
  <2>1. UNCHANGED <<desired, manual, status, adapter, lastSeq>>
    BY <1>7 DEF Call
  <2>2. PICK op \in Calls :
          /\ stop' = (stop \/ op = "shutdown")
          /\ api'.op = op /\ (lock' = lock \/ Ask("api"))
    BY <1>7 DEF Call, ApiAsks, Calls
  <2>3. stop' \in BOOLEAN
    BY <2>2
  <2> QED
    BY <1>0, <2>1, <2>2, <2>3, LockTyped
<1> QED
  BY <1>1, <1>2, <1>3, <1>4, <1>5, <1>6, <1>7 DEF CallStep

LEMMA OtherTyped ==
    ASSUME Typed, Writes \/ Pages \/ StrayEnds \/ Boot \/ Crash \/ UNCHANGED vars
    PROVE  ProcessTyped'
<1> USE DEF ProcessTyped
<1>0. ProcessTyped /\ file.desired \in BOOLEAN /\ file.seq \in Nat
  BY DEF Typed, SettingsTyped, File
<1>1. CASE Boot
  <2>0. \A f \in Readings : f.desired \in BOOLEAN /\ f.seq \in Nat
    BY <1>0, ReadingIs, FileTyped DEF Typed, SettingsTyped, File
  <2>1. /\ \E f, g \in Readings : desired' = f.desired /\ lastSeq' = g.seq
        /\ manual' = FALSE /\ stop' = FALSE
        /\ status' = "disconnected" /\ adapter' = adapter /\ lock' \in {"api", "free"}
        /\ api'.op \in {"connect", "none"}
    BY <1>1 DEF Boot, NoCall
  <2>2. manual' \in BOOLEAN /\ stop' \in BOOLEAN
    BY <2>1
  <2> QED
    BY <1>0, <2>0, <2>1, <2>2 DEF States, Calls
<1>2. CASE Crash
  <2>1. /\ UNCHANGED <<desired, manual, status, stop, lastSeq>>
        /\ adapter' = "none" /\ lock' = "free" /\ api'.op = "none"
    BY <1>2 DEF Crash
  <2> QED
    BY <1>0, <2>1
<1>3. CASE Writes \/ Pages \/ StrayEnds \/ UNCHANGED vars
  <2>1. UNCHANGED process
    BY <1>3 DEF Writes, WritesOf, Pages, StrayEnds, vars
  <2> QED
    BY <1>0, <2>1 DEF process
<1> QED
  BY <1>1, <1>2, <1>3

LEMMA TypedStep == Typed /\ ApiRecord /\ [Next]_vars => Typed'
<1> SUFFICES ASSUME Typed, ApiRecord, [Next]_vars
             PROVE  Typed'
  OBVIOUS
<1>1. SettingsTyped /\ ProcessTyped /\ BoundsTyped
  BY DEF Typed
<1>2. SettingsTyped'
  BY <1>1, LoopSettings, CallSettings, OtherSettings DEF Next
<1>3. ProcessTyped'
  BY LoopTyped, CallTyped, OtherTyped DEF Next
<1>4. BoundsTyped'
  BY <1>1, BoundsStep
<1> QED
  BY <1>2, <1>3, <1>4 DEF Typed

LEMMA AlwaysTyped == Spec => []Typed
BY AlwaysInv, TypedInit, TypedStep, PTL DEF Spec

\* The file and what a writer has loaded of it are whole, a writer that has loaded it
\* has something to store, and the steps stay within their bound
\* (runtime_settings.py; bluetooth_connection_supervisor.py).
THEOREM TypeCorrect == Spec => []TypeOK
<1>1. Typed => TypeOK
  <2> SUFFICES ASSUME Typed
               PROVE  TypeOK
    OBVIOUS
  <2>1. SettingsTypeOK
    BY DEF Typed, SettingsTyped, SettingsTypeOK, File
  <2>2. presses + calls + boots \in 0 .. MaxEvents
    <3>1. presses \in Nat /\ calls \in Nat /\ boots \in Nat /\ presses + calls + boots <= MaxEvents
      BY SessionsAssumption DEF Typed, SettingsTyped, BoundsTyped
    <3> QED
      BY <3>1, UsesAssumption
  <2>3. strays \in Nat
    BY UsesAssumption DEF Typed, BoundsTyped
  <2> QED
    BY <2>1, <2>2, <2>3, Zenon DEF Typed, ProcessTyped, BoundsTyped, TypeOK
<1> QED
  BY <1>1, AlwaysTyped, PTL

-----------------------------------------------------------------------------
(* The command slot *)

\* The coroutine that runs keeps the event loop to itself while it works on the file,
\* and a process that is going down has no run loop left.
Turns ==
    /\ ~(LoopBusy /\ ApiBusy)
    /\ api.at = "down" => ~LoopAlive
    /\ api.op = "shutdown" /\ api.at \notin {"cancel", "await"} => ~LoopAlive
    /\ use = "monitor" /\ api.op = "connect" => loop = "none"

LEMMA TurnsLoop ==
    ASSUME Turns, LoopStep
    PROVE  Turns' /\ ~ApiBusy /\ api' = api /\ LoopAlive
<1>1. /\ api' = api /\ use' = use /\ LoopAlive
      /\ ~ApiBusy \/ LoopBusy
  BY DEF LoopStep, TaskStarts, Top, Consume, LoopClosed, Closing, Decide, Waited, Resolve, Resolved,
       TargetStored, Connected, ConnectFails, Event, Quiet, StreamEnds, LoopPoisoned, LoopScans,
       LoopScanned, At, LoopBusy, LoopAlive, bounds
<1>2. loop # "none"
  BY <1>1 DEF LoopAlive
<1> QED
  BY <1>1, <1>2 DEF Turns, LoopBusy, ApiBusy, LoopAlive

\* The end of a call.
LEMMA TurnsFinished ==
    ASSUME Turns, CallDoes, ApiRecord, use' = use, ~LoopBusy,
           loop' \in {loop, "new"},
           api' = [op |-> "none", at |-> IF api.op = "shutdown" /\ use = "monitor" THEN "down" ELSE "idle"],
           api.op = "shutdown" => api.at \notin {"cancel", "await"} /\ loop' = loop
    PROVE  Turns' /\ ~LoopBusy'
<1>1. ~LoopBusy' /\ ~ApiBusy' /\ api'.op = "none"
  BY DEF LoopBusy, ApiBusy
<1>2. api'.at = "down" => ~LoopAlive'
  BY DEF Turns, LoopAlive
<1> QED
  BY <1>1, <1>2 DEF Turns

\* A call that goes on.
LEMMA TurnsOn ==
    ASSUME Turns, use' = use, ~LoopBusy, loop' = loop,
           api'.op = api.op, api'.at # "down",
           api.op = "shutdown" => api.at \notin {"cancel", "await"} \/ api'.at = "await"
    PROVE  Turns' /\ ~LoopBusy'
BY DEF Turns, LoopBusy, ApiBusy, LoopAlive

LEMMA TurnsCall ==
    ASSUME Turns, LinkInv, CallDoes, ApiRecord, CallStep \/ Call
    PROVE  Turns' /\ ~LoopBusy' /\ ~LoopBusy
<1>0. /\ use' = use /\ (ApiBusy \/ ~LoopBusy)
      /\ use = "monitor" => api.op \in {"none", "connect", "shutdown"}
  BY DEF CallStep, Enter, Written, WriteFails, CallClosed, CallScanned, LoopCancelled, Awaited,
         Call, ApiAt, ApiBusy, bounds, LinkInv, WishLasts
<1>1. ~LoopBusy
  BY <1>0 DEF Turns
<1>2. ASSUME Finish, api.at \notin {"cancel", "await"}, loop' \in {loop, "new"},
             api.op = "shutdown" => loop' = loop
      PROVE  Turns' /\ ~LoopBusy'
  BY <1>0, <1>1, <1>2, TurnsFinished DEF Finish
<1>3. ASSUME CallCloses, api.at \notin {"cancel", "await"}, loop' \in {loop, "new"},
             api.op # "retry" \/ adapter # "none" => loop' = loop
      PROVE  Turns' /\ ~LoopBusy'
  <2>1. CASE adapter = "none"
    BY <1>2, <1>3, <2>1 DEF CallCloses
  <2>2. CASE adapter # "none"
    <3>1. api'.op = api.op /\ api'.at = "close"
      BY <1>3, <2>2 DEF CallCloses, ApiRecord
    <3> QED
      BY <1>0, <1>1, <1>3, <2>2, <3>1, TurnsOn
  <2> QED
    BY <2>1, <2>2
<1>4. CASE Enter
  <2>1. loop' = loop /\ api.at \in {"enter", "want"}
    BY <1>4 DEF Enter, ApiAt
  <2>2. CASE CallWrites(api.op)
    <3>1. api'.op = api.op /\ api'.at = "write"
      BY <2>2 DEF CallWrites
    <3> QED
      BY <1>0, <1>1, <2>1, <3>1, TurnsOn
  <2>3. CASE CallScans
    <3>1. CASE Finish
      BY <1>1, <1>2, <2>1, <3>1
    <3>2. CASE api' = [api EXCEPT !.at = "scanning"]
      <4>1. api'.op = api.op /\ api'.at = "scanning"
        BY <3>2 DEF ApiRecord
      <4> QED
        BY <1>0, <1>1, <2>1, <4>1, TurnsOn
    <3> QED
      BY <2>3, <3>1, <3>2 DEF CallScans
  <2>4. CASE CallCloses
    BY <1>1, <1>3, <2>1, <2>4
  <2> QED
    BY <1>1, <1>4, <2>2, <2>3, <2>4 DEF Enter
<1>5. CASE Written
  <2>1. api.at = "write" /\ api.op \in {"connect", "disconnect", "drop", "retry"}
    BY <1>5 DEF Written, CallDoes
  <2>2. /\ loop' \in {loop, "new"}
        /\ ~(api.op = "connect" \/ (api.op = "retry" /\ adapter = "none")) => loop' = loop
    BY <1>5, Started DEF Written
  <2>3. CASE api.op = "connect"
    BY <1>1, <1>2, <1>5, <2>1, <2>2, <2>3 DEF Written
  <2>4. CASE api.op # "connect"
    <3>1. CallCloses
      BY <1>5, <2>4 DEF Written
    <3>2. api.op # "retry" \/ adapter # "none" => loop' = loop
      BY <2>2, <2>4
    <3> QED
      BY <1>1, <1>3, <2>1, <2>2, <3>1, <3>2
  <2> QED
    BY <2>3, <2>4
<1>6. CASE WriteFails
  <2>1. /\ api.at = "write" /\ loop' = loop
        /\ api' = [op |-> "none", at |-> IF use = "monitor" THEN "down" ELSE "idle"]
    BY <1>6 DEF WriteFails
  <2>2. use = "monitor" => loop = "none"
    BY <1>0, <2>1 DEF Turns, CallDoes
  <2>3. ~LoopBusy' /\ ~ApiBusy' /\ api'.op = "none"
    BY <1>1, <2>1 DEF LoopBusy, ApiBusy
  <2>4. api'.at = "down" => ~LoopAlive'
    BY <2>1, <2>2 DEF LoopAlive
  <2> QED
    BY <1>1, <2>3, <2>4 DEF Turns
<1>7. CASE CallClosed \/ CallScanned
  <2>1. /\ Finish /\ api.at \in {"close", "scanning"} /\ loop' \in {loop, "new"}
        /\ api.op = "shutdown" => loop' = loop
    BY <1>7, Started DEF CallClosed, CallScanned, ApiAt
  <2> QED
    BY <1>1, <1>2, <2>1
<1>8. CASE LoopCancelled
  <2>1. /\ api.at = "cancel" /\ api' = [api EXCEPT !.at = "await"] /\ loop' \in {loop, "done"}
    BY <1>8 DEF LoopCancelled, ApiAt
  <2>2. api.op = "shutdown" /\ api'.op = "shutdown" /\ api'.at = "await"
    BY <2>1 DEF CallDoes, ApiRecord
  <2>3. ~LoopBusy' /\ ~ApiBusy'
    BY <1>1, <2>1, <2>2 DEF LoopBusy, ApiBusy
  <2> QED
    BY <1>1, <2>2, <2>3 DEF Turns
<1>9. CASE Awaited
  <2>1. loop' = "none" /\ api'.op = "shutdown" /\ api'.at \in {"enter", "want"}
    BY <1>9 DEF Awaited, ApiAsks
  <2> QED
    BY <1>1, <2>1 DEF Turns, LoopBusy, LoopAlive
<1>10. CASE Call
  <2>1. PICK op \in IF use = "monitor" THEN {"shutdown"} ELSE Calls :
          IF op = "shutdown" /\ LoopAlive
          THEN api' = [op |-> op, at |-> "cancel"]
          ELSE ApiAsks(op)
    BY <1>10 DEF Call
  <2>2. /\ loop' = loop /\ api'.op = op /\ api'.at \in {"cancel", "enter", "want"}
        /\ op = "shutdown" /\ LoopAlive => api'.at = "cancel"
    BY <1>10, <2>1 DEF Call, ApiAsks
  <2>3. use = "monitor" => op = "shutdown"
    BY <2>1
  <2> QED
    BY <1>0, <1>1, <2>2, <2>3 DEF Turns, LoopBusy, LoopAlive
<1> QED
  BY <1>4, <1>5, <1>6, <1>7, <1>8, <1>9, <1>10 DEF CallStep

LEMMA TurnsProcess ==
    ASSUME Turns, Boot \/ Crash
    PROVE  Turns' /\ ~LoopBusy'
<1>1. loop' = "none"
  BY DEF Boot, Crash
<1> QED
  BY <1>1 DEF Turns, LoopBusy, LoopAlive

LEMMA TurnsAside ==
    ASSUME Turns, UNCHANGED <<use, loop, api>>
    PROVE  Turns'
BY DEF Turns, LoopBusy, ApiBusy, LoopAlive

Own == {"loop", "api"}

\* Setters that leave the slot as it was loaded.
Plain == {s \in Setter : s.key # "command"}

\* The process has something to store only while it writes, and run by main.py it
\* stores no commands.
Drafts ==
    /\ todo["loop"] # <<>> => loop = "write"
    /\ todo["api"] # <<>> => api.at = "write"
    /\ use = "monitor" => \A w \in Own : todo[w] \in Seq(Plain)

LEMMA OwnWriters == Own \subseteq Writers /\ Own \cap Sessions = {}
BY SessionsAssumption DEF Own, Writers

LEMMA PlainSetters == SetOther \in Plain /\ SetDesired(TRUE) \in Plain /\ SetDesired(FALSE) \in Plain
BY Setters DEF Plain, SetOther, SetDesired

LEMMA DraftsLoop ==
    ASSUME Typed, Turns, Drafts, LoopStep
    PROVE  Drafts'
<1>1. /\ api' = api /\ todo["api"] = <<>> /\ use' = use
  BY TurnsLoop DEF Drafts, ApiBusy, LoopStep, TaskStarts, Top, Consume, LoopClosed, Decide,
     Waited, Resolve, Resolved, TargetStored, Connected, ConnectFails, Event, Quiet, StreamEnds,
     LoopPoisoned, LoopScans, LoopScanned, bounds
<1>2. \/ UNCHANGED todo /\ todo["loop"] = <<>>
      \/ todo' = [todo EXCEPT !["loop"] = <<SetOther>>] /\ loop' = "write"
      \/ todo' = [todo EXCEPT !["loop"] = <<>>]
  <2>1. CASE TaskStarts \/ Top \/ Consume \/ Decide \/ Waited \/ Resolve \/ TargetStored \/ Connected
             \/ Event \/ Quiet \/ StreamEnds \/ LoopPoisoned \/ LoopScans \/ LoopScanned
    BY <2>1 DEF TaskStarts, Top, Consume, Decide, Waited, Resolve, TargetStored, Connected, Event, Quiet,
                StreamEnds, LoopPoisoned, LoopScans, LoopScanned, At, Drafts, settings
  <2>2. CASE LoopClosed
    BY <2>2, ClosersOf DEF LoopClosed, LoopCloses, Closers, At, Drafts, settings
  <2>3. CASE Resolved
    BY <2>3 DEF Resolved, At, Drafts
  <2>4. CASE ConnectFails
    BY <2>4 DEF ConnectFails, SaveFails, At, Drafts, settings
  <2> QED
    BY <2>1, <2>2, <2>3, <2>4 DEF LoopStep
<1>3. todo \in [Writers -> Seq(Setter)] /\ "loop" \in Writers /\ "api" \in Writers
  BY OwnWriters DEF Typed, SettingsTyped, Own
<1>4. <<SetOther>> \in Seq(Plain) /\ <<>> \in Seq(Plain)
  BY PlainSetters
<1> QED
  BY <1>1, <1>2, <1>3, <1>4 DEF Drafts, Own

LEMMA DraftsCall ==
    ASSUME Typed, Turns, LinkInv, CallDoes, ApiRecord, Drafts, CallStep \/ Call
    PROVE  Drafts'
<1>1. ~LoopBusy /\ ~LoopBusy' /\ todo["loop"] = <<>>
  BY TurnsCall DEF Drafts, LoopBusy
<1>2. use' = use
  BY DEF CallStep, Enter, Written, WriteFails, CallClosed, CallScanned, LoopCancelled, Awaited,
         Call, bounds
<1>3. todo \in [Writers -> Seq(Setter)] /\ "loop" \in Writers /\ "api" \in Writers
  BY OwnWriters DEF Typed, SettingsTyped, Own
<1>4. \/ UNCHANGED todo /\ todo["api"] = <<>>
      \/ todo' = [todo EXCEPT !["api"] = <<>>]
      \/ /\ api'.at = "write"
         /\ \E setters : /\ todo' = [todo EXCEPT !["api"] = setters]
                         /\ use = "monitor" => setters \in Seq(Plain)
  <2>1. CASE Enter
    <3>1. api.at # "write"
      BY <2>1 DEF Enter, ApiAt
    <3>2. CASE api.op \in {"connect", "disconnect", "drop", "retry"} /\ CallWrites(api.op)
      <4>1. api'.at = "write"
        BY <3>2 DEF CallWrites
      <4>2. PICK setters :
              /\ todo' = [todo EXCEPT !["api"] = setters]
              /\ \/ setters \in {<<SetDesired(TRUE)>>, <<SetOther, SetDesired(TRUE)>>}
                 \/ api.op # "connect"
        BY <3>2 DEF CallWrites
      <4>3. use = "monitor" => api.op = "connect"
        BY <3>2 DEF LinkInv, WishLasts
      <4>4. <<SetDesired(TRUE)>> \in Seq(Plain) /\ <<SetOther, SetDesired(TRUE)>> \in Seq(Plain)
        BY PlainSetters, ShortSequences
      <4> QED
        BY <4>1, <4>2, <4>3, <4>4
    <3> QED
      BY <2>1, <3>1, <3>2 DEF Enter, CallScans, Drafts
  <2>2. CASE WriteFails
    BY <2>2 DEF WriteFails, SaveFails
  <2>3. CASE Written \/ CallClosed \/ CallScanned \/ LoopCancelled \/ Awaited \/ Call
    BY <2>3 DEF Written, CallClosed, CallScanned, LoopCancelled, Awaited, Call, ApiAt, settings, Drafts
  <2> QED
    BY <2>1, <2>2, <2>3 DEF CallStep
<1>5. <<>> \in Seq(Plain)
  OBVIOUS
<1> QED
  BY <1>1, <1>2, <1>3, <1>4, <1>5 DEF Drafts, Own

LEMMA DraftsOther ==
    ASSUME Typed, Turns, Drafts, Writes \/ Pages \/ LinkFails \/ StrayEnds \/ Boot \/ Crash \/ UNCHANGED vars
    PROVE  Drafts'
<1>1. todo \in [Writers -> Seq(Setter)] /\ "loop" \in Writers /\ "api" \in Writers
  BY OwnWriters DEF Typed, SettingsTyped, Own
<1>2. use' = use
  BY DEF Writes, WritesOf, Pages, LinkFails, StrayEnds, Boot, Crash, vars, bounds
<1>3. CASE LinkFails \/ StrayEnds \/ UNCHANGED vars
  BY <1>2, <1>3 DEF LinkFails, StrayEnds, vars, settings, process, bounds, Drafts
<1>4. CASE Boot \/ Crash
  <2>1. todo'["loop"] = <<>> /\ todo'["api"] = <<>>
    BY <1>1, <1>4 DEF Boot, Crash, settings, Drafts, Turns, LoopAlive
  <2>2. <<>> \in Seq(Plain)
    OBVIOUS
  <2> QED
    BY <2>1, <2>2 DEF Drafts, Own
<1>5. CASE Writes
  <2>1. PICK w \in Writers : WritesOf(w)
    BY <1>5 DEF Writes
  <2>2. UNCHANGED <<loop, api>>
    BY <2>1 DEF WritesOf, process
  <2>3. CASE Load(w)
    BY <1>2, <2>2, <2>3 DEF Load, Drafts
  <2>4. CASE Save(w)
    <3>1. todo[w] # <<>> /\ todo' = [todo EXCEPT ![w] = Tail(todo[w])]
      BY <2>4 DEF Save, Typed, SettingsTyped
    <3>2. use = "monitor" /\ w \in Own => Tail(todo[w]) \in Seq(Plain)
      BY <3>1 DEF Drafts
    <3> QED
      BY <1>1, <1>2, <2>2, <3>1, <3>2 DEF Drafts, Own
  <2> QED
    BY <2>1, <2>3, <2>4 DEF WritesOf
<1>6. CASE Pages
  <2>1. PICK s \in Sessions : Press(s) \/ SaveFails(s)
    BY <1>6 DEF Pages
  <2>2. s \in Writers /\ s # "loop" /\ s # "api"
    BY OwnWriters DEF Writers, Own
  <2>3. todo'["loop"] = todo["loop"] /\ todo'["api"] = todo["api"] /\ UNCHANGED <<loop, api>>
    BY <1>1, <1>6, <2>1, <2>2 DEF Pages, process, Press, SaveFails
  <2> QED
    BY <1>2, <2>3 DEF Drafts, Own
<1> QED
  BY <1>3, <1>4, <1>5, <1>6

\* What was loaded is not behind what was read from the slot; nobody but a page can
\* bring the slot forward, and with one session no page has loaded it meanwhile.
SlotInv ==
    use = "monitor" /\ ~forgotten =>
      /\ lastSeq <= file.seq
      /\ \A w \in Own : hand[w] # NoFile => lastSeq <= hand[w].seq /\ hand[w].seq <= file.seq
      /\ \A s \in Sessions : hand[s] # NoFile => file.seq <= hand[s].seq

\* Only one page writes the file.
OneSession == \A s, t \in Sessions : s = t

\* Nothing is stored, and what is still loaded was loaded before.
LEMMA SlotHands ==
    ASSUME SlotInv, use' = use, forgotten' = forgotten, file' = file, lastSeq' = lastSeq,
           \A w \in Writers : hand'[w] \in {hand[w], NoFile}
    PROVE  SlotInv'
BY OwnWriters DEF SlotInv, Writers

\* The slot is read while the process has nothing loaded.
LEMMA SlotRead ==
    ASSUME SlotInv, Typed, Drafts, use' = use, UNCHANGED <<file, hand, forgotten>>,
           lastSeq' = lastSeq \/ \E f \in Readings : lastSeq' = f.seq, loop # "write", api.at # "write"
    PROVE  SlotInv'
<1>1. \A w \in Own : hand[w] = NoFile
  BY OwnWriters DEF Typed, SettingsTyped, Drafts, Own
<1>2. file.seq \in Nat
  BY DEF Typed, SettingsTyped, File
<1>3. \A f \in Readings : f.seq \in {file.seq, 0}
  BY ReadingIs DEF Defaults, NoFile
<1> QED
  BY <1>1, <1>2, <1>3 DEF SlotInv

LEMMA SlotLoad ==
    ASSUME SlotInv, Typed, use' = use, lastSeq' = lastSeq, NEW w \in Writers, Load(w)
    PROVE  SlotInv'
<1> SUFFICES ASSUME ~forgotten'
             PROVE  SlotInv'
  BY DEF SlotInv
<1>0. PICK f \in Readings :
        hand' = [hand EXCEPT ![w] = f] /\ forgotten' = (forgotten \/ f # file)
  BY DEF Load
<1>1. /\ file' = file /\ hand'[w] = file /\ ~forgotten
      /\ \A v \in Writers \ {w} : hand'[v] = hand[v]
  BY <1>0 DEF Load, Typed, SettingsTyped
<1>2. file.seq \in Nat /\ Own \subseteq Writers /\ Sessions \subseteq Writers
  BY OwnWriters DEF Typed, SettingsTyped, File, Writers
<1> QED
  BY <1>1, <1>2 DEF SlotInv

LEMMA SlotSave ==
    ASSUME OneSession, SlotInv, Typed, Turns, Drafts, use' = use, lastSeq' = lastSeq,
           NEW w \in Writers, Save(w)
    PROVE  SlotInv'
<1>0. forgotten' = forgotten
  BY DEF Save, reading
<1> SUFFICES ASSUME use = "monitor", ~forgotten
             PROVE  SlotInv'
  BY <1>0 DEF SlotInv
<1> DEFINE h == hand[w]
<1> DEFINE s == Head(todo[w])
<1>1. /\ h # NoFile /\ h \in File /\ todo[w] \in Seq(Setter) /\ s \in Setter
      /\ file' = Stored(h, s) /\ todo[w] # <<>>
  BY HeadTyped DEF Save, Typed, SettingsTyped
<1>2. /\ hand'[w] = NoFile
      /\ \A v \in Writers \ {w} : hand'[v] = hand[v]
  BY DEF Save, Typed, SettingsTyped
<1>3. /\ file'.seq = IF s.key = "command" THEN h.seq + 1 ELSE h.seq
      /\ file'.seq \in Nat /\ h.seq \in Nat /\ file.seq \in Nat /\ lastSeq \in Nat
  BY <1>1, StoredTyped DEF File, Typed, SettingsTyped, ProcessTyped
<1> HIDE DEF h, s
<1>4. CASE w \in Own
  <2>1. todo[w] \in Seq(Plain)
    BY <1>4 DEF Drafts
  <2>2. s \in Plain
    BY <1>1, <2>1 DEF s
  <2>3. file'.seq = h.seq
    BY <1>3, <2>2 DEF Plain
  <2>4. \A v \in Own \ {w} : hand[v] = NoFile
    BY <1>1, <1>4, OwnWriters DEF Own, Drafts, Turns, LoopBusy, ApiBusy, Typed, SettingsTyped
  <2>5. /\ lastSeq <= h.seq /\ h.seq <= file.seq
    BY <1>1, <1>4 DEF SlotInv, h
  <2>6. \A v \in Own : hand'[v] = NoFile
    BY <1>2, <2>4, OwnWriters
  <2>7. ASSUME NEW v \in Sessions, hand'[v] # NoFile
        PROVE  file'.seq <= hand'[v].seq
    <3>1. v \in Writers \ {w}
      BY <1>4, OwnWriters DEF Writers
    <3>2. hand'[v] = hand[v] /\ file.seq <= hand[v].seq
      BY <1>2, <2>7, <3>1 DEF SlotInv
    <3>3. hand[v] \in File
      BY <2>7, <3>1, <3>2 DEF Typed, SettingsTyped
    <3> QED
      BY <1>3, <2>3, <2>5, <3>2, <3>3 DEF File
  <2>8. lastSeq' <= file'.seq
    BY <2>3, <2>5
  <2> QED
    BY <2>6, <2>7, <2>8 DEF SlotInv
<1>5. CASE w \in Sessions
  <2>1. file.seq <= h.seq
    BY <1>1, <1>5 DEF SlotInv, h
  <2>2. file.seq <= file'.seq
    BY <1>3, <2>1
  <2>3. \A v \in Sessions : hand'[v] = NoFile
    BY <1>2, <1>5 DEF OneSession
  <2>4. ASSUME NEW v \in Own, hand'[v] # NoFile
        PROVE  lastSeq <= hand'[v].seq /\ hand'[v].seq <= file'.seq
    <3>1. v \in Writers \ {w}
      BY <1>5, <2>4, OwnWriters
    <3>2. hand'[v] = hand[v] /\ lastSeq <= hand[v].seq /\ hand[v].seq <= file.seq
      BY <1>2, <2>4, <3>1 DEF SlotInv
    <3>3. hand[v] \in File
      BY <2>4, <3>1, <3>2 DEF Typed, SettingsTyped
    <3> QED
      BY <1>3, <2>2, <3>2, <3>3 DEF File
  <2>5. lastSeq <= file'.seq
    BY <1>3, <2>2 DEF SlotInv
  <2> QED
    BY <2>3, <2>4, <2>5 DEF SlotInv
<1> QED
  BY <1>4, <1>5 DEF Writers, Own

LEMMA SlotStep ==
    ASSUME OneSession
    PROVE  SlotInv /\ Typed /\ Turns /\ Drafts /\ [Next]_vars => SlotInv'
<1> SUFFICES ASSUME SlotInv, Typed, Turns, Drafts, [Next]_vars
             PROVE  SlotInv'
  OBVIOUS
<1>0. use' = use
  BY UseStays
<1>h. hand \in [Writers -> File \cup {NoFile}] /\ "loop" \in Writers /\ "api" \in Writers
  BY OwnWriters DEF Typed, SettingsTyped, Own
<1>1. CASE TaskStarts \/ Top \/ LoopClosed \/ Decide \/ Waited \/ Resolve \/ Resolved \/ TargetStored
           \/ Connected \/ Event \/ Quiet \/ StreamEnds \/ LoopPoisoned \/ LoopScans \/ LoopScanned
           \/ LinkFails \/ Enter \/ Written \/ CallClosed \/ CallScanned \/ LoopCancelled \/ Awaited
           \/ Call \/ StrayEnds \/ UNCHANGED vars
  <2>1. UNCHANGED <<file, hand, forgotten, lastSeq>>
    BY <1>1 DEF TaskStarts, Top, LoopClosed, Decide, Waited, Resolve, Resolved, TargetStored,
         Connected, Event, Quiet, StreamEnds, LoopPoisoned, LoopScans, LoopScanned, LinkFails, Enter,
         Written, CallClosed, CallScanned, LoopCancelled, Awaited, Call, StrayEnds, vars, settings,
         process, reading
  <2> QED
    BY <1>0, <2>1, SlotHands
<1>2. CASE Consume
  <2>1. /\ loop = "sync" /\ UNCHANGED <<file, hand, forgotten>>
        /\ lastSeq' = lastSeq \/ \E f \in Readings : lastSeq' = f.seq
    BY <1>2, Consumed
  <2>2. api.at # "write"
    BY <2>1 DEF Turns, LoopBusy, ApiBusy
  <2> QED
    BY <1>0, <2>1, <2>2, SlotRead
<1>3. CASE Boot
  <2>1. /\ api.at = "down" /\ UNCHANGED <<file, hand, forgotten>>
        /\ \E f \in Readings : lastSeq' = f.seq
    BY <1>3 DEF Boot
  <2>2. loop # "write"
    BY <2>1 DEF Turns, LoopAlive
  <2> QED
    BY <1>0, <2>1, <2>2, SlotRead
<1>4. CASE ConnectFails \/ WriteFails \/ Pages
  <2>1. file' = file /\ lastSeq' = lastSeq /\ forgotten' = forgotten
    BY <1>4 DEF ConnectFails, WriteFails, Pages, Press, SaveFails, settings, process, reading
  <2>2. hand' = hand \/ \E w \in Writers : hand' = [hand EXCEPT ![w] = NoFile]
    BY <1>4, <1>h DEF ConnectFails, WriteFails, Pages, Press, SaveFails, settings, Writers
  <2>3. \A w \in Writers : hand'[w] \in {hand[w], NoFile}
    BY <1>h, <2>2
  <2> QED
    BY <1>0, <2>1, <2>3, SlotHands
<1>5. CASE Crash
  <2>1. /\ file' = file /\ lastSeq' = lastSeq /\ forgotten' = forgotten
        /\ hand' = [hand EXCEPT !["loop"] = NoFile, !["api"] = NoFile]
    BY <1>5 DEF Crash, reading
  <2>2. \A w \in Writers : hand'[w] \in {hand[w], NoFile}
    BY <1>h, <2>1
  <2> QED
    BY <1>0, <2>1, <2>2, SlotHands
<1>6. CASE Writes
  <2>1. PICK w \in Writers : WritesOf(w)
    BY <1>6 DEF Writes
  <2>2. lastSeq' = lastSeq /\ (Load(w) \/ Save(w))
    BY <2>1 DEF WritesOf, process
  <2> QED
    BY <1>0, <2>2, SlotLoad, SlotSave
<1> QED
  BY <1>1, <1>2, <1>3, <1>4, <1>5, <1>6 DEF Next, LoopStep, CallStep

LEMMA TurnsStep ==
    Turns /\ Drafts /\ Typed /\ LinkInv /\ CallDoes /\ ApiRecord /\ [Next]_vars => Turns' /\ Drafts'
<1> SUFFICES ASSUME Turns, Drafts, Typed, LinkInv, CallDoes, ApiRecord, [Next]_vars
             PROVE  Turns' /\ Drafts'
  OBVIOUS
<1>1. CASE LoopStep
  BY <1>1, TurnsLoop, DraftsLoop
<1>2. CASE CallStep \/ Call
  BY <1>2, TurnsCall, DraftsCall
<1>3. CASE Boot \/ Crash
  BY <1>3, TurnsProcess, DraftsOther
<1>4. CASE Writes \/ Pages \/ LinkFails \/ StrayEnds \/ UNCHANGED vars
  <2>1. UNCHANGED <<use, loop, api>>
    BY <1>4, AsideSteps DEF LinkFails, bounds
  <2> QED
    BY <1>4, <2>1, TurnsAside, DraftsOther
<1> QED
  BY <1>1, <1>2, <1>3, <1>4 DEF Next

\* With one session of the settings page, every command that page leaves is newer than
\* the last one the supervisor has read, until a setter saves the defaults for a file it
\* could not read: a save of the supervisor may put an older slot back, but never one
\* older than it has read itself, and what it misreads itself does no harm
\* (bluetooth_connection_supervisor.py, _sync_runtime_requests; runtime_settings.py).
THEOREM CommandsAreRead == ASSUME OneSession PROVE Spec => []SlotNotBehind
<1>1. Init => Turns /\ Drafts /\ SlotInv
  <2> SUFFICES ASSUME Init PROVE Turns /\ Drafts /\ SlotInv
    OBVIOUS
  <2>1. /\ loop = "none" /\ api.at = "down" /\ api.op = "none" /\ lastSeq = 0
        /\ file = Defaults /\ \A w \in Writers : todo[w] = <<>> /\ hand[w] = NoFile
    BY DEF Init, SettingsInit
  <2>2. file.seq = 0
    BY <2>1 DEF Defaults, NoFile
  <2>3. Turns
    BY <2>1 DEF Turns, LoopBusy, LoopAlive
  <2>4. Drafts
    <3>1. \A w \in Own : todo[w] = <<>> /\ <<>> \in Seq(Plain)
      BY <2>1, OwnWriters
    <3> QED
      BY <3>1 DEF Drafts, Own
  <2>5. SlotInv
    BY <2>1, <2>2, OwnWriters DEF SlotInv, Writers
  <2> QED
    BY <2>3, <2>4, <2>5
<1>2. SlotInv => SlotNotBehind
  BY DEF SlotInv, SlotNotBehind
<1>3. Spec => []CallDoes
  BY AlwaysStatus, PTL DEF StatusInv
<1> QED
  BY <1>1, <1>2, <1>3, AlwaysInv, AlwaysTyped, TurnsStep, SlotStep, PTL DEF Spec
=============================================================================
