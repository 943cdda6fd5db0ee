------------------------ MODULE BluetoothSupervisor ------------------------
(***************************************************************************)
(* services/bluetooth_connection_supervisor.py: the run loop and the calls *)
(* of its API are coroutines of one event loop, so a step here is what a   *)
(* coroutine does between two points where it is really suspended: waiting *)
(* for the operation lock, for the adapter, for a scanning thread, for a   *)
(* timer.  File accesses block the event loop, but not the pages.          *)
(*                                                                         *)
(* An adapter is "none", "live" (link open, its event generator running),  *)
(* "failed" (its reader has raised and its queue is empty) or "finished"   *)
(* (link open and generator ended by a cancelled read).  Time, reconnect   *)
(* counters and device ids are left out; the wake event only shortens      *)
(* waits whose length is arbitrary here.                                   *)
(***************************************************************************)
EXTENDS RuntimeSettings, FiniteSets

CONSTANTS
    Uses,        \* how a process may be run: "monitor" (main.py), "embedded"
    MaxEvents,   \* bound on presses, API calls and starts of the process together
    MaxDrops     \* bound on the links left to a thread

ASSUME UsesAssumption ==
    /\ Uses \subseteq {"monitor", "embedded"}
    /\ MaxEvents \in Nat /\ MaxDrops \in Nat

VARIABLES
    use,         \* the use of this behaviour, which never changes
    calls,       \* API calls so far
    boots,       \* starts of the process so far
    desired,     \* _desired_connected
    manual,      \* _manual_disconnect
    status,      \* _status.state
    adapter,     \* _adapter and _adapter_iter
    lock,        \* holder of _operation_lock
    stop,        \* _stop
    lastSeq,     \* _last_command_seq
    loop,        \* where the run loop is
    api,         \* the API call in progress and where it is
    strays,      \* links of this process that only a thread knows of
    drops,       \* links left to a thread so far
    torn         \* a save of this process undid a save of a page (history)

process == <<desired, manual, status, adapter, lock, stop, lastSeq, loop, api>>
left == <<strays, drops>>
bounds == <<use, calls, boots, left>>
vars == <<settings, process, bounds, torn>>

Room == presses + calls + boots < MaxEvents

ConnectedStates == {"connected", "subscribing", "ready", "stale"}

\* Where scan_devices answers with the devices already known.
BusyStates == {"connecting", "connected", "subscribing", "reconnecting", "ready"}

States ==
    ConnectedStates \cup BusyStates
        \cup {"disconnected", "manually_disconnected", "scanning", "error"}

Calls == {"connect", "disconnect", "drop", "retry", "scan", "shutdown"}

NoCall == [op |-> "none", at |-> "idle"]

\* The coroutine has not been suspended since its last step.
LoopBusy == loop \in {"top", "sync", "decide", "write"}
ApiBusy == api.at \in {"enter", "write"}

At(p) == loop = p /\ ~ApiBusy
ApiAt(p) == api.at = p /\ ~LoopBusy

(* The operation lock: it goes to the coroutine that waits for it. *)

LoopWaits == loop \in {"want_link", "want_scan"} /\ lock # "loop"
ApiWaits == api.at = "want" /\ lock # "api"

Ask(c) == lock' = IF lock = "free" THEN c ELSE lock

\* A free lock is taken without a suspension.
ApiAsks(op) ==
    /\ api' = [op |-> op, at |-> IF lock = "free" THEN "enter" ELSE "want"]
    /\ Ask("api")

Release(c) ==
    lock' = CASE lock # c                 -> lock
              [] c = "loop" /\ ApiWaits   -> "api"
              [] c = "api" /\ LoopWaits   -> "loop"
              [] OTHER                    -> "free"

-----------------------------------------------------------------------------
(* Reading the requests of the pages: _run, _sync_runtime_requests *)

Top ==
    /\ At("top")
    /\ IF stop
       THEN loop' = "done" /\ UNCHANGED <<desired, misreads>>
       ELSE loop' = "sync" /\ \E f \in Readings : desired' = f.desired /\ Counted(f)
    /\ UNCHANGED <<file, todo, hand, presses, forgotten, bounds, torn, manual, status, adapter, lock, stop, lastSeq, api>>

\* Mutant: a stale link is closed without a change of the state.
ClosedSilently(why) ==
    CASE why = "ui"    -> status' = "manually_disconnected" /\ loop' = "decide"
      [] why = "retry" -> status' = "reconnecting" /\ loop' = "decide"
      [] why = "stale" -> UNCHANGED status /\ loop' = "top"
      [] why = "lost"  -> IF desired THEN UNCHANGED status /\ loop' = "wait"
                                     ELSE status' = "disconnected" /\ loop' = "top"

\* _disconnect_current_locked, after the adapter (if any) has been closed, and
\* what the run loop does next.
Closed(why) ==
    CASE why = "ui"    -> status' = "manually_disconnected" /\ loop' = "decide"
      [] why = "retry" -> status' = "reconnecting" /\ loop' = "decide"
      [] why = "stale" -> status' = "reconnecting" /\ loop' = "top"
      [] why = "lost"  -> IF desired THEN status' = "reconnecting" /\ loop' = "wait"
                                     ELSE status' = "disconnected" /\ loop' = "top"

Closing == [ui |-> "close_ui", retry |-> "close_retry", stale |-> "close_stale", lost |-> "close_lost"]

LoopCloses == \E why \in DOMAIN Closing : loop = Closing[why]

Close(why) ==
    IF adapter = "none"
    THEN Closed(why) /\ UNCHANGED adapter
    ELSE adapter' = "none" /\ loop' = Closing[why] /\ UNCHANGED status

\* Mutant: a disconnect command withdraws the wish and leaves the link open.
ConsumeWithoutClosing ==
    /\ loop = "sync"
    /\ \E f \in Readings :
       LET cmd == IF f.seq > lastSeq THEN f.cmd ELSE "none" IN
       /\ Counted(f)
       /\ lastSeq' = IF f.seq > lastSeq THEN f.seq ELSE lastSeq
       /\ desired' = IF cmd \in {"connect", "retry"} THEN TRUE ELSE desired /\ cmd # "disconnect"
       /\ manual' = (cmd = "disconnect")
    /\ loop' = "decide"
    /\ UNCHANGED <<file, todo, hand, presses, forgotten, bounds, torn, status, adapter, lock, stop, api>>

\* The second read of the file: the command slot.
Consume ==
    /\ loop = "sync"
    /\ \E f \in Readings :
       LET cmd == IF f.seq > lastSeq THEN f.cmd ELSE "none" IN
       /\ Counted(f)
       /\ lastSeq' = IF f.seq > lastSeq THEN f.seq ELSE lastSeq
       /\ \/ /\ cmd \in {"none", "connect", "scan"}
             /\ loop' = IF cmd = "scan" THEN "want_scan" ELSE "decide"
             /\ desired' = (desired \/ cmd = "connect")
             /\ manual' = (manual /\ cmd # "connect")
             /\ IF cmd = "scan" THEN Ask("loop") ELSE UNCHANGED lock
             /\ UNCHANGED <<status, adapter>>
          \/ /\ cmd \in {"disconnect", "retry"}
             /\ desired' = (cmd = "retry")
             /\ manual' = (cmd = "disconnect")
             /\ Close(IF cmd = "disconnect" THEN "ui" ELSE "retry")
             /\ UNCHANGED lock
    /\ UNCHANGED <<file, todo, hand, presses, forgotten, bounds, torn, stop, api>>

LoopClosed ==
    /\ \E why \in DOMAIN Closing : At(Closing[why]) /\ Closed(why)
    /\ UNCHANGED <<settings, bounds, torn, desired, manual, adapter, lock, stop, lastSeq, api>>

\* Mutant: the loop connects whether or not it is wanted.
DecideAnyway ==
    /\ loop = "decide"
    /\ loop' = IF adapter = "none" THEN "want_link" ELSE "pump"
    /\ IF loop' = "want_link" THEN Ask("loop") ELSE UNCHANGED lock
    /\ UNCHANGED <<settings, bounds, torn, desired, manual, status, adapter, stop, lastSeq, api>>

Decide ==
    /\ loop = "decide"
    /\ loop' = CASE ~desired                     -> "wait"
                 [] desired /\ adapter = "none"  -> "want_link"
                 [] desired /\ adapter # "none"  -> "pump"
    /\ IF loop' = "want_link" THEN Ask("loop") ELSE UNCHANGED lock
    /\ UNCHANGED <<settings, bounds, torn, desired, manual, status, adapter, stop, lastSeq, api>>

\* _wait_or_wake
Waited ==
    /\ At("wait")
    /\ loop' = "top"
    /\ UNCHANGED <<settings, bounds, torn, desired, manual, status, adapter, lock, stop, lastSeq, api>>

TaskStarts ==
    /\ At("new")
    /\ loop' = "top"
    /\ UNCHANGED <<settings, bounds, torn, desired, manual, status, adapter, lock, stop, lastSeq, api>>

-----------------------------------------------------------------------------
(* The connect cycle: _connect_cycle, _connect_once_locked, _resolve_target_device_locked *)

\* Mutant: the connect cycle does not wait for the operation lock.
ResolveUnlocked ==
    /\ At("want_link")
    /\ loop' = "resolve"
    /\ UNCHANGED <<settings, bounds, torn, desired, manual, status, adapter, lock, stop, lastSeq, api>>

Resolve ==
    /\ At("want_link") /\ lock = "loop"
    /\ loop' = "resolve"
    /\ UNCHANGED <<settings, bounds, torn, desired, manual, status, adapter, lock, stop, lastSeq, api>>

\* The scan finds a device, whose id is stored in the file, or finds none.
Resolved ==
    /\ At("resolve")
    /\ \/ /\ todo' = [todo EXCEPT !["loop"] = <<SetOther>>]
          /\ loop' = "write"
          /\ UNCHANGED status
       \/ /\ loop' = "connecting"
          /\ status' = "connecting"
          /\ UNCHANGED todo
    /\ UNCHANGED <<file, hand, presses, reading, bounds, torn, desired, manual, adapter, lock, stop, lastSeq, api>>

TargetStored ==
    /\ loop = "write" /\ todo["loop"] = <<>>
    /\ loop' = "connecting"
    /\ status' = "connecting"
    /\ UNCHANGED <<settings, bounds, torn, desired, manual, adapter, lock, stop, lastSeq, api>>

\* Connected, subscribing and ready follow each other without a suspension.
Connected ==
    /\ At("connecting")
    /\ adapter' = "live"
    /\ status' = "ready"
    /\ Release("loop")
    /\ loop' = "top"
    /\ UNCHANGED <<settings, bounds, torn, desired, manual, stop, lastSeq, api>>

\* A coroutine is dropped while its thread opens, resets or closes a unit.  The
\* thread goes on, and a unit it opens, or does not get to close, is nobody's.
LinkLeft ==
    \/ UNCHANGED left
    \/ /\ loop = "connecting" \/ LoopCloses
       /\ drops < MaxDrops
       /\ strays' = strays + 1 /\ drops' = drops + 1

\* The thread fails or closes the unit after all, or the unit drops the link.
StrayEnds ==
    /\ strays > 0
    /\ strays' = strays - 1
    /\ UNCHANGED <<settings, process, use, calls, boots, drops, torn>>

\* Mutant: a failed connect keeps the operation lock.
ConnectFailsLocked ==
    /\ \/ (At("resolve") \/ At("connecting")) /\ UNCHANGED settings
       \/ loop = "write" /\ SaveFails("loop")
    /\ LinkLeft
    /\ IF desired THEN status' = "reconnecting" /\ loop' = "wait"
                  ELSE status' = "error" /\ loop' = "top"
    /\ UNCHANGED <<use, calls, boots, torn, desired, manual, adapter, lock, stop, lastSeq, api>>

\* The scan, the write or the connect fails, or the connect takes too long: its
\* adapter is dropped as it is.
ConnectFails ==
    /\ \/ (At("resolve") \/ At("connecting")) /\ UNCHANGED settings
       \/ loop = "write" /\ SaveFails("loop")
    /\ LinkLeft
    /\ Release("loop")
    /\ IF desired THEN status' = "reconnecting" /\ loop' = "wait"
                  ELSE status' = "error" /\ loop' = "top"
    /\ UNCHANGED <<use, calls, boots, torn, desired, manual, adapter, stop, lastSeq, api>>

-----------------------------------------------------------------------------
(* Reading the adapter: _pump_live_events_once *)

\* Mutant: a lost link is not given up.
LostUnnoticed == loop' = "top" /\ UNCHANGED <<status, adapter>>

\* _handle_unexpected_disconnect
Lost ==
    IF manual /\ ~desired
    THEN loop' = "top" /\ UNCHANGED <<status, adapter>>
    ELSE Close("lost")

\* _maybe_mark_stale, where the state and the adapter are now st and ad.
MaybeStale(st, ad) ==
    \/ loop' = "top" /\ status' = st /\ adapter' = ad
    \/ /\ st = "ready"
       /\ IF desired /\ ad # "none"
          THEN loop' = Closing.stale /\ status' = "stale" /\ adapter' = "none"
          ELSE loop' = "top" /\ adapter' = ad
               /\ status' = IF desired THEN "reconnecting" ELSE "stale"

\* An event of the adapter; those still queued come after it was closed too.
\* Its link-health events name no state that _ingest_connection_event takes over.
Event ==
    /\ At("pump") /\ adapter \in {"live", "none"}
    /\ \E telemetry \in BOOLEAN :
         MaybeStale(IF telemetry /\ status = "stale" THEN "ready" ELSE status, adapter)
    /\ UNCHANGED <<settings, bounds, torn, desired, manual, lock, stop, lastSeq, api>>

\* Half a second without an event: wait_for cancels the read, and with it the
\* generator.
Quiet ==
    /\ At("pump") /\ adapter \in {"live", "none"}
    /\ MaybeStale(status, IF adapter = "live" THEN "finished" ELSE "none")
    /\ UNCHANGED <<settings, bounds, torn, desired, manual, lock, stop, lastSeq, api>>

\* The generator raises what its reader raised, or has ended.
StreamEnds ==
    /\ At("pump") /\ adapter # "live"
    /\ Lost
    /\ UNCHANGED <<settings, bounds, torn, desired, manual, lock, stop, lastSeq, api>>

\* A call closes the adapter and the generator asks the reader it cancelled for
\* its exception: that raises CancelledError, which ends the run loop.
LoopPoisoned ==
    /\ At("pump") /\ api.at = "close"
    /\ loop' = "done"
    /\ UNCHANGED <<settings, bounds, torn, desired, manual, status, adapter, lock, stop, lastSeq, api>>

\* The link breaks or stays silent for too long, and the reader raises.
LinkFails ==
    /\ adapter = "live"
    /\ adapter' = "failed"
    /\ UNCHANGED <<settings, bounds, torn, desired, manual, status, lock, stop, lastSeq, loop, api>>

-----------------------------------------------------------------------------
(* scan_devices *)

LoopScans ==
    /\ At("want_scan") /\ lock = "loop"
    /\ IF status \in BusyStates
       THEN loop' = "decide" /\ Release("loop") /\ UNCHANGED status
       ELSE loop' = "scanning" /\ status' = "scanning" /\ UNCHANGED lock
    /\ UNCHANGED <<settings, bounds, torn, desired, manual, adapter, stop, lastSeq, api>>

\* A scan that raises ends in the handler of _run.
LoopScanned ==
    /\ At("scanning")
    /\ Release("loop")
    /\ \/ /\ status' = IF desired THEN status ELSE "disconnected"
          /\ loop' = "decide"
       \/ /\ status' = "error"
          /\ loop' = "wait"
    /\ UNCHANGED <<settings, bounds, torn, desired, manual, adapter, stop, lastSeq, api>>

-----------------------------------------------------------------------------
(* Calls of the API: connect, disconnect, retry_now, scan_devices, shutdown *)

LoopAlive == loop \notin {"none", "done"}

\* "drop" is disconnect(manual=False).
Call ==
    /\ ApiAt("idle")
    /\ Room
    /\ calls' = calls + 1
    /\ \E op \in IF use = "monitor" THEN {"shutdown"} ELSE Calls :
         /\ stop' = (stop \/ op = "shutdown")
         /\ IF op = "shutdown" /\ LoopAlive
            THEN api' = [op |-> op, at |-> "cancel"] /\ UNCHANGED lock
            ELSE ApiAsks(op)
    /\ UNCHANGED <<settings, use, boots, left, torn, desired, manual, status, adapter, lastSeq, loop>>

\* connect, disconnect and retry_now, as far as their writes to the file.
CallWrites(op) ==
    /\ api' = [op |-> op, at |-> "write"]
    /\ desired' = (op \in {"connect", "retry"})
    /\ manual' = (op = "disconnect")
    /\ \E setters \in CASE op = "connect" -> {<<SetDesired(TRUE)>>, <<SetOther, SetDesired(TRUE)>>}
                         [] op = "retry"   -> {<<SetDesired(TRUE), Request("retry")>>}
                         [] OTHER          -> {<<SetDesired(FALSE)>>} :
         todo' = [todo EXCEPT !["api"] = setters]
    /\ UNCHANGED <<status, adapter, lock>>

Finish ==
    /\ api' = [op |-> "none", at |-> IF api.op = "shutdown" /\ use = "monitor" THEN "down" ELSE "idle"]
    /\ Release("api")

CallScans ==
    /\ IF status \in BusyStates
       THEN Finish /\ UNCHANGED status
       ELSE api' = [api EXCEPT !.at = "scanning"] /\ status' = "scanning" /\ UNCHANGED lock
    /\ UNCHANGED <<todo, desired, manual, adapter>>

\* _disconnect_current_locked in a call
CallCloses ==
    IF adapter = "none"
    THEN /\ Finish
         /\ status' = IF api.op = "disconnect" THEN "manually_disconnected" ELSE "disconnected"
         /\ UNCHANGED adapter
    ELSE /\ api' = [api EXCEPT !.at = "close"]
         /\ adapter' = "none"
         /\ status' = IF api.op = "retry" THEN "reconnecting" ELSE status
         /\ UNCHANGED lock

\* _ensure_started_locked
EnsureStarted ==
    /\ loop' = IF LoopAlive THEN loop ELSE "new"
    /\ stop' = (stop /\ LoopAlive)

Enter ==
    /\ api.at = "enter" \/ (ApiAt("want") /\ lock = "api")
    /\ \/ api.op \in {"connect", "disconnect", "drop", "retry"} /\ CallWrites(api.op)
       \/ api.op = "scan" /\ CallScans
       \/ api.op = "shutdown" /\ CallCloses /\ UNCHANGED <<todo, desired, manual>>
    /\ UNCHANGED <<file, hand, presses, reading, bounds, torn, stop, lastSeq, loop>>

Written ==
    /\ api.at = "write" /\ todo["api"] = <<>>
    /\ IF api.op = "connect"
       THEN /\ Finish
            /\ status' = IF status = "manually_disconnected" THEN "disconnected" ELSE status
            /\ UNCHANGED adapter
       ELSE CallCloses
    /\ IF api.op = "connect" \/ (api.op = "retry" /\ adapter = "none")
       THEN EnsureStarted
       ELSE UNCHANGED <<loop, stop>>
    /\ UNCHANGED <<settings, bounds, torn, desired, manual, lastSeq>>

\* The write fails and the call raises, which ends main.py.
WriteFails ==
    /\ api.at = "write" /\ SaveFails("api")
    /\ api' = [op |-> "none", at |-> IF use = "monitor" THEN "down" ELSE "idle"]
    /\ Release("api")
    /\ UNCHANGED <<bounds, torn, desired, manual, status, adapter, stop, lastSeq, loop>>

CallClosed ==
    /\ ApiAt("close")
    /\ status' = IF api.op = "disconnect" THEN "manually_disconnected" ELSE "disconnected"
    /\ Finish
    /\ IF api.op = "retry" THEN EnsureStarted ELSE UNCHANGED <<loop, stop>>
    /\ UNCHANGED <<settings, bounds, torn, desired, manual, adapter, lastSeq>>

\* A scan that raises leaves the call, and the state, as they are.
CallScanned ==
    /\ ApiAt("scanning")
    /\ status' \in {status, IF desired THEN status ELSE "disconnected"}
    /\ Finish
    /\ UNCHANGED <<settings, bounds, torn, desired, manual, adapter, stop, lastSeq, loop>>

\* shutdown cancels the run loop where it is suspended, in a connect too.  While
\* the loop closes an adapter the wait for its reader may swallow the cancellation.
LoopCancelled ==
    /\ ApiAt("cancel")
    /\ api' = [api EXCEPT !.at = "await"]
    /\ \/ /\ loop' = "done"
          /\ adapter' = IF loop = "pump" /\ adapter = "live" THEN "finished" ELSE adapter
          /\ Release("loop")
          /\ LinkLeft
       \/ /\ LoopCloses
          /\ UNCHANGED <<loop, adapter, lock, left>>
    /\ UNCHANGED <<settings, use, calls, boots, torn, desired, manual, status, stop, lastSeq>>

Awaited ==
    /\ ApiAt("await") /\ loop = "done"
    /\ loop' = "none"
    /\ ApiAsks("shutdown")
    /\ UNCHANGED <<settings, bounds, torn, desired, manual, status, adapter, stop, lastSeq>>

-----------------------------------------------------------------------------
(* The process *)

\* The process is killed: what it had loaded is lost, the system drops its links.
Crash ==
    /\ api.at # "down"
    /\ Room
    /\ todo' = [todo EXCEPT !["loop"] = <<>>, !["api"] = <<>>]
    /\ hand' = [hand EXCEPT !["loop"] = NoFile, !["api"] = NoFile]
    /\ adapter' = "none" /\ lock' = "free" /\ loop' = "none"
    /\ api' = [op |-> "none", at |-> "down"]
    /\ strays' = 0
    /\ UNCHANGED <<file, presses, reading, use, calls, boots, drops, torn, desired, manual, status, stop, lastSeq>>

\* A new supervisor, once the process before has ended.  main.py asks it to
\* connect, whatever the file says.
Boot ==
    /\ api.at = "down"
    /\ Room
    /\ boots' = boots + 1
    /\ \E f, g \in Readings :
         /\ desired' = f.desired /\ lastSeq' = g.seq
         /\ Counted(IF f = file THEN g ELSE f)
    /\ strays' = 0
    /\ manual' = FALSE /\ status' = "disconnected" /\ stop' = FALSE
    /\ loop' = "none"
    /\ IF use = "monitor"
       THEN api' = [op |-> "connect", at |-> "enter"] /\ lock' = "api"
       ELSE api' = NoCall /\ lock' = "free"
    /\ UNCHANGED <<file, todo, hand, presses, forgotten, use, calls, drops, torn, adapter>>

WritesOf(w) ==
    \/ Load(w) /\ UNCHANGED <<process, bounds, torn>>
    \/ /\ Save(w)
       /\ torn' = (torn \/ (w \notin Sessions /\ hand[w] # file))
       /\ UNCHANGED <<process, bounds>>

Writes == \E w \in Writers : WritesOf(w)

Pages ==
    /\ \E s \in Sessions : (Room /\ Press(s)) \/ SaveFails(s)
    /\ UNCHANGED <<process, bounds, torn>>

Init ==
    /\ SettingsInit
    /\ use \in Uses
    /\ calls = 0 /\ boots = 0 /\ torn = FALSE /\ strays = 0 /\ drops = 0
    /\ desired = FALSE /\ manual = FALSE /\ status = "disconnected"
    /\ adapter = "none" /\ lock = "free" /\ stop = FALSE
    /\ lastSeq = 0 /\ loop = "none" /\ api = [op |-> "none", at |-> "down"]

LoopStep ==
    \/ TaskStarts \/ Top \/ Consume \/ LoopClosed \/ Decide \/ Waited
    \/ Resolve \/ Resolved \/ TargetStored \/ Connected \/ ConnectFails
    \/ Event \/ Quiet \/ StreamEnds \/ LoopPoisoned \/ LoopScans \/ LoopScanned

CallStep == Enter \/ Written \/ WriteFails \/ CallClosed \/ CallScanned \/ LoopCancelled \/ Awaited

Next == LoopStep \/ CallStep \/ Call \/ Writes \/ Pages \/ LinkFails \/ StrayEnds \/ Boot \/ Crash

\* The event loop runs what can run, in turn: a call that can go on does, though the
\* run loop keeps it waiting between its suspensions.  A page finishes what it
\* began.  Nobody has to press a button, call the API, or start the process.
Fairness ==
    WF_vars(LoopStep) /\ SF_vars(CallStep) /\ \A w \in Writers : WF_vars(WritesOf(w))

Spec == Init /\ [][Next]_vars /\ Fairness

-----------------------------------------------------------------------------
(* Properties *)

TypeOK ==
    /\ SettingsTypeOK
    /\ use \in Uses /\ presses + calls + boots \in 0 .. MaxEvents /\ torn \in BOOLEAN
    /\ strays \in Nat /\ drops \in 0 .. MaxDrops
    /\ desired \in BOOLEAN /\ manual \in BOOLEAN /\ status \in States
    /\ adapter \in {"none", "live", "failed", "finished"}
    /\ lock \in {"free", "loop", "api"} /\ stop \in BOOLEAN /\ lastSeq \in Nat
    /\ api.op \in Calls \cup {"none"}

\* The links at the supervisor's hands: the adapter it uses, one it is opening, one
\* it is closing.
Held ==
    Cardinality({x \in {"used", "opening", "closing", "closing for a call"} :
        \/ x = "used" /\ adapter # "none"
        \/ x = "opening" /\ loop \in {"resolve", "write", "connecting"}
        \/ x = "closing" /\ LoopCloses
        \/ x = "closing for a call" /\ api.at = "close"})

\* There is one link at a time, and one more for every connect or close that was
\* dropped with its thread at work: the loop and the calls never have two at hand.
OneLink == Held + strays <= 1 + drops

\* A status that says connected is about an adapter that is there, except while
\* that adapter is being closed.
StatusTellsTheLink ==
    status \in ConnectedStates =>
        adapter # "none" \/ LoopCloses \/ api.at \in {"close", "down"} \/ api.op = "shutdown"

\* The command slot never falls behind what was read from it, so the next
\* command of a page is read, unless a setter found the file unreadable (main.py's
\* use, one session).
SlotNotBehind == use = "monitor" /\ ~forgotten => lastSeq <= file.seq

Link == INSTANCE ManagedLink WITH
    wanted <- desired \/ (use = "embedded" /\ loop = "want_link"),
    link   <- CASE adapter # "none"                               -> "up"
                [] LoopCloses \/ api.at = "close"                 -> "dropping"
                [] loop \in {"resolve", "write", "connecting"}    -> "trying"
                [] OTHER                                          -> "down"

\* The supervisor is an implementation of the managed link: in main.py's use the
\* wish stands when a connect begins; where other code calls the API too, it stood
\* when the loop asked for the lock.
LinkSpec == Link!Spec

Running == use = "monitor" /\ LoopAlive /\ ~stop

\* A disconnect that a page has left in the slot is obeyed, whatever the loop is
\* doing, unless another command, a write of the process or the defaults replace it.
DisconnectObeyed ==
    Running /\ file.cmd = "disconnect" /\ file.seq > lastSeq
        ~> adapter = "none" \/ file.cmd # "disconnect" \/ torn \/ forgotten \/ ~Running

\* A link that was lost is tried for again while the wish stands (FR-005).
LostLinkRetried ==
    Running /\ adapter = "failed" ~> loop = "resolve" \/ ~desired \/ ~Running

\* Every call of the API returns.
CallsReturn == api.at \notin {"idle", "down"} ~> api.at \in {"idle", "down"}

\* specs/005 data-model.md:93: a ready link that falls silent becomes stale; it is
\* not handled as a link that was lost.
SilenceIsNotLoss ==
    [][adapter = "finished" /\ loop = "pump" => loop' # Closing.lost]_vars

\* specs/005 spec.md:59: a manual disconnect wins over an attempt in progress; no
\* connect begins until the user asks for one.
ManualDisconnectWins ==
    [][manual /\ ~desired /\ loop # "resolve" => loop' # "resolve"]_vars
=============================================================================
