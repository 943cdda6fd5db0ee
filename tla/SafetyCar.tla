----------------------------- MODULE SafetyCar -----------------------------
(***************************************************************************)
(* The safety car of services/race_service.py: the started and ended rows  *)
(* of race_events, and the flag each RaceService instance keeps of them.   *)
(* A page keeps one instance per browser session (race_management.py:52);  *)
(* the dashboard makes a new one for each look, which here is a session    *)
(* that has just restarted.                                                *)
(*                                                                         *)
(* Nothing here takes the lock of the race context, so every SELECT and    *)
(* every COMMIT is a step of its own and the races move in between, as     *)
(* RaceLifecycle lets them.                                                *)
(***************************************************************************)
EXTENDS Integers, Sequences

CONSTANTS
    Race,           \* race ids
    Session,        \* browser sessions, each with its RaceService
    MaxToggles,     \* bound on the toggles that get as far as a time stamp
    MaxFailures     \* bound on database errors

ASSUME SafetyCarAssumption == {MaxToggles, MaxFailures} \subseteq Nat

VARIABLES
    status,         \* races.status
    log,            \* the safety-car rows of race_events, in commit order
    cache,          \* _safety_car_active of each session
    call,           \* what each session's script is doing
    clock,          \* the last time stamp given out
    failures,       \* database errors so far
    deleted         \* ids deleted at least once, which SQLite reuses (history)

vars == <<status, log, cache, call, clock, failures, deleted>>

Lifecycle == INSTANCE RaceLifecycle

\* Mutant: a finished race still counts.
ActiveOrOver == {"running", "paused", "finished"}
Active == {"running", "paused"}

Flag == {"on", "off"}
Opposite(f) == IF f = "on" THEN "off" ELSE "on"

\* payload.active, when it was stamped and by whom; late: the race had
\* ended; blind: the call was told "off" by a database error.
Events == [on : Flag, at : Nat, by : Session, late : BOOLEAN, blind : BOOLEAN]

\* "listed" to "shown" is the page drawing the button; "checked" to "stamped"
\* is set_safety_car after its look at the row.
Idle == [at |-> "idle"]
Calls == {Idle}
    \cup [at : {"listed", "asking"}, race : Race]
    \cup [at : {"shown"}, race : Race, want : Flag]
    \cup [at : {"checked", "comparing"}, race : Race, want : Flag]
    \cup [at : {"stamped"}, race : Race, want : Flag, stamp : Nat, blind : BOOLEAN]

\* Mutant: no row is told as such.
LatestOrNone(r) ==
    IF log[r] = <<>> THEN "none"
    ELSE LET last == CHOOSE i \in DOMAIN log[r] :
                        \A j \in DOMAIN log[r] : log[r][j].at <= log[r][i].at
         IN  log[r][last].on

\* latest_event_type: ordered by the time stamps, not by the commits.
Latest(r) ==
    IF log[r] = <<>> THEN "off"
    ELSE LET last == CHOOSE i \in DOMAIN log[r] :
                        \A j \in DOMAIN log[r] : log[r][j].at <= log[r][i].at
         IN  log[r][last].on

-----------------------------------------------------------------------------
(* is_safety_car_active, asked by the page and by set_safety_car *)

Goto(s, c) == call' = [call EXCEPT ![s] = c]

\* Mutant: a toggle to where the flag already is makes a row.
ToldUncompared(s, f, blind) ==
    LET c == call[s] IN
    IF c.at \in {"listed", "asking"}
    THEN /\ Goto(s, [at |-> "shown", race |-> c.race, want |-> Opposite(f)])
         /\ UNCHANGED clock
    ELSE /\ clock < MaxToggles
         /\ clock' = clock + 1
         /\ Goto(s, [at |-> "stamped", race |-> c.race, want |-> c.want,
                     stamp |-> clock + 1, blind |-> blind])

\* The answer f for a page goes on the button; a toggle compares it.
Told(s, f, blind) ==
    LET c == call[s] IN
    IF c.at \in {"listed", "asking"}
    THEN /\ Goto(s, [at |-> "shown", race |-> c.race, want |-> Opposite(f)])
         /\ UNCHANGED clock
    ELSE IF f = c.want
    THEN Goto(s, Idle) /\ UNCHANGED clock
    ELSE /\ clock < MaxToggles
         /\ clock' = clock + 1
         /\ Goto(s, [at |-> "stamped", race |-> c.race, want |-> c.want,
                     stamp |-> clock + 1, blind |-> blind])

\* The page lists the active races and takes up one of them.
List(s, r) ==
    /\ call[s] = Idle
    /\ status[r] \in Active
    /\ Goto(s, [at |-> "listed", race |-> r])
    /\ UNCHANGED <<status, log, cache, clock, failures, deleted>>

LookInactive(s) ==
    /\ call[s].at \in {"listed", "checked"}
    /\ status[call[s].race] \notin Active
    /\ cache' = [cache EXCEPT ![s][call[s].race] = "unknown"]
    /\ Told(s, "off", FALSE)
    /\ UNCHANGED <<status, log, failures, deleted>>

LookCached(s) ==
    /\ call[s].at \in {"listed", "checked"}
    /\ LET r == call[s].race IN
        /\ status[r] \in Active
        /\ cache[s][r] # "unknown"
        /\ Told(s, cache[s][r], FALSE)
    /\ UNCHANGED <<status, log, cache, failures, deleted>>

LookMissed(s) ==
    /\ call[s].at \in {"listed", "checked"}
    /\ status[call[s].race] \in Active
    /\ cache[s][call[s].race] = "unknown"
    /\ call' = [call EXCEPT ![s].at = IF @ = "listed" THEN "asking" ELSE "comparing"]
    /\ UNCHANGED <<status, log, cache, clock, failures, deleted>>

ReadLog(s) ==
    /\ call[s].at \in {"asking", "comparing"}
    /\ LET r == call[s].race IN
        /\ cache' = [cache EXCEPT ![s][r] = Latest(r)]
        /\ Told(s, Latest(r), FALSE)
    /\ UNCHANGED <<status, log, failures, deleted>>

\* SQLAlchemyError: the answer is "off", and nothing is cached.
ReadFails(s) ==
    /\ call[s].at \in {"listed", "asking", "checked", "comparing"}
    /\ failures < MaxFailures
    /\ failures' = failures + 1
    /\ Told(s, "off", TRUE)
    /\ UNCHANGED <<status, log, cache, deleted>>

-----------------------------------------------------------------------------
(* set_safety_car *)

NoClick(s) ==
    /\ call[s].at = "shown"
    /\ Goto(s, Idle)
    /\ UNCHANGED <<status, log, cache, clock, failures, deleted>>

\* The click, and the look at the row: refused unless the race is active.
Click(s) ==
    /\ call[s].at = "shown"
    /\ Goto(s, IF status[call[s].race] \in Active
               THEN [call[s] EXCEPT !.at = "checked"] ELSE Idle)
    /\ UNCHANGED <<status, log, cache, clock, failures, deleted>>

Entry(s) == LET c == call[s] IN
    [on |-> c.want, at |-> c.stamp, by |-> s,
     late |-> status[c.race] \in Lifecycle!Terminal, blind |-> c.blind]

\* The row is inserted whatever the status is by now; without a race its
\* foreign key is refused and the call raises.
Store(s) ==
    /\ call[s].at = "stamped"
    /\ LET r == call[s].race IN
        IF status[r] = "absent" THEN UNCHANGED <<log, cache>>
        ELSE /\ log' = [log EXCEPT ![r] = Append(@, Entry(s))]
             /\ cache' = [cache EXCEPT ![s][r] = call[s].want]
    /\ Goto(s, Idle)
    /\ UNCHANGED <<status, clock, failures, deleted>>

\* Mutant: the flag is set before the row is committed.
StoreFailsCached(s) ==
    /\ call[s].at = "stamped"
    /\ failures < MaxFailures
    /\ failures' = failures + 1
    /\ cache' = [cache EXCEPT ![s][call[s].race] = call[s].want]
    /\ Goto(s, Idle)
    /\ UNCHANGED <<status, log, clock, deleted>>

StoreFails(s) ==
    /\ call[s].at = "stamped"
    /\ failures < MaxFailures
    /\ failures' = failures + 1
    /\ Goto(s, Idle)
    /\ UNCHANGED <<status, log, cache, clock, deleted>>

-----------------------------------------------------------------------------
(* The races around it *)

\* finish_race or cancel_race called by a session drops its own flag.
EndBy(s, r) ==
    /\ call[s] = Idle
    /\ Lifecycle!Finish(r) \/ Lifecycle!Cancel(r)
    /\ cache' = [cache EXCEPT ![s][r] = "unknown"]
    /\ UNCHANGED <<log, call, clock, failures, deleted>>

\* Every other transition, and those of the telemetry process.
Move(r) ==
    /\ \/ Lifecycle!Create(r) \/ Lifecycle!MarkReady(r) \/ Lifecycle!Start(r)
       \/ Lifecycle!Pause(r) \/ Lifecycle!Resume(r) \/ Lifecycle!Finish(r)
       \/ Lifecycle!Cancel(r)
    /\ UNCHANGED <<log, cache, call, clock, failures, deleted>>

\* The rows of the race go with it (ON DELETE CASCADE), the flags stay.
Delete(r) ==
    /\ Lifecycle!Delete(r)
    /\ log' = [log EXCEPT ![r] = <<>>]
    /\ deleted' = deleted \cup {r}
    /\ UNCHANGED <<cache, call, clock, failures>>

\* A new browser session, or a new process, in the place of this one.
Restart(s) ==
    /\ call' = [call EXCEPT ![s] = Idle]
    /\ cache' = [cache EXCEPT ![s] = [r \in Race |-> "unknown"]]
    /\ UNCHANGED <<status, log, clock, failures, deleted>>

Init ==
    /\ Lifecycle!Init
    /\ log = [r \in Race |-> <<>>]
    /\ cache = [s \in Session |-> [r \in Race |-> "unknown"]]
    /\ call = [s \in Session |-> Idle]
    /\ clock = 0 /\ failures = 0 /\ deleted = {}

Next ==
    \/ \E s \in Session :
        \/ LookInactive(s) \/ LookCached(s) \/ LookMissed(s)
        \/ ReadLog(s) \/ ReadFails(s)
        \/ NoClick(s) \/ Click(s) \/ Store(s) \/ StoreFails(s) \/ Restart(s)
        \/ \E r \in Race : List(s, r) \/ EndBy(s, r)
    \/ \E r \in Race : Move(r) \/ Delete(r)

Spec == Init /\ [][Next]_vars

-----------------------------------------------------------------------------
(* Properties.  All speak of ids that were never deleted: a session that has *)
(* set the flag of a deleted race shows it for the next race of that id.     *)

TypeOK ==
    /\ status \in [Race -> Lifecycle!Status \cup {"absent"}]
    /\ log \in [Race -> Seq(Events)]
    /\ cache \in [Session -> [Race -> Flag \cup {"unknown"}]]
    /\ call \in [Session -> Calls]
    /\ clock \in 0 .. MaxToggles /\ failures \in 0 .. MaxFailures
    /\ deleted \subseteq Race

\* The look at the status and the row are two steps, so a race that has ended
\* can get a row, but no session adds a second one to it (set_safety_car,
\* FR-214: lines 308-313 against the commit of line 328).
OneLateRowEach ==
    \A r \in Race \ deleted : \A i, j \in DOMAIN log[r] :
        /\ log[r][i].late /\ log[r][j].late
        /\ log[r][i].by = log[r][j].by
        => i = j

\* As long as one session alone has toggled, the rows alternate, beginning
\* with a started one, through restarts, other readers and refused commits:
\* one row per change (FR-212, FR-213).  Only a failed read, or an end of the
\* race, inside the call tells it "off" and can make it repeat a row.
LoneSessionAlternates ==
    \A r \in Race \ deleted : \A i \in DOMAIN log[r] :
        (\A j \in 1 .. i : log[r][j].by = log[r][i].by) =>
            \/ log[r][i].blind \/ log[r][i].late
            \/ log[r][i].on = IF i = 1 THEN "on" ELSE Opposite(log[r][i - 1].on)

\* A flag is never older than the session's own last toggle, and is on only
\* if a started row says so: refused commits, failed reads and rows that are
\* committed out of the order of their stamps make no phase of their own
\* (lines 336 and 373).
FlagHasItsRow ==
    \A s \in Session, r \in Race \ deleted :
        LET own == {i \in DOMAIN log[r] : log[r][i].by = s} IN
        \/ cache[s][r] = "unknown"
        \/ cache[s][r] = "off" /\ own = {}
        \/ \E i \in DOMAIN log[r] :
              /\ log[r][i].on = cache[s][r]
              /\ \A j \in own : log[r][j].at <= log[r][i].at
=============================================================================
