-------------------------- MODULE SafetyCarProofs --------------------------
(***************************************************************************)
(* The safety-car rows and the flags of the sessions, for any number of    *)
(* races, sessions, toggles and failures.                                  *)
(***************************************************************************)
EXTENDS SafetyCar, TLAPS

-----------------------------------------------------------------------------
(* Types *)

LEMMA TypeInit == Init => TypeOK
BY SafetyCarAssumption DEF Init, TypeOK, Lifecycle!Init, Calls, Idle

LEMMA StatusTyped ==
    ASSUME TypeOK, NEW r \in Race,
           \/ Lifecycle!Create(r) \/ Lifecycle!MarkReady(r) \/ Lifecycle!Start(r)
           \/ Lifecycle!Pause(r) \/ Lifecycle!Resume(r) \/ Lifecycle!Finish(r)
           \/ Lifecycle!Cancel(r) \/ Lifecycle!Delete(r)
    PROVE  status' \in [Race -> Lifecycle!Status \cup {"absent"}]
BY DEF TypeOK, Lifecycle!Create, Lifecycle!MarkReady, Lifecycle!Start, Lifecycle!Pause,
       Lifecycle!Resume, Lifecycle!Finish, Lifecycle!Cancel, Lifecycle!Delete,
       Lifecycle!Become, Lifecycle!Status

LEMMA CallShape ==
    ASSUME NEW c \in Calls
    PROVE  /\ c.at \in {"listed", "asking"} => c \in [at : {"listed", "asking"}, race : Race]
           /\ c.at = "shown" => c \in [at : {"shown"}, race : Race, want : Flag]
           /\ c.at \in {"checked", "comparing"} =>
                 c \in [at : {"checked", "comparing"}, race : Race, want : Flag]
<1>1. CASE c = Idle
  BY <1>1 DEF Idle
<1>2. CASE c \in [at : {"listed", "asking"}, race : Race]
  BY <1>2
<1>3. CASE c \in [at : {"shown"}, race : Race, want : Flag]
  BY <1>3
<1>4. CASE c \in [at : {"checked", "comparing"}, race : Race, want : Flag]
  BY <1>4
<1>5. CASE c \in [at : {"stamped"}, race : Race, want : Flag, stamp : Nat, blind : BOOLEAN]
  BY <1>5
<1> QED
  BY <1>1, <1>2, <1>3, <1>4, <1>5 DEF Calls

\* A call under way is about a race.
LEMMA CallOf ==
    ASSUME TypeOK, NEW s \in Session
    PROVE  /\ call[s].at \notin {"idle"} => call[s].race \in Race
           /\ call[s].at \in {"shown", "checked", "comparing", "stamped"} => call[s].want \in Flag
           /\ call[s].at = "stamped" => call[s].stamp \in Nat /\ call[s].blind \in BOOLEAN
           /\ call[s] # Idle => call[s].at # "idle"
BY DEF TypeOK, Calls, Idle, Flag

\* What an answer makes of the call.
LEMMA ToldTyped ==
    ASSUME TypeOK, NEW s \in Session, NEW f \in Flag, NEW b \in BOOLEAN,
           call[s].at \in {"listed", "asking", "checked", "comparing"}, Told(s, f, b)
    PROVE  /\ call' \in [Session -> Calls]
           /\ clock' \in 0 .. MaxToggles
<1> DEFINE c == call[s]
<1>1. c.race \in Race /\ (c.at \in {"checked", "comparing"} => c.want \in Flag)
  BY CallOf
<1>2. CASE c.at \in {"listed", "asking"}
  <2>1. [at |-> "shown", race |-> c.race, want |-> Opposite(f)] \in Calls
    BY <1>1 DEF Calls, Opposite, Flag
  <2> QED
    BY <1>2, <2>1 DEF Told, Goto, TypeOK
<1>3. CASE c.at \notin {"listed", "asking"} /\ f = c.want
  BY <1>3 DEF Told, Goto, TypeOK, Calls
<1>4. CASE c.at \notin {"listed", "asking"} /\ f # c.want
  <2>1. [at |-> "stamped", race |-> c.race, want |-> c.want,
         stamp |-> clock + 1, blind |-> b] \in Calls
    BY <1>1, <1>4, SafetyCarAssumption DEF Calls, TypeOK
  <2>2. clock' \in 0 .. MaxToggles
    BY <1>4, SafetyCarAssumption DEF Told, TypeOK
  <2>3. call' = [call EXCEPT ![s] = [at |-> "stamped", race |-> c.race, want |-> c.want,
                                    stamp |-> clock + 1, blind |-> b]]
    BY <1>4 DEF Told, Goto
  <2> QED
    BY <2>1, <2>2, <2>3 DEF TypeOK
<1> QED
  BY <1>2, <1>3, <1>4

\* Latest is a row with the greatest stamp, where there is one.
HasLatest(r) ==
    log[r] # <<>> =>
        \E i \in DOMAIN log[r] : \A j \in DOMAIN log[r] : log[r][j].at <= log[r][i].at

LEMMA LatestRow ==
    ASSUME NEW r \in Race, HasLatest(r), log[r] # <<>>
    PROVE  \E i \in DOMAIN log[r] :
              /\ Latest(r) = log[r][i].on
              /\ \A j \in DOMAIN log[r] : log[r][j].at <= log[r][i].at
<1> DEFINE last == CHOOSE i \in DOMAIN log[r] :
                       \A j \in DOMAIN log[r] : log[r][j].at <= log[r][i].at
<1>1. last \in DOMAIN log[r] /\ \A j \in DOMAIN log[r] : log[r][j].at <= log[r][last].at
  BY DEF HasLatest
<1>2. Latest(r) = log[r][last].on
  BY DEF Latest
<1> QED
  BY <1>1, <1>2

LEMMA LatestTyped ==
    ASSUME TypeOK, NEW r \in Race, HasLatest(r)
    PROVE  Latest(r) \in Flag
<1>1. CASE log[r] = <<>>
  BY <1>1 DEF Latest, Flag
<1>2. CASE log[r] # <<>>
  <2>1. PICK i \in DOMAIN log[r] : Latest(r) = log[r][i].on
    BY <1>2, LatestRow
  <2>2. log[r] \in Seq(Events)
    BY DEF TypeOK
  <2>3. log[r][i] \in Events
    BY <2>1, <2>2
  <2> QED
    BY <2>1, <2>3 DEF Events
<1> QED
  BY <1>1, <1>2

Typed == TypeOK /\ \A r \in Race : HasLatest(r)

LEMMA AppendLatest ==
    ASSUME NEW q \in Seq(Events), NEW e \in Events,
           q # <<>> => \E i \in DOMAIN q : \A j \in DOMAIN q : q[j].at <= q[i].at
    PROVE  \E i \in DOMAIN Append(q, e) :
              \A j \in DOMAIN Append(q, e) : Append(q, e)[j].at <= Append(q, e)[i].at
<1> DEFINE a == Append(q, e)
           n == Len(q)
<1>1. /\ DOMAIN a = 1 .. n + 1 /\ a[n + 1] = e /\ n \in Nat /\ DOMAIN q = 1 .. n
      /\ \A k \in 1 .. n : a[k] = q[k] /\ q[k] \in Events
  OBVIOUS
<1>2. \A k \in 1 .. n + 1 : a[k] \in Events
  BY <1>1
<1>3. \A k \in 1 .. n + 1 : a[k].at \in Nat
  BY <1>2 DEF Events
<1>4. CASE q = <<>>
  <2>1. n = 0
    BY <1>4
  <2>2. n + 1 \in DOMAIN a /\ \A j \in DOMAIN a : a[j].at <= a[n + 1].at
    BY <2>1, <1>1, <1>3
  <2> QED
    BY <2>2
<1>5. CASE q # <<>>
  <2>1. PICK i \in 1 .. n : \A j \in 1 .. n : q[j].at <= q[i].at
    BY <1>5, <1>1
  <2>2. \A j \in 1 .. n : a[j].at <= a[i].at
    BY <2>1, <1>1
  <2>3. CASE a[i].at <= e.at
    <3>1. n + 1 \in DOMAIN a /\ \A j \in DOMAIN a : a[j].at <= a[n + 1].at
      BY <2>1, <2>2, <2>3, <1>1, <1>3
    <3> QED
      BY <3>1
  <2>4. CASE ~(a[i].at <= e.at)
    <3>0. a[n + 1].at <= a[i].at
      BY <2>1, <2>4, <1>1, <1>3
    <3>1. i \in DOMAIN a /\ \A j \in DOMAIN a : a[j].at <= a[i].at
      BY <2>1, <2>2, <3>0, <1>1
    <3> QED
      BY <3>1
  <2> QED
    BY <2>3, <2>4
<1> QED
  BY <1>4, <1>5

LEMMA EntryTyped ==
    ASSUME TypeOK, NEW s \in Session, call[s].at = "stamped"
    PROVE  Entry(s) \in Events
<1>1. call[s].want \in Flag /\ call[s].stamp \in Nat /\ call[s].blind \in BOOLEAN
  BY CallOf
<1> QED
  BY <1>1 DEF Entry, Events

LEMMA TypedInit == Init => Typed
BY TypeInit DEF Typed, HasLatest, Init

LEMMA TypedStep == Typed /\ [Next]_vars => Typed'
<1> SUFFICES ASSUME Typed, [Next]_vars PROVE Typed'
  OBVIOUS
<1> USE DEF Typed
<1>1. CASE UNCHANGED vars
  BY <1>1 DEF vars, TypeOK, HasLatest, Latest
<1>2. ASSUME NEW s \in Session, LookInactive(s) \/ LookCached(s) \/ LookMissed(s)
      PROVE Typed'
  <2>1. call[s].race \in Race
    BY <1>2, CallOf DEF LookInactive, LookCached, LookMissed
  <2>2. CASE LookInactive(s)
    <3>1. call' \in [Session -> Calls] /\ clock' \in 0 .. MaxToggles
      BY <2>2, ToldTyped DEF LookInactive, Flag
    <3> QED
      BY <2>1, <2>2, <3>1 DEF LookInactive, TypeOK, HasLatest
  <2>3. CASE LookCached(s)
    <3>0. cache[s][call[s].race] \in Flag
      BY <2>1, <2>3 DEF LookCached, TypeOK
    <3>1. call' \in [Session -> Calls] /\ clock' \in 0 .. MaxToggles
      BY <2>3, <3>0, ToldTyped DEF LookCached
    <3> QED
      BY <2>3, <3>1 DEF LookCached, TypeOK, HasLatest
  <2>4. CASE LookMissed(s)
    <3> DEFINE asks == [call[s] EXCEPT !.at = IF @ = "listed" THEN "asking" ELSE "comparing"]
    <3>0. ASSUME call[s].at = "listed" PROVE asks \in Calls
      <4>1. call[s] \in [at : {"listed", "asking"}, race : Race]
        BY <3>0, CallShape DEF TypeOK
      <4> QED
        BY <3>0, <4>1 DEF Calls
    <3>a. ASSUME call[s].at = "checked" PROVE asks \in Calls
      <4>1. call[s] \in [at : {"checked", "comparing"}, race : Race, want : Flag]
        BY <3>a, CallShape DEF TypeOK
      <4> QED
        BY <3>a, <4>1 DEF Calls
    <3>1. [call[s] EXCEPT !.at = IF @ = "listed" THEN "asking" ELSE "comparing"] \in Calls
      BY <2>4, <3>0, <3>a DEF LookMissed
    <3>2. call' \in [Session -> Calls]
      BY <2>4, <3>1 DEF LookMissed, TypeOK
    <3> QED
      BY <2>4, <3>2 DEF LookMissed, TypeOK, HasLatest
  <2> QED
    BY <1>2, <2>2, <2>3, <2>4
<1>3. ASSUME NEW s \in Session, ReadLog(s) PROVE Typed'
  <2>1. call[s].race \in Race
    BY <1>3, CallOf DEF ReadLog
  <2>2. Latest(call[s].race) \in Flag
    BY <2>1, LatestTyped
  <2>3. call' \in [Session -> Calls] /\ clock' \in 0 .. MaxToggles
    BY <1>3, <2>2, ToldTyped DEF ReadLog
  <2> QED
    BY <1>3, <2>1, <2>2, <2>3 DEF ReadLog, TypeOK, HasLatest
<1>4. ASSUME NEW s \in Session, ReadFails(s) PROVE Typed'
  <2>1. call' \in [Session -> Calls] /\ clock' \in 0 .. MaxToggles
    BY <1>4, ToldTyped DEF ReadFails, Flag
  <2>2. failures' \in 0 .. MaxFailures
    BY <1>4, SafetyCarAssumption DEF ReadFails, TypeOK
  <2> QED
    BY <1>4, <2>1, <2>2 DEF ReadFails, TypeOK, HasLatest
<1>5. ASSUME NEW s \in Session, NoClick(s) \/ Click(s) PROVE Typed'
  <2>0. call[s] \in [at : {"shown"}, race : Race, want : Flag]
    BY <1>5, CallShape DEF NoClick, Click, TypeOK
  <2>1. [call[s] EXCEPT !.at = "checked"] \in Calls
    BY <2>0 DEF Calls
  <2>2. call' \in [Session -> Calls]
    BY <1>5, <2>1 DEF NoClick, Click, Goto, TypeOK, Calls
  <2> QED
    BY <1>5, <2>2 DEF NoClick, Click, TypeOK, HasLatest
<1>6. ASSUME NEW s \in Session, Store(s) PROVE Typed'
  <2>0. PICK r \in Race : r = call[s].race
    BY <1>6, CallOf DEF Store
  <2>1. r \in Race /\ call[s].want \in Flag
    BY <1>6, CallOf DEF Store
  <2>2. call' \in [Session -> Calls]
    BY <1>6 DEF Store, Goto, TypeOK, Calls
  <2>3. CASE status[r] = "absent"
    BY <1>6, <2>0, <2>2, <2>3 DEF Store, TypeOK, HasLatest
  <2>4. CASE status[r] # "absent"
    <3>1. log' = [log EXCEPT ![r] = Append(@, Entry(s))]
      BY <1>6, <2>0, <2>4 DEF Store
    <3>2. Entry(s) \in Events
      BY <1>6, EntryTyped DEF Store
    <3>3. log' \in [Race -> Seq(Events)] /\ log'[r] = Append(log[r], Entry(s))
          /\ \A q \in Race \ {r} : log'[q] = log[q]
      BY <2>1, <3>1, <3>2 DEF TypeOK
    <3>4. HasLatest(r)'
      <4>1. log[r] \in Seq(Events)
        BY DEF TypeOK
      <4>2. \E i \in DOMAIN Append(log[r], Entry(s)) : \A j \in DOMAIN Append(log[r], Entry(s)) :
                Append(log[r], Entry(s))[j].at <= Append(log[r], Entry(s))[i].at
        BY <3>2, <4>1, AppendLatest DEF HasLatest
      <4> QED
        BY <3>3, <4>2 DEF HasLatest
    <3>5. \A q \in Race : HasLatest(q)'
      BY <3>3, <3>4 DEF HasLatest
    <3>6. cache' \in [Session -> [Race -> Flag \cup {"unknown"}]]
      <4>1. cache' = [cache EXCEPT ![s][r] = call[s].want]
        BY <1>6, <2>0, <2>4 DEF Store
      <4> QED
        BY <2>1, <4>1 DEF TypeOK
    <3> QED
      BY <1>6, <2>2, <3>3, <3>5, <3>6 DEF Store, TypeOK
  <2> QED
    BY <2>3, <2>4
<1>7. ASSUME NEW s \in Session, StoreFails(s) PROVE Typed'
  BY <1>7, SafetyCarAssumption DEF StoreFails, Goto, TypeOK, Calls, HasLatest
<1>8. ASSUME NEW s \in Session, Restart(s) PROVE Typed'
  BY <1>8 DEF Restart, TypeOK, Calls, HasLatest
<1>9. ASSUME NEW s \in Session, NEW r \in Race, List(s, r) PROVE Typed'
  BY <1>9 DEF List, Goto, TypeOK, Calls, HasLatest
<1>10. ASSUME NEW s \in Session, NEW r \in Race, EndBy(s, r) PROVE Typed'
  BY <1>10, StatusTyped DEF EndBy, TypeOK, HasLatest
<1>11. ASSUME NEW r \in Race, Move(r) PROVE Typed'
  BY <1>11, StatusTyped DEF Move, TypeOK, HasLatest
<1>12. ASSUME NEW r \in Race, Delete(r) PROVE Typed'
  BY <1>12, StatusTyped DEF Delete, TypeOK, HasLatest
<1> QED
  BY <1>1, <1>2, <1>3, <1>4, <1>5, <1>6, <1>7, <1>8, <1>9, <1>10, <1>11, <1>12 DEF Next

LEMMA AlwaysTyped == Spec => []Typed
BY TypedInit, TypedStep, PTL DEF Spec

\* Every call of a session is whole wherever it stands, a flag in the cache is one
\* that was set, and the clock keeps within its bound (race_service.py,
\* set_safety_car; race_repository.py, get_latest_safety_car_event).
THEOREM TypeCorrect == Spec => []TypeOK
BY AlwaysTyped, PTL DEF Typed

-----------------------------------------------------------------------------
(* What the steps leave alone *)

\* Session s is past its look at the status of r.
Toggling(s, r) == call[s].at \in {"checked", "comparing", "stamped"} /\ call[s].race = r

\* An answer moves no call but the asker's, and that one not to another race.
LEMMA ToldMoves ==
    ASSUME TypeOK, NEW s \in Session, NEW f, NEW b, NEW r \in Race,
           call[s].at \in {"listed", "asking", "checked", "comparing"}, Told(s, f, b)
    PROVE  /\ \A t \in Session \ {s} : call'[t] = call[t]
           /\ Toggling(s, r)' => Toggling(s, r)
BY DEF Told, Goto, Toggling, TypeOK, Idle

\* Every step either stores a row, or deletes a race, or adds no row and takes no
\* session past a look at a race that has ended; what has ended remains so.
LEMMA Quiet ==
    ASSUME Typed, [Next]_vars, NEW r \in Race \ deleted'
    PROVE  \/ \E s \in Session : Store(s)
           \/ /\ log'[r] = log[r]
              /\ status[r] \in Lifecycle!Terminal =>
                    /\ status'[r] = status[r]
                    /\ \A s \in Session : Toggling(s, r)' => Toggling(s, r)
<1> SUFFICES ASSUME ~ \E s \in Session : Store(s)
             PROVE  /\ log'[r] = log[r]
                    /\ status[r] \in Lifecycle!Terminal =>
                          /\ status'[r] = status[r]
                          /\ \A s \in Session : Toggling(s, r)' => Toggling(s, r)
  OBVIOUS
<1> USE DEF Typed
<1> DEFINE Kept == /\ log'[r] = log[r]
                   /\ status[r] \in Lifecycle!Terminal =>
                         /\ status'[r] = status[r]
                         /\ \A s \in Session : Toggling(s, r)' => Toggling(s, r)
<1>1. CASE UNCHANGED vars
  BY <1>1 DEF vars, Toggling
<1>2. ASSUME NEW s \in Session,
             LookInactive(s) \/ LookCached(s) \/ ReadLog(s) \/ ReadFails(s)
      PROVE  /\ log'[r] = log[r] /\ status'[r] = status[r]
             /\ \A t \in Session : Toggling(t, r)' => Toggling(t, r)
  <2>1. /\ \A t \in Session \ {s} : call'[t] = call[t]
        /\ Toggling(s, r)' => Toggling(s, r)
    BY <1>2, ToldMoves DEF LookInactive, LookCached, ReadLog, ReadFails
  <2>2. log' = log /\ status' = status
    BY <1>2 DEF LookInactive, LookCached, ReadLog, ReadFails
  <2> QED
    BY <2>1, <2>2 DEF Toggling
<1>3. ASSUME NEW s \in Session, LookMissed(s) \/ NoClick(s) \/ StoreFails(s) \/ Restart(s)
      PROVE  /\ log'[r] = log[r] /\ status'[r] = status[r]
             /\ \A t \in Session : Toggling(t, r)' => Toggling(t, r)
  <2>1. CASE LookMissed(s)
    BY <2>1 DEF LookMissed, Toggling, TypeOK
  <2>2. CASE NoClick(s) \/ StoreFails(s) \/ Restart(s)
    BY <2>2 DEF NoClick, StoreFails, Restart, Goto, Toggling, TypeOK, Idle
  <2> QED
    BY <1>3, <2>1, <2>2
<1>4. ASSUME NEW s \in Session, Click(s)
      PROVE  /\ log'[r] = log[r] /\ status'[r] = status[r]
             /\ status[r] \in Lifecycle!Terminal =>
                   \A t \in Session : Toggling(t, r)' => Toggling(t, r)
  BY <1>4 DEF Click, Goto, Toggling, TypeOK, Idle, Active, Lifecycle!Terminal
<1>5. ASSUME NEW s \in Session, NEW q \in Race, List(s, q)
      PROVE  /\ log'[r] = log[r] /\ status'[r] = status[r]
             /\ \A t \in Session : Toggling(t, r)' => Toggling(t, r)
  BY <1>5 DEF List, Goto, Toggling, TypeOK
<1>6. ASSUME NEW s \in Session, NEW q \in Race, EndBy(s, q)
      PROVE  /\ log'[r] = log[r] /\ call' = call
             /\ status[r] \in Lifecycle!Terminal => status'[r] = status[r]
  BY <1>6 DEF EndBy, TypeOK, Lifecycle!Finish, Lifecycle!Cancel, Lifecycle!Become,
       Lifecycle!Terminal
<1>7. ASSUME NEW q \in Race, Delete(q)
      PROVE  /\ log'[r] = log[r] /\ status'[r] = status[r] /\ call' = call
  BY <1>7 DEF Delete, TypeOK, Lifecycle!Delete, Lifecycle!Become
<1>8. (\E s \in Session : \/ LookInactive(s) \/ LookCached(s) \/ LookMissed(s)
                           \/ ReadLog(s) \/ ReadFails(s) \/ NoClick(s) \/ Click(s)
                           \/ StoreFails(s) \/ Restart(s)
                           \/ \E q \in Race : List(s, q)) => Kept
  BY <1>2, <1>3, <1>4, <1>5
<1>a. call' = call => \A s \in Session : Toggling(s, r)' => Toggling(s, r)
  BY DEF Toggling
<1>b. ASSUME NEW s \in Session, NEW q \in Race, EndBy(s, q) PROVE Kept
  BY <1>6, <1>a, <1>b
<1>c. ASSUME NEW q \in Race, Delete(q) PROVE Kept
  BY <1>7, <1>a, <1>c
<1>d. ASSUME NEW q \in Race, Move(q) PROVE Kept
  <2>1. log'[r] = log[r] /\ call' = call
    BY <1>d DEF Move
  <2>2. status[r] \in Lifecycle!Terminal => status'[r] = status[r]
    BY <1>d DEF Move, TypeOK, Lifecycle!Create, Lifecycle!MarkReady, Lifecycle!Start,
         Lifecycle!Pause, Lifecycle!Resume, Lifecycle!Finish, Lifecycle!Cancel,
         Lifecycle!Become, Lifecycle!Terminal
  <2> QED
    BY <2>1, <2>2, <1>a
<1>9. (\E q \in Race : Delete(q) \/ Move(q) \/ \E s \in Session : EndBy(s, q)) => Kept
  BY <1>b, <1>c, <1>d
<1>10. UNCHANGED vars => Kept
  BY <1>1
<1> QED
  BY <1>8, <1>9, <1>10 DEF Next

\* What Store does to the rows of a race that is not gone.
LEMMA Stored ==
    ASSUME Typed, NEW s \in Session, Store(s), NEW r \in Race
    PROVE  /\ status' = status /\ deleted' = deleted /\ clock' = clock
           /\ call' = [call EXCEPT ![s] = Idle]
           /\ \/ log'[r] = log[r] /\ \A t \in Session : cache'[t][r] = cache[t][r]
              \/ /\ r = call[s].race /\ Entry(s) \in Events
                 /\ Len(log'[r]) = Len(log[r]) + 1
                 /\ DOMAIN log'[r] = 1 .. Len(log[r]) + 1
                 /\ \A i \in DOMAIN log[r] : log'[r][i] = log[r][i]
                 /\ log'[r][Len(log[r]) + 1] = Entry(s)
                 /\ cache'[s][r] = call[s].want
                 /\ \A t \in Session \ {s} : cache'[t][r] = cache[t][r]
<1> USE DEF Typed
<1>0. PICK q \in Race : q = call[s].race
  BY CallOf DEF Store
<1>a. /\ status' = status /\ deleted' = deleted /\ clock' = clock
      /\ call' = [call EXCEPT ![s] = Idle]
  BY DEF Store, Goto
<1>1. CASE status[q] = "absent"
  BY <1>0, <1>1, <1>a DEF Store
<1>b. CASE q # r /\ status[q] # "absent"
  <2>1. log' = [log EXCEPT ![q] = Append(@, Entry(s))]
        /\ cache' = [cache EXCEPT ![s][q] = call[s].want]
    BY <1>0, <1>b DEF Store
  <2>2. log'[r] = log[r] /\ \A t \in Session : cache'[t][r] = cache[t][r]
    BY <1>b, <2>1 DEF TypeOK
  <2> QED
    BY <1>a, <2>2
<1>2. CASE q = r /\ status[q] # "absent"
  <2>1. log' = [log EXCEPT ![r] = Append(@, Entry(s))]
        /\ cache' = [cache EXCEPT ![s][r] = call[s].want]
    BY <1>0, <1>2 DEF Store
  <2>2. Entry(s) \in Events /\ log[r] \in Seq(Events)
    BY EntryTyped DEF Store, TypeOK
  <2>3. log'[r] = Append(log[r], Entry(s))
    BY <2>1 DEF TypeOK
  <2>4. /\ cache'[s][r] = call[s].want
        /\ \A t \in Session \ {s} : cache'[t][r] = cache[t][r]
    BY <2>1 DEF TypeOK
  <2> QED
    BY <1>0, <1>2, <1>a, <2>2, <2>3, <2>4
<1> QED
  BY <1>1, <1>2, <1>b

-----------------------------------------------------------------------------
(* Rows of a race that has ended *)

LateInv ==
    \A r \in Race \ deleted :
        /\ \A i \in DOMAIN log[r] : log[r][i].late =>
              /\ status[r] \in Lifecycle!Terminal
              /\ ~Toggling(log[r][i].by, r)
        /\ \A i, j \in DOMAIN log[r] :
              log[r][i].late /\ log[r][j].late /\ log[r][i].by = log[r][j].by => i = j

LEMMA LateStep == Typed /\ LateInv /\ [Next]_vars => LateInv'
<1> SUFFICES ASSUME Typed, LateInv, [Next]_vars, NEW r \in Race \ deleted'
             PROVE  /\ \A i \in DOMAIN log'[r] : log'[r][i].late =>
                          /\ status'[r] \in Lifecycle!Terminal
                          /\ ~(/\ call'[log'[r][i].by].at \in {"checked", "comparing", "stamped"}
                               /\ call'[log'[r][i].by].race = r)
                    /\ \A i, j \in DOMAIN log'[r] :
                          log'[r][i].late /\ log'[r][j].late /\ log'[r][i].by = log'[r][j].by => i = j
  BY DEF LateInv, Toggling
<1> DEFINE Late ==
        /\ \A i \in DOMAIN log'[r] : log'[r][i].late =>
              /\ status'[r] \in Lifecycle!Terminal
              /\ ~(/\ call'[log'[r][i].by].at \in {"checked", "comparing", "stamped"}
                   /\ call'[log'[r][i].by].race = r)
        /\ \A i, j \in DOMAIN log'[r] :
              log'[r][i].late /\ log'[r][j].late /\ log'[r][i].by = log'[r][j].by => i = j
<1>1. r \notin deleted
  BY DEF Next, vars, LookInactive, LookCached, LookMissed, ReadLog, ReadFails, NoClick,
         Click, Store, StoreFails, Restart, List, EndBy, Move, Delete
<1>0. /\ log[r] \in Seq(Events) /\ DOMAIN log[r] = 1 .. Len(log[r]) /\ Len(log[r]) \in Nat
      /\ \A i \in DOMAIN log[r] : log[r][i].by \in Session
  <2>1. log[r] \in Seq(Events)
    BY DEF Typed, TypeOK
  <2>2. \A i \in DOMAIN log[r] : log[r][i] \in Events
    BY <2>1
  <2> QED
    BY <2>1, <2>2 DEF Events
<1>2. CASE /\ log'[r] = log[r]
           /\ status[r] \in Lifecycle!Terminal =>
                 /\ status'[r] = status[r]
                 /\ \A s \in Session : Toggling(s, r)' => Toggling(s, r)
  BY <1>0, <1>1, <1>2 DEF LateInv, Toggling
<1>3. ASSUME NEW s \in Session, Store(s) PROVE Late
  <2> DEFINE n == Len(log[r])
  <2>1. status' = status /\ call' = [call EXCEPT ![s] = Idle] /\ call'[s] = Idle
        /\ \A t \in Session \ {s} : call'[t] = call[t]
    BY <1>3, Stored DEF Typed, TypeOK
  <2>2. CASE log'[r] = log[r]
    BY <2>1, <2>2, <1>0, <1>1 DEF LateInv, Toggling, Idle
  <2>3. CASE log'[r] # log[r]
    <3>1. /\ r = call[s].race /\ DOMAIN log'[r] = 1 .. n + 1
          /\ \A i \in 1 .. n : log'[r][i] = log[r][i]
          /\ log'[r][n + 1] = Entry(s)
      BY <1>3, <1>0, <2>3, Stored
    <3>2. \A i \in 1 .. n : log[r][i].late => log[r][i].by # s
      BY <1>3, <1>0, <1>1, <3>1 DEF LateInv, Toggling, Store
    <3>3. /\ Entry(s).by = s
          /\ Entry(s).late => status[r] \in Lifecycle!Terminal
      BY <3>1 DEF Entry
    <3>4. /\ \A i \in 1 .. n : log[r][i].late =>
                  status[r] \in Lifecycle!Terminal /\ ~Toggling(log[r][i].by, r)
          /\ \A i, j \in 1 .. n :
                  log[r][i].late /\ log[r][j].late /\ log[r][i].by = log[r][j].by => i = j
      BY <1>0, <1>1 DEF LateInv
    <3>5. ASSUME NEW i \in 1 .. n + 1, log'[r][i].late
          PROVE  /\ status'[r] \in Lifecycle!Terminal
                 /\ ~(/\ call'[log'[r][i].by].at \in {"checked", "comparing", "stamped"}
                      /\ call'[log'[r][i].by].race = r)
      <4>1. CASE i = n + 1
        <5>1. log'[r][i].by = s /\ status[r] \in Lifecycle!Terminal
          BY <3>1, <3>3, <3>5, <4>1
        <5>2. call'[s].at = "idle"
          BY <2>1 DEF Idle
        <5> QED
          BY <2>1, <5>1, <5>2
      <4>2. CASE i # n + 1
        <5>1. i \in 1 .. n /\ log'[r][i] = log[r][i]
          BY <1>0, <3>1, <4>2
        <5>2. log[r][i].by \in Session \ {s}
          BY <1>0, <3>2, <3>5, <5>1
        <5> QED
          BY <2>1, <3>4, <3>5, <5>1, <5>2 DEF Toggling
      <4> QED
        BY <4>1, <4>2
    <3>6. ASSUME NEW i \in 1 .. n + 1, NEW j \in 1 .. n + 1,
                 log'[r][i].late, log'[r][j].late, log'[r][i].by = log'[r][j].by
          PROVE  i = j
      <4>1. CASE i \in 1 .. n /\ j \in 1 .. n
        BY <3>1, <3>4, <3>6, <4>1
      <4>2. CASE i = n + 1 /\ j \in 1 .. n
        BY <3>1, <3>2, <3>3, <3>6, <4>2
      <4>3. CASE i \in 1 .. n /\ j = n + 1
        BY <3>1, <3>2, <3>3, <3>6, <4>3
      <4> QED
        BY <1>0, <4>1, <4>2, <4>3
    <3> QED
      BY <3>1, <3>5, <3>6
  <2> QED
    BY <2>2, <2>3
<1> QED
  BY <1>2, <1>3, Quiet

\* A race that has ended gets at most one row from each session, which had looked at
\* its status before (race_service.py, set_safety_car).
THEOREM LateRowsBounded == Spec => []OneLateRowEach
<1>1. Init => LateInv
  <2> SUFFICES ASSUME Init, NEW r \in Race PROVE DOMAIN log[r] = {}
    BY DEF LateInv
  <2> QED
    BY DEF Init
<1>2. LateInv => OneLateRowEach
  BY DEF LateInv, OneLateRowEach
<1> QED
  BY <1>1, <1>2, LateStep, AlwaysTyped, PTL DEF Spec

-----------------------------------------------------------------------------
(* Flags and rows *)

\* Stamps grow with the clock, and those of one session from row to row.
StampInv ==
    \A r \in Race \ deleted :
        /\ \A i \in DOMAIN log[r] : log[r][i].at <= clock
        /\ \A s \in Session : call[s].at = "stamped" =>
              /\ call[s].stamp <= clock
              /\ call[s].race = r => \A i \in DOMAIN log[r] :
                    log[r][i].by = s => log[r][i].at < call[s].stamp
        /\ \A i, j \in DOMAIN log[r] :
              log[r][i].by = log[r][j].by /\ i < j => log[r][i].at < log[r][j].at

\* A call that gets its stamp now has been told f, from one of four sources.
Asks(s, f) ==
    LET r == call[s].race IN
    /\ f \in Flag
    /\ call[s].at \in {"checked", "comparing"}
    /\ clock' = clock + 1 /\ log' = log /\ status' = status /\ deleted' = deleted
    /\ \/ f = "off" /\ call'[s].blind = TRUE
       \/ f = "off" /\ status[r] \notin Active
       \/ f = cache[s][r] /\ status[r] \in Active
       \/ f = Latest(r)
    /\ call'[s].at = "stamped" /\ call'[s].race = r /\ call'[s].stamp = clock + 1
    /\ call'[s].want = Opposite(f)
    /\ \A t \in Session \ {s} : call'[t] = call[t]

LEMMA ToldAsks ==
    ASSUME TypeOK, NEW s \in Session, NEW f \in Flag, NEW b \in BOOLEAN,
           call[s].at \in {"listed", "asking", "checked", "comparing"}, Told(s, f, b)
    PROVE  /\ \A t \in Session \ {s} : call'[t] = call[t]
           /\ \/ clock' = clock /\ call'[s].at # "stamped"
              \/ /\ clock' = clock + 1 /\ call[s].at \in {"checked", "comparing"}
                 /\ call'[s].at = "stamped" /\ call'[s].race = call[s].race
                 /\ call'[s].stamp = clock + 1 /\ call'[s].blind = b
                 /\ call'[s].want = Opposite(f)
<1> DEFINE c == call[s]
<1>1. \A t \in Session \ {s} : call'[t] = call[t]
  BY DEF Told, Goto, TypeOK
<1>2. CASE c.at \in {"listed", "asking"}
  BY <1>1, <1>2 DEF Told, Goto, TypeOK
<1>3. CASE c.at \notin {"listed", "asking"} /\ f = c.want
  BY <1>1, <1>3 DEF Told, Goto, TypeOK, Idle
<1>4. CASE c.at \notin {"listed", "asking"} /\ f # c.want
  <2>1. c.want = Opposite(f)
    BY <1>4, CallOf DEF Opposite, Flag
  <2>2. call'[s] = [at |-> "stamped", race |-> c.race, want |-> c.want,
                    stamp |-> clock + 1, blind |-> b] /\ clock' = clock + 1
    BY <1>4 DEF Told, Goto, TypeOK
  <2> QED
    BY <1>1, <1>4, <2>1, <2>2
<1> QED
  BY <1>2, <1>3, <1>4

Sourced(r, s, f, b) ==
    \/ f = "off" /\ b = TRUE
    \/ f = "off" /\ status[r] \notin Active
    \/ f = cache[s][r] /\ status[r] \in Active
    \/ f = Latest(r)

LEMMA AnswerAsks ==
    ASSUME TypeOK, NEW s \in Session, NEW f \in Flag, NEW b \in BOOLEAN,
           call[s].at \in {"listed", "asking", "checked", "comparing"}, Told(s, f, b),
           log' = log, status' = status, deleted' = deleted, Sourced(call[s].race, s, f, b)
    PROVE  \/ Asks(s, f)
           \/ /\ clock' = clock
              /\ \A t \in Session : call'[t].at = "stamped" => call'[t] = call[t]
<1>1. CASE clock' = clock /\ call'[s].at # "stamped"
  BY <1>1, ToldAsks
<1>2. CASE ~(clock' = clock /\ call'[s].at # "stamped")
  <2>1. /\ clock' = clock + 1 /\ call[s].at \in {"checked", "comparing"}
        /\ call'[s].at = "stamped" /\ call'[s].race = call[s].race
        /\ call'[s].stamp = clock + 1 /\ call'[s].blind = b
        /\ call'[s].want = Opposite(f)
        /\ \A t \in Session \ {s} : call'[t] = call[t]
    BY <1>2, ToldAsks
  <2>2. Asks(s, f)
    BY <2>1 DEF Asks, Sourced
  <2> QED
    BY <2>2
<1> QED
  BY <1>1, <1>2

\* Every step stores a row, gives a stamp, or does neither.
LEMMA AskOrNot ==
    ASSUME Typed, [Next]_vars
    PROVE  \/ \E s \in Session : Store(s)
           \/ \E s \in Session, f \in Flag : Asks(s, f)
           \/ /\ clock' = clock
              /\ \A s \in Session : call'[s].at = "stamped" => call'[s] = call[s]
<1> DEFINE Neither == /\ clock' = clock
                      /\ \A s \in Session : call'[s].at = "stamped" => call'[s] = call[s]
           Ask == \E s \in Session, f \in Flag : Asks(s, f)
<1> USE DEF Typed
<1>1. UNCHANGED vars => Neither
  BY DEF vars
<1>2. ASSUME NEW s \in Session, LookInactive(s) PROVE Neither \/ Ask
  <2>1. "off" \in Flag /\ Sourced(call[s].race, s, "off", FALSE)
    BY <1>2 DEF LookInactive, Sourced, Flag
  <2>2. /\ call[s].at \in {"listed", "asking", "checked", "comparing"}
        /\ Told(s, "off", FALSE) /\ log' = log /\ status' = status /\ deleted' = deleted
    BY <1>2 DEF LookInactive
  <2>3. Asks(s, "off") \/ Neither
    BY <2>1, <2>2, AnswerAsks
  <2> QED
    BY <2>1, <2>3
<1>3. ASSUME NEW s \in Session, LookCached(s) PROVE Neither \/ Ask
  <2> DEFINE f == cache[s][call[s].race]
  <2>1. f \in Flag /\ Sourced(call[s].race, s, f, FALSE)
    BY <1>3, CallOf DEF LookCached, Sourced, TypeOK
  <2>2. /\ call[s].at \in {"listed", "asking", "checked", "comparing"}
        /\ Told(s, f, FALSE) /\ log' = log /\ status' = status /\ deleted' = deleted
    BY <1>3 DEF LookCached
  <2>3. Asks(s, f) \/ Neither
    BY <2>1, <2>2, AnswerAsks
  <2> QED
    BY <2>1, <2>3
<1>4. ASSUME NEW s \in Session, ReadLog(s) PROVE Neither \/ Ask
  <2> DEFINE f == Latest(call[s].race)
  <2>1. f \in Flag /\ Sourced(call[s].race, s, f, FALSE)
    BY <1>4, CallOf, LatestTyped DEF ReadLog, Sourced
  <2>2. /\ call[s].at \in {"listed", "asking", "checked", "comparing"}
        /\ Told(s, f, FALSE) /\ log' = log /\ status' = status /\ deleted' = deleted
    BY <1>4 DEF ReadLog
  <2>3. Asks(s, f) \/ Neither
    BY <2>1, <2>2, AnswerAsks
  <2> QED
    BY <2>1, <2>3
<1>5. ASSUME NEW s \in Session, ReadFails(s) PROVE Neither \/ Ask
  <2>1. "off" \in Flag /\ Sourced(call[s].race, s, "off", TRUE)
    BY DEF Sourced, Flag
  <2>2. /\ call[s].at \in {"listed", "asking", "checked", "comparing"}
        /\ Told(s, "off", TRUE) /\ log' = log /\ status' = status /\ deleted' = deleted
    BY <1>5 DEF ReadFails
  <2>3. Asks(s, "off") \/ Neither
    BY <2>1, <2>2, AnswerAsks
  <2> QED
    BY <2>1, <2>3
<1>6. ASSUME NEW s \in Session, LookMissed(s) \/ Click(s) PROVE Neither
  <2>1. CASE LookMissed(s)
    BY <2>1 DEF LookMissed, TypeOK
  <2>2. CASE Click(s)
    BY <2>2 DEF Click, Goto, TypeOK, Idle
  <2> QED
    BY <1>6, <2>1, <2>2
<1>7. ASSUME NEW s \in Session, NoClick(s) \/ StoreFails(s) \/ Restart(s) PROVE Neither
  BY <1>7 DEF NoClick, StoreFails, Restart, Goto, TypeOK, Idle
<1>8. ASSUME NEW s \in Session, NEW r \in Race, List(s, r) \/ EndBy(s, r) PROVE Neither
  BY <1>8 DEF List, EndBy, Goto, TypeOK
<1>9. ASSUME NEW r \in Race, Move(r) \/ Delete(r) PROVE Neither
  BY <1>9 DEF Move, Delete
<1>10. (\E s \in Session : \/ LookInactive(s) \/ LookCached(s) \/ LookMissed(s)
                            \/ ReadLog(s) \/ ReadFails(s) \/ NoClick(s) \/ Click(s)
                            \/ StoreFails(s) \/ Restart(s)
                            \/ \E r \in Race : List(s, r) \/ EndBy(s, r)) => Neither \/ Ask
  BY <1>2, <1>3, <1>4, <1>5, <1>6, <1>7, <1>8
<1> QED
  BY <1>1, <1>9, <1>10 DEF Next

LEMMA RowTyped ==
    ASSUME Typed, NEW r \in Race
    PROVE  /\ DOMAIN log[r] = 1 .. Len(log[r]) /\ Len(log[r]) \in Nat
           /\ \A i \in DOMAIN log[r] :
                 /\ log[r][i].at \in Nat /\ log[r][i].by \in Session /\ log[r][i].on \in Flag
                 /\ log[r][i].late \in BOOLEAN /\ log[r][i].blind \in BOOLEAN
<1>1. log[r] \in Seq(Events)
  BY DEF Typed, TypeOK
<1>2. \A i \in DOMAIN log[r] : log[r][i] \in Events
  BY <1>1
<1> QED
  BY <1>1, <1>2 DEF Events

\* An id is deleted for good.
LEMMA DeletedGrows == ASSUME [Next]_vars PROVE deleted \subseteq deleted'
BY DEF Next, vars, LookInactive, LookCached, LookMissed, ReadLog, ReadFails, NoClick,
       Click, Store, StoreFails, Restart, List, EndBy, Move, Delete

LEMMA StampStep == Typed /\ StampInv /\ [Next]_vars => StampInv'
<1> SUFFICES ASSUME Typed, StampInv, [Next]_vars, NEW r \in Race \ deleted'
             PROVE  /\ \A i \in DOMAIN log'[r] : log'[r][i].at <= clock'
                    /\ \A s \in Session : call'[s].at = "stamped" =>
                          /\ call'[s].stamp <= clock'
                          /\ call'[s].race = r => \A i \in DOMAIN log'[r] :
                                log'[r][i].by = s => log'[r][i].at < call'[s].stamp
                    /\ \A i, j \in DOMAIN log'[r] :
                          log'[r][i].by = log'[r][j].by /\ i < j => log'[r][i].at < log'[r][j].at
  BY DEF StampInv
<1> DEFINE Grows == \A i, j \in DOMAIN log'[r] :
                log'[r][i].by = log'[r][j].by /\ i < j => log'[r][i].at < log'[r][j].at
           Past(s) == /\ call'[s].stamp <= clock'
                      /\ call'[s].race = r => \A i \in DOMAIN log'[r] :
                            log'[r][i].by = s => log'[r][i].at < call'[s].stamp
<1>1. r \in Race \ deleted
  BY DeletedGrows
<1>2. clock \in Nat /\ DOMAIN log[r] = 1 .. Len(log[r]) /\ Len(log[r]) \in Nat
      /\ \A i \in DOMAIN log[r] : log[r][i].at \in Nat
  BY <1>1, RowTyped, SafetyCarAssumption DEF Typed, TypeOK
<1>3. /\ \A i \in DOMAIN log[r] : log[r][i].at <= clock
      /\ \A s \in Session : call[s].at = "stamped" =>
            /\ call[s].stamp <= clock
            /\ call[s].race = r => \A i \in DOMAIN log[r] :
                  log[r][i].by = s => log[r][i].at < call[s].stamp
      /\ \A i, j \in DOMAIN log[r] :
            log[r][i].by = log[r][j].by /\ i < j => log[r][i].at < log[r][j].at
  BY <1>1 DEF StampInv
<1>5. ASSUME NEW s \in Session, NEW f \in Flag, Asks(s, f)
      PROVE  /\ \A i \in DOMAIN log'[r] : log'[r][i].at <= clock'
             /\ \A t \in Session : call'[t].at = "stamped" => Past(t)
             /\ Grows
  <2>1. /\ clock' = clock + 1 /\ log'[r] = log[r] /\ call'[s].stamp = clock + 1
        /\ \A t \in Session \ {s} : call'[t] = call[t]
    BY <1>5 DEF Asks
  <2>2. \A i \in DOMAIN log'[r] : log'[r][i].at <= clock' /\ log'[r][i].at < clock + 1
    BY <1>2, <1>3, <2>1
  <2>3. Past(s)
    BY <1>2, <2>1, <2>2
  <2>4. ASSUME NEW t \in Session \ {s}, call'[t].at = "stamped" PROVE Past(t)
    <3>1. call[t].at = "stamped" /\ call'[t] = call[t] /\ call[t].stamp \in Nat
      BY <2>1, <2>4, CallOf DEF Typed
    <3> QED
      BY <1>2, <1>3, <2>1, <3>1
  <2>5. Grows
    BY <1>3, <2>1
  <2> QED
    BY <2>2, <2>3, <2>4, <2>5
<1>6. ASSUME NEW s \in Session, Store(s)
      PROVE  /\ \A i \in DOMAIN log'[r] : log'[r][i].at <= clock'
             /\ \A t \in Session : call'[t].at = "stamped" => Past(t)
             /\ Grows
  <2> DEFINE n == Len(log[r])
  <2>1. /\ clock' = clock /\ call'[s].at # "stamped"
        /\ \A t \in Session \ {s} : call'[t] = call[t]
    BY <1>6, Stored DEF Typed, TypeOK, Idle
  <2>2. CASE log'[r] = log[r]
    BY <1>3, <2>1, <2>2
  <2>3. CASE log'[r] # log[r]
    <3>1. /\ r = call[s].race /\ DOMAIN log'[r] = 1 .. n + 1
          /\ \A i \in 1 .. n : log'[r][i] = log[r][i]
          /\ log'[r][n + 1] = Entry(s)
      BY <1>6, <1>2, <2>3, Stored
    <3>2. Entry(s).by = s /\ Entry(s).at = call[s].stamp
      BY DEF Entry
    <3>3. /\ call[s].stamp <= clock
          /\ \A i \in 1 .. n : log[r][i].by = s => log[r][i].at < call[s].stamp
      BY <1>2, <1>3, <1>6, <3>1 DEF Store
    <3>4. ASSUME NEW i \in 1 .. n + 1 PROVE i \in 1 .. n \/ i = n + 1
      BY <1>2
    <3>5. \A i \in 1 .. n + 1 : log'[r][i].at <= clock
      BY <1>2, <1>3, <3>1, <3>2, <3>3, <3>4
    <3>6. ASSUME NEW t \in Session, call'[t].at = "stamped" PROVE Past(t)
      <4>1. t # s /\ call'[t] = call[t]
        BY <2>1, <3>6
      <4>2. \A i \in 1 .. n + 1 : log'[r][i].by = t => i \in 1 .. n
        BY <3>1, <3>2, <3>4, <4>1
      <4> QED
        BY <1>2, <1>3, <2>1, <3>1, <3>6, <4>1, <4>2
    <3>7. ASSUME NEW i \in 1 .. n + 1, NEW j \in 1 .. n + 1,
                 log'[r][i].by = log'[r][j].by, i < j
          PROVE  log'[r][i].at < log'[r][j].at
      <4>1. i \in 1 .. n
        BY <1>2, <3>7
      <4>2. CASE j \in 1 .. n
        BY <1>2, <1>3, <3>1, <3>7, <4>1, <4>2
      <4>3. CASE j = n + 1
        BY <3>1, <3>2, <3>3, <3>7, <4>1, <4>3
      <4> QED
        BY <3>4, <4>2, <4>3
    <3> QED
      BY <2>1, <3>1, <3>5, <3>6, <3>7
  <2> QED
    BY <2>2, <2>3
<1>7. CASE /\ ~ \E s \in Session : Store(s)
           /\ ~ \E s \in Session, f \in Flag : Asks(s, f)
  BY <1>3, <1>7, AskOrNot, Quiet
<1> QED
  BY <1>5, <1>6, <1>7

LEMMA StampInit == Init => StampInv
<1> SUFFICES ASSUME Init, NEW r \in Race PROVE DOMAIN log[r] = {} /\
               \A s \in Session : call[s].at # "stamped"
  BY DEF StampInv
<1> QED
  BY DEF Init, Idle

\* What happens to a flag when no row is stored.
LEMMA FlagMoves ==
    ASSUME Typed, [Next]_vars, ~ \E s \in Session : Store(s),
           NEW t \in Session, NEW r \in Race
    PROVE  \/ cache'[t][r] \in {cache[t][r], "unknown"}
           \/ cache'[t][r] = Latest(r) /\ log' = log
<1> USE DEF Typed, TypeOK
<1>1. CASE UNCHANGED vars
  BY <1>1 DEF vars
<1>2. ASSUME NEW s \in Session, LookInactive(s) PROVE cache'[t][r] \in {cache[t][r], "unknown"}
  BY <1>2 DEF LookInactive
<1>3. ASSUME NEW s \in Session, ReadLog(s)
      PROVE  cache'[t][r] = cache[t][r] \/ (cache'[t][r] = Latest(r) /\ log' = log)
  BY <1>3 DEF ReadLog
<1>4. ASSUME NEW s \in Session, Restart(s) PROVE cache'[t][r] \in {cache[t][r], "unknown"}
  BY <1>4 DEF Restart
<1>5. ASSUME NEW s \in Session, NEW q \in Race, EndBy(s, q)
      PROVE  cache'[t][r] \in {cache[t][r], "unknown"}
  BY <1>5 DEF EndBy
<1>6. ASSUME cache' = cache PROVE cache'[t][r] = cache[t][r]
  BY <1>6
<1>7. (\E s \in Session : \/ LookCached(s) \/ LookMissed(s) \/ ReadFails(s) \/ NoClick(s)
                          \/ Click(s) \/ StoreFails(s) \/ \E q \in Race : List(s, q))
      => cache' = cache
  BY DEF LookCached, LookMissed, ReadFails, NoClick, Click, StoreFails, List
<1>8. (\E q \in Race : Move(q) \/ Delete(q)) => cache' = cache
  BY DEF Move, Delete
<1>9. (\E s \in Session : LookInactive(s) \/ ReadLog(s) \/ Restart(s)
                          \/ \E q \in Race : EndBy(s, q))
      => \/ cache'[t][r] \in {cache[t][r], "unknown"}
         \/ cache'[t][r] = Latest(r) /\ log' = log
  BY <1>2, <1>3, <1>4, <1>5
<1> QED
  BY <1>1, <1>6, <1>7, <1>8, <1>9 DEF Next

LEMMA FlagStep == Typed /\ StampInv /\ FlagHasItsRow /\ [Next]_vars => FlagHasItsRow'
<1> SUFFICES ASSUME Typed, StampInv, FlagHasItsRow, [Next]_vars,
                    NEW t \in Session, NEW r \in Race \ deleted'
             PROVE  \/ cache'[t][r] = "unknown"
                    \/ cache'[t][r] = "off" /\ {i \in DOMAIN log'[r] : log'[r][i].by = t} = {}
                    \/ \E i \in DOMAIN log'[r] :
                          /\ log'[r][i].on = cache'[t][r]
                          /\ \A j \in DOMAIN log'[r] :
                                log'[r][j].by = t => log'[r][j].at <= log'[r][i].at
  BY DEF FlagHasItsRow
<1>1. r \in Race \ deleted
  BY DeletedGrows
<1>2. \/ cache[t][r] = "unknown"
      \/ cache[t][r] = "off" /\ {i \in DOMAIN log[r] : log[r][i].by = t} = {}
      \/ \E i \in DOMAIN log[r] :
            /\ log[r][i].on = cache[t][r]
            /\ \A j \in DOMAIN log[r] : log[r][j].by = t => log[r][j].at <= log[r][i].at
  BY <1>1 DEF FlagHasItsRow
<1>3. CASE ~ \E s \in Session : Store(s)
  <2>1. log'[r] = log[r]
    BY <1>3, Quiet
  <2>2. CASE cache'[t][r] \in {cache[t][r], "unknown"}
    BY <1>2, <2>1, <2>2
  <2>3. CASE cache'[t][r] = Latest(r) /\ log[r] = <<>>
    BY <2>1, <2>3 DEF Latest
  <2>4. CASE cache'[t][r] = Latest(r) /\ log[r] # <<>>
    BY <1>1, <2>1, <2>4, LatestRow DEF Typed
  <2> QED
    BY <1>1, <1>3, <2>2, <2>3, <2>4, FlagMoves
<1>4. ASSUME NEW s \in Session, Store(s)
      PROVE  \/ cache'[t][r] = "unknown"
             \/ cache'[t][r] = "off" /\ {i \in DOMAIN log'[r] : log'[r][i].by = t} = {}
             \/ \E i \in DOMAIN log'[r] :
                   /\ log'[r][i].on = cache'[t][r]
                   /\ \A j \in DOMAIN log'[r] :
                         log'[r][j].by = t => log'[r][j].at <= log'[r][i].at
  <2> DEFINE n == Len(log[r])
  <2>1. CASE log'[r] = log[r] /\ cache'[t][r] = cache[t][r]
    BY <1>2, <2>1
  <2>2. CASE ~(log'[r] = log[r] /\ \A u \in Session : cache'[u][r] = cache[u][r])
    <3>0. DOMAIN log[r] = 1 .. n /\ n \in Nat
      BY <1>1, RowTyped
    <3>1. /\ r = call[s].race /\ DOMAIN log'[r] = 1 .. n + 1
          /\ \A i \in 1 .. n : log'[r][i] = log[r][i]
          /\ log'[r][n + 1] = Entry(s)
          /\ cache'[s][r] = call[s].want
          /\ \A u \in Session \ {s} : cache'[u][r] = cache[u][r]
      BY <1>4, <2>2, <3>0, Stored
    <3>2. Entry(s).by = s /\ Entry(s).at = call[s].stamp /\ Entry(s).on = call[s].want
      BY DEF Entry
    <3>4. ASSUME NEW i \in 1 .. n + 1 PROVE i \in 1 .. n \/ i = n + 1
      BY <3>0
    <3>5. CASE t = s
      <4>1. \A i \in 1 .. n : log[r][i].by = s => log[r][i].at < call[s].stamp
        BY <1>1, <1>4, <3>0, <3>1 DEF StampInv, Store
      <4>2. \A i \in 1 .. n : log[r][i].at \in Nat
        BY <1>1, <3>0, RowTyped
      <4>3. call[s].stamp \in Nat
        BY <1>4, CallOf DEF Typed, Store
      <4>4. n + 1 \in DOMAIN log'[r] /\ log'[r][n + 1].on = cache'[t][r]
        BY <3>0, <3>1, <3>2, <3>5
      <4>5. \A j \in DOMAIN log'[r] : log'[r][j].by = t => log'[r][j].at <= log'[r][n + 1].at
        <5>1. SUFFICES ASSUME NEW j \in 1 .. n + 1, log'[r][j].by = t
                       PROVE  log'[r][j].at <= call[s].stamp
          BY <3>1, <3>2
        <5>2. CASE j = n + 1
          BY <3>1, <3>2, <4>3, <5>2
        <5>3. CASE j \in 1 .. n
          <6>1. log'[r][j] = log[r][j] /\ log[r][j].by = s
            BY <3>1, <3>5, <5>1, <5>3
          <6>2. log[r][j].at < call[s].stamp
            BY <4>1, <5>3, <6>1
          <6> QED
            BY <4>2, <4>3, <5>3, <6>1, <6>2
        <5> QED
          BY <3>4, <5>2, <5>3
      <4> QED
        BY <4>4, <4>5
    <3>6. CASE t # s
      <4>1. \A j \in DOMAIN log'[r] : log'[r][j].by = t => j \in 1 .. n /\ log'[r][j] = log[r][j]
        BY <3>1, <3>2, <3>4, <3>6
      <4>2. cache'[t][r] = cache[t][r]
        BY <3>1, <3>6
      <4>3. CASE \E i \in DOMAIN log[r] :
                   /\ log[r][i].on = cache[t][r]
                   /\ \A j \in DOMAIN log[r] : log[r][j].by = t => log[r][j].at <= log[r][i].at
        <5>1. PICK i \in 1 .. n :
                   /\ log[r][i].on = cache[t][r]
                   /\ \A j \in 1 .. n : log[r][j].by = t => log[r][j].at <= log[r][i].at
          BY <3>0, <4>3
        <5>2. i \in DOMAIN log'[r] /\ log'[r][i] = log[r][i]
          BY <3>0, <3>1
        <5> QED
          BY <4>1, <4>2, <5>1, <5>2
      <4>4. CASE {i \in DOMAIN log[r] : log[r][i].by = t} = {}
        BY <1>2, <3>0, <4>1, <4>2, <4>3, <4>4
      <4> QED
        BY <1>2, <4>2, <4>3, <4>4
    <3> QED
      BY <3>5, <3>6
  <2> QED
    BY <2>1, <2>2
<1> QED
  BY <1>3, <1>4

LEMMA AlwaysStamped == Spec => [](Typed /\ StampInv)
BY TypedInit, TypedStep, StampInit, StampStep, PTL DEF Spec

\* What a session shows goes back to a stored row, and to none before its own last
\* toggle (race_service.py, set_safety_car and is_safety_car_active).
THEOREM FlagsHaveRows == Spec => []FlagHasItsRow
<1>1. Init => FlagHasItsRow
  <2> SUFFICES ASSUME Init, NEW s \in Session, NEW r \in Race
               PROVE  cache[s][r] = "unknown"
    BY DEF FlagHasItsRow
  <2> QED
    BY DEF Init
<1> QED
  BY <1>1, FlagStep, AlwaysStamped, PTL DEF Spec

-----------------------------------------------------------------------------
(* One session alone *)

\* The rows of r so far are all by one session.
Alone(r) == \A i, j \in DOMAIN log[r] : log[r][i].by = log[r][j].by

\* What a toggle of the lone session, or the first toggle, is about to store.
LoneInv ==
    \A r \in Race \ deleted, s \in Session :
        call[s].at = "stamped" /\ call[s].race = r =>
            /\ log[r] = <<>> => call[s].want = "on"
            /\ log[r] # <<>> /\ Alone(r) /\ log[r][1].by = s =>
                  \/ call[s].blind = TRUE
                  \/ status[r] \in Lifecycle!Terminal
                  \/ call[s].want = Opposite(log[r][Len(log[r])].on)

\* A race that somebody was about to toggle runs, is paused or has ended.
BegunInv ==
    \A r \in Race \ deleted, s \in Session :
        Toggling(s, r) => status[r] \in Active \cup Lifecycle!Terminal

\* A flag that is set, and the latest row, are the last row of a lone session.
LEMMA LastOfLone ==
    ASSUME Typed, StampInv, NEW r \in Race \ deleted, NEW s \in Session, NEW i \in DOMAIN log[r],
           Alone(r), log[r][1].by = s,
           \A j \in DOMAIN log[r] : log[r][j].by = s => log[r][j].at <= log[r][i].at
    PROVE  i = Len(log[r])
<1> DEFINE n == Len(log[r])
<1>1. DOMAIN log[r] = 1 .. n /\ n \in Nat /\ \A j \in 1 .. n : log[r][j].at \in Nat
  BY RowTyped
<1>2. 1 \in 1 .. n /\ n \in 1 .. n /\ i \in 1 .. n
  BY <1>1
<1>3. \A j \in 1 .. n : log[r][j].by = s
  BY <1>1, <1>2 DEF Alone
<1>4. i < n => log[r][i].at < log[r][n].at
  BY <1>1, <1>2, <1>3 DEF StampInv
<1>5. log[r][n].at <= log[r][i].at
  BY <1>1, <1>2, <1>3
<1> QED
  BY <1>1, <1>2, <1>4, <1>5

LEMMA BegunStep == Typed /\ BegunInv /\ [Next]_vars => BegunInv'
<1> SUFFICES ASSUME Typed, BegunInv, [Next]_vars, NEW r \in Race \ deleted', NEW s \in Session,
                    Toggling(s, r)'
             PROVE  status'[r] \in Active \cup Lifecycle!Terminal
  BY DEF BegunInv, Toggling
<1> USE DEF Typed
<1>1. r \in Race \ deleted /\ (Toggling(s, r) => status[r] \in Active \cup Lifecycle!Terminal)
  BY DeletedGrows DEF BegunInv
<1>2. CASE UNCHANGED vars
  BY <1>1, <1>2 DEF vars, Toggling
<1>3. ASSUME NEW t \in Session,
             LookInactive(t) \/ LookCached(t) \/ ReadLog(t) \/ ReadFails(t)
      PROVE  status'[r] \in Active \cup Lifecycle!Terminal
  <2>1. status' = status
    BY <1>3 DEF LookInactive, LookCached, ReadLog, ReadFails
  <2>2. /\ \A u \in Session \ {t} : call'[u] = call[u]
        /\ Toggling(t, r)' => Toggling(t, r)
    BY <1>3, ToldMoves DEF LookInactive, LookCached, ReadLog, ReadFails
  <2>3. Toggling(s, r)
    BY <2>2 DEF Toggling
  <2> QED
    BY <1>1, <2>1, <2>3
<1>4. ASSUME NEW t \in Session, LookMissed(t)
      PROVE  status'[r] \in Active \cup Lifecycle!Terminal
  BY <1>1, <1>4 DEF LookMissed, Toggling, TypeOK
<1>5. ASSUME NEW t \in Session, NoClick(t) \/ Store(t) \/ StoreFails(t) \/ Restart(t)
      PROVE  status'[r] \in Active \cup Lifecycle!Terminal
  <2>1. call' = [call EXCEPT ![t] = Idle] /\ status' = status
    <3>1. CASE NoClick(t)
      BY <3>1 DEF NoClick, Goto
    <3>2. CASE Store(t)
      BY <3>2 DEF Store, Goto
    <3>3. CASE StoreFails(t)
      BY <3>3 DEF StoreFails, Goto
    <3>4. CASE Restart(t)
      BY <3>4 DEF Restart
    <3> QED
      BY <1>5, <3>1, <3>2, <3>3, <3>4
  <2>2. call'[s] = IF s = t THEN Idle ELSE call[s]
    BY <2>1 DEF TypeOK
  <2>3. s # t
    BY <2>2 DEF Toggling, Idle
  <2> QED
    BY <1>1, <2>1, <2>2, <2>3 DEF Toggling
<1>6. ASSUME NEW t \in Session, Click(t)
      PROVE  status'[r] \in Active \cup Lifecycle!Terminal
  BY <1>1, <1>6 DEF Click, Goto, Toggling, TypeOK, Idle
<1>7. ASSUME NEW t \in Session, NEW q \in Race, List(t, q)
      PROVE  status'[r] \in Active \cup Lifecycle!Terminal
  BY <1>1, <1>7 DEF List, Goto, Toggling, TypeOK
<1>8. ASSUME NEW t \in Session, NEW q \in Race, EndBy(t, q)
      PROVE  status'[r] \in Active \cup Lifecycle!Terminal
  BY <1>1, <1>8 DEF EndBy, Toggling, TypeOK, Lifecycle!Finish, Lifecycle!Cancel,
       Lifecycle!Become, Lifecycle!Terminal
<1>9. ASSUME NEW q \in Race, Move(q)
      PROVE  status'[r] \in Active \cup Lifecycle!Terminal
  BY <1>1, <1>9 DEF Move, Toggling, TypeOK, Active, Lifecycle!Create, Lifecycle!MarkReady,
       Lifecycle!Start, Lifecycle!Pause, Lifecycle!Resume, Lifecycle!Finish,
       Lifecycle!Cancel, Lifecycle!Become, Lifecycle!Terminal
<1>10. ASSUME NEW q \in Race, Delete(q)
       PROVE  status'[r] \in Active \cup Lifecycle!Terminal
  BY <1>1, <1>10 DEF Delete, Toggling, TypeOK, Lifecycle!Delete, Lifecycle!Become
<1>11. (\E t \in Session : \/ LookInactive(t) \/ LookCached(t) \/ LookMissed(t)
                            \/ ReadLog(t) \/ ReadFails(t) \/ NoClick(t) \/ Click(t)
                            \/ Store(t) \/ StoreFails(t) \/ Restart(t)
                            \/ \E q \in Race : List(t, q) \/ EndBy(t, q))
        => status'[r] \in Active \cup Lifecycle!Terminal
  BY <1>3, <1>4, <1>5, <1>6, <1>7, <1>8
<1> QED
  BY <1>2, <1>9, <1>10, <1>11 DEF Next

LEMMA LoneStep ==
    Typed /\ StampInv /\ FlagHasItsRow /\ BegunInv /\ LoneInv /\ [Next]_vars => LoneInv'
<1> SUFFICES ASSUME Typed, StampInv, FlagHasItsRow, BegunInv, LoneInv, [Next]_vars,
                    NEW r \in Race \ deleted', NEW t \in Session,
                    call'[t].at = "stamped", call'[t].race = r
             PROVE  /\ log'[r] = <<>> => call'[t].want = "on"
                    /\ log'[r] # <<>> /\ (\A i, j \in DOMAIN log'[r] : log'[r][i].by = log'[r][j].by)
                       /\ log'[r][1].by = t =>
                          \/ call'[t].blind = TRUE
                          \/ status'[r] \in Lifecycle!Terminal
                          \/ call'[t].want = Opposite(log'[r][Len(log'[r])].on)
  BY DEF LoneInv, Alone
<1> DEFINE Goal == /\ log'[r] = <<>> => call'[t].want = "on"
                   /\ log'[r] # <<>> /\ (\A i, j \in DOMAIN log'[r] : log'[r][i].by = log'[r][j].by)
                      /\ log'[r][1].by = t =>
                         \/ call'[t].blind = TRUE
                         \/ status'[r] \in Lifecycle!Terminal
                         \/ call'[t].want = Opposite(log'[r][Len(log'[r])].on)
           n == Len(log[r])
<1>1. r \in Race \ deleted /\ DOMAIN log[r] = 1 .. n /\ n \in Nat
  BY DeletedGrows, RowTyped
<1>2. ASSUME call'[t] = call[t], log'[r] = log[r],
             status[r] \in Lifecycle!Terminal => status'[r] = status[r]
      PROVE  Goal
  BY <1>1, <1>2 DEF LoneInv, Alone
<1>3. ASSUME NEW s \in Session, Store(s) PROVE Goal
  <2>1. t # s /\ call'[t] = call[t] /\ status' = status
    BY <1>3, Stored DEF Typed, TypeOK, Idle
  <2>2. CASE log'[r] = log[r]
    BY <1>2, <2>1, <2>2
  <2>3. CASE log'[r] # log[r]
    <3>1. DOMAIN log'[r] = 1 .. n + 1 /\ log'[r][n + 1].by = s
      <4>1. DOMAIN log'[r] = 1 .. n + 1 /\ log'[r][n + 1] = Entry(s)
        BY <1>1, <1>3, <2>3, Stored
      <4>2. Entry(s).by = s
        BY DEF Entry
      <4> QED
        BY <4>1, <4>2
    <3>2. 1 \in DOMAIN log'[r] /\ n + 1 \in DOMAIN log'[r] /\ log'[r] # <<>>
      BY <1>1, <3>1
    <3> QED
      BY <2>1, <3>1, <3>2
  <2> QED
    BY <2>2, <2>3
<1>4. ASSUME NEW s \in Session, NEW f \in Flag, Asks(s, f) PROVE Goal
  <2>1. CASE t # s
    BY <1>2, <1>4, <2>1 DEF Asks
  <2>2. CASE t = s
    <3>1. /\ log' = log /\ status' = status /\ call'[s].want = Opposite(f) /\ r = call[s].race
          /\ Toggling(s, r)
          /\ \/ f = "off" /\ call'[s].blind = TRUE
             \/ f = "off" /\ status[r] \notin Active
             \/ f = cache[s][r]
             \/ f = Latest(r)
      BY <1>4, <2>2 DEF Asks, Toggling
    <3>2. CASE f = "off" /\ (call'[s].blind = TRUE \/ status[r] \notin Active)
      <4>1. status[r] \in Active \cup Lifecycle!Terminal
        BY <1>1, <3>1 DEF BegunInv
      <4> QED
        BY <2>2, <3>1, <3>2, <4>1 DEF Opposite
    <3>3. ASSUME f = cache[s][r] \/ f = Latest(r), log[r] = <<>> PROVE f = "off"
      <4>1. CASE f = Latest(r)
        BY <3>3, <4>1 DEF Latest
      <4>2. CASE f = cache[s][r]
        <5>1. f # "unknown" /\ DOMAIN log[r] = {}
          BY <3>3 DEF Flag
        <5> QED
          BY <1>1, <4>2, <5>1 DEF FlagHasItsRow
      <4> QED
        BY <3>3, <4>1, <4>2
    <3>4. ASSUME f = cache[s][r] \/ f = Latest(r), log[r] # <<>>, Alone(r), log[r][1].by = s
          PROVE  f = log[r][n].on
      <4>1. CASE f = Latest(r)
        <5>1. PICK i \in DOMAIN log[r] : /\ Latest(r) = log[r][i].on
                    /\ \A j \in DOMAIN log[r] : log[r][j].at <= log[r][i].at
          BY <1>1, <3>4, LatestRow DEF Typed
        <5>2. i = n
          BY <1>1, <3>4, <5>1, LastOfLone
        <5> QED
          BY <4>1, <5>1, <5>2
      <4>2. CASE f = cache[s][r]
        <5>1. f # "unknown" /\ 1 \in DOMAIN log[r]
          BY <1>1, <3>4 DEF Flag
        <5>2. PICK i \in DOMAIN log[r] : /\ log[r][i].on = f
                    /\ \A j \in DOMAIN log[r] : log[r][j].by = s => log[r][j].at <= log[r][i].at
          BY <1>1, <3>4, <4>2, <5>1 DEF FlagHasItsRow
        <5>3. i = n
          BY <1>1, <3>4, <5>2, LastOfLone
        <5> QED
          BY <5>2, <5>3
      <4> QED
        BY <3>4, <4>1, <4>2
    <3>5. CASE f = cache[s][r] \/ f = Latest(r)
      <4>1. log[r] = <<>> => call'[t].want = "on"
        BY <2>2, <3>1, <3>3, <3>5 DEF Opposite
      <4>2. log[r] # <<>> /\ Alone(r) /\ log[r][1].by = t => call'[t].want = Opposite(log[r][n].on)
        BY <2>2, <3>1, <3>4, <3>5
      <4> QED
        BY <3>1, <4>1, <4>2 DEF Alone
    <3> QED
      BY <3>1, <3>2, <3>5
  <2> QED
    BY <2>1, <2>2
<1>5. CASE /\ ~ \E s \in Session : Store(s)
           /\ ~ \E s \in Session, f \in Flag : Asks(s, f)
  <2>1. log'[r] = log[r] /\ (status[r] \in Lifecycle!Terminal => status'[r] = status[r])
    BY <1>5, Quiet
  <2>2. call'[t] = call[t]
    BY <1>5, AskOrNot
  <2> QED
    BY <1>2, <2>1, <2>2
<1> QED
  BY <1>3, <1>4, <1>5

LEMMA AlternatesStep ==
    Typed /\ LoneInv /\ LoneSessionAlternates /\ [Next]_vars => LoneSessionAlternates'
<1> SUFFICES ASSUME Typed, LoneInv, LoneSessionAlternates, [Next]_vars,
                    NEW r \in Race \ deleted', NEW i \in DOMAIN log'[r],
                    \A j \in 1 .. i : log'[r][j].by = log'[r][i].by
             PROVE  \/ log'[r][i].blind \/ log'[r][i].late
                    \/ log'[r][i].on = IF i = 1 THEN "on" ELSE Opposite(log'[r][i - 1].on)
  BY DEF LoneSessionAlternates
<1> DEFINE Goal == \/ log'[r][i].blind \/ log'[r][i].late
                   \/ log'[r][i].on = IF i = 1 THEN "on" ELSE Opposite(log'[r][i - 1].on)
           n == Len(log[r])
<1>1. r \in Race \ deleted /\ DOMAIN log[r] = 1 .. n /\ n \in Nat
  BY DeletedGrows, RowTyped
<1>2. CASE log'[r] = log[r]
  BY <1>1, <1>2 DEF LoneSessionAlternates
<1>3. ASSUME NEW s \in Session, Store(s), log'[r] # log[r] PROVE Goal
  <2>1. /\ r = call[s].race /\ DOMAIN log'[r] = 1 .. n + 1
        /\ \A k \in 1 .. n : log'[r][k] = log[r][k]
        /\ log'[r][n + 1] = Entry(s)
    BY <1>1, <1>3, Stored
  <2>2. CASE i \in 1 .. n
    <3>1. \A j \in 1 .. i : j \in 1 .. n /\ log'[r][j] = log[r][j]
      BY <1>1, <2>1, <2>2
    <3>2. \A j \in 1 .. i : log[r][j].by = log[r][i].by
      BY <2>1, <2>2, <3>1
    <3>3. \/ log[r][i].blind \/ log[r][i].late
          \/ log[r][i].on = IF i = 1 THEN "on" ELSE Opposite(log[r][i - 1].on)
      BY <1>1, <2>2, <3>2 DEF LoneSessionAlternates
    <3>4. i # 1 => i - 1 \in 1 .. n
      BY <1>1, <2>2
    <3> QED
      BY <2>1, <2>2, <3>3, <3>4
  <2>3. CASE i = n + 1
    <3>1. /\ Entry(s).by = s /\ Entry(s).on = call[s].want
          /\ Entry(s).blind = call[s].blind
          /\ Entry(s).late = (status[r] \in Lifecycle!Terminal)
      BY <2>1 DEF Entry
    <3>2. call[s].at = "stamped"
      BY <1>3 DEF Store
    <3>3. CASE n = 0
      <4>1. log[r] = <<>> /\ i = 1
        BY <1>1, <2>3, <3>3, RowTyped DEF Typed, TypeOK
      <4> QED
        BY <1>1, <2>1, <2>3, <3>1, <3>2, <4>1 DEF LoneInv
    <3>4. CASE n # 0
      <4>1. log[r] # <<>> /\ 1 \in 1 .. n /\ n \in 1 .. n /\ i # 1 /\ i - 1 = n
        BY <1>1, <2>3, <3>4
      <4>2. ASSUME NEW j \in 1 .. n PROVE log[r][j].by = s
        <5>1. j \in 1 .. i
          BY <1>1, <2>3
        <5>2. log'[r][j].by = log'[r][i].by
          BY <5>1
        <5>3. log'[r][j] = log[r][j] /\ log'[r][i].by = s
          BY <2>1, <2>3, <3>1
        <5> QED
          BY <5>2, <5>3
      <4>3. Alone(r) /\ log[r][1].by = s
        BY <1>1, <4>1, <4>2 DEF Alone
      <4>4. \/ call[s].blind = TRUE \/ status[r] \in Lifecycle!Terminal
            \/ call[s].want = Opposite(log[r][n].on)
        BY <1>1, <2>1, <3>2, <4>1, <4>3 DEF LoneInv
      <4> QED
        BY <2>1, <2>3, <3>1, <4>1, <4>4
    <3> QED
      BY <3>3, <3>4
  <2> QED
    BY <1>1, <2>1, <2>2, <2>3
<1> QED
  BY <1>2, <1>3, Quiet

\* As long as one session alone has toggled a race, its rows alternate, whatever other
\* sessions read and however often this one restarts (race_service.py, set_safety_car).
THEOREM LoneAlternates == Spec => []LoneSessionAlternates
<1>1. Init => BegunInv /\ LoneInv /\ LoneSessionAlternates
  <2> SUFFICES ASSUME Init
               PROVE  /\ \A s \in Session : call[s].at = "idle"
                      /\ \A r \in Race : DOMAIN log[r] = {}
    BY DEF BegunInv, LoneInv, LoneSessionAlternates, Toggling
  <2> QED
    BY DEF Init, Idle
<1> QED
  BY <1>1, BegunStep, LoneStep, AlternatesStep, AlwaysStamped, FlagsHaveRows, PTL DEF Spec

=============================================================================
