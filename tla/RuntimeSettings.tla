-------------------------- MODULE RuntimeSettings --------------------------
(***************************************************************************)
(* data/runtime_settings.json, the file through which the pages ask the    *)
(* supervisor for things (services/runtime_settings.py), with the sessions *)
(* of the pages that write it (services/bluetooth_service.py,              *)
(* pages/settings.py).                                                     *)
(*                                                                         *)
(* Every setter loads the whole file, changes its keys and replaces the    *)
(* file: two steps, with any other process between them.  The replacement  *)
(* itself is atomic.  The values of the device ids and of the mock mode    *)
(* are left out; a setter that stores one of them still writes back every  *)
(* other key as it was loaded.                                             *)
(*                                                                         *)
(* A file that cannot be read, or holds no settings, is read as the        *)
(* defaults: by a setter too, which then saves them over what the file held. *)
(***************************************************************************)
EXTENDS Integers, Sequences

CONSTANTS
    Sessions,    \* browser sessions of the settings page
    MaxPresses,  \* bound on the buttons pressed in all
    MaxMisreads  \* bound on the reads that give the defaults instead of the file

ASSUME SessionsAssumption ==
    /\ Sessions \cap {"loop", "api"} = {}
    /\ MaxPresses \in Nat /\ MaxMisreads \in Nat

VARIABLES
    file,        \* what the file holds
    todo,        \* the setters each writer still has to call
    hand,        \* the file as the writer loaded it, between load and save
    presses,     \* buttons pressed so far
    misreads,    \* reads so far that gave the defaults instead of the file
    forgotten    \* one of them was a setter's (history)

reading == <<misreads, forgotten>>
settings == <<file, todo, hand, presses, reading>>

Commands == {"connect", "disconnect", "scan", "retry"}

\* The supervisor writes the file too: its run loop, and calls of its API.
Writers == Sessions \cup {"loop", "api"}

NoFile == [desired |-> FALSE, seq |-> -1, cmd |-> "none"]

Defaults == [NoFile EXCEPT !.seq = 0]

(* Setters                                                                   *)

SetDesired(b) == [key |-> "desired", on |-> b, cmd |-> "none"]

\* The selected device or the mock mode.
SetOther == [key |-> "other", on |-> FALSE, cmd |-> "none"]

Request(c) == [key |-> "command", on |-> c = "connect", cmd |-> c]

Setter ==
    {SetDesired(b) : b \in BOOLEAN} \cup {SetOther} \cup {Request(c) : c \in Commands}

\* request_bluetooth_command: "connect" and "disconnect" set the flag as well.
WithCommand(f, s) ==
    [f EXCEPT !.seq = @ + 1, !.cmd = s.cmd,
              !.desired = IF s.cmd \in {"connect", "disconnect"} THEN s.on ELSE @]

\* Mutant: a setter forgets the keys it does not set.
StoredAlone(f, s) ==
    CASE s.key = "desired" -> [Defaults EXCEPT !.desired = s.on]
      [] s.key = "command" -> WithCommand(f, s)
      [] s.key = "other"   -> f

Stored(f, s) ==
    CASE s.key = "desired" -> [f EXCEPT !.desired = s.on]
      [] s.key = "command" -> WithCommand(f, s)
      [] s.key = "other"   -> f

(* What a button of the settings page does, setter after setter; "connect"   *)
(* stores the device id as well when the page shows one.  The last one is    *)
(* the mock mode's toggle.                                                   *)

Buttons ==
    {<<SetDesired(TRUE), Request("connect")>>,
     <<SetDesired(TRUE), Request("connect"), SetOther>>,
     <<SetDesired(FALSE), Request("disconnect")>>,
     <<Request("scan")>>,
     <<SetDesired(TRUE), Request("retry")>>,
     <<SetOther>>}

Press(s) ==
    /\ todo[s] = <<>>
    /\ presses < MaxPresses
    /\ presses' = presses + 1
    /\ \E setters \in Buttons :
         todo' = [todo EXCEPT ![s] = setters]
    /\ UNCHANGED <<file, hand, reading>>

\* _load: what a read may give, and the count of the reads that went wrong.
Readings == {file} \cup {f \in {Defaults} : misreads < MaxMisreads}

Counted(f) == misreads' = IF f = file THEN misreads ELSE misreads + 1

Load(w) ==
    /\ todo[w] # <<>>
    /\ hand[w] = NoFile
    /\ \E f \in Readings :
         /\ hand' = [hand EXCEPT ![w] = f]
         /\ Counted(f)
         /\ forgotten' = (forgotten \/ f # file)
    /\ UNCHANGED <<file, todo, presses>>

Save(w) ==
    /\ hand[w] # NoFile
    /\ file' = Stored(hand[w], Head(todo[w]))
    /\ hand' = [hand EXCEPT ![w] = NoFile]
    /\ todo' = [todo EXCEPT ![w] = Tail(@)]
    /\ UNCHANGED <<presses, reading>>

\* Mutant: the loaded file is kept after a failed write.
SaveFailsDirty(w) ==
    /\ hand[w] # NoFile
    /\ todo' = [todo EXCEPT ![w] = <<>>]
    /\ UNCHANGED <<file, hand, presses, reading>>

\* The disk refuses the write: an exception, with the setters left uncalled.
SaveFails(w) ==
    /\ hand[w] # NoFile
    /\ hand' = [hand EXCEPT ![w] = NoFile]
    /\ todo' = [todo EXCEPT ![w] = <<>>]
    /\ UNCHANGED <<file, presses, reading>>

SettingsInit ==
    /\ file = Defaults
    /\ todo = [w \in Writers |-> <<>>]
    /\ hand = [w \in Writers |-> NoFile]
    /\ presses = 0 /\ misreads = 0 /\ forgotten = FALSE

SettingsTypeOK ==
    /\ file \in [desired : BOOLEAN, seq : Nat, cmd : Commands \cup {"none"}]
    /\ todo \in [Writers -> Seq(Setter)]
    /\ \A w \in Writers : hand[w] # NoFile => todo[w] # <<>>
    /\ presses \in 0 .. MaxPresses /\ misreads \in 0 .. MaxMisreads /\ forgotten \in BOOLEAN
=============================================================================
