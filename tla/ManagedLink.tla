---------------------------- MODULE ManagedLink ----------------------------
(***************************************************************************)
(* What the supervisor promises about the Bluetooth link that it holds,    *)
(* whatever its callers do: it is tried for only on account of a wish to be *)
(* connected; once up, it is closed before it is tried for again.  A link  *)
(* that an abandoned attempt leaves to a thread is held by nobody.         *)
(***************************************************************************)

VARIABLES
    wanted,   \* the supervisor holds a wish to be connected
    link      \* the link to the Control Unit that it holds

vars == <<wanted, link>>

Init ==
    /\ wanted \in BOOLEAN
    /\ link = "down"

Wish ==
    /\ wanted' \in BOOLEAN
    /\ UNCHANGED link

Try ==
    /\ link = "down"
    /\ wanted
    /\ link' = "trying"
    /\ wanted' \in BOOLEAN

Open ==
    /\ link = "trying"
    /\ link' = "up"
    /\ UNCHANGED wanted

Drop ==
    /\ link = "up"
    /\ link' = "dropping"
    /\ wanted' \in BOOLEAN

\* An attempt that fails or is abandoned, a link that has been closed, or the death of the
\* process that held it.
Down ==
    /\ link' = "down"
    /\ wanted' \in BOOLEAN

Next == Wish \/ Try \/ Open \/ Drop \/ Down

Spec == Init /\ [][Next]_vars
=============================================================================
