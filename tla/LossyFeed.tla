----------------------------- MODULE LossyFeed -----------------------------
(***************************************************************************)
(* What a bounded drop-oldest queue promises its consumer, without the     *)
(* queue: of the items sent, the consumer gets each once and in order, and *)
(* misses one only when Cap newer ones were sent before it came for it.    *)
(***************************************************************************)
EXTENDS Integers, Sequences

CONSTANT Cap     \* what the queue holds

VARIABLES
    sent,        \* number of items sent so far
    got          \* the numbers of the items the consumer took

vars == <<sent, got>>

Oldest ==
    LET next  == IF got = <<>> THEN 1 ELSE got[Len(got)] + 1
        kept  == sent - Cap + 1
    IN IF next > kept THEN next ELSE kept

Init == sent = 0 /\ got = <<>>

Send == sent' = sent + 1 /\ UNCHANGED got

\* One item or, where the consumer takes what there is, several.
Take ==
    /\ \E last \in Oldest .. sent :
         got' = got \o [i \in 1 .. last - Oldest + 1 |-> Oldest + i - 1]
    /\ UNCHANGED sent

Next == Send \/ Take

Spec == Init /\ [][Next]_vars
=============================================================================
