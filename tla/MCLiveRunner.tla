---------------------------- MODULE MCLiveRunner ----------------------------
EXTENDS LiveRunner

\* A car, and the slot of the pace car.
TwoSlots == {0, 7}

\* The race is armed, and it runs with the speeds told.
TwoStatuses ==
    {[fuel |-> <<15>>, pit |-> <<>>, speed |-> <<>>, start |-> 0],
     [fuel |-> <<15>>, pit |-> <<>>, speed |-> <<7>>, start |-> 6]}
=============================================================================
