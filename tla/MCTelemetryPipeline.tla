------------------------ MODULE MCTelemetryPipeline ------------------------
EXTENDS TelemetryPipeline

\* Queues that three events overflow.
SmallQueues == [q \in Queues |-> IF q = "storage" THEN 2 ELSE 1]

Lap(c, number, time) == [kind |-> "lap", car |-> c, n |-> number, ms |-> time]

Fuel(c) == [kind |-> "fuel", car |-> c, n |-> 0, ms |-> 0]

\* A car whose laps arrive out of order, one without laps, one that the state
\* manager does not know, the link, and a lap that took no time.
TwoStories ==
    {<<Lap(1, 2, 8), Fuel(2), Lap(1, 1, 9)>>,
     <<Lap(7, 1, 9), [kind |-> "link", car |-> None, n |-> 1, ms |-> 0], Lap(2, 1, 0)>>}
=============================================================================
