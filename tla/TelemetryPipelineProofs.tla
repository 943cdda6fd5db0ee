----------------------- MODULE TelemetryPipelineProofs -----------------------
(***************************************************************************)
(* Each queue of the pipeline implements the lossy feed, for queues of any *)
(* length, batches of any size and whatever the adapter says.              *)
(*                                                                         *)
(* A queue always holds a window of the numbers sent to it: the last ones  *)
(* sent, as many as its consumer has not taken and as it has room for.     *)
(* Offer moves the window's end and, when it is full, its start; a consumer *)
(* takes from the start.                                                   *)
(*                                                                         *)
(* So what a consumer took is numbered in order, without one twice, and    *)
(* the log is what the writer took (LogInv).                               *)
(*                                                                         *)
(* The state file takes nothing back: every step of the state manager      *)
(* keeps the board (Kept), and what is written is a board of before.  And  *)
(* a board says of the events taken so far what their account says: Tells  *)
(* states the account with a witness for each maximum and minimum, which   *)
(* a further event moves (ApplyTells) and which the account can then only  *)
(* be (TellsTheAccount).  The order of a board is one because the number   *)
(* of cars ahead of a car is its place (OrderIsOne).                       *)
(***************************************************************************)
EXTENDS TelemetryPipeline, FiniteSetTheorems, TLAPS

ST == INSTANCE SequenceTheorems

-----------------------------------------------------------------------------
(* Windows *)

\* The first number the consumer of g has not come past.
Wanted(g) == IF g = <<>> THEN 1 ELSE g[Len(g)] + 1

First(total, g, cap) ==
    IF Wanted(g) > total - cap + 1 THEN Wanted(g) ELSE total - cap + 1

Window(buf, total, g, cap) ==
    /\ total \in Nat /\ buf \in Seq(Nat) /\ g \in Seq(Nat)
    /\ Wanted(g) \in 1 .. total + 1
    /\ Len(buf) = total - First(total, g, cap) + 1
    /\ \A i \in 1 .. Len(buf) : buf[i] = First(total, g, cap) + i - 1

LEMMA IsWindow ==
    ASSUME NEW buf, NEW total, NEW g, NEW cap,
           total \in Nat, buf \in Seq(Nat), g \in Seq(Nat), Wanted(g) \in 1 .. total + 1,
           Len(buf) = total - First(total, g, cap) + 1,
           \A i \in 1 .. Len(buf) : buf[i] = First(total, g, cap) + i - 1
    PROVE  Window(buf, total, g, cap)
BY DEF Window

LEMMA FirstInRange ==
    ASSUME NEW cap \in Nat \ {0}, NEW total \in Nat, NEW g, Wanted(g) \in 1 .. total + 1
    PROVE  /\ First(total, g, cap) \in 1 .. total + 1
           /\ First(total, g, cap) >= total - cap + 1
           /\ First(total, g, cap) >= Wanted(g)
BY DEF First

LEMMA WindowOfNothing ==
    ASSUME NEW cap \in Nat \ {0}
    PROVE  Window(<<>>, 0, <<>>, cap)
BY DEF Window, Wanted, First

\* Where a window starts after one more number was sent.
LEMMA FirstOfOffer ==
    ASSUME NEW cap \in Nat \ {0}, NEW total \in Nat, NEW g, Wanted(g) \in 1 .. total + 1
    PROVE  /\ total - First(total, g, cap) + 1 < cap
                => First(total + 1, g, cap) = First(total, g, cap)
           /\ ~(total - First(total, g, cap) + 1 < cap)
                => /\ First(total + 1, g, cap) = First(total, g, cap) + 1
                   /\ total - First(total, g, cap) + 1 = cap
BY DEF First

LEMMA WindowOffer ==
    ASSUME NEW cap \in Nat \ {0}, NEW buf, NEW total, NEW g, Window(buf, total, g, cap),
           NEW x, x = total + 1
    PROVE  Window(Offer(buf, x, cap), x, g, cap)
<1> DEFINE F == First(total, g, cap)
<1> DEFINE G == First(x, g, cap)
<1> DEFINE next == Offer(buf, x, cap)
<1>1. /\ total \in Nat /\ x \in Nat
      /\ Wanted(g) \in 1 .. total + 1 /\ Wanted(g) \in 1 .. x + 1
  BY DEF Window
<1>2. buf \in Seq(Nat) /\ g \in Seq(Nat)
  BY DEF Window
<1>3. Len(buf) \in Nat
  BY <1>2, ST!LenProperties
<1>4. Len(buf) = total - F + 1 /\ \A i \in 1 .. Len(buf) : buf[i] = F + i - 1
  BY DEF Window
<1>5. F \in 1 .. total + 1
  BY <1>1, FirstInRange
<1>6. Len(buf) < cap => G = F
  BY <1>1, <1>4, FirstOfOffer
<1>7. ~(Len(buf) < cap) => G = F + 1 /\ Len(buf) = cap
  BY <1>1, <1>4, FirstOfOffer
<1>8. next = IF Len(buf) < cap THEN Append(buf, x) ELSE Append(Tail(buf), x)
  BY DEF Offer
<1> HIDE DEF F, G, next
<1>9. /\ next \in Seq(Nat)
      /\ Len(next) = x - G + 1
      /\ \A i \in 1 .. Len(next) : next[i] = G + i - 1
  <2>1. CASE Len(buf) < cap
    <3>1. next = Append(buf, x)
      BY <1>8, <2>1
    <3>2. /\ next \in Seq(Nat) /\ Len(next) = Len(buf) + 1
          /\ \A i \in 1 .. Len(buf) : next[i] = buf[i]
          /\ next[Len(buf) + 1] = x
      BY <1>1, <1>2, <3>1, ST!AppendProperties
    <3>3. Len(next) = x - G + 1
      BY <1>1, <1>3, <1>4, <1>5, <1>6, <2>1, <3>2
    <3>4. ASSUME NEW i \in 1 .. Len(next)
          PROVE  next[i] = G + i - 1
      <4>1. CASE i \in 1 .. Len(buf)
        BY <1>4, <1>6, <2>1, <3>2, <4>1
      <4>2. CASE i = Len(buf) + 1
        BY <1>1, <1>3, <1>4, <1>5, <1>6, <2>1, <3>2, <4>2
      <4> QED
        BY <1>3, <3>2, <4>1, <4>2
    <3> QED
      BY <3>2, <3>3, <3>4
  <2>2. CASE ~(Len(buf) < cap)
    <3> DEFINE t == Tail(buf)
    <3>1. next = Append(t, x)
      BY <1>8, <2>2
    <3>2. buf # <<>>
      BY <1>7, <2>2
    <3>3. /\ t \in Seq(Nat) /\ Len(t) = Len(buf) - 1
          /\ \A i \in 1 .. Len(t) : t[i] = buf[i + 1]
      BY <1>2, <3>2, ST!HeadTailProperties
    <3> HIDE DEF t
    <3>4. /\ next \in Seq(Nat) /\ Len(next) = Len(t) + 1
          /\ \A i \in 1 .. Len(t) : next[i] = t[i]
          /\ next[Len(t) + 1] = x
      BY <1>1, <3>1, <3>3, ST!AppendProperties
    <3>5. Len(next) = x - G + 1
      BY <1>1, <1>3, <1>4, <1>5, <1>7, <2>2, <3>3, <3>4
    <3>6. ASSUME NEW i \in 1 .. Len(next)
          PROVE  next[i] = G + i - 1
      <4>1. CASE i \in 1 .. Len(t)
        <5>1. i + 1 \in 1 .. Len(buf)
          BY <1>3, <3>3, <4>1
        <5>2. next[i] = buf[i + 1]
          BY <3>3, <3>4, <4>1
        <5>3. buf[i + 1] = F + (i + 1) - 1
          BY <1>4, <5>1
        <5> QED
          BY <1>5, <1>7, <2>2, <5>2, <5>3
      <4>2. CASE i = Len(t) + 1
        BY <1>1, <1>3, <1>4, <1>5, <1>7, <2>2, <3>3, <3>4, <4>2
      <4> QED
        BY <1>3, <3>3, <3>4, <4>1, <4>2
    <3> QED
      BY <3>4, <3>5, <3>6
  <2> QED
    BY <2>1, <2>2
<1>10. /\ Offer(buf, x, cap) \in Seq(Nat)
      /\ Len(Offer(buf, x, cap)) = x - First(x, g, cap) + 1
      /\ \A i \in 1 .. Len(Offer(buf, x, cap)) :
           Offer(buf, x, cap)[i] = First(x, g, cap) + i - 1
  BY <1>9 DEF G, next
<1> QED
  BY <1>1, <1>2, <1>10, IsWindow

\* The n oldest of a window are numbered one after the other.
LEMMA WindowHead ==
    ASSUME NEW cap \in Nat \ {0}, NEW buf, NEW total, NEW g, Window(buf, total, g, cap),
           NEW n \in 1 .. Len(buf)
    PROVE  /\ SubSeq(buf, 1, n) \in Seq(Nat)
           /\ Len(SubSeq(buf, 1, n)) = n
           /\ SubSeq(buf, 1, n) = [i \in 1 .. n |-> First(total, g, cap) + i - 1]
<1> DEFINE head == SubSeq(buf, 1, n)
<1>1. /\ total \in Nat /\ buf \in Seq(Nat)
      /\ \A i \in 1 .. Len(buf) : buf[i] = First(total, g, cap) + i - 1
  BY DEF Window
<1>2. Len(buf) \in Nat /\ \A i \in 1 .. n : buf[i] \in Nat
  BY <1>1, ST!LenProperties, ST!ElementOfSeq
<1>3. /\ head \in Seq(Nat) /\ Len(head) = n
      /\ \A i \in 1 .. n : head[i] = buf[i]
  BY <1>2, ST!SubSeqProperties
<1>4. DOMAIN head = 1 .. n
  BY <1>3, ST!LenProperties
<1> QED
  BY <1>1, <1>2, <1>3, <1>4

LEMMA WindowTake ==
    ASSUME NEW cap \in Nat \ {0}, NEW buf, NEW total, NEW g, Window(buf, total, g, cap),
           NEW n \in 1 .. Len(buf)
    PROVE  Window(SubSeq(buf, n + 1, Len(buf)), total, g \o SubSeq(buf, 1, n), cap)
<1> DEFINE F == First(total, g, cap)
<1> DEFINE head == SubSeq(buf, 1, n)
<1> DEFINE rest == SubSeq(buf, n + 1, Len(buf))
<1> DEFINE after == g \o head
<1>1. /\ total \in Nat /\ buf \in Seq(Nat) /\ g \in Seq(Nat) /\ Len(buf) \in Nat
      /\ Wanted(g) \in 1 .. total + 1
      /\ Len(buf) = total - F + 1
      /\ \A i \in 1 .. Len(buf) : buf[i] = F + i - 1
  BY ST!LenProperties DEF Window
<1>2. F \in 1 .. total + 1 /\ F >= total - cap + 1
  BY <1>1, FirstInRange
<1>3. head \in Seq(Nat) /\ Len(head) = n /\ head[n] = F + n - 1
  BY <1>1, WindowHead
<1>4. /\ rest \in Seq(Nat) /\ Len(rest) = Len(buf) - n
      /\ \A i \in 1 .. Len(rest) : rest[i] = buf[n + i]
  <2>1. \A i \in n + 1 .. Len(buf) : buf[i] \in Nat
    BY <1>1, ST!ElementOfSeq
  <2>2. /\ rest \in Seq(Nat)
        /\ Len(rest) = IF n + 1 <= Len(buf) THEN Len(buf) - (n + 1) + 1 ELSE 0
        /\ \A i \in 1 .. Len(buf) - (n + 1) + 1 : rest[i] = buf[n + 1 + i - 1]
    BY <1>1, <2>1, ST!SubSeqProperties
  <2> HIDE DEF rest
  <2>3. Len(rest) = Len(buf) - n
    BY <1>1, <2>2
  <2>4. ASSUME NEW i \in 1 .. Len(rest)
        PROVE  rest[i] = buf[n + i]
    <3>1. i \in 1 .. Len(buf) - (n + 1) + 1
      BY <1>1, <2>3
    <3>2. rest[i] = buf[n + 1 + i - 1]
      BY <2>2, <3>1
    <3>3. n + 1 + i - 1 = n + i
      OBVIOUS
    <3> QED
      BY <3>2, <3>3
  <2> QED
    BY <2>2, <2>3, <2>4
<1>5. after \in Seq(Nat) /\ Len(after) = Len(g) + n /\ after[Len(g) + n] = F + n - 1
  <2>1. /\ after \in Seq(Nat) /\ Len(after) = Len(g) + Len(head)
        /\ \A i \in 1 .. Len(g) + Len(head) :
             after[i] = IF i <= Len(g) THEN g[i] ELSE head[i - Len(g)]
    BY <1>1, <1>3, ST!ConcatProperties
  <2>2. Len(g) \in Nat
    BY <1>1, ST!LenProperties
  <2> HIDE DEF after, head, F
  <2>3. Len(g) + n \in 1 .. Len(g) + Len(head) /\ ~(Len(g) + n <= Len(g)) /\ Len(g) + n - Len(g) = n
    BY <1>3, <2>2
  <2>4. after[Len(g) + n] = head[n]
    BY <2>1, <2>3
  <2> QED
    BY <1>3, <2>1, <2>4
<1>6. Wanted(after) = F + n
  <2>1. after # <<>>
    <3>1. Len(g) \in Nat
      BY <1>1, ST!LenProperties
    <3> HIDE DEF after
    <3> QED
      BY <1>5, <3>1
  <2> HIDE DEF after, F
  <2> QED
    BY <1>2, <1>5, <2>1 DEF Wanted
<1>7. First(total, after, cap) = F + n
  <2> HIDE DEF after, F
  <2> QED
    BY <1>1, <1>2, <1>6 DEF First
<1>8. /\ Wanted(after) \in 1 .. total + 1
      /\ Len(rest) = total - First(total, after, cap) + 1
      /\ \A i \in 1 .. Len(rest) : rest[i] = First(total, after, cap) + i - 1
  <2> HIDE DEF after, F, rest
  <2> QED
    BY <1>1, <1>2, <1>4, <1>6, <1>7
<1> QED
  BY <1>1, <1>4, <1>5, <1>8 DEF Window

\* What the lossy feed lets a consumer take next.
Takes(total, g, cap, after) ==
    \E last \in First(total, g, cap) .. total :
      after = g \o [i \in 1 .. last - First(total, g, cap) + 1 |-> First(total, g, cap) + i - 1]

LEMMA WindowTaken ==
    ASSUME NEW cap \in Nat \ {0}, NEW buf, NEW total, NEW g, Window(buf, total, g, cap),
           NEW n \in 1 .. Len(buf)
    PROVE  Takes(total, g, cap, g \o SubSeq(buf, 1, n))
<1> DEFINE F == First(total, g, cap)
<1>1. total \in Nat /\ Wanted(g) \in 1 .. total + 1 /\ Len(buf) = total - F + 1
  BY DEF Window
<1>2. F \in 1 .. total + 1
  BY <1>1, FirstInRange
<1>3. SubSeq(buf, 1, n) = [i \in 1 .. n |-> F + i - 1]
  BY WindowHead
<1> HIDE DEF F
<1>4. F + n - 1 \in F .. total /\ (F + n - 1) - F + 1 = n
  BY <1>1, <1>2
<1>5. \E last \in F .. total : SubSeq(buf, 1, n) = [i \in 1 .. last - F + 1 |-> F + i - 1]
  BY <1>3, <1>4
<1> QED
  BY <1>5 DEF F, Takes

-----------------------------------------------------------------------------
(* The streams *)

\* How many items were sent to a queue.
Sent(q) == IF q = "adapter" THEN Len(emitted) ELSE Len(published)

Streams ==
    /\ emitted \in Seq(Events) /\ published \in Seq(Events)
    /\ queue \in [Queues -> Seq(Nat)] /\ got \in [Queues -> Seq(Nat)]
    /\ \A q \in Queues : Window(queue[q], Sent(q), got[q], Cap[q])

\* A step of the lossy feed of q, or one that it does not see.
FeedStep(q) ==
    \/ Sent(q)' \in {Sent(q), Sent(q) + 1} /\ got'[q] = got[q]
    \/ Sent(q)' = Sent(q) /\ Takes(Sent(q), got[q], Cap[q], got'[q])

\* What Pump does to the streams.
Pumped ==
    /\ queue["adapter"] # <<>>
    /\ published' = Append(published, emitted[Head(queue["adapter"])])
    /\ got' = [got EXCEPT !["adapter"] = Append(@, Head(queue["adapter"]))]
    /\ queue' = [q \in Queues |->
                   IF q = "adapter" THEN Tail(queue[q])
                                    ELSE Offer(queue[q], Len(published'), Cap[q])]
    /\ UNCHANGED emitted

LEMMA StreamsInit == Init => Streams
<1> SUFFICES ASSUME Init
             PROVE  Streams
  OBVIOUS
<1>1. <<>> \in Seq(Nat) /\ <<>> \in Seq(Events) /\ Len(<<>>) = 0
  OBVIOUS
<1>2. emitted = <<>> /\ published = <<>> /\ queue = [q \in Queues |-> <<>>] /\ got = [q \in Queues |-> <<>>]
  BY DEF Init
<1>3. ASSUME NEW q \in Queues
      PROVE  Window(queue[q], Sent(q), got[q], Cap[q])
  <2>1. queue[q] = <<>> /\ got[q] = <<>> /\ Sent(q) = 0
    BY <1>2 DEF Sent
  <2>2. Cap[q] \in Nat \ {0}
    BY PipelineAssumption
  <2> QED
    BY <2>1, <2>2, WindowOfNothing
<1> QED
  BY <1>1, <1>2, <1>3 DEF Streams

LEMMA CapOf == \A q \in Queues : Cap[q] \in Nat \ {0}
BY PipelineAssumption

LEMMA SentIsNat == Streams => \A q \in Queues : Sent(q) \in Nat
BY DEF Streams, Window

\* An item is offered to q.
LEMMA Offered ==
    ASSUME Streams, NEW q \in Queues,
           Sent(q)' = Sent(q) + 1, got'[q] = got[q],
           queue'[q] = Offer(queue[q], Sent(q)', Cap[q])
    PROVE  /\ Window(queue'[q], Sent(q)', got'[q], Cap[q])
           /\ queue'[q] \in Seq(Nat) /\ got'[q] \in Seq(Nat)
           /\ FeedStep(q)
<1>1. Window(queue[q], Sent(q), got[q], Cap[q])
  BY DEF Streams
<1>2. Window(Offer(queue[q], Sent(q)', Cap[q]), Sent(q)', got[q], Cap[q])
  BY <1>1, CapOf, WindowOffer
<1>3. Window(queue'[q], Sent(q)', got'[q], Cap[q])
  BY <1>2
<1>4. FeedStep(q)
  BY DEF FeedStep
<1>5. queue'[q] \in Seq(Nat) /\ got'[q] \in Seq(Nat)
  BY <1>3 DEF Window
<1> QED
  BY <1>3, <1>4, <1>5

\* The consumer of q takes n items.
LEMMA ItemsTaken ==
    ASSUME Streams, NEW q \in Queues, NEW n \in 1 .. Len(queue[q]),
           Sent(q)' = Sent(q),
           got'[q] = got[q] \o SubSeq(queue[q], 1, n),
           queue'[q] = SubSeq(queue[q], n + 1, Len(queue[q]))
    PROVE  /\ Window(queue'[q], Sent(q)', got'[q], Cap[q])
           /\ queue'[q] \in Seq(Nat) /\ got'[q] \in Seq(Nat)
           /\ FeedStep(q)
<1>1. Window(queue[q], Sent(q), got[q], Cap[q])
  BY DEF Streams
<1>2. Window(SubSeq(queue[q], n + 1, Len(queue[q])), Sent(q),
             got[q] \o SubSeq(queue[q], 1, n), Cap[q])
  BY <1>1, CapOf, WindowTake
<1>3. Window(queue'[q], Sent(q)', got'[q], Cap[q])
  BY <1>2
<1>4. FeedStep(q)
  <2>1. Takes(Sent(q), got[q], Cap[q], got[q] \o SubSeq(queue[q], 1, n))
    BY <1>1, CapOf, WindowTaken
  <2> QED
    BY <2>1 DEF FeedStep
<1>5. queue'[q] \in Seq(Nat) /\ got'[q] \in Seq(Nat)
  BY <1>3 DEF Window
<1> QED
  BY <1>3, <1>4, <1>5

\* The step leaves q alone.
LEMMA LeftAlone ==
    ASSUME Streams, NEW q \in Queues,
           Sent(q)' = Sent(q), got'[q] = got[q], queue'[q] = queue[q]
    PROVE  /\ Window(queue'[q], Sent(q)', got'[q], Cap[q])
           /\ queue'[q] \in Seq(Nat) /\ got'[q] \in Seq(Nat)
           /\ FeedStep(q)
<1>1. Window(queue[q], Sent(q), got[q], Cap[q])
  BY DEF Streams
<1>2. Window(queue'[q], Sent(q)', got'[q], Cap[q])
  BY <1>1
<1> QED
  BY <1>2 DEF Window, FeedStep

LEMMA FromQueues ==
    ASSUME Streams, emitted' \in Seq(Events), published' \in Seq(Events),
           DOMAIN queue' = Queues, DOMAIN got' = Queues,
           queue' = [q \in Queues |-> queue'[q]], got' = [q \in Queues |-> got'[q]],
           \A q \in Queues : /\ Window(queue'[q], Sent(q)', got'[q], Cap[q])
                             /\ queue'[q] \in Seq(Nat) /\ got'[q] \in Seq(Nat)
                             /\ FeedStep(q)
    PROVE  Streams' /\ \A q \in Queues : FeedStep(q)
BY DEF Streams

LEMMA StepEmitted ==
    ASSUME Streams, NEW e \in Events, Emitted(e)
    PROVE  Streams' /\ \A q \in Queues : FeedStep(q)
<1>1. /\ emitted' = Append(emitted, e) /\ published' = published /\ got' = got
      /\ queue' = [queue EXCEPT !["adapter"] = Offer(@, Len(emitted'), Cap["adapter"])]
  BY DEF Emitted
<1>2. emitted \in Seq(Events) /\ published \in Seq(Events)
      /\ queue \in [Queues -> Seq(Nat)] /\ got \in [Queues -> Seq(Nat)]
  BY DEF Streams
<1>3. emitted' \in Seq(Events) /\ published' \in Seq(Events) /\ Len(emitted') = Len(emitted) + 1
  BY <1>1, <1>2, ST!AppendProperties
<1>4. /\ DOMAIN queue' = Queues /\ DOMAIN got' = Queues
      /\ queue' = [q \in Queues |-> queue'[q]] /\ got' = [q \in Queues |-> got'[q]]
  BY <1>1, <1>2
<1>5. ASSUME NEW q \in Queues
      PROVE  /\ Window(queue'[q], Sent(q)', got'[q], Cap[q])
             /\ queue'[q] \in Seq(Nat) /\ got'[q] \in Seq(Nat)
             /\ FeedStep(q)
  <2>1. CASE q = "adapter"
    <3>1. Sent(q)' = Sent(q) + 1 /\ Sent(q)' = Len(emitted')
      BY <1>3, <2>1 DEF Sent
    <3>2. got'[q] = got[q] /\ queue'[q] = Offer(queue[q], Len(emitted'), Cap[q])
      BY <1>1, <1>2, <2>1
    <3>3. queue'[q] = Offer(queue[q], Sent(q)', Cap[q])
      BY <3>1, <3>2
    <3> QED
      BY <3>1, <3>2, <3>3, Offered
  <2>2. CASE q # "adapter"
    <3>1. Sent(q)' = Sent(q)
      BY <1>1, <2>2 DEF Sent
    <3>2. got'[q] = got[q] /\ queue'[q] = queue[q]
      BY <1>1, <1>2, <2>2
    <3> QED
      BY <3>1, <3>2, LeftAlone
  <2> QED
    BY <2>1, <2>2
<1> QED
  BY <1>3, <1>4, <1>5, FromQueues

LEMMA StepTaken ==
    ASSUME Streams, NEW s \in Queues, NEW n \in 1 .. Len(queue[s]), Taken(s, n)
    PROVE  Streams' /\ \A q \in Queues : FeedStep(q)
<1>1. /\ emitted' = emitted /\ published' = published
      /\ queue' = [queue EXCEPT ![s] = SubSeq(@, n + 1, Len(@))]
      /\ got' = [got EXCEPT ![s] = @ \o SubSeq(queue[s], 1, n)]
  BY DEF Taken
<1>2. emitted \in Seq(Events) /\ published \in Seq(Events)
      /\ queue \in [Queues -> Seq(Nat)] /\ got \in [Queues -> Seq(Nat)]
  BY DEF Streams
<1>3. emitted' \in Seq(Events) /\ published' \in Seq(Events)
  BY <1>1, <1>2
<1>4. /\ DOMAIN queue' = Queues /\ DOMAIN got' = Queues
      /\ queue' = [q \in Queues |-> queue'[q]] /\ got' = [q \in Queues |-> got'[q]]
  BY <1>1, <1>2
<1>5. ASSUME NEW q \in Queues
      PROVE  /\ Window(queue'[q], Sent(q)', got'[q], Cap[q])
             /\ queue'[q] \in Seq(Nat) /\ got'[q] \in Seq(Nat)
             /\ FeedStep(q)
  <2>1. Sent(q)' = Sent(q)
    BY <1>1 DEF Sent
  <2>2. CASE q = s
    <3>1. /\ got'[q] = got[q] \o SubSeq(queue[q], 1, n)
          /\ queue'[q] = SubSeq(queue[q], n + 1, Len(queue[q]))
      BY <1>1, <1>2, <2>2
    <3>2. n \in 1 .. Len(queue[q])
      BY <2>2
    <3> QED
      BY <2>1, <3>1, <3>2, ItemsTaken
  <2>3. CASE q # s
    <3>1. got'[q] = got[q] /\ queue'[q] = queue[q]
      BY <1>1, <1>2, <2>3
    <3> QED
      BY <2>1, <3>1, LeftAlone
  <2> QED
    BY <2>2, <2>3
<1> QED
  BY <1>3, <1>4, <1>5, FromQueues

LEMMA StepPumped ==
    ASSUME Streams, Pumped
    PROVE  Streams' /\ \A q \in Queues : FeedStep(q)
<1> DEFINE a == queue["adapter"]
<1>1. /\ a # <<>> /\ emitted' = emitted
      /\ published' = Append(published, emitted[Head(a)])
      /\ got' = [got EXCEPT !["adapter"] = Append(@, Head(a))]
      /\ queue' = [q \in Queues |->
                     IF q = "adapter" THEN Tail(queue[q])
                                      ELSE Offer(queue[q], Len(published'), Cap[q])]
  BY DEF Pumped
<1>2. emitted \in Seq(Events) /\ published \in Seq(Events)
      /\ queue \in [Queues -> Seq(Nat)] /\ got \in [Queues -> Seq(Nat)]
  BY DEF Streams
<1>3. a \in Seq(Nat) /\ Len(a) \in Nat \ {0} /\ 1 \in 1 .. Len(a) /\ "adapter" \in Queues
  <2>1. "adapter" \in Queues
    BY DEF Queues
  <2>2. a \in Seq(Nat)
    BY <1>2, <2>1
  <2>3. Len(a) \in Nat \ {0}
    BY <1>1, <2>2, ST!EmptySeq
  <2> QED
    BY <2>1, <2>2, <2>3
<1>4. Head(a) = a[1] /\ a[1] \in 1 .. Len(emitted)
  <2>1. Window(a, Len(emitted), got["adapter"], Cap["adapter"])
    BY <1>3 DEF Streams, Sent
  <2> DEFINE F == First(Len(emitted), got["adapter"], Cap["adapter"])
  <2>2. Len(a) = Len(emitted) - F + 1 /\ a[1] = F + 1 - 1 /\ Len(emitted) \in Nat
    BY <1>3, <2>1 DEF Window
  <2>3. F \in 1 .. Len(emitted) + 1
    BY <2>1, CapOf, <1>3, FirstInRange DEF Window
  <2>4. Head(a) = a[1]
    BY <1>1, <1>3
  <2> HIDE DEF F, a
  <2> QED
    BY <1>3, <2>2, <2>3, <2>4
<1>5. emitted[Head(a)] \in Events
  BY <1>2, <1>4, ST!ElementOfSeq
<1>6. emitted' \in Seq(Events) /\ published' \in Seq(Events) /\ Len(published') = Len(published) + 1
  BY <1>1, <1>2, <1>5, ST!AppendProperties
<1>7. /\ DOMAIN queue' = Queues /\ DOMAIN got' = Queues
      /\ queue' = [q \in Queues |-> queue'[q]] /\ got' = [q \in Queues |-> got'[q]]
  BY <1>1, <1>2
<1>8. ASSUME NEW q \in Queues
      PROVE  /\ Window(queue'[q], Sent(q)', got'[q], Cap[q])
             /\ queue'[q] \in Seq(Nat) /\ got'[q] \in Seq(Nat)
             /\ FeedStep(q)
  <2>1. CASE q = "adapter"
    <3>1. Sent(q)' = Sent(q)
      BY <1>1, <2>1 DEF Sent
    <3>2. got'[q] = Append(got[q], a[1]) /\ queue'[q] = Tail(a) /\ queue[q] = a
      BY <1>1, <1>2, <1>4, <2>1
    <3>3. Tail(a) = SubSeq(a, 1 + 1, Len(a))
      BY <1>1, <1>3, ST!TailIsSubSeq
    <3>4. SubSeq(a, 1, 1) = <<a[1]>>
      <4>1. a[1] \in Nat /\ \A i \in 1 .. 1 : a[i] \in Nat
        BY <1>3, ST!ElementOfSeq
      <4>2. /\ SubSeq(a, 1, 1) \in Seq(Nat) /\ Len(SubSeq(a, 1, 1)) = 1
            /\ SubSeq(a, 1, 1)[1] = a[1]
        BY <4>1, ST!SubSeqProperties
      <4>3. <<a[1]>> \in Seq(Nat) /\ Len(<<a[1]>>) = 1 /\ <<a[1]>>[1] = a[1]
        BY <4>1
      <4> DEFINE x == SubSeq(a, 1, 1)
      <4> DEFINE y == <<a[1]>>
      <4>4. x \in Seq(Nat) /\ y \in Seq(Nat) /\ Len(x) = 1 /\ Len(y) = 1 /\ x[1] = y[1]
        BY <4>2, <4>3
      <4> HIDE DEF x, y
      <4>5. Len(x) = Len(y) /\ \A i \in 1 .. Len(x) : x[i] = y[i]
        BY <4>4
      <4>6. x = y
        BY <4>4, <4>5, ST!SeqEqual
      <4> QED
        BY <4>6 DEF x, y
    <3>5. Append(got[q], a[1]) = got[q] \o <<a[1]>>
      BY <1>2, <1>3, ST!AppendIsConcat, ST!ElementOfSeq
    <3>6. /\ got'[q] = got[q] \o SubSeq(queue[q], 1, 1)
          /\ queue'[q] = SubSeq(queue[q], 1 + 1, Len(queue[q]))
          /\ 1 \in 1 .. Len(queue[q])
      BY <1>3, <3>2, <3>3, <3>4, <3>5
    <3> QED
      BY <3>1, <3>6, ItemsTaken
  <2>2. CASE q # "adapter"
    <3>1. Sent(q)' = Sent(q) + 1 /\ Sent(q)' = Len(published')
      BY <1>6, <2>2 DEF Sent
    <3>2. got'[q] = got[q] /\ queue'[q] = Offer(queue[q], Len(published'), Cap[q])
      BY <1>1, <1>2, <2>2
    <3>3. queue'[q] = Offer(queue[q], Sent(q)', Cap[q])
      BY <3>1, <3>2
    <3> QED
      BY <3>1, <3>2, <3>3, Offered
  <2> QED
    BY <2>1, <2>2
<1> QED
  BY <1>6, <1>7, <1>8, FromQueues

LEMMA StepOther ==
    ASSUME Streams, UNCHANGED streams
    PROVE  Streams' /\ \A q \in Queues : FeedStep(q)
<1>1. emitted' = emitted /\ published' = published /\ queue' = queue /\ got' = got
  BY DEF streams
<1>2. ASSUME NEW q \in Queues
      PROVE  Sent(q)' = Sent(q) /\ FeedStep(q)
  BY <1>1 DEF Sent, FeedStep
<1> QED
  BY <1>1, <1>2 DEF Streams

\* Every step of the pipeline is one of these.
LEMMA StreamsStep ==
    ASSUME Streams, [Next]_vars
    PROVE  Streams' /\ \A q \in Queues : FeedStep(q)
<1>1. emitted \in Seq(Events) /\ queue \in [Queues -> Seq(Nat)]
  BY DEF Streams
<1>2. \A q \in Queues : queue[q] # <<>> => Len(queue[q]) \in Nat \ {0}
  BY <1>1, ST!EmptySeq
<1>3. {"storage", "state", "race"} \subseteq Queues
  BY DEF Queues, Subscribers
<1>4. CASE Emit
  <2>1. PICK story \in Stories :
          IsStrictPrefix(emitted, story) /\ Emitted(story[Len(emitted) + 1])
    BY <1>4 DEF Emit
  <2>2. story \in Seq(Events)
    BY PipelineAssumption
  <2>3. Len(emitted) \in Nat /\ Len(story) \in Nat
    BY <1>1, <2>2, ST!LenProperties
  <2>4. Len(emitted) < Len(story)
    <3>1. Len(emitted) <= Len(story) /\ emitted # story
      BY <2>1 DEF IsStrictPrefix, IsPrefix
    <3>2. SubSeq(emitted, 1, Len(emitted)) = SubSeq(story, 1, Len(emitted))
      BY <2>1 DEF IsStrictPrefix, IsPrefix
    <3>3. ASSUME Len(emitted) = Len(story)
          PROVE  FALSE
      BY <1>1, <2>2, <3>1, <3>2, <3>3, ST!SubSeqFull
    <3> QED
      BY <2>3, <3>1, <3>3
  <2>5. story[Len(emitted) + 1] \in Events
    BY <2>2, <2>3, <2>4, ST!ElementOfSeq
  <2> QED
    BY <2>1, <2>5, StepEmitted
<1>5. CASE Pump
  BY <1>5, StepPumped DEF Pump, Pumped
<1>6. ASSUME Collected, queue["storage"] # <<>>
      PROVE  Streams' /\ \A q \in Queues : FeedStep(q)
  <2> DEFINE n == IF Len(queue["storage"]) < Batch THEN Len(queue["storage"]) ELSE Batch
  <2>1. n \in 1 .. Len(queue["storage"])
    BY <1>2, <1>3, <1>6, PipelineAssumption
  <2>2. Taken("storage", n)
    BY <1>6 DEF Collected
  <2> HIDE DEF n
  <2> QED
    BY <1>3, <2>1, <2>2, StepTaken
<1>7. CASE Write
  BY <1>6, <1>7 DEF Write
<1>8. CASE WriterEnds
  BY <1>6, <1>8, StepOther DEF WriterEnds
<1>9. CASE WriterCloses
  <2>1. CASE queue["storage"] # <<>>
    <3>1. Taken("storage", Len(queue["storage"]))
      BY <1>9, <2>1 DEF WriterCloses
    <3>2. Len(queue["storage"]) \in 1 .. Len(queue["storage"])
      BY <1>2, <1>3, <2>1
    <3> QED
      BY <1>3, <3>1, <3>2, StepTaken
  <2>2. CASE queue["storage"] = <<>>
    BY <1>9, <2>2, StepOther DEF WriterCloses
  <2> QED
    BY <2>1, <2>2
<1>10. ASSUME NEW s \in {"state", "race"}, queue[s] # <<>>, Taken(s, 1)
       PROVE  Streams' /\ \A q \in Queues : FeedStep(q)
  <2>1. s \in Queues /\ 1 \in 1 .. Len(queue[s])
    BY <1>2, <1>3, <1>10
  <2> QED
    BY <1>10, <2>1, StepTaken
<1>11. CASE Manage
  BY <1>10, <1>11 DEF Manage
<1>12. CASE ManagerEnds
  BY <1>10, <1>12, StepOther DEF ManagerEnds
<1>13. CASE RaceCalls
  BY <1>10, <1>13 DEF RaceCalls
<1>14. CASE AdapterStops
  <2>1. [kind |-> "link", car |-> None, n |-> 0, ms |-> 0] \in Events
    BY DEF Events, None
  <2> QED
    BY <1>14, <2>1, StepEmitted, StepOther DEF AdapterStops
<1>15. CASE Refresh \/ ManagerCloses \/ RaceReturns \/ RaceStops \/ ProcessEnds \/ Signal \/ PumpCancelled
  <2>1. UNCHANGED streams
    BY <1>15 DEF Refresh, ManagerCloses, RaceReturns, RaceStops, ProcessEnds, Signal, PumpCancelled
  <2> QED
    BY <2>1, StepOther
<1>16. CASE UNCHANGED vars
  <2>1. UNCHANGED streams
    BY <1>16 DEF vars
  <2> QED
    BY <2>1, StepOther
<1> QED
  BY <1>4, <1>5, <1>7, <1>8, <1>9, <1>11, <1>12, <1>13, <1>14, <1>15, <1>16 DEF Next, Shutdown

LEMMA AlwaysStreams == Spec => []Streams
<1>1. Streams /\ [Next]_vars => Streams'
  BY StreamsStep
<1> QED
  BY <1>1, StreamsInit, PTL DEF Spec

-----------------------------------------------------------------------------
(* The feeds *)

LEMMA FeedsInit ==
    Init => AdapterFeed!Init /\ StorageFeed!Init /\ StateFeed!Init /\ RaceFeed!Init
BY DEF Init, Queues, Subscribers, AdapterFeed!Init, StorageFeed!Init, StateFeed!Init, RaceFeed!Init

LEMMA FeedsNext ==
    ASSUME Streams, \A q \in Queues : FeedStep(q)
    PROVE  /\ [AdapterFeed!Next]_AdapterFeed!vars
           /\ [StorageFeed!Next]_StorageFeed!vars
           /\ [StateFeed!Next]_StateFeed!vars
           /\ [RaceFeed!Next]_RaceFeed!vars
<1>1. FeedStep("adapter") /\ FeedStep("storage") /\ FeedStep("state") /\ FeedStep("race")
  BY DEF Queues, Subscribers
<1>2. [AdapterFeed!Next]_AdapterFeed!vars
  BY <1>1 DEF FeedStep, Takes, First, Wanted, Sent, AdapterFeed!Next, AdapterFeed!vars,
              AdapterFeed!Send, AdapterFeed!Take, AdapterFeed!Oldest
<1>3. [StorageFeed!Next]_StorageFeed!vars
  BY <1>1 DEF FeedStep, Takes, First, Wanted, Sent, StorageFeed!Next, StorageFeed!vars,
              StorageFeed!Send, StorageFeed!Take, StorageFeed!Oldest
<1>4. [StateFeed!Next]_StateFeed!vars
  BY <1>1 DEF FeedStep, Takes, First, Wanted, Sent, StateFeed!Next, StateFeed!vars,
              StateFeed!Send, StateFeed!Take, StateFeed!Oldest
<1>5. [RaceFeed!Next]_RaceFeed!vars
  BY <1>1 DEF FeedStep, Takes, First, Wanted, Sent, RaceFeed!Next, RaceFeed!vars,
              RaceFeed!Send, RaceFeed!Take, RaceFeed!Oldest
<1> QED
  BY <1>2, <1>3, <1>4, <1>5

\* The pump and every subscriber is served as the lossy feed promises, whatever the
\* others do (event_bus.py, publish; main.py, pump; the consumers' loops).
THEOREM FeedsKept == Spec => FeedSpec
<1>1. Streams /\ [Next]_vars =>
        /\ [AdapterFeed!Next]_AdapterFeed!vars
        /\ [StorageFeed!Next]_StorageFeed!vars
        /\ [StateFeed!Next]_StateFeed!vars
        /\ [RaceFeed!Next]_RaceFeed!vars
  BY StreamsStep, FeedsNext
<1> QED
  BY <1>1, FeedsInit, AlwaysStreams, PTL
     DEF Spec, FeedSpec, AdapterFeed!Spec, StorageFeed!Spec, StateFeed!Spec, RaceFeed!Spec

-----------------------------------------------------------------------------
(* Types *)

\* What main.py has stopped stays stopped, and the writer's queue is empty when it is
\* told to stop.
Stages ==
    /\ main \in {"serving", "pump", "adapter", "state", "writer", "race", "joining", "down"}
    /\ pumping \in BOOLEAN /\ writing \in BOOLEAN /\ managing \in BOOLEAN
    /\ racing \in BOOLEAN /\ busy \in BOOLEAN
    /\ main \notin {"serving", "pump"} => ~pumping
    /\ main \in {"race", "joining", "down"} => ~writing /\ queue["storage"] = <<>>

\* A step that leaves the writer's queue alone.
LEMMA StagesAside ==
    ASSUME Stages, queue'["storage"] = queue["storage"],
           pumping' = pumping, writing' = writing, managing' \in {managing, FALSE},
           racing' \in {racing, FALSE}, busy' \in BOOLEAN, main' = main
    PROVE  Stages'
BY DEF Stages

\* Taking all of a queue empties it.
LEMMA AllTaken ==
    ASSUME Streams, NEW s \in Queues, Taken(s, Len(queue[s]))
    PROVE  queue'[s] = <<>>
<1>1. queue[s] \in Seq(Nat)
  BY DEF Streams
<1>2. queue'[s] = SubSeq(queue[s], Len(queue[s]) + 1, Len(queue[s]))
  BY DEF Taken, Streams
<1>3. Len(queue[s]) \in Nat
  BY <1>1, ST!LenProperties
<1> QED
  BY <1>1, <1>2, <1>3, ST!SubSeqEmpty

LEMMA StagesStep ==
    Streams /\ Stages /\ [Next]_vars => Stages'
<1> SUFFICES ASSUME Streams, Stages, [Next]_vars
             PROVE  Stages'
  OBVIOUS
<1>1. /\ queue \in [Queues -> Seq(Nat)] /\ "storage" \in Queues
  BY DEF Streams, Queues, Subscribers
<1>2. CASE Emit
  <2>1. queue'["storage"] = queue["storage"]
    BY <1>1, <1>2 DEF Emit, Emitted
  <2> QED
    BY <1>2, <2>1, StagesAside DEF Emit, writer, manager, runner, Stages
<1>3. CASE Pump
  <2>1. main \in {"serving", "pump"} /\ main' = main
    BY <1>3 DEF Pump, Stages
  <2> QED
    BY <1>3, <2>1 DEF Pump, writer, manager, runner, Stages
<1>4. CASE Write
  <2>1. main \notin {"race", "joining", "down"} /\ main' = main
    BY <1>4 DEF Write, Stages
  <2> QED
    BY <1>4, <2>1 DEF Write, manager, runner, Stages
<1>5. CASE Manage \/ ManagerEnds \/ RaceCalls
  <2>1. UNCHANGED queue \/ Taken("state", 1) \/ Taken("race", 1)
    BY <1>5 DEF Manage, ManagerEnds, RaceCalls, streams
  <2>2. queue'["storage"] = queue["storage"]
    BY <1>1, <2>1 DEF Taken
  <2> QED
    BY <1>5, <2>2, StagesAside DEF Manage, ManagerEnds, RaceCalls, writer, manager, runner, Stages
<1>6. CASE WriterEnds
  BY <1>6 DEF WriterEnds, manager, runner, Stages
<1>7. CASE WriterCloses
  <2>1. queue'["storage"] = <<>>
    <3>1. CASE queue["storage"] # <<>>
      BY <1>1, <1>7, <3>1, AllTaken DEF WriterCloses
    <3>2. CASE queue["storage"] = <<>>
      BY <1>7, <3>2 DEF WriterCloses, streams
    <3> QED
      BY <3>1, <3>2
  <2>2. main = "writer" /\ ~writing /\ main' = "race" /\ UNCHANGED <<writing, manager, runner, pumping>>
    BY <1>7 DEF WriterCloses
  <2> QED
    BY <2>1, <2>2 DEF manager, runner, Stages
<1>8. CASE AdapterStops
  <2>1. queue'["storage"] = queue["storage"]
    BY <1>1, <1>8 DEF AdapterStops, Emitted, streams
  <2> QED
    BY <1>8, <2>1 DEF AdapterStops, writer, manager, runner, Stages
<1>9. CASE Refresh \/ RaceReturns
  BY <1>9, StagesAside DEF Refresh, RaceReturns, streams, writer, manager, runner, Stages
<1>10. CASE Signal
  BY <1>10 DEF Signal, streams, writer, manager, runner, Stages
<1>13. CASE PumpCancelled
  BY <1>13 DEF PumpCancelled, streams, writer, manager, runner, Stages
<1>14. CASE ManagerCloses
  <2>1. main = "state" /\ main' = "writer" /\ ~managing
    BY <1>14 DEF ManagerCloses
  <2>2. UNCHANGED <<streams, managing, writer, runner, pumping>>
    BY <1>14 DEF ManagerCloses
  <2> QED
    BY <2>1, <2>2 DEF streams, writer, runner, Stages
<1>11. CASE RaceStops
  BY <1>11 DEF RaceStops, streams, writer, manager, runner, Stages
<1>15. CASE ProcessEnds
  BY <1>15 DEF ProcessEnds, streams, writer, manager, runner, Stages
<1>12. CASE UNCHANGED vars
  BY <1>12 DEF vars, streams, writer, manager, runner, Stages
<1> QED
  BY <1>2, <1>3, <1>4, <1>5, <1>6, <1>7, <1>8, <1>9, <1>10, <1>11, <1>12, <1>13, <1>14,
     <1>15 DEF Next, Shutdown

LEMMA AlwaysStages == Spec => []Stages
<1>1. Init => Stages
  <2> SUFFICES ASSUME Init
               PROVE  Stages
    OBVIOUS
  <2>1. main = "serving" /\ pumping = TRUE /\ writing = TRUE /\ managing = TRUE /\ racing = TRUE /\ busy = FALSE
    BY DEF Init
  <2> QED
    BY <2>1 DEF Stages
<1> QED
  BY <1>1, AlwaysStreams, StagesStep, PTL DEF Spec

\* No queue holds more than it may, and what was said and published is whole, however
\* far the shutdown is (event_bus.py; main.py, pump).
THEOREM TypeCorrect == Spec => []TypeOK
<1>1. Streams /\ Stages => TypeOK
  <2> SUFFICES ASSUME Streams, Stages
               PROVE  TypeOK
    OBVIOUS
  <2>1. ASSUME NEW q \in Queues
        PROVE  Len(queue[q]) <= Cap[q]
    <3>1. Window(queue[q], Sent(q), got[q], Cap[q])
      BY DEF Streams
    <3>2. /\ Sent(q) \in Nat /\ Wanted(got[q]) \in 1 .. Sent(q) + 1
          /\ Len(queue[q]) = Sent(q) - First(Sent(q), got[q], Cap[q]) + 1
      BY <3>1 DEF Window
    <3>3. Cap[q] \in Nat \ {0}
      BY CapOf
    <3>4. /\ First(Sent(q), got[q], Cap[q]) \in Nat
          /\ First(Sent(q), got[q], Cap[q]) >= Sent(q) - Cap[q] + 1
      <4>1. First(Sent(q), got[q], Cap[q]) \in 1 .. Sent(q) + 1
        BY <3>2, <3>3, FirstInRange
      <4>2. First(Sent(q), got[q], Cap[q]) >= Sent(q) - Cap[q] + 1
        BY <3>2, <3>3, FirstInRange
      <4> QED
        BY <3>2, <4>1, <4>2
    <3> QED
      BY <3>2, <3>3, <3>4
  <2>2. DOMAIN queue = Queues /\ emitted \in Seq(Events) /\ published \in Seq(Events)
    BY DEF Streams
  <2>3. {pumping, writing, managing, racing, busy} \subseteq BOOLEAN
    BY DEF Stages
  <2> QED
    BY <2>1, <2>2, <2>3, Zenon DEF Stages, TypeOK
<1> QED
  BY <1>1, AlwaysStreams, AlwaysStages, PTL

-----------------------------------------------------------------------------
(* The log *)

Increasing(s) == \A i, j \in DOMAIN s : i < j => s[i] < s[j]

LEMMA ConcatIncreasing ==
    ASSUME NEW s \in Seq(Nat), NEW t \in Seq(Nat), Increasing(s), Increasing(t),
           \A i \in DOMAIN s, j \in DOMAIN t : s[i] < t[j]
    PROVE  /\ s \o t \in Seq(Nat) /\ Increasing(s \o t)
           /\ Range(s \o t) = Range(s) \cup Range(t)
           /\ Len(s \o t) = Len(s) + Len(t)
           /\ \A i \in 1 .. Len(s) : (s \o t)[i] = s[i]
<1> DEFINE u == s \o t
<1>1. /\ u \in Seq(Nat) /\ Len(u) = Len(s) + Len(t)
      /\ \A i \in 1 .. Len(s) + Len(t) : u[i] = IF i <= Len(s) THEN s[i] ELSE t[i - Len(s)]
  BY ST!ConcatProperties
<1>2. /\ Len(s) \in Nat /\ Len(t) \in Nat /\ DOMAIN s = 1 .. Len(s) /\ DOMAIN t = 1 .. Len(t)
  BY ST!LenProperties
<1>3. DOMAIN u = 1 .. Len(s) + Len(t)
  BY <1>1, ST!LenProperties
<1> HIDE DEF u
<1>4. \A i \in 1 .. Len(s) : u[i] = s[i]
  BY <1>1, <1>2
<1>5. \A j \in 1 .. Len(t) : u[Len(s) + j] = t[j]
  <2> TAKE j \in 1 .. Len(t)
  <2>1. Len(s) + j \in 1 .. Len(s) + Len(t) /\ ~(Len(s) + j <= Len(s)) /\ Len(s) + j - Len(s) = j
    BY <1>2
  <2> QED
    BY <1>1, <2>1
<1>6. \A i \in DOMAIN u : i \in 1 .. Len(s) \/ i - Len(s) \in 1 .. Len(t)
  BY <1>2, <1>3
<1>7. Increasing(u)
  <2> SUFFICES ASSUME NEW i \in DOMAIN u, NEW j \in DOMAIN u, i < j
               PROVE  u[i] < u[j]
    BY DEF Increasing
  <2>1. CASE j \in 1 .. Len(s)
    <3>1. i \in 1 .. Len(s)
      BY <1>2, <1>3, <2>1
    <3> QED
      BY <1>2, <1>4, <2>1, <3>1 DEF Increasing
  <2>2. CASE i \in 1 .. Len(s) /\ j - Len(s) \in 1 .. Len(t)
    <3>1. u[i] = s[i] /\ u[j] = t[j - Len(s)]
      BY <1>1, <1>2, <1>3, <2>2
    <3> QED
      BY <1>2, <2>2, <3>1
  <2>3. CASE i - Len(s) \in 1 .. Len(t) /\ j - Len(s) \in 1 .. Len(t)
    <3>1. u[i] = t[i - Len(s)] /\ u[j] = t[j - Len(s)]
      BY <1>1, <1>2, <1>3, <2>3
    <3>2. i - Len(s) < j - Len(s)
      BY <1>2, <1>3
    <3> QED
      BY <1>2, <2>3, <3>1, <3>2 DEF Increasing
  <2> QED
    BY <1>6, <2>1, <2>2, <2>3
<1>8. Range(u) = Range(s) \cup Range(t)
  <2>1. ASSUME NEW x \in Range(u)
        PROVE  x \in Range(s) \cup Range(t)
    <3>1. PICK i \in DOMAIN u : x = u[i]
      BY DEF Range
    <3>2. CASE i \in 1 .. Len(s)
      BY <1>2, <1>4, <3>1, <3>2 DEF Range
    <3>3. CASE i - Len(s) \in 1 .. Len(t)
      <4>1. u[i] = t[i - Len(s)]
        BY <1>1, <1>2, <1>3, <3>3
      <4> QED
        BY <1>2, <3>1, <3>3, <4>1 DEF Range
    <3> QED
      BY <1>6, <3>2, <3>3
  <2>2. ASSUME NEW x \in Range(s)
        PROVE  x \in Range(u)
    <3>1. PICK i \in DOMAIN s : x = s[i]
      BY DEF Range
    <3>2. i \in DOMAIN u /\ u[i] = x
      BY <1>2, <1>3, <1>4, <3>1
    <3> QED
      BY <3>2 DEF Range
  <2>3. ASSUME NEW x \in Range(t)
        PROVE  x \in Range(u)
    <3>1. PICK j \in DOMAIN t : x = t[j]
      BY DEF Range
    <3>2. Len(s) + j \in DOMAIN u /\ u[Len(s) + j] = x
      BY <1>2, <1>3, <1>5, <3>1
    <3> QED
      BY <3>2 DEF Range
  <2> QED
    BY <2>1, <2>2, <2>3
<1> QED
  BY <1>1, <1>4, <1>7, <1>8 DEF u

\* A consumer takes only what was sent, and takes it in order.
Numbered(q) ==
    /\ \A i \in DOMAIN got[q] : got[q][i] \in 1 .. Sent(q)
    /\ Increasing(got[q])

\* The numbers from first to last.
Run(first, last) == [i \in 1 .. last - first + 1 |-> first + i - 1]

LEMMA RunOf ==
    ASSUME NEW first \in Nat, NEW last \in Nat, first <= last
    PROVE  /\ Run(first, last) \in Seq(Nat) /\ Increasing(Run(first, last))
           /\ DOMAIN Run(first, last) = 1 .. last - first + 1
           /\ \A i \in DOMAIN Run(first, last) : Run(first, last)[i] \in first .. last
<1> DEFINE r == Run(first, last)
<1>1. DOMAIN r = 1 .. last - first + 1 /\ \A i \in DOMAIN r : r[i] = first + i - 1
  BY DEF Run
<1>2. last - first + 1 \in Nat
  OBVIOUS
<1>3. r \in [1 .. last - first + 1 -> Nat]
  <2>1. \A i \in 1 .. last - first + 1 : first + i - 1 \in Nat
    OBVIOUS
  <2> QED
    BY <2>1 DEF Run
<1>4. r \in Seq(Nat)
  BY <1>2, <1>3, ST!IsASeq
<1> HIDE DEF r
<1>5. Increasing(r)
  BY <1>1, <1>2 DEF Increasing
<1>6. \A i \in DOMAIN r : r[i] \in first .. last
  BY <1>1, <1>2
<1> QED
  BY <1>1, <1>4, <1>5, <1>6 DEF r

\* What is still wanted is more than all there is.
LEMMA WantedIsMore ==
    ASSUME NEW g \in Seq(Nat), Increasing(g)
    PROVE  \A i \in DOMAIN g : g[i] < Wanted(g)
<1>1. Len(g) \in Nat /\ DOMAIN g = 1 .. Len(g) /\ \A i \in DOMAIN g : g[i] \in Nat
  BY ST!LenProperties, ST!ElementOfSeq
<1> SUFFICES ASSUME NEW i \in DOMAIN g
             PROVE  g[i] < Wanted(g)
  OBVIOUS
<1>2. Len(g) \in DOMAIN g /\ g # <<>>
  BY <1>1
<1>3. g[i] = g[Len(g)] \/ g[i] < g[Len(g)]
  BY <1>1, <1>2 DEF Increasing
<1> QED
  BY <1>1, <1>2, <1>3 DEF Wanted

\* What a consumer takes follows what it has taken.
LEMMA RunFollows ==
    ASSUME Streams, NEW q \in Queues, Numbered(q),
           NEW last, last \in First(Sent(q), got[q], Cap[q]) .. Sent(q)
    PROVE  LET run == Run(First(Sent(q), got[q], Cap[q]), last) IN
           /\ run \in Seq(Nat) /\ Increasing(run)
           /\ \A i \in DOMAIN run : run[i] \in 1 .. Sent(q)
           /\ \A i \in DOMAIN got[q], j \in DOMAIN run : got[q][i] < run[j]
<1> DEFINE F == First(Sent(q), got[q], Cap[q])
<1>1. Window(queue[q], Sent(q), got[q], Cap[q]) /\ Cap[q] \in Nat \ {0}
  BY CapOf DEF Streams
<1>2. Sent(q) \in Nat /\ got[q] \in Seq(Nat) /\ Wanted(got[q]) \in 1 .. Sent(q) + 1
  BY <1>1 DEF Window
<1>3. F \in 1 .. Sent(q) + 1 /\ F >= Wanted(got[q])
  BY <1>1, <1>2, FirstInRange
<1> HIDE DEF F
<1>4. F \in Nat /\ last \in Nat /\ F <= last /\ last <= Sent(q)
  BY <1>2, <1>3 DEF F
<1>5. /\ Run(F, last) \in Seq(Nat) /\ Increasing(Run(F, last))
      /\ \A i \in DOMAIN Run(F, last) : Run(F, last)[i] \in F .. last
  BY <1>4, RunOf
<1>6. \A i \in DOMAIN got[q] : got[q][i] < Wanted(got[q]) /\ got[q][i] \in Nat
  BY <1>2, WantedIsMore, ST!ElementOfSeq, ST!LenProperties DEF Numbered
<1>7. \A i \in DOMAIN Run(F, last) : Run(F, last)[i] \in 1 .. Sent(q)
  BY <1>2, <1>3, <1>4, <1>5
<1>8. \A i \in DOMAIN got[q], j \in DOMAIN Run(F, last) : got[q][i] < Run(F, last)[j]
  BY <1>2, <1>3, <1>4, <1>5, <1>6
<1> QED
  BY <1>5, <1>7, <1>8 DEF F

LEMMA NumberedStep ==
    ASSUME Streams, NEW q \in Queues, Numbered(q), FeedStep(q)
    PROVE  Numbered(q)'
<1>1. Sent(q) \in Nat /\ got[q] \in Seq(Nat)
  BY SentIsNat DEF Streams
<1>2. CASE Sent(q)' \in {Sent(q), Sent(q) + 1} /\ got'[q] = got[q]
  BY <1>1, <1>2 DEF Numbered
<1>3. CASE Sent(q)' = Sent(q) /\ Takes(Sent(q), got[q], Cap[q], got'[q])
  <2> DEFINE F == First(Sent(q), got[q], Cap[q])
  <2>1. PICK last \in F .. Sent(q) : got'[q] = got[q] \o Run(F, last)
    BY <1>3 DEF Takes, Run
  <2> DEFINE run == Run(F, last)
  <2>2. /\ run \in Seq(Nat) /\ Increasing(run)
        /\ \A i \in DOMAIN run : run[i] \in 1 .. Sent(q)
        /\ \A i \in DOMAIN got[q], j \in DOMAIN run : got[q][i] < run[j]
    BY <2>1, RunFollows
  <2>3. got'[q] = got[q] \o run
    BY <2>1
  <2> HIDE DEF run
  <2>4. /\ Increasing(got'[q]) /\ Range(got'[q]) = Range(got[q]) \cup Range(run)
    BY <1>1, <2>2, <2>3, ConcatIncreasing DEF Numbered
  <2>5. \A x \in Range(got'[q]) : x \in 1 .. Sent(q)
    BY <2>2, <2>4 DEF Range, Numbered
  <2>6. \A i \in DOMAIN got'[q] : got'[q][i] \in Range(got'[q])
    BY DEF Range
  <2> QED
    BY <1>3, <2>4, <2>5, <2>6 DEF Numbered
<1> QED
  BY <1>2, <1>3 DEF FeedStep

LEMMA AlwaysNumbered == Spec => [](\A q \in Queues : Numbered(q))
<1>1. Init => \A q \in Queues : Numbered(q)
  <2> SUFFICES ASSUME Init, NEW q \in Queues
               PROVE  Numbered(q)
    OBVIOUS
  <2>1. got[q] = <<>> /\ DOMAIN got[q] = {}
    BY DEF Init
  <2> QED
    BY <2>1 DEF Numbered, Increasing
<1>2. Streams /\ (\A q \in Queues : Numbered(q)) /\ [Next]_vars => (\A q \in Queues : Numbered(q))'
  <2> SUFFICES ASSUME Streams, \A q \in Queues : Numbered(q), [Next]_vars, NEW q \in Queues
               PROVE  Numbered(q)'
    OBVIOUS
  <2>1. FeedStep(q)
    BY StreamsStep
  <2> QED
    BY <2>1, NumberedStep
<1> QED
  BY <1>1, <1>2, AlwaysStreams, PTL DEF Spec

\* The lines in the file and in its buffer, and those that are lost, share out the
\* events of T, and each line has its place.
Disks == [log : Seq(Nat), kept : Seq(Nat), failed : SUBSET Nat, cut : BOOLEAN]

Shares(d, T) ==
    /\ d \in Disks /\ Increasing(d.log) /\ Increasing(d.kept)
    /\ \A x \in Range(d.log), y \in Range(d.kept) : x < y
    /\ d.failed \subseteq T
    /\ Range(d.log) \cup Range(d.kept) = T \ d.failed

LEMMA RangeOfNat ==
    ASSUME NEW s \in Seq(Nat)
    PROVE  Range(s) \subseteq Nat
BY ST!LenProperties, ST!ElementOfSeq DEF Range

LEMMA NoLines ==
    /\ <<>> \in Seq(Nat) /\ Increasing(<<>>) /\ Range(<<>>) = {}
<1>1. <<>> \in Seq(Nat) /\ DOMAIN <<>> = {}
  OBVIOUS
<1> QED
  BY <1>1 DEF Increasing, Range

\* The first n lines and the others.
LEMMA Parted ==
    ASSUME NEW s \in Seq(Nat), Increasing(s), NEW n \in 0 .. Len(s)
    PROVE  LET a == SubSeq(s, 1, n)
               b == From(s, n + 1)
           IN /\ a \in Seq(Nat) /\ Increasing(a)
              /\ b \in Seq(Nat) /\ Increasing(b)
              /\ \A x \in Range(a), y \in Range(b) : x < y
              /\ Range(a) \cup Range(b) = Range(s)
              /\ a = [i \in 1 .. n |-> s[i]]
<1> DEFINE a == SubSeq(s, 1, n)
           b == From(s, n + 1)
<1>1. Len(s) \in Nat /\ DOMAIN s = 1 .. Len(s) /\ \A i \in DOMAIN s : s[i] \in Nat
  BY ST!LenProperties, ST!ElementOfSeq
<1>2. n \in Nat /\ n <= Len(s) /\ Len(s) - n \in Nat
  BY <1>1
<1>3. a = [i \in 1 .. n |-> s[i]]
  BY <1>1, <1>2
<1>4. b = [i \in 1 .. Len(s) - n |-> s[n + i]]
  BY <1>1, <1>2 DEF From
<1>5. a \in Seq(Nat)
  <2>1. \A i \in 1 .. n : i \in DOMAIN s
    BY <1>1, <1>2
  <2> HIDE DEF a
  <2>2. a \in [1 .. n -> Nat]
    BY <1>1, <1>3, <2>1
  <2> QED
    BY <1>2, <2>2, ST!IsASeq
<1>6. b \in Seq(Nat)
  <2> DEFINE m == Len(s) - n
  <2>1. \A i \in 1 .. m : n + i \in DOMAIN s
    BY <1>1, <1>2
  <2>2. m \in Nat /\ b = [i \in 1 .. m |-> s[n + i]]
    BY <1>2, <1>4
  <2> HIDE DEF b, m
  <2>3. b \in [1 .. m -> Nat]
    BY <1>1, <2>1, <2>2
  <2>4. m \in Nat
    BY <2>2
  <2> QED
    BY <2>3, <2>4
<1>7. DOMAIN a = 1 .. n /\ DOMAIN b = 1 .. Len(s) - n
  BY <1>3, <1>4
<1>8. /\ \A i \in 1 .. n : a[i] = s[i] /\ i \in DOMAIN s
      /\ \A i \in 1 .. Len(s) - n : b[i] = s[n + i] /\ n + i \in DOMAIN s
  BY <1>1, <1>2, <1>3, <1>4
<1> HIDE DEF a, b
<1>9. Increasing(a)
  BY <1>7, <1>8 DEF Increasing
<1>10. Increasing(b)
  <2> SUFFICES ASSUME NEW i \in DOMAIN b, NEW j \in DOMAIN b, i < j
               PROVE  b[i] < b[j]
    BY DEF Increasing
  <2>1. n + i < n + j
    BY <1>2, <1>7
  <2> QED
    BY <1>7, <1>8, <2>1 DEF Increasing
<1>11. ASSUME NEW x \in Range(a), NEW y \in Range(b)
       PROVE  x < y
  <2>1. PICK i \in DOMAIN a : x = a[i]
    BY DEF Range
  <2>2. PICK j \in DOMAIN b : y = b[j]
    BY DEF Range
  <2>3. i < n + j
    BY <1>2, <1>7
  <2> QED
    BY <1>7, <1>8, <2>1, <2>2, <2>3 DEF Increasing
<1>12. Range(a) \cup Range(b) = Range(s)
  <2>1. ASSUME NEW x \in Range(s)
        PROVE  x \in Range(a) \cup Range(b)
    <3>1. PICK i \in DOMAIN s : x = s[i]
      BY DEF Range
    <3>2. CASE i <= n
      <4>1. i \in DOMAIN a /\ a[i] = x
        BY <1>1, <1>2, <1>7, <1>8, <3>1, <3>2
      <4> QED
        BY <4>1 DEF Range
    <3>3. CASE ~(i <= n)
      <4>1. i - n \in 1 .. Len(s) - n /\ n + (i - n) = i
        BY <1>1, <1>2, <3>3
      <4>2. i - n \in DOMAIN b /\ b[i - n] = x
        BY <1>7, <1>8, <3>1, <4>1
      <4> QED
        BY <4>2 DEF Range
    <3> QED
      BY <3>2, <3>3
  <2>2. Range(a) \subseteq Range(s) /\ Range(b) \subseteq Range(s)
    BY <1>7, <1>8 DEF Range
  <2> QED
    BY <2>1, <2>2
<1> QED
  BY <1>3, <1>5, <1>6, <1>9, <1>10, <1>11, <1>12 DEF a, b

\* The lines that reach the file are in it, but for one that a torn line spoils.
LEMMA ReachedShares ==
    ASSUME NEW d \in Disks, Increasing(d.log),
           NEW lines \in Seq(Nat), Increasing(lines),
           \A x \in Range(d.log), y \in Range(lines) : x < y
    PROVE  LET r == Reached(d, lines) IN
           /\ r \in Disks /\ Increasing(r.log) /\ r.kept = d.kept
           /\ \E spoiled \in SUBSET Range(lines) :
                /\ r.failed = d.failed \cup spoiled
                /\ Range(r.log) = Range(d.log) \cup (Range(lines) \ spoiled)
<1>1. d.log \in Seq(Nat) /\ d.failed \subseteq Nat /\ d.cut \in BOOLEAN
  BY DEF Disks
<1>2. ASSUME NEW t \in Seq(Nat), Increasing(t), Range(t) \subseteq Range(lines)
      PROVE  /\ d.log \o t \in Seq(Nat) /\ Increasing(d.log \o t)
             /\ Range(d.log \o t) = Range(d.log) \cup Range(t)
  <2>1. \A i \in DOMAIN d.log, j \in DOMAIN t : d.log[i] < t[j]
    BY <1>2 DEF Range
  <2> QED
    BY <1>1, <1>2, <2>1, ConcatIncreasing
<1>3. CASE d.cut /\ lines # <<>>
  <2>1. Len(lines) \in Nat \ {0}
    BY <1>3, ST!EmptySeq, ST!LenProperties
  <2>2. 1 \in 0 .. Len(lines) /\ 1 \in 1 .. Len(lines)
    BY <2>1
  <2>3. Tail(lines) = From(lines, 1 + 1) /\ Head(lines) = lines[1]
    BY <2>1 DEF From
  <2> DEFINE one == SubSeq(lines, 1, 1)
             rest == From(lines, 1 + 1)
  <2>4. /\ rest \in Seq(Nat) /\ Increasing(rest)
        /\ \A x \in Range(one), y \in Range(rest) : x < y
        /\ Range(one) \cup Range(rest) = Range(lines)
        /\ one = [i \in 1 .. 1 |-> lines[i]]
    BY <2>2, Parted
  <2>5. Range(one) = {Head(lines)} /\ Head(lines) \in Nat
    <3>1. DOMAIN one = {1} /\ one[1] = lines[1]
      BY <2>4
    <3> QED
      BY <2>2, <2>3, <3>1, ST!ElementOfSeq DEF Range
  <2>6. Range(rest) \subseteq Nat
    BY <2>4, RangeOfNat
  <2> HIDE DEF one, rest
  <2>7. Range(rest) = Range(lines) \ {Head(lines)} /\ Head(lines) \in Range(lines)
    <3>1. \A y \in Range(rest) : y \in Nat /\ Head(lines) < y
      BY <2>4, <2>5, <2>6
    <3>2. Head(lines) \notin Range(rest)
      BY <2>5, <3>1
    <3> QED
      BY <2>4, <2>5, <3>2
  <2>8. /\ d.log \o rest \in Seq(Nat) /\ Increasing(d.log \o rest)
        /\ Range(d.log \o rest) = Range(d.log) \cup Range(rest)
    BY <1>2, <2>4, <2>7
  <2>9. Reached(d, lines) = [d EXCEPT !.log = @ \o rest, !.failed = @ \cup {Head(lines)}, !.cut = FALSE]
    BY <1>3, <2>3 DEF Reached, rest
  <2> DEFINE r == Reached(d, lines)
  <2>10. /\ r.log = d.log \o rest /\ r.failed = d.failed \cup {Head(lines)} /\ r.kept = d.kept
         /\ r \in Disks
    BY <1>1, <2>5, <2>8, <2>9 DEF Disks
  <2> HIDE DEF r
  <2>11. {Head(lines)} \in SUBSET Range(lines)
    BY <2>7
  <2>12. Range(r.log) = Range(d.log) \cup (Range(lines) \ {Head(lines)})
    BY <2>7, <2>8, <2>10
  <2> QED
    BY <2>8, <2>10, <2>11, <2>12 DEF r
<1>4. CASE ~(d.cut /\ lines # <<>>)
  <2>1. Reached(d, lines) = [d EXCEPT !.log = @ \o lines]
    BY <1>4 DEF Reached
  <2>2. /\ d.log \o lines \in Seq(Nat) /\ Increasing(d.log \o lines)
        /\ Range(d.log \o lines) = Range(d.log) \cup Range(lines)
    BY <1>2
  <2> DEFINE r == Reached(d, lines)
  <2>3. /\ r.log = d.log \o lines /\ r.failed = d.failed /\ r.kept = d.kept
        /\ r \in Disks
    BY <1>1, <2>1, <2>2 DEF Disks
  <2> HIDE DEF r
  <2>4. /\ {} \in SUBSET Range(lines) /\ r.failed = d.failed \cup {}
        /\ Range(r.log) = Range(d.log) \cup (Range(lines) \ {})
    BY <2>2, <2>3
  <2> QED
    BY <2>2, <2>3, <2>4 DEF r
<1> QED
  BY <1>3, <1>4

\* Of what was kept and the events of B, some lines reach the file, some are kept and
\* the others are lost.
LEMMA Shared ==
    ASSUME NEW T, NEW B, NEW d, Shares(d, T), T \subseteq Nat, B \subseteq Nat,
           \A x \in T, y \in B : x < y,
           NEW a \in Seq(Nat), Increasing(a), NEW k \in Seq(Nat), Increasing(k),
           \A x \in Range(a), y \in Range(k) : x < y,
           NEW lost, lost \cap (Range(a) \cup Range(k)) = {},
           Range(a) \cup Range(k) \cup lost = Range(d.kept) \cup B,
           NEW x \in Disks, x.log = Reached(d, a).log, x.kept = k,
           x.failed = Reached(d, a).failed \cup lost
    PROVE  Shares(x, T \cup B)
<1>1. /\ d \in Disks /\ Increasing(d.log) /\ Increasing(d.kept)
      /\ \A u \in Range(d.log), v \in Range(d.kept) : u < v
      /\ d.failed \subseteq T
      /\ Range(d.log) \cup Range(d.kept) = T \ d.failed
  BY DEF Shares
<1>2. \A u \in Range(d.log), v \in Range(a) \cup Range(k) \cup lost : u < v
  BY <1>1
<1>3. PICK spoiled \in SUBSET Range(a) :
        /\ Reached(d, a).failed = d.failed \cup spoiled
        /\ Range(Reached(d, a).log) = Range(d.log) \cup (Range(a) \ spoiled)
  BY <1>1, <1>2, ReachedShares
<1>4. Increasing(Reached(d, a).log)
  BY <1>1, <1>2, ReachedShares
<1>5. \A u \in Range(d.log), v \in Range(d.kept) \cup B : u \in Nat /\ v \in Nat /\ u < v
  BY <1>1
<1>6. Range(d.log) \cap (Range(d.kept) \cup B) = {}
  BY <1>5
<1>7. \A u \in Range(a), v \in Range(k) : u \in Nat /\ v \in Nat /\ u < v
  BY RangeOfNat
<1>8. Range(a) \cap Range(k) = {}
  BY <1>7
<1>9. T \cap B = {}
  <2>1. \A u \in T, v \in B : u \in Nat /\ v \in Nat /\ u < v
    OBVIOUS
  <2> QED
    BY <2>1
<1>10. x.failed \subseteq T \cup B
  BY <1>1, <1>3
<1>11. Range(x.log) = Range(d.log) \cup (Range(a) \ spoiled)
  BY <1>3
<1>12. \A u \in Range(x.log), v \in Range(k) : u < v
  BY <1>2, <1>11
<1>13. Range(x.log) \cup Range(k) = (T \cup B) \ x.failed
  <2> DEFINE L == Range(d.log)
             K == Range(d.kept)
             A == Range(a)
             R == Range(k)
  <2>1. L \cup K = T \ d.failed /\ d.failed \subseteq T
    BY <1>1
  <2>2. A \cup R \cup lost = K \cup B
    OBVIOUS
  <2>3. L \cap (K \cup B) = {} /\ A \cap R = {} /\ T \cap B = {} /\ lost \cap (A \cup R) = {}
    BY <1>6, <1>8, <1>9
  <2>4. x.failed = d.failed \cup spoiled \cup lost /\ spoiled \subseteq A
    BY <1>3
  <2>5. Range(x.log) = L \cup (A \ spoiled)
    BY <1>11
  <2> HIDE DEF L, K, A, R
  <2>6. ASSUME NEW e
        PROVE  e \in L \cup (A \ spoiled) \cup R <=> e \in T \cup B /\ e \notin d.failed \cup spoiled \cup lost
    BY <2>1, <2>2, <2>3, <2>4
  <2>7. L \cup (A \ spoiled) \cup R = (T \cup B) \ x.failed
    BY <2>4, <2>6
  <2> QED
    BY <2>5, <2>7 DEF R
<1> QED
  BY <1>4, <1>10, <1>12, <1>13 DEF Shares

\* However a batch is written.
LEMMA WritesShare ==
    ASSUME NEW T, T \subseteq Nat, NEW d, Shares(d, T),
           NEW batch \in Seq(Nat), Increasing(batch),
           \A x \in T, y \in Range(batch) : x < y,
           NEW x \in Writes(d, batch)
    PROVE  Shares(x, T \cup Range(batch))
<1> DEFINE all == d.kept \o batch
           old == Len(d.kept)
           B == Range(batch)
           Flushed(n) == Reached(d, SubSeq(all, 1, n))
<1>1. /\ d \in Disks /\ Increasing(d.log) /\ Increasing(d.kept) /\ d.kept \in Seq(Nat)
      /\ \A u \in Range(d.log), v \in Range(d.kept) : u < v
      /\ Range(d.log) \subseteq T /\ Range(d.kept) \subseteq T
  BY DEF Shares, Disks
<1>2. \A i \in DOMAIN d.kept, j \in DOMAIN batch : d.kept[i] < batch[j]
  BY <1>1 DEF Range
<1>3. /\ all \in Seq(Nat) /\ Increasing(all)
      /\ Range(all) = Range(d.kept) \cup B
      /\ Len(all) = old + Len(batch)
      /\ \A i \in 1 .. old : all[i] = d.kept[i]
  BY <1>1, <1>2, ConcatIncreasing
<1>4. old \in Nat /\ Len(batch) \in Nat /\ B \subseteq Nat
  BY <1>1, RangeOfNat, ST!LenProperties
<1>5. \/ \E n \in 0 .. Len(all) : x = [Flushed(n) EXCEPT !.kept = From(all, n + 1)]
      \/ \E n \in 0 .. old - 1 :
           x = [Flushed(n) EXCEPT !.kept = From(d.kept, n + 1), !.failed = @ \cup B]
      \/ \E n \in old .. Len(all) - 1 : x \in Refused(Flushed(n), From(all, n + 1))
  BY DEF Writes
<1> HIDE DEF all, old, B
<1>6. ASSUME NEW n \in 0 .. Len(all)
      PROVE  LET a == SubSeq(all, 1, n)
                 b == From(all, n + 1)
             IN /\ a \in Seq(Nat) /\ Increasing(a) /\ b \in Seq(Nat) /\ Increasing(b)
                /\ \A u \in Range(a), v \in Range(b) : u < v
                /\ Range(a) \cup Range(b) = Range(d.kept) \cup B
                /\ Range(a) \cap Range(b) = {}
                /\ Range(b) \subseteq Nat
                /\ Flushed(n) \in Disks
  <2> DEFINE a == SubSeq(all, 1, n)
             b == From(all, n + 1)
  <2>1. /\ a \in Seq(Nat) /\ Increasing(a) /\ b \in Seq(Nat) /\ Increasing(b)
        /\ \A u \in Range(a), v \in Range(b) : u < v
        /\ Range(a) \cup Range(b) = Range(d.kept) \cup B
    BY <1>3, <1>6, Parted
  <2> HIDE DEF a, b
  <2>2. Range(a) \subseteq Nat /\ Range(b) \subseteq Nat
    BY <2>1, RangeOfNat
  <2>3. Range(a) \cap Range(b) = {}
    BY <2>1, <2>2
  <2>4. \A u \in Range(d.log), v \in Range(a) : u < v
    BY <1>1, <2>1 DEF B
  <2>5. Reached(d, a) \in Disks
    BY <1>1, <2>1, <2>4, ReachedShares
  <2> QED
    BY <2>1, <2>2, <2>3, <2>5 DEF a, b
<1>7. \A u \in T, v \in B : u < v
  BY DEF B
<1>8. ASSUME NEW n \in 0 .. Len(all), x = [Flushed(n) EXCEPT !.kept = From(all, n + 1)]
      PROVE  Shares(x, T \cup B)
  <2> DEFINE a == SubSeq(all, 1, n)
             b == From(all, n + 1)
  <2>1. /\ a \in Seq(Nat) /\ Increasing(a) /\ b \in Seq(Nat) /\ Increasing(b)
        /\ \A u \in Range(a), v \in Range(b) : u < v
        /\ Range(a) \cup Range(b) = Range(d.kept) \cup B
        /\ Reached(d, a) \in Disks
    BY <1>6, <1>8
  <2>2. x = [Reached(d, a) EXCEPT !.kept = b]
    BY <1>8
  <2> HIDE DEF a, b
  <2>3. x \in Disks /\ x.log = Reached(d, a).log /\ x.kept = b /\ x.failed = Reached(d, a).failed
    BY <2>1, <2>2 DEF Disks
  <2> DEFINE lost == {}
  <2>4. /\ lost \cap (Range(a) \cup Range(b)) = {}
        /\ Range(a) \cup Range(b) \cup lost = Range(d.kept) \cup B
        /\ x.failed = Reached(d, a).failed \cup lost
    BY <2>1, <2>3
  <2> HIDE DEF lost
  <2> QED
    BY <1>4, <1>7, <2>1, <2>3, <2>4, Shared
<1>9. ASSUME NEW n \in 0 .. old - 1,
             x = [Flushed(n) EXCEPT !.kept = From(d.kept, n + 1), !.failed = @ \cup B]
      PROVE  Shares(x, T \cup B)
  <2> DEFINE a == SubSeq(d.kept, 1, n)
             b == From(d.kept, n + 1)
  <2>1. n \in 0 .. old /\ n \in 0 .. Len(all) /\ n \in 0 .. Len(d.kept)
    BY <1>3, <1>4 DEF old
  <2>2. /\ a \in Seq(Nat) /\ Increasing(a) /\ b \in Seq(Nat) /\ Increasing(b)
        /\ \A u \in Range(a), v \in Range(b) : u < v
        /\ Range(a) \cup Range(b) = Range(d.kept)
        /\ a = [i \in 1 .. n |-> d.kept[i]]
    BY <1>1, <2>1, Parted
  <2>3. SubSeq(all, 1, n) = [i \in 1 .. n |-> all[i]]
    BY <1>3, <2>1, Parted
  <2>4. \A i \in 1 .. n : all[i] = d.kept[i]
    BY <1>3, <1>4, <2>1
  <2>5. a = SubSeq(all, 1, n)
    BY <2>2, <2>3, <2>4
  <2>6. Reached(d, a) \in Disks /\ x = [Reached(d, a) EXCEPT !.kept = b, !.failed = @ \cup B]
    BY <1>6, <1>9, <2>1, <2>5
  <2> HIDE DEF a, b
  <2>7. x \in Disks /\ x.log = Reached(d, a).log /\ x.kept = b /\ x.failed = Reached(d, a).failed \cup B
    BY <1>4, <2>2, <2>6 DEF Disks
  <2>8. \A u \in Range(d.kept), v \in B : u \in Nat /\ v \in Nat /\ u < v
    BY <1>1, <1>4, <1>7
  <2>9. B \cap Range(d.kept) = {}
    <3>1. \A u \in Range(d.kept) \cap B : u < u /\ u \in Nat
      BY <2>8
    <3> QED
      BY <3>1
  <2>10. B \cap (Range(a) \cup Range(b)) = {} /\ Range(a) \cup Range(b) \cup B = Range(d.kept) \cup B
    BY <2>2, <2>9
  <2> QED
    BY <1>4, <1>7, <2>2, <2>7, <2>10, Shared
<1>10. ASSUME NEW n \in old .. Len(all) - 1, x \in Refused(Flushed(n), From(all, n + 1))
       PROVE  Shares(x, T \cup B)
  <2> DEFINE a == SubSeq(all, 1, n)
             lost == Range(From(all, n + 1))
  <2>1. n \in 0 .. Len(all)
    BY <1>3, <1>4
  <2>2. /\ a \in Seq(Nat) /\ Increasing(a)
        /\ Range(a) \cup lost = Range(d.kept) \cup B
        /\ Range(a) \cap lost = {} /\ lost \subseteq Nat
        /\ Reached(d, a) \in Disks
    BY <1>6, <2>1
  <2>3. PICK torn \in BOOLEAN :
          x = [Reached(d, a) EXCEPT !.kept = <<>>, !.failed = @ \cup lost, !.cut = @ \/ torn]
    BY <1>10 DEF Refused
  <2> HIDE DEF a, lost
  <2>4. /\ x \in Disks /\ x.log = Reached(d, a).log /\ x.kept = <<>>
        /\ x.failed = Reached(d, a).failed \cup lost
    BY <2>2, <2>3, NoLines DEF Disks
  <2>5. /\ \A u \in Range(a), v \in Range(<<>>) : u < v
        /\ lost \cap (Range(a) \cup Range(<<>>)) = {}
        /\ Range(a) \cup Range(<<>>) \cup lost = Range(d.kept) \cup B
    BY <2>2, NoLines
  <2> QED
    BY <1>4, <1>7, <2>2, <2>4, <2>5, NoLines, Shared
<1> QED
  BY <1>5, <1>8, <1>9, <1>10 DEF B

\* A close leaves nothing in the buffer.
LEMMA ClosesShare ==
    ASSUME NEW T, T \subseteq Nat, NEW d, Shares(d, T), NEW x \in Closes(d)
    PROVE  Shares(x, T) /\ x.kept = <<>>
<1>1. /\ d \in Disks /\ Increasing(d.log) /\ Increasing(d.kept) /\ d.kept \in Seq(Nat)
      /\ \A u \in Range(d.log), v \in Range(d.kept) : u < v
  BY DEF Shares, Disks
<1>2. PICK n \in 0 .. Len(d.kept), torn \in BOOLEAN, lost \in SUBSET Nat :
        /\ lost \cap Range(SubSeq(d.kept, 1, n)) = {}
        /\ Range(SubSeq(d.kept, 1, n)) \cup lost = Range(d.kept)
        /\ x.log = Reached(d, SubSeq(d.kept, 1, n)).log /\ x.kept = <<>>
        /\ x.failed = Reached(d, SubSeq(d.kept, 1, n)).failed \cup lost
        /\ x \in Disks
  <2>1. Len(d.kept) \in Nat
    BY <1>1, ST!LenProperties
  <2>2. ASSUME NEW n \in 0 .. Len(d.kept)
        PROVE  LET a == SubSeq(d.kept, 1, n)
                   b == From(d.kept, n + 1)
               IN /\ Range(b) \cap Range(a) = {} /\ Range(b) \subseteq Nat
                  /\ Range(a) \cup Range(b) = Range(d.kept)
                  /\ Reached(d, a) \in Disks
    <3> DEFINE a == SubSeq(d.kept, 1, n)
               b == From(d.kept, n + 1)
    <3>1. /\ a \in Seq(Nat) /\ Increasing(a) /\ b \in Seq(Nat) /\ Increasing(b)
          /\ \A u \in Range(a), v \in Range(b) : u < v
          /\ Range(a) \cup Range(b) = Range(d.kept)
      BY <1>1, <2>2, Parted
    <3> HIDE DEF a, b
    <3>2. Range(a) \subseteq Nat /\ Range(b) \subseteq Nat
      BY <3>1, RangeOfNat
    <3>3. Range(b) \cap Range(a) = {}
      BY <3>1, <3>2
    <3>4. Reached(d, a) \in Disks
      BY <1>1, <3>1, ReachedShares
    <3> QED
      BY <3>1, <3>2, <3>3, <3>4 DEF a, b
  <2>3. CASE x = [Reached(d, d.kept) EXCEPT !.kept = <<>>]
    <3>1. SubSeq(d.kept, 1, Len(d.kept)) = d.kept /\ Len(d.kept) \in 0 .. Len(d.kept)
      BY <1>1, <2>1, ST!SubSeqFull
    <3>2. Reached(d, d.kept) \in Disks
      BY <2>2, <3>1
    <3>3. x \in Disks /\ x.log = Reached(d, d.kept).log /\ x.kept = <<>> /\ x.failed = Reached(d, d.kept).failed
      BY <2>3, <3>2, NoLines DEF Disks
    <3>4. /\ {} \in SUBSET Nat /\ {} \cap Range(d.kept) = {} /\ Range(d.kept) \cup {} = Range(d.kept)
          /\ x.failed = Reached(d, d.kept).failed \cup {}
      BY <3>3
    <3> QED
      BY <3>1, <3>3, <3>4
  <2>4. ASSUME NEW n \in 0 .. Len(d.kept) - 1,
               x \in Refused(Reached(d, SubSeq(d.kept, 1, n)), From(d.kept, n + 1))
        PROVE  \E m \in 0 .. Len(d.kept), torn \in BOOLEAN, lost \in SUBSET Nat :
                 /\ lost \cap Range(SubSeq(d.kept, 1, m)) = {}
                 /\ Range(SubSeq(d.kept, 1, m)) \cup lost = Range(d.kept)
                 /\ x.log = Reached(d, SubSeq(d.kept, 1, m)).log /\ x.kept = <<>>
                 /\ x.failed = Reached(d, SubSeq(d.kept, 1, m)).failed \cup lost
                 /\ x \in Disks
    <3> DEFINE a == SubSeq(d.kept, 1, n)
               lost == Range(From(d.kept, n + 1))
    <3>1. n \in 0 .. Len(d.kept)
      BY <2>1
    <3>2. /\ lost \cap Range(a) = {} /\ lost \in SUBSET Nat
          /\ Range(a) \cup lost = Range(d.kept) /\ Reached(d, a) \in Disks
      BY <2>2, <3>1
    <3>3. PICK torn \in BOOLEAN :
            x = [Reached(d, a) EXCEPT !.kept = <<>>, !.failed = @ \cup lost, !.cut = @ \/ torn]
      BY <2>4 DEF Refused
    <3> HIDE DEF lost
    <3>4. /\ x \in Disks /\ x.log = Reached(d, a).log /\ x.kept = <<>>
          /\ x.failed = Reached(d, a).failed \cup lost
      BY <3>2, <3>3, NoLines DEF Disks
    <3> QED
      BY <3>1, <3>2, <3>4
  <2> QED
    BY <2>3, <2>4 DEF Closes
<1> DEFINE a == SubSeq(d.kept, 1, n)
<1>3. a \in Seq(Nat) /\ Increasing(a)
  BY <1>1, <1>2, Parted
<1>4. /\ \A u \in T, v \in {} : u < v
      /\ \A u \in Range(a), v \in Range(<<>>) : u < v
      /\ lost \cap (Range(a) \cup Range(<<>>)) = {}
      /\ Range(a) \cup Range(<<>>) \cup lost = Range(d.kept) \cup {}
  BY <1>2, NoLines
<1>5. x.log = Reached(d, a).log /\ x.kept = <<>> /\ x.failed = Reached(d, a).failed \cup lost /\ x \in Disks
  BY <1>2
<1> HIDE DEF a
<1>6. Shares(x, T \cup {})
  BY <1>3, <1>4, <1>5, NoLines, Shared
<1>7. T \cup {} = T
  OBVIOUS
<1> QED
  BY <1>5, <1>6, <1>7

LogInv ==
    /\ Shares(disk, Range(got["storage"]))
    /\ main \in {"race", "joining", "down"} => disk.kept = <<>>

\* The writer takes a batch.
LEMMA BatchWritten ==
    ASSUME Streams, Numbered("storage"), Shares(disk, Range(got["storage"])),
           NEW n \in 1 .. Len(queue["storage"]), Taken("storage", n),
           NEW x \in Writes(disk, SubSeq(queue["storage"], 1, n))
    PROVE  Shares(x, Range(got'["storage"]))
<1> DEFINE taken == got["storage"]
<1> DEFINE batch == SubSeq(queue["storage"], 1, n)
<1> DEFINE F == First(Sent("storage"), taken, Cap["storage"])
<1>1. "storage" \in Queues
  BY DEF Queues, Subscribers
<1>2. Window(queue["storage"], Sent("storage"), taken, Cap["storage"]) /\ Cap["storage"] \in Nat \ {0}
  BY <1>1, CapOf DEF Streams
<1>3. /\ Sent("storage") \in Nat /\ taken \in Seq(Nat)
      /\ Wanted(taken) \in 1 .. Sent("storage") + 1
      /\ Len(queue["storage"]) = Sent("storage") - F + 1
  BY <1>2 DEF Window
<1>4. F \in 1 .. Sent("storage") + 1
  BY <1>2, <1>3, FirstInRange
<1>5. batch = [i \in 1 .. n |-> F + i - 1]
  BY <1>2, WindowHead
<1>6. got'["storage"] = taken \o batch
  BY <1>1 DEF Taken, Streams
<1> HIDE DEF F
<1>7. F + n - 1 \in F .. Sent("storage") /\ F + n - 1 - F + 1 = n
  BY <1>3, <1>4
<1>8. batch = Run(F, F + n - 1)
  <2> HIDE DEF batch
  <2> DEFINE last == F + n - 1
  <2>1. last - F + 1 = n
    <3>1. F \in Nat /\ n \in Nat
      BY <1>3, <1>4
    <3> QED
      BY <3>1
  <2> HIDE DEF last
  <2>2. Run(F, last) = [i \in 1 .. n |-> F + i - 1]
    BY <2>1 DEF Run
  <2> QED
    BY <1>5, <2>2 DEF last
<1>9. /\ batch \in Seq(Nat) /\ Increasing(batch)
      /\ \A i \in DOMAIN taken, j \in DOMAIN batch : taken[i] < batch[j]
  BY <1>1, <1>7, <1>8, RunFollows DEF F
<1>10. taken \in Seq(Nat) /\ Increasing(taken)
  BY <1>3 DEF Numbered
<1> HIDE DEF batch, taken
<1>11. Range(got'["storage"]) = Range(taken) \cup Range(batch)
  BY <1>6, <1>9, <1>10, ConcatIncreasing
<1>12. Range(taken) \subseteq Nat
  BY <1>10, RangeOfNat
<1>13. \A u \in Range(taken), v \in Range(batch) : u < v
  BY <1>9 DEF Range
<1>14. Shares(disk, Range(taken)) /\ x \in Writes(disk, batch)
  BY DEF taken, batch
<1>15. Shares(x, Range(taken) \cup Range(batch))
  BY <1>9, <1>12, <1>13, <1>14, WritesShare
<1> QED
  BY <1>11, <1>15

LEMMA LogAside ==
    ASSUME LogInv, disk' = disk, got'["storage"] = got["storage"],
           main' \in {"race", "joining", "down"} => main \in {"race", "joining", "down"}
    PROVE  LogInv'
BY DEF LogInv

LEMMA LogStep ==
    Streams /\ Stages /\ Numbered("storage") /\ LogInv /\ [Next]_vars => LogInv'
<1> SUFFICES ASSUME Streams, Stages, Numbered("storage"), LogInv, [Next]_vars
             PROVE  LogInv'
  OBVIOUS
<1>1. /\ got \in [Queues -> Seq(Nat)] /\ queue \in [Queues -> Seq(Nat)]
      /\ "storage" \in Queues
  BY DEF Streams, Queues, Subscribers
<1>2. queue["storage"] # <<>> => Len(queue["storage"]) \in Nat \ {0}
  BY <1>1, ST!EmptySeq
<1>3. ASSUME Collected, queue["storage"] # <<>>
      PROVE  Shares(disk, Range(got["storage"]))'
  <2> DEFINE n == IF Len(queue["storage"]) < Batch THEN Len(queue["storage"]) ELSE Batch
  <2>1. n \in 1 .. Len(queue["storage"])
    BY <1>2, <1>3, PipelineAssumption
  <2>2. Taken("storage", n) /\ disk' \in Writes(disk, SubSeq(queue["storage"], 1, n))
    BY <1>3 DEF Collected
  <2> HIDE DEF n
  <2> QED
    BY <2>1, <2>2, BatchWritten DEF LogInv
<1>4. CASE Write
  <2>1. main' = main /\ main \notin {"race", "joining", "down"}
    BY <1>4 DEF Write, Stages
  <2> QED
    BY <1>3, <1>4, <2>1 DEF Write, LogInv
<1>5. CASE WriterEnds
  <2>1. main' = main /\ main = "writer"
    BY <1>5 DEF WriterEnds
  <2>2. CASE queue["storage"] # <<>>
    BY <1>3, <1>5, <2>1, <2>2 DEF WriterEnds, LogInv
  <2>3. CASE queue["storage"] = <<>>
    BY <1>5, <2>1, <2>3, LogAside DEF WriterEnds, streams
  <2> QED
    BY <2>2, <2>3
<1>6. CASE WriterCloses
  <2>1. Shares(disk, Range(got["storage"])) /\ Range(got["storage"]) \subseteq Nat
    BY <1>1, RangeOfNat DEF LogInv
  <2>2. CASE queue["storage"] # <<>>
    <3> DEFINE n == Len(queue["storage"])
    <3>1. n \in 1 .. Len(queue["storage"])
      BY <1>2, <2>2
    <3>2. PICK d \in Writes(disk, queue["storage"]) :
            Taken("storage", n) /\ disk' \in Closes(d)
      BY <1>6, <2>2 DEF WriterCloses
    <3>3. SubSeq(queue["storage"], 1, n) = queue["storage"]
      BY <1>1, ST!SubSeqFull
    <3> HIDE DEF n
    <3>4. Shares(d, Range(got'["storage"]))
      BY <2>1, <3>1, <3>2, <3>3, BatchWritten
    <3>5. Range(got'["storage"]) \subseteq Nat
      <4>1. got'["storage"] \in Seq(Nat)
        BY <1>1, StreamsStep DEF Streams
      <4> QED
        BY <4>1, RangeOfNat
    <3>6. Shares(disk', Range(got'["storage"])) /\ disk'.kept = <<>>
      BY <3>2, <3>4, <3>5, ClosesShare
    <3> QED
      BY <3>6 DEF LogInv
  <2>3. CASE queue["storage"] = <<>>
    <3>1. disk' \in Closes(disk) /\ got' = got
      BY <1>6, <2>3 DEF WriterCloses, streams
    <3>2. Shares(disk', Range(got["storage"])) /\ disk'.kept = <<>>
      BY <2>1, <3>1, ClosesShare
    <3> QED
      BY <3>1, <3>2 DEF LogInv
  <2> QED
    BY <2>2, <2>3
<1>7. CASE Manage \/ ManagerEnds \/ RaceCalls
  <2>1. UNCHANGED got \/ Taken("state", 1) \/ Taken("race", 1)
    BY <1>7 DEF Manage, ManagerEnds, RaceCalls, streams
  <2>2. got'["storage"] = got["storage"]
    BY <1>1, <2>1 DEF Taken
  <2> QED
    BY <1>7, <2>2, LogAside DEF Manage, ManagerEnds, RaceCalls, writer
<1>8. CASE Pump
  <2>1. got'["storage"] = got["storage"]
    BY <1>1, <1>8 DEF Pump
  <2> QED
    BY <1>8, <2>1, LogAside DEF Pump, writer
<1>9. CASE Emit \/ AdapterStops
  BY <1>9, LogAside DEF Emit, AdapterStops, Emitted, streams, writer
<1>10. CASE Refresh \/ RaceReturns \/ Signal
  BY <1>10, LogAside DEF Refresh, RaceReturns, Signal, streams, writer
<1>11. CASE PumpCancelled \/ ManagerCloses \/ RaceStops \/ ProcessEnds
  BY <1>11, LogAside DEF PumpCancelled, ManagerCloses, RaceStops, ProcessEnds, streams, writer
<1>12. CASE UNCHANGED vars
  BY <1>12, LogAside DEF vars, streams, writer
<1> QED
  BY <1>4, <1>5, <1>6, <1>7, <1>8, <1>9, <1>10, <1>11, <1>12 DEF Next, Shutdown

\* The log, with the buffer in front of it, has each event that the writer took once
\* and in its place, but for the lines that the disk lost, and a shutdown leaves
\* nothing queued or buffered (storage.py, _write_batch, _collect_batch and stop).
THEOREM LogIsWhole == Spec => []LogTellsAll
<1>1. Init => LogInv
  <2> SUFFICES ASSUME Init
               PROVE  LogInv
    OBVIOUS
  <2>1. /\ disk = [log |-> <<>>, kept |-> <<>>, failed |-> {}, cut |-> FALSE]
        /\ got["storage"] = <<>> /\ main = "serving"
    BY DEF Init, Queues, Subscribers
  <2>2. disk \in Disks /\ disk.log = <<>> /\ disk.kept = <<>> /\ disk.failed = {}
    BY <2>1, NoLines DEF Disks
  <2> QED
    BY <2>1, <2>2, NoLines DEF LogInv, Shares
<1>2. Stages /\ LogInv => LogTellsAll
  <2> SUFFICES ASSUME Stages, LogInv
               PROVE  LogTellsAll
    OBVIOUS
  <2>1. /\ disk.log \in Seq(Nat) /\ disk.kept \in Seq(Nat)
        /\ Increasing(disk.log) /\ Increasing(disk.kept)
        /\ \A x \in Range(disk.log), y \in Range(disk.kept) : x < y
        /\ Range(disk.log) \cup Range(disk.kept) = Range(got["storage"]) \ disk.failed
    BY DEF LogInv, Shares, Disks
  <2>2. \A i \in DOMAIN disk.log, j \in DOMAIN disk.kept : disk.log[i] < disk.kept[j]
    BY <2>1 DEF Range
  <2>3. /\ Increasing(disk.log \o disk.kept)
        /\ Range(disk.log \o disk.kept) = Range(got["storage"]) \ disk.failed
    BY <2>1, <2>2, ConcatIncreasing
  <2>4. main \in {"race", "joining", "down"} => queue["storage"] = <<>> /\ disk.kept = <<>>
    BY DEF Stages, LogInv
  <2> QED
    BY <2>3, <2>4 DEF Increasing, LogTellsAll
<1>3. (\A q \in Queues : Numbered(q)) => Numbered("storage")
  BY DEF Queues, Subscribers
<1> QED
  BY <1>1, <1>2, <1>3, LogStep, AlwaysNumbered, AlwaysStages, AlwaysStreams, PTL DEF Spec

-----------------------------------------------------------------------------
(* The state file *)

Cars == [laps : Nat, last : Nat \cup {None}, best : Nat \cup {None}, samples : Nat]

IsBoard(b) ==
    /\ b = [cars |-> b.cars, link |-> b.link, laps |-> b.laps, refused |-> b.refused]
    /\ b.cars \in [DOMAIN b.cars -> Cars]

\* Nothing that b tells of a car is taken back by d.
CarKept(x, y) ==
    /\ y.laps >= x.laps /\ y.samples >= x.samples
    /\ x.best # None => y.best # None /\ y.best <= x.best

Kept(b, d) == \A c \in DOMAIN b.cars : c \in DOMAIN d.cars /\ CarKept(b.cars[c], d.cars[c])

LEMMA KeptRefl == ASSUME NEW b, IsBoard(b) PROVE Kept(b, b)
<1> SUFFICES ASSUME NEW c \in DOMAIN b.cars
             PROVE  CarKept(b.cars[c], b.cars[c])
  BY DEF Kept
<1>1. b.cars[c] \in Cars
  BY DEF IsBoard
<1> QED
  BY <1>1 DEF Cars, CarKept, None

LEMMA KeptTrans ==
    ASSUME NEW b, NEW d, NEW f, IsBoard(b), IsBoard(d), IsBoard(f), Kept(b, d), Kept(d, f)
    PROVE  Kept(b, f)
<1> SUFFICES ASSUME NEW c \in DOMAIN b.cars
             PROVE  c \in DOMAIN f.cars /\ CarKept(b.cars[c], f.cars[c])
  BY DEF Kept
<1>1. c \in DOMAIN d.cars /\ c \in DOMAIN f.cars
  BY DEF Kept
<1>2. CarKept(b.cars[c], d.cars[c]) /\ CarKept(d.cars[c], f.cars[c])
  BY <1>1 DEF Kept
<1>3. b.cars[c] \in Cars /\ d.cars[c] \in Cars /\ f.cars[c] \in Cars
  BY <1>1 DEF IsBoard
<1>4. ASSUME NEW x \in Cars, NEW y \in Cars, NEW z \in Cars, CarKept(x, y), CarKept(y, z)
      PROVE  CarKept(x, z)
  BY <1>4 DEF Cars, CarKept, None
<1> QED
  BY <1>1, <1>2, <1>3, <1>4

\* A car is replaced by one that keeps what it said.
LEMMA WithCarKeeps ==
    ASSUME NEW b, IsBoard(b), NEW c, NEW car \in Cars,
           c \in DOMAIN b.cars => CarKept(b.cars[c], car)
    PROVE  IsBoard(WithCar(b, c, car)) /\ Kept(b, WithCar(b, c, car))
<1> DEFINE cars == [d \in DOMAIN b.cars \cup {c} |-> IF d = c THEN car ELSE b.cars[d]]
<1>1. WithCar(b, c, car) = [cars |-> cars, link |-> b.link, laps |-> b.laps, refused |-> b.refused]
  <2>1. b = [cars |-> b.cars, link |-> b.link, laps |-> b.laps, refused |-> b.refused]
    BY DEF IsBoard
  <2>2. WithCar(b, c, car) = [b EXCEPT !.cars = cars]
    BY DEF WithCar
  <2> HIDE DEF cars
  <2> QED
    BY <2>1, <2>2
<1>2. \A d \in DOMAIN b.cars : b.cars[d] \in Cars
  BY DEF IsBoard
<1>3. cars \in [DOMAIN b.cars \cup {c} -> Cars] /\ DOMAIN cars = DOMAIN b.cars \cup {c}
  BY <1>2
<1>4. ASSUME NEW d \in DOMAIN b.cars
      PROVE  d \in DOMAIN cars /\ CarKept(b.cars[d], cars[d])
  <2>1. CASE d = c
    BY <2>1
  <2>2. CASE d # c
    <3>1. cars[d] = b.cars[d] /\ b.cars[d] \in Cars
      BY <1>2, <2>2
    <3> QED
      BY <1>3, <3>1 DEF Cars, CarKept, None
  <2> QED
    BY <2>1, <2>2
<1> HIDE DEF cars
<1> QED
  BY <1>1, <1>3, <1>4 DEF IsBoard, Kept

LEMMA CarOfIsACar ==
    ASSUME NEW b, IsBoard(b), NEW c
    PROVE  /\ CarOf(b, c) \in Cars
           /\ c \in DOMAIN b.cars => CarOf(b, c) = b.cars[c]
BY DEF CarOf, IsBoard, NoCar, Cars

\* A lap counts for its car: its best lap gets no worse, its laps no fewer.
LEMMA WithLapKeeps ==
    ASSUME NEW car \in Cars, NEW e \in Events
    PROVE  WithLap(car, e) \in Cars /\ CarKept(car, WithLap(car, e))
<1>1. e.n \in Nat /\ e.ms \in Nat
  BY DEF Events
<1>2. /\ car.laps \in Nat /\ car.samples \in Nat /\ car.best \in Nat \cup {None}
  BY DEF Cars
<1>3. /\ Better(car.best, e.ms) \in Nat
      /\ car.best # None => Better(car.best, e.ms) <= car.best
  BY <1>1, <1>2 DEF Better, None
<1> DEFINE n == IF e.n > car.laps THEN e.n ELSE car.laps
<1>4. n \in Nat /\ n >= car.laps
  BY <1>1, <1>2
<1> DEFINE best == Better(car.best, e.ms)
<1>5. WithLap(car, e) = [laps |-> n, last |-> e.ms, best |-> best, samples |-> car.samples + 1]
  BY DEF WithLap
<1>6. best # None
  BY <1>3 DEF None
<1> HIDE DEF n, best
<1>7. best \in Nat /\ (car.best # None => best <= car.best)
  BY <1>3 DEF best
<1> QED
  BY <1>1, <1>2, <1>4, <1>5, <1>6, <1>7 DEF Cars, CarKept

\* The counts of the diagnostics say nothing of a car.
LEMMA CountKeeps ==
    ASSUME NEW b, NEW d, IsBoard(d), Kept(b, d), NEW f, f.cars = d.cars,
           f = [cars |-> f.cars, link |-> f.link, laps |-> f.laps, refused |-> f.refused]
    PROVE  IsBoard(f) /\ Kept(b, f)
BY DEF IsBoard, Kept

LEMMA Counted ==
    ASSUME NEW d, d = [cars |-> d.cars, link |-> d.link, laps |-> d.laps, refused |-> d.refused],
           NEW f, \/ f = [d EXCEPT !.laps = @ + 1]
                  \/ f = [d EXCEPT !.laps = @ + 1, !.refused = @ + 1]
    PROVE  /\ f.cars = d.cars
           /\ f = [cars |-> f.cars, link |-> f.link, laps |-> f.laps, refused |-> f.refused]
<1>1. CASE f = [d EXCEPT !.laps = @ + 1]
  <2>1. f = [cars |-> d.cars, link |-> d.link, laps |-> d.laps + 1, refused |-> d.refused]
    BY <1>1
  <2> QED
    BY <2>1
<1>2. CASE f = [d EXCEPT !.laps = @ + 1, !.refused = @ + 1]
  <2>1. f = [cars |-> d.cars, link |-> d.link, laps |-> d.laps + 1, refused |-> d.refused + 1]
    BY <1>2
  <2> QED
    BY <2>1
<1> QED
  BY <1>1, <1>2

LEMMA ApplyKeeps ==
    ASSUME NEW b, IsBoard(b), NEW e \in Events
    PROVE  IsBoard(Apply(b, e)) /\ Kept(b, Apply(b, e))
<1>1. e.kind \in {"lap", "fuel", "link"}
  BY DEF Events
<1>2. CASE e.kind = "link"
  <2>1. Apply(b, e) = [b EXCEPT !.link = (e.n = 1)]
    BY <1>2 DEF Apply
  <2>2. b = [cars |-> b.cars, link |-> b.link, laps |-> b.laps, refused |-> b.refused]
    BY DEF IsBoard
  <2>3. Apply(b, e) = [cars |-> b.cars, link |-> (e.n = 1), laps |-> b.laps, refused |-> b.refused]
    BY <2>1, <2>2
  <2> QED
    BY <2>3, KeptRefl DEF IsBoard, Kept
<1>3. CASE e.kind = "fuel"
  <2>1. CASE e.car \in Canonical
    <3>1. Apply(b, e) = WithCar(b, e.car, CarOf(b, e.car))
      BY <1>3, <2>1 DEF Apply
    <3>2. e.car \in DOMAIN b.cars => CarKept(b.cars[e.car], CarOf(b, e.car))
      BY CarOfIsACar, KeptRefl DEF Kept
    <3> QED
      BY <3>1, <3>2, CarOfIsACar, WithCarKeeps
  <2>2. CASE e.car \notin Canonical
    BY <1>3, <2>2, KeptRefl DEF Apply
  <2> QED
    BY <2>1, <2>2
<1>4. CASE e.kind = "lap"
  <2>1. CASE e.car \in Canonical
    <3> DEFINE car == WithLap(CarOf(b, e.car), e)
    <3> DEFINE d == WithCar(b, e.car, car)
    <3>1. Apply(b, e) = [d EXCEPT !.laps = @ + 1]
      BY <1>4, <2>1 DEF Apply
    <3>2. car \in Cars /\ CarKept(CarOf(b, e.car), car)
      BY CarOfIsACar, WithLapKeeps
    <3>3. e.car \in DOMAIN b.cars => CarKept(b.cars[e.car], car)
      BY <3>2, CarOfIsACar
    <3> HIDE DEF car
    <3>4. IsBoard(d) /\ Kept(b, d)
      BY <3>2, <3>3, WithCarKeeps
    <3> HIDE DEF d
    <3> DEFINE f == Apply(b, e)
    <3>5. d = [cars |-> d.cars, link |-> d.link, laps |-> d.laps, refused |-> d.refused]
      BY <3>4 DEF IsBoard
    <3>6. /\ f.cars = d.cars
          /\ f = [cars |-> f.cars, link |-> f.link, laps |-> f.laps, refused |-> f.refused]
      BY <3>1, <3>5, Counted
    <3> QED
      BY <3>4, <3>6, CountKeeps
  <2>2. CASE e.car \notin Canonical
    <3>1. Apply(b, e) = [b EXCEPT !.laps = @ + 1, !.refused = @ + 1]
      BY <1>4, <2>2 DEF Apply
    <3> DEFINE f == Apply(b, e)
    <3>2. b = [cars |-> b.cars, link |-> b.link, laps |-> b.laps, refused |-> b.refused]
      BY DEF IsBoard
    <3>3. /\ f.cars = b.cars
          /\ f = [cars |-> f.cars, link |-> f.link, laps |-> f.laps, refused |-> f.refused]
      BY <3>1, <3>2, Counted
    <3> QED
      BY <3>3, KeptRefl, CountKeeps
  <2> QED
    BY <2>1, <2>2
<1> QED
  BY <1>1, <1>2, <1>3, <1>4

\* The state file is behind the state manager, and never ahead of it.
Boards == IsBoard(board) /\ IsBoard(shown.board) /\ Kept(shown.board, board)

LEMMA BoardsInit == Init => Boards
<1> SUFFICES ASSUME Init
             PROVE  Boards
  OBVIOUS
<1>1. board = EmptyBoard /\ shown.board = EmptyBoard
  BY DEF Init, Snapshot
<1>2. IsBoard(EmptyBoard)
  BY DEF EmptyBoard, IsBoard
<1> QED
  BY <1>1, <1>2, KeptRefl DEF Boards

\* The state manager takes an event, or none, and writes its file, or does not.
LEMMA BoardsShown ==
    ASSUME Boards, IsBoard(board'), Kept(board, board'), Show(board')
    PROVE  Boards' /\ Kept(shown.board, shown'.board)
<1>1. Kept(shown.board, board')
  BY KeptTrans DEF Boards
<1>2. CASE shown' = shown
  BY <1>1, <1>2, KeptRefl DEF Boards
<1>3. CASE shown' = Snapshot(board')
  <2>1. shown'.board = board'
    BY <1>3 DEF Snapshot
  <2> QED
    BY <1>1, <2>1, KeptRefl DEF Boards
<1> QED
  BY <1>2, <1>3 DEF Show

LEMMA HeadPublished ==
    ASSUME Streams, queue["state"] # <<>>
    PROVE  /\ published[Head(queue["state"])] \in Events
           /\ Head(queue["state"]) \in 1 .. Len(published)
           /\ Head(queue["state"]) = queue["state"][1]
           /\ Len(queue["state"]) \in Nat \ {0}
<1> DEFINE buf == queue["state"]
<1> DEFINE F == First(Len(published), got["state"], Cap["state"])
<1>1. "state" \in Queues
  BY DEF Queues, Subscribers
<1>2. Window(buf, Len(published), got["state"], Cap["state"]) /\ published \in Seq(Events)
  BY <1>1 DEF Streams, Sent
<1>3. buf \in Seq(Nat) /\ Len(published) \in Nat
  BY <1>2 DEF Window
<1>4. Len(buf) \in Nat \ {0}
  BY <1>3, ST!EmptySeq
<1>5. Len(buf) = Len(published) - F + 1 /\ buf[1] = F + 1 - 1
  BY <1>2, <1>4 DEF Window
<1>6. F \in 1 .. Len(published) + 1
  BY <1>1, <1>2, CapOf, FirstInRange DEF Window
<1>7. Head(buf) = buf[1]
  BY <1>3
<1> HIDE DEF F
<1>8. Head(buf) \in 1 .. Len(published)
  <2> HIDE DEF buf
  <2> QED
    BY <1>3, <1>4, <1>5, <1>6, <1>7
<1>9. published[Head(buf)] \in Events
  BY <1>2, <1>8, ST!ElementOfSeq
<1> QED
  BY <1>4, <1>7, <1>8, <1>9 DEF buf

LEMMA BoardsStep ==
    ASSUME Boards, Streams, [Next]_vars
    PROVE  Boards' /\ Kept(shown.board, shown'.board)
<1>1. queue["state"] # <<>> => published[Head(queue["state"])] \in Events
  BY HeadPublished
<1>2. ASSUME queue["state"] # <<>>, board' = Apply(board, published[Head(queue["state"])])
      PROVE  IsBoard(board') /\ Kept(board, board')
  BY <1>1, <1>2, ApplyKeeps DEF Boards
<1>3. ASSUME board' = board
      PROVE  IsBoard(board') /\ Kept(board, board')
  BY <1>3, KeptRefl DEF Boards
<1>4. CASE Manage
  <2>1. /\ queue["state"] # <<>> /\ Show(board')
        /\ board' = Apply(board, published[Head(queue["state"])])
    BY <1>4 DEF Manage
  <2> QED
    BY <1>2, <2>1, BoardsShown
<1>5. CASE ManagerEnds
  <2>1. /\ Show(board')
        /\ \/ queue["state"] # <<>> /\ board' = Apply(board, published[Head(queue["state"])])
           \/ board' = board
    BY <1>5 DEF ManagerEnds
  <2> QED
    BY <1>2, <1>3, <2>1, BoardsShown
<1>6. CASE Refresh \/ ManagerCloses
  <2>1. board' = board /\ Show(board')
    BY <1>6 DEF Refresh, ManagerCloses, Show
  <2> QED
    BY <1>3, <2>1, BoardsShown
<1>7. CASE board' = board /\ shown' = shown
  <2>1. Show(board')
    BY <1>7 DEF Show
  <2> QED
    BY <1>3, <1>7, <2>1, BoardsShown
<1>8. CASE Emit \/ Pump \/ Write \/ RaceCalls \/ RaceReturns \/ Signal \/ UNCHANGED vars
  BY <1>7, <1>8 DEF Emit, Pump, Write, RaceCalls, RaceReturns, Signal, vars, manager
<1>9. CASE PumpCancelled \/ AdapterStops \/ WriterEnds \/ WriterCloses \/ RaceStops \/ ProcessEnds
  BY <1>7, <1>9 DEF PumpCancelled, AdapterStops, WriterEnds, WriterCloses, RaceStops, ProcessEnds, manager
<1> QED
  BY <1>4, <1>5, <1>6, <1>8, <1>9 DEF Next, Shutdown

\* No write of the state file takes back what a reader has seen in it, though an earlier
\* write failed or laps came out of order (state_manager.py, apply and _run).
THEOREM NothingTakenBack == Spec => FileTakesNothingBack
<1>1. ASSUME Kept(shown.board, shown'.board)
      PROVE  \A c \in DOMAIN shown.board.cars :
               /\ c \in DOMAIN shown'.board.cars
               /\ LET old == shown.board.cars[c]
                      new == shown'.board.cars[c]
                  IN /\ new.laps >= old.laps /\ new.samples >= old.samples
                     /\ old.best # None => new.best # None /\ new.best <= old.best
  BY <1>1 DEF Kept, CarKept
<1>2. Boards /\ Streams /\ [Next]_vars => Boards'
  BY BoardsStep
<1>3. Boards /\ Streams /\ [Next]_vars =>
        [\A c \in DOMAIN shown.board.cars :
           /\ c \in DOMAIN shown'.board.cars
           /\ LET old == shown.board.cars[c]
                  new == shown'.board.cars[c]
              IN /\ new.laps >= old.laps /\ new.samples >= old.samples
                 /\ old.best # None => new.best # None /\ new.best <= old.best]_shown
  BY <1>1, BoardsStep
<1> QED
  BY <1>2, <1>3, BoardsInit, AlwaysStreams, PTL DEF Spec, FileTakesNothingBack

-----------------------------------------------------------------------------
(* The order of the cars *)

LEMMA CarOnBoard ==
    ASSUME NEW b, IsBoard(b), NEW c \in DOMAIN b.cars
    PROVE  b.cars[c].laps \in Nat /\ b.cars[c].best \in Nat \cup {None}
<1>1. b.cars[c] \in Cars
  BY DEF IsBoard
<1> QED
  BY <1>1 DEF Cars

\* Of two cars one is ahead, and who is ahead of a car is ahead of those behind it.
LEMMA AheadOrders ==
    ASSUME NEW b, IsBoard(b), DOMAIN b.cars \subseteq Nat,
           NEW c \in DOMAIN b.cars, NEW d \in DOMAIN b.cars
    PROVE  /\ ~Ahead(b, c, c)
           /\ c # d => Ahead(b, c, d) \/ Ahead(b, d, c)
           /\ \A e \in DOMAIN b.cars : Ahead(b, c, d) /\ Ahead(b, d, e) => Ahead(b, c, e)
<1>1. /\ b.cars[c].laps \in Nat /\ b.cars[c].best \in Nat \cup {None}
      /\ b.cars[d].laps \in Nat /\ b.cars[d].best \in Nat \cup {None}
      /\ c \in Nat /\ d \in Nat
  BY CarOnBoard
<1>2. ~Ahead(b, c, c)
  BY <1>1 DEF Ahead
<1>3. c # d => Ahead(b, c, d) \/ Ahead(b, d, c)
  BY <1>1 DEF Ahead, None
<1>4. ASSUME NEW e \in DOMAIN b.cars, Ahead(b, c, d), Ahead(b, d, e)
      PROVE  Ahead(b, c, e)
  <2>1. b.cars[e].laps \in Nat /\ b.cars[e].best \in Nat \cup {None} /\ e \in Nat
    BY CarOnBoard
  <2> QED
    BY <1>1, <1>4, <2>1 DEF Ahead, None
<1> QED
  BY <1>2, <1>3, <1>4

\* The place of a car is one more than the number of cars ahead of it.
Rank(b, c) == Cardinality({d \in DOMAIN b.cars : Ahead(b, d, c)}) + 1

LEMMA RankOf ==
    ASSUME NEW b, IsBoard(b), DOMAIN b.cars \subseteq Nat, IsFiniteSet(DOMAIN b.cars),
           NEW c \in DOMAIN b.cars
    PROVE  /\ Rank(b, c) \in 1 .. Cardinality(DOMAIN b.cars)
           /\ \A d \in DOMAIN b.cars : Ahead(b, c, d) => Rank(b, c) < Rank(b, d)
<1> DEFINE S == DOMAIN b.cars
           Leading(d) == {e \in S : Ahead(b, e, d)}
<1>1. \A d \in S : /\ IsFiniteSet(Leading(d)) /\ Cardinality(Leading(d)) \in Nat
                   /\ Rank(b, d) = Cardinality(Leading(d)) + 1
  BY FS_Subset, FS_CardinalityType DEF Rank
<1>2. ASSUME NEW d \in S
      PROVE  Cardinality(Leading(d) \cup {d}) = Cardinality(Leading(d)) + 1
  <2>1. d \notin Leading(d)
    BY AheadOrders
  <2> QED
    BY <1>1, <2>1, FS_AddElement
<1>3. Rank(b, c) \in 1 .. Cardinality(S)
  <2>1. Leading(c) \cup {c} \subseteq S
    OBVIOUS
  <2>2. Cardinality(Leading(c) \cup {c}) <= Cardinality(S) /\ Cardinality(S) \in Nat
    BY <2>1, FS_Subset, FS_CardinalityType
  <2> HIDE DEF Leading, S
  <2> QED
    BY <1>1, <1>2, <2>2 DEF S
<1>4. ASSUME NEW d \in S, Ahead(b, c, d)
      PROVE  Rank(b, c) < Rank(b, d)
  <2>1. Leading(c) \cup {c} \subseteq Leading(d)
    BY <1>4, AheadOrders
  <2>2. Cardinality(Leading(c) \cup {c}) <= Cardinality(Leading(d))
    BY <1>1, <2>1, FS_Subset
  <2> HIDE DEF Leading
  <2> QED
    BY <1>1, <1>2, <2>2
<1> QED
  BY <1>3, <1>4

\* There is one car for each place, so the order of a board is one.
LEMMA OrderIsOne ==
    ASSUME NEW b, IsBoard(b), DOMAIN b.cars \subseteq Nat, IsFiniteSet(DOMAIN b.cars)
    PROVE  /\ Order(b) \in [1 .. Cardinality(DOMAIN b.cars) -> DOMAIN b.cars]
           /\ \A i, j \in DOMAIN Order(b) : i < j => Ahead(b, Order(b)[i], Order(b)[j])
<1> DEFINE S == DOMAIN b.cars
           N == Cardinality(S)
           rank == [c \in S |-> Rank(b, c)]
<1>1. rank \in [S -> 1 .. N]
  BY RankOf
<1>2. ASSUME NEW c \in S, NEW d \in S, rank[c] = rank[d]
      PROVE  c = d
  <2>1. Rank(b, c) = Rank(b, d) /\ Rank(b, c) \in 1 .. N
    BY <1>2, RankOf
  <2>2. ~Ahead(b, c, d) /\ ~Ahead(b, d, c)
    BY <2>1, RankOf
  <2> QED
    BY <2>2, AheadOrders
<1>3. rank \in Injection(S, 1 .. N)
  BY <1>1, <1>2 DEF Injection, IsInjective
<1>4. N \in Nat /\ IsFiniteSet(1 .. N) /\ Cardinality(1 .. N) = N
  BY FS_CardinalityType, FS_Interval
<1>5. rank \in Surjection(S, 1 .. N)
  BY <1>3, <1>4, FS_Injection
<1>6. \A i \in 1 .. N : \E c \in S : rank[c] = i
  BY <1>5 DEF Surjection
<1> DEFINE order == [i \in 1 .. N |-> CHOOSE c \in S : rank[c] = i]
<1>7. \A i \in 1 .. N : order[i] \in S /\ rank[order[i]] = i
  BY <1>6
<1>8. order \in [1 .. N -> S] /\ DOMAIN order = 1 .. N
  BY <1>7
<1> HIDE DEF order
<1>9. ASSUME NEW i \in DOMAIN order, NEW j \in DOMAIN order, i < j
      PROVE  Ahead(b, order[i], order[j])
  <2>1. /\ order[i] \in S /\ Rank(b, order[i]) = i
        /\ order[j] \in S /\ Rank(b, order[j]) = j
        /\ i \in Nat /\ j \in Nat
    <3>1. i \in 1 .. N /\ j \in 1 .. N
      BY <1>8
    <3>2. \A c \in S : rank[c] = Rank(b, c)
      OBVIOUS
    <3>3. order[i] \in S /\ rank[order[i]] = i /\ order[j] \in S /\ rank[order[j]] = j
      BY <1>7, <3>1
    <3> HIDE DEF N, S, rank
    <3>4. Rank(b, order[i]) = i /\ Rank(b, order[j]) = j
      BY <3>2, <3>3
    <3> QED
      BY <1>4, <3>1, <3>3, <3>4
  <2>2. ~Ahead(b, order[j], order[i])
    BY <1>9, <2>1, RankOf
  <2>3. order[i] # order[j]
    BY <1>9, <2>1
  <2> QED
    BY <2>1, <2>2, <2>3, AheadOrders
<1>10. \E o \in [1 .. N -> S] : \A i, j \in DOMAIN o : i < j => Ahead(b, o[i], o[j])
  BY <1>8, <1>9
<1> QED
  BY <1>10 DEF Order

-----------------------------------------------------------------------------
(* The account *)

IsMax(x, S) == x \in S /\ \A y \in S : y <= x

IsMin(x, S) == x \in S /\ \A y \in S : x <= y

LEMMA MaxIsOne ==
    ASSUME NEW S, S \subseteq Nat, NEW x, IsMax(x, S)
    PROVE  Max(S) = x
<1>1. x \in S /\ \A y \in S : x >= y
  BY DEF IsMax
<1>2. \A z \in S : (\A y \in S : z >= y) => z = x
  BY <1>1
<1> QED
  BY <1>1, <1>2 DEF Max

LEMMA MinIsOne ==
    ASSUME NEW S, S \subseteq Nat, NEW x, IsMin(x, S)
    PROVE  Min(S) = x
<1>1. x \in S /\ \A y \in S : x =< y
  BY DEF IsMin
<1>2. \A z \in S : (\A y \in S : z =< y) => z = x
  BY <1>1
<1> QED
  BY <1>1, <1>2 DEF Min

LapsIn(events, c) == {i \in DOMAIN events : events[i].kind = "lap" /\ events[i].car = c}

CarsIn(events) ==
    {c \in Canonical : \E i \in DOMAIN events : events[i].kind # "link" /\ events[i].car = c}

LinksIn(events) == {i \in DOMAIN events : events[i].kind = "link"}

AllLapsIn(events) == {i \in DOMAIN events : events[i].kind = "lap"}

RefusedIn(events) == {i \in AllLapsIn(events) : events[i].car \notin Canonical}

\* A car says what the laps of the events say.
CarTells(car, events, c) ==
    LET mine == LapsIn(events, c) IN
    /\ mine = {} => car = NoCar
    /\ mine # {} =>
         /\ IsMax(car.laps, {events[i].n : i \in mine})
         /\ IsMin(car.best, {events[i].ms : i \in mine})
         /\ car.samples = Cardinality(mine)
         /\ \E i : IsMax(i, mine) /\ car.last = events[i].ms

Tells(b, events) ==
    /\ DOMAIN b.cars = CarsIn(events)
    /\ \A c \in CarsIn(events) : CarTells(b.cars[c], events, c)
    /\ LinksIn(events) = {} => b.link = FALSE
    /\ LinksIn(events) # {} => \E i : IsMax(i, LinksIn(events)) /\ b.link = (events[i].n = 1)
    /\ b.laps = Cardinality(AllLapsIn(events))
    /\ b.refused = Cardinality(RefusedIn(events))

\* A board that says what the events say is their account.
LEMMA TellsTheAccount ==
    ASSUME NEW b, IsBoard(b), NEW k \in Nat, NEW events \in [1 .. k -> Events], Tells(b, events)
    PROVE  b = Account(events)
<1> DEFINE CarAcc(c) == IF LapsIn(events, c) = {} THEN NoCar
                   ELSE [laps    |-> Max({events[i].n : i \in LapsIn(events, c)}),
                         last    |-> events[Max(LapsIn(events, c))].ms,
                         best    |-> Min({events[i].ms : i \in LapsIn(events, c)}),
                         samples |-> Cardinality(LapsIn(events, c))]
           cars == [c \in CarsIn(events) |-> CarAcc(c)]
           link == LinksIn(events) # {} /\ events[Max(LinksIn(events))].n = 1
<1>1. Account(events) = [cars |-> cars, link |-> link, laps |-> Cardinality(AllLapsIn(events)),
                         refused |-> Cardinality(RefusedIn(events))]
  BY DEF Account, LapsIn, CarsIn, LinksIn, AllLapsIn, RefusedIn
<1>2. DOMAIN events = 1 .. k /\ \A i \in DOMAIN events : events[i].n \in Nat /\ events[i].ms \in Nat
  BY DEF Events
<1>3. ASSUME NEW c \in CarsIn(events)
      PROVE  b.cars[c] = CarAcc(c)
  <2> DEFINE mine == LapsIn(events, c)
  <2> DEFINE car == b.cars[c]
  <2>1. car \in Cars /\ CarTells(car, events, c)
    BY DEF IsBoard, Tells
  <2>2. CASE mine = {}
    BY <2>1, <2>2 DEF CarTells
  <2>3. CASE mine # {}
    <3>1. /\ mine \subseteq Nat
          /\ {events[i].n : i \in mine} \subseteq Nat /\ {events[i].ms : i \in mine} \subseteq Nat
      BY <1>2 DEF LapsIn
    <3>2. /\ IsMax(car.laps, {events[i].n : i \in mine})
          /\ IsMin(car.best, {events[i].ms : i \in mine})
          /\ car.samples = Cardinality(mine)
      BY <2>1, <2>3 DEF CarTells
    <3>3. PICK i : IsMax(i, mine) /\ car.last = events[i].ms
      BY <2>1, <2>3 DEF CarTells
    <3>4. Max(mine) = i
      BY <3>1, <3>3, MaxIsOne
    <3>5. Max({events[j].n : j \in mine}) = car.laps
      BY <3>1, <3>2, MaxIsOne
    <3>6. Min({events[j].ms : j \in mine}) = car.best
      BY <3>1, <3>2, MinIsOne
    <3>7. car = [laps |-> car.laps, last |-> car.last, best |-> car.best, samples |-> car.samples]
      BY <2>1 DEF Cars
    <3>8. CarAcc(c) = [laps |-> car.laps, last |-> car.last, best |-> car.best, samples |-> car.samples]
      BY <2>3, <3>2, <3>3, <3>4, <3>5, <3>6
    <3> QED
      BY <3>7, <3>8
  <2> QED
    BY <2>2, <2>3
<1>4. b.cars = cars
  <2> HIDE DEF CarAcc
  <2>1. b.cars = [c \in CarsIn(events) |-> b.cars[c]]
    BY DEF IsBoard, Tells
  <2> QED
    BY <1>3, <2>1
<1>5. b.link = link
  <2>1. CASE LinksIn(events) = {}
    BY <2>1 DEF Tells
  <2>2. CASE LinksIn(events) # {}
    <3>1. PICK i : IsMax(i, LinksIn(events)) /\ b.link = (events[i].n = 1)
      BY <2>2 DEF Tells
    <3>2. LinksIn(events) \subseteq Nat
      BY <1>2 DEF LinksIn
    <3>3. Max(LinksIn(events)) = i
      BY <3>1, <3>2, MaxIsOne
    <3>4. link = (events[i].n = 1)
      BY <2>2, <3>3, Zenon
    <3> QED
      BY <3>1, <3>4, Zenon
  <2> QED
    BY <2>1, <2>2
<1>6. b = [cars |-> b.cars, link |-> b.link, laps |-> b.laps, refused |-> b.refused]
  BY DEF IsBoard
<1>7. b.laps = Cardinality(AllLapsIn(events)) /\ b.refused = Cardinality(RefusedIn(events))
  BY DEF Tells
<1> HIDE DEF cars, link
<1> QED
  BY <1>1, <1>4, <1>5, <1>6, <1>7, Zenon

\* f is events with e after them.
Then(f, k, events, e) ==
    /\ f \in [1 .. k + 1 -> Events]
    /\ f[k + 1] = e /\ \A i \in 1 .. k : f[i] = events[i]

LEMMA SetsThen ==
    ASSUME NEW k \in Nat, NEW events \in [1 .. k -> Events], NEW e \in Events,
           NEW f, Then(f, k, events, e)
    PROVE  /\ \A c : LapsIn(f, c) = IF e.kind = "lap" /\ e.car = c THEN LapsIn(events, c) \cup {k + 1}
                                                                   ELSE LapsIn(events, c)
           /\ CarsIn(f) = IF e.kind # "link" /\ e.car \in Canonical THEN CarsIn(events) \cup {e.car}
                                                                    ELSE CarsIn(events)
           /\ LinksIn(f) = IF e.kind = "link" THEN LinksIn(events) \cup {k + 1} ELSE LinksIn(events)
           /\ AllLapsIn(f) = IF e.kind = "lap" THEN AllLapsIn(events) \cup {k + 1} ELSE AllLapsIn(events)
           /\ RefusedIn(f) = IF e.kind = "lap" /\ e.car \notin Canonical
                             THEN RefusedIn(events) \cup {k + 1} ELSE RefusedIn(events)
<1>1. DOMAIN f = 1 .. k + 1 /\ DOMAIN events = 1 .. k
  BY DEF Then
<1>2. f[k + 1] = e /\ \A i \in 1 .. k : f[i] = events[i]
  BY DEF Then
<1>3. \A i \in 1 .. k + 1 : i \in 1 .. k \/ i = k + 1
  OBVIOUS
<1>4. k + 1 \in 1 .. k + 1 /\ \A i \in 1 .. k : i \in 1 .. k + 1
  OBVIOUS
<1>5. ASSUME NEW c
      PROVE  LapsIn(f, c) = IF e.kind = "lap" /\ e.car = c THEN LapsIn(events, c) \cup {k + 1}
                                                           ELSE LapsIn(events, c)
  BY <1>1, <1>2, <1>3, <1>4 DEF LapsIn
<1>6. CarsIn(f) = IF e.kind # "link" /\ e.car \in Canonical THEN CarsIn(events) \cup {e.car}
                                                           ELSE CarsIn(events)
  BY <1>1, <1>2, <1>3, <1>4 DEF CarsIn
<1>7. LinksIn(f) = IF e.kind = "link" THEN LinksIn(events) \cup {k + 1} ELSE LinksIn(events)
  BY <1>1, <1>2, <1>3, <1>4 DEF LinksIn
<1>8. AllLapsIn(f) = IF e.kind = "lap" THEN AllLapsIn(events) \cup {k + 1} ELSE AllLapsIn(events)
  BY <1>1, <1>2, <1>3, <1>4 DEF AllLapsIn
<1>9. RefusedIn(f) = IF e.kind = "lap" /\ e.car \notin Canonical
                     THEN RefusedIn(events) \cup {k + 1} ELSE RefusedIn(events)
  BY <1>1, <1>2, <1>3, <1>4 DEF AllLapsIn, RefusedIn
<1> QED
  BY <1>5, <1>6, <1>7, <1>8, <1>9

\* One more of a set of places.
LEMMA OneMore ==
    ASSUME NEW k \in Nat, NEW S, S \subseteq 1 .. k
    PROVE  /\ Cardinality(S) \in Nat /\ Cardinality(S \cup {k + 1}) = Cardinality(S) + 1
           /\ IsMax(k + 1, S \cup {k + 1})
<1>1. IsFiniteSet(1 .. k)
  BY FS_Interval
<1>2. IsFiniteSet(S) /\ Cardinality(S) \in Nat
  BY <1>1, FS_Subset, FS_CardinalityType
<1>3. k + 1 \notin S
  OBVIOUS
<1>4. IsMax(k + 1, S \cup {k + 1})
  BY DEF IsMax
<1> QED
  BY <1>2, <1>3, <1>4, FS_AddElement

\* A car without a further lap says what it said.
LEMMA CarTellsOn ==
    ASSUME NEW k \in Nat, NEW events \in [1 .. k -> Events], NEW e \in Events,
           NEW f, Then(f, k, events, e),
           NEW c, NEW car, LapsIn(f, c) = LapsIn(events, c), CarTells(car, events, c)
    PROVE  CarTells(car, f, c)
<1> DEFINE mine == LapsIn(events, c)
<1>1. mine \subseteq 1 .. k
  BY DEF LapsIn
<1>2. \A i \in mine : f[i] = events[i]
  BY <1>1 DEF Then
<1>3. /\ {f[i].n : i \in mine} = {events[i].n : i \in mine}
      /\ {f[i].ms : i \in mine} = {events[i].ms : i \in mine}
  BY <1>2
<1>4. \A i : IsMax(i, mine) => f[i] = events[i]
  BY <1>2 DEF IsMax
<1> HIDE DEF mine
<1>5. LapsIn(f, c) = mine /\ LapsIn(events, c) = mine
  BY DEF mine
<1> QED
  BY <1>3, <1>4, <1>5 DEF CarTells

\* A car with a further lap says that, too.
LEMMA CarTellsLap ==
    ASSUME NEW k \in Nat, NEW events \in [1 .. k -> Events], NEW e \in Events,
           NEW f, Then(f, k, events, e),
           NEW c, NEW car \in Cars, LapsIn(f, c) = LapsIn(events, c) \cup {k + 1},
           CarTells(car, events, c)
    PROVE  CarTells(WithLap(car, e), f, c)
<1> DEFINE mine == LapsIn(events, c)
<1> DEFINE more == mine \cup {k + 1}
<1> DEFINE next == WithLap(car, e)
<1>1. mine \subseteq 1 .. k
  BY DEF LapsIn
<1>2. (\A i \in mine : f[i] = events[i]) /\ f[k + 1] = e
  BY <1>1 DEF Then
<1>3. e.n \in Nat /\ e.ms \in Nat /\ \A i \in mine : events[i].n \in Nat /\ events[i].ms \in Nat
  BY <1>1 DEF Events
<1>4. /\ {f[i].n : i \in more} = {events[i].n : i \in mine} \cup {e.n}
      /\ {f[i].ms : i \in more} = {events[i].ms : i \in mine} \cup {e.ms}
  BY <1>2
<1>5. Cardinality(more) = Cardinality(mine) + 1 /\ IsMax(k + 1, more) /\ Cardinality(mine) \in Nat
  BY <1>1, OneMore
<1>6. /\ next.laps = IF e.n > car.laps THEN e.n ELSE car.laps
      /\ next.last = e.ms /\ next.best = Better(car.best, e.ms)
      /\ next.samples = car.samples + 1
  BY DEF WithLap
<1>7. \E i : IsMax(i, more) /\ next.last = f[i].ms
  BY <1>2, <1>5, <1>6
<1> DEFINE ns == {events[i].n : i \in mine}
<1> DEFINE ts == {events[i].ms : i \in mine}
<1>8. /\ next.samples = Cardinality(more)
      /\ IsMax(next.laps, ns \cup {e.n}) /\ IsMin(next.best, ts \cup {e.ms})
  <2>1. CASE mine = {}
    <3>1. car = NoCar
      BY <2>1 DEF CarTells
    <3>2. next.laps = e.n /\ next.best = e.ms /\ next.samples = 1
      BY <1>3, <1>6, <3>1 DEF NoCar, Better
    <3>3. Cardinality(mine) = 0
      BY <2>1, FS_EmptySet
    <3>4. ns = {} /\ ts = {}
      BY <2>1
    <3> HIDE DEF ns, ts, next, mine, more
    <3> QED
      BY <1>3, <1>5, <3>2, <3>3, <3>4 DEF IsMax, IsMin
  <2>2. CASE mine # {}
    <3>1. IsMax(car.laps, ns) /\ IsMin(car.best, ts) /\ car.samples = Cardinality(mine)
      BY <2>2 DEF CarTells
    <3>2. ns \subseteq Nat /\ ts \subseteq Nat
      BY <1>3
    <3> HIDE DEF ns, ts, next, mine, more
    <3>3. car.laps \in Nat /\ car.best \in Nat /\ car.best # None
      <4>1. car.laps \in ns /\ car.best \in ts
        BY <3>1, Zenon DEF IsMax, IsMin
      <4>2. car.laps \in Nat /\ car.best \in Nat
        BY <3>2, <4>1
      <4> QED
        BY <4>2 DEF None
    <3>4. IsMax(next.laps, ns \cup {e.n})
      BY <1>3, <1>6, <3>1, <3>2, <3>3 DEF IsMax
    <3>5. next.best = IF e.ms < car.best THEN e.ms ELSE car.best
      BY <1>6, <3>3 DEF Better
    <3>6. IsMin(next.best, ts \cup {e.ms})
      BY <1>3, <3>1, <3>2, <3>3, <3>5 DEF IsMin
    <3> QED
      BY <1>5, <1>6, <3>1, <3>4, <3>6
  <2> QED
    BY <2>1, <2>2
<1>9. more # {} /\ LapsIn(f, c) = more
  OBVIOUS
<1> HIDE DEF more, next, ns, ts
<1>10. IsMax(next.laps, {f[i].n : i \in more}) /\ IsMin(next.best, {f[i].ms : i \in more})
  BY <1>4, <1>8 DEF ns, ts
<1>11. CarTells(next, f, c)
  BY <1>7, <1>8, <1>9, <1>10 DEF CarTells
<1> QED
  BY <1>11 DEF next

LEMMA CarOfTells ==
    ASSUME NEW b, NEW k \in Nat, NEW events \in [1 .. k -> Events], Tells(b, events), NEW c \in Canonical
    PROVE  CarTells(CarOf(b, c), events, c)
<1>1. CASE c \in CarsIn(events)
  BY <1>1 DEF Tells, CarOf
<1>2. CASE c \notin CarsIn(events)
  <2>1. LapsIn(events, c) = {}
    BY <1>2 DEF LapsIn, CarsIn
  <2>2. CarOf(b, c) = NoCar
    BY <1>2 DEF Tells, CarOf
  <2> QED
    BY <2>1, <2>2 DEF CarTells
<1> QED
  BY <1>1, <1>2

LEMMA WithCarIs ==
    ASSUME NEW b, IsBoard(b), NEW c, NEW car
    PROVE  /\ WithCar(b, c, car).link = b.link /\ WithCar(b, c, car).laps = b.laps
           /\ WithCar(b, c, car).refused = b.refused
           /\ DOMAIN WithCar(b, c, car).cars = DOMAIN b.cars \cup {c}
           /\ WithCar(b, c, car).cars[c] = car
           /\ \A d \in DOMAIN b.cars : d # c => WithCar(b, c, car).cars[d] = b.cars[d]
           /\ WithCar(b, c, car) = [cars |-> WithCar(b, c, car).cars, link |-> b.link,
                                    laps |-> b.laps, refused |-> b.refused]
<1> DEFINE cars == [d \in DOMAIN b.cars \cup {c} |-> IF d = c THEN car ELSE b.cars[d]]
<1>1. WithCar(b, c, car) = [b EXCEPT !.cars = cars]
  BY DEF WithCar
<1>2. b = [cars |-> b.cars, link |-> b.link, laps |-> b.laps, refused |-> b.refused]
  BY DEF IsBoard
<1>3. /\ DOMAIN cars = DOMAIN b.cars \cup {c} /\ cars[c] = car
      /\ \A d \in DOMAIN b.cars : d # c => cars[d] = b.cars[d]
  OBVIOUS
<1> HIDE DEF cars
<1>4. WithCar(b, c, car) = [cars |-> cars, link |-> b.link, laps |-> b.laps, refused |-> b.refused]
  BY <1>1, <1>2
<1> QED
  BY <1>3, <1>4

\* An event that is applied is told (state_manager.py, apply).
LEMMA ApplyTells ==
    ASSUME NEW b, IsBoard(b), NEW k \in Nat, NEW events \in [1 .. k -> Events], Tells(b, events),
           NEW e \in Events, NEW f, Then(f, k, events, e)
    PROVE  Tells(Apply(b, e), f)
<1> DEFINE d == Apply(b, e)
<1>1. e.kind \in {"lap", "fuel", "link"} /\ "lap" # "fuel" /\ "lap" # "link" /\ "fuel" # "link"
  BY DEF Events
<1>2. /\ \A c : LapsIn(f, c) = IF e.kind = "lap" /\ e.car = c THEN LapsIn(events, c) \cup {k + 1}
                                                              ELSE LapsIn(events, c)
      /\ CarsIn(f) = IF e.kind # "link" /\ e.car \in Canonical THEN CarsIn(events) \cup {e.car}
                                                               ELSE CarsIn(events)
      /\ LinksIn(f) = IF e.kind = "link" THEN LinksIn(events) \cup {k + 1} ELSE LinksIn(events)
      /\ AllLapsIn(f) = IF e.kind = "lap" THEN AllLapsIn(events) \cup {k + 1} ELSE AllLapsIn(events)
      /\ RefusedIn(f) = IF e.kind = "lap" /\ e.car \notin Canonical
                        THEN RefusedIn(events) \cup {k + 1} ELSE RefusedIn(events)
  BY SetsThen
<1>3. /\ DOMAIN b.cars = CarsIn(events)
      /\ \A c \in CarsIn(events) : CarTells(b.cars[c], events, c)
      /\ b.laps = Cardinality(AllLapsIn(events)) /\ b.refused = Cardinality(RefusedIn(events))
  BY DEF Tells
<1>4. LinksIn(events) \subseteq 1 .. k /\ AllLapsIn(events) \subseteq 1 .. k
      /\ RefusedIn(events) \subseteq 1 .. k
  BY DEF LinksIn, AllLapsIn, RefusedIn
<1>5. /\ Cardinality(AllLapsIn(events) \cup {k + 1}) = b.laps + 1
      /\ Cardinality(RefusedIn(events) \cup {k + 1}) = b.refused + 1
      /\ IsMax(k + 1, LinksIn(events) \cup {k + 1})
  BY <1>3, <1>4, OneMore
<1>6. f[k + 1] = e /\ \A i \in 1 .. k : f[i] = events[i]
  BY DEF Then
<1>7. b = [cars |-> b.cars, link |-> b.link, laps |-> b.laps, refused |-> b.refused]
  BY DEF IsBoard
<1>8. ASSUME e.kind # "link", d.link = b.link
      PROVE  /\ LinksIn(f) = {} => d.link = FALSE
             /\ LinksIn(f) # {} => \E i : IsMax(i, LinksIn(f)) /\ d.link = (f[i].n = 1)
  <2>1. LinksIn(f) = LinksIn(events)
    BY <1>2, <1>8
  <2>2. CASE LinksIn(events) = {}
    BY <1>8, <2>1, <2>2 DEF Tells
  <2>3. CASE LinksIn(events) # {}
    <3>1. PICK i : IsMax(i, LinksIn(events)) /\ b.link = (events[i].n = 1)
      BY <2>3 DEF Tells
    <3>2. f[i] = events[i]
      BY <1>4, <1>6, <3>1 DEF IsMax
    <3> QED
      BY <1>8, <2>1, <2>3, <3>1, <3>2, Zenon
  <2> QED
    BY <2>2, <2>3
<1>9. CASE e.kind = "link"
  <2>1. d = [b EXCEPT !.link = (e.n = 1)]
    BY <1>9 DEF Apply
  <2>2. d = [cars |-> b.cars, link |-> (e.n = 1), laps |-> b.laps, refused |-> b.refused]
    BY <1>7, <2>1
  <2>3. d.cars = b.cars /\ d.laps = b.laps /\ d.refused = b.refused /\ d.link = (e.n = 1)
    BY <2>2
  <2> HIDE DEF d
  <2>4. /\ CarsIn(f) = CarsIn(events) /\ AllLapsIn(f) = AllLapsIn(events)
        /\ RefusedIn(f) = RefusedIn(events) /\ LinksIn(f) = LinksIn(events) \cup {k + 1}
        /\ \A c : LapsIn(f, c) = LapsIn(events, c)
    BY <1>1, <1>2, <1>9
  <2>5. \A c \in CarsIn(f) : CarTells(d.cars[c], f, c)
    BY <1>3, <2>3, <2>4, CarTellsOn
  <2>6. LinksIn(f) # {} /\ IsMax(k + 1, LinksIn(f)) /\ d.link = (f[k + 1].n = 1)
    BY <1>5, <1>6, <2>3, <2>4, Zenon
  <2>7. /\ LinksIn(f) = {} => d.link = FALSE
        /\ LinksIn(f) # {} => \E i : IsMax(i, LinksIn(f)) /\ d.link = (f[i].n = 1)
    BY <2>6, Zenon
  <2>8. DOMAIN d.cars = CarsIn(f) /\ d.laps = Cardinality(AllLapsIn(f)) /\ d.refused = Cardinality(RefusedIn(f))
    BY <1>3, <2>3, <2>4
  <2>9. Tells(d, f)
    BY <2>5, <2>7, <2>8, Zenon DEF Tells
  <2> QED
    BY <2>9 DEF d
<1>10. ASSUME NEW car, NEW a, a = WithCar(b, e.car, car), e.kind # "link", e.car \in Canonical,
              CarTells(car, f, e.car)
       PROVE  /\ DOMAIN a.cars = CarsIn(f)
              /\ \A c \in CarsIn(f) : CarTells(a.cars[c], f, c)
  <2>1. CarsIn(f) = CarsIn(events) \cup {e.car}
    BY <1>2, <1>10
  <2>2. /\ DOMAIN a.cars = CarsIn(events) \cup {e.car} /\ a.cars[e.car] = car
        /\ \A c \in CarsIn(events) : c # e.car => a.cars[c] = b.cars[c]
    BY <1>3, <1>10, WithCarIs
  <2>3. ASSUME NEW c \in CarsIn(events), c # e.car
        PROVE  CarTells(a.cars[c], f, c)
    <3>1. LapsIn(f, c) = LapsIn(events, c)
      BY <1>2, <2>3
    <3> QED
      BY <1>3, <2>2, <2>3, <3>1, CarTellsOn
  <2> QED
    BY <1>10, <2>1, <2>2, <2>3
<1>11. CASE e.kind = "fuel" /\ e.car \in Canonical
  <2> DEFINE car == CarOf(b, e.car)
  <2>1. d = WithCar(b, e.car, car)
    BY <1>1, <1>11 DEF Apply
  <2>2. LapsIn(f, e.car) = LapsIn(events, e.car)
    BY <1>1, <1>2, <1>11
  <2>3. CarTells(car, f, e.car)
    BY <1>11, <2>2, CarOfTells, CarTellsOn
  <2>4. d.link = b.link /\ d.laps = b.laps /\ d.refused = b.refused
    BY <2>1, WithCarIs
  <2> HIDE DEF car, d
  <2>5. DOMAIN d.cars = CarsIn(f) /\ \A c \in CarsIn(f) : CarTells(d.cars[c], f, c)
    BY <1>1, <1>10, <1>11, <2>1, <2>3
  <2>6. /\ LinksIn(f) = {} => d.link = FALSE
        /\ LinksIn(f) # {} => \E i : IsMax(i, LinksIn(f)) /\ d.link = (f[i].n = 1)
    BY <1>1, <1>8, <1>11, <2>4 DEF d
  <2>7. d.laps = Cardinality(AllLapsIn(f)) /\ d.refused = Cardinality(RefusedIn(f))
    BY <1>1, <1>2, <1>3, <1>11, <2>4
  <2>8. Tells(d, f)
    BY <2>5, <2>6, <2>7, Zenon DEF Tells
  <2> QED
    BY <2>8 DEF d
<1>12. CASE e.kind = "lap" /\ e.car \in Canonical
  <2> DEFINE car == WithLap(CarOf(b, e.car), e)
  <2> DEFINE a == WithCar(b, e.car, car)
  <2>1. d = [a EXCEPT !.laps = @ + 1]
    BY <1>1, <1>12 DEF Apply
  <2>2. LapsIn(f, e.car) = LapsIn(events, e.car) \cup {k + 1}
    BY <1>2, <1>12
  <2>3. CarTells(CarOf(b, e.car), events, e.car) /\ CarOf(b, e.car) \in Cars
    BY <1>12, CarOfTells, CarOfIsACar
  <2>4. CarTells(car, f, e.car)
    BY <2>2, <2>3, CarTellsLap
  <2> HIDE DEF car
  <2>5. a = [cars |-> a.cars, link |-> b.link, laps |-> b.laps, refused |-> b.refused]
    BY WithCarIs
  <2>6. DOMAIN a.cars = CarsIn(f) /\ \A c \in CarsIn(f) : CarTells(a.cars[c], f, c)
    BY <1>1, <1>10, <1>12, <2>4
  <2> HIDE DEF a
  <2>7. d = [cars |-> a.cars, link |-> b.link, laps |-> b.laps + 1, refused |-> b.refused]
    BY <2>1, <2>5
  <2>8. d.cars = a.cars /\ d.link = b.link /\ d.laps = b.laps + 1 /\ d.refused = b.refused
    BY <2>7
  <2> HIDE DEF d
  <2>9. /\ LinksIn(f) = {} => d.link = FALSE
        /\ LinksIn(f) # {} => \E i : IsMax(i, LinksIn(f)) /\ d.link = (f[i].n = 1)
    BY <1>1, <1>8, <1>12, <2>8 DEF d
  <2>10. d.laps = Cardinality(AllLapsIn(f)) /\ d.refused = Cardinality(RefusedIn(f))
    BY <1>2, <1>3, <1>5, <1>12, <2>8
  <2>11. DOMAIN d.cars = CarsIn(f) /\ \A c \in CarsIn(f) : CarTells(d.cars[c], f, c)
    BY <2>6, <2>8
  <2>12. Tells(d, f)
    BY <2>9, <2>10, <2>11, Zenon DEF Tells
  <2> QED
    BY <2>12 DEF d
<1>13. CASE e.kind # "link" /\ e.car \notin Canonical
  <2>1. d.cars = b.cars /\ d.link = b.link
        /\ d.laps = (IF e.kind = "lap" THEN b.laps + 1 ELSE b.laps)
        /\ d.refused = (IF e.kind = "lap" THEN b.refused + 1 ELSE b.refused)
    <3>1. CASE e.kind = "lap"
      <4>1. d = [b EXCEPT !.laps = @ + 1, !.refused = @ + 1]
        BY <1>1, <1>13, <3>1 DEF Apply
      <4>2. d = [cars |-> b.cars, link |-> b.link, laps |-> b.laps + 1, refused |-> b.refused + 1]
        BY <1>7, <4>1
      <4> QED
        BY <3>1, <4>2
    <3>2. CASE e.kind = "fuel"
      <4>1. d = b
        BY <1>1, <1>13, <3>2 DEF Apply
      <4> QED
        BY <1>1, <3>2, <4>1
    <3> QED
      BY <1>1, <1>13, <3>1, <3>2
  <2> HIDE DEF d
  <2>2. CarsIn(f) = CarsIn(events)
    BY <1>2, <1>13
  <2>3. \A c \in CarsIn(f) : LapsIn(f, c) = LapsIn(events, c)
    BY <1>2, <1>13 DEF CarsIn
  <2>4. \A c \in CarsIn(f) : CarTells(d.cars[c], f, c)
    BY <1>3, <2>1, <2>2, <2>3, CarTellsOn
  <2>5. /\ LinksIn(f) = {} => d.link = FALSE
        /\ LinksIn(f) # {} => \E i : IsMax(i, LinksIn(f)) /\ d.link = (f[i].n = 1)
    BY <1>8, <1>13, <2>1 DEF d
  <2>6. d.laps = Cardinality(AllLapsIn(f)) /\ d.refused = Cardinality(RefusedIn(f))
    BY <1>2, <1>3, <1>5, <1>13, <2>1
  <2>7. DOMAIN d.cars = CarsIn(f)
    BY <1>3, <2>1, <2>2
  <2>8. Tells(d, f)
    BY <2>4, <2>5, <2>6, <2>7, Zenon DEF Tells
  <2> QED
    BY <2>8 DEF d
<1> QED
  BY <1>1, <1>9, <1>11, <1>12, <1>13

-----------------------------------------------------------------------------
(* The prefix *)

\* The first k events that the manager took.
Told(k) == [i \in 1 .. k |-> published[got["state"][i]]]

TakenSoFar == Len(got["state"])

FileInv ==
    /\ Tells(board, Told(TakenSoFar))
    /\ \E k \in 0 .. TakenSoFar : Tells(shown.board, Told(k))
    /\ shown.order = Order(shown.board)

LEMMA GotOf ==
    ASSUME Streams, Numbered("state")
    PROVE  /\ got["state"] \in Seq(Nat) /\ TakenSoFar \in Nat
           /\ \A i \in 1 .. TakenSoFar : got["state"][i] \in 1 .. Len(published)
           /\ published \in Seq(Events) /\ Len(published) \in Nat
<1>1. "state" \in Queues /\ Sent("state") = Len(published)
  BY DEF Queues, Subscribers, Sent
<1>2. got["state"] \in Seq(Nat) /\ published \in Seq(Events)
  BY <1>1 DEF Streams
<1>3. DOMAIN got["state"] = 1 .. TakenSoFar /\ TakenSoFar \in Nat /\ Len(published) \in Nat
  BY <1>2, ST!LenProperties DEF TakenSoFar
<1> QED
  BY <1>1, <1>2, <1>3 DEF Numbered

LEMMA ToldIsEvents ==
    ASSUME Streams, Numbered("state"), NEW k \in 0 .. TakenSoFar
    PROVE  Told(k) \in [1 .. k -> Events]
<1>1. \A i \in 1 .. k : got["state"][i] \in 1 .. Len(published)
  BY GotOf
<1>2. \A j \in 1 .. Len(published) : published[j] \in Events
  BY GotOf, ST!ElementOfSeq
<1> QED
  BY <1>1, <1>2 DEF Told

\* What was told is told for good.
LEMMA ToldOn ==
    ASSUME Streams, Numbered("state"),
           \A i \in 1 .. TakenSoFar : got'["state"][i] = got["state"][i],
           \A i \in 1 .. Len(published) : published'[i] = published[i],
           NEW k \in 0 .. TakenSoFar
    PROVE  Told(k)' = Told(k)
<1>1. ASSUME NEW i \in 1 .. k
      PROVE  published'[got'["state"][i]] = published[got["state"][i]]
  <2>1. i \in 1 .. TakenSoFar
    BY GotOf
  <2> QED
    BY <2>1, GotOf
<1>2. Told(k)' = [i \in 1 .. k |-> published'[got'["state"][i]]]
  BY DEF Told
<1> QED
  BY <1>1, <1>2 DEF Told

LEMMA FileShown ==
    ASSUME FileInv, TakenSoFar \in Nat, TakenSoFar' \in Nat, TakenSoFar <= TakenSoFar',
           \A k \in 0 .. TakenSoFar : Told(k)' = Told(k),
           Tells(board', Told(TakenSoFar)'), Show(board')
    PROVE  FileInv'
<1>1. CASE shown' = shown
  <2>1. PICK k \in 0 .. TakenSoFar : Tells(shown.board, Told(k))
    BY DEF FileInv
  <2>2. k \in 0 .. TakenSoFar' /\ Tells(shown'.board, Told(k)')
    BY <1>1, <2>1
  <2>3. \E m \in 0 .. TakenSoFar' : Tells(shown'.board, Told(m)')
    BY <2>2
  <2>4. shown'.order = Order(shown'.board)
    BY <1>1 DEF FileInv
  <2> QED
    BY <2>3, <2>4 DEF FileInv
<1>2. CASE shown' = Snapshot(board')
  <2>1. shown'.board = board' /\ shown'.order = Order(shown'.board)
    BY <1>2 DEF Snapshot
  <2>2. Tells(shown'.board, Told(TakenSoFar)') /\ TakenSoFar' \in 0 .. TakenSoFar'
    BY <2>1
  <2>3. \E m \in 0 .. TakenSoFar' : Tells(shown'.board, Told(m)')
    BY <2>2
  <2> QED
    BY <2>1, <2>3 DEF FileInv
<1> QED
  BY <1>1, <1>2 DEF Show

\* The manager takes no event.
LEMMA FileAside ==
    ASSUME Streams, Numbered("state"), FileInv,
           got'["state"] = got["state"],
           \A i \in 1 .. Len(published) : published'[i] = published[i],
           board' = board, Show(board')
    PROVE  FileInv'
<1>1. TakenSoFar \in Nat /\ TakenSoFar' = TakenSoFar
  BY GotOf DEF TakenSoFar
<1>2. \A k \in 0 .. TakenSoFar : Told(k)' = Told(k)
  BY ToldOn
<1>3. Told(TakenSoFar)' = Told(TakenSoFar)
  <2>1. Told(TakenSoFar)' = [i \in 1 .. TakenSoFar' |-> published'[got'["state"][i]]]
    BY DEF Told
  <2>2. ASSUME NEW i \in 1 .. TakenSoFar
        PROVE  published'[got'["state"][i]] = published[got["state"][i]]
    BY GotOf
  <2> QED
    BY <1>1, <2>1, <2>2 DEF Told
<1>4. Tells(board', Told(TakenSoFar)')
  BY <1>3 DEF FileInv
<1> QED
  BY <1>1, <1>2, <1>4, FileShown

\* The manager takes the next one.
LEMMA FileTakes ==
    ASSUME Streams, Numbered("state"), Boards, FileInv,
           queue["state"] # <<>>, Taken("state", 1),
           board' = Apply(board, published[Head(queue["state"])]), Show(board')
    PROVE  FileInv'
<1> DEFINE g == got["state"]
           n == TakenSoFar
           x == Head(queue["state"])
           e == published[x]
<1>1. "state" \in Queues /\ queue["state"] \in Seq(Nat)
  BY DEF Queues, Subscribers, Streams
<1>2. /\ g \in Seq(Nat) /\ n \in Nat /\ n = Len(g) /\ published' = published
      /\ \A i \in 1 .. n : g[i] \in 1 .. Len(published)
  BY GotOf DEF TakenSoFar, Taken
<1>3. /\ e \in Events /\ x \in 1 .. Len(published)
      /\ x = queue["state"][1] /\ Len(queue["state"]) \in Nat \ {0}
  BY HeadPublished
<1>4. got'["state"] = g \o SubSeq(queue["state"], 1, 1)
  BY <1>1 DEF Taken, Streams
<1>5. /\ SubSeq(queue["state"], 1, 1) \in Seq(Nat) /\ Len(SubSeq(queue["state"], 1, 1)) = 1
      /\ SubSeq(queue["state"], 1, 1)[1] = x
  <2>1. queue["state"][1] \in Nat /\ \A i \in 1 .. 1 : queue["state"][i] \in Nat
    BY <1>1, <1>3, ST!ElementOfSeq
  <2> QED
    BY <1>3, <2>1, ST!SubSeqProperties
<1>6. /\ TakenSoFar' = n + 1 /\ got'["state"][n + 1] = x
      /\ \A i \in 1 .. n : got'["state"][i] = g[i]
  <2> DEFINE h == SubSeq(queue["state"], 1, 1)
  <2> DEFINE u == g \o h
  <2>1. /\ Len(u) = Len(g) + Len(h)
        /\ \A i \in 1 .. Len(g) + Len(h) : u[i] = IF i <= Len(g) THEN g[i] ELSE h[i - Len(g)]
    BY <1>2, <1>5, ST!ConcatProperties
  <2>2. got'["state"] = u /\ h[1] = x /\ Len(h) = 1
    BY <1>4, <1>5
  <2> HIDE DEF u, h, g, n, x
  <2>3. Len(u) = n + 1 /\ u[n + 1] = x /\ \A i \in 1 .. n : u[i] = g[i]
    BY <1>2, <2>1, <2>2
  <2> QED
    BY <2>2, <2>3 DEF TakenSoFar
<1>7. \A k \in 0 .. TakenSoFar : Told(k)' = Told(k)
  BY <1>2, <1>6, ToldOn
<1> DEFINE f == Told(TakenSoFar)'
<1>8. f = [i \in 1 .. n + 1 |-> published[got'["state"][i]]]
  BY <1>2, <1>6 DEF Told
<1>9. Told(n) \in [1 .. n -> Events] /\ Told(n) = [i \in 1 .. n |-> published[g[i]]]
  BY <1>2, ToldIsEvents DEF Told
<1> HIDE DEF f, n, x, e, g
<1>10. f[n + 1] = e
  BY <1>2, <1>6, <1>8 DEF e
<1>11. \A i \in 1 .. n : f[i] = Told(n)[i]
  BY <1>2, <1>6, <1>8, <1>9
<1>12. f \in [1 .. n + 1 -> Events]
  <2>1. \A i \in 1 .. n : Told(n)[i] \in Events
    BY <1>9
  <2>2. \A i \in 1 .. n + 1 : published[got'["state"][i]] \in Events
    <3> TAKE i \in 1 .. n + 1
    <3>1. f[i] = published[got'["state"][i]]
      BY <1>8
    <3>2. i = n + 1 \/ i \in 1 .. n
      BY <1>2
    <3> QED
      BY <1>3, <1>10, <1>11, <2>1, <3>1, <3>2
  <2> QED
    BY <1>8, <2>2
<1>13. Then(f, n, Told(n), e)
  BY <1>10, <1>11, <1>12 DEF Then
<1>14. IsBoard(board) /\ Tells(board, Told(n))
  BY DEF Boards, FileInv, n
<1>15. Tells(Apply(board, e), f)
  BY <1>2, <1>3, <1>9, <1>13, <1>14, ApplyTells
<1>16. Tells(board', Told(TakenSoFar)')
  BY <1>15 DEF f, e, x
<1> QED
  BY <1>2, <1>6, <1>7, <1>16, FileShown DEF n

LEMMA FileInit == Init => FileInv
<1> SUFFICES ASSUME Init
             PROVE  FileInv
  OBVIOUS
<1>1. /\ got["state"] = <<>> /\ published = <<>> /\ board = EmptyBoard
      /\ shown = Snapshot(EmptyBoard)
  BY DEF Init, Queues, Subscribers
<1>2. TakenSoFar = 0
  BY <1>1 DEF TakenSoFar
<1>3. DOMAIN Told(0) = {}
  BY DEF Told
<1>4. /\ LinksIn(Told(0)) = {} /\ AllLapsIn(Told(0)) = {} /\ RefusedIn(Told(0)) = {}
      /\ CarsIn(Told(0)) = {}
  BY <1>3 DEF LinksIn, AllLapsIn, RefusedIn, CarsIn
<1>5. /\ DOMAIN EmptyBoard.cars = {} /\ EmptyBoard.link = FALSE
      /\ EmptyBoard.laps = 0 /\ EmptyBoard.refused = 0
  BY DEF EmptyBoard
<1>6. Tells(EmptyBoard, Told(0))
  BY <1>4, <1>5, FS_EmptySet DEF Tells
<1>7. shown.board = EmptyBoard /\ shown.order = Order(EmptyBoard)
  BY <1>1 DEF Snapshot
<1> QED
  BY <1>1, <1>2, <1>6, <1>7 DEF FileInv

LEMMA FileStep ==
    Streams /\ Numbered("state") /\ Boards /\ FileInv /\ [Next]_vars => FileInv'
<1> SUFFICES ASSUME Streams, Numbered("state"), Boards, FileInv, [Next]_vars
             PROVE  FileInv'
  OBVIOUS
<1>1. got \in [Queues -> Seq(Nat)] /\ "state" \in Queues /\ published \in Seq(Events)
  BY DEF Streams, Queues, Subscribers
<1>2. CASE Manage
  BY <1>2, FileTakes DEF Manage
<1>3. CASE ManagerEnds
  <2>1. CASE queue["state"] # <<>>
    BY <1>3, <2>1, FileTakes DEF ManagerEnds
  <2>2. CASE queue["state"] = <<>>
    <3>1. got' = got /\ published' = published /\ board' = board /\ Show(board')
      BY <1>3, <2>2 DEF ManagerEnds, streams
    <3> QED
      BY <3>1, FileAside
  <2> QED
    BY <2>1, <2>2
<1>4. CASE Refresh \/ ManagerCloses
  <2>1. got' = got /\ published' = published /\ board' = board /\ Show(board')
    BY <1>4 DEF Refresh, ManagerCloses, streams, Show
  <2> QED
    BY <2>1, FileAside
<1>5. ASSUME got'["state"] = got["state"], UNCHANGED manager,
             \A i \in 1 .. Len(published) : published'[i] = published[i]
      PROVE  FileInv'
  <2>1. board' = board /\ Show(board')
    BY <1>5 DEF manager, Show
  <2> QED
    BY <1>5, <2>1, FileAside
<1>6. CASE Pump
  <2>1. published' = Append(published, emitted[Head(queue["adapter"])])
        /\ got' = [got EXCEPT !["adapter"] = Append(@, Head(queue["adapter"]))]
        /\ UNCHANGED manager
    BY <1>6 DEF Pump
  <2>2. \A i \in 1 .. Len(published) : published'[i] = published[i]
    BY <1>1, <2>1
  <2> QED
    BY <1>1, <1>5, <2>1, <2>2
<1>7. CASE Write \/ WriterEnds \/ WriterCloses \/ RaceCalls
  <2>1. UNCHANGED <<got, published>> \/ (\E s \in {"storage", "race"}, n \in Nat : Taken(s, n))
    <3>1. CASE Write \/ WriterEnds
      <4> DEFINE n == IF Len(queue["storage"]) < Batch THEN Len(queue["storage"]) ELSE Batch
      <4>1. n \in Nat
        <5>1. queue["storage"] \in Seq(Nat) /\ Batch \in Nat
          BY PipelineAssumption DEF Streams, Queues, Subscribers
        <5> QED
          BY <5>1, ST!LenProperties
      <4>2. Taken("storage", n) \/ UNCHANGED streams
        BY <3>1 DEF Write, WriterEnds, Collected
      <4> HIDE DEF n
      <4> QED
        BY <4>1, <4>2 DEF streams
    <3>2. CASE WriterCloses
      <4>1. Len(queue["storage"]) \in Nat
        BY ST!LenProperties DEF Streams, Queues, Subscribers
      <4> QED
        BY <3>2, <4>1 DEF WriterCloses, streams
    <3>3. CASE RaceCalls
      BY <3>3 DEF RaceCalls
    <3> QED
      BY <1>7, <3>1, <3>2, <3>3
  <2>2. got'["state"] = got["state"] /\ published' = published
    BY <1>1, <2>1 DEF Taken
  <2>3. UNCHANGED manager
    BY <1>7 DEF Write, WriterEnds, WriterCloses, RaceCalls
  <2> QED
    BY <1>5, <2>2, <2>3
<1>8. CASE Emit \/ AdapterStops
  BY <1>5, <1>8 DEF Emit, AdapterStops, Emitted, streams
<1>9. CASE RaceReturns \/ Signal \/ PumpCancelled \/ RaceStops \/ ProcessEnds \/ UNCHANGED vars
  BY <1>5, <1>9 DEF RaceReturns, Signal, PumpCancelled, RaceStops, ProcessEnds, streams, vars
<1> QED
  BY <1>2, <1>3, <1>4, <1>6, <1>7, <1>8, <1>9 DEF Next, Shutdown

\* What the file shows is its account and its order, whatever was counted.
LEMMA FileTells ==
    ASSUME Streams, Numbered("state"), Boards, FileInv
    PROVE  FileTellsAPrefix
<1>1. TakenSoFar \in Nat /\ TakenSoFar = Len(got["state"])
  BY GotOf DEF TakenSoFar
<1>2. ASSUME NEW b, IsBoard(b), NEW k \in 0 .. TakenSoFar, Tells(b, Told(k))
      PROVE  b = Applied(k)
  <2>1. k \in Nat /\ Told(k) \in [1 .. k -> Events]
    BY <1>1, ToldIsEvents
  <2>2. b = Account(Told(k))
    BY <1>2, <2>1, TellsTheAccount
  <2> QED
    BY <2>2 DEF Applied, Told
<1>3. IsBoard(board) /\ IsBoard(shown.board)
  BY DEF Boards
<1>4. board = Applied(Len(got["state"]))
  BY <1>1, <1>2, <1>3 DEF FileInv
<1>5. PICK k \in 0 .. TakenSoFar : Tells(shown.board, Told(k))
  BY DEF FileInv
<1>6. \E m \in 0 .. Len(got["state"]) : shown.board = Applied(m)
  BY <1>1, <1>2, <1>3, <1>5
<1> DEFINE b == shown.board
<1>7. DOMAIN b.cars \subseteq Canonical
  BY <1>5 DEF Tells, CarsIn
<1>8. DOMAIN b.cars \subseteq Nat /\ IsFiniteSet(DOMAIN b.cars)
  <2>1. IsFiniteSet(1 .. 6)
    <3>1. 1 \in Int /\ 6 \in Int
      OBVIOUS
    <3> QED
      BY <3>1, FS_Interval
  <2> QED
    BY <1>7, <2>1, FS_Subset DEF Canonical
<1>9. shown.order = Order(b)
  BY DEF FileInv
<1>10. /\ shown.order \in [1 .. Cardinality(DOMAIN b.cars) -> DOMAIN b.cars]
       /\ \A i, j \in DOMAIN shown.order : i < j => Ahead(b, shown.order[i], shown.order[j])
  BY <1>3, <1>8, <1>9, OrderIsOne
<1>11. Cardinality(DOMAIN b.cars) \in Nat
  BY <1>8, FS_CardinalityType
<1>12. Len(shown.order) = Cardinality(DOMAIN b.cars)
  BY <1>10, <1>11, ST!IsASeq, ST!LenProperties
<1>13. ASSUME NEW i \in DOMAIN shown.order, NEW j \in DOMAIN shown.order, i < j
       PROVE  LET x == b.cars[shown.order[i]]
                  y == b.cars[shown.order[j]]
              IN \/ x.laps > y.laps
                 \/ x.laps = y.laps /\ (y.best = None \/ (x.best # None /\ x.best <= y.best))
  <2>1. Ahead(b, shown.order[i], shown.order[j])
    BY <1>10, <1>13
  <2>2. shown.order[i] \in DOMAIN b.cars /\ shown.order[j] \in DOMAIN b.cars
    BY <1>10
  <2>3. /\ b.cars[shown.order[i]].best \in Nat \cup {None}
        /\ b.cars[shown.order[j]].best \in Nat \cup {None}
    BY <1>3, <2>2, CarOnBoard
  <2> HIDE DEF b
  <2> QED
    BY <2>1, <2>3 DEF Ahead, None
<1> QED
  BY <1>4, <1>6, <1>12, <1>13 DEF FileTellsAPrefix

\* The state file accounts for what the manager had taken at some moment, each of its
\* cars in the place that its laps and its best lap give it, though writes fail and
\* laps come late, twice or not at all (state_manager.py, apply, snapshot and _run).
THEOREM FileIsAPrefix == Spec => []FileTellsAPrefix
<1>1. Boards /\ Streams /\ [Next]_vars => Boards'
  BY BoardsStep
<1>2. (\A q \in Queues : Numbered(q)) => Numbered("state")
  BY DEF Queues, Subscribers
<1>3. Streams /\ Numbered("state") /\ Boards /\ FileInv => FileTellsAPrefix
  BY FileTells
<1> QED
  BY <1>1, <1>2, <1>3, BoardsInit, FileInit, FileStep, AlwaysNumbered, AlwaysStreams, PTL DEF Spec
=============================================================================
