----------------------------- MODULE DropOldest -----------------------------
(***************************************************************************)
(* The queue that every part of the pipeline uses: asyncio.Queue with a    *)
(* maxsize, written with put_nowait; a full one loses its oldest item.     *)
(***************************************************************************)
EXTENDS Integers, Sequences

\* Mutant: a queue without a maxsize.
OfferAnyway(q, x, cap) == Append(q, x)

\* Mutant: a full queue refuses the newest item.
OfferOrNot(q, x, cap) == IF Len(q) < cap THEN Append(q, x) ELSE q

Offer(q, x, cap) == IF Len(q) < cap THEN Append(q, x) ELSE Append(Tail(q), x)

\* Mutant: several items are put in a queue without a maxsize.
OfferAllAnyway(q, items, cap) == q \o items

\* Offer, of several items one after the other: the last ones of all remain.
OfferAll(q, items, cap) ==
    LET all == q \o items IN
    SubSeq(all, IF Len(all) > cap THEN Len(all) - cap + 1 ELSE 1, Len(all))
=============================================================================
