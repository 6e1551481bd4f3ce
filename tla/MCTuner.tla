------------------------------- MODULE MCTuner -------------------------------
(* Tuner with two buckets and surveys whose counters grow by two at most, and *)
(* BufferSizing in small numbers, compared with what it is to compute: the    *)
(* smallest multiple of a page that holds the product, within the limits.     *)
EXTENDS Tuner, BufferSizing

Rates == 0..30
Trips == 0..12

Reference(n) ==
    LET pages == {m \in BufMin..BufMax : m % Align = 0}
        holding == {m \in pages : n <= m}
    IN  IF holding = {} THEN BufMax ELSE CHOOSE m \in holding : \A k \in holding : m <= k

ASSUME SizesAsSpecified ==
    \A rate \in Rates \ {0}, trip \in Trips \ {0} :
        Bytes(rate, trip) < Word => Sizes(rate, trip) = {Reference(Bytes(rate, trip))}

ASSUME SizesWithinLimits ==
    \A rate \in Rates, trip \in Trips : Sizes(rate, trip) \subseteq BufMin..BufMax
=============================================================================
