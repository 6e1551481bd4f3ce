----------------------------- MODULE BufferSizing -----------------------------
(* What buffer_loop() of core/src/tuner.cpp makes of the peak rate and the   *)
(* smoothed round trip: the sizes of the socket buffers (compute_bdp_buf()).  *)
(* Rates and round trips are integers, in units as fine as one likes; Unit of *)
(* their products is one byte of the doubled bandwidth-delay product.         *)
EXTENDS Integers

CONSTANTS
    BufMin,    \* kBufMin
    BufMax,    \* kBufMax
    Align,     \* the sizes are multiples of it
    IdleBuf,   \* the size as long as nothing was received
    RestMin,   \* the smallest default size
    Word,      \* a uint64_t is less than that
    Unit

ASSUME SizingAssumption ==
    /\ {BufMin, BufMax, Align, IdleBuf, RestMin, Word, Unit} \subseteq Nat
    /\ Align > 0 /\ Unit > 0
    /\ BufMin % Align = 0 /\ BufMax % Align = 0 /\ IdleBuf % Align = 0
    /\ 4 * Align <= BufMin /\ BufMin < BufMax /\ BufMax < Word
    /\ BufMin <= IdleBuf /\ IdleBuf <= 4 * BufMin /\ IdleBuf <= BufMax
    /\ RestMin <= BufMin

Clamped(n) == IF n < BufMin THEN BufMin ELSE IF n > BufMax THEN BufMax ELSE n

Aligned(n) == ((n + Align - 1) \div Align) * Align

Bytes(rate, rtt) == (rate * rtt) \div Unit

(* static_cast<uint64_t> of a double that does not fit is undefined.          *)
Converted(n) == IF n < Word THEN {n} ELSE 0..(Word - 1)

(* compute_bdp_buf(): the sizes the buffers may be given.                     *)
Sizes(rate, rtt) ==
    IF rate = 0 \/ rtt = 0 THEN {IdleBuf}
    ELSE {Aligned(Clamped(n)) : n \in Converted(Bytes(rate, rtt))}

(* buf_def.                                                                   *)
Rest(size) == IF size \div 4 > RestMin THEN size \div 4 ELSE RestMin

(* One round later the peak has decayed by a thousandth at most, and the      *)
(* smoothed round trip has lost three tenths at most.                         *)
NextRound(rate, rtt, rate2, rtt2) ==
    1000 * rate2 >= 999 * rate /\ 10 * rtt2 >= 7 * rtt
=============================================================================
