-------------------------- MODULE DriverArithmetic --------------------------
(* Arithmetic that several drivers share: the rates of root clock generators   *)
(* (the clock controllers) and relative motion (the touchpads).                *)
EXTENDS Integers

-----------------------------------------------------------------------------
(* What the clock hardware of the SC7180 makes of the registers of a root      *)
(* clock generator: CFG selects a source and half-integer divider and, in      *)
(* dual-edge mode, M, N and D multiply by M/N.  N and D are stored inverted.   *)

\* An entry of a rate table, in kHz; n = 0 means that M/N is not used.
Entry(rate, source, div, m, n) ==
    [rate |-> rate, source |-> source, div |-> div, m |-> m, n |-> n]

Clamp(x, low, high) == IF x < low THEN low ELSE IF x > high THEN high ELSE x

\* The register words written for an entry, by a driver whose N and D fields
\* hold 0..mask; a driver leaves M, N and D alone when it does not use them.
Word(e, mask, before) ==
    [source |-> e.source, div |-> e.div, dual |-> e.n # 0,
     mnd |-> IF e.n = 0 THEN before.mnd
             ELSE <<e.m, mask - (e.n - e.m), mask - Clamp(e.n, e.m, (e.n - e.m) * 2)>>]

\* The frequency that a generator with these words produces from its source.
Output(w, sourceRate, mask) ==
    LET divided == (sourceRate * 2) \div (w.div + 1)
    IN  IF w.dual THEN (divided * w.mnd[1]) \div ((mask - w.mnd[2]) + w.mnd[1]) ELSE divided

-----------------------------------------------------------------------------
(* Relative motion from absolute positions, as both touchpads compute it: the  *)
(* difference is divided by a scale and the remainder kept.  Division          *)
(* truncates towards zero and the remainder has the dividend's sign.           *)

Quotient(a, b) == IF a >= 0 THEN a \div b ELSE -((-a) \div b)
Remainder(a, b) == a - b * Quotient(a, b)

\* The motion and the new remainder for a contact that was at `last'.
Moved(scale, last, now, remainder) ==
    LET scaled == now - last + remainder
    IN [d |-> Quotient(scaled, scale), remainder |-> Remainder(scaled, scale)]

\* Nothing is lost to rounding: what was reported and the remainder are the distance from
\* where the contact began.
Exact(scale, origin, now, moved, remainder) ==
    moved * scale + remainder = now - origin /\ remainder \in (1 - scale) .. (scale - 1)
=============================================================================
