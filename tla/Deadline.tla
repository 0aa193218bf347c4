------------------------------ MODULE Deadline ------------------------------
(***************************************************************************)
(* The millisecond clock every timeout of the firmware is measured with.   *)
(* bsp_time_ms() is a uint32_t that wraps, and a deadline is compared with *)
(*     (now_ms - deadline_ms) < 0x80000000u                                *)
(* in unsigned arithmetic.  The arithmetic is written without "%", as      *)
(* sums and differences corrected by one turn of the clock, so that the    *)
(* lemmas of Instrument_proofs hold for every even ClockModulus.           *)
(***************************************************************************)
EXTENDS Integers

CONSTANT HalfTurn             \* 2^31 in the firmware

ASSUME HalfTurnAssumption == HalfTurn \in Nat \ {0}

ClockModulus == 2 * HalfTurn
Clock == 0 .. ClockModulus - 1

(* deadline_ms = now_ms + ms, for a delay shorter than one turn *)
After(now, ms) ==
    IF now + ms < ClockModulus THEN now + ms ELSE now + ms - ClockModulus

(* now_ms - deadline_ms, as a uint32_t *)
Since(now, deadline) ==
    IF now >= deadline THEN now - deadline ELSE now - deadline + ClockModulus

(* Seeded faults: the plain comparison, and equality instead of order. *)
DeadlineReachedPlain(now, deadline) == now >= deadline
DeadlineReachedExactly(now, deadline) == Since(now, deadline) = 0

DeadlineReached(now, deadline) == Since(now, deadline) < HalfTurn
=============================================================================
