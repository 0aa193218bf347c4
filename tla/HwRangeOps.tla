----------------------------- MODULE HwRangeOps -----------------------------
(***************************************************************************)
(* hw_range.c as operators on one record: the reference-range multiplexer, *)
(* its enable line and its three address lines.                            *)
(*                                                                         *)
(*   fsm, current, requested, enabled, address   the fields of hw_range_t  *)
(*   line, pins                                  the electrical lines      *)
(*                                                                         *)
(* The driver believes a write took effect only when it returns OK; a      *)
(* failed write may or may not have moved the line.  The deadline is kept  *)
(* by the module that uses these operators.                                *)
(***************************************************************************)
EXTENDS Integers, Sequences

InvalidId == "INVALID"
RangeIds == {"10R", "100R", "1K", "10K", "100K", "1M"}

(* hw_range_id_to_address *)
AddressOf ==
    [id \in RangeIds |->
        CASE id = "10R" -> 0 [] id = "100R" -> 1 [] id = "1K" -> 2
          [] id = "10K" -> 3 [] id = "100K" -> 4 [] id = "1M" -> 5]

RangeFsm == {"DISABLED", "DEAD_TIME", "SETTLING", "READY", "INVALID"}
Addresses == 0 .. 5
Between == 6        \* the three lines after a write that failed among them

RangeRecord ==
    [fsm : RangeFsm, current : RangeIds \cup {InvalidId},
     requested : RangeIds \cup {InvalidId}, enabled : BOOLEAN,
     address : Addresses, line : BOOLEAN, pins : Addresses \cup {Between}]

(* What a GPIO write can come back with: done, refused after the line      *)
(* moved, refused before it moved.                                         *)
WriteOutcomes(mayFail) ==
    IF mayFail THEN {"OK", "FAILED_MOVED", "FAILED_STUCK"} ELSE {"OK"}

WriteEnable(r, level, w) ==
    [r EXCEPT !.line = IF w = "FAILED_STUCK" THEN @ ELSE level,
              !.enabled = IF w = "OK" THEN level ELSE @]

(* Refused while the driver believes the multiplexer is enabled. *)
AddressWritable(r) == ~r.enabled

WriteAddress(r, a, w) ==
    [r EXCEPT !.pins = CASE w = "OK" -> a
                         [] w = "FAILED_MOVED" -> Between
                         [] OTHER -> @,
              !.address = IF w = "OK" THEN a ELSE @]

Invalidated(r) ==
    [r EXCEPT !.fsm = "INVALID", !.current = InvalidId, !.requested = InvalidId]

(* Seeded fault: a failed enable write does not stop the address write. *)
RangeRequestGoesOn(r, id, e, a) ==
    LET off == WriteEnable(r, FALSE, e)
    IN  IF id \notin RangeIds \/ ~AddressWritable(off) THEN Invalidated(off)
        ELSE LET moved == WriteAddress(off, AddressOf[id], a)
             IN  IF a # "OK" THEN Invalidated(moved)
                 ELSE [moved EXCEPT !.fsm = "DEAD_TIME", !.requested = id]

(* hw_range_request: e and a are the outcomes of the two writes.  The      *)
(* request is accepted (BUSY) exactly when the new fsm is DEAD_TIME.       *)
RangeRequest(r, id, e, a) ==
    LET off == WriteEnable(r, FALSE, e)
    IN  IF id \notin RangeIds \/ e # "OK" THEN Invalidated(off)
        ELSE IF ~AddressWritable(off) THEN Invalidated(off)
        ELSE LET moved == WriteAddress(off, AddressOf[id], a)
             IN  IF a # "OK" THEN Invalidated(moved)
                 ELSE [moved EXCEPT !.fsm = "DEAD_TIME", !.requested = id]

(* hw_range_step, once its deadline is reached: e is the outcome of the    *)
(* enable write that ends the dead time.                                   *)
RangeElapsed(r, e) ==
    CASE r.fsm = "DEAD_TIME" ->
            LET on == WriteEnable(r, TRUE, e)
            IN  IF e = "OK" THEN [on EXCEPT !.fsm = "SETTLING"]
                ELSE [on EXCEPT !.fsm = "INVALID", !.current = InvalidId]
      [] r.fsm = "SETTLING" ->
            [r EXCEPT !.current = r.requested, !.fsm = "READY"]
      [] OTHER -> r

(* hw_range_force_disabled *)
RangeForceDisabled(r, e) ==
    LET off == WriteEnable(r, FALSE, e)
    IN  [off EXCEPT !.fsm = IF e = "OK" THEN "DISABLED" ELSE "INVALID",
                    !.current = InvalidId]

(* hw_range_init, from lines the reset left low: the second write is not   *)
(* made when the first fails.                                              *)
RangeBoot(e, a) ==
    LET reset == [fsm |-> "DISABLED", current |-> InvalidId,
                  requested |-> InvalidId, enabled |-> FALSE, address |-> 0,
                  line |-> FALSE, pins |-> 0]
        off == WriteEnable(reset, FALSE, e)
    IN  IF e = "OK" /\ a = "OK" THEN WriteAddress(off, 0, a)
        ELSE [off EXCEPT !.fsm = "INVALID"]

RangeIsReady(r) == r.fsm = "READY" /\ r.enabled

(* hw_range_safety_state *)
RangeSafetyState(r) ==
    CASE r.fsm = "READY" -> IF r.enabled THEN "READY" ELSE "INVALID"
      [] r.fsm = "DISABLED" -> "DISABLED"
      [] r.fsm \in {"DEAD_TIME", "SETTLING"} -> "TRANSITIONING"
      [] OTHER -> "INVALID"
=============================================================================
