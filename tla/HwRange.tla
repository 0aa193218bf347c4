------------------------------ MODULE HwRange ------------------------------
(***************************************************************************)
(* The range multiplexer driver under its callers: any caller may request  *)
(* a range or disable the multiplexer at any moment, the super-loop steps  *)
(* the driver, GPIO writes may fail, and the millisecond clock wraps.      *)
(*                                                                         *)
(* pinsAge and lineAge are history variables: for how many milliseconds    *)
(* (saturating) the address lines, and the enabled line, have not moved.   *)
(***************************************************************************)
EXTENDS HwRangeOps, Deadline

CONSTANTS
    Requests,       \* ids the callers ask for, an invalid one included
    DeadTime,       \* HW_RANGE_DEAD_TIME_MS
    SettleTime,     \* HW_RANGE_SETTLE_TIME_MS
    LoopMax,        \* longest time between two steps the watchdog tolerates
    GpioMayFail

ASSUME RangeConstantsAssumption ==
    /\ Requests \subseteq RangeIds \cup {InvalidId}
    /\ DeadTime \in Nat \ {0} /\ SettleTime \in Nat \ {0}
    /\ LoopMax \in Nat \ {0}
    /\ DeadTime < HalfTurn /\ SettleTime < HalfTurn
    /\ GpioMayFail \in BOOLEAN

VARIABLES rg, deadline, now, lag, pinsAge, lineAge
vars == <<rg, deadline, now, lag, pinsAge, lineAge>>

Outcomes == WriteOutcomes(GpioMayFail)

(* The history variables after the lines of the multiplexer moved to r. *)
Observe(r) ==
    /\ rg' = r
    /\ pinsAge' = IF r.pins # rg.pins THEN 0 ELSE pinsAge
    /\ lineAge' = IF r.line /\ rg.line /\ r.pins = rg.pins THEN lineAge ELSE 0

Init ==
    /\ \E e, a \in Outcomes : rg = RangeBoot(e, a)
    /\ deadline = 0 /\ now \in Clock /\ lag = 0
    /\ pinsAge = 0 /\ lineAge = 0

Request(id) ==
    /\ \E e, a \in Outcomes : Observe(RangeRequest(rg, id, e, a))
    /\ deadline' = IF rg'.fsm = "DEAD_TIME" THEN After(now, DeadTime) ELSE deadline
    /\ UNCHANGED <<now, lag>>

ForceDisabled ==
    /\ \E e \in Outcomes : Observe(RangeForceDisabled(rg, e))
    /\ UNCHANGED <<deadline, now, lag>>

(* Seeded fault: the settling inherits the deadline of the dead time. *)
StepUnsettled ==
    /\ \E e \in Outcomes :
          Observe(IF DeadlineReached(now, deadline) THEN RangeElapsed(rg, e) ELSE rg)
    /\ lag' = 0
    /\ UNCHANGED <<now, deadline>>

Step ==
    /\ \E e \in Outcomes :
          Observe(IF DeadlineReached(now, deadline) THEN RangeElapsed(rg, e) ELSE rg)
    /\ deadline' = IF rg.fsm = "DEAD_TIME" /\ rg'.fsm = "SETTLING"
                   THEN After(now, SettleTime) ELSE deadline
    /\ lag' = 0
    /\ UNCHANGED now

Saturated(n, limit) == IF n < limit THEN n + 1 ELSE limit

Tick ==
    /\ lag < LoopMax
    /\ lag' = lag + 1
    /\ now' = After(now, 1)
    /\ pinsAge' = Saturated(pinsAge, DeadTime)
    /\ lineAge' = IF rg.line THEN Saturated(lineAge, SettleTime) ELSE 0
    /\ UNCHANGED <<rg, deadline>>

Next == Step \/ Tick \/ ForceDisabled \/ \E id \in Requests : Request(id)

Spec == Init /\ [][Next]_vars

(* The super-loop keeps stepping the driver and time keeps passing; callers *)
(* owe nothing.                                                             *)
FairSpec == Spec /\ WF_vars(Step) /\ WF_vars(Tick)
-----------------------------------------------------------------------------
TypeOK ==
    /\ rg \in RangeRecord
    /\ deadline \in Clock /\ now \in Clock
    /\ lag \in 0 .. LoopMax
    /\ pinsAge \in 0 .. DeadTime
    /\ lineAge \in 0 .. SettleTime

(* A range is reported ready only when the line is really high, the address *)
(* lines really select that range, and both have been still for the settle  *)
(* time (hw_range_is_ready, hw_range_get_current), across a clock wrap and  *)
(* whatever writes failed before.                                           *)
ReadyIsSettled ==
    RangeIsReady(rg) =>
        /\ rg.line
        /\ rg.current \in RangeIds
        /\ rg.pins = AddressOf[rg.current]
        /\ lineAge = SettleTime

(* Break before make: the address lines move only with the enable line low *)
(* (hw_range_request writes the enable first and gives up when that fails),*)
(* even if an earlier failed write left the line high behind the driver's  *)
(* back.                                                                   *)
AddressMovesOffline == [][rg'.pins # rg.pins => ~rg'.line]_vars

(* The line rises only after the address lines were still for the whole    *)
(* dead time (HW_RANGE_FSM_DEAD_TIME).                                     *)
DeadTimeHonoured == [][~rg.line /\ rg'.line => pinsAge = DeadTime]_vars

(* The multiplexer breaks before it makes, however writes fail and however *)
(* the clock wraps: both of these.                                         *)
BreaksBeforeMakes == AddressMovesOffline /\ DeadTimeHonoured

(* A transition ends: the driver leaves the dead time, and then the        *)
(* settling, that ends at deadline d, although the clock wraps, because    *)
(* the loop never stalls for half a turn.  (A caller that renews its       *)
(* request moves the deadline.)                                            *)
Waiting(d) == rg.fsm \in {"DEAD_TIME", "SETTLING"} /\ deadline = d
TransitionEnds == \A d \in Clock : Waiting(d) ~> ~Waiting(d)
=============================================================================
