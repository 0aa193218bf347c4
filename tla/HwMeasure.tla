----------------------------- MODULE HwMeasure -----------------------------
(***************************************************************************)
(* The metrology transaction of the PRODUCT build: hw_metrology_measure.c  *)
(* as app_shell.c wires it to the relay K1, the range multiplexer, the     *)
(* excitation timer, the ADC pair and the auxiliary sensors, interleaved   *)
(* with the super-loop's safety supervision and the two DMA interrupts.    *)
(*                                                                         *)
(* One action per state of the transaction, per phase of its abort, per    *)
(* call of its owner and per interrupt.  Every deadline is a countdown     *)
(* (exact, as Instrument_proofs!DeadlineExact says): 0 is "reached".       *)
(* Build switches: session hold, trimmed statistics and continuous survey  *)
(* on; DC pilot, bench supply and bring-up console off.                    *)
(***************************************************************************)
EXTENDS HwRangeOps, FiniteSets

CONSTANTS
    Requests,           \* what the owner may ask for (a set of Request records)
    DeadTime, SettleTime, RangeTimeout, NeutralSettle, SineSettle,
    OperateGuard, ReleaseGuard, DmaTimeout, PermitTtl,
    BatteryMaxAge,      \* HW_MEASURE_PERMIT_BATTERY_MAX_AGE_MS
    SessionMax,         \* HW_METROLOGY_SESSION_MAX_CONNECTED_MS
    SurveyMax,          \* HW_METROLOGY_SURVEY_MAX_CONNECTED_MS
    PowerPeriod, PowerTimeout,
    MaxCaptures, MaxSearch, MaxStatistical,
    GpioMayFail,        \* relay and range writes may fail
    AdcMayFail,         \* calibration, conversions and DMA may fail
    ChargerMayChange    \* the charger may be plugged and unplugged

Drives == {"10HZ", "1KHZ", "10KHZ"}      \* frequency, amplitude folded in
Refusals == {"NONE", "CLOCK", "AMPLITUDE", "PROFILE"}

(* refusal names the check of hw_metrology_measure_start that turns the    *)
(* request down: clock not ready, amplitude forbidden, no such profile.    *)
Request ==
    [range : RangeIds, drive : Drives, hold : BOOLEAN, cont : BOOLEAN,
     stat : BOOLEAN, refusal : Refusals]

(* The capture is to leave the session connected: at 10 Hz only a          *)
(* continuous survey stays.                                                *)
Holds(q) == q.hold /\ (q.drive # "10HZ" \/ q.cont)

ASSUME MeasureConstantsAssumption ==
    /\ Requests \subseteq Request
    /\ {DeadTime, SettleTime, NeutralSettle, SineSettle, OperateGuard,
        ReleaseGuard} \subseteq Nat
    /\ {RangeTimeout, DmaTimeout, PermitTtl, BatteryMaxAge, SessionMax,
        SurveyMax, PowerPeriod, PowerTimeout, MaxCaptures, MaxSearch,
        MaxStatistical} \subseteq Nat \ {0}
    /\ PowerTimeout <= BatteryMaxAge
    /\ {GpioMayFail, AdcMayFail, ChargerMayChange} \subseteq BOOLEAN

VARIABLES
    m,          \* hw_metrology_measure_t
    permit,     \* hw_measure_permit_t
    t,          \* the deadlines, as milliseconds to go
    k1,         \* hw_k1_t: the state commanded, and the coil itself
    rg,         \* hw_range_t (HwRangeOps)
    exc,        \* bsp_excitation.c
    adc,        \* who owns the converters, and the state of DMA1 channel 1
    aux,        \* hw_aux_sensors_t, reduced to what the transaction reads
    charger, faults,
    buf,        \* what the raw buffer holds: the range and drive captured
    open        \* history: ms the coil has been released, up to ReleaseGuard
vars == <<m, permit, t, k1, rg, exc, adc, aux, charger, faults, buf, open>>

Gpio == WriteOutcomes(GpioMayFail)
AdcStatus == IF AdcMayFail THEN {"OK", "ERROR"} ELSE {"OK"}

PowerStates == {"POWER_RESTORE", "POWER_WAIT", "POWER_ACQUIRE"}
States ==
    {"IDLE", "FORCE_K1_SAFE", "RANGE_REQUEST", "RANGE_WAIT", "EXC_NEUTRAL",
     "EXC_NEUTRAL_WAIT", "QUIET_ENTER", "PERMIT_ISSUE", "PERMIT_VALIDATE",
     "K1_REQUEST", "AUX_PAUSE", "K1_OPERATE_GUARD", "ADC_ACQUIRE",
     "EXC_SINE_START", "EXC_SETTLE", "ADC_DMA_START", "ADC_DMA_WAIT",
     "ADC_DMA_COMPLETE", "EXC_NEUTRAL_POST", "EXC_NEUTRAL_POST_WAIT",
     "SESSION_HOLD", "K1_SAFE", "K1_RELEASE_GUARD", "EXC_OFF",
     "RANGE_DISABLE", "ADC_RELEASE", "ADC_RESTORE", "AUX_RESUME",
     "QUIET_EXIT", "ANALYZE", "DONE", "ABORT"} \cup PowerStates
Phases == {"NONE", "STOP_ADC", "RELEASE_GUARD", "ADC_RESTORE", "AUX_RESUME",
           "QUIET_OFF"}
Errors == {"OK", "INVALID", "CLOCK", "AMPLITUDE", "PERMIT", "K1", "RANGE",
           "EXCITATION", "ADC_ACQUIRE", "DMA", "TIMEOUT", "AUX_RESTORE", "ABORT"}
Faults == {"K1_IO", "RANGE_IO", "ADC_RUNTIME", "METROLOGY_RUNTIME"}
-----------------------------------------------------------------------------
(* The transaction's view of its surroundings.                             *)

Active == m.st \notin {"IDLE", "DONE"}

(* g_k1_owned, which sync_k1_globals keeps equal to this after every call  *)
K1Owned == Active /\ m.k1Owned

(* measure_dynamic_abort: what is checked before every step and every      *)
(* continuation once the relay is energised.                               *)
OwnedTransition == m.connected /\ m.st \in {"RANGE_REQUEST", "RANGE_WAIT"}

RangeUnfit ==
    \/ RangeSafetyState(rg) = "INVALID"
    \/ /\ ~OwnedTransition
       /\ RangeSafetyState(rg) # "READY" \/ rg.current # m.req.range

DynamicAbort ==
    \/ /\ m.connected
       /\ t.sess = 0 \/ t.batt = 0 \/ k1.cmd # "MEASURE"
    \/ /\ k1.cmd = "MEASURE"
       /\ \/ faults # {}
          \/ charger # "ABSENT"
          \/ /\ OwnedTransition \/ m.st = "SESSION_HOLD"
             /\ exc.mode # "NEUTRAL"
          \/ RangeUnfit
          \/ exc.err
          \/ adc.dma = "ERR"

PowerLate == m.st \in PowerStates /\ t.pdl = 0

(* Seeded fault: the release guard is owed only by a held session. *)
AbortedUnguarded(mm, error) ==
    [mm EXCEPT !.err = IF @ = "OK" THEN error ELSE @,
               !.st = "ABORT", !.phase = "STOP_ADC",
               !.dumpable = FALSE, !.valid = FALSE, !.guard = mm.connected]

(* enter_abort: the first error is the one reported. *)
Aborted(mm, error) ==
    [mm EXCEPT !.err = IF @ = "OK" THEN error ELSE @,
               !.st = "ABORT", !.phase = "STOP_ADC",
               !.dumpable = FALSE, !.valid = FALSE, !.guard = mm.k1Reached]

(* note_adc_restore_result, the latch included *)
RestoreNoted(mm, status) ==
    IF status = "OK" THEN mm
    ELSE [mm EXCEPT !.restoreFailed = TRUE,
                    !.err = IF @ = "OK" THEN "AUX_RESTORE" ELSE @]

Finalized(mm) ==
    [mm EXCEPT !.valid = mm.done /\ ~mm.restoreFailed,
               !.dumpable = mm.done /\ ~mm.restoreFailed]

ResultReady == m.valid /\ m.st \in {"SESSION_HOLD", "DONE"}

Latch(fault, latched) == IF latched THEN {fault} ELSE {}
-----------------------------------------------------------------------------
(* The drivers.                                                            *)

K1ForcedSafe(w) ==
    [cmd |-> IF w = "OK" THEN "SAFE" ELSE k1.cmd,
     coil |-> IF w = "FAILED_STUCK" THEN k1.coil ELSE FALSE]

K1Energised(w) ==
    [cmd |-> IF w = "OK" THEN "MEASURE" ELSE k1.cmd,
     coil |-> IF w = "FAILED_STUCK" THEN k1.coil ELSE TRUE]

(* Every change of the coil passes here, and restarts the contact's clock. *)
MoveK1(k) ==
    /\ k1' = k
    /\ open' = IF k1.coil \/ k.coil THEN 0 ELSE open

ExcitationOff == [exc EXCEPT !.mode = "OFF"]
ExcitationNeutral == [mode |-> "NEUTRAL", drive |-> "NONE", err |-> FALSE]

(* bsp_metrology_adc_stop leaves the completion flags alone. *)
AdcStopped(a) == [a EXCEPT !.dma = IF @ = "RUN" THEN "IDLE" ELSE @]

AdcAcquired(s) ==
    [owner |-> IF s = "OK" THEN "METROLOGY" ELSE "DOWN", dma |-> "IDLE"]

AdcRestored(s) ==
    [AdcStopped(adc) EXCEPT !.owner = IF s = "OK" THEN "AUX" ELSE "DOWN"]

(* Re-initialising the converter under a power conversion that is being    *)
(* polled orphans it: the sampler's next poll finds no conversion.         *)
AuxAfterRestore ==
    IF aux.power = "SAMPLING"
    THEN {aux, [aux EXCEPT !.power = "ORPHANED"]} ELSE {aux}

AuxPaused == [aux EXCEPT !.paused = TRUE, !.power = "NONE"]
AuxResumed == [aux EXCEPT !.paused = FALSE, !.power = "NONE"]

(* What the residual evidence may be when it is read: pausing the sensors  *)
(* invalidates it, otherwise it may be safe and recent, safe but older     *)
(* than the permit accepts, or not safe.                                   *)
Residuals == IF aux.paused THEN {"BLOCKED"} ELSE {"RECENT", "AGED", "BLOCKED"}

(* The battery voltage read with evidence of that age. *)
Batteries == {"USABLE", "UNUSABLE"}
-----------------------------------------------------------------------------
(* Power-on: hw_metrology_measure_init and the drivers' initialisation.    *)
IdleRequest == [range |-> "10R", drive |-> "1KHZ", hold |-> FALSE,
                cont |-> FALSE, stat |-> FALSE, refusal |-> "NONE"]

Init ==
    /\ m = [st |-> "IDLE", err |-> "OK", phase |-> "NONE", quiet |-> FALSE,
            adcOwned |-> FALSE, restoreFailed |-> FALSE, validated |-> FALSE,
            k1Owned |-> FALSE, k1Reached |-> FALSE, guard |-> FALSE,
            connected |-> FALSE, dumpable |-> FALSE, valid |-> FALSE,
            done |-> FALSE, req |-> IdleRequest, caps |-> 0, stats |-> 0,
            resume |-> "IDLE"]
    /\ permit = [valid |-> FALSE, consumed |-> FALSE, range |-> InvalidId]
    /\ t = [wait |-> 0, sess |-> 0, batt |-> 0, pdue |-> 0, pdl |-> 0,
            resume |-> 0, ttl |-> 0, range |-> 0]
    /\ k1 = [cmd |-> "SAFE", coil |-> FALSE]
    /\ rg = RangeBoot("OK", "OK")
    /\ exc = [mode |-> "OFF", drive |-> "NONE", err |-> FALSE]
    /\ adc = [owner |-> "AUX", dma |-> "IDLE"]
    /\ aux = [paused |-> FALSE, power |-> "NONE", group |-> 0,
              age |-> BatteryMaxAge + 1]
    /\ charger = "ABSENT" /\ faults = {}
    /\ buf = [range |-> InvalidId, drive |-> "NONE"]
    /\ open = ReleaseGuard
-----------------------------------------------------------------------------
(* hw_metrology_measure_start, called by the owner through                 *)
(* product_auto_start_attempt.                                             *)
Cleared ==
    [m EXCEPT !.dumpable = FALSE, !.restoreFailed = FALSE, !.err = "OK",
              !.valid = FALSE, !.validated = FALSE, !.k1Owned = FALSE,
              !.k1Reached = FALSE, !.guard = FALSE, !.phase = "NONE",
              !.connected = FALSE, !.caps = 0, !.stats = 0]

NoPermit == [valid |-> FALSE, consumed |-> FALSE, range |-> InvalidId]

(* A fresh request turned down: the relay and the excitation are put away  *)
(* where the code does so, their status ignored.                           *)
RefuseFresh(error, toIdle, putAway) ==
    /\ m' = [Cleared EXCEPT !.err = error, !.st = IF toIdle THEN "IDLE" ELSE @]
    /\ IF putAway THEN /\ \E w \in Gpio : MoveK1(K1ForcedSafe(w))
                       /\ exc' = ExcitationOff
       ELSE UNCHANGED <<k1, open, exc>>

Start(q) ==
    /\ ~Active
    /\ permit' = IF q.stat THEN permit ELSE NoPermit
    /\ CASE q.stat -> RefuseFresh("INVALID", FALSE, FALSE)
         [] ~q.stat /\ q.cont /\ ~q.hold -> RefuseFresh("INVALID", TRUE, TRUE)
         [] OTHER ->
            CASE q.refusal = "CLOCK" -> RefuseFresh("CLOCK", TRUE, TRUE)
              [] q.refusal = "AMPLITUDE" -> RefuseFresh("AMPLITUDE", FALSE, TRUE)
              [] q.refusal = "PROFILE" -> RefuseFresh("INVALID", FALSE, FALSE)
              [] OTHER ->
                   /\ m' = [Cleared EXCEPT !.req = q, !.done = FALSE,
                                           !.st = "FORCE_K1_SAFE"]
                   /\ UNCHANGED <<k1, open, exc>>
    /\ UNCHANGED <<t, rg, adc, aux, charger, faults, buf>>

SameCondition(q) == q.range = m.req.range /\ q.drive = m.req.drive

CaptureAllowed(q) ==
    IF q.stat
    THEN m.stats < MaxStatistical /\ (m.stats = 0 \/ SameCondition(q))
    ELSE /\ m.stats = 0
         /\ IF m.req.cont THEN m.caps - m.stats < MaxSearch
            ELSE m.caps < MaxCaptures

ContinuationAllowed(q) ==
    /\ q.hold /\ m.connected
    /\ q.cont = m.req.cont
    /\ CaptureAllowed(q)
    /\ ~DynamicAbort
    /\ q.refusal = "NONE"
    /\ q.drive = "10HZ" => m.req.cont

Continue(q) ==
    /\ m.st = "SESSION_HOLD"
    /\ m' = IF ~ContinuationAllowed(q) THEN Aborted(m, "PERMIT")
            ELSE [m EXCEPT !.req = q, !.caps = @ + 1,
                           !.stats = IF q.stat THEN @ + 1 ELSE @,
                           !.valid = FALSE, !.done = FALSE, !.dumpable = FALSE,
                           !.st = IF q.stat /\ SameCondition(q)
                                  THEN "ADC_ACQUIRE" ELSE "RANGE_REQUEST"]
    /\ UNCHANGED <<permit, t, k1, rg, exc, adc, aux, charger, faults, buf, open>>

(* hw_metrology_measure_abort: at any time, and again while it is already  *)
(* being carried out, which starts the cleanup over.                       *)
Abort ==
    /\ m.st # "IDLE"
    /\ m' = IF m.st = "DONE"
            THEN [m EXCEPT !.dumpable = FALSE, !.valid = FALSE, !.st = "IDLE"]
            ELSE Aborted(m, "ABORT")
    /\ UNCHANGED <<permit, t, k1, rg, exc, adc, aux, charger, faults, buf, open>>

(* Seeded fault: source and range are taken down before the relay opens. *)
FinishSessionSwapped ==
    /\ m.st = "SESSION_HOLD"
    /\ m' = [m EXCEPT !.st = "EXC_OFF"]
    /\ UNCHANGED <<permit, t, k1, rg, exc, adc, aux, charger, faults, buf, open>>

FinishSession ==
    /\ m.st = "SESSION_HOLD"
    /\ m' = [m EXCEPT !.st = "K1_SAFE"]
    /\ UNCHANGED <<permit, t, k1, rg, exc, adc, aux, charger, faults, buf, open>>

(* Seeded fault: a held session is forgotten. *)
AcknowledgeForgets ==
    /\ m.st \in {"SESSION_HOLD", "DONE", "IDLE"}
    /\ m' = [m EXCEPT !.st = "IDLE", !.dumpable = FALSE, !.k1Owned = FALSE]
    /\ UNCHANGED <<permit, t, k1, rg, exc, adc, aux, charger, faults, buf, open>>

(* hw_metrology_measure_acknowledge: the owner calls it in a held session, *)
(* when the transaction is done, or when it is idle.                       *)
Acknowledge ==
    /\ m.st \in {"SESSION_HOLD", "DONE", "IDLE"}
    /\ m' = IF m.st = "SESSION_HOLD"
            THEN [m EXCEPT !.dumpable = FALSE, !.valid = FALSE]
            ELSE [m EXCEPT !.st = "IDLE", !.dumpable = FALSE, !.k1Owned = FALSE]
    /\ UNCHANGED <<permit, t, k1, rg, exc, adc, aux, charger, faults, buf, open>>
-----------------------------------------------------------------------------
(* hw_metrology_measure_step: what every step checks first, then one       *)
(* action per state.                                                       *)
(* Seeded fault: a held session is not supervised. *)
RevokedStepUnheld ==
    /\ Active /\ m.st \notin {"ABORT", "SESSION_HOLD"}
    /\ DynamicAbort \/ PowerLate
    /\ m' = Aborted(m, IF DynamicAbort THEN "ABORT" ELSE "TIMEOUT")
    /\ UNCHANGED <<permit, t, k1, rg, exc, adc, aux, charger, faults, buf, open>>

RevokedStep ==
    /\ Active /\ m.st # "ABORT"
    /\ DynamicAbort \/ PowerLate
    /\ m' = Aborted(m, IF DynamicAbort THEN "ABORT" ELSE "TIMEOUT")
    /\ UNCHANGED <<permit, t, k1, rg, exc, adc, aux, charger, faults, buf, open>>

At(state) == m.st = state /\ ~DynamicAbort /\ ~PowerLate

ForceK1Safe ==
    /\ At("FORCE_K1_SAFE")
    /\ \E w \in Gpio :
          /\ MoveK1(K1ForcedSafe(w))
          /\ faults' = faults \cup Latch("K1_IO", w # "OK")
          /\ m' = IF w = "OK" THEN [m EXCEPT !.st = "RANGE_REQUEST"]
                  ELSE Aborted(m, "K1")
    /\ UNCHANGED <<permit, t, rg, exc, adc, aux, charger, buf>>

RequestRange ==
    /\ At("RANGE_REQUEST")
    /\ \E e, a \in Gpio : rg' = RangeRequest(rg, m.req.range, e, a)
    /\ IF rg'.fsm = "DEAD_TIME"
       THEN /\ m' = [m EXCEPT !.st = "RANGE_WAIT"]
            /\ t' = [t EXCEPT !.range = DeadTime, !.wait = RangeTimeout]
       ELSE m' = Aborted(m, "RANGE") /\ UNCHANGED t
    /\ UNCHANGED <<permit, k1, exc, adc, aux, charger, faults, buf, open>>

(* hw_range_step, called by the transaction and by the super-loop          *)
RangeStepped(e) == IF t.range = 0 THEN RangeElapsed(rg, e) ELSE rg
RangeDeadline(e) ==
    IF rg.fsm = "DEAD_TIME" /\ RangeStepped(e).fsm = "SETTLING"
    THEN [t EXCEPT !.range = SettleTime] ELSE t

WaitRange ==
    /\ At("RANGE_WAIT")
    /\ \E e \in Gpio : rg' = RangeStepped(e) /\ t' = RangeDeadline(e)
    /\ m' = CASE rg'.fsm = "INVALID" -> Aborted(m, "RANGE")
              [] RangeIsReady(rg') ->
                   IF rg'.current = m.req.range
                   THEN [m EXCEPT !.st = "EXC_NEUTRAL"] ELSE Aborted(m, "RANGE")
              [] OTHER -> IF t.wait = 0 THEN Aborted(m, "RANGE") ELSE m
    /\ UNCHANGED <<permit, k1, exc, adc, aux, charger, faults, buf, open>>

(* Both entries into neutral excitation: before the permit, after capture. *)
SettleNeutral(from, to) ==
    /\ At(from)
    /\ exc' = ExcitationNeutral
    /\ m' = [m EXCEPT !.st = to]
    /\ t' = [t EXCEPT !.wait = NeutralSettle]
    /\ UNCHANGED <<permit, k1, rg, adc, aux, charger, faults, buf, open>>

ExcNeutral == SettleNeutral("EXC_NEUTRAL", "EXC_NEUTRAL_WAIT")
ExcNeutralPost == SettleNeutral("EXC_NEUTRAL_POST", "EXC_NEUTRAL_POST_WAIT")

ExcNeutralWait ==
    /\ At("EXC_NEUTRAL_WAIT") /\ t.wait = 0
    /\ m' = [m EXCEPT !.st = "QUIET_ENTER"]
    /\ UNCHANGED <<permit, t, k1, rg, exc, adc, aux, charger, faults, buf, open>>

QuietEnter ==
    /\ At("QUIET_ENTER")
    /\ m' = [m EXCEPT !.quiet = TRUE,
                      !.st = IF m.connected THEN "ADC_ACQUIRE" ELSE "PERMIT_ISSUE"]
    /\ UNCHANGED <<permit, t, k1, rg, exc, adc, aux, charger, faults, buf, open>>

(* hw_measure_permit_check_issue, and hw_safety_evaluate at the end of it, *)
(* on the inputs product_permit_issue_input gathers.  The step may be held *)
(* back by product_auto_step_attempt, which waits for fresh evidence.      *)
Issuable(residual, battery) ==
    /\ faults = {} /\ charger = "ABSENT"
    /\ residual = "RECENT"
    /\ battery = "USABLE" /\ aux.age <= BatteryMaxAge
    /\ RangeSafetyState(rg) = "READY" /\ rg.current \in RangeIds
    /\ k1.cmd = "SAFE"

PermitIssue ==
    /\ At("PERMIT_ISSUE")
    /\ \E residual \in Residuals, battery \in Batteries :
          IF Issuable(residual, battery)
          THEN /\ permit' = [valid |-> TRUE, consumed |-> FALSE, range |-> rg.current]
               /\ t' = [t EXCEPT !.ttl = PermitTtl + 1,
                                 !.batt = BatteryMaxAge - aux.age]
               /\ m' = [m EXCEPT !.st = "PERMIT_VALIDATE"]
          ELSE permit' = NoPermit /\ m' = Aborted(m, "PERMIT") /\ UNCHANGED t
    /\ UNCHANGED <<k1, rg, exc, adc, aux, charger, faults, buf, open>>

(* hw_measure_permit_validate consumes the permit before it looks further. *)
PermitAllows ==
    /\ permit.valid /\ ~permit.consumed
    /\ t.ttl > 0
    /\ faults = {} /\ charger = "ABSENT"
    /\ RangeSafetyState(rg) = "READY" /\ rg.current = permit.range
    /\ k1.cmd = "SAFE"

PermitValidate ==
    /\ At("PERMIT_VALIDATE")
    /\ permit' = [permit EXCEPT !.consumed = @ \/ permit.valid]
    /\ m' = IF PermitAllows
            THEN [m EXCEPT !.validated = TRUE, !.st = "K1_REQUEST"]
            ELSE Aborted(m, "PERMIT")
    /\ UNCHANGED <<t, k1, rg, exc, adc, aux, charger, faults, buf, open>>

(* Seeded fault: the charger is looked at when the permit is validated,    *)
(* and not again when the relay is requested.                              *)
MeasureAllowedStale(residual, battery) ==
    /\ faults = {}
    /\ residual \in {"RECENT", "AGED"} /\ battery = "USABLE"
    /\ RangeSafetyState(rg) = "READY"

(* build_measure_permission and hw_safety_evaluate: evidence too old for a *)
(* permit is still good enough here.                                       *)
MeasureAllowed(residual, battery) ==
    /\ faults = {} /\ charger = "ABSENT"
    /\ residual \in {"RECENT", "AGED"} /\ battery = "USABLE"
    /\ RangeSafetyState(rg) = "READY"

(* Seeded fault: a failed relay write is reported and not latched. *)
EnergiseK1Unlatched(w) ==
    /\ MoveK1(K1Energised(w))
    /\ w # "OK"
    /\ m' = Aborted(m, "K1")
    /\ UNCHANGED <<t, faults>>

(* hw_k1_request_measure drives the relay safe when permission is refused. *)
(* Any outcome but an energised relay latches K1_IO.                       *)
EnergiseK1(w) ==
    /\ MoveK1(K1Energised(w))
    /\ faults' = faults \cup Latch("K1_IO", w # "OK")
    /\ IF w # "OK" THEN m' = Aborted(m, "K1") /\ UNCHANGED t
       ELSE /\ m' = [m EXCEPT !.k1Owned = TRUE, !.k1Reached = TRUE,
                    !.connected = Holds(m.req),
                    !.caps = 1, !.st = "AUX_PAUSE"]
            /\ t' = [t EXCEPT !.wait = OperateGuard,
                    !.sess = IF m.req.cont THEN SurveyMax ELSE SessionMax,
                    !.pdue = IF m.req.cont THEN 0 ELSE @]

K1Request ==
    /\ At("K1_REQUEST")
    /\ \E residual \in Residuals, battery \in Batteries, w \in Gpio :
          IF m.validated /\ MeasureAllowed(residual, battery) THEN EnergiseK1(w)
          ELSE /\ IF m.validated THEN MoveK1(K1ForcedSafe(w)) ELSE UNCHANGED <<k1, open>>
               /\ faults' = faults \cup Latch("K1_IO", m.validated)
               /\ m' = Aborted(m, IF m.validated THEN "K1" ELSE "PERMIT")
               /\ UNCHANGED t
    /\ UNCHANGED <<permit, rg, exc, adc, aux, charger, buf>>

AuxPause ==
    /\ At("AUX_PAUSE")
    /\ aux' = AuxPaused
    /\ m' = [m EXCEPT !.st = "K1_OPERATE_GUARD"]
    /\ UNCHANGED <<permit, t, k1, rg, exc, adc, charger, faults, buf, open>>

K1OperateGuard ==
    /\ At("K1_OPERATE_GUARD") /\ t.wait = 0
    /\ m' = [m EXCEPT !.st = "ADC_ACQUIRE"]
    /\ UNCHANGED <<permit, t, k1, rg, exc, adc, aux, charger, faults, buf, open>>

AdcAcquire ==
    /\ At("ADC_ACQUIRE")
    /\ \E s \in AdcStatus :
          /\ adc' = AdcAcquired(s)
          /\ m' = IF s = "OK" THEN [m EXCEPT !.adcOwned = TRUE, !.st = "EXC_SINE_START"]
                  ELSE Aborted([m EXCEPT !.adcOwned = TRUE], "ADC_ACQUIRE")
    /\ UNCHANGED <<permit, t, k1, rg, exc, aux, charger, faults, buf, open>>

(* product_excitation_sine refuses unless the excitation is neutral. *)
ExcSineStart ==
    /\ At("EXC_SINE_START")
    /\ IF exc.mode = "NEUTRAL"
       THEN /\ exc' = [mode |-> "SINE", drive |-> m.req.drive, err |-> FALSE]
            /\ m' = [m EXCEPT !.st = "EXC_SETTLE"]
            /\ t' = [t EXCEPT !.wait = SineSettle]
       ELSE m' = Aborted(m, "EXCITATION") /\ UNCHANGED <<exc, t>>
    /\ UNCHANGED <<permit, k1, rg, adc, aux, charger, faults, buf, open>>

(* begin_power_refresh, in the two states that call it *)
RefreshDue == m.connected /\ m.req.cont /\ t.pdue = 0

PowerRefresh ==
    /\ At("EXC_SETTLE") \/ At("ADC_DMA_START")
    /\ RefreshDue
    /\ m' = [m EXCEPT !.resume = m.st, !.st = "POWER_RESTORE"]
    /\ t' = [t EXCEPT !.resume = t.wait, !.pdl = PowerTimeout]
    /\ UNCHANGED <<permit, k1, rg, exc, adc, aux, charger, faults, buf, open>>

ExcSettle ==
    /\ At("EXC_SETTLE") /\ ~RefreshDue
    /\ exc.err \/ t.wait = 0
    /\ m' = IF exc.err THEN Aborted(m, "EXCITATION") ELSE [m EXCEPT !.st = "ADC_DMA_START"]
    /\ UNCHANGED <<permit, t, k1, rg, exc, adc, aux, charger, faults, buf, open>>

AdcDmaStart ==
    /\ At("ADC_DMA_START") /\ ~RefreshDue
    /\ IF adc.owner = "METROLOGY"
       THEN /\ adc' = [adc EXCEPT !.dma = "RUN"]
            /\ buf' = [range |-> InvalidId, drive |-> "NONE"]
            /\ m' = [m EXCEPT !.st = "ADC_DMA_WAIT"]
            /\ t' = [t EXCEPT !.wait = DmaTimeout]
       ELSE m' = Aborted(m, "ADC_ACQUIRE") /\ UNCHANGED <<adc, buf, t>>
    /\ UNCHANGED <<permit, k1, rg, exc, aux, charger, faults, open>>

(* Seeded faults: the block is taken before its transfer ends; a transfer  *)
(* is waited for without a timeout.                                        *)
AdcDmaWaitEarly ==
    /\ At("ADC_DMA_WAIT") /\ adc.dma # "ERR"
    /\ m' = [m EXCEPT !.done = TRUE, !.st = "ADC_DMA_COMPLETE"]
    /\ UNCHANGED <<permit, t, k1, rg, exc, adc, aux, charger, faults, buf, open>>

AdcDmaWaitForever ==
    /\ At("ADC_DMA_WAIT")
    /\ m' = CASE adc.dma = "ERR" \/ exc.err -> Aborted(m, "DMA")
              [] adc.dma = "DONE" /\ ~exc.err ->
                    [m EXCEPT !.done = TRUE, !.st = "ADC_DMA_COMPLETE"]
              [] OTHER -> m
    /\ UNCHANGED <<permit, t, k1, rg, exc, adc, aux, charger, faults, buf, open>>

AdcDmaWait ==
    /\ At("ADC_DMA_WAIT")
    /\ m' = CASE adc.dma = "ERR" \/ exc.err -> Aborted(m, "DMA")
              [] adc.dma = "DONE" /\ ~exc.err ->
                    [m EXCEPT !.done = TRUE, !.st = "ADC_DMA_COMPLETE"]
              [] OTHER -> IF t.wait = 0 THEN Aborted(m, "TIMEOUT") ELSE m
    /\ UNCHANGED <<permit, t, k1, rg, exc, adc, aux, charger, faults, buf, open>>

(* The two states that only stop the converter. *)
StopAdc(from, to) ==
    /\ At(from)
    /\ adc' = AdcStopped(adc)
    /\ m' = [m EXCEPT !.st = to]
    /\ UNCHANGED <<permit, t, k1, rg, exc, aux, charger, faults, buf, open>>

AdcDmaComplete == StopAdc("ADC_DMA_COMPLETE", "EXC_NEUTRAL_POST")
AdcRelease == StopAdc("ADC_RELEASE", "ADC_RESTORE")

ExcNeutralPostWait ==
    /\ At("EXC_NEUTRAL_POST_WAIT") /\ t.wait = 0
    /\ m' = IF m.connected
            THEN [Finalized(m) EXCEPT !.dumpable = FALSE, !.st = "SESSION_HOLD"]
            ELSE [m EXCEPT !.st = "K1_SAFE"]
    /\ UNCHANGED <<permit, t, k1, rg, exc, adc, aux, charger, faults, buf, open>>
-----------------------------------------------------------------------------
(* The orderly release.                                                    *)
K1Safe ==
    /\ At("K1_SAFE")
    /\ \E w \in Gpio :
          /\ MoveK1(K1ForcedSafe(w))
          /\ faults' = faults \cup Latch("K1_IO", w # "OK")
          /\ IF w = "OK"
             THEN /\ m' = [m EXCEPT !.connected = FALSE, !.st = "K1_RELEASE_GUARD"]
                  /\ t' = [t EXCEPT !.wait = ReleaseGuard]
             ELSE m' = Aborted(m, "K1") /\ UNCHANGED t
    /\ UNCHANGED <<permit, rg, exc, adc, aux, charger, buf>>

K1ReleaseGuard ==
    /\ At("K1_RELEASE_GUARD") /\ t.wait = 0
    /\ m' = [m EXCEPT !.k1Owned = FALSE, !.st = "EXC_OFF"]
    /\ UNCHANGED <<permit, t, k1, rg, exc, adc, aux, charger, faults, buf, open>>

(* bsp_excitation_off always succeeds. *)
ExcOff ==
    /\ At("EXC_OFF")
    /\ exc' = ExcitationOff
    /\ m' = [m EXCEPT !.st = "RANGE_DISABLE"]
    /\ UNCHANGED <<permit, t, k1, rg, adc, aux, charger, faults, buf, open>>

RangeDisable ==
    /\ At("RANGE_DISABLE")
    /\ \E e \in Gpio :
          /\ rg' = RangeForceDisabled(rg, e)
          /\ faults' = faults \cup Latch("RANGE_IO", e # "OK")
          /\ m' = IF e = "OK" THEN [m EXCEPT !.st = "ADC_RELEASE"] ELSE Aborted(m, "RANGE")
    /\ UNCHANGED <<permit, t, k1, exc, adc, aux, charger, buf, open>>

AdcRestore ==
    /\ At("ADC_RESTORE")
    /\ \E s \in AdcStatus :
          /\ adc' = AdcRestored(s)
          /\ faults' = faults \cup Latch("ADC_RUNTIME", s # "OK" /\ ~m.restoreFailed)
          /\ m' = IF s = "OK" THEN [m EXCEPT !.adcOwned = FALSE, !.st = "AUX_RESUME"]
                  ELSE Aborted(RestoreNoted(m, s), "AUX_RESTORE")
    /\ aux' \in AuxAfterRestore
    /\ UNCHANGED <<permit, t, k1, rg, exc, charger, buf, open>>

AuxResume ==
    /\ At("AUX_RESUME")
    /\ aux' = AuxResumed
    /\ m' = [m EXCEPT !.st = "QUIET_EXIT"]
    /\ UNCHANGED <<permit, t, k1, rg, exc, adc, charger, faults, buf, open>>

QuietExit ==
    /\ At("QUIET_EXIT")
    /\ m' = [m EXCEPT !.quiet = FALSE, !.st = "ANALYZE"]
    /\ UNCHANGED <<permit, t, k1, rg, exc, adc, aux, charger, faults, buf, open>>

Analyze ==
    /\ At("ANALYZE")
    /\ m' = [Finalized(m) EXCEPT !.st = "DONE"]
    /\ UNCHANGED <<permit, t, k1, rg, exc, adc, aux, charger, faults, buf, open>>
-----------------------------------------------------------------------------
(* The power refresh of a continuous survey: the stopped converter is lent *)
(* to the paused sensors for one VMID and battery group.                   *)
PowerBegins == aux.paused /\ aux.power \in {"NONE", "READY"}

PowerRestore ==
    /\ At("POWER_RESTORE")
    /\ \E s \in AdcStatus :
          /\ adc' = AdcRestored(s)
          /\ faults' = faults \cup Latch("ADC_RUNTIME", s # "OK" /\ ~m.restoreFailed)
          /\ IF s = "OK" /\ PowerBegins
             THEN /\ aux' = [aux EXCEPT !.power = "SAMPLING", !.group = 0]
                  /\ m' = [m EXCEPT !.adcOwned = FALSE, !.st = "POWER_WAIT"]
             ELSE /\ aux' \in AuxAfterRestore
                  /\ m' = Aborted(RestoreNoted(m, s), "AUX_RESTORE")
    /\ UNCHANGED <<permit, t, k1, rg, exc, charger, buf, open>>

(* The sample must be usable, recent, and not older than this refresh. *)
SampleAccepted(battery) ==
    /\ aux.power = "READY"
    /\ battery = "USABLE"
    /\ aux.age < PowerTimeout
    /\ aux.age <= PowerTimeout - t.pdl

(* Seeded fault: the deadline counts from the acceptance of the sample. *)
PowerWaitUndated ==
    /\ At("POWER_WAIT") /\ aux.power \notin {"SAMPLING", "ORPHANED"}
    /\ t' = [t EXCEPT !.batt = BatteryMaxAge, !.pdue = PowerPeriod]
    /\ m' = [m EXCEPT !.st = "POWER_ACQUIRE"]
    /\ UNCHANGED <<permit, k1, rg, exc, adc, aux, charger, faults, buf, open>>

PowerWait ==
    /\ At("POWER_WAIT") /\ aux.power \notin {"SAMPLING", "ORPHANED"}
    /\ \E battery \in Batteries :
          IF SampleAccepted(battery)
          THEN /\ t' = [t EXCEPT !.batt = BatteryMaxAge - aux.age,
                        !.pdue = IF aux.age < PowerPeriod THEN PowerPeriod - aux.age ELSE 0]
               /\ m' = [m EXCEPT !.st = "POWER_ACQUIRE"]
          ELSE m' = Aborted(m, "PERMIT") /\ UNCHANGED t
    /\ UNCHANGED <<permit, k1, rg, exc, adc, aux, charger, faults, buf, open>>

(* Seeded faults: the settling starts again; ownership is not recorded. *)
PowerAcquireResettled ==
    /\ At("POWER_ACQUIRE")
    /\ adc' = AdcAcquired("OK")
    /\ m' = [m EXCEPT !.adcOwned = TRUE, !.st = m.resume]
    /\ t' = [t EXCEPT !.wait = SineSettle]
    /\ UNCHANGED <<permit, k1, rg, exc, aux, charger, faults, buf, open>>

PowerAcquireUnowned ==
    /\ At("POWER_ACQUIRE")
    /\ adc' = AdcAcquired("OK")
    /\ m' = [m EXCEPT !.st = m.resume]
    /\ t' = [t EXCEPT !.wait = t.resume]
    /\ UNCHANGED <<permit, k1, rg, exc, aux, charger, faults, buf, open>>

PowerAcquire ==
    /\ At("POWER_ACQUIRE")
    /\ \E s \in AdcStatus :
          /\ adc' = AdcAcquired(s)
          /\ IF s = "OK"
             THEN /\ m' = [m EXCEPT !.adcOwned = TRUE, !.st = m.resume]
                  /\ t' = [t EXCEPT !.wait = t.resume]
             ELSE m' = Aborted([m EXCEPT !.adcOwned = TRUE], "ADC_ACQUIRE") /\ UNCHANGED t
    /\ UNCHANGED <<permit, k1, rg, exc, aux, charger, faults, buf, open>>
-----------------------------------------------------------------------------
(* abort_cleanup_step, one phase per step.                                 *)
In(phase) == m.st = "ABORT" /\ m.phase = phase

(* Seeded fault: the first failure ends the isolation of the terminals. *)
AbortStopAtFailure ==
    /\ In("STOP_ADC")
    /\ adc' = AdcStopped(adc)
    /\ \E e, w \in Gpio :
          /\ rg' = RangeForceDisabled(rg, e)
          /\ IF e = "OK" THEN MoveK1(K1ForcedSafe(w)) ELSE UNCHANGED <<k1, open>>
          /\ faults' = faults \cup Latch("RANGE_IO", e # "OK")
                             \cup Latch("K1_IO", e = "OK" /\ w # "OK")
    /\ exc' = ExcitationOff
    /\ m' = [m EXCEPT !.connected = FALSE, !.k1Owned = m.guard,
                      !.phase = IF m.guard THEN "RELEASE_GUARD" ELSE "ADC_RESTORE"]
    /\ t' = [t EXCEPT !.wait = IF m.guard THEN ReleaseGuard ELSE @]
    /\ UNCHANGED <<permit, aux, charger, buf>>

(* Everything that isolates the terminals is tried in the first phase,     *)
(* whatever fails before it.                                               *)
AbortStop ==
    /\ In("STOP_ADC")
    /\ adc' = AdcStopped(adc)
    /\ \E e, w \in Gpio :
          /\ rg' = RangeForceDisabled(rg, e)
          /\ MoveK1(K1ForcedSafe(w))
          /\ faults' = faults \cup Latch("RANGE_IO", e # "OK") \cup Latch("K1_IO", w # "OK")
    /\ exc' = ExcitationOff
    /\ m' = [m EXCEPT !.connected = FALSE, !.k1Owned = m.guard,
                      !.phase = IF m.guard THEN "RELEASE_GUARD" ELSE "ADC_RESTORE"]
    /\ t' = [t EXCEPT !.wait = IF m.guard THEN ReleaseGuard ELSE @]
    /\ UNCHANGED <<permit, aux, charger, buf>>

AbortReleaseGuard ==
    /\ In("RELEASE_GUARD") /\ t.wait = 0
    /\ m' = [m EXCEPT !.k1Owned = FALSE, !.phase = "ADC_RESTORE"]
    /\ UNCHANGED <<permit, t, k1, rg, exc, adc, aux, charger, faults, buf, open>>

AbortAdcRestore ==
    /\ In("ADC_RESTORE")
    /\ IF m.adcOwned \/ aux.paused
       THEN /\ \E s \in AdcStatus :
                 /\ adc' = AdcRestored(s)
                 /\ faults' = faults \cup Latch("ADC_RUNTIME", s # "OK" /\ ~m.restoreFailed)
                 /\ m' = [RestoreNoted(m, s) EXCEPT !.adcOwned = FALSE,
                             !.phase = IF s = "OK" /\ aux.paused
                                       THEN "AUX_RESUME" ELSE "QUIET_OFF"]
            /\ aux' \in AuxAfterRestore
       ELSE m' = [m EXCEPT !.phase = "QUIET_OFF"] /\ UNCHANGED <<adc, aux, faults>>
    /\ UNCHANGED <<permit, t, k1, rg, exc, charger, buf, open>>

AbortAuxResume ==
    /\ In("AUX_RESUME")
    /\ aux' = AuxResumed
    /\ m' = [m EXCEPT !.phase = "QUIET_OFF"]
    /\ UNCHANGED <<permit, t, k1, rg, exc, adc, charger, faults, buf, open>>

AbortQuietOff ==
    /\ In("QUIET_OFF")
    /\ m' = [m EXCEPT !.quiet = FALSE, !.dumpable = FALSE, !.valid = FALSE,
                      !.st = "IDLE", !.phase = "NONE"]
    /\ UNCHANGED <<permit, t, k1, rg, exc, adc, aux, charger, faults, buf, open>>
-----------------------------------------------------------------------------
(* The super-loop before the transaction's step: hw_range_step, and the    *)
(* enforcement of app_update_safety_state.                                 *)
Supervise ==
    \E e, d, w \in Gpio :
        /\ t' = RangeDeadline(e)
        /\ LET stepped == RangeStepped(e)
               seen == faults \cup Latch("RANGE_IO", stepped.fsm = "INVALID")
               kept == seen \cup Latch("K1_IO", ~K1Owned /\ w # "OK")
           IN  /\ IF K1Owned THEN UNCHANGED <<k1, open>> ELSE MoveK1(K1ForcedSafe(w))
               /\ rg' = IF kept = {} THEN stepped ELSE RangeForceDisabled(stepped, d)
               /\ faults' = kept \cup Latch("RANGE_IO", kept # {} /\ d # "OK")
        /\ UNCHANGED <<m, permit, exc, adc, aux, charger, buf>>

(* hw_aux_sensors_step while the sensors are not paused: a group completes, *)
(* or the converter fails, which the sampler and the loop latch.            *)
AuxSample ==
    /\ ~aux.paused /\ adc.owner = "AUX"
    /\ aux' = [aux EXCEPT !.age = 0]
    /\ UNCHANGED <<m, permit, t, k1, rg, exc, adc, charger, faults, buf, open>>

AuxFailure ==
    /\ \/ ~aux.paused /\ (AdcMayFail \/ adc.owner = "DOWN")
       \/ aux.power = "SAMPLING" /\ (AdcMayFail \/ adc.owner = "DOWN")
       \/ aux.power = "ORPHANED"
    /\ aux' = [aux EXCEPT !.power = "NONE"]
    /\ faults' = faults \cup {"ADC_RUNTIME"}
    /\ UNCHANGED <<m, permit, t, k1, rg, exc, adc, charger, buf, open>>

(* The power group completes: complete_sample publishes the battery with   *)
(* the time the group began.                                               *)
PowerSample ==
    /\ aux.power = "SAMPLING" /\ adc.owner = "AUX"
    /\ aux' = [aux EXCEPT !.power = "READY", !.age = aux.group]
    /\ UNCHANGED <<m, permit, t, k1, rg, exc, adc, charger, faults, buf, open>>

(* DMA1_Channel1_IRQHandler.  What the buffer then holds is what was       *)
(* selected and driven at the end of the transfer.                         *)
AdcDmaDone ==
    /\ adc.dma = "RUN"
    /\ adc' = [adc EXCEPT !.dma = "DONE"]
    /\ buf' = [range |-> rg.current,
               drive |-> IF exc.mode = "SINE" THEN exc.drive ELSE "NONE"]
    /\ UNCHANGED <<m, permit, t, k1, rg, exc, aux, charger, faults, open>>

AdcDmaError ==
    /\ AdcMayFail /\ adc.dma = "RUN"
    /\ adc' = [adc EXCEPT !.dma = "ERR"]
    /\ UNCHANGED <<m, permit, t, k1, rg, exc, aux, charger, faults, buf, open>>

(* DMA1_Channel5_IRQHandler: only the sine is fed by DMA. *)
ExcDmaError ==
    /\ AdcMayFail /\ exc.mode = "SINE"
    /\ exc' = [exc EXCEPT !.mode = "OFF", !.err = TRUE]
    /\ UNCHANGED <<m, permit, t, k1, rg, adc, aux, charger, faults, buf, open>>

ChargerChange ==
    /\ ChargerMayChange
    /\ charger' = IF charger = "ABSENT" THEN "PRESENT" ELSE "ABSENT"
    /\ UNCHANGED <<m, permit, t, k1, rg, exc, adc, aux, faults, buf, open>>

(* Seeded fault: a deadline that passes is not noticed. *)
DecrementOn(n) == n - 1

Decrement(n) == IF n > 0 THEN n - 1 ELSE 0
Increment(n, limit) == IF n < limit THEN n + 1 ELSE limit

Tick ==
    /\ t' = [d \in DOMAIN t |-> Decrement(t[d])]
    /\ open' = IF k1.coil THEN 0 ELSE Increment(open, ReleaseGuard)
    /\ aux' = [aux EXCEPT !.age = Increment(@, BatteryMaxAge + 1),
                          !.group = IF aux.power = "SAMPLING"
                                    THEN Increment(@, BatteryMaxAge + 1) ELSE 0]
    /\ UNCHANGED <<m, permit, k1, rg, exc, adc, charger, faults, buf>>
-----------------------------------------------------------------------------
PrepareStep ==
    \/ ForceK1Safe \/ RequestRange \/ WaitRange \/ ExcNeutral \/ ExcNeutralWait
    \/ QuietEnter \/ PermitIssue \/ PermitValidate \/ K1Request
ConnectedStep ==
    \/ AuxPause \/ K1OperateGuard \/ AdcAcquire \/ ExcSineStart \/ ExcSettle
    \/ AdcDmaStart \/ AdcDmaWait \/ AdcDmaComplete \/ ExcNeutralPost
    \/ ExcNeutralPostWait \/ PowerRefresh \/ PowerRestore \/ PowerWait \/ PowerAcquire
ReleaseStep ==
    \/ K1Safe \/ K1ReleaseGuard \/ ExcOff \/ RangeDisable \/ AdcRelease
    \/ AdcRestore \/ AuxResume \/ QuietExit \/ Analyze
AbortStep ==
    \/ AbortStop \/ AbortReleaseGuard \/ AbortAdcRestore \/ AbortAuxResume
    \/ AbortQuietOff

(* hw_metrology_measure_step *)
MeasureStep == RevokedStep \/ PrepareStep \/ ConnectedStep \/ ReleaseStep \/ AbortStep

Owner ==
    \/ \E q \in Requests : Start(q) \/ Continue(q)
    \/ Abort \/ FinishSession \/ Acknowledge

Sampler == AuxSample \/ PowerSample \/ AuxFailure
Interrupt == AdcDmaDone \/ AdcDmaError \/ ExcDmaError

Next == MeasureStep \/ Owner \/ Supervise \/ Sampler \/ Interrupt \/ ChargerChange \/ Tick

Spec == Init /\ [][Next]_vars

(* The super-loop keeps calling the transaction's step and the millisecond *)
(* timer keeps running.  Of the owner, the sensors and the DMA transfers   *)
(* nothing is assumed: the timeouts are for their absence.                 *)
FairSpec == Spec /\ WF_vars(MeasureStep) /\ WF_vars(Supervise) /\ WF_vars(Tick)
-----------------------------------------------------------------------------
(* The type of each variable. *)
RequestSet == Requests \cup {IdleRequest}
MeasureRecord ==
    [st : States, err : Errors, phase : Phases, quiet : BOOLEAN,
     adcOwned : BOOLEAN, restoreFailed : BOOLEAN, validated : BOOLEAN,
     k1Owned : BOOLEAN, k1Reached : BOOLEAN, guard : BOOLEAN,
     connected : BOOLEAN, dumpable : BOOLEAN, valid : BOOLEAN,
     done : BOOLEAN, req : RequestSet, caps : Nat, stats : Nat,
     resume : {"IDLE", "EXC_SETTLE", "ADC_DMA_START"}]
PermitRecord ==
    [valid : BOOLEAN, consumed : BOOLEAN, range : RangeIds \cup {InvalidId}]
Deadlines ==
    [wait : Nat, sess : Nat, batt : Nat, pdue : Nat, pdl : Nat, resume : Nat,
     ttl : Nat, range : Nat]
RelayRecord == [cmd : {"SAFE", "MEASURE"}, coil : BOOLEAN]
ExcitationRecord ==
    [mode : {"OFF", "NEUTRAL", "SINE"}, drive : Drives \cup {"NONE"}, err : BOOLEAN]
AdcRecord ==
    [owner : {"AUX", "METROLOGY", "DOWN"}, dma : {"IDLE", "RUN", "DONE", "ERR"}]
Ages == 0 .. BatteryMaxAge + 1
AuxRecord ==
    [paused : BOOLEAN, power : {"NONE", "SAMPLING", "READY", "ORPHANED"},
     group : Ages, age : Ages]
BufferRecord == [range : RangeIds \cup {InvalidId}, drive : Drives \cup {"NONE"}]

TypeOK ==
    /\ m \in MeasureRecord
    /\ permit \in PermitRecord
    /\ t \in Deadlines
    /\ k1 \in RelayRecord
    /\ rg \in RangeRecord
    /\ exc \in ExcitationRecord
    /\ adc \in AdcRecord
    /\ aux \in AuxRecord
    /\ charger \in {"ABSENT", "PRESENT"}
    /\ faults \subseteq Faults
    /\ buf \in BufferRecord
    /\ open \in 0 .. ReleaseGuard

(* The relay connects the terminals only inside a transaction that owns it *)
(* and spent a permit for it, or after a relay write failed, which is      *)
(* latched (hw_safety's K1_IO).                                            *)
ConnectedIsAuthorised ==
    k1.coil \/ k1.cmd = "MEASURE" =>
        \/ "K1_IO" \in faults
        \/ K1Owned /\ m.validated /\ permit.valid /\ permit.consumed

(* The relay closes on a settled range, the one requested, with the source *)
(* neutral, no charger, no fault and the sensors still watching; outside   *)
(* an abort it opens with the source neutral again.                        *)
SwitchedCold ==
    [][/\ ~k1.coil /\ k1'.coil =>
            /\ RangeIsReady(rg) /\ rg.line /\ rg.current = m.req.range
            /\ permit.range = rg.current
            /\ exc.mode = "NEUTRAL" /\ charger = "ABSENT" /\ faults = {}
            /\ ~aux.paused /\ aux.power = "NONE"
       /\ k1.coil /\ ~k1'.coil /\ m.st # "ABORT" /\ faults = {} =>
            exc.mode = "NEUTRAL"]_vars

(* While the terminals are connected the range is re-addressed only with   *)
(* the source neutral: never under a sine, unless an abort or a latched    *)
(* fault is taking the multiplexer down.                                   *)
RangeMovesUnderNeutral ==
    [][k1.coil /\ (rg'.pins # rg.pins \/ rg'.line # rg.line) =>
         exc.mode = "NEUTRAL" \/ m.st = "ABORT" \/ faults' # {}]_vars

(* Whatever path leads there (orderly, aborted, aborted again), the        *)
(* auxiliary sensors go back on the terminals only when the contact has    *)
(* been released for the whole release guard.                              *)
ReleaseGuardHonoured ==
    [][aux.paused /\ ~aux'.paused =>
         (~k1.coil /\ open = ReleaseGuard) \/ "K1_IO" \in faults]_vars

(* The connection never outlives its power evidence: the deadline it runs  *)
(* against is never later than the age limit of the battery sample behind  *)
(* it, through every refresh.                                              *)
BatteryDeadlineHonest ==
    m.connected => t.batt = 0 \/ t.batt + aux.age <= BatteryMaxAge

(* The converter serves one master: the metrology pair only while the      *)
(* sensors are paused and not sampling power, a capture only in the state  *)
(* that waits for it.                                                      *)
AdcExclusive ==
    /\ adc.owner = "METROLOGY" =>
          m.adcOwned /\ aux.paused /\ aux.power \notin {"SAMPLING", "ORPHANED"}
    /\ adc.dma = "RUN" =>
          adc.owner = "METROLOGY" /\ m.st \in {"ADC_DMA_WAIT", "ABORT"}

(* A result that can be read was captured, whole, on the range and drive   *)
(* of the request it answers, by a transaction that met no error.          *)
ResultHonest ==
    ResultReady =>
        /\ m.err = "OK" /\ ~m.restoreFailed
        /\ buf = [range |-> m.req.range, drive |-> m.req.drive]

(* A transaction at rest holds nothing: relay, quiet mode, converter and   *)
(* sensors are given back, the source and the multiplexer are off, unless  *)
(* the very component that failed is latched.                              *)
RestHoldsNothing ==
    m.st \in {"IDLE", "DONE"} =>
        /\ ~m.quiet /\ ~m.adcOwned
        /\ k1.coil => "K1_IO" \in faults
        /\ aux.paused \/ adc.owner # "AUX" => "ADC_RUNTIME" \in faults
        /\ exc.mode = "OFF"
        /\ rg.line => "RANGE_IO" \in faults

(* The settling of the source is not restarted by a power refresh: what is *)
(* left of it never grows between the start of the sine and the capture.   *)
SettleNotRestarted ==
    [][/\ m.st \in PowerStates \cup {"EXC_SETTLE"}
       /\ m'.st \in PowerStates \cup {"EXC_SETTLE", "ADC_DMA_START"}
       => t'.wait <= t.wait]_vars

(* What the owners of the transaction rely on (Attempt): the transaction   *)
(* implements that specification, whatever the hardware does.              *)
AttemptState(st) ==
    CASE st \in {"IDLE", "DONE", "ABORT"} -> st
      [] st = "SESSION_HOLD" -> "HOLD"
      [] st \in {"K1_SAFE", "K1_RELEASE_GUARD", "EXC_OFF", "RANGE_DISABLE", "ADC_RELEASE",
                 "ADC_RESTORE", "AUX_RESUME", "QUIET_EXIT", "ANALYZE"} -> "END"
      [] OTHER -> "RUN"
AttemptView(r) ==
    [st |-> AttemptState(r.st), failed |-> r.err # "OK", valid |-> r.valid,
     hold |-> AttemptState(r.st) = "RUN" /\ Holds(r.req),
     begun |-> r.st = "ABORT" /\ r.phase # "STOP_ADC", lost |-> FALSE]
AsAttempt == INSTANCE Attempt WITH att <- AttemptView(m)
ImplementsAttempt == AsAttempt!CaptureSpec

(* Nothing but its owner keeps a transaction from coming to rest, and only *)
(* by aborting it again and again while its cleanup is under way (each     *)
(* call starts the cleanup over, as the lead calibration's do at every     *)
(* pass).  Otherwise it ends, whatever the hardware does: every wait has   *)
(* its timeout, and a session its owner forgets is taken down.  Once it    *)
(* has, RestHoldsNothing says that the terminals are disconnected, unless  *)
(* a failed relay write is latched.                                        *)
TransactionEnds == <>[]Active => []<><<m.st = "ABORT" /\ Abort>>_vars
=============================================================================
