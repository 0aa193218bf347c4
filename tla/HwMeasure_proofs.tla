-------------------------- MODULE HwMeasure_proofs --------------------------
(***************************************************************************)
(* The transaction, for every set of requests, every timing and every      *)
(* pattern of failures: its state stays well-formed, the relay connects    *)
(* the terminals only under a spent permit, and the battery deadline never *)
(* outlives the sample behind it (the first part); and                     *)
(*   - the converter has one master, and a transaction at rest holds       *)
(*     nothing (CustodyInv, OffInv);                                       *)
(*   - the sensors go back only behind the release guard (GuardInv);       *)
(*   - a readable result answers its request (CaptureInv);                 *)
(*   - the relay and the multiplexer move only cold (ColdInv);             *)
(*   - a power refresh does not restart the settling (SettleInv);          *)
(*   - the owners' view of it is Attempt (AttemptInv).                     *)
(* Each invariant has one lemma saying that a step keeps it, by cases on   *)
(* the actions; what an action does to the fields is said once, in the     *)
(* lemmas named after it.                                                  *)
(***************************************************************************)
EXTENDS HwMeasure, HwRangeOps_proofs

(* Which constants the types depend on. *)
LEMMA ConstantTypes ==
    /\ IdleRequest \in RequestSet /\ Requests \subseteq RequestSet
    /\ {DeadTime, SettleTime, NeutralSettle, SineSettle, OperateGuard,
        ReleaseGuard, RangeTimeout, DmaTimeout, PermitTtl, BatteryMaxAge,
        SessionMax, SurveyMax, PowerPeriod, PowerTimeout} \subseteq Nat
    /\ PowerTimeout <= BatteryMaxAge
BY MeasureConstantsAssumption DEF RequestSet

LEMMA RequestTypes ==
    \A q \in RequestSet : /\ q.range \in RangeIds /\ q.drive \in Drives
                          /\ q.hold \in BOOLEAN /\ q.cont \in BOOLEAN
<1>1. IdleRequest \in Request
  BY DEF Request, IdleRequest, RangeIds, Drives, Refusals
<1>2. RequestSet \subseteq Request
  BY <1>1, MeasureConstantsAssumption DEF RequestSet
<1> QED BY <1>2 DEF Request

(* The names used below are names of their enumerations. *)
LEMMA StateNames ==
    /\ "IDLE" \in States /\ "FORCE_K1_SAFE" \in States
    /\ "RANGE_REQUEST" \in States /\ "RANGE_WAIT" \in States
    /\ "EXC_NEUTRAL" \in States /\ "EXC_NEUTRAL_WAIT" \in States
    /\ "QUIET_ENTER" \in States /\ "PERMIT_ISSUE" \in States
    /\ "PERMIT_VALIDATE" \in States /\ "K1_REQUEST" \in States
    /\ "AUX_PAUSE" \in States /\ "K1_OPERATE_GUARD" \in States
    /\ "ADC_ACQUIRE" \in States /\ "EXC_SINE_START" \in States
    /\ "EXC_SETTLE" \in States /\ "ADC_DMA_START" \in States
    /\ "ADC_DMA_WAIT" \in States /\ "ADC_DMA_COMPLETE" \in States
    /\ "EXC_NEUTRAL_POST" \in States /\ "EXC_NEUTRAL_POST_WAIT" \in States
    /\ "SESSION_HOLD" \in States /\ "K1_SAFE" \in States
    /\ "K1_RELEASE_GUARD" \in States /\ "EXC_OFF" \in States
    /\ "RANGE_DISABLE" \in States /\ "ADC_RELEASE" \in States
    /\ "ADC_RESTORE" \in States /\ "AUX_RESUME" \in States
    /\ "QUIET_EXIT" \in States /\ "ANALYZE" \in States /\ "DONE" \in States
    /\ "ABORT" \in States /\ "POWER_RESTORE" \in States
    /\ "POWER_WAIT" \in States /\ "POWER_ACQUIRE" \in States
BY DEF States, PowerStates

LEMMA PhaseNames ==
    /\ "NONE" \in Phases /\ "STOP_ADC" \in Phases /\ "RELEASE_GUARD" \in Phases
    /\ "ADC_RESTORE" \in Phases /\ "AUX_RESUME" \in Phases
    /\ "QUIET_OFF" \in Phases
BY DEF Phases

LEMMA ErrorNames ==
    /\ "OK" \in Errors /\ "INVALID" \in Errors /\ "CLOCK" \in Errors
    /\ "AMPLITUDE" \in Errors /\ "PERMIT" \in Errors /\ "K1" \in Errors
    /\ "RANGE" \in Errors /\ "EXCITATION" \in Errors
    /\ "ADC_ACQUIRE" \in Errors /\ "DMA" \in Errors /\ "TIMEOUT" \in Errors
    /\ "AUX_RESTORE" \in Errors /\ "ABORT" \in Errors
BY DEF Errors

LEMMA FaultNames ==
    \A f \in {"K1_IO", "RANGE_IO", "ADC_RUNTIME"} :
        \A latched : Latch(f, latched) \subseteq Faults
<1>1. {"K1_IO", "RANGE_IO", "ADC_RUNTIME"} \subseteq Faults BY DEF Faults
<1> QED BY <1>1 DEF Latch

(* The operators that update one record keep its type. *)
LEMMA AbortedType ==
    ASSUME NEW r \in MeasureRecord, NEW error \in Errors
    PROVE  Aborted(r, error) \in MeasureRecord
BY StateNames, PhaseNames DEF Aborted, MeasureRecord

LEMMA RestoreNotedType ==
    ASSUME NEW r \in MeasureRecord, NEW s
    PROVE  RestoreNoted(r, s) \in MeasureRecord
<1>1. CASE s = "OK" BY <1>1 DEF RestoreNoted
<1>2. CASE s # "OK"
  <2>1. (IF r.err = "OK" THEN "AUX_RESTORE" ELSE r.err) \in Errors
    BY ErrorNames DEF MeasureRecord
  <2> QED BY <1>2, <2>1 DEF RestoreNoted, MeasureRecord
<1> QED BY <1>1, <1>2

LEMMA FinalizedType ==
    ASSUME NEW r \in MeasureRecord
    PROVE  Finalized(r) \in MeasureRecord
BY DEF Finalized, MeasureRecord

LEMMA ClearedType == m \in MeasureRecord => Cleared \in MeasureRecord
<1> SUFFICES ASSUME m \in MeasureRecord PROVE Cleared \in MeasureRecord
  OBVIOUS
<1> DEFINE half == [m EXCEPT !.dumpable = FALSE, !.restoreFailed = FALSE,
                             !.err = "OK", !.valid = FALSE,
                                  !.validated = FALSE,
                             !.k1Owned = FALSE]
<1>1. half \in MeasureRecord BY ErrorNames DEF MeasureRecord
<1>2. Cleared = [half EXCEPT !.k1Reached = FALSE, !.guard = FALSE,
                             !.phase = "NONE", !.connected = FALSE, !.caps = 0,
                             !.stats = 0]
  BY DEF Cleared
<1> HIDE DEF half
<1> QED BY <1>1, <1>2, PhaseNames DEF MeasureRecord

LEMMA RelayType ==
    ASSUME k1 \in RelayRecord, NEW w
    PROVE  K1ForcedSafe(w) \in RelayRecord /\ K1Energised(w) \in RelayRecord
BY DEF K1ForcedSafe, K1Energised, RelayRecord

LEMMA MoveK1Type ==
    ASSUME NEW k \in RelayRecord, open \in 0 .. ReleaseGuard, MoveK1(k)
    PROVE  k1' \in RelayRecord /\ open' \in 0 .. ReleaseGuard
BY ConstantTypes DEF MoveK1

LEMMA AuxTypes ==
    ASSUME aux \in AuxRecord
    PROVE  /\ AuxPaused \in AuxRecord /\ AuxResumed \in AuxRecord
           /\ AuxAfterRestore \subseteq AuxRecord
BY DEF AuxRecord, AuxPaused, AuxResumed, AuxAfterRestore

LEMMA AdcTypes ==
    ASSUME adc \in AdcRecord, NEW s
    PROVE  /\ AdcStopped(adc) \in AdcRecord /\ AdcRestored(s) \in AdcRecord
           /\ AdcAcquired(s) \in AdcRecord
BY DEF AdcRecord, AdcStopped, AdcRestored, AdcAcquired

LEMMA ExcitationTypes ==
    ASSUME exc \in ExcitationRecord
    PROVE  ExcitationOff \in ExcitationRecord /\ ExcitationNeutral \in ExcitationRecord
BY DEF ExcitationRecord, ExcitationOff, ExcitationNeutral

(* hw_range_step keeps the types of the driver and of its deadline. *)
LEMMA SteppedType ==
    ASSUME rg \in RangeRecord, t \in Deadlines, NEW e
    PROVE  RangeStepped(e) \in RangeRecord /\ RangeDeadline(e) \in Deadlines
<1>1. RangeElapsed(rg, e) \in RangeRecord BY ElapsedPost
<1>2. RangeStepped(e) \in RangeRecord BY <1>1 DEF RangeStepped
<1>3. [t EXCEPT !.range = SettleTime] \in Deadlines
  BY ConstantTypes DEF Deadlines
<1> QED BY <1>2, <1>3 DEF RangeDeadline

LEMMA InitType == Init => TypeOK
<1> SUFFICES ASSUME Init PROVE TypeOK OBVIOUS
<1>1. m \in MeasureRecord
  BY ConstantTypes, StateNames, PhaseNames, ErrorNames DEF Init, MeasureRecord
<1>2. rg \in RangeRecord BY BootPost DEF Init
<1>3. permit \in PermitRecord /\ buf \in BufferRecord
  BY DEF Init, PermitRecord, BufferRecord
<1>4. t \in Deadlines /\ k1 \in RelayRecord /\ exc \in ExcitationRecord
      /\ adc \in AdcRecord
  BY DEF Init, Deadlines, RelayRecord, ExcitationRecord, AdcRecord
<1>5. aux \in AuxRecord /\ open \in 0 .. ReleaseGuard
  BY ConstantTypes DEF Init, AuxRecord, Ages
<1>6. charger \in {"ABSENT", "PRESENT"} /\ faults \subseteq Faults
  BY DEF Init
<1> QED BY <1>1, <1>2, <1>3, <1>4, <1>5, <1>6 DEF TypeOK

(* Every step, of the transaction, of its owner, of the super-loop and of  *)
(* the hardware, keeps the types.                                          *)
LEMMA NextType ==
    ASSUME TypeOK, Next
    PROVE  TypeOK'
<1>0. /\ m \in MeasureRecord /\ permit \in PermitRecord /\ t \in Deadlines
      /\ k1 \in RelayRecord /\ rg \in RangeRecord /\ exc \in ExcitationRecord
      /\ adc \in AdcRecord /\ aux \in AuxRecord
      /\ charger \in {"ABSENT", "PRESENT"} /\ faults \subseteq Faults
      /\ buf \in BufferRecord /\ open \in 0 .. ReleaseGuard
  BY DEF TypeOK
<1>1. CASE RevokedStep
  <2>1. m' \in MeasureRecord
    BY <1>1, <1>0, StateNames, ErrorNames, AbortedType
       DEF RevokedStep, MeasureRecord
  <2> QED BY <1>1, <1>0, <2>1 DEF RevokedStep, TypeOK
<1>2. CASE ForceK1Safe
  <2>1. m' \in MeasureRecord
    BY <1>2, <1>0, StateNames, ErrorNames, AbortedType
       DEF ForceK1Safe, MeasureRecord
  <2>2. k1' \in RelayRecord /\ open' \in 0 .. ReleaseGuard
    BY <1>2, <1>0, RelayType, MoveK1Type DEF ForceK1Safe
  <2>3. faults' \subseteq Faults
    BY <1>2, <1>0, FaultNames DEF ForceK1Safe
  <2> QED BY <1>2, <1>0, <2>1, <2>2, <2>3 DEF ForceK1Safe, TypeOK
<1>3. CASE RequestRange
  <2>1. m' \in MeasureRecord
    BY <1>3, <1>0, StateNames, ErrorNames, AbortedType
       DEF RequestRange, MeasureRecord
  <2>2. t' \in Deadlines
    BY <1>3, <1>0, ConstantTypes DEF RequestRange, Deadlines
  <2>3. rg' \in RangeRecord
    BY <1>3, <1>0, RequestPost DEF RequestRange
  <2> QED BY <1>3, <1>0, <2>1, <2>2, <2>3 DEF RequestRange, TypeOK
<1>4. CASE WaitRange
  <2>1. m' \in MeasureRecord
    BY <1>4, <1>0, StateNames, ErrorNames, AbortedType
       DEF WaitRange, MeasureRecord
  <2>2. rg' \in RangeRecord /\ t' \in Deadlines
    BY <1>4, <1>0, SteppedType DEF WaitRange
  <2> QED BY <1>4, <1>0, <2>1, <2>2 DEF WaitRange, TypeOK
<1>5. CASE ExcNeutral
  <2>1. m' \in MeasureRecord
    BY <1>5, <1>0, StateNames, ErrorNames, AbortedType
       DEF ExcNeutral, SettleNeutral, MeasureRecord
  <2>2. t' \in Deadlines
    BY <1>5, <1>0, ConstantTypes DEF ExcNeutral, SettleNeutral, Deadlines
  <2>3. exc' \in ExcitationRecord
    BY <1>5, <1>0, ExcitationTypes DEF ExcNeutral, SettleNeutral
  <2> QED BY <1>5, <1>0, <2>1, <2>2, <2>3 DEF ExcNeutral, SettleNeutral, TypeOK
<1>6. CASE ExcNeutralPost
  <2>1. m' \in MeasureRecord
    BY <1>6, <1>0, StateNames, ErrorNames, AbortedType
       DEF ExcNeutralPost, SettleNeutral, MeasureRecord
  <2>2. t' \in Deadlines
    BY <1>6, <1>0, ConstantTypes DEF ExcNeutralPost, SettleNeutral, Deadlines
  <2>3. exc' \in ExcitationRecord
    BY <1>6, <1>0, ExcitationTypes DEF ExcNeutralPost, SettleNeutral
  <2> QED BY <1>6, <1>0, <2>1, <2>2, <2>3
     DEF ExcNeutralPost, SettleNeutral, TypeOK
<1>7. CASE ExcNeutralWait
  <2>1. m' \in MeasureRecord
    BY <1>7, <1>0, StateNames, ErrorNames, AbortedType
       DEF ExcNeutralWait, MeasureRecord
  <2> QED BY <1>7, <1>0, <2>1 DEF ExcNeutralWait, TypeOK
<1>8. CASE QuietEnter
  <2>1. m' \in MeasureRecord
    BY <1>8, <1>0, StateNames, ErrorNames, AbortedType
       DEF QuietEnter, MeasureRecord
  <2> QED BY <1>8, <1>0, <2>1 DEF QuietEnter, TypeOK
<1>9. CASE PermitIssue
  <2>1. m' \in MeasureRecord
    BY <1>9, <1>0, StateNames, ErrorNames, AbortedType
       DEF PermitIssue, MeasureRecord
  <2>2. t' \in Deadlines
    <3>1. PICK residual \in Residuals, battery \in Batteries :
            t' = IF Issuable(residual, battery)
                 THEN [t EXCEPT !.ttl = PermitTtl + 1,
                      !.batt = BatteryMaxAge - aux.age]
                 ELSE t
      BY <1>9 DEF PermitIssue
    <3>2. CASE Issuable(residual, battery)
      <4>1. BatteryMaxAge - aux.age \in Nat /\ PermitTtl + 1 \in Nat
        BY <1>0, <3>2, ConstantTypes DEF Issuable, AuxRecord, Ages
      <4> QED BY <1>0, <3>1, <3>2, <4>1 DEF Deadlines
    <3> QED BY <1>0, <3>1, <3>2
  <2>3. permit' \in PermitRecord
    <3>1. [valid |-> TRUE, consumed |-> FALSE,
         range |-> rg.current] \in PermitRecord
      BY <1>0 DEF PermitRecord, RangeRecord
    <3>2. NoPermit \in PermitRecord BY DEF NoPermit, PermitRecord
    <3> QED BY <1>9, <3>1, <3>2 DEF PermitIssue
  <2> QED BY <1>9, <1>0, <2>1, <2>2, <2>3 DEF PermitIssue, TypeOK
<1>10. CASE PermitValidate
  <2>1. m' \in MeasureRecord
    BY <1>10, <1>0, StateNames, ErrorNames, AbortedType
       DEF PermitValidate, MeasureRecord
  <2>2. permit' \in PermitRecord
    BY <1>10, <1>0 DEF PermitValidate, PermitRecord
  <2> QED BY <1>10, <1>0, <2>1, <2>2 DEF PermitValidate, TypeOK
<1>11. CASE K1Request
  <2>1. m' \in MeasureRecord
    <3>1. PICK w \in Gpio :
            \/ /\ w = "OK"
               /\ m' = [m EXCEPT !.k1Owned = TRUE, !.k1Reached = TRUE,
                          !.connected = Holds(m.req),
                          !.caps = 1, !.st = "AUX_PAUSE"]
            \/ m' = Aborted(m, "K1")
            \/ m' = Aborted(m, "PERMIT")
      BY <1>11 DEF K1Request, EnergiseK1
    <3>2. Holds(m.req) \in BOOLEAN
      BY DEF Holds
    <3> HIDE <3>2
    <3>3. CASE m' = [m EXCEPT !.k1Owned = TRUE, !.k1Reached = TRUE,
                       !.connected = Holds(m.req),
                       !.caps = 1, !.st = "AUX_PAUSE"]
      BY <1>0, <3>2, <3>3, StateNames DEF MeasureRecord
    <3> QED BY <1>0, <3>1, <3>3, ErrorNames, AbortedType
  <2>2. t' \in Deadlines
    <3>1. [t EXCEPT !.wait = OperateGuard,
                    !.sess = IF m.req.cont THEN SurveyMax ELSE SessionMax,
                    !.pdue = IF m.req.cont THEN 0 ELSE @] \in Deadlines
      BY <1>0, ConstantTypes DEF Deadlines
    <3> QED BY <1>0, <1>11, <3>1 DEF K1Request, EnergiseK1
  <2>3. k1' \in RelayRecord /\ open' \in 0 .. ReleaseGuard
    BY <1>11, <1>0, RelayType, MoveK1Type DEF K1Request, EnergiseK1
  <2>4. faults' \subseteq Faults
    BY <1>11, <1>0, FaultNames DEF K1Request, EnergiseK1
  <2> QED BY <1>11, <1>0, <2>1, <2>2, <2>3, <2>4 DEF K1Request, TypeOK
<1>12. CASE AuxPause
  <2>1. m' \in MeasureRecord
    BY <1>12, <1>0, StateNames, ErrorNames, AbortedType
       DEF AuxPause, MeasureRecord
  <2>2. aux' \in AuxRecord
    BY <1>12, <1>0, AuxTypes DEF AuxPause
  <2> QED BY <1>12, <1>0, <2>1, <2>2 DEF AuxPause, TypeOK
<1>13. CASE K1OperateGuard
  <2>1. m' \in MeasureRecord
    BY <1>13, <1>0, StateNames, ErrorNames, AbortedType
       DEF K1OperateGuard, MeasureRecord
  <2> QED BY <1>13, <1>0, <2>1 DEF K1OperateGuard, TypeOK
<1>14. CASE AdcAcquire
  <2>1. m' \in MeasureRecord
    <3>1. /\ [m EXCEPT !.adcOwned = TRUE] \in MeasureRecord
          /\ [m EXCEPT !.adcOwned = TRUE,
               !.st = "EXC_SINE_START"] \in MeasureRecord
      BY <1>0, StateNames DEF MeasureRecord
    <3> QED BY <1>14, <3>1, ErrorNames, AbortedType DEF AdcAcquire
  <2>2. adc' \in AdcRecord
    BY <1>14, <1>0, AdcTypes DEF AdcAcquire
  <2> QED BY <1>14, <1>0, <2>1, <2>2 DEF AdcAcquire, TypeOK
<1>15. CASE ExcSineStart
  <2>1. m' \in MeasureRecord
    BY <1>15, <1>0, StateNames, ErrorNames, AbortedType
       DEF ExcSineStart, MeasureRecord
  <2>2. t' \in Deadlines
    BY <1>15, <1>0, ConstantTypes DEF ExcSineStart, Deadlines
  <2>3. exc' \in ExcitationRecord
    <3>1. m.req.drive \in Drives BY <1>0, RequestTypes DEF MeasureRecord
    <3>2. [mode |-> "SINE", drive |-> m.req.drive,
         err |-> FALSE] \in ExcitationRecord
      BY <3>1 DEF ExcitationRecord
    <3> QED BY <1>0, <1>15, <3>2 DEF ExcSineStart
  <2> QED BY <1>15, <1>0, <2>1, <2>2, <2>3 DEF ExcSineStart, TypeOK
<1>16. CASE PowerRefresh
  <2>1. m' \in MeasureRecord
    <3>1. m.st \in {"EXC_SETTLE", "ADC_DMA_START"} BY <1>16
       DEF PowerRefresh, At
    <3>2. m' = [m EXCEPT !.resume = m.st, !.st = "POWER_RESTORE"]
      BY <1>16 DEF PowerRefresh
    <3> QED BY <1>0, <3>1, <3>2, StateNames DEF MeasureRecord
  <2>2. t' \in Deadlines
    BY <1>16, <1>0, ConstantTypes DEF PowerRefresh, Deadlines
  <2> QED BY <1>16, <1>0, <2>1, <2>2 DEF PowerRefresh, TypeOK
<1>17. CASE ExcSettle
  <2>1. m' \in MeasureRecord
    BY <1>17, <1>0, StateNames, ErrorNames, AbortedType
       DEF ExcSettle, MeasureRecord
  <2> QED BY <1>17, <1>0, <2>1 DEF ExcSettle, TypeOK
<1>18. CASE AdcDmaStart
  <2>1. m' \in MeasureRecord
    BY <1>18, <1>0, StateNames, ErrorNames, AbortedType
       DEF AdcDmaStart, MeasureRecord
  <2>2. t' \in Deadlines
    BY <1>18, <1>0, ConstantTypes DEF AdcDmaStart, Deadlines
  <2>3. adc' \in AdcRecord
    BY <1>18, <1>0 DEF AdcDmaStart, AdcRecord
  <2>4. buf' \in BufferRecord
    BY <1>18, <1>0 DEF AdcDmaStart, BufferRecord
  <2> QED BY <1>18, <1>0, <2>1, <2>2, <2>3, <2>4 DEF AdcDmaStart, TypeOK
<1>19. CASE AdcDmaWait
  <2>1. m' \in MeasureRecord
    <3>1. [m EXCEPT !.done = TRUE, !.st = "ADC_DMA_COMPLETE"] \in MeasureRecord
      BY <1>0, StateNames DEF MeasureRecord
    <3> QED BY <1>0, <1>19, <3>1, ErrorNames, AbortedType DEF AdcDmaWait
  <2> QED BY <1>19, <1>0, <2>1 DEF AdcDmaWait, TypeOK
<1>20. CASE AdcDmaComplete
  <2>1. m' \in MeasureRecord
    BY <1>20, <1>0, StateNames, ErrorNames, AbortedType
       DEF AdcDmaComplete, StopAdc, MeasureRecord
  <2>2. adc' \in AdcRecord
    BY <1>20, <1>0, AdcTypes DEF AdcDmaComplete, StopAdc
  <2> QED BY <1>20, <1>0, <2>1, <2>2 DEF AdcDmaComplete, StopAdc, TypeOK
<1>21. CASE AdcRelease
  <2>1. m' \in MeasureRecord
    BY <1>21, <1>0, StateNames, ErrorNames, AbortedType
       DEF AdcRelease, StopAdc, MeasureRecord
  <2>2. adc' \in AdcRecord
    BY <1>21, <1>0, AdcTypes DEF AdcRelease, StopAdc
  <2> QED BY <1>21, <1>0, <2>1, <2>2 DEF AdcRelease, StopAdc, TypeOK
<1>22. CASE ExcNeutralPostWait
  <2>1. m' \in MeasureRecord
    <3>1. Finalized(m) \in MeasureRecord BY <1>0, FinalizedType
    <3>2. /\ [Finalized(m) EXCEPT !.dumpable = FALSE,
             !.st = "SESSION_HOLD"] \in MeasureRecord
          /\ [m EXCEPT !.st = "K1_SAFE"] \in MeasureRecord
      BY <1>0, <3>1, StateNames DEF MeasureRecord
    <3> QED BY <1>22, <3>2 DEF ExcNeutralPostWait
  <2> QED BY <1>22, <1>0, <2>1 DEF ExcNeutralPostWait, TypeOK
<1>23. CASE K1Safe
  <2>1. m' \in MeasureRecord
    <3>1. [m EXCEPT !.connected = FALSE,
         !.st = "K1_RELEASE_GUARD"] \in MeasureRecord
      BY <1>0, StateNames DEF MeasureRecord
    <3> QED BY <1>0, <1>23, <3>1, ErrorNames, AbortedType DEF K1Safe
  <2>2. t' \in Deadlines
    BY <1>23, <1>0, ConstantTypes DEF K1Safe, Deadlines
  <2>3. k1' \in RelayRecord /\ open' \in 0 .. ReleaseGuard
    BY <1>23, <1>0, RelayType, MoveK1Type DEF K1Safe
  <2>4. faults' \subseteq Faults
    BY <1>23, <1>0, FaultNames DEF K1Safe
  <2> QED BY <1>23, <1>0, <2>1, <2>2, <2>3, <2>4 DEF K1Safe, TypeOK
<1>24. CASE K1ReleaseGuard
  <2>1. m' \in MeasureRecord
    BY <1>24, <1>0, StateNames, ErrorNames, AbortedType
       DEF K1ReleaseGuard, MeasureRecord
  <2> QED BY <1>24, <1>0, <2>1 DEF K1ReleaseGuard, TypeOK
<1>25. CASE ExcOff
  <2>1. m' \in MeasureRecord
    BY <1>25, <1>0, StateNames, ErrorNames, AbortedType
       DEF ExcOff, MeasureRecord
  <2>2. exc' \in ExcitationRecord
    BY <1>25, <1>0, ExcitationTypes DEF ExcOff
  <2> QED BY <1>25, <1>0, <2>1, <2>2 DEF ExcOff, TypeOK
<1>26. CASE RangeDisable
  <2>1. m' \in MeasureRecord
    BY <1>26, <1>0, StateNames, ErrorNames, AbortedType
       DEF RangeDisable, MeasureRecord
  <2>2. rg' \in RangeRecord
    BY <1>26, <1>0, DisablePost DEF RangeDisable
  <2>3. faults' \subseteq Faults
    BY <1>26, <1>0, FaultNames DEF RangeDisable
  <2> QED BY <1>26, <1>0, <2>1, <2>2, <2>3 DEF RangeDisable, TypeOK
<1>27. CASE AdcRestore
  <2>1. m' \in MeasureRecord
    <3>1. [m EXCEPT !.adcOwned = FALSE, !.st = "AUX_RESUME"] \in MeasureRecord
      BY <1>0, StateNames DEF MeasureRecord
    <3> QED BY <1>0, <1>27, <3>1, ErrorNames, AbortedType, RestoreNotedType
            DEF AdcRestore
  <2>2. adc' \in AdcRecord
    BY <1>27, <1>0, AdcTypes DEF AdcRestore
  <2>3. faults' \subseteq Faults
    BY <1>27, <1>0, FaultNames DEF AdcRestore
  <2>4. aux' \in AuxRecord
    BY <1>27, <1>0, AuxTypes DEF AdcRestore
  <2> QED BY <1>27, <1>0, <2>1, <2>2, <2>3, <2>4 DEF AdcRestore, TypeOK
<1>28. CASE AuxResume
  <2>1. m' \in MeasureRecord
    BY <1>28, <1>0, StateNames, ErrorNames, AbortedType
       DEF AuxResume, MeasureRecord
  <2>2. aux' \in AuxRecord
    BY <1>28, <1>0, AuxTypes DEF AuxResume
  <2> QED BY <1>28, <1>0, <2>1, <2>2 DEF AuxResume, TypeOK
<1>29. CASE QuietExit
  <2>1. m' \in MeasureRecord
    BY <1>29, <1>0, StateNames, ErrorNames, AbortedType
       DEF QuietExit, MeasureRecord
  <2> QED BY <1>29, <1>0, <2>1 DEF QuietExit, TypeOK
<1>30. CASE Analyze
  <2>1. m' \in MeasureRecord
    BY <1>30, <1>0, StateNames, FinalizedType DEF Analyze, MeasureRecord
  <2> QED BY <1>30, <1>0, <2>1 DEF Analyze, TypeOK
<1>31. CASE PowerRestore
  <2>1. m' \in MeasureRecord
    <3>1. [m EXCEPT !.adcOwned = FALSE, !.st = "POWER_WAIT"] \in MeasureRecord
      BY <1>0, StateNames DEF MeasureRecord
    <3> QED BY <1>0, <1>31, <3>1, ErrorNames, AbortedType, RestoreNotedType
            DEF PowerRestore
  <2>2. adc' \in AdcRecord
    BY <1>31, <1>0, AdcTypes DEF PowerRestore
  <2>3. faults' \subseteq Faults
    BY <1>31, <1>0, FaultNames DEF PowerRestore
  <2>4. aux' \in AuxRecord
    <3>1. 0 \in Ages BY ConstantTypes DEF Ages
    <3>2. [aux EXCEPT !.power = "SAMPLING", !.group = 0] \in AuxRecord
      BY <1>0, <3>1 DEF AuxRecord
    <3> QED BY <1>0, <1>31, <3>2, AuxTypes DEF PowerRestore
  <2> QED BY <1>31, <1>0, <2>1, <2>2, <2>3, <2>4 DEF PowerRestore, TypeOK
<1>32. CASE PowerWait
  <2>1. m' \in MeasureRecord
    BY <1>32, <1>0, StateNames, ErrorNames, AbortedType
       DEF PowerWait, MeasureRecord
  <2>2. t' \in Deadlines
    <3>1. PICK battery \in Batteries :
            t' = IF SampleAccepted(battery)
                 THEN [t EXCEPT !.batt = BatteryMaxAge - aux.age,
                        !.pdue = IF aux.age < PowerPeriod THEN PowerPeriod - aux.age ELSE 0]
                 ELSE t
      BY <1>32 DEF PowerWait
    <3>2. CASE SampleAccepted(battery)
      <4>1. /\ BatteryMaxAge - aux.age \in Nat
            /\ (IF aux.age < PowerPeriod THEN PowerPeriod - aux.age ELSE 0) \in Nat
        BY <1>0, <3>2, ConstantTypes DEF SampleAccepted, AuxRecord, Ages
      <4> QED BY <1>0, <3>1, <3>2, <4>1 DEF Deadlines
    <3> QED BY <1>0, <3>1, <3>2
  <2> QED BY <1>32, <1>0, <2>1, <2>2 DEF PowerWait, TypeOK
<1>33. CASE PowerAcquire
  <2>1. m' \in MeasureRecord
    <3>1. m.resume \in States BY <1>0, StateNames DEF MeasureRecord
    <3>2. /\ [m EXCEPT !.adcOwned = TRUE] \in MeasureRecord
          /\ [m EXCEPT !.adcOwned = TRUE, !.st = m.resume] \in MeasureRecord
      BY <1>0, <3>1 DEF MeasureRecord
    <3> QED BY <1>33, <3>2, ErrorNames, AbortedType DEF PowerAcquire
  <2>2. t' \in Deadlines
    BY <1>33, <1>0, ConstantTypes DEF PowerAcquire, Deadlines
  <2>3. adc' \in AdcRecord
    BY <1>33, <1>0, AdcTypes DEF PowerAcquire
  <2> QED BY <1>33, <1>0, <2>1, <2>2, <2>3 DEF PowerAcquire, TypeOK
<1>34. CASE AbortStop
  <2>1. m' \in MeasureRecord
    BY <1>34, <1>0, StateNames, PhaseNames DEF AbortStop, MeasureRecord
  <2>2. t' \in Deadlines
    BY <1>34, <1>0, ConstantTypes DEF AbortStop, Deadlines
  <2>3. k1' \in RelayRecord /\ open' \in 0 .. ReleaseGuard
    BY <1>34, <1>0, RelayType, MoveK1Type DEF AbortStop
  <2>4. rg' \in RangeRecord
    BY <1>34, <1>0, DisablePost DEF AbortStop
  <2>5. exc' \in ExcitationRecord
    BY <1>34, <1>0, ExcitationTypes DEF AbortStop
  <2>6. adc' \in AdcRecord
    BY <1>34, <1>0, AdcTypes DEF AbortStop
  <2>7. faults' \subseteq Faults
    BY <1>34, <1>0, FaultNames DEF AbortStop
  <2> QED BY <1>34, <1>0, <2>1, <2>2, <2>3, <2>4, <2>5, <2>6,
       <2>7 DEF AbortStop, TypeOK
<1>35. CASE AbortReleaseGuard
  <2>1. m' \in MeasureRecord
    BY <1>35, <1>0, StateNames, PhaseNames
       DEF AbortReleaseGuard, MeasureRecord
  <2> QED BY <1>35, <1>0, <2>1 DEF AbortReleaseGuard, TypeOK
<1>36. CASE AbortAdcRestore
  <2>1. m' \in MeasureRecord
    <3>1. PICK s \in AdcStatus :
            m' = [RestoreNoted(m, s) EXCEPT !.adcOwned = FALSE,
                    !.phase = IF s = "OK" /\ aux.paused
                              THEN "AUX_RESUME" ELSE "QUIET_OFF"]
            \/ m' = [m EXCEPT !.phase = "QUIET_OFF"]
      BY <1>36 DEF AbortAdcRestore, AdcStatus
    <3>2. RestoreNoted(m, s) \in MeasureRecord BY <1>0, RestoreNotedType
    <3> QED BY <1>0, <3>1, <3>2, PhaseNames DEF MeasureRecord
  <2>2. adc' \in AdcRecord
    BY <1>36, <1>0, AdcTypes DEF AbortAdcRestore
  <2>3. faults' \subseteq Faults
    BY <1>36, <1>0, FaultNames DEF AbortAdcRestore
  <2>4. aux' \in AuxRecord
    BY <1>36, <1>0, AuxTypes DEF AbortAdcRestore
  <2> QED BY <1>36, <1>0, <2>1, <2>2, <2>3, <2>4 DEF AbortAdcRestore, TypeOK
<1>37. CASE AbortAuxResume
  <2>1. m' \in MeasureRecord
    BY <1>37, <1>0, StateNames, PhaseNames DEF AbortAuxResume, MeasureRecord
  <2>2. aux' \in AuxRecord
    BY <1>37, <1>0, AuxTypes DEF AbortAuxResume
  <2> QED BY <1>37, <1>0, <2>1, <2>2 DEF AbortAuxResume, TypeOK
<1>38. CASE AbortQuietOff
  <2>1. m' \in MeasureRecord
    BY <1>38, <1>0, StateNames, PhaseNames DEF AbortQuietOff, MeasureRecord
  <2> QED BY <1>38, <1>0, <2>1 DEF AbortQuietOff, TypeOK
<1>39. CASE Abort
  <2>1. m' \in MeasureRecord
    <3>1. [m EXCEPT !.dumpable = FALSE, !.valid = FALSE,
         !.st = "IDLE"] \in MeasureRecord
      BY <1>0, StateNames DEF MeasureRecord
    <3> QED BY <1>0, <1>39, <3>1, ErrorNames, AbortedType DEF Abort
  <2> QED BY <1>39, <1>0, <2>1 DEF Abort, TypeOK
<1>40. CASE FinishSession
  <2>1. m' \in MeasureRecord
    BY <1>40, <1>0, StateNames, ErrorNames, AbortedType
       DEF FinishSession, MeasureRecord
  <2> QED BY <1>40, <1>0, <2>1 DEF FinishSession, TypeOK
<1>41. CASE Acknowledge
  <2>1. m' \in MeasureRecord
    <3>1. [m EXCEPT !.dumpable = FALSE, !.valid = FALSE] \in MeasureRecord
      BY <1>0 DEF MeasureRecord
    <3>2. [m EXCEPT !.st = "IDLE", !.dumpable = FALSE,
         !.k1Owned = FALSE] \in MeasureRecord
      BY <1>0, StateNames DEF MeasureRecord
    <3> QED BY <1>41, <3>1, <3>2 DEF Acknowledge
  <2> QED BY <1>41, <1>0, <2>1 DEF Acknowledge, TypeOK
<1>42. CASE Supervise
  <2>1. t' \in Deadlines
    BY <1>42, <1>0, SteppedType DEF Supervise
  <2>2. rg' \in RangeRecord
    BY <1>42, <1>0, SteppedType, DisablePost DEF Supervise
  <2>3. k1' \in RelayRecord /\ open' \in 0 .. ReleaseGuard
    BY <1>42, <1>0, RelayType, MoveK1Type DEF Supervise
  <2>4. faults' \subseteq Faults
    BY <1>42, <1>0, FaultNames DEF Supervise
  <2> QED BY <1>42, <1>0, <2>1, <2>2, <2>3, <2>4 DEF Supervise, TypeOK
<1>43. CASE AuxSample
  <2>1. aux' \in AuxRecord
    BY <1>43, <1>0, ConstantTypes DEF AuxSample, AuxRecord, Ages
  <2> QED BY <1>43, <1>0, <2>1 DEF AuxSample, TypeOK
<1>44. CASE PowerSample
  <2>1. aux' \in AuxRecord
    BY <1>44, <1>0 DEF PowerSample, AuxRecord
  <2> QED BY <1>44, <1>0, <2>1 DEF PowerSample, TypeOK
<1>45. CASE AuxFailure
  <2>1. aux' \in AuxRecord
    BY <1>45, <1>0 DEF AuxFailure, AuxRecord
  <2>2. faults' \subseteq Faults
    BY <1>45, <1>0 DEF AuxFailure, Faults
  <2> QED BY <1>45, <1>0, <2>1, <2>2 DEF AuxFailure, TypeOK
<1>46. CASE AdcDmaDone
  <2>1. adc' \in AdcRecord
    BY <1>46, <1>0 DEF AdcDmaDone, AdcRecord
  <2>2. buf' \in BufferRecord
    BY <1>46, <1>0 DEF AdcDmaDone, BufferRecord, RangeRecord, ExcitationRecord
  <2> QED BY <1>46, <1>0, <2>1, <2>2 DEF AdcDmaDone, TypeOK
<1>47. CASE AdcDmaError
  <2>1. adc' \in AdcRecord
    BY <1>47, <1>0 DEF AdcDmaError, AdcRecord
  <2> QED BY <1>47, <1>0, <2>1 DEF AdcDmaError, TypeOK
<1>48. CASE ExcDmaError
  <2>1. exc' \in ExcitationRecord
    BY <1>48, <1>0 DEF ExcDmaError, ExcitationRecord
  <2> QED BY <1>48, <1>0, <2>1 DEF ExcDmaError, TypeOK
<1>49. CASE ChargerChange
  <2>1. charger' \in {"ABSENT", "PRESENT"}
    BY <1>49, <1>0 DEF ChargerChange
  <2> QED BY <1>49, <1>0, <2>1 DEF ChargerChange, TypeOK
<1>50. CASE Tick
  <2>1. \A n \in Nat : Decrement(n) \in Nat BY DEF Decrement
  <2>2. t' \in Deadlines BY <1>0, <1>50, <2>1 DEF Tick, Deadlines
  <2>3. open' \in 0 .. ReleaseGuard
    BY <1>0, <1>50, ConstantTypes DEF Tick, Increment
  <2>4. \A n \in Ages : Increment(n, BatteryMaxAge + 1) \in Ages /\ 0 \in Ages
    BY ConstantTypes DEF Increment, Ages
  <2>5. aux' \in AuxRecord BY <1>0, <1>50, <2>4 DEF Tick, AuxRecord
  <2> QED BY <1>0, <1>50, <2>2, <2>3, <2>5 DEF Tick, TypeOK
<1>51. ASSUME NEW q \in Requests, Continue(q) PROVE TypeOK'
  <2>1. q \in RequestSet BY ConstantTypes
  <2>2. m' \in MeasureRecord
    <3> DEFINE asked == [m EXCEPT !.req = q, !.caps = @ + 1,
                           !.stats = IF q.stat THEN @ + 1 ELSE @,
                           !.valid = FALSE, !.done = FALSE, !.dumpable = FALSE,
                           !.st = IF q.stat /\ SameCondition(q)
                                  THEN "ADC_ACQUIRE" ELSE "RANGE_REQUEST"]
    <3>1. asked \in MeasureRecord
      <4> DEFINE half == [m EXCEPT !.req = q, !.valid = FALSE, !.done = FALSE,
                                   !.dumpable = FALSE]
                 next == IF q.stat /\ SameCondition(q)
                         THEN "ADC_ACQUIRE" ELSE "RANGE_REQUEST"
                 windows == IF q.stat THEN half.stats + 1 ELSE half.stats
      <4>1. half \in MeasureRecord BY <1>0, <2>1 DEF MeasureRecord
      <4>2. asked = [half EXCEPT !.caps = half.caps + 1, !.stats = windows,
                                 !.st = next]
        BY <1>0 DEF MeasureRecord
      <4>3. next \in States BY StateNames
      <4> HIDE DEF half, asked, next
      <4>4. half.caps + 1 \in Nat /\ half.stats \in Nat /\ half.stats + 1 \in Nat
        BY <4>1 DEF MeasureRecord
      <4>5. windows \in Nat BY <4>4
      <4> HIDE DEF windows
      <4>6. [half EXCEPT !.caps = half.caps + 1] \in MeasureRecord
        BY <4>1, <4>4 DEF MeasureRecord
      <4> QED BY <4>1, <4>2, <4>3, <4>4, <4>5 DEF MeasureRecord
    <3> QED BY <1>0, <1>51, <3>1, ErrorNames, AbortedType DEF Continue
  <2> QED BY <1>0, <1>51, <2>2 DEF Continue, TypeOK
<1>52. ASSUME NEW q \in Requests, Start(q) PROVE TypeOK'
  <2>1. q \in RequestSet /\ Cleared \in MeasureRecord BY <1>0, ConstantTypes,
       ClearedType
  <2>2. NoPermit \in PermitRecord BY DEF NoPermit, PermitRecord
  <2>3. permit' \in PermitRecord BY <1>0, <1>52, <2>2 DEF Start
  <2>4. ASSUME NEW error \in Errors, NEW toIdle, NEW putAway,
               RefuseFresh(error, toIdle, putAway)
        PROVE  /\ m' \in MeasureRecord /\ k1' \in RelayRecord
               /\ open' \in 0 .. ReleaseGuard /\ exc' \in ExcitationRecord
    <3>1. m' \in MeasureRecord
      BY <2>1, <2>4, StateNames DEF RefuseFresh, MeasureRecord
    <3>2. CASE putAway
      <4>1. PICK w \in Gpio : MoveK1(K1ForcedSafe(w)) BY <2>4,
           <3>2 DEF RefuseFresh
      <4>2. exc' \in ExcitationRecord
        BY <1>0, <2>4, <3>2, ExcitationTypes DEF RefuseFresh
      <4> QED BY <1>0, <3>1, <4>1, <4>2, RelayType, MoveK1Type
    <3>3. CASE ~putAway BY <1>0, <2>4, <3>1, <3>3 DEF RefuseFresh
    <3> QED BY <3>2, <3>3
  <2>5. [Cleared EXCEPT !.req = q, !.done = FALSE,
       !.st = "FORCE_K1_SAFE"] \in MeasureRecord
    BY <2>1, StateNames DEF MeasureRecord
  <2>6. /\ m' \in MeasureRecord /\ k1' \in RelayRecord
        /\ open' \in 0 .. ReleaseGuard /\ exc' \in ExcitationRecord
    <3>1. CASE \E error \in Errors, toIdle,
         putAway \in BOOLEAN : RefuseFresh(error, toIdle, putAway)
      BY <2>4, <3>1
    <3>2. CASE /\ m' = [Cleared EXCEPT !.req = q, !.done = FALSE,
                                       !.st = "FORCE_K1_SAFE"]
               /\ UNCHANGED <<k1, open, exc>>
      BY <1>0, <2>5, <3>2
    <3> QED BY <1>52, <3>1, <3>2, ErrorNames DEF Start
  <2> QED BY <1>0, <1>52, <2>3, <2>6 DEF Start, TypeOK
<1> QED
  BY <1>1, <1>2, <1>3, <1>4, <1>5, <1>6, <1>7, <1>8, <1>9, <1>10, <1>11,
     <1>12, <1>13, <1>14, <1>15, <1>16, <1>17, <1>18, <1>19, <1>20, <1>21,
     <1>22, <1>23, <1>24, <1>25, <1>26, <1>27, <1>28, <1>29, <1>30, <1>31,
     <1>32, <1>33, <1>34, <1>35, <1>36, <1>37, <1>38, <1>39, <1>40, <1>41,
     <1>42, <1>43, <1>44, <1>45, <1>46, <1>47, <1>48, <1>49, <1>50, <1>51,
     <1>52
  DEF Next, MeasureStep, PrepareStep, ConnectedStep, ReleaseStep, AbortStep,
      Owner, Sampler, Interrupt

(* The transaction's state, and that of everything it drives, stays        *)
(* well-formed, whatever the requests, the timing and the failures.        *)
THEOREM MeasureTypeCorrect == Spec => []TypeOK
<1>1. TypeOK /\ UNCHANGED vars => TypeOK'
  BY DEF vars, TypeOK
<1>2. TypeOK /\ [Next]_vars => TypeOK' BY <1>1, NextType
<1> QED BY InitType, <1>2, PTL DEF Spec

(***************************************************************************)
(* The battery evidence.  The deadline of the connection is bound to the   *)
(* age of the sample, and to that of the group being taken.                *)
(***************************************************************************)
EvidenceInv ==
    /\ t.batt <= BatteryMaxAge
    /\ t.batt = 0 \/ t.batt + aux.age <= BatteryMaxAge
    /\ aux.power = "SAMPLING" =>
          aux.paused /\ (t.batt = 0 \/ t.batt + aux.group <= BatteryMaxAge)

LEMMA EvidenceKept ==
    ASSUME EvidenceInv, t'.batt = t.batt,
           \/ aux' = aux
           \/ TypeOK /\ aux' \in {AuxPaused, AuxResumed} \cup AuxAfterRestore
    PROVE  EvidenceInv'
<1>1. CASE aux' = aux BY <1>1 DEF EvidenceInv
<1>2. CASE TypeOK /\ aux' \in {AuxPaused, AuxResumed} \cup AuxAfterRestore
  <2>1. aux'.age = aux.age /\ (aux'.power = "SAMPLING" => aux' = aux)
    BY <1>2 DEF AuxPaused, AuxResumed, AuxAfterRestore, TypeOK, AuxRecord
  <2> QED BY <2>1 DEF EvidenceInv
<1> QED BY <1>1, <1>2

LEMMA EvidenceStep ==
    ASSUME TypeOK, EvidenceInv, Next
    PROVE  EvidenceInv'
<1>0. t \in Deadlines /\ aux \in AuxRecord BY DEF TypeOK
<1>1. CASE PermitIssue
  <2>1. UNCHANGED aux BY <1>1 DEF PermitIssue
  <2>2. PICK residual \in Residuals, battery \in Batteries :
          t' = IF Issuable(residual, battery)
               THEN [t EXCEPT !.ttl = PermitTtl + 1,
                    !.batt = BatteryMaxAge - aux.age]
               ELSE t
    BY <1>1 DEF PermitIssue
  <2>3. CASE Issuable(residual, battery)
    <3>1. ~aux.paused BY <2>2, <2>3 DEF Issuable, Residuals
    <3>2. t'.batt = BatteryMaxAge - aux.age BY <1>0, <2>2, <2>3 DEF Deadlines
    <3>3. aux.age \in Nat /\ BatteryMaxAge \in Nat
      BY <1>0, ConstantTypes DEF AuxRecord, Ages
    <3> QED BY <2>1, <3>1, <3>2, <3>3 DEF EvidenceInv
  <2>4. CASE ~Issuable(residual, battery) BY <2>1, <2>2, <2>4, EvidenceKept
  <2> QED BY <2>3, <2>4
<1>2. CASE PowerWait
  <2>1. UNCHANGED aux /\ aux.power # "SAMPLING" BY <1>2 DEF PowerWait
  <2>2. PICK battery \in Batteries :
          t' = IF SampleAccepted(battery)
               THEN [t EXCEPT !.batt = BatteryMaxAge - aux.age,
                       !.pdue = IF aux.age < PowerPeriod THEN PowerPeriod - aux.age ELSE 0]
               ELSE t
    BY <1>2 DEF PowerWait
  <2>3. CASE SampleAccepted(battery)
    <3>1. t'.batt = BatteryMaxAge - aux.age BY <1>0, <2>2, <2>3 DEF Deadlines
    <3>2. aux.age \in Nat /\ BatteryMaxAge \in Nat
      BY <1>0, ConstantTypes DEF AuxRecord, Ages
    <3> QED BY <2>1, <3>1, <3>2 DEF EvidenceInv
  <2>4. CASE ~SampleAccepted(battery) BY <2>1, <2>2, <2>4, EvidenceKept
  <2> QED BY <2>3, <2>4
<1>3. CASE PowerRestore
  <2>1. UNCHANGED t BY <1>3 DEF PowerRestore
  <2>2. CASE aux' = [aux EXCEPT !.power = "SAMPLING",
       !.group = 0] /\ PowerBegins
    <3>1. aux'.age = aux.age /\ aux'.group = 0 /\ aux'.paused
      BY <1>0, <2>2 DEF AuxRecord, PowerBegins
    <3>2. t.batt \in Nat BY <1>0 DEF Deadlines
    <3> QED BY <2>1, <3>1, <3>2 DEF EvidenceInv
  <2> QED BY <1>3, <2>1, <2>2, EvidenceKept DEF PowerRestore
<1>4. CASE AuxSample
  <2>1. UNCHANGED t /\ ~aux.paused BY <1>4 DEF AuxSample
  <2>2. aux'.age = 0 /\ aux'.power = aux.power BY <1>0, <1>4
     DEF AuxSample, AuxRecord
  <2> QED BY <1>0, <2>1, <2>2 DEF EvidenceInv, Deadlines
<1>5. CASE PowerSample
  <2>1. UNCHANGED t /\ aux.power = "SAMPLING" BY <1>5 DEF PowerSample
  <2>2. aux'.age = aux.group /\ aux'.power = "READY"
    BY <1>0, <1>5 DEF PowerSample, AuxRecord
  <2> QED BY <2>1, <2>2 DEF EvidenceInv
<1>6. CASE AuxFailure
  <2>1. UNCHANGED t /\ aux'.age = aux.age /\ aux'.power = "NONE"
    BY <1>0, <1>6 DEF AuxFailure, AuxRecord
  <2> QED BY <2>1 DEF EvidenceInv
<1>7. CASE Tick
  <2>1. t'.batt = Decrement(t.batt) BY <1>0, <1>7 DEF Tick, Deadlines
  <2>2. /\ aux'.age = Increment(aux.age, BatteryMaxAge + 1)
        /\ aux'.power = aux.power /\ aux'.paused = aux.paused
        /\ aux.power = "SAMPLING" =>
             aux'.group = Increment(aux.group, BatteryMaxAge + 1)
    BY <1>0, <1>7 DEF Tick, AuxRecord
  <2>3. /\ t.batt \in Nat /\ aux.age \in Nat /\ aux.group \in Nat
        /\ BatteryMaxAge \in Nat
    BY <1>0, ConstantTypes DEF Deadlines, AuxRecord, Ages
  <2>4. t'.batt = 0 \/ (t'.batt = t.batt - 1 /\ t.batt > 0)
    BY <2>1, <2>3 DEF Decrement
  <2>5. \A n \in Nat : Increment(n, BatteryMaxAge + 1) <= n + 1
    BY <2>3 DEF Increment
  <2> QED BY <2>2, <2>3, <2>4, <2>5 DEF EvidenceInv, Increment
<1>8. CASE \/ AuxPause \/ AuxResume \/ AdcRestore \/ AbortAdcRestore \/ AbortAuxResume
  <2>1. UNCHANGED t BY <1>8 DEF AuxPause, AuxResume, AdcRestore,
       AbortAdcRestore, AbortAuxResume
  <2>2. aux' = aux \/ aux' \in {AuxPaused, AuxResumed} \cup AuxAfterRestore
    BY <1>8 DEF AuxPause, AuxResume, AdcRestore, AbortAdcRestore,
         AbortAuxResume
  <2> QED BY <2>1, <2>2, EvidenceKept
<1>9. CASE \/ RequestRange \/ WaitRange \/ ExcNeutral \/ ExcNeutralPost
           \/ K1Request \/ ExcSineStart \/ PowerRefresh \/ AdcDmaStart
           \/ K1Safe \/ PowerAcquire \/ AbortStop \/ Supervise
  <2>1. UNCHANGED aux
    BY <1>9 DEF RequestRange, WaitRange, ExcNeutral, ExcNeutralPost,
         SettleNeutral,
       K1Request, ExcSineStart, PowerRefresh, AdcDmaStart, K1Safe,
            PowerAcquire,
       AbortStop, Supervise
  <2>2. t'.batt = t.batt
    BY <1>0, <1>9 DEF Deadlines, RangeDeadline, EnergiseK1, RequestRange,
         WaitRange,
       ExcNeutral, ExcNeutralPost, SettleNeutral, K1Request, ExcSineStart,
       PowerRefresh, AdcDmaStart, K1Safe, PowerAcquire, AbortStop, Supervise
  <2> QED BY <2>1, <2>2, EvidenceKept
<1>10. CASE UNCHANGED <<t, aux>> BY <1>10, EvidenceKept
<1>11. ASSUME ~(UNCHANGED <<t, aux>>) PROVE
       \/ PermitIssue \/ PowerWait \/ PowerRestore \/ AuxSample \/ PowerSample \/ AuxFailure \/ Tick
       \/ AuxPause \/ AuxResume \/ AdcRestore \/ AbortAdcRestore \/ AbortAuxResume
       \/ RequestRange \/ WaitRange \/ ExcNeutral \/ ExcNeutralPost
           \/ K1Request \/ ExcSineStart \/ PowerRefresh \/ AdcDmaStart
           \/ K1Safe \/ PowerAcquire \/ AbortStop \/ Supervise
  <2>1. RevokedStep \/ ForceK1Safe \/ ExcNeutralWait \/ QuietEnter \/ PermitValidate \/ K1OperateGuard
        \/ AdcAcquire \/ ExcSettle \/ AdcDmaWait \/ AdcDmaComplete \/ ExcNeutralPostWait
        \/ K1ReleaseGuard \/ ExcOff \/ RangeDisable \/ AdcRelease \/ QuietExit \/ Analyze
           => UNCHANGED <<t, aux>>
    BY DEF RevokedStep, ForceK1Safe, ExcNeutralWait, QuietEnter,
         PermitValidate, K1OperateGuard,
        AdcAcquire, ExcSettle, AdcDmaWait, AdcDmaComplete,
             ExcNeutralPostWait, StopAdc,
        K1ReleaseGuard, ExcOff, RangeDisable, AdcRelease, QuietExit, Analyze
  <2>2. AbortReleaseGuard \/ AbortQuietOff \/ Owner \/ Interrupt \/ ChargerChange => UNCHANGED <<t, aux>>
    BY DEF AbortReleaseGuard, AbortQuietOff, Owner, Start, Continue, Abort,
         FinishSession, Acknowledge,
       Interrupt, AdcDmaDone, AdcDmaError, ExcDmaError, ChargerChange
  <2> QED BY <1>11, <2>1, <2>2 DEF Next, MeasureStep, PrepareStep,
       ConnectedStep, ReleaseStep, AbortStep, Sampler
<1> QED BY <1>1, <1>2, <1>3, <1>4, <1>5, <1>6, <1>7, <1>8, <1>9, <1>10, <1>11

(* The connection never outlives its power evidence: through every refresh *)
(* its deadline stays within the age limit of the sample behind it.        *)
THEOREM BatteryDeadlineIsHonest == Spec => []BatteryDeadlineHonest
<1>1. Init => EvidenceInv
  BY ConstantTypes DEF Init, EvidenceInv
<1>2. TypeOK /\ EvidenceInv /\ [Next]_vars => EvidenceInv'
  BY EvidenceStep DEF vars, EvidenceInv
<1>3. EvidenceInv => BatteryDeadlineHonest
  BY DEF EvidenceInv, BatteryDeadlineHonest
<1> QED BY <1>1, <1>2, <1>3, MeasureTypeCorrect, PTL DEF Spec

(***************************************************************************)
(* The authority of the relay.                                             *)
(***************************************************************************)
PermitStates == {"FORCE_K1_SAFE", "PERMIT_ISSUE", "PERMIT_VALIDATE",
     "K1_REQUEST"}
SharedStates ==     \* gone through with the relay open and with it closed
    {"RANGE_REQUEST", "RANGE_WAIT", "EXC_NEUTRAL", "EXC_NEUTRAL_WAIT",
         "QUIET_ENTER"}
ReleasedStates ==
    {"K1_RELEASE_GUARD", "EXC_OFF", "RANGE_DISABLE", "ADC_RELEASE",
     "ADC_RESTORE", "AUX_RESUME", "QUIET_EXIT", "ANALYZE"}

Isolated == (~k1.coil /\ k1.cmd = "SAFE") \/ "K1_IO" \in faults

(* Before the relay is requested the transaction does not own it; once it  *)
(* was released, orderly or by the first phase of an abort, it is open; a  *)
(* validated permit is a spent one.                                        *)
Unowned(r) == r.st \in PermitStates \/ (r.st \in SharedStates /\ ~r.connected)
Released(r) == r.st \in ReleasedStates \/ (r.st = "ABORT" /\ r.phase # "STOP_ADC")

AuthorityInv ==
    /\ ConnectedIsAuthorised
    /\ Unowned(m) => ~m.k1Owned
    /\ Released(m) => Isolated
    /\ m.st = "K1_REQUEST" /\ m.validated => permit.valid /\ permit.consumed
    /\ m.st \in PowerStates => m.resume # "IDLE"

(* A step that touches neither the relay nor the permit. *)
LEMMA AuthorityKept ==
    ASSUME AuthorityInv, k1' = k1, permit' = permit, faults \subseteq faults',
           m'.k1Owned = m.k1Owned, m'.validated = m.validated,
           m.st \notin {"IDLE", "DONE"}, m'.st \notin {"IDLE", "DONE"},
           Unowned(m') => Unowned(m), Released(m') => Released(m),
           m'.st = "K1_REQUEST" => m.st = "K1_REQUEST",
           m'.st \in PowerStates => m'.resume # "IDLE"
    PROVE  AuthorityInv'
BY DEF AuthorityInv, ConnectedIsAuthorised, Isolated, K1Owned, Active

LEMMA AbortedFields ==
    ASSUME NEW r \in MeasureRecord, NEW error
    PROVE  LET q == Aborted(r, error)
           IN  q.st = "ABORT" /\ q.phase = "STOP_ADC" /\ q.k1Owned = r.k1Owned
               /\ q.validated = r.validated
BY DEF Aborted, MeasureRecord

LEMMA NotedFields ==
    ASSUME NEW r \in MeasureRecord, NEW s
    PROVE  LET q == RestoreNoted(r, s)
           IN  q.st = r.st /\ q.phase = r.phase /\ q.k1Owned = r.k1Owned
               /\ q.validated = r.validated
BY DEF RestoreNoted, MeasureRecord

LEMMA AuthorityAborted ==
    ASSUME AuthorityInv, k1' = k1, permit' = permit, faults \subseteq faults',
           m \in MeasureRecord, m.st \notin {"IDLE", "DONE"},
           NEW r \in MeasureRecord, NEW error, m' = Aborted(r, error),
           r.k1Owned = m.k1Owned, r.validated = m.validated
    PROVE  AuthorityInv'
<1>1. m'.st = "ABORT" /\ m'.phase = "STOP_ADC" /\ m'.k1Owned = m.k1Owned
      /\ m'.validated = m.validated
  BY AbortedFields
<1>2. ~Unowned(m') /\ ~Released(m')
          /\ m'.st \notin PowerStates
  BY <1>1 DEF Unowned, Released, PermitStates, SharedStates, ReleasedStates,
              PowerStates
<1> QED BY <1>1, <1>2, AuthorityKept

(* The states between the relay's closing and its opening. *)
ClosedStates ==
    {"AUX_PAUSE", "K1_OPERATE_GUARD", "ADC_ACQUIRE", "EXC_SINE_START",
     "EXC_SETTLE", "ADC_DMA_START", "ADC_DMA_WAIT", "ADC_DMA_COMPLETE",
     "EXC_NEUTRAL_POST", "EXC_NEUTRAL_POST_WAIT", "SESSION_HOLD", "K1_SAFE"}

LEMMA AuthorityClosed ==
    ASSUME AuthorityInv, k1' = k1, permit' = permit, faults \subseteq faults',
           m.st \notin {"IDLE", "DONE"}, m'.k1Owned = m.k1Owned,
           m'.validated = m.validated,
           m'.st \in ClosedStates \/ (m'.st \in PowerStates /\ m'.resume # "IDLE")
    PROVE  AuthorityInv'
<1>1. m'.st \in ClosedStates \cup PowerStates OBVIOUS
<1>2. m'.st \in PowerStates => m'.resume # "IDLE" BY
   DEF ClosedStates, PowerStates
<1>3. ~Unowned(m') /\ ~Released(m') /\ m'.st \notin {"IDLE", "DONE",
     "K1_REQUEST"}
  BY <1>1 DEF ClosedStates, PowerStates, Unowned, Released, PermitStates,
              SharedStates, ReleasedStates
<1> QED BY <1>2, <1>3, AuthorityKept

(* From one state the relay is open in to another. *)
LEMMA AuthorityReleased ==
    ASSUME AuthorityInv, k1' = k1, permit' = permit, faults \subseteq faults',
           m.st \in ReleasedStates,
           m'.st \in ReleasedStates \cup {"DONE"}
    PROVE  AuthorityInv'
BY DEF AuthorityInv, ConnectedIsAuthorised, Isolated, Released, Unowned,
       ReleasedStates, PermitStates, SharedStates, PowerStates

LEMMA AuthorityAuxPause ==
    ASSUME TypeOK, AuthorityInv, AuxPause
    PROVE  AuthorityInv'
<1>0. m \in MeasureRecord BY DEF TypeOK
<1>1. m.st = "AUX_PAUSE" /\ k1' = k1 /\ permit' = permit /\ faults' = faults
  BY DEF AuxPause, At
<1>2. \/ \E error : m' = Aborted(m, error)
      \/ /\ m'.st \in ClosedStates \/ (m'.st \in PowerStates /\ m'.resume # "IDLE")
         /\ m'.k1Owned = m.k1Owned /\ m'.validated = m.validated
  BY <1>0, <1>1 DEF AuxPause, At, MeasureRecord, ClosedStates, PowerStates,
       AuthorityInv
<1> QED BY <1>0, <1>1, <1>2, AuthorityAborted, AuthorityClosed
LEMMA AuthorityK1OperateGuard ==
    ASSUME TypeOK, AuthorityInv, K1OperateGuard
    PROVE  AuthorityInv'
<1>0. m \in MeasureRecord BY DEF TypeOK
<1>1. m.st = "K1_OPERATE_GUARD" /\ k1' = k1 /\ permit' = permit /\ faults' = faults
  BY DEF K1OperateGuard, At
<1>2. \/ \E error : m' = Aborted(m, error)
      \/ /\ m'.st \in ClosedStates \/ (m'.st \in PowerStates /\ m'.resume # "IDLE")
         /\ m'.k1Owned = m.k1Owned /\ m'.validated = m.validated
  BY <1>0, <1>1 DEF K1OperateGuard, At, MeasureRecord, ClosedStates,
       PowerStates, AuthorityInv
<1> QED BY <1>0, <1>1, <1>2, AuthorityAborted, AuthorityClosed
LEMMA AuthorityExcSineStart ==
    ASSUME TypeOK, AuthorityInv, ExcSineStart
    PROVE  AuthorityInv'
<1>0. m \in MeasureRecord BY DEF TypeOK
<1>1. m.st = "EXC_SINE_START" /\ k1' = k1 /\ permit' = permit /\ faults' = faults
  BY DEF ExcSineStart, At
<1>2. \/ \E error : m' = Aborted(m, error)
      \/ /\ m'.st \in ClosedStates \/ (m'.st \in PowerStates /\ m'.resume # "IDLE")
         /\ m'.k1Owned = m.k1Owned /\ m'.validated = m.validated
  BY <1>0, <1>1 DEF ExcSineStart, At, MeasureRecord, ClosedStates,
       PowerStates, AuthorityInv
<1> QED BY <1>0, <1>1, <1>2, AuthorityAborted, AuthorityClosed
LEMMA AuthorityExcSettle ==
    ASSUME TypeOK, AuthorityInv, ExcSettle
    PROVE  AuthorityInv'
<1>0. m \in MeasureRecord BY DEF TypeOK
<1>1. m.st = "EXC_SETTLE" /\ k1' = k1 /\ permit' = permit /\ faults' = faults
  BY DEF ExcSettle, At
<1>2. \/ \E error : m' = Aborted(m, error)
      \/ /\ m'.st \in ClosedStates \/ (m'.st \in PowerStates /\ m'.resume # "IDLE")
         /\ m'.k1Owned = m.k1Owned /\ m'.validated = m.validated
  BY <1>0, <1>1 DEF ExcSettle, At, MeasureRecord, ClosedStates, PowerStates,
       AuthorityInv
<1> QED BY <1>0, <1>1, <1>2, AuthorityAborted, AuthorityClosed
LEMMA AuthorityAdcDmaStart ==
    ASSUME TypeOK, AuthorityInv, AdcDmaStart
    PROVE  AuthorityInv'
<1>0. m \in MeasureRecord BY DEF TypeOK
<1>1. m.st = "ADC_DMA_START" /\ k1' = k1 /\ permit' = permit /\ faults' = faults
  BY DEF AdcDmaStart, At
<1>2. \/ \E error : m' = Aborted(m, error)
      \/ /\ m'.st \in ClosedStates \/ (m'.st \in PowerStates /\ m'.resume # "IDLE")
         /\ m'.k1Owned = m.k1Owned /\ m'.validated = m.validated
  BY <1>0, <1>1 DEF AdcDmaStart, At, MeasureRecord, ClosedStates,
       PowerStates, AuthorityInv
<1> QED BY <1>0, <1>1, <1>2, AuthorityAborted, AuthorityClosed
LEMMA AuthorityAdcDmaWait ==
    ASSUME TypeOK, AuthorityInv, AdcDmaWait
    PROVE  AuthorityInv'
<1>0. m \in MeasureRecord BY DEF TypeOK
<1>1. m.st = "ADC_DMA_WAIT" /\ k1' = k1 /\ permit' = permit /\ faults' = faults
  BY DEF AdcDmaWait, At
<1>2. \/ \E error : m' = Aborted(m, error)
      \/ /\ m'.st \in ClosedStates \/ (m'.st \in PowerStates /\ m'.resume # "IDLE")
         /\ m'.k1Owned = m.k1Owned /\ m'.validated = m.validated
  BY <1>0, <1>1 DEF AdcDmaWait, At, MeasureRecord, ClosedStates, PowerStates,
       AuthorityInv
<1> QED BY <1>0, <1>1, <1>2, AuthorityAborted, AuthorityClosed
LEMMA AuthorityAdcDmaComplete ==
    ASSUME TypeOK, AuthorityInv, AdcDmaComplete
    PROVE  AuthorityInv'
<1>0. m \in MeasureRecord BY DEF TypeOK
<1>1. m.st = "ADC_DMA_COMPLETE" /\ k1' = k1 /\ permit' = permit /\ faults' = faults
  BY DEF AdcDmaComplete, StopAdc, At
<1>2. \/ \E error : m' = Aborted(m, error)
      \/ /\ m'.st \in ClosedStates \/ (m'.st \in PowerStates /\ m'.resume # "IDLE")
         /\ m'.k1Owned = m.k1Owned /\ m'.validated = m.validated
  BY <1>0, <1>1 DEF AdcDmaComplete, StopAdc, At, MeasureRecord, ClosedStates,
       PowerStates, AuthorityInv
<1> QED BY <1>0, <1>1, <1>2, AuthorityAborted, AuthorityClosed
LEMMA AuthorityExcNeutralPost ==
    ASSUME TypeOK, AuthorityInv, ExcNeutralPost
    PROVE  AuthorityInv'
<1>0. m \in MeasureRecord BY DEF TypeOK
<1>1. m.st = "EXC_NEUTRAL_POST" /\ k1' = k1 /\ permit' = permit /\ faults' = faults
  BY DEF ExcNeutralPost, SettleNeutral, At
<1>2. \/ \E error : m' = Aborted(m, error)
      \/ /\ m'.st \in ClosedStates \/ (m'.st \in PowerStates /\ m'.resume # "IDLE")
         /\ m'.k1Owned = m.k1Owned /\ m'.validated = m.validated
  BY <1>0, <1>1 DEF ExcNeutralPost, SettleNeutral, At, MeasureRecord,
       ClosedStates, PowerStates, AuthorityInv
<1> QED BY <1>0, <1>1, <1>2, AuthorityAborted, AuthorityClosed
LEMMA AuthorityPowerWait ==
    ASSUME TypeOK, AuthorityInv, PowerWait
    PROVE  AuthorityInv'
<1>0. m \in MeasureRecord BY DEF TypeOK
<1>1. m.st = "POWER_WAIT" /\ k1' = k1 /\ permit' = permit /\ faults' = faults
  BY DEF PowerWait, At
<1>2. \/ \E error : m' = Aborted(m, error)
      \/ /\ m'.st \in ClosedStates \/ (m'.st \in PowerStates /\ m'.resume # "IDLE")
         /\ m'.k1Owned = m.k1Owned /\ m'.validated = m.validated
  BY <1>0, <1>1 DEF PowerWait, At, MeasureRecord, ClosedStates, PowerStates,
       AuthorityInv
<1> QED BY <1>0, <1>1, <1>2, AuthorityAborted, AuthorityClosed
LEMMA AuthorityFinishSession ==
    ASSUME TypeOK, AuthorityInv, FinishSession
    PROVE  AuthorityInv'
<1>0. m \in MeasureRecord BY DEF TypeOK
<1>1. m.st = "SESSION_HOLD" /\ k1' = k1 /\ permit' = permit /\ faults' = faults
  BY DEF FinishSession, At
<1>2. \/ \E error : m' = Aborted(m, error)
      \/ /\ m'.st \in ClosedStates \/ (m'.st \in PowerStates /\ m'.resume # "IDLE")
         /\ m'.k1Owned = m.k1Owned /\ m'.validated = m.validated
  BY <1>0, <1>1 DEF FinishSession, At, MeasureRecord, ClosedStates,
       PowerStates, AuthorityInv
<1> QED BY <1>0, <1>1, <1>2, AuthorityAborted, AuthorityClosed
LEMMA AuthorityExcOff ==
    ASSUME TypeOK, AuthorityInv, ExcOff
    PROVE  AuthorityInv'
<1>0. m \in MeasureRecord BY DEF TypeOK
<1>1. m.st = "EXC_OFF" /\ k1' = k1 /\ permit' = permit /\ faults \subseteq faults'
  BY DEF ExcOff, At
<1>2. (\E error : m' = Aborted(m, error)) \/ m'.st \in ReleasedStates
  BY <1>0 DEF ExcOff, MeasureRecord, ReleasedStates
<1>3. m.st \in ReleasedStates BY <1>1 DEF ReleasedStates
<1> QED BY <1>0, <1>1, <1>2, <1>3, AuthorityAborted, AuthorityReleased
LEMMA AuthorityRangeDisable ==
    ASSUME TypeOK, AuthorityInv, RangeDisable
    PROVE  AuthorityInv'
<1>0. m \in MeasureRecord BY DEF TypeOK
<1>1. m.st = "RANGE_DISABLE" /\ k1' = k1 /\ permit' = permit /\ faults \subseteq faults'
  BY DEF RangeDisable, At
<1>2. (\E error : m' = Aborted(m, error)) \/ m'.st \in ReleasedStates
  BY <1>0 DEF RangeDisable, MeasureRecord, ReleasedStates
<1>3. m.st \in ReleasedStates BY <1>1 DEF ReleasedStates
<1> QED BY <1>0, <1>1, <1>2, <1>3, AuthorityAborted, AuthorityReleased
LEMMA AuthorityAdcRelease ==
    ASSUME TypeOK, AuthorityInv, AdcRelease
    PROVE  AuthorityInv'
<1>0. m \in MeasureRecord BY DEF TypeOK
<1>1. m.st = "ADC_RELEASE" /\ k1' = k1 /\ permit' = permit /\ faults \subseteq faults'
  BY DEF AdcRelease, StopAdc, At
<1>2. (\E error : m' = Aborted(m, error)) \/ m'.st \in ReleasedStates
  BY <1>0 DEF AdcRelease, StopAdc, MeasureRecord, ReleasedStates
<1>3. m.st \in ReleasedStates BY <1>1 DEF ReleasedStates
<1> QED BY <1>0, <1>1, <1>2, <1>3, AuthorityAborted, AuthorityReleased
LEMMA AuthorityAuxResume ==
    ASSUME TypeOK, AuthorityInv, AuxResume
    PROVE  AuthorityInv'
<1>0. m \in MeasureRecord BY DEF TypeOK
<1>1. m.st = "AUX_RESUME" /\ k1' = k1 /\ permit' = permit /\ faults \subseteq faults'
  BY DEF AuxResume, At
<1>2. (\E error : m' = Aborted(m, error)) \/ m'.st \in ReleasedStates
  BY <1>0 DEF AuxResume, MeasureRecord, ReleasedStates
<1>3. m.st \in ReleasedStates BY <1>1 DEF ReleasedStates
<1> QED BY <1>0, <1>1, <1>2, <1>3, AuthorityAborted, AuthorityReleased
LEMMA AuthorityQuietExit ==
    ASSUME TypeOK, AuthorityInv, QuietExit
    PROVE  AuthorityInv'
<1>0. m \in MeasureRecord BY DEF TypeOK
<1>1. m.st = "QUIET_EXIT" /\ k1' = k1 /\ permit' = permit /\ faults \subseteq faults'
  BY DEF QuietExit, At
<1>2. (\E error : m' = Aborted(m, error)) \/ m'.st \in ReleasedStates
  BY <1>0 DEF QuietExit, MeasureRecord, ReleasedStates
<1>3. m.st \in ReleasedStates BY <1>1 DEF ReleasedStates
<1> QED BY <1>0, <1>1, <1>2, <1>3, AuthorityAborted, AuthorityReleased
LEMMA AuthorityK1ReleaseGuard ==
    ASSUME TypeOK, AuthorityInv, K1ReleaseGuard
    PROVE  AuthorityInv'
<1>0. m \in MeasureRecord BY DEF TypeOK
<1>1. m.st = "K1_RELEASE_GUARD" /\ k1' = k1 /\ permit' = permit /\ faults \subseteq faults'
  BY DEF K1ReleaseGuard, At
<1>2. (\E error : m' = Aborted(m, error)) \/ m'.st \in ReleasedStates
  BY <1>0 DEF K1ReleaseGuard, MeasureRecord, ReleasedStates
<1>3. m.st \in ReleasedStates BY <1>1 DEF ReleasedStates
<1> QED BY <1>0, <1>1, <1>2, <1>3, AuthorityAborted, AuthorityReleased

LEMMA AuthorityForceK1Safe ==
    ASSUME TypeOK, AuthorityInv, ForceK1Safe
    PROVE  AuthorityInv'
<1>0. m \in MeasureRecord /\ k1 \in RelayRecord BY DEF TypeOK
<1>1. PICK w \in Gpio :
        /\ k1' = K1ForcedSafe(w)
        /\ faults' = faults \cup Latch("K1_IO", w # "OK")
        /\ m' = IF w = "OK" THEN [m EXCEPT !.st = "RANGE_REQUEST"] ELSE Aborted(m, "K1")
  BY DEF ForceK1Safe, MoveK1
<1>2. permit' = permit /\ m.st = "FORCE_K1_SAFE" BY DEF ForceK1Safe, At
<1>3. ~m.k1Owned BY <1>2 DEF AuthorityInv, Unowned, PermitStates
<1>4. ~m'.k1Owned /\ m'.st \in {"RANGE_REQUEST", "ABORT"}
      /\ (m'.st = "ABORT" => m'.phase = "STOP_ADC")
  BY <1>0, <1>1, <1>3, AbortedFields DEF MeasureRecord
<1>5. w = "OK" => k1' = [cmd |-> "SAFE", coil |-> FALSE]
  BY <1>1 DEF K1ForcedSafe
<1>6. w # "OK" => "K1_IO" \in faults' BY <1>1 DEF Latch
<1> QED BY <1>4, <1>5, <1>6 DEF AuthorityInv, ConnectedIsAuthorised, Unowned,
        Released, PermitStates, SharedStates, ReleasedStates, PowerStates

(* The states shared by the first capture and by a continuation. *)
LEMMA AuthorityShared ==
    ASSUME TypeOK, AuthorityInv,
           RequestRange \/ WaitRange \/ ExcNeutral \/ ExcNeutralWait \/ QuietEnter
    PROVE  AuthorityInv'
<1>0. m \in MeasureRecord BY DEF TypeOK
<1>1. m.st \in SharedStates /\ k1' = k1 /\ permit' = permit /\ faults' = faults
  BY DEF RequestRange, WaitRange, ExcNeutral, SettleNeutral, ExcNeutralWait,
         QuietEnter, At, SharedStates
<1>2. \/ \E error : m' = Aborted(m, error)
      \/ /\ m'.k1Owned = m.k1Owned /\ m'.validated = m.validated
         /\ m'.connected = m.connected
         /\ \/ m'.st \in SharedStates
            \/ m'.st = "ADC_ACQUIRE"
            \/ m'.st = "PERMIT_ISSUE" /\ ~m.connected
  BY <1>0, <1>1 DEF RequestRange, WaitRange, ExcNeutral, SettleNeutral,
         ExcNeutralWait, QuietEnter, At, SharedStates, MeasureRecord
<1>3. m.st \notin {"IDLE", "DONE"} BY <1>1 DEF SharedStates
<1>4. CASE \E error : m' = Aborted(m, error)
  BY <1>0, <1>1, <1>3, <1>4, AuthorityAborted
<1>5. CASE /\ m'.k1Owned = m.k1Owned /\ m'.validated = m.validated
           /\ m'.connected = m.connected
           /\ \/ m'.st \in SharedStates
              \/ m'.st = "ADC_ACQUIRE"
              \/ m'.st = "PERMIT_ISSUE" /\ ~m.connected
  <2>1. /\ m'.st \notin {"IDLE", "DONE", "K1_REQUEST"}
        /\ m'.st \notin PowerStates /\ ~Released(m')
    BY <1>5 DEF SharedStates, PowerStates, Released, ReleasedStates
  <2>2. Unowned(m') => Unowned(m)
    BY <1>1, <1>5 DEF Unowned, SharedStates, PermitStates
  <2> QED BY <1>1, <1>3, <1>5, <2>1, <2>2, AuthorityKept
<1> QED BY <1>2, <1>4, <1>5

LEMMA AuthorityPermit ==
    ASSUME TypeOK, AuthorityInv, PermitIssue \/ PermitValidate
    PROVE  AuthorityInv'
<1>0. m \in MeasureRecord BY DEF TypeOK
<1>1. /\ m.st \in {"PERMIT_ISSUE", "PERMIT_VALIDATE"}
      /\ k1' = k1 /\ faults' = faults
  BY DEF PermitIssue, PermitValidate, At
<1>2. ~m.k1Owned BY <1>1 DEF AuthorityInv, Unowned, PermitStates
<1>3. Isolated'
  BY <1>0, <1>1, <1>2 DEF AuthorityInv, ConnectedIsAuthorised, K1Owned,
       Isolated, TypeOK, RelayRecord
<1>4. ~m'.k1Owned /\ m'.st \in {"PERMIT_VALIDATE", "K1_REQUEST", "ABORT"}
  <2>1. \/ m' = [m EXCEPT !.st = "PERMIT_VALIDATE"]
        \/ m' = [m EXCEPT !.validated = TRUE, !.st = "K1_REQUEST"]
        \/ m' = Aborted(m, "PERMIT")
    BY DEF PermitIssue, PermitValidate
  <2>2. CASE m' = Aborted(m, "PERMIT") BY <1>0, <1>2, <2>2, AbortedFields
  <2>3. CASE m' # Aborted(m, "PERMIT") BY <1>0, <1>2, <2>1,
       <2>3 DEF MeasureRecord
  <2> QED BY <2>2, <2>3
<1>5. m'.st = "K1_REQUEST" => permit'.valid /\ permit'.consumed
  <2>1. SUFFICES ASSUME m'.st = "K1_REQUEST" PROVE permit'.valid /\ permit'.consumed
    OBVIOUS
  <2>2. PermitValidate /\ PermitAllows
    BY <1>0, <2>1, AbortedFields DEF PermitIssue, PermitValidate, MeasureRecord
  <2>3. permit \in PermitRecord BY DEF TypeOK
  <2> QED BY <2>2, <2>3 DEF PermitValidate, PermitAllows, PermitRecord
<1> QED BY <1>3, <1>4, <1>5 DEF AuthorityInv, ConnectedIsAuthorised,
     Isolated, PowerStates

LEMMA AuthorityK1Request ==
    ASSUME TypeOK, AuthorityInv, K1Request
    PROVE  AuthorityInv'
<1>0. m \in MeasureRecord /\ k1 \in RelayRecord BY DEF TypeOK
<1>1. m.st = "K1_REQUEST" /\ permit' = permit BY DEF K1Request, At
<1>2. ~m.k1Owned BY <1>1 DEF AuthorityInv, Unowned, PermitStates
<1>3. Isolated
  BY <1>0, <1>2 DEF AuthorityInv, ConnectedIsAuthorised, K1Owned, Isolated,
       RelayRecord
<1>4. CASE \E w \in Gpio : EnergiseK1(w) /\ m.validated
  <2>1. PICK w \in Gpio : EnergiseK1(w) /\ m.validated BY <1>4
  <2>2. faults' = faults \cup Latch("K1_IO", w # "OK") BY <2>1 DEF EnergiseK1
  <2>3. CASE w = "OK"
    <3>1. /\ m'.st = "AUX_PAUSE" /\ m'.k1Owned /\ m'.validated
      BY <1>0, <2>1, <2>3 DEF EnergiseK1, MeasureRecord
    <3>2. permit'.valid /\ permit'.consumed BY <1>1, <2>1 DEF AuthorityInv
    <3> QED BY <3>1, <3>2 DEF AuthorityInv, ConnectedIsAuthorised, K1Owned,
         Active,
            Unowned, Released, PermitStates, SharedStates, ReleasedStates,
                 PowerStates
  <2>4. CASE w # "OK"
    <3>1. "K1_IO" \in faults' BY <2>2, <2>4 DEF Latch
    <3>2. m' = Aborted(m, "K1") BY <2>1, <2>4 DEF EnergiseK1
    <3>3. m'.st = "ABORT" /\ m'.phase = "STOP_ADC" BY <1>0, <3>2, AbortedFields
    <3> QED BY <3>1, <3>3 DEF AuthorityInv, ConnectedIsAuthorised,
            Unowned, Released, PermitStates, SharedStates, ReleasedStates,
                 PowerStates
  <2> QED BY <2>3, <2>4
<1>5. CASE ~\E w \in Gpio : EnergiseK1(w) /\ m.validated
  <2>1. PICK w \in Gpio :
          /\ k1' = K1ForcedSafe(w) \/ (k1' = k1 /\ ~m.validated)
          /\ faults' = faults \cup Latch("K1_IO", m.validated)
          /\ \E error : m' = Aborted(m, error)
    BY <1>5 DEF K1Request, MoveK1
  <2>2. /\ m'.st = "ABORT" /\ m'.phase = "STOP_ADC" BY <1>0, <2>1,
           AbortedFields
  <2>3. Isolated'
    <3>1. faults \subseteq faults' BY <2>1
    <3>2. ~k1.coil /\ k1.cmd = "SAFE" => ~k1'.coil /\ k1'.cmd = "SAFE"
      BY <1>0, <2>1 DEF K1ForcedSafe, RelayRecord
    <3> QED BY <1>3, <3>1, <3>2 DEF Isolated
  <2> QED BY <2>2, <2>3 DEF AuthorityInv, ConnectedIsAuthorised, Isolated,
            Unowned, Released, PermitStates, SharedStates, ReleasedStates,
                 PowerStates
<1> QED BY <1>4, <1>5

LEMMA AuthorityAdcAcquire ==
    ASSUME TypeOK, AuthorityInv, AdcAcquire
    PROVE  AuthorityInv'
<1>0. m \in MeasureRecord BY DEF TypeOK
<1>1. m.st = "ADC_ACQUIRE" /\ k1' = k1 /\ permit' = permit /\ faults' = faults
  BY DEF AdcAcquire, At
<1>2. CASE m' = [m EXCEPT !.adcOwned = TRUE, !.st = "EXC_SINE_START"]
  <2>1. m'.k1Owned = m.k1Owned /\ m'.validated = m.validated /\ m'.st = "EXC_SINE_START"
    BY <1>0, <1>2 DEF MeasureRecord
  <2> QED BY <1>1, <2>1, AuthorityClosed DEF ClosedStates
<1>3. CASE m' = Aborted([m EXCEPT !.adcOwned = TRUE], "ADC_ACQUIRE")
  <2> DEFINE r == [m EXCEPT !.adcOwned = TRUE]
  <2>1. r \in MeasureRecord /\ r.k1Owned = m.k1Owned /\ r.validated = m.validated
    BY <1>0 DEF MeasureRecord
  <2>2. m' = Aborted(r, "ADC_ACQUIRE") BY <1>3
  <2> HIDE DEF r
  <2> QED BY <1>0, <1>1, <2>1, <2>2, AuthorityAborted
<1> QED BY <1>2, <1>3 DEF AdcAcquire

LEMMA AuthorityPowerAcquire ==
    ASSUME TypeOK, AuthorityInv, PowerAcquire
    PROVE  AuthorityInv'
<1>0. m \in MeasureRecord BY DEF TypeOK
<1>1. m.st = "POWER_ACQUIRE" /\ k1' = k1 /\ permit' = permit /\ faults' = faults
  BY DEF PowerAcquire, At
<1>2. CASE m' = [m EXCEPT !.adcOwned = TRUE, !.st = m.resume]
  <2>1. m'.k1Owned = m.k1Owned /\ m'.validated = m.validated /\ m'.st = m.resume
    BY <1>0, <1>2 DEF MeasureRecord
  <2>2. m.resume \in {"EXC_SETTLE", "ADC_DMA_START"}
    BY <1>0, <1>1 DEF AuthorityInv, PowerStates, MeasureRecord
  <2> QED BY <1>1, <2>1, <2>2, AuthorityClosed DEF ClosedStates
<1>3. CASE m' = Aborted([m EXCEPT !.adcOwned = TRUE], "ADC_ACQUIRE")
  <2> DEFINE r == [m EXCEPT !.adcOwned = TRUE]
  <2>1. r \in MeasureRecord /\ r.k1Owned = m.k1Owned /\ r.validated = m.validated
    BY <1>0 DEF MeasureRecord
  <2>2. m' = Aborted(r, "ADC_ACQUIRE") BY <1>3
  <2> HIDE DEF r
  <2> QED BY <1>0, <1>1, <2>1, <2>2, AuthorityAborted
<1> QED BY <1>2, <1>3 DEF PowerAcquire

LEMMA AuthorityRefreshOrHold ==
    ASSUME TypeOK, AuthorityInv, PowerRefresh \/ ExcNeutralPostWait
    PROVE  AuthorityInv'
<1>0. m \in MeasureRecord BY DEF TypeOK
<1>1. /\ m.st \in {"EXC_SETTLE", "ADC_DMA_START", "EXC_NEUTRAL_POST_WAIT"}
      /\ k1' = k1 /\ permit' = permit /\ faults' = faults
  BY DEF PowerRefresh, ExcNeutralPostWait, At
<1>2. /\ m'.k1Owned = m.k1Owned /\ m'.validated = m.validated
      /\ m'.st \in ClosedStates \/ (m'.st \in PowerStates /\ m'.resume # "IDLE")
  <2>1. CASE PowerRefresh
    <3>1. m' = [m EXCEPT !.resume = m.st, !.st = "POWER_RESTORE"]
      BY <2>1 DEF PowerRefresh
    <3> QED BY <1>0, <1>1, <3>1 DEF MeasureRecord, PowerStates
  <2>2. CASE ExcNeutralPostWait
    <3>1. Finalized(m).k1Owned = m.k1Owned /\ Finalized(m).validated = m.validated
      BY <1>0 DEF Finalized, MeasureRecord
    <3>2. Finalized(m) \in MeasureRecord BY <1>0, FinalizedType
    <3> QED BY <1>0, <2>2, <3>1, <3>2 DEF ExcNeutralPostWait, MeasureRecord,
         ClosedStates
  <2> QED BY <2>1, <2>2
<1> QED BY <1>1, <1>2, AuthorityClosed

LEMMA AuthorityRestore ==
    ASSUME TypeOK, AuthorityInv, PowerRestore \/ AdcRestore
    PROVE  AuthorityInv'
<1>0. m \in MeasureRecord BY DEF TypeOK
<1>1. /\ m.st \in {"POWER_RESTORE", "ADC_RESTORE"}
      /\ k1' = k1 /\ permit' = permit /\ faults \subseteq faults'
  BY DEF PowerRestore, AdcRestore, At
<1>2. CASE \E s, error : m' = Aborted(RestoreNoted(m, s), error)
  <2>1. PICK s, error : m' = Aborted(RestoreNoted(m, s), error) BY <1>2
  <2> QED BY <1>0, <1>1, <2>1, RestoreNotedType, NotedFields, AuthorityAborted
<1>3. CASE m.st = "POWER_RESTORE" /\ m' = [m EXCEPT !.adcOwned = FALSE,
     !.st = "POWER_WAIT"]
  <2>1. /\ m'.k1Owned = m.k1Owned /\ m'.validated = m.validated
        /\ m'.st = "POWER_WAIT" /\ m'.resume = m.resume
    BY <1>0, <1>3 DEF MeasureRecord
  <2> QED BY <1>1, <1>3, <2>1, AuthorityClosed DEF AuthorityInv, PowerStates
<1>4. CASE m.st = "ADC_RESTORE" /\ m' = [m EXCEPT !.adcOwned = FALSE,
     !.st = "AUX_RESUME"]
  <2>1. m'.st = "AUX_RESUME" BY <1>0, <1>4 DEF MeasureRecord
  <2> QED BY <1>1, <1>4, <2>1, AuthorityReleased DEF ReleasedStates
<1> QED BY <1>2, <1>3, <1>4 DEF PowerRestore, AdcRestore, At

LEMMA AuthorityK1Safe ==
    ASSUME TypeOK, AuthorityInv, K1Safe
    PROVE  AuthorityInv'
<1>0. m \in MeasureRecord BY DEF TypeOK
<1>1. PICK w \in Gpio :
        /\ k1' = K1ForcedSafe(w)
        /\ faults' = faults \cup Latch("K1_IO", w # "OK")
        /\ m' = IF w = "OK" THEN [m EXCEPT !.connected = FALSE,
             !.st = "K1_RELEASE_GUARD"]
                ELSE Aborted(m, "K1")
  BY DEF K1Safe, MoveK1
<1>2. m'.st \in {"K1_RELEASE_GUARD", "ABORT"} BY <1>0, <1>1,
     AbortedFields DEF MeasureRecord
<1>3. Isolated' BY <1>1 DEF Isolated, K1ForcedSafe, Latch
<1> QED BY <1>2, <1>3 DEF AuthorityInv, ConnectedIsAuthorised, Isolated,
     Unowned,
        PermitStates, SharedStates, PowerStates

LEMMA AuthorityAnalyze ==
    ASSUME TypeOK, AuthorityInv, Analyze
    PROVE  AuthorityInv'
<1>0. m \in MeasureRecord BY DEF TypeOK
<1>1. m'.st = "DONE" BY <1>0, FinalizedType DEF Analyze, MeasureRecord
<1> QED BY <1>1, AuthorityReleased DEF Analyze, At, ReleasedStates

LEMMA AuthorityAbortStep ==
    ASSUME TypeOK, AuthorityInv, AbortStep
    PROVE  AuthorityInv'
<1>0. m \in MeasureRecord BY DEF TypeOK
<1>1. m.st = "ABORT" /\ permit' = permit /\ faults \subseteq faults'
  BY DEF AbortStep, AbortStop, AbortReleaseGuard, AbortAdcRestore,
       AbortAuxResume, AbortQuietOff, In
<1>2. Isolated'
  <2>1. CASE AbortStop
    <3>1. PICK w \in Gpio : /\ k1' = K1ForcedSafe(w)
                            /\ w # "OK" => "K1_IO" \in faults'
      BY <2>1 DEF AbortStop, MoveK1, Latch
    <3> QED BY <3>1 DEF Isolated, K1ForcedSafe
  <2>2. CASE ~AbortStop
    <3>1. m.phase # "STOP_ADC" /\ k1' = k1
      BY <2>2 DEF AbortStep, AbortReleaseGuard, AbortAdcRestore,
           AbortAuxResume, AbortQuietOff, In
    <3> QED BY <1>1, <3>1 DEF AuthorityInv, Isolated, Released
  <2> QED BY <2>1, <2>2
<1>3. m'.st \in {"ABORT", "IDLE"}
  <2>1. CASE AbortAdcRestore
    <3>1. PICK s \in {"OK", "ERROR"} :
            \/ \E next : m' = [RestoreNoted(m, s) EXCEPT !.adcOwned = FALSE,
                 !.phase = next]
            \/ m' = [m EXCEPT !.phase = "QUIET_OFF"]
      BY <2>1 DEF AbortAdcRestore, AdcStatus
    <3>2. RestoreNoted(m, s) \in MeasureRecord /\ RestoreNoted(m,
         s).st = "ABORT"
      BY <1>0, <1>1, RestoreNotedType, NotedFields
    <3> QED BY <1>0, <1>1, <3>1, <3>2 DEF MeasureRecord
  <2>2. CASE ~AbortAdcRestore
    BY <1>0, <1>1, <2>2 DEF AbortStep, AbortStop, AbortReleaseGuard,
       AbortAuxResume, AbortQuietOff, MeasureRecord
  <2> QED BY <2>1, <2>2
<1> QED BY <1>2, <1>3 DEF AuthorityInv, ConnectedIsAuthorised, Isolated,
     Unowned,
        PermitStates, SharedStates, PowerStates

LEMMA AuthorityStart ==
    ASSUME TypeOK, AuthorityInv, NEW q \in Requests, Start(q)
    PROVE  AuthorityInv'
<1>0. m \in MeasureRecord /\ k1 \in RelayRecord /\ Cleared \in MeasureRecord
  BY ClearedType DEF TypeOK
<1>1. m.st \in {"IDLE", "DONE"} /\ faults' = faults BY DEF Start, Active
<1>2. Isolated BY <1>0, <1>1 DEF AuthorityInv, ConnectedIsAuthorised,
     K1Owned, Active, Isolated, RelayRecord
<1>3. k1' = k1 \/ \E w \in Gpio : k1' = K1ForcedSafe(w)
  BY DEF Start, RefuseFresh, MoveK1
<1>4. Isolated' BY <1>0, <1>1, <1>2, <1>3
   DEF Isolated, K1ForcedSafe, RelayRecord
<1>5. ~Cleared.k1Owned /\ Cleared.st = m.st BY <1>0 DEF Cleared, MeasureRecord
<1>6. m'.st \in {"IDLE", "DONE", "FORCE_K1_SAFE"} /\ ~m'.k1Owned
  BY <1>0, <1>1, <1>5 DEF Start, RefuseFresh, MeasureRecord
<1> QED BY <1>4, <1>6 DEF AuthorityInv, ConnectedIsAuthorised, Isolated,
     PowerStates

LEMMA AuthorityContinue ==
    ASSUME TypeOK, AuthorityInv, NEW q \in Requests, Continue(q)
    PROVE  AuthorityInv'
<1>0. m \in MeasureRecord BY DEF TypeOK
<1>1. m.st = "SESSION_HOLD" /\ k1' = k1 /\ permit' = permit /\ faults' = faults
  BY DEF Continue
<1>2. CASE ~ContinuationAllowed(q)
  <2>1. m' = Aborted(m, "PERMIT") BY <1>2 DEF Continue
  <2> QED BY <1>0, <1>1, <2>1, AuthorityAborted
<1>3. CASE ContinuationAllowed(q)
  <2>1. m.connected BY <1>3 DEF ContinuationAllowed
  <2>2. /\ m'.k1Owned = m.k1Owned /\ m'.validated = m.validated
        /\ m'.connected /\ m'.st \in {"ADC_ACQUIRE", "RANGE_REQUEST"}
    BY <1>0, <1>3, <2>1 DEF Continue, MeasureRecord
  <2>3. ~Unowned(m') /\ ~Released(m') /\ m'.st \notin PowerStates
    BY <2>2 DEF Unowned, Released, PermitStates, SharedStates,
         ReleasedStates, PowerStates
  <2> QED BY <1>1, <2>2, <2>3, AuthorityKept
<1> QED BY <1>2, <1>3

LEMMA AuthorityAbort ==
    ASSUME TypeOK, AuthorityInv, Abort
    PROVE  AuthorityInv'
<1>0. m \in MeasureRecord BY DEF TypeOK
<1>1. /\ m.st # "IDLE" /\ k1' = k1 /\ permit' = permit /\ faults' = faults
      /\ m' = (IF m.st = "DONE"
               THEN [m EXCEPT !.dumpable = FALSE, !.valid = FALSE,
                    !.st = "IDLE"]
               ELSE Aborted(m, "ABORT"))
  BY DEF Abort
<1>2. CASE m.st = "DONE"
  <2>1. m'.st = "IDLE" BY <1>1, <1>2 DEF MeasureRecord
  <2> QED BY <1>1, <1>2, <2>1 DEF AuthorityInv, ConnectedIsAuthorised,
       K1Owned, Active,
          Unowned, Released, PermitStates, SharedStates, ReleasedStates,
               PowerStates
<1>3. CASE m.st # "DONE" BY <1>0, <1>1, <1>3, AuthorityAborted
<1> QED BY <1>2, <1>3

LEMMA AuthorityAcknowledge ==
    ASSUME TypeOK, AuthorityInv, Acknowledge
    PROVE  AuthorityInv'
<1>0. m \in MeasureRecord BY DEF TypeOK
<1>1. k1' = k1 /\ permit' = permit /\ faults' = faults BY DEF Acknowledge
<1>2. CASE m.st = "SESSION_HOLD"
  <2>1. m'.k1Owned = m.k1Owned /\ m'.validated = m.validated /\ m'.st = "SESSION_HOLD"
    BY <1>0, <1>2 DEF Acknowledge, MeasureRecord
  <2> QED BY <1>1, <1>2, <2>1, AuthorityClosed DEF ClosedStates
<1>3. CASE m.st \in {"DONE", "IDLE"}
  <2>1. m'.st = "IDLE" BY <1>0, <1>3 DEF Acknowledge, MeasureRecord
  <2> QED BY <1>1, <1>3, <2>1 DEF AuthorityInv, ConnectedIsAuthorised,
       K1Owned, Active,
          Unowned, Released, PermitStates, SharedStates, ReleasedStates,
               PowerStates
<1> QED BY <1>2, <1>3 DEF Acknowledge

LEMMA AuthoritySupervise ==
    ASSUME TypeOK, AuthorityInv, Supervise
    PROVE  AuthorityInv'
<1>0. k1 \in RelayRecord BY DEF TypeOK
<1>1. UNCHANGED <<m, permit>> /\ faults \subseteq faults' BY DEF Supervise
<1>2. CASE k1' = k1 BY <1>1, <1>2 DEF AuthorityInv, ConnectedIsAuthorised,
     K1Owned, Active, Isolated
<1>3. CASE k1' # k1
  <2>1. ~K1Owned /\ \E w \in Gpio : k1' = K1ForcedSafe(w)
    BY <1>3 DEF Supervise, MoveK1
  <2>2. Isolated BY <1>0, <2>1 DEF AuthorityInv, ConnectedIsAuthorised,
       Isolated, RelayRecord
  <2>3. Isolated' BY <1>0, <1>1, <2>1, <2>2
     DEF Isolated, K1ForcedSafe, RelayRecord
  <2> QED BY <1>1, <2>3 DEF AuthorityInv, ConnectedIsAuthorised, Isolated
<1> QED BY <1>2, <1>3

LEMMA AuthorityOthers ==
    ASSUME AuthorityInv, UNCHANGED <<m, permit, k1>>, faults \subseteq faults'
    PROVE  AuthorityInv'
BY DEF AuthorityInv, ConnectedIsAuthorised, K1Owned, Active, Isolated

LEMMA AuthorityStep ==
    ASSUME TypeOK, AuthorityInv, Next
    PROVE  AuthorityInv'
<1>0. m \in MeasureRecord BY DEF TypeOK
<1>1. CASE RevokedStep BY <1>0, <1>1, AuthorityAborted DEF RevokedStep, Active
<1>2. CASE PrepareStep
  BY <1>2, AuthorityForceK1Safe, AuthorityShared, AuthorityPermit,
     AuthorityK1Request DEF PrepareStep
<1>3. CASE ConnectedStep
  BY <1>3, AuthorityAuxPause, AuthorityK1OperateGuard, AuthorityAdcAcquire,
     AuthorityExcSineStart, AuthorityExcSettle, AuthorityAdcDmaStart,
     AuthorityAdcDmaWait, AuthorityAdcDmaComplete, AuthorityExcNeutralPost,
     AuthorityRefreshOrHold, AuthorityRestore, AuthorityPowerWait,
     AuthorityPowerAcquire DEF ConnectedStep
<1>4. CASE ReleaseStep
  BY <1>4, AuthorityK1Safe, AuthorityK1ReleaseGuard, AuthorityExcOff,
     AuthorityRangeDisable, AuthorityAdcRelease, AuthorityRestore,
     AuthorityAuxResume, AuthorityQuietExit, AuthorityAnalyze DEF ReleaseStep
<1>5. CASE AbortStep BY <1>5, AuthorityAbortStep
<1>6. CASE Owner
  BY <1>6, AuthorityStart, AuthorityContinue, AuthorityAbort,
     AuthorityFinishSession, AuthorityAcknowledge DEF Owner
<1>7. CASE Supervise BY <1>7, AuthoritySupervise
<1>8. CASE Sampler \/ Interrupt \/ ChargerChange \/ Tick
  <2>1. UNCHANGED <<m, permit, k1>> /\ faults \subseteq faults'
    BY <1>8 DEF Sampler, AuxSample, PowerSample, AuxFailure, Interrupt,
       AdcDmaDone, AdcDmaError, ExcDmaError, ChargerChange, Tick
  <2> QED BY <2>1, AuthorityOthers
<1> QED BY <1>1, <1>2, <1>3, <1>4, <1>5, <1>6, <1>7, <1>8 DEF Next, MeasureStep

LEMMA AuthorityAlways == Spec => []AuthorityInv
<1>1. Init => AuthorityInv
  BY DEF Init, AuthorityInv, ConnectedIsAuthorised, Unowned, Released,
         PermitStates, SharedStates, ReleasedStates, PowerStates
<1>2. TypeOK /\ AuthorityInv /\ [Next]_vars => AuthorityInv'
  <2>1. AuthorityInv /\ UNCHANGED vars => AuthorityInv'
    BY AuthorityOthers DEF vars
  <2> QED BY <2>1, AuthorityStep
<1> QED BY <1>1, <1>2, MeasureTypeCorrect, PTL DEF Spec

(* The relay connects the terminals only inside a transaction that owns it *)
(* and spent a permit for it; the only other way it can be found closed is *)
(* a failed relay write, which is latched and stops everything else.       *)
THEOREM RelayConnectedIsAuthorised == Spec => []ConnectedIsAuthorised
<1>1. AuthorityInv => ConnectedIsAuthorised BY DEF AuthorityInv
<1> QED BY <1>1, AuthorityAlways, PTL
-----------------------------------------------------------------------------
(***************************************************************************)
(* The effect of each action, field by field: what the invariants below    *)
(* read of it.                                                             *)
(***************************************************************************)
Carried(q, r) ==    \* what neither a move nor an abort touches
    /\ q.quiet = r.quiet /\ q.k1Owned = r.k1Owned /\ q.k1Reached = r.k1Reached
    /\ q.connected = r.connected /\ q.done = r.done /\ q.req = r.req
    /\ q.resume = r.resume
Custody(q, r) == q.adcOwned = r.adcOwned /\ q.restoreFailed = r.restoreFailed
Moved(to) ==
    /\ m'.st = to /\ m'.phase = m.phase /\ Carried(m', m) /\ Custody(m', m)
    /\ m'.err = m.err /\ m'.guard = m.guard /\ m'.valid = m.valid
Fell ==
    /\ m'.st = "ABORT" /\ m'.phase = "STOP_ADC" /\ Carried(m', m)
    /\ m'.err # "OK" /\ m'.guard = m.k1Reached /\ ~m'.valid

LEMMA AbortedEffect ==
    ASSUME NEW r \in MeasureRecord, NEW error \in Errors \ {"OK"},
           NEW q, q = Aborted(r, error)
    PROVE  /\ q.st = "ABORT" /\ q.phase = "STOP_ADC" /\ Carried(q, r)
           /\ Custody(q, r) /\ q.err # "OK" /\ q.guard = r.k1Reached /\ ~q.valid
BY DEF Aborted, MeasureRecord, Carried, Custody

LEMMA FellBy ==
    ASSUME m \in MeasureRecord, NEW error \in Errors \ {"OK"}, m' = Aborted(m, error)
    PROVE  Fell /\ Custody(m', m)
BY AbortedEffect DEF Fell

LEMMA MovedBy ==
    ASSUME m \in MeasureRecord, NEW to, m' = [m EXCEPT !.st = to]
    PROVE  Moved(to)
BY DEF MeasureRecord, Moved, Carried, Custody

(* The relay driven safe: an open contact stays open, and keeps its clock. *)
Safer ==
    /\ ~k1.coil => ~k1'.coil /\ open' = open
    /\ k1'.coil => k1.coil
LEMMA ForcedSafeEffect ==
    ASSUME k1 \in RelayRecord, NEW w, MoveK1(K1ForcedSafe(w))
    PROVE  Safer /\ (w = "OK" => ~k1'.coil)
BY DEF MoveK1, K1ForcedSafe, RelayRecord, Safer

LEMMA StoppedEffect ==
    ASSUME adc \in AdcRecord, NEW q, q = AdcStopped(adc)
    PROVE  q.owner = adc.owner /\ q.dma # "RUN"
BY DEF AdcRecord, AdcStopped

LEMMA RestoredEffect ==
    ASSUME adc \in AdcRecord, NEW s, NEW q, q = AdcRestored(s)
    PROVE  q.owner = (IF s = "OK" THEN "AUX" ELSE "DOWN") /\ q.dma # "RUN"
<1>1. AdcStopped(adc) \in AdcRecord BY AdcTypes
<1>2. AdcStopped(adc).dma # "RUN" BY StoppedEffect
<1> QED BY <1>1, <1>2 DEF AdcRestored, AdcRecord

LEMMA SamplerEffect ==
    ASSUME aux \in AuxRecord, NEW q \in AuxAfterRestore
    PROVE  /\ q.paused = aux.paused
           /\ q.power = "SAMPLING" => aux.power = "SAMPLING"
           /\ q.power = "ORPHANED" => aux.power \in {"SAMPLING", "ORPHANED"}
           /\ aux.power = "NONE" => q.power = "NONE"
BY DEF AuxAfterRestore, AuxRecord

(* hw_range_step: what has begun to settle has its enable line high. *)
Stepped ==
    \/ rg' = rg
    \/ /\ rg.fsm = "DEAD_TIME" /\ rg'.fsm \in {"SETTLING", "INVALID"}
       /\ rg'.fsm = "SETTLING" => rg'.line /\ rg'.enabled
    \/ /\ rg.fsm = "SETTLING" /\ rg'.fsm = "READY"
       /\ rg'.line = rg.line /\ rg'.enabled = rg.enabled
LEMMA SteppedEffect ==
    ASSUME rg \in RangeRecord, NEW e, rg' = RangeStepped(e)
    PROVE  Stepped
<1>1. CASE t.range = 0
  <2>1. rg' = RangeElapsed(rg, e) BY <1>1 DEF RangeStepped
  <2> QED BY <2>1, ElapsedPost DEF Stepped
<1> QED BY <1>1 DEF RangeStepped, Stepped

LEMMA SteppedTime ==
    ASSUME t \in Deadlines, NEW e, t' = RangeDeadline(e)
    PROVE  t'.wait = t.wait /\ t'.resume = t.resume
BY DEF RangeDeadline, Deadlines

LEMMA SafetyReady ==
    ASSUME RangeSafetyState(rg) = "READY"
    PROVE  rg.fsm = "READY" /\ rg.enabled
BY DEF RangeSafetyState

LEMMA RevokedStepEffect ==
    ASSUME TypeOK, RevokedStep
    PROVE  /\ m.st \notin {"IDLE", "DONE", "ABORT"} /\ Fell /\ Custody(m', m)
           /\ UNCHANGED <<permit, t, k1, rg, exc, adc, aux, faults, buf, open>>
BY FellBy, ErrorNames DEF RevokedStep, Active, TypeOK

LEMMA ForceK1SafeEffect ==
    ASSUME TypeOK, ForceK1Safe
    PROVE  /\ m.st = "FORCE_K1_SAFE" /\ Safer /\ faults \subseteq faults'
           /\ \/ Moved("RANGE_REQUEST") /\ ~k1'.coil
              \/ Fell /\ Custody(m', m) /\ "K1_IO" \in faults'
           /\ UNCHANGED <<permit, t, rg, exc, adc, aux, buf>>
<1>0. m \in MeasureRecord /\ k1 \in RelayRecord BY DEF TypeOK
<1>1. PICK w \in Gpio :
        /\ MoveK1(K1ForcedSafe(w))
        /\ faults' = faults \cup Latch("K1_IO", w # "OK")
        /\ m' = IF w = "OK" THEN [m EXCEPT !.st = "RANGE_REQUEST"] ELSE Aborted(m, "K1")
  BY DEF ForceK1Safe
<1>2. Safer /\ (w = "OK" => ~k1'.coil) BY <1>0, <1>1, ForcedSafeEffect
<1>3. CASE w = "OK" BY <1>0, <1>1, <1>2, <1>3, MovedBy DEF ForceK1Safe, At
<1>4. CASE w # "OK"
  <2>1. Fell /\ Custody(m', m) BY <1>0, <1>1, <1>4, FellBy, ErrorNames
  <2> QED BY <1>1, <1>2, <1>4, <2>1 DEF ForceK1Safe, At, Latch
<1> QED BY <1>3, <1>4

LEMMA RequestRangeEffect ==
    ASSUME TypeOK, RequestRange
    PROVE  /\ m.st = "RANGE_REQUEST"
           /\ \/ Moved("RANGE_WAIT") /\ rg'.fsm = "DEAD_TIME"
              \/ Fell /\ Custody(m', m) /\ rg'.fsm = "INVALID"
           /\ UNCHANGED <<permit, k1, exc, adc, aux, faults, buf, open>>
<1>0. m \in MeasureRecord /\ rg \in RangeRecord BY DEF TypeOK
<1>1. rg'.fsm \in {"DEAD_TIME", "INVALID"} BY <1>0, RequestPost DEF RequestRange
<1>2. CASE rg'.fsm = "DEAD_TIME" BY <1>0, <1>2, MovedBy DEF RequestRange, At
<1>3. CASE rg'.fsm = "INVALID"
  <2>1. Fell /\ Custody(m', m) BY <1>0, <1>3, FellBy, ErrorNames DEF RequestRange
  <2> QED BY <1>3, <2>1 DEF RequestRange, At
<1> QED BY <1>1, <1>2, <1>3

LEMMA WaitRangeEffect ==
    ASSUME TypeOK, WaitRange
    PROVE  /\ m.st = "RANGE_WAIT" /\ Stepped
           /\ \/ Moved("RANGE_WAIT")
              \/ Moved("EXC_NEUTRAL") /\ rg'.fsm = "READY" /\ rg'.current = m.req.range
              \/ Fell /\ Custody(m', m)
           /\ UNCHANGED <<permit, k1, exc, adc, aux, faults, buf, open>>
<1>0. m \in MeasureRecord /\ rg \in RangeRecord /\ m.st = "RANGE_WAIT"
  BY DEF TypeOK, WaitRange, At
<1>1. Stepped BY <1>0, SteppedEffect DEF WaitRange
<1>2. \/ m' = [m EXCEPT !.st = "RANGE_WAIT"]
      \/ /\ m' = [m EXCEPT !.st = "EXC_NEUTRAL"]
         /\ rg'.fsm = "READY" /\ rg'.current = m.req.range
      \/ m' = Aborted(m, "RANGE")
  BY <1>0 DEF WaitRange, RangeIsReady, MeasureRecord
<1>3. CASE m' = Aborted(m, "RANGE")
  BY <1>0, <1>1, <1>3, FellBy, ErrorNames DEF WaitRange
<1> QED BY <1>0, <1>1, <1>2, <1>3, MovedBy DEF WaitRange

LEMMA SettleNeutralEffect ==
    ASSUME TypeOK, NEW from, NEW to, SettleNeutral(from, to)
    PROVE  /\ m.st = from /\ Moved(to) /\ exc'.mode = "NEUTRAL"
           /\ UNCHANGED <<permit, k1, rg, adc, aux, faults, buf, open>>
BY MovedBy DEF SettleNeutral, At, ExcitationNeutral, TypeOK

LEMMA ExcNeutralWaitEffect ==
    ASSUME TypeOK, ExcNeutralWait
    PROVE  /\ m.st = "EXC_NEUTRAL_WAIT" /\ Moved("QUIET_ENTER")
           /\ UNCHANGED <<permit, t, k1, rg, exc, adc, aux, faults, buf, open>>
BY MovedBy DEF ExcNeutralWait, At, TypeOK

LEMMA QuietEnterEffect ==
    ASSUME TypeOK, QuietEnter
    PROVE  /\ m.st = "QUIET_ENTER"
           /\ m'.st = (IF m.connected THEN "ADC_ACQUIRE" ELSE "PERMIT_ISSUE")
           /\ m'.quiet
           /\ m'.k1Owned = m.k1Owned /\ m'.k1Reached = m.k1Reached
           /\ m'.connected = m.connected /\ m'.done = m.done
           /\ m'.req = m.req /\ m'.resume = m.resume
           /\ Custody(m', m)
           /\ m'.phase = m.phase /\ m'.err = m.err /\ m'.guard = m.guard
           /\ m'.valid = m.valid
           /\ UNCHANGED <<permit, t, k1, rg, exc, adc, aux, faults, buf, open>>
BY DEF QuietEnter, At, TypeOK, MeasureRecord, Carried, Custody

LEMMA PermitIssueEffect ==
    ASSUME TypeOK, PermitIssue
    PROVE  /\ m.st = "PERMIT_ISSUE"
           /\ \/ /\ Moved("PERMIT_VALIDATE") /\ rg.fsm = "READY"
                 /\ permit'.range = rg.current
              \/ Fell /\ Custody(m', m)
           /\ UNCHANGED <<k1, rg, exc, adc, aux, faults, buf, open>>
<1>0. m \in MeasureRecord BY DEF TypeOK
<1>1. PICK residual \in Residuals : \E battery \in Batteries :
        IF Issuable(residual, battery)
        THEN /\ permit' = [valid |-> TRUE, consumed |-> FALSE, range |-> rg.current]
             /\ m' = [m EXCEPT !.st = "PERMIT_VALIDATE"]
        ELSE m' = Aborted(m, "PERMIT")
  BY DEF PermitIssue
<1>2. PICK battery \in Batteries :
        IF Issuable(residual, battery)
        THEN /\ permit' = [valid |-> TRUE, consumed |-> FALSE, range |-> rg.current]
             /\ m' = [m EXCEPT !.st = "PERMIT_VALIDATE"]
        ELSE m' = Aborted(m, "PERMIT")
  BY <1>1
<1>3. CASE Issuable(residual, battery)
  BY <1>0, <1>2, <1>3, MovedBy, SafetyReady DEF PermitIssue, At, Issuable
<1>4. CASE ~Issuable(residual, battery)
  <2>1. Fell /\ Custody(m', m) BY <1>0, <1>2, <1>4, FellBy, ErrorNames
  <2> QED BY <2>1 DEF PermitIssue, At
<1> QED BY <1>3, <1>4

LEMMA PermitValidateEffect ==
    ASSUME TypeOK, PermitValidate
    PROVE  /\ m.st = "PERMIT_VALIDATE" /\ permit'.range = permit.range
           /\ Moved("K1_REQUEST") \/ (Fell /\ Custody(m', m))
           /\ UNCHANGED <<t, k1, rg, exc, adc, aux, faults, buf, open>>
<1>0. m \in MeasureRecord /\ permit \in PermitRecord BY DEF TypeOK
<1>1. permit'.range = permit.range BY <1>0 DEF PermitValidate, PermitRecord
<1>2. CASE PermitAllows
  <2>1. Moved("K1_REQUEST")
    BY <1>0, <1>2 DEF PermitValidate, MeasureRecord, Moved, Carried, Custody
  <2> QED BY <1>1, <2>1 DEF PermitValidate, At
<1>3. CASE ~PermitAllows
  <2>1. Fell /\ Custody(m', m) BY <1>0, <1>3, FellBy, ErrorNames DEF PermitValidate
  <2> QED BY <1>1, <2>1 DEF PermitValidate, At
<1> QED BY <1>2, <1>3

LEMMA K1RequestEffect ==
    ASSUME TypeOK, K1Request
    PROVE  /\ m.st = "K1_REQUEST" /\ faults \subseteq faults'
           /\ \/ /\ m'.st = "AUX_PAUSE" /\ m'.phase = m.phase /\ m'.k1Owned
                 /\ m'.k1Reached /\ m'.connected = Holds(m.req) /\ Custody(m', m)
                 /\ m'.quiet = m.quiet /\ m'.done = m.done /\ m'.req = m.req
                 /\ m'.resume = m.resume /\ m'.err = m.err /\ m'.guard = m.guard
                 /\ m'.valid = m.valid /\ k1'.cmd = "MEASURE"
              \/ /\ Fell /\ Custody(m', m)
                 /\ "K1_IO" \in faults' \/ UNCHANGED <<k1, open>>
           /\ UNCHANGED <<permit, rg, exc, adc, aux, buf>>
<1>0. m \in MeasureRecord BY DEF TypeOK
<1>1. CASE \E w \in Gpio : EnergiseK1(w)
  <2>1. PICK w \in Gpio : EnergiseK1(w) BY <1>1
  <2>2. CASE w = "OK"
    <3>1. m' = [m EXCEPT !.k1Owned = TRUE, !.k1Reached = TRUE,
                    !.connected = Holds(m.req), !.caps = 1, !.st = "AUX_PAUSE"]
      BY <2>1, <2>2 DEF EnergiseK1, Holds
    <3>2. k1'.cmd = "MEASURE" BY <2>1, <2>2 DEF EnergiseK1, MoveK1, K1Energised
    <3> QED BY <1>0, <2>1, <3>1, <3>2
        DEF K1Request, At, EnergiseK1, MeasureRecord, Custody, Holds
  <2>3. CASE w # "OK"
    <3>1. m' = Aborted(m, "K1") /\ "K1_IO" \in faults'
      BY <2>1, <2>3 DEF EnergiseK1, Latch
    <3>2. Fell /\ Custody(m', m) BY <1>0, <3>1, FellBy, ErrorNames
    <3> QED BY <2>1, <3>1, <3>2 DEF K1Request, At, EnergiseK1
  <2> QED BY <2>2, <2>3
<1>2. CASE ~\E w \in Gpio : EnergiseK1(w)
  <2>1. /\ m.validated \/ UNCHANGED <<k1, open>>
        /\ faults' = faults \cup Latch("K1_IO", m.validated)
        /\ m' = Aborted(m, "K1") \/ m' = Aborted(m, "PERMIT")
    BY <1>2 DEF K1Request
  <2>2. Fell /\ Custody(m', m) BY <1>0, <2>1, FellBy, ErrorNames
  <2> QED BY <2>1, <2>2 DEF K1Request, At, Latch
<1> QED BY <1>1, <1>2

LEMMA AuxPauseEffect ==
    ASSUME TypeOK, AuxPause
    PROVE  /\ m.st = "AUX_PAUSE" /\ Moved("K1_OPERATE_GUARD")
           /\ aux'.paused /\ aux'.power = "NONE"
           /\ UNCHANGED <<permit, t, k1, rg, exc, adc, faults, buf, open>>
BY MovedBy DEF AuxPause, At, TypeOK, AuxPaused, AuxRecord

LEMMA K1OperateGuardEffect ==
    ASSUME TypeOK, K1OperateGuard
    PROVE  /\ m.st = "K1_OPERATE_GUARD" /\ Moved("ADC_ACQUIRE")
           /\ UNCHANGED <<permit, t, k1, rg, exc, adc, aux, faults, buf, open>>
BY MovedBy DEF K1OperateGuard, At, TypeOK

(* The converter taken for metrology, or left uninitialised.               *)
Taken(to) ==
    \/ /\ m'.st = to /\ m'.phase = m.phase /\ Carried(m', m) /\ m'.adcOwned
       /\ m'.restoreFailed = m.restoreFailed /\ m'.err = m.err
       /\ m'.guard = m.guard /\ m'.valid = m.valid
       /\ adc'.owner = "METROLOGY" /\ adc'.dma = "IDLE"
    \/ /\ Fell /\ m'.adcOwned /\ m'.restoreFailed = m.restoreFailed
       /\ adc'.owner = "DOWN" /\ adc'.dma = "IDLE"

LEMMA TakenBy ==
    ASSUME m \in MeasureRecord, NEW to, NEW s, adc' = AdcAcquired(s),
           m' = IF s = "OK" THEN [m EXCEPT !.adcOwned = TRUE, !.st = to]
                ELSE Aborted([m EXCEPT !.adcOwned = TRUE], "ADC_ACQUIRE")
    PROVE  Taken(to)
<1>1. CASE s = "OK"
  BY <1>1 DEF Taken, AdcAcquired, MeasureRecord, Carried
<1>2. CASE s # "OK"
  <2> DEFINE r == [m EXCEPT !.adcOwned = TRUE]
  <2>1. r \in MeasureRecord /\ r.adcOwned /\ Carried(r, m) /\ r.k1Reached = m.k1Reached
        /\ r.restoreFailed = m.restoreFailed
    BY DEF MeasureRecord, Carried
  <2>2. m' = Aborted(r, "ADC_ACQUIRE") BY <1>2
  <2> HIDE DEF r
  <2>3. /\ m'.st = "ABORT" /\ m'.phase = "STOP_ADC" /\ Carried(m', r) /\ Custody(m', r)
        /\ m'.err # "OK" /\ m'.guard = r.k1Reached /\ ~m'.valid
    BY <2>1, <2>2, AbortedEffect, ErrorNames
  <2> QED BY <1>2, <2>1, <2>3 DEF Taken, Fell, AdcAcquired, Carried, Custody
<1> QED BY <1>1, <1>2

LEMMA AdcAcquireEffect ==
    ASSUME TypeOK, AdcAcquire
    PROVE  /\ m.st = "ADC_ACQUIRE" /\ Taken("EXC_SINE_START")
           /\ UNCHANGED <<permit, t, k1, rg, exc, aux, faults, buf, open>>
BY TakenBy DEF AdcAcquire, At, TypeOK

LEMMA ExcSineStartEffect ==
    ASSUME TypeOK, ExcSineStart
    PROVE  /\ m.st = "EXC_SINE_START"
           /\ \/ /\ Moved("EXC_SETTLE") /\ exc'.mode = "SINE"
                 /\ exc'.drive = m.req.drive
              \/ Fell /\ Custody(m', m) /\ exc' = exc
           /\ UNCHANGED <<permit, k1, rg, adc, aux, faults, buf, open>>
<1>1. CASE exc.mode = "NEUTRAL"
  BY <1>1, MovedBy DEF ExcSineStart, At, TypeOK
<1>2. CASE exc.mode # "NEUTRAL"
  BY <1>2, FellBy, ErrorNames DEF ExcSineStart, At, TypeOK
<1> QED BY <1>1, <1>2

LEMMA PowerRefreshEffect ==
    ASSUME TypeOK, PowerRefresh
    PROVE  /\ m.st \in {"EXC_SETTLE", "ADC_DMA_START"}
           /\ m'.st = "POWER_RESTORE" /\ m'.resume = m.st /\ m'.phase = m.phase
           /\ m'.quiet = m.quiet /\ m'.k1Owned = m.k1Owned
           /\ m'.k1Reached = m.k1Reached /\ m'.connected = m.connected
           /\ m'.done = m.done /\ m'.req = m.req /\ Custody(m', m)
           /\ m'.err = m.err /\ m'.guard = m.guard /\ m'.valid = m.valid
           /\ t'.resume = t.wait /\ t'.wait = t.wait
           /\ UNCHANGED <<permit, k1, rg, exc, adc, aux, faults, buf, open>>
BY DEF PowerRefresh, At, TypeOK, MeasureRecord, Deadlines, Custody

LEMMA ExcSettleEffect ==
    ASSUME TypeOK, ExcSettle
    PROVE  /\ m.st = "EXC_SETTLE"
           /\ Moved("ADC_DMA_START") \/ (Fell /\ Custody(m', m))
           /\ UNCHANGED <<permit, t, k1, rg, exc, adc, aux, faults, buf, open>>
<1>1. CASE exc.err BY <1>1, FellBy, ErrorNames DEF ExcSettle, At, TypeOK
<1>2. CASE ~exc.err BY <1>2, MovedBy DEF ExcSettle, At, TypeOK
<1> QED BY <1>1, <1>2

LEMMA AdcDmaStartEffect ==
    ASSUME TypeOK, AdcDmaStart
    PROVE  /\ m.st = "ADC_DMA_START"
           /\ \/ /\ Moved("ADC_DMA_WAIT") /\ adc.owner = "METROLOGY"
                 /\ adc'.owner = "METROLOGY" /\ adc'.dma = "RUN"
              \/ Fell /\ Custody(m', m) /\ UNCHANGED <<adc, buf>>
           /\ UNCHANGED <<permit, k1, rg, exc, aux, faults, open>>
<1>1. CASE adc.owner = "METROLOGY"
  BY <1>1, MovedBy DEF AdcDmaStart, At, TypeOK, AdcRecord
<1>2. CASE adc.owner # "METROLOGY"
  BY <1>2, FellBy, ErrorNames DEF AdcDmaStart, At, TypeOK
<1> QED BY <1>1, <1>2

LEMMA AdcDmaWaitEffect ==
    ASSUME TypeOK, AdcDmaWait
    PROVE  /\ m.st = "ADC_DMA_WAIT"
           /\ \/ Moved("ADC_DMA_WAIT")
              \/ /\ m'.st = "ADC_DMA_COMPLETE" /\ m'.done
                 /\ m'.phase = m.phase
                 /\ m'.quiet = m.quiet /\ m'.k1Owned = m.k1Owned
                 /\ m'.k1Reached = m.k1Reached /\ m'.connected = m.connected
                 /\ m'.req = m.req /\ m'.resume = m.resume
                 /\ Custody(m', m) /\ m'.err = m.err /\ m'.guard = m.guard
                 /\ m'.valid = m.valid
                 /\ adc.dma = "DONE" /\ ~exc.err
                 /\ k1.cmd = "MEASURE" => rg.fsm = "READY"
              \/ Fell /\ Custody(m', m)
           /\ UNCHANGED <<permit, t, k1, rg, exc, adc, aux, faults, buf, open>>
<1>0. m \in MeasureRecord /\ m.st = "ADC_DMA_WAIT" BY DEF TypeOK, AdcDmaWait, At
<1>1. CASE adc.dma = "ERR" \/ exc.err
  BY <1>0, <1>1, FellBy, ErrorNames DEF AdcDmaWait
<1>2. CASE adc.dma = "DONE" /\ ~exc.err
  <2>1. m' = [m EXCEPT !.done = TRUE, !.st = "ADC_DMA_COMPLETE"]
    BY <1>2 DEF AdcDmaWait
  <2>2. k1.cmd = "MEASURE" => rg.fsm = "READY"
    BY <1>0, SafetyReady DEF AdcDmaWait, At, DynamicAbort, RangeUnfit,
       OwnedTransition
  <2> QED BY <1>0, <1>2, <2>1, <2>2 DEF AdcDmaWait, MeasureRecord, Carried, Custody
<1>3. CASE adc.dma \notin {"ERR", "DONE"} /\ ~exc.err
  <2>1. CASE t.wait = 0
    BY <1>0, <1>3, <2>1, FellBy, ErrorNames DEF AdcDmaWait
  <2>2. CASE t.wait # 0
    <3>1. m' = m BY <1>3, <2>2 DEF AdcDmaWait
    <3> QED BY <1>0, <3>1 DEF AdcDmaWait, Moved, Carried, Custody
  <2> QED BY <2>1, <2>2
<1> QED BY <1>1, <1>2, <1>3

LEMMA StopAdcEffect ==
    ASSUME TypeOK, NEW from, NEW to, StopAdc(from, to)
    PROVE  /\ m.st = from /\ Moved(to)
           /\ adc'.owner = adc.owner /\ adc'.dma # "RUN"
           /\ UNCHANGED <<permit, t, k1, rg, exc, aux, faults, buf, open>>
BY MovedBy, StoppedEffect DEF StopAdc, At, TypeOK

(* A capture that ends: readable when it was taken whole.                  *)
Ends(to) ==
    /\ m'.st = to /\ m'.phase = m.phase /\ Carried(m', m) /\ Custody(m', m)
    /\ m'.err = m.err /\ m'.guard = m.guard
    /\ m'.valid = (m.done /\ ~m.restoreFailed)

LEMMA ExcNeutralPostWaitEffect ==
    ASSUME TypeOK, ExcNeutralPostWait
    PROVE  /\ m.st = "EXC_NEUTRAL_POST_WAIT"
           /\ IF m.connected THEN Ends("SESSION_HOLD") ELSE Moved("K1_SAFE")
           /\ UNCHANGED <<permit, t, k1, rg, exc, adc, aux, faults, buf, open>>
<1>0. m \in MeasureRecord /\ Finalized(m) \in MeasureRecord
  BY FinalizedType DEF TypeOK
<1>1. CASE m.connected
  <2>1. m' = [Finalized(m) EXCEPT !.dumpable = FALSE, !.st = "SESSION_HOLD"]
    BY <1>1 DEF ExcNeutralPostWait
  <2>2. Ends("SESSION_HOLD")
    BY <1>0, <2>1 DEF Finalized, MeasureRecord, Ends, Carried, Custody
  <2> QED BY <1>1, <2>2 DEF ExcNeutralPostWait, At
<1>2. CASE ~m.connected BY <1>0, <1>2, MovedBy DEF ExcNeutralPostWait, At
<1> QED BY <1>1, <1>2

LEMMA K1SafeEffect ==
    ASSUME TypeOK, K1Safe
    PROVE  /\ m.st = "K1_SAFE" /\ Safer /\ faults \subseteq faults'
           /\ \/ /\ m'.st = "K1_RELEASE_GUARD" /\ m'.phase = m.phase
                 /\ ~m'.connected
                 /\ m'.quiet = m.quiet /\ m'.k1Owned = m.k1Owned
                 /\ m'.k1Reached = m.k1Reached /\ m'.done = m.done
                 /\ m'.req = m.req /\ m'.resume = m.resume
                 /\ Custody(m', m) /\ m'.err = m.err /\ m'.guard = m.guard
                 /\ m'.valid = m.valid /\ ~k1'.coil /\ t'.wait = ReleaseGuard
              \/ Fell /\ Custody(m', m) /\ "K1_IO" \in faults'
           /\ UNCHANGED <<permit, rg, exc, adc, aux, buf>>
<1>0. m \in MeasureRecord /\ k1 \in RelayRecord /\ t \in Deadlines BY DEF TypeOK
<1>1. PICK w \in Gpio :
        /\ MoveK1(K1ForcedSafe(w))
        /\ faults' = faults \cup Latch("K1_IO", w # "OK")
        /\ IF w = "OK"
           THEN /\ m' = [m EXCEPT !.connected = FALSE, !.st = "K1_RELEASE_GUARD"]
                /\ t' = [t EXCEPT !.wait = ReleaseGuard]
           ELSE m' = Aborted(m, "K1") /\ UNCHANGED t
  BY DEF K1Safe
<1>2. Safer /\ (w = "OK" => ~k1'.coil) BY <1>0, <1>1, ForcedSafeEffect
<1>3. CASE w = "OK"
  <2>1. t'.wait = ReleaseGuard BY <1>0, <1>1, <1>3 DEF Deadlines
  <2>2. m' = [m EXCEPT !.connected = FALSE, !.st = "K1_RELEASE_GUARD"]
    BY <1>1, <1>3
  <2>3. /\ m'.st = "K1_RELEASE_GUARD" /\ m'.phase = m.phase
        /\ ~m'.connected
        /\ m'.quiet = m.quiet /\ m'.k1Owned = m.k1Owned
        /\ m'.k1Reached = m.k1Reached /\ m'.done = m.done /\ m'.req = m.req
        /\ m'.resume = m.resume
        /\ Custody(m', m) /\ m'.err = m.err /\ m'.guard = m.guard /\ m'.valid = m.valid
    BY <1>0, <2>2 DEF MeasureRecord, Carried, Custody
  <2> QED BY <1>1, <1>2, <1>3, <2>1, <2>3 DEF K1Safe, At
<1>4. CASE w # "OK"
  <2>1. Fell /\ Custody(m', m) BY <1>0, <1>1, <1>4, FellBy, ErrorNames
  <2> QED BY <1>1, <1>2, <1>4, <2>1 DEF K1Safe, At, Latch
<1> QED BY <1>3, <1>4

LEMMA K1ReleaseGuardEffect ==
    ASSUME TypeOK, K1ReleaseGuard
    PROVE  /\ m.st = "K1_RELEASE_GUARD" /\ t.wait = 0
           /\ m'.st = "EXC_OFF" /\ m'.phase = m.phase
           /\ m'.quiet = m.quiet /\ m'.k1Reached = m.k1Reached
           /\ m'.connected = m.connected /\ m'.done = m.done
           /\ m'.req = m.req /\ m'.resume = m.resume
           /\ Custody(m', m)
           /\ m'.err = m.err /\ m'.guard = m.guard /\ m'.valid = m.valid
           /\ UNCHANGED <<permit, t, k1, rg, exc, adc, aux, faults, buf, open>>
BY DEF K1ReleaseGuard, At, TypeOK, MeasureRecord, Carried, Custody

LEMMA ExcOffEffect ==
    ASSUME TypeOK, ExcOff
    PROVE  /\ m.st = "EXC_OFF" /\ Moved("RANGE_DISABLE") /\ exc'.mode = "OFF"
           /\ UNCHANGED <<permit, t, k1, rg, adc, aux, faults, buf, open>>
BY MovedBy DEF ExcOff, At, TypeOK, ExcitationOff, ExcitationRecord

LEMMA DisabledEffect ==
    ASSUME rg \in RangeRecord, NEW e, rg' = RangeForceDisabled(rg, e)
    PROVE  /\ rg'.fsm \in {"DISABLED", "INVALID"}
           /\ e = "OK" => ~rg'.line /\ rg'.fsm = "DISABLED"
<1>1. /\ rg'.fsm \in {"DISABLED", "INVALID"}
      /\ rg'.fsm = "DISABLED" => ~rg'.line
  BY DisablePost
<1>2. e = "OK" => rg'.fsm = "DISABLED"
  BY DEF RangeForceDisabled, WriteEnable, RangeRecord
<1> QED BY <1>1, <1>2

LEMMA RangeDisableEffect ==
    ASSUME TypeOK, RangeDisable
    PROVE  /\ m.st = "RANGE_DISABLE" /\ faults \subseteq faults'
           /\ rg'.fsm \in {"DISABLED", "INVALID"}
           /\ \/ Moved("ADC_RELEASE") /\ ~rg'.line /\ rg'.fsm = "DISABLED"
              \/ Fell /\ Custody(m', m) /\ "RANGE_IO" \in faults'
           /\ UNCHANGED <<permit, t, k1, exc, adc, aux, buf, open>>
<1>0. m \in MeasureRecord /\ rg \in RangeRecord BY DEF TypeOK
<1>1. PICK e \in Gpio :
        /\ rg' = RangeForceDisabled(rg, e)
        /\ faults' = faults \cup Latch("RANGE_IO", e # "OK")
        /\ m' = IF e = "OK" THEN [m EXCEPT !.st = "ADC_RELEASE"] ELSE Aborted(m, "RANGE")
  BY DEF RangeDisable
<1>2. /\ rg'.fsm \in {"DISABLED", "INVALID"}
      /\ e = "OK" => ~rg'.line /\ rg'.fsm = "DISABLED"
  BY <1>0, <1>1, DisabledEffect
<1>3. CASE e = "OK" BY <1>0, <1>1, <1>2, <1>3, MovedBy DEF RangeDisable, At
<1>4. CASE e # "OK"
  <2>1. Fell /\ Custody(m', m) BY <1>0, <1>1, <1>4, FellBy, ErrorNames
  <2> QED BY <1>1, <1>2, <1>4, <2>1 DEF RangeDisable, At, Latch
<1> QED BY <1>3, <1>4

(* A converter that could not be given back is latched, at once or before. *)
NotGivenBack ==
    /\ Fell /\ m'.adcOwned = m.adcOwned
    /\ m'.restoreFailed => m.restoreFailed \/ "ADC_RUNTIME" \in faults'
    /\ adc'.owner = "DOWN" => m.restoreFailed \/ "ADC_RUNTIME" \in faults'

LEMMA NotGivenBackBy ==
    ASSUME m \in MeasureRecord, NEW s, adc \in AdcRecord, adc' = AdcRestored(s),
           faults' = faults \cup Latch("ADC_RUNTIME", s # "OK" /\ ~m.restoreFailed),
           m' = Aborted(RestoreNoted(m, s), "AUX_RESTORE")
    PROVE  NotGivenBack
<1> DEFINE r == RestoreNoted(m, s)
<1>1. r \in MeasureRecord BY RestoreNotedType
<1>2. /\ Carried(r, m) /\ r.k1Reached = m.k1Reached /\ r.adcOwned = m.adcOwned
      /\ r.restoreFailed = (m.restoreFailed \/ s # "OK")
  BY DEF RestoreNoted, MeasureRecord, Carried
<1>3. m' = Aborted(r, "AUX_RESTORE") OBVIOUS
<1> HIDE DEF r
<1>4. /\ m'.st = "ABORT" /\ m'.phase = "STOP_ADC" /\ Carried(m', r) /\ Custody(m', r)
      /\ m'.err # "OK" /\ m'.guard = r.k1Reached /\ ~m'.valid
  BY <1>1, <1>3, AbortedEffect, ErrorNames
<1>5. s # "OK" /\ ~m.restoreFailed => "ADC_RUNTIME" \in faults' BY DEF Latch
<1>6. adc'.owner = "DOWN" => s # "OK" BY RestoredEffect
<1> QED BY <1>2, <1>4, <1>5, <1>6 DEF NotGivenBack, Fell, Carried, Custody

(* What the re-initialised converter leaves of the sampler.                *)
SamplerDisturbed ==
    /\ aux'.paused = aux.paused
    /\ aux'.power = "SAMPLING" => aux.power = "SAMPLING"
    /\ aux'.power = "ORPHANED" => aux.power \in {"SAMPLING", "ORPHANED"}
    /\ aux.power = "NONE" => aux'.power = "NONE"

LEMMA AdcRestoreEffect ==
    ASSUME TypeOK, AdcRestore
    PROVE  /\ m.st = "ADC_RESTORE" /\ faults \subseteq faults' /\ adc'.dma # "RUN"
           /\ SamplerDisturbed
           /\ \/ /\ m'.st = "AUX_RESUME" /\ m'.phase = m.phase /\ Carried(m', m)
                 /\ ~m'.adcOwned /\ m'.restoreFailed = m.restoreFailed
                 /\ m'.err = m.err /\ m'.guard = m.guard /\ m'.valid = m.valid
                 /\ adc'.owner = "AUX"
              \/ NotGivenBack /\ adc'.owner # "METROLOGY"
           /\ UNCHANGED <<permit, t, k1, rg, exc, buf, open>>
<1>0. m \in MeasureRecord /\ adc \in AdcRecord /\ aux \in AuxRecord BY DEF TypeOK
<1>1. PICK s \in AdcStatus :
        /\ adc' = AdcRestored(s)
        /\ faults' = faults \cup Latch("ADC_RUNTIME", s # "OK" /\ ~m.restoreFailed)
        /\ m' = IF s = "OK" THEN [m EXCEPT !.adcOwned = FALSE, !.st = "AUX_RESUME"]
                ELSE Aborted(RestoreNoted(m, s), "AUX_RESTORE")
  BY DEF AdcRestore
<1>2. SamplerDisturbed BY <1>0, SamplerEffect DEF AdcRestore, SamplerDisturbed
<1>3. adc'.dma # "RUN" /\ adc'.owner = (IF s = "OK" THEN "AUX" ELSE "DOWN")
  BY <1>0, <1>1, RestoredEffect
<1>4. CASE s = "OK"
  <2>1. /\ m'.st = "AUX_RESUME" /\ m'.phase = m.phase /\ Carried(m', m)
        /\ ~m'.adcOwned /\ m'.restoreFailed = m.restoreFailed
        /\ m'.err = m.err /\ m'.guard = m.guard /\ m'.valid = m.valid
    BY <1>0, <1>1, <1>4 DEF MeasureRecord, Carried
  <2> QED BY <1>1, <1>2, <1>3, <1>4, <2>1 DEF AdcRestore, At
<1>5. CASE s # "OK"
  <2>1. NotGivenBack BY <1>0, <1>1, <1>5, NotGivenBackBy
  <2> QED BY <1>1, <1>2, <1>3, <1>5, <2>1 DEF AdcRestore, At
<1> QED BY <1>4, <1>5

LEMMA AuxResumeEffect ==
    ASSUME TypeOK, AuxResume
    PROVE  /\ m.st = "AUX_RESUME" /\ Moved("QUIET_EXIT")
           /\ ~aux'.paused /\ aux'.power = "NONE"
           /\ UNCHANGED <<permit, t, k1, rg, exc, adc, faults, buf, open>>
BY MovedBy DEF AuxResume, At, TypeOK, AuxResumed, AuxRecord

LEMMA QuietExitEffect ==
    ASSUME TypeOK, QuietExit
    PROVE  /\ m.st = "QUIET_EXIT" /\ m'.st = "ANALYZE" /\ ~m'.quiet
           /\ m'.phase = m.phase
           /\ m'.k1Owned = m.k1Owned /\ m'.k1Reached = m.k1Reached
           /\ m'.connected = m.connected /\ m'.done = m.done
           /\ m'.req = m.req /\ m'.resume = m.resume
           /\ Custody(m', m) /\ m'.err = m.err /\ m'.guard = m.guard
           /\ m'.valid = m.valid
           /\ UNCHANGED <<permit, t, k1, rg, exc, adc, aux, faults, buf, open>>
BY DEF QuietExit, At, TypeOK, MeasureRecord, Carried, Custody

LEMMA AnalyzeEffect ==
    ASSUME TypeOK, Analyze
    PROVE  /\ m.st = "ANALYZE" /\ Ends("DONE")
           /\ UNCHANGED <<permit, t, k1, rg, exc, adc, aux, faults, buf, open>>
<1>0. m \in MeasureRecord /\ Finalized(m) \in MeasureRecord
  BY FinalizedType DEF TypeOK
<1>1. Ends("DONE")
  BY <1>0 DEF Analyze, Finalized, MeasureRecord, Ends, Carried, Custody
<1> QED BY <1>1 DEF Analyze, At

LEMMA PowerRestoreEffect ==
    ASSUME TypeOK, PowerRestore
    PROVE  /\ m.st = "POWER_RESTORE" /\ faults \subseteq faults' /\ adc'.dma # "RUN"
           /\ \/ /\ m'.st = "POWER_WAIT" /\ m'.phase = m.phase /\ Carried(m', m)
                 /\ ~m'.adcOwned /\ m'.restoreFailed = m.restoreFailed
                 /\ m'.err = m.err /\ m'.guard = m.guard /\ m'.valid = m.valid
                 /\ adc'.owner = "AUX" /\ aux.paused /\ aux'.paused
              \/ NotGivenBack /\ adc'.owner # "METROLOGY" /\ SamplerDisturbed
           /\ UNCHANGED <<permit, t, k1, rg, exc, buf, open>>
<1>0. m \in MeasureRecord /\ adc \in AdcRecord /\ aux \in AuxRecord BY DEF TypeOK
<1>1. PICK s \in AdcStatus :
        /\ adc' = AdcRestored(s)
        /\ faults' = faults \cup Latch("ADC_RUNTIME", s # "OK" /\ ~m.restoreFailed)
        /\ IF s = "OK" /\ PowerBegins
           THEN /\ aux' = [aux EXCEPT !.power = "SAMPLING", !.group = 0]
                /\ m' = [m EXCEPT !.adcOwned = FALSE, !.st = "POWER_WAIT"]
           ELSE /\ aux' \in AuxAfterRestore
                /\ m' = Aborted(RestoreNoted(m, s), "AUX_RESTORE")
  BY DEF PowerRestore
<1>3. adc'.dma # "RUN" /\ adc'.owner = (IF s = "OK" THEN "AUX" ELSE "DOWN")
  BY <1>0, <1>1, RestoredEffect
<1>4. CASE s = "OK" /\ PowerBegins
  <2>1. /\ m'.st = "POWER_WAIT" /\ m'.phase = m.phase /\ Carried(m', m)
        /\ ~m'.adcOwned /\ m'.restoreFailed = m.restoreFailed
        /\ m'.err = m.err /\ m'.guard = m.guard /\ m'.valid = m.valid
    BY <1>0, <1>1, <1>4 DEF MeasureRecord, Carried
  <2>2. aux.paused /\ aux'.paused BY <1>0, <1>1, <1>4 DEF PowerBegins, AuxRecord
  <2> QED BY <1>1, <1>3, <1>4, <2>1, <2>2 DEF PowerRestore, At
<1>5. CASE ~(s = "OK" /\ PowerBegins)
  <2>1. NotGivenBack BY <1>0, <1>1, <1>5, NotGivenBackBy
  <2>2. SamplerDisturbed BY <1>0, <1>1, <1>5, SamplerEffect DEF SamplerDisturbed
  <2> QED BY <1>1, <1>3, <1>5, <2>1, <2>2 DEF PowerRestore, At
<1> QED BY <1>4, <1>5

LEMMA PowerWaitEffect ==
    ASSUME TypeOK, PowerWait
    PROVE  /\ m.st = "POWER_WAIT" /\ aux.power \notin {"SAMPLING", "ORPHANED"}
           /\ t'.wait = t.wait /\ t'.resume = t.resume
           /\ Moved("POWER_ACQUIRE") \/ (Fell /\ Custody(m', m))
           /\ UNCHANGED <<permit, k1, rg, exc, adc, aux, faults, buf, open>>
<1>0. m \in MeasureRecord /\ t \in Deadlines BY DEF TypeOK
<1>1. PICK battery \in Batteries :
        IF SampleAccepted(battery)
        THEN /\ t' = [t EXCEPT !.batt = BatteryMaxAge - aux.age,
                      !.pdue = IF aux.age < PowerPeriod THEN PowerPeriod - aux.age ELSE 0]
             /\ m' = [m EXCEPT !.st = "POWER_ACQUIRE"]
        ELSE m' = Aborted(m, "PERMIT") /\ UNCHANGED t
  BY DEF PowerWait
<1>2. CASE SampleAccepted(battery)
  <2>1. t'.wait = t.wait /\ t'.resume = t.resume BY <1>0, <1>1, <1>2 DEF Deadlines
  <2> QED BY <1>0, <1>1, <1>2, <2>1, MovedBy DEF PowerWait, At
<1>3. CASE ~SampleAccepted(battery)
  <2>1. Fell /\ Custody(m', m) BY <1>0, <1>1, <1>3, FellBy, ErrorNames
  <2> QED BY <1>1, <1>3, <2>1 DEF PowerWait, At
<1> QED BY <1>2, <1>3

LEMMA PowerAcquireEffect ==
    ASSUME TypeOK, PowerAcquire
    PROVE  /\ m.st = "POWER_ACQUIRE" /\ Taken(m.resume)
           /\ m'.st = "ABORT" \/ t'.wait = t.resume
           /\ UNCHANGED <<permit, k1, rg, exc, aux, faults, buf, open>>
<1>0. m \in MeasureRecord /\ t \in Deadlines BY DEF TypeOK
<1>1. PICK s \in AdcStatus :
        /\ adc' = AdcAcquired(s)
        /\ IF s = "OK"
           THEN /\ m' = [m EXCEPT !.adcOwned = TRUE, !.st = m.resume]
                /\ t' = [t EXCEPT !.wait = t.resume]
           ELSE m' = Aborted([m EXCEPT !.adcOwned = TRUE], "ADC_ACQUIRE") /\ UNCHANGED t
  BY DEF PowerAcquire
<1>2. Taken(m.resume) BY <1>0, <1>1, TakenBy
<1>3. m'.st = "ABORT" \/ t'.wait = t.resume
  BY <1>0, <1>1, <1>2 DEF Deadlines, Taken, Fell, AdcAcquired
<1> QED BY <1>2, <1>3 DEF PowerAcquire, At

(* The abort, phase by phase.                                              *)
LEMMA AbortStopEffect ==
    ASSUME TypeOK, AbortStop
    PROVE  /\ m.st = "ABORT" /\ m.phase = "STOP_ADC" /\ m'.st = "ABORT"
           /\ m'.phase = (IF m.guard THEN "RELEASE_GUARD" ELSE "ADC_RESTORE")
           /\ ~m'.connected /\ m'.quiet = m.quiet /\ m'.k1Reached = m.k1Reached
           /\ m'.done = m.done /\ m'.req = m.req /\ m'.resume = m.resume
           /\ Custody(m', m) /\ m'.err = m.err /\ m'.guard = m.guard
           /\ m'.valid = m.valid
           /\ m.guard => t'.wait = ReleaseGuard
           /\ adc'.owner = adc.owner /\ adc'.dma # "RUN" /\ exc'.mode = "OFF"
           /\ rg'.fsm \in {"DISABLED", "INVALID"}
           /\ (~rg'.line /\ rg'.fsm = "DISABLED") \/ "RANGE_IO" \in faults'
           /\ Safer /\ (~k1'.coil \/ "K1_IO" \in faults')
           /\ faults \subseteq faults' /\ UNCHANGED <<permit, aux, buf>>
<1>0. /\ m \in MeasureRecord /\ k1 \in RelayRecord /\ t \in Deadlines
      /\ adc \in AdcRecord /\ rg \in RangeRecord /\ exc \in ExcitationRecord
  BY DEF TypeOK
<1>1. PICK e \in Gpio : \E w \in Gpio :
        /\ rg' = RangeForceDisabled(rg, e)
        /\ MoveK1(K1ForcedSafe(w))
        /\ faults' = faults \cup Latch("RANGE_IO", e # "OK") \cup Latch("K1_IO", w # "OK")
  BY DEF AbortStop
<1>2. PICK w \in Gpio :
        /\ rg' = RangeForceDisabled(rg, e)
        /\ MoveK1(K1ForcedSafe(w))
        /\ faults' = faults \cup Latch("RANGE_IO", e # "OK") \cup Latch("K1_IO", w # "OK")
  BY <1>1
<1>3. Safer /\ (w = "OK" => ~k1'.coil) BY <1>0, <1>2, ForcedSafeEffect
<1>4. /\ rg'.fsm \in {"DISABLED", "INVALID"}
      /\ e = "OK" => ~rg'.line /\ rg'.fsm = "DISABLED"
  BY <1>0, <1>2, DisabledEffect
<1>5. adc'.owner = adc.owner /\ adc'.dma # "RUN"
  BY <1>0, StoppedEffect DEF AbortStop
<1>6. exc'.mode = "OFF" BY <1>0 DEF AbortStop, ExcitationOff, ExcitationRecord
<1>7. m.guard => t'.wait = ReleaseGuard BY <1>0 DEF AbortStop, Deadlines
<1>8. /\ m.st = "ABORT" /\ m.phase = "STOP_ADC" /\ m'.st = "ABORT"
      /\ m'.phase = (IF m.guard THEN "RELEASE_GUARD" ELSE "ADC_RESTORE")
      /\ ~m'.connected /\ m'.quiet = m.quiet /\ m'.k1Reached = m.k1Reached
      /\ m'.done = m.done /\ m'.req = m.req /\ m'.resume = m.resume
      /\ Custody(m', m) /\ m'.err = m.err /\ m'.guard = m.guard /\ m'.valid = m.valid
  BY <1>0 DEF AbortStop, In, MeasureRecord, Custody
<1>9. faults \subseteq faults' /\ (e # "OK" => "RANGE_IO" \in faults')
      /\ (w # "OK" => "K1_IO" \in faults')
  BY <1>2 DEF Latch
<1>10. UNCHANGED <<permit, aux, buf>> BY DEF AbortStop
<1> QED BY <1>3, <1>4, <1>5, <1>6, <1>7, <1>8, <1>9, <1>10

LEMMA AbortReleaseGuardEffect ==
    ASSUME TypeOK, AbortReleaseGuard
    PROVE  /\ m.st = "ABORT" /\ m.phase = "RELEASE_GUARD" /\ t.wait = 0
           /\ m'.st = "ABORT" /\ m'.phase = "ADC_RESTORE"
           /\ m'.quiet = m.quiet /\ m'.k1Reached = m.k1Reached
           /\ m'.connected = m.connected /\ m'.done = m.done
           /\ m'.req = m.req /\ m'.resume = m.resume
           /\ Custody(m', m)
           /\ m'.err = m.err /\ m'.guard = m.guard /\ m'.valid = m.valid
           /\ UNCHANGED <<permit, t, k1, rg, exc, adc, aux, faults, buf, open>>
BY DEF AbortReleaseGuard, In, TypeOK, MeasureRecord, Carried, Custody

LEMMA AbortAdcRestoreEffect ==
    ASSUME TypeOK, AbortAdcRestore
    PROVE  /\ m.st = "ABORT" /\ m.phase = "ADC_RESTORE" /\ m'.st = "ABORT"
           /\ Carried(m', m) /\ m'.guard = m.guard /\ m'.valid = m.valid
           /\ m.err # "OK" => m'.err # "OK"
           /\ faults \subseteq faults'
           /\ \/ /\ ~m'.adcOwned /\ m'.restoreFailed = m.restoreFailed
                 /\ adc'.owner = "AUX"
                 /\ m'.phase = (IF aux.paused THEN "AUX_RESUME" ELSE "QUIET_OFF")
              \/ /\ ~m'.adcOwned /\ m'.restoreFailed /\ adc'.owner = "DOWN"
                 /\ m.restoreFailed \/ "ADC_RUNTIME" \in faults'
                 /\ m'.phase = "QUIET_OFF"
              \/ /\ ~m.adcOwned /\ ~aux.paused /\ Custody(m', m)
                 /\ m'.phase = "QUIET_OFF" /\ UNCHANGED <<adc, aux>>
           /\ adc'.dma # "RUN" \/ UNCHANGED adc
           /\ SamplerDisturbed
           /\ UNCHANGED <<permit, t, k1, rg, exc, buf, open>>
<1>0. m \in MeasureRecord /\ adc \in AdcRecord /\ aux \in AuxRecord BY DEF TypeOK
<1>1. CASE m.adcOwned \/ aux.paused
  <2>1. PICK s \in AdcStatus :
          /\ adc' = AdcRestored(s)
          /\ faults' = faults \cup Latch("ADC_RUNTIME", s # "OK" /\ ~m.restoreFailed)
          /\ m' = [RestoreNoted(m, s) EXCEPT !.adcOwned = FALSE,
                      !.phase = IF s = "OK" /\ aux.paused
                                THEN "AUX_RESUME" ELSE "QUIET_OFF"]
    BY <1>1 DEF AbortAdcRestore
  <2>2. SamplerDisturbed
    BY <1>0, <1>1, SamplerEffect DEF AbortAdcRestore, SamplerDisturbed
  <2>3. adc'.dma # "RUN" /\ adc'.owner = (IF s = "OK" THEN "AUX" ELSE "DOWN")
    BY <1>0, <2>1, RestoredEffect
  <2> DEFINE r == RestoreNoted(m, s)
  <2>4. /\ r \in MeasureRecord /\ Carried(r, m) /\ r.st = m.st
        /\ r.guard = m.guard /\ r.valid = m.valid
        /\ m.err # "OK" => r.err # "OK"
        /\ s = "OK" => r.restoreFailed = m.restoreFailed
        /\ s # "OK" => r.restoreFailed
    <3>1. CASE s = "OK"
      BY <1>0, <3>1 DEF RestoreNoted, Carried
    <3>2. CASE s # "OK"
      <4>1. r \in MeasureRecord BY <1>0, RestoreNotedType
      <4>2. /\ r.restoreFailed /\ Carried(r, m) /\ r.st = m.st
            /\ r.guard = m.guard /\ r.valid = m.valid
            /\ m.err # "OK" => r.err = m.err
        BY <1>0, <3>2 DEF RestoreNoted, MeasureRecord, Carried
      <4> QED BY <3>2, <4>1, <4>2
    <3> QED BY <3>1, <3>2
  <2>5. m' = [r EXCEPT !.adcOwned = FALSE,
                !.phase = IF s = "OK" /\ aux.paused THEN "AUX_RESUME" ELSE "QUIET_OFF"]
    BY <2>1
  <2> HIDE DEF r
  <2>6. /\ m'.st = r.st /\ Carried(m', r) /\ m'.guard = r.guard /\ m'.valid = r.valid
        /\ m'.err = r.err /\ ~m'.adcOwned /\ m'.restoreFailed = r.restoreFailed
        /\ m'.phase = (IF s = "OK" /\ aux.paused THEN "AUX_RESUME" ELSE "QUIET_OFF")
    BY <2>4, <2>5 DEF MeasureRecord, Carried
  <2>7. s # "OK" /\ ~m.restoreFailed => "ADC_RUNTIME" \in faults' BY <2>1 DEF Latch
  <2>8. faults \subseteq faults' BY <2>1
  <2>9. m.st = "ABORT" /\ m.phase = "ADC_RESTORE" /\ Carried(m', m)
        /\ UNCHANGED <<permit, t, k1, rg, exc, buf, open>>
    BY <2>4, <2>6 DEF AbortAdcRestore, In, Carried
  <2>10. CASE s = "OK" BY <1>0, <2>2, <2>3, <2>4, <2>6, <2>8, <2>9, <2>10 DEF MeasureRecord
  <2>11. CASE s # "OK" BY <2>2, <2>3, <2>4, <2>6, <2>7, <2>8, <2>9, <2>11
  <2> QED BY <2>10, <2>11
<1>2. CASE ~(m.adcOwned \/ aux.paused)
  <2>1. m' = [m EXCEPT !.phase = "QUIET_OFF"] /\ UNCHANGED <<adc, aux, faults>>
    BY <1>2 DEF AbortAdcRestore
  <2> QED BY <1>0, <1>2, <2>1
      DEF AbortAdcRestore, In, MeasureRecord, Carried, Custody, SamplerDisturbed
<1> QED BY <1>1, <1>2

LEMMA AbortAuxResumeEffect ==
    ASSUME TypeOK, AbortAuxResume
    PROVE  /\ m.st = "ABORT" /\ m.phase = "AUX_RESUME"
           /\ m'.st = "ABORT" /\ m'.phase = "QUIET_OFF"
           /\ Carried(m', m) /\ Custody(m', m)
           /\ m'.err = m.err /\ m'.guard = m.guard /\ m'.valid = m.valid
           /\ ~aux'.paused /\ aux'.power = "NONE"
           /\ UNCHANGED <<permit, t, k1, rg, exc, adc, faults, buf, open>>
BY DEF AbortAuxResume, In, TypeOK, MeasureRecord, Carried, Custody,
       AuxResumed, AuxRecord

LEMMA AbortQuietOffEffect ==
    ASSUME TypeOK, AbortQuietOff
    PROVE  /\ m.st = "ABORT" /\ m.phase = "QUIET_OFF"
           /\ m'.st = "IDLE" /\ m'.phase = "NONE" /\ ~m'.quiet /\ ~m'.valid
           /\ m'.k1Owned = m.k1Owned /\ m'.k1Reached = m.k1Reached
           /\ m'.connected = m.connected /\ m'.done = m.done
           /\ m'.req = m.req /\ m'.resume = m.resume
           /\ Custody(m', m)
           /\ m'.err = m.err /\ m'.guard = m.guard
           /\ UNCHANGED <<permit, t, k1, rg, exc, adc, aux, faults, buf, open>>
BY DEF AbortQuietOff, In, TypeOK, MeasureRecord, Carried, Custody

(* The owner.                                                              *)
LEMMA ClearedEffect ==
    m \in MeasureRecord =>
        /\ Cleared.st = m.st /\ Cleared.phase = "NONE" /\ Cleared.err = "OK"
        /\ Cleared.quiet = m.quiet /\ Cleared.adcOwned = m.adcOwned
        /\ ~Cleared.restoreFailed /\ ~Cleared.k1Owned /\ ~Cleared.k1Reached
        /\ ~Cleared.guard /\ ~Cleared.connected /\ ~Cleared.valid
        /\ Cleared.done = m.done /\ Cleared.req = m.req
        /\ Cleared.resume = m.resume
<1> SUFFICES ASSUME m \in MeasureRecord
    PROVE /\ Cleared.st = m.st /\ Cleared.phase = "NONE" /\ Cleared.err = "OK"
          /\ Cleared.quiet = m.quiet /\ Cleared.adcOwned = m.adcOwned
          /\ ~Cleared.restoreFailed /\ ~Cleared.k1Owned /\ ~Cleared.k1Reached
          /\ ~Cleared.guard /\ ~Cleared.connected /\ ~Cleared.valid
          /\ Cleared.done = m.done /\ Cleared.req = m.req
          /\ Cleared.resume = m.resume
  OBVIOUS
<1> DEFINE half == [m EXCEPT !.dumpable = FALSE, !.restoreFailed = FALSE,
                             !.err = "OK", !.valid = FALSE, !.validated = FALSE,
                             !.k1Owned = FALSE]
<1>1. /\ half \in MeasureRecord /\ half.st = m.st /\ half.err = "OK"
      /\ half.quiet = m.quiet /\ half.adcOwned = m.adcOwned
      /\ ~half.restoreFailed /\ ~half.k1Owned /\ ~half.valid
      /\ half.done = m.done /\ half.req = m.req /\ half.resume = m.resume
  BY ErrorNames DEF MeasureRecord
<1>2. Cleared = [half EXCEPT !.k1Reached = FALSE, !.guard = FALSE,
                             !.phase = "NONE", !.connected = FALSE, !.caps = 0,
                             !.stats = 0]
  BY DEF Cleared
<1> HIDE DEF half
<1> QED BY <1>1, <1>2 DEF MeasureRecord

Begun ==            \* what a start leaves, accepted or not
    /\ ~m'.restoreFailed /\ ~m'.k1Owned /\ ~m'.k1Reached /\ ~m'.connected
    /\ ~m'.valid /\ ~m'.guard /\ m'.phase = "NONE"
    /\ m'.quiet = m.quiet /\ m'.adcOwned = m.adcOwned /\ m'.resume = m.resume

LEMMA StartEffect ==
    ASSUME TypeOK, NEW q \in Requests, Start(q)
    PROVE  /\ m.st \in {"IDLE", "DONE"} /\ Begun /\ Safer
           /\ exc' = exc \/ exc'.mode = "OFF"
           /\ \/ /\ m'.st \in {m.st, "IDLE"} /\ m'.err # "OK"
                 /\ m'.done = m.done /\ m'.req = m.req
              \/ /\ m'.st = "FORCE_K1_SAFE" /\ m'.err = "OK" /\ ~m'.done
                 /\ m'.req = q
           /\ UNCHANGED <<t, rg, adc, aux, faults, buf>>
<1>0. /\ m \in MeasureRecord /\ k1 \in RelayRecord /\ exc \in ExcitationRecord
      /\ Cleared \in MeasureRecord
  BY ClearedType DEF TypeOK
<1>1. Safer
  BY <1>0, ForcedSafeEffect DEF Start, RefuseFresh, Safer
<1>2. exc' = exc \/ exc'.mode = "OFF"
  BY <1>0 DEF Start, RefuseFresh, ExcitationOff, ExcitationRecord
<1> DEFINE TurnedDown == \E error \in Errors \ {"OK"} : \E to \in {m.st, "IDLE"} :
                            m' = [Cleared EXCEPT !.err = error, !.st = to]
           Accepted == m' = [Cleared EXCEPT !.req = q, !.done = FALSE, !.st = "FORCE_K1_SAFE"]
<1>3. ASSUME NEW error \in Errors \ {"OK"}, NEW toIdle, NEW putAway,
             RefuseFresh(error, toIdle, putAway)
      PROVE  TurnedDown
  BY <1>3, <1>0, ClearedEffect DEF RefuseFresh
<1>4. q.stat => RefuseFresh("INVALID", FALSE, FALSE) BY DEF Start
<1>5. ~q.stat /\ q.cont /\ ~q.hold => RefuseFresh("INVALID", TRUE, TRUE) BY DEF Start
<1>6. ~q.stat /\ ~(q.cont /\ ~q.hold) /\ q.refusal \in {"CLOCK", "AMPLITUDE", "PROFILE"} =>
        \/ RefuseFresh("CLOCK", TRUE, TRUE) \/ RefuseFresh("AMPLITUDE", FALSE, TRUE)
        \/ RefuseFresh("INVALID", FALSE, FALSE)
  BY DEF Start
<1>7. ~q.stat /\ ~(q.cont /\ ~q.hold) /\ q.refusal \notin {"CLOCK", "AMPLITUDE", "PROFILE"}
        => Accepted
  BY DEF Start
<1>8. CASE TurnedDown
  <2>1. PICK error \in Errors \ {"OK"} : \E to \in {m.st, "IDLE"} :
               m' = [Cleared EXCEPT !.err = error, !.st = to]
    BY <1>8
  <2>2. /\ m'.st \in {m.st, "IDLE"} /\ m'.err # "OK" /\ Begun
        /\ m'.done = m.done /\ m'.req = m.req
    BY <1>0, <2>1, ClearedEffect DEF MeasureRecord, Begun
  <2> QED BY <1>1, <1>2, <2>2 DEF Start, Active
<1>9. CASE Accepted
  <2>1. /\ m'.st = "FORCE_K1_SAFE" /\ m'.err = "OK" /\ Begun /\ ~m'.done /\ m'.req = q
    BY <1>0, <1>9, ClearedEffect DEF MeasureRecord, Begun
  <2> QED BY <1>1, <1>2, <2>1 DEF Start, Active
<1>10. TurnedDown \/ Accepted
  <2> HIDE DEF TurnedDown, Accepted
  <2> QED BY <1>3, <1>4, <1>5, <1>6, <1>7, ErrorNames
<1> HIDE DEF TurnedDown, Accepted
<1> QED BY <1>8, <1>9, <1>10

LEMMA ContinueEffect ==
    ASSUME TypeOK, NEW q \in Requests, Continue(q)
    PROVE  /\ m.st = "SESSION_HOLD"
           /\ \/ Fell /\ Custody(m', m)
              \/ /\ m'.st = "RANGE_REQUEST" \/ (m'.st = "ADC_ACQUIRE" /\ q.range = m.req.range)
                 /\ m.connected /\ m'.connected /\ m'.phase = m.phase
                 /\ m'.req = q /\ Holds(q) /\ ~m'.done /\ ~m'.valid
                 /\ m'.quiet = m.quiet /\ m'.k1Owned = m.k1Owned
                 /\ m'.k1Reached = m.k1Reached /\ m'.resume = m.resume
                 /\ Custody(m', m) /\ m'.err = m.err /\ m'.guard = m.guard
           /\ UNCHANGED <<permit, t, k1, rg, exc, adc, aux, faults, buf, open>>
<1>0. m \in MeasureRecord BY DEF TypeOK
<1>1. CASE ~ContinuationAllowed(q)
  BY <1>0, <1>1, FellBy, ErrorNames DEF Continue
<1>2. CASE ContinuationAllowed(q)
  <2>1. m' = [m EXCEPT !.req = q, !.caps = @ + 1,
                       !.stats = IF q.stat THEN @ + 1 ELSE @,
                       !.valid = FALSE, !.done = FALSE, !.dumpable = FALSE,
                       !.st = IF q.stat /\ SameCondition(q)
                              THEN "ADC_ACQUIRE" ELSE "RANGE_REQUEST"]
    BY <1>2 DEF Continue
  <2>2. m.connected /\ Holds(q) /\ m.st = "SESSION_HOLD"
    BY <1>2 DEF ContinuationAllowed, Holds, Continue
  <2>3. /\ m'.st = "RANGE_REQUEST" \/ (m'.st = "ADC_ACQUIRE" /\ q.range = m.req.range)
        /\ m'.connected = m.connected /\ m'.phase = m.phase
        /\ m'.req = q /\ ~m'.done /\ ~m'.valid
        /\ m'.quiet = m.quiet /\ m'.k1Owned = m.k1Owned
        /\ m'.k1Reached = m.k1Reached /\ m'.resume = m.resume
        /\ Custody(m', m) /\ m'.err = m.err /\ m'.guard = m.guard
    BY <1>0, <2>1 DEF MeasureRecord, Custody, SameCondition
  <2> QED BY <2>2, <2>3 DEF Continue
<1> QED BY <1>1, <1>2

LEMMA AbortEffect ==
    ASSUME TypeOK, Abort
    PROVE  /\ m.st # "IDLE"
           /\ IF m.st = "DONE"
              THEN /\ m'.st = "IDLE" /\ ~m'.valid /\ Carried(m', m) /\ Custody(m', m)
                   /\ m'.phase = m.phase /\ m'.err = m.err /\ m'.guard = m.guard
              ELSE Fell /\ Custody(m', m)
           /\ UNCHANGED <<permit, t, k1, rg, exc, adc, aux, faults, buf, open>>
<1>0. m \in MeasureRecord BY DEF TypeOK
<1>1. CASE m.st = "DONE"
  BY <1>0, <1>1 DEF Abort, MeasureRecord, Carried, Custody
<1>2. CASE m.st # "DONE"
  <2>1. /\ m'.st = "ABORT" /\ m'.phase = "STOP_ADC" /\ Carried(m', m)
        /\ Custody(m', m) /\ m'.err # "OK" /\ m'.guard = m.k1Reached /\ ~m'.valid
    BY <1>0, <1>2, AbortedEffect, ErrorNames DEF Abort
  <2> QED BY <1>2, <2>1 DEF Abort, Fell
<1> QED BY <1>1, <1>2

LEMMA FinishSessionEffect ==
    ASSUME TypeOK, FinishSession
    PROVE  /\ m.st = "SESSION_HOLD" /\ Moved("K1_SAFE")
           /\ UNCHANGED <<permit, t, k1, rg, exc, adc, aux, faults, buf, open>>
BY MovedBy DEF FinishSession, TypeOK

LEMMA AcknowledgeEffect ==
    ASSUME TypeOK, Acknowledge
    PROVE  /\ \/ /\ m.st = "SESSION_HOLD" /\ m'.st = "SESSION_HOLD" /\ ~m'.valid
                 /\ m'.k1Owned = m.k1Owned
              \/ /\ m.st \in {"IDLE", "DONE"} /\ m'.st = "IDLE" /\ ~m'.k1Owned
                 /\ m'.valid = m.valid
           /\ m'.phase = m.phase /\ Custody(m', m) /\ m'.err = m.err
           /\ m'.guard = m.guard /\ m'.quiet = m.quiet
           /\ m'.k1Reached = m.k1Reached /\ m'.connected = m.connected
           /\ m'.done = m.done /\ m'.req = m.req /\ m'.resume = m.resume
           /\ UNCHANGED <<permit, t, k1, rg, exc, adc, aux, faults, buf, open>>
<1>1. CASE m.st = "SESSION_HOLD"
  BY <1>1 DEF Acknowledge, TypeOK, MeasureRecord, Custody
<1>2. CASE m.st # "SESSION_HOLD"
  BY <1>2 DEF Acknowledge, TypeOK, MeasureRecord, Custody
<1> QED BY <1>1, <1>2

(* The surroundings.                                                       *)
LEMMA SuperviseEffect ==
    ASSUME TypeOK, Supervise
    PROVE  /\ faults \subseteq faults'
           /\ IF K1Owned THEN UNCHANGED <<k1, open>> ELSE Safer
           /\ \/ Stepped /\ faults' = faults
              \/ /\ rg'.fsm \in {"DISABLED", "INVALID"} /\ faults' # {}
                 /\ (~rg'.line /\ rg'.fsm = "DISABLED") \/ "RANGE_IO" \in faults'
           /\ t'.wait = t.wait /\ t'.resume = t.resume
           /\ UNCHANGED <<m, permit, exc, adc, aux, buf>>
<1>0. /\ k1 \in RelayRecord /\ rg \in RangeRecord /\ t \in Deadlines
  BY DEF TypeOK
<1> DEFINE seen(e) == faults \cup Latch("RANGE_IO", RangeStepped(e).fsm = "INVALID")
           kept(e, w) == seen(e) \cup Latch("K1_IO", ~K1Owned /\ w # "OK")
<1>1. PICK e \in Gpio : \E d, w \in Gpio :
        /\ t' = RangeDeadline(e)
        /\ IF K1Owned THEN UNCHANGED <<k1, open>> ELSE MoveK1(K1ForcedSafe(w))
        /\ rg' = IF kept(e, w) = {} THEN RangeStepped(e)
                 ELSE RangeForceDisabled(RangeStepped(e), d)
        /\ faults' = kept(e, w) \cup Latch("RANGE_IO", kept(e, w) # {} /\ d # "OK")
  BY DEF Supervise
<1>2. PICK d \in Gpio : \E w \in Gpio :
        /\ t' = RangeDeadline(e)
        /\ IF K1Owned THEN UNCHANGED <<k1, open>> ELSE MoveK1(K1ForcedSafe(w))
        /\ rg' = IF kept(e, w) = {} THEN RangeStepped(e)
                 ELSE RangeForceDisabled(RangeStepped(e), d)
        /\ faults' = kept(e, w) \cup Latch("RANGE_IO", kept(e, w) # {} /\ d # "OK")
  BY <1>1
<1>3. PICK w \in Gpio :
        /\ t' = RangeDeadline(e)
        /\ IF K1Owned THEN UNCHANGED <<k1, open>> ELSE MoveK1(K1ForcedSafe(w))
        /\ rg' = IF kept(e, w) = {} THEN RangeStepped(e)
                 ELSE RangeForceDisabled(RangeStepped(e), d)
        /\ faults' = kept(e, w) \cup Latch("RANGE_IO", kept(e, w) # {} /\ d # "OK")
  BY <1>2
<1>4. faults \subseteq kept(e, w) OBVIOUS
<1> DEFINE latched == kept(e, w)
<1>5. /\ faults \subseteq latched
      /\ rg' = IF latched = {} THEN RangeStepped(e)
               ELSE RangeForceDisabled(RangeStepped(e), d)
      /\ faults' = latched \cup Latch("RANGE_IO", latched # {} /\ d # "OK")
  BY <1>3, <1>4
<1> HIDE DEF latched
<1>6. IF K1Owned THEN UNCHANGED <<k1, open>> ELSE Safer
  BY <1>0, <1>3, ForcedSafeEffect
<1>7. t'.wait = t.wait /\ t'.resume = t.resume BY <1>0, <1>3, SteppedTime
<1>8. UNCHANGED <<m, permit, exc, adc, aux, buf>> BY DEF Supervise
<1>9. CASE latched = {}
  <2>1. Stepped BY <1>0, <1>5, <1>9, SteppedEffect
  <2>2. faults' = faults BY <1>5, <1>9 DEF Latch
  <2> QED BY <1>6, <1>7, <1>8, <2>1, <2>2
<1>10. CASE latched # {}
  <2>1. RangeStepped(e) \in RangeRecord BY <1>0, SteppedType
  <2>2. /\ rg'.fsm \in {"DISABLED", "INVALID"}
        /\ d = "OK" => ~rg'.line /\ rg'.fsm = "DISABLED"
    <3>1. rg' = RangeForceDisabled(RangeStepped(e), d) BY <1>5, <1>10
    <3>2. /\ rg'.fsm \in {"DISABLED", "INVALID"}
          /\ rg'.fsm = "DISABLED" => ~rg'.line
      BY <2>1, <3>1, DisablePost
    <3>3. d = "OK" => rg'.fsm = "DISABLED"
      BY <2>1, <3>1 DEF RangeForceDisabled, WriteEnable, RangeRecord
    <3> QED BY <3>2, <3>3
  <2>3. d # "OK" => "RANGE_IO" \in faults' BY <1>5, <1>10 DEF Latch
  <2>4. faults' # {} /\ faults \subseteq faults' BY <1>5, <1>10
  <2> QED BY <1>6, <1>7, <1>8, <2>2, <2>3, <2>4
<1> QED BY <1>9, <1>10

LEMMA SamplingEffect ==
    ASSUME TypeOK, Sampler
    PROVE  /\ aux'.paused = aux.paused /\ faults \subseteq faults'
           /\ aux'.power = aux.power \/ aux'.power = "NONE"
              \/ (aux.power = "SAMPLING" /\ aux'.power = "READY")
           /\ UNCHANGED <<m, permit, t, k1, rg, exc, adc, buf, open>>
<1>0. aux \in AuxRecord BY DEF TypeOK
<1>1. CASE AuxSample BY <1>0, <1>1 DEF AuxSample, AuxRecord
<1>2. CASE PowerSample BY <1>0, <1>2 DEF PowerSample, AuxRecord
<1>3. CASE AuxFailure BY <1>0, <1>3 DEF AuxFailure, AuxRecord
<1> QED BY <1>1, <1>2, <1>3 DEF Sampler

LEMMA InterruptEffect ==
    ASSUME TypeOK, Interrupt
    PROVE  /\ \/ /\ adc.dma = "RUN" /\ adc'.dma # "RUN" /\ adc'.owner = adc.owner
                 /\ exc' = exc
                 /\ \/ adc'.dma = "ERR" /\ buf' = buf
                    \/ buf' = [range |-> rg.current,
                               drive |-> IF exc.mode = "SINE" THEN exc.drive ELSE "NONE"]
              \/ /\ exc.mode = "SINE" /\ exc'.mode = "OFF" /\ exc'.err
                 /\ UNCHANGED <<adc, buf>>
           /\ UNCHANGED <<m, permit, t, k1, rg, aux, faults, open>>
<1>0. adc \in AdcRecord /\ exc \in ExcitationRecord BY DEF TypeOK
<1>1. CASE AdcDmaDone BY <1>0, <1>1 DEF AdcDmaDone, AdcRecord
<1>2. CASE AdcDmaError BY <1>0, <1>2 DEF AdcDmaError, AdcRecord
<1>3. CASE ExcDmaError BY <1>0, <1>3 DEF ExcDmaError, ExcitationRecord
<1> QED BY <1>1, <1>2, <1>3 DEF Interrupt

LEMMA ChargerChangeEffect ==
    ChargerChange =>
        UNCHANGED <<m, permit, t, k1, rg, exc, adc, aux, faults, buf, open>>
BY DEF ChargerChange

LEMMA TickEffect ==
    ASSUME TypeOK, Tick
    PROVE  /\ t'.wait = Decrement(t.wait) /\ t'.resume = Decrement(t.resume)
           /\ open' = IF k1.coil THEN 0 ELSE Increment(open, ReleaseGuard)
           /\ aux'.paused = aux.paused /\ aux'.power = aux.power
           /\ UNCHANGED <<m, permit, k1, rg, exc, adc, faults, buf>>
<1>0. t \in Deadlines /\ aux \in AuxRecord BY DEF TypeOK
<1>1. t'.wait = Decrement(t.wait) /\ t'.resume = Decrement(t.resume)
  BY <1>0 DEF Tick, Deadlines
<1>2. aux'.paused = aux.paused /\ aux'.power = aux.power
  BY <1>0 DEF Tick, AuxRecord
<1> QED BY <1>1, <1>2 DEF Tick

(***************************************************************************)
(* The custody of the converter and of the sensors.                        *)
(***************************************************************************)
Cleaning(phases) == m.st = "ABORT" /\ m.phase \in phases
WatchedStates ==    \* the sensors paused, the terminals or the guard behind
    (ClosedStates \ {"AUX_PAUSE", "K1_SAFE"}) \cup PowerStates
GivenBackStates == {"AUX_RESUME", "QUIET_EXIT", "ANALYZE", "IDLE", "DONE"}

(* Who has the converter knows it; a capture runs only where it is waited  *)
(* for; from the giving back on nothing is owned, nobody is paused, and    *)
(* nothing is quiet, unless the converter's failure is latched.            *)
CustodyInv ==
    /\ AdcExclusive
    /\ adc.dma = "RUN" => m.st = "ADC_DMA_WAIT" \/ Cleaning({"STOP_ADC"})
    /\ adc.owner = "DOWN" => m.adcOwned \/ "ADC_RUNTIME" \in faults
    /\ m.restoreFailed => "ADC_RUNTIME" \in faults
    /\ ~aux.paused => aux.power = "NONE"
    /\ m.st \in WatchedStates \/ (m.st \in SharedStates /\ m.connected) =>
          aux.paused /\ (m.st = "POWER_WAIT" \/ aux.power \notin {"SAMPLING", "ORPHANED"})
    /\ m.st \in GivenBackStates \/ Cleaning({"AUX_RESUME", "QUIET_OFF"}) => ~m.adcOwned
    /\ m.st \in GivenBackStates \ {"AUX_RESUME"} \/ Cleaning({"QUIET_OFF"}) =>
          ~aux.paused \/ "ADC_RUNTIME" \in faults
    /\ m.st \in {"ANALYZE", "IDLE", "DONE"} => ~m.quiet
    /\ m.st \in PermitStates => ~m.connected

LEMMA CustodyStep ==
    ASSUME TypeOK, AuthorityInv, CustodyInv, Next
    PROVE  CustodyInv'
<1>1. CASE RevokedStep
  BY <1>1, RevokedStepEffect
     DEF Fell, Carried, Custody, CustodyInv, AdcExclusive, Cleaning,
         WatchedStates, GivenBackStates, ClosedStates, SharedStates,
         PermitStates, PowerStates
<1>2. CASE ForceK1Safe
  BY <1>2, ForceK1SafeEffect
     DEF Fell, Moved, Carried, Custody, Safer, CustodyInv, AdcExclusive,
         Cleaning, WatchedStates, GivenBackStates, ClosedStates, SharedStates,
         PermitStates, PowerStates
<1>3. CASE RequestRange
  BY <1>3, RequestRangeEffect
     DEF Fell, Moved, Carried, Custody, CustodyInv, AdcExclusive, Cleaning,
         WatchedStates, GivenBackStates, ClosedStates, SharedStates,
         PermitStates, PowerStates
<1>4. CASE WaitRange
  BY <1>4, WaitRangeEffect
     DEF Fell, Moved, Carried, Custody, Stepped, CustodyInv, AdcExclusive,
         Cleaning, WatchedStates, GivenBackStates, ClosedStates, SharedStates,
         PermitStates, PowerStates
<1>5. CASE ExcNeutral
  BY <1>5, SettleNeutralEffect
     DEF ExcNeutral, Moved, Carried, Custody, CustodyInv, AdcExclusive,
         Cleaning, WatchedStates, GivenBackStates, ClosedStates, SharedStates,
         PermitStates, PowerStates
<1>6. CASE ExcNeutralWait
  BY <1>6, ExcNeutralWaitEffect
     DEF Moved, Carried, Custody, CustodyInv, AdcExclusive, Cleaning,
         WatchedStates, GivenBackStates, ClosedStates, SharedStates,
         PermitStates, PowerStates
<1>7. CASE QuietEnter
  BY <1>7, QuietEnterEffect
     DEF Carried, Custody, CustodyInv, AdcExclusive, Cleaning, WatchedStates,
         GivenBackStates, ClosedStates, SharedStates, PermitStates,
         PowerStates
<1>8. CASE PermitIssue
  BY <1>8, PermitIssueEffect
     DEF Fell, Moved, Carried, Custody, CustodyInv, AdcExclusive, Cleaning,
         WatchedStates, GivenBackStates, ClosedStates, SharedStates,
         PermitStates, PowerStates
<1>9. CASE PermitValidate
  BY <1>9, PermitValidateEffect
     DEF Fell, Moved, Carried, Custody, CustodyInv, AdcExclusive, Cleaning,
         WatchedStates, GivenBackStates, ClosedStates, SharedStates,
         PermitStates, PowerStates
<1>10. CASE K1Request
  BY <1>10, K1RequestEffect
     DEF Fell, Carried, Custody, CustodyInv, AdcExclusive, Cleaning,
         WatchedStates, GivenBackStates, ClosedStates, SharedStates,
         PermitStates, PowerStates
<1>11. CASE AuxPause
  BY <1>11, AuxPauseEffect
     DEF Moved, Carried, Custody, CustodyInv, AdcExclusive, Cleaning,
         WatchedStates, GivenBackStates, ClosedStates, SharedStates,
         PermitStates, PowerStates
<1>12. CASE K1OperateGuard
  BY <1>12, K1OperateGuardEffect
     DEF Moved, Carried, Custody, CustodyInv, AdcExclusive, Cleaning,
         WatchedStates, GivenBackStates, ClosedStates, SharedStates,
         PermitStates, PowerStates
<1>13. CASE AdcAcquire
  BY <1>13, AdcAcquireEffect
     DEF Taken, Fell, Carried, CustodyInv, AdcExclusive, Cleaning,
         WatchedStates, GivenBackStates, ClosedStates, SharedStates,
         PermitStates, PowerStates
<1>14. CASE ExcSineStart
  BY <1>14, ExcSineStartEffect
     DEF Fell, Moved, Carried, Custody, CustodyInv, AdcExclusive, Cleaning,
         WatchedStates, GivenBackStates, ClosedStates, SharedStates,
         PermitStates, PowerStates
<1>15. CASE ExcSettle
  BY <1>15, ExcSettleEffect
     DEF Fell, Moved, Carried, Custody, CustodyInv, AdcExclusive, Cleaning,
         WatchedStates, GivenBackStates, ClosedStates, SharedStates,
         PermitStates, PowerStates
<1>16. CASE AdcDmaStart
  BY <1>16, AdcDmaStartEffect
     DEF Fell, Moved, Carried, Custody, CustodyInv, AdcExclusive, Cleaning,
         WatchedStates, GivenBackStates, ClosedStates, SharedStates,
         PermitStates, PowerStates
<1>17. CASE AdcDmaWait
  BY <1>17, AdcDmaWaitEffect
     DEF Fell, Moved, Carried, Custody, CustodyInv, AdcExclusive, Cleaning,
         WatchedStates, GivenBackStates, ClosedStates, SharedStates,
         PermitStates, PowerStates
<1>18. CASE AdcDmaComplete
  BY <1>18, StopAdcEffect
     DEF AdcDmaComplete, Moved, Carried, Custody, CustodyInv, AdcExclusive,
         Cleaning, WatchedStates, GivenBackStates, ClosedStates, SharedStates,
         PermitStates, PowerStates
<1>19. CASE ExcNeutralPost
  BY <1>19, SettleNeutralEffect
     DEF ExcNeutralPost, Moved, Carried, Custody, CustodyInv, AdcExclusive,
         Cleaning, WatchedStates, GivenBackStates, ClosedStates, SharedStates,
         PermitStates, PowerStates
<1>20. CASE ExcNeutralPostWait
  BY <1>20, ExcNeutralPostWaitEffect
     DEF Ends, Moved, Carried, Custody, CustodyInv, AdcExclusive, Cleaning,
         WatchedStates, GivenBackStates, ClosedStates, SharedStates,
         PermitStates, PowerStates
<1>21. CASE PowerRefresh
  BY <1>21, PowerRefreshEffect
     DEF Custody, CustodyInv, AdcExclusive, Cleaning, WatchedStates,
         GivenBackStates, ClosedStates, SharedStates, PermitStates,
         PowerStates
<1>22. CASE PowerRestore
  BY <1>22, PowerRestoreEffect
     DEF NotGivenBack, Fell, Carried, SamplerDisturbed, CustodyInv,
         AdcExclusive, Cleaning, WatchedStates, GivenBackStates, ClosedStates,
         SharedStates, PermitStates, PowerStates
<1>23. CASE PowerWait
  BY <1>23, PowerWaitEffect
     DEF Fell, Moved, Carried, Custody, CustodyInv, AdcExclusive, Cleaning,
         WatchedStates, GivenBackStates, ClosedStates, SharedStates,
         PermitStates, PowerStates
<1>24. CASE PowerAcquire
  BY <1>24, PowerAcquireEffect
     DEF Taken, Fell, Carried, CustodyInv, AdcExclusive, Cleaning,
         WatchedStates, GivenBackStates, ClosedStates, SharedStates,
         PermitStates, PowerStates, AuthorityInv, TypeOK, MeasureRecord
<1>25. CASE K1Safe
  BY <1>25, K1SafeEffect
     DEF Fell, Carried, Custody, Safer, CustodyInv, AdcExclusive, Cleaning,
         WatchedStates, GivenBackStates, ClosedStates, SharedStates,
         PermitStates, PowerStates
<1>26. CASE K1ReleaseGuard
  BY <1>26, K1ReleaseGuardEffect
     DEF Carried, Custody, CustodyInv, AdcExclusive, Cleaning, WatchedStates,
         GivenBackStates, ClosedStates, SharedStates, PermitStates,
         PowerStates
<1>27. CASE ExcOff
  BY <1>27, ExcOffEffect
     DEF Moved, Carried, Custody, CustodyInv, AdcExclusive, Cleaning,
         WatchedStates, GivenBackStates, ClosedStates, SharedStates,
         PermitStates, PowerStates
<1>28. CASE RangeDisable
  BY <1>28, RangeDisableEffect
     DEF Fell, Moved, Carried, Custody, CustodyInv, AdcExclusive, Cleaning,
         WatchedStates, GivenBackStates, ClosedStates, SharedStates,
         PermitStates, PowerStates
<1>29. CASE AdcRelease
  BY <1>29, StopAdcEffect
     DEF AdcRelease, Moved, Carried, Custody, CustodyInv, AdcExclusive,
         Cleaning, WatchedStates, GivenBackStates, ClosedStates, SharedStates,
         PermitStates, PowerStates
<1>30. CASE AdcRestore
  BY <1>30, AdcRestoreEffect
     DEF NotGivenBack, Fell, Carried, SamplerDisturbed, CustodyInv,
         AdcExclusive, Cleaning, WatchedStates, GivenBackStates, ClosedStates,
         SharedStates, PermitStates, PowerStates
<1>31. CASE AuxResume
  BY <1>31, AuxResumeEffect
     DEF Moved, Carried, Custody, CustodyInv, AdcExclusive, Cleaning,
         WatchedStates, GivenBackStates, ClosedStates, SharedStates,
         PermitStates, PowerStates
<1>32. CASE QuietExit
  BY <1>32, QuietExitEffect
     DEF Carried, Custody, CustodyInv, AdcExclusive, Cleaning, WatchedStates,
         GivenBackStates, ClosedStates, SharedStates, PermitStates,
         PowerStates
<1>33. CASE Analyze
  BY <1>33, AnalyzeEffect
     DEF Ends, Carried, Custody, CustodyInv, AdcExclusive, Cleaning,
         WatchedStates, GivenBackStates, ClosedStates, SharedStates,
         PermitStates, PowerStates
<1>34. CASE AbortStop
  BY <1>34, AbortStopEffect
     DEF Custody, Safer, CustodyInv, AdcExclusive, Cleaning, WatchedStates,
         GivenBackStates, ClosedStates, SharedStates, PermitStates,
         PowerStates
<1>35. CASE AbortReleaseGuard
  BY <1>35, AbortReleaseGuardEffect
     DEF Carried, Custody, CustodyInv, AdcExclusive, Cleaning, WatchedStates,
         GivenBackStates, ClosedStates, SharedStates, PermitStates,
         PowerStates
<1>36. CASE AbortAdcRestore
  BY <1>36, AbortAdcRestoreEffect
     DEF Carried, Custody, SamplerDisturbed, CustodyInv, AdcExclusive,
         Cleaning, WatchedStates, GivenBackStates, ClosedStates, SharedStates,
         PermitStates, PowerStates
<1>37. CASE AbortAuxResume
  BY <1>37, AbortAuxResumeEffect
     DEF Carried, Custody, CustodyInv, AdcExclusive, Cleaning, WatchedStates,
         GivenBackStates, ClosedStates, SharedStates, PermitStates,
         PowerStates
<1>38. CASE AbortQuietOff
  BY <1>38, AbortQuietOffEffect
     DEF Carried, Custody, CustodyInv, AdcExclusive, Cleaning, WatchedStates,
         GivenBackStates, ClosedStates, SharedStates, PermitStates,
         PowerStates
<1>39. CASE \E q \in Requests : Start(q)
  BY <1>39, StartEffect
     DEF Begun, Safer, CustodyInv, AdcExclusive, Cleaning, WatchedStates,
         GivenBackStates, ClosedStates, SharedStates, PermitStates,
         PowerStates
<1>40. CASE \E q \in Requests : Continue(q)
  BY <1>40, ContinueEffect
     DEF Fell, Carried, Custody, CustodyInv, AdcExclusive, Cleaning,
         WatchedStates, GivenBackStates, ClosedStates, SharedStates,
         PermitStates, PowerStates
<1>41. CASE Abort
  BY <1>41, AbortEffect
     DEF Fell, Carried, Custody, CustodyInv, AdcExclusive, Cleaning,
         WatchedStates, GivenBackStates, ClosedStates, SharedStates,
         PermitStates, PowerStates
<1>42. CASE FinishSession
  BY <1>42, FinishSessionEffect
     DEF Moved, Carried, Custody, CustodyInv, AdcExclusive, Cleaning,
         WatchedStates, GivenBackStates, ClosedStates, SharedStates,
         PermitStates, PowerStates
<1>43. CASE Acknowledge
  BY <1>43, AcknowledgeEffect
     DEF Custody, CustodyInv, AdcExclusive, Cleaning, WatchedStates,
         GivenBackStates, ClosedStates, SharedStates, PermitStates,
         PowerStates
<1>44. CASE Supervise
  BY <1>44, SuperviseEffect
     DEF Stepped, Safer, CustodyInv, AdcExclusive, Cleaning, WatchedStates,
         GivenBackStates, ClosedStates, SharedStates, PermitStates,
         PowerStates
<1>45. CASE Sampler
  BY <1>45, SamplingEffect
     DEF CustodyInv, AdcExclusive, Cleaning, WatchedStates, GivenBackStates,
         ClosedStates, SharedStates, PermitStates, PowerStates
<1>46. CASE Interrupt
  BY <1>46, InterruptEffect
     DEF CustodyInv, AdcExclusive, Cleaning, WatchedStates, GivenBackStates,
         ClosedStates, SharedStates, PermitStates, PowerStates
<1>47. CASE ChargerChange
  BY <1>47, ChargerChangeEffect
     DEF CustodyInv, AdcExclusive, Cleaning, WatchedStates, GivenBackStates,
         ClosedStates, SharedStates, PermitStates, PowerStates
<1>48. CASE Tick
  BY <1>48, TickEffect
     DEF CustodyInv, AdcExclusive, Cleaning, WatchedStates, GivenBackStates,
         ClosedStates, SharedStates, PermitStates, PowerStates
<1> QED BY <1>1, <1>2, <1>3, <1>4, <1>5, <1>6, <1>7, <1>8, <1>9, <1>10, <1>11,
     <1>12, <1>13, <1>14, <1>15, <1>16, <1>17, <1>18, <1>19, <1>20, <1>21,
     <1>22, <1>23, <1>24, <1>25, <1>26, <1>27, <1>28, <1>29, <1>30, <1>31,
     <1>32, <1>33, <1>34, <1>35, <1>36, <1>37, <1>38, <1>39, <1>40, <1>41,
     <1>42, <1>43, <1>44, <1>45, <1>46, <1>47, <1>48
     DEF Next, MeasureStep, PrepareStep, ConnectedStep, ReleaseStep,
         AbortStep, Owner

LEMMA CustodyAlways == Spec => []CustodyInv
<1>1. Init => CustodyInv
  BY DEF Init, CustodyInv, AdcExclusive, Cleaning, WatchedStates,
         GivenBackStates, ClosedStates, SharedStates, PermitStates, PowerStates
<1>2. TypeOK /\ AuthorityInv /\ CustodyInv /\ [Next]_vars => CustodyInv'
  <2>1. CustodyInv /\ UNCHANGED vars => CustodyInv'
    BY DEF vars, CustodyInv, AdcExclusive, Cleaning
  <2> QED BY <2>1, CustodyStep
<1> QED BY <1>1, <1>2, MeasureTypeCorrect, AuthorityAlways, PTL DEF Spec

(* The converter serves one master: the metrology pair only while the      *)
(* sensors are paused and take no power sample, a capture only in the      *)
(* state that waits for it or in the first phase of an abort.              *)
THEOREM ConverterHasOneMaster == Spec => []AdcExclusive
<1>1. CustodyInv => AdcExclusive BY DEF CustodyInv
<1> QED BY <1>1, CustodyAlways, PTL

(***************************************************************************)
(* What is put away: the source, the multiplexer.                          *)
(***************************************************************************)
OffStates == {"ADC_RELEASE", "ADC_RESTORE"} \cup GivenBackStates
PutAway == m.st \in OffStates \/ (m.st = "ABORT" /\ m.phase # "STOP_ADC")

OffInv ==
    /\ m.st = "RANGE_DISABLE" \/ PutAway => exc.mode = "OFF"
    /\ PutAway => (~rg.line /\ rg.fsm = "DISABLED") \/ "RANGE_IO" \in faults

LEMMA OffStep ==
    ASSUME TypeOK, AuthorityInv, OffInv, Next
    PROVE  OffInv'
<1>1. CASE RevokedStep
  BY <1>1, RevokedStepEffect
     DEF Fell, Carried, Custody, OffInv, PutAway, OffStates, GivenBackStates,
         PowerStates
<1>2. CASE ForceK1Safe
  BY <1>2, ForceK1SafeEffect
     DEF Fell, Moved, Carried, Custody, Safer, OffInv, PutAway, OffStates,
         GivenBackStates, PowerStates
<1>3. CASE RequestRange
  BY <1>3, RequestRangeEffect
     DEF Fell, Moved, Carried, Custody, OffInv, PutAway, OffStates,
         GivenBackStates, PowerStates
<1>4. CASE WaitRange
  BY <1>4, WaitRangeEffect
     DEF Fell, Moved, Carried, Custody, Stepped, OffInv, PutAway, OffStates,
         GivenBackStates, PowerStates
<1>5. CASE ExcNeutral
  BY <1>5, SettleNeutralEffect
     DEF ExcNeutral, Moved, Carried, Custody, OffInv, PutAway, OffStates,
         GivenBackStates, PowerStates
<1>6. CASE ExcNeutralWait
  BY <1>6, ExcNeutralWaitEffect
     DEF Moved, Carried, Custody, OffInv, PutAway, OffStates, GivenBackStates,
         PowerStates
<1>7. CASE QuietEnter
  BY <1>7, QuietEnterEffect
     DEF Carried, Custody, OffInv, PutAway, OffStates, GivenBackStates,
         PowerStates
<1>8. CASE PermitIssue
  BY <1>8, PermitIssueEffect
     DEF Fell, Moved, Carried, Custody, OffInv, PutAway, OffStates,
         GivenBackStates, PowerStates
<1>9. CASE PermitValidate
  BY <1>9, PermitValidateEffect
     DEF Fell, Moved, Carried, Custody, OffInv, PutAway, OffStates,
         GivenBackStates, PowerStates
<1>10. CASE K1Request
  BY <1>10, K1RequestEffect
     DEF Fell, Carried, Custody, OffInv, PutAway, OffStates, GivenBackStates,
         PowerStates
<1>11. CASE AuxPause
  BY <1>11, AuxPauseEffect
     DEF Moved, Carried, Custody, OffInv, PutAway, OffStates, GivenBackStates,
         PowerStates
<1>12. CASE K1OperateGuard
  BY <1>12, K1OperateGuardEffect
     DEF Moved, Carried, Custody, OffInv, PutAway, OffStates, GivenBackStates,
         PowerStates
<1>13. CASE AdcAcquire
  BY <1>13, AdcAcquireEffect
     DEF Taken, Fell, Carried, OffInv, PutAway, OffStates, GivenBackStates,
         PowerStates
<1>14. CASE ExcSineStart
  BY <1>14, ExcSineStartEffect
     DEF Fell, Moved, Carried, Custody, OffInv, PutAway, OffStates,
         GivenBackStates, PowerStates
<1>15. CASE ExcSettle
  BY <1>15, ExcSettleEffect
     DEF Fell, Moved, Carried, Custody, OffInv, PutAway, OffStates,
         GivenBackStates, PowerStates
<1>16. CASE AdcDmaStart
  BY <1>16, AdcDmaStartEffect
     DEF Fell, Moved, Carried, Custody, OffInv, PutAway, OffStates,
         GivenBackStates, PowerStates
<1>17. CASE AdcDmaWait
  BY <1>17, AdcDmaWaitEffect
     DEF Fell, Moved, Carried, Custody, OffInv, PutAway, OffStates,
         GivenBackStates, PowerStates
<1>18. CASE AdcDmaComplete
  BY <1>18, StopAdcEffect
     DEF AdcDmaComplete, Moved, Carried, Custody, OffInv, PutAway, OffStates,
         GivenBackStates, PowerStates
<1>19. CASE ExcNeutralPost
  BY <1>19, SettleNeutralEffect
     DEF ExcNeutralPost, Moved, Carried, Custody, OffInv, PutAway, OffStates,
         GivenBackStates, PowerStates
<1>20. CASE ExcNeutralPostWait
  BY <1>20, ExcNeutralPostWaitEffect
     DEF Ends, Moved, Carried, Custody, OffInv, PutAway, OffStates,
         GivenBackStates, PowerStates
<1>21. CASE PowerRefresh
  BY <1>21, PowerRefreshEffect
     DEF Custody, OffInv, PutAway, OffStates, GivenBackStates, PowerStates
<1>22. CASE PowerRestore
  BY <1>22, PowerRestoreEffect
     DEF NotGivenBack, Fell, Carried, SamplerDisturbed, OffInv, PutAway,
         OffStates, GivenBackStates, PowerStates
<1>23. CASE PowerWait
  BY <1>23, PowerWaitEffect
     DEF Fell, Moved, Carried, Custody, OffInv, PutAway, OffStates,
         GivenBackStates, PowerStates
<1>24. CASE PowerAcquire
  BY <1>24, PowerAcquireEffect
     DEF Taken, Fell, Carried, OffInv, PutAway, OffStates, GivenBackStates,
         PowerStates, AuthorityInv, TypeOK, MeasureRecord
<1>25. CASE K1Safe
  BY <1>25, K1SafeEffect
     DEF Fell, Carried, Custody, Safer, OffInv, PutAway, OffStates,
         GivenBackStates, PowerStates
<1>26. CASE K1ReleaseGuard
  BY <1>26, K1ReleaseGuardEffect
     DEF Carried, Custody, OffInv, PutAway, OffStates, GivenBackStates,
         PowerStates
<1>27. CASE ExcOff
  BY <1>27, ExcOffEffect
     DEF Moved, Carried, Custody, OffInv, PutAway, OffStates, GivenBackStates,
         PowerStates
<1>28. CASE RangeDisable
  BY <1>28, RangeDisableEffect
     DEF Fell, Moved, Carried, Custody, OffInv, PutAway, OffStates,
         GivenBackStates, PowerStates
<1>29. CASE AdcRelease
  BY <1>29, StopAdcEffect
     DEF AdcRelease, Moved, Carried, Custody, OffInv, PutAway, OffStates,
         GivenBackStates, PowerStates
<1>30. CASE AdcRestore
  BY <1>30, AdcRestoreEffect
     DEF NotGivenBack, Fell, Carried, SamplerDisturbed, OffInv, PutAway,
         OffStates, GivenBackStates, PowerStates
<1>31. CASE AuxResume
  BY <1>31, AuxResumeEffect
     DEF Moved, Carried, Custody, OffInv, PutAway, OffStates, GivenBackStates,
         PowerStates
<1>32. CASE QuietExit
  BY <1>32, QuietExitEffect
     DEF Carried, Custody, OffInv, PutAway, OffStates, GivenBackStates,
         PowerStates
<1>33. CASE Analyze
  BY <1>33, AnalyzeEffect
     DEF Ends, Carried, Custody, OffInv, PutAway, OffStates, GivenBackStates,
         PowerStates
<1>34. CASE AbortStop
  BY <1>34, AbortStopEffect
     DEF Custody, Safer, OffInv, PutAway, OffStates, GivenBackStates,
         PowerStates
<1>35. CASE AbortReleaseGuard
  BY <1>35, AbortReleaseGuardEffect
     DEF Carried, Custody, OffInv, PutAway, OffStates, GivenBackStates,
         PowerStates
<1>36. CASE AbortAdcRestore
  BY <1>36, AbortAdcRestoreEffect
     DEF Carried, Custody, SamplerDisturbed, OffInv, PutAway, OffStates,
         GivenBackStates, PowerStates
<1>37. CASE AbortAuxResume
  BY <1>37, AbortAuxResumeEffect
     DEF Carried, Custody, OffInv, PutAway, OffStates, GivenBackStates,
         PowerStates
<1>38. CASE AbortQuietOff
  BY <1>38, AbortQuietOffEffect
     DEF Carried, Custody, OffInv, PutAway, OffStates, GivenBackStates,
         PowerStates
<1>39. CASE \E q \in Requests : Start(q)
  BY <1>39, StartEffect
     DEF Begun, Safer, OffInv, PutAway, OffStates, GivenBackStates,
         PowerStates
<1>40. CASE \E q \in Requests : Continue(q)
  BY <1>40, ContinueEffect
     DEF Fell, Carried, Custody, OffInv, PutAway, OffStates, GivenBackStates,
         PowerStates
<1>41. CASE Abort
  BY <1>41, AbortEffect
     DEF Fell, Carried, Custody, OffInv, PutAway, OffStates, GivenBackStates,
         PowerStates
<1>42. CASE FinishSession
  BY <1>42, FinishSessionEffect
     DEF Moved, Carried, Custody, OffInv, PutAway, OffStates, GivenBackStates,
         PowerStates
<1>43. CASE Acknowledge
  BY <1>43, AcknowledgeEffect
     DEF Custody, OffInv, PutAway, OffStates, GivenBackStates, PowerStates
<1>44. CASE Supervise
  BY <1>44, SuperviseEffect
     DEF Stepped, Safer, OffInv, PutAway, OffStates, GivenBackStates,
         PowerStates
<1>45. CASE Sampler
  BY <1>45, SamplingEffect
     DEF OffInv, PutAway, OffStates, GivenBackStates, PowerStates
<1>46. CASE Interrupt
  BY <1>46, InterruptEffect
     DEF OffInv, PutAway, OffStates, GivenBackStates, PowerStates
<1>47. CASE ChargerChange
  BY <1>47, ChargerChangeEffect
     DEF OffInv, PutAway, OffStates, GivenBackStates, PowerStates
<1>48. CASE Tick
  BY <1>48, TickEffect
     DEF OffInv, PutAway, OffStates, GivenBackStates, PowerStates
<1> QED BY <1>1, <1>2, <1>3, <1>4, <1>5, <1>6, <1>7, <1>8, <1>9, <1>10, <1>11,
     <1>12, <1>13, <1>14, <1>15, <1>16, <1>17, <1>18, <1>19, <1>20, <1>21,
     <1>22, <1>23, <1>24, <1>25, <1>26, <1>27, <1>28, <1>29, <1>30, <1>31,
     <1>32, <1>33, <1>34, <1>35, <1>36, <1>37, <1>38, <1>39, <1>40, <1>41,
     <1>42, <1>43, <1>44, <1>45, <1>46, <1>47, <1>48
     DEF Next, MeasureStep, PrepareStep, ConnectedStep, ReleaseStep,
         AbortStep, Owner

(* A transaction at rest holds nothing, whatever failed on the way: relay, *)
(* quiet mode, converter and sensors are given back, source and            *)
(* multiplexer are off, or the failure that kept one of them is latched.   *)
THEOREM RestIsSafe == Spec => []RestHoldsNothing
<1>1. Init => OffInv
  <2>1. Init => ~rg.line /\ rg.fsm = "DISABLED"
    BY DEF Init, RangeBoot, WriteEnable, WriteAddress
  <2> QED BY <2>1 DEF Init, OffInv
<1>2. TypeOK /\ AuthorityInv /\ OffInv /\ [Next]_vars => OffInv'
  <2>1. OffInv /\ UNCHANGED vars => OffInv' BY DEF vars, OffInv, PutAway
  <2> QED BY <2>1, OffStep
<1>3. TypeOK /\ AuthorityInv /\ CustodyInv /\ OffInv => RestHoldsNothing
  BY DEF TypeOK, AdcRecord, AuthorityInv, ConnectedIsAuthorised, K1Owned, Active,
         CustodyInv, AdcExclusive, GivenBackStates, OffInv, PutAway, OffStates,
         RestHoldsNothing
<1> QED BY <1>1, <1>2, <1>3, MeasureTypeCorrect, AuthorityAlways, CustodyAlways,
          PTL DEF Spec

(***************************************************************************)
(* The release guard.                                                      *)
(***************************************************************************)
Opened(toGo) ==     \* the contact is open, for good when toGo has passed
    (~k1.coil /\ open + toGo >= ReleaseGuard) \/ "K1_IO" \in faults

GuardInv ==
    /\ ~m.k1Reached => Opened(0)
    /\ m.st \in {"EXC_OFF", "RANGE_DISABLE"} \cup OffStates => Opened(0)
    /\ m.st = "K1_RELEASE_GUARD" \/ Cleaning({"RELEASE_GUARD"}) => Opened(t.wait)
    /\ m.st = "ABORT" => m.guard = m.k1Reached
    /\ m.st = "ABORT" /\ m.phase \notin {"STOP_ADC", "RELEASE_GUARD"} => Opened(0)

LEMMA GuardStep ==
    ASSUME TypeOK, AuthorityInv, GuardInv, Next
    PROVE  GuardInv'
<1>0. /\ ReleaseGuard \in Nat /\ open \in 0 .. ReleaseGuard
      /\ open' \in 0 .. ReleaseGuard
  BY NextType, ConstantTypes DEF TypeOK
<1>1. CASE RevokedStep
  BY <1>1, RevokedStepEffect
     DEF Fell, Carried, Custody, GuardInv, Opened, Cleaning, OffStates,
         GivenBackStates, PowerStates
<1>2. CASE ForceK1Safe
  BY <1>2, ForceK1SafeEffect
     DEF Fell, Moved, Carried, Custody, Safer, GuardInv, Opened, Cleaning,
         OffStates, GivenBackStates, PowerStates
<1>3. CASE RequestRange
  BY <1>3, RequestRangeEffect
     DEF Fell, Moved, Carried, Custody, GuardInv, Opened, Cleaning, OffStates,
         GivenBackStates, PowerStates
<1>4. CASE WaitRange
  BY <1>4, WaitRangeEffect
     DEF Fell, Moved, Carried, Custody, Stepped, GuardInv, Opened, Cleaning,
         OffStates, GivenBackStates, PowerStates
<1>5. CASE ExcNeutral
  BY <1>5, SettleNeutralEffect
     DEF ExcNeutral, Moved, Carried, Custody, GuardInv, Opened, Cleaning,
         OffStates, GivenBackStates, PowerStates
<1>6. CASE ExcNeutralWait
  BY <1>6, ExcNeutralWaitEffect
     DEF Moved, Carried, Custody, GuardInv, Opened, Cleaning, OffStates,
         GivenBackStates, PowerStates
<1>7. CASE QuietEnter
  BY <1>7, QuietEnterEffect
     DEF Carried, Custody, GuardInv, Opened, Cleaning, OffStates,
         GivenBackStates, PowerStates
<1>8. CASE PermitIssue
  BY <1>8, PermitIssueEffect
     DEF Fell, Moved, Carried, Custody, GuardInv, Opened, Cleaning, OffStates,
         GivenBackStates, PowerStates
<1>9. CASE PermitValidate
  BY <1>9, PermitValidateEffect
     DEF Fell, Moved, Carried, Custody, GuardInv, Opened, Cleaning, OffStates,
         GivenBackStates, PowerStates
<1>10. CASE K1Request
  BY <1>10, K1RequestEffect
     DEF Fell, Carried, Custody, GuardInv, Opened, Cleaning, OffStates,
         GivenBackStates, PowerStates
<1>11. CASE AuxPause
  BY <1>11, AuxPauseEffect
     DEF Moved, Carried, Custody, GuardInv, Opened, Cleaning, OffStates,
         GivenBackStates, PowerStates
<1>12. CASE K1OperateGuard
  BY <1>12, K1OperateGuardEffect
     DEF Moved, Carried, Custody, GuardInv, Opened, Cleaning, OffStates,
         GivenBackStates, PowerStates
<1>13. CASE AdcAcquire
  BY <1>13, AdcAcquireEffect
     DEF Taken, Fell, Carried, GuardInv, Opened, Cleaning, OffStates,
         GivenBackStates, PowerStates
<1>14. CASE ExcSineStart
  BY <1>14, ExcSineStartEffect
     DEF Fell, Moved, Carried, Custody, GuardInv, Opened, Cleaning, OffStates,
         GivenBackStates, PowerStates
<1>15. CASE ExcSettle
  BY <1>15, ExcSettleEffect
     DEF Fell, Moved, Carried, Custody, GuardInv, Opened, Cleaning, OffStates,
         GivenBackStates, PowerStates
<1>16. CASE AdcDmaStart
  BY <1>16, AdcDmaStartEffect
     DEF Fell, Moved, Carried, Custody, GuardInv, Opened, Cleaning, OffStates,
         GivenBackStates, PowerStates
<1>17. CASE AdcDmaWait
  BY <1>17, AdcDmaWaitEffect
     DEF Fell, Moved, Carried, Custody, GuardInv, Opened, Cleaning, OffStates,
         GivenBackStates, PowerStates
<1>18. CASE AdcDmaComplete
  BY <1>18, StopAdcEffect
     DEF AdcDmaComplete, Moved, Carried, Custody, GuardInv, Opened, Cleaning,
         OffStates, GivenBackStates, PowerStates
<1>19. CASE ExcNeutralPost
  BY <1>19, SettleNeutralEffect
     DEF ExcNeutralPost, Moved, Carried, Custody, GuardInv, Opened, Cleaning,
         OffStates, GivenBackStates, PowerStates
<1>20. CASE ExcNeutralPostWait
  BY <1>20, ExcNeutralPostWaitEffect
     DEF Ends, Moved, Carried, Custody, GuardInv, Opened, Cleaning, OffStates,
         GivenBackStates, PowerStates
<1>21. CASE PowerRefresh
  BY <1>21, PowerRefreshEffect
     DEF Custody, GuardInv, Opened, Cleaning, OffStates, GivenBackStates,
         PowerStates
<1>22. CASE PowerRestore
  BY <1>22, PowerRestoreEffect
     DEF NotGivenBack, Fell, Carried, SamplerDisturbed, GuardInv, Opened,
         Cleaning, OffStates, GivenBackStates, PowerStates
<1>23. CASE PowerWait
  BY <1>23, PowerWaitEffect
     DEF Fell, Moved, Carried, Custody, GuardInv, Opened, Cleaning, OffStates,
         GivenBackStates, PowerStates
<1>24. CASE PowerAcquire
  BY <1>24, PowerAcquireEffect
     DEF Taken, Fell, Carried, GuardInv, Opened, Cleaning, OffStates,
         GivenBackStates, PowerStates, AuthorityInv, TypeOK, MeasureRecord
<1>25. CASE K1Safe
  <2>1. Opened(0) => Opened(0)'
    BY <1>25, <1>0, K1SafeEffect DEF Opened, Safer
  <2>2. m'.st = "K1_RELEASE_GUARD" => Opened(t.wait)'
    BY <1>25, <1>0, K1SafeEffect DEF Opened, Fell
  <2>3. m'.k1Reached = m.k1Reached /\ m'.st \in {"K1_RELEASE_GUARD", "ABORT"}
        /\ (m'.st = "ABORT" => m'.phase = "STOP_ADC" /\ m'.guard = m.k1Reached)
    BY <1>25, K1SafeEffect DEF Fell, Carried, TypeOK, MeasureRecord
  <2> QED BY <2>1, <2>2, <2>3 DEF GuardInv, Cleaning, OffStates, GivenBackStates
<1>26. CASE K1ReleaseGuard
  BY <1>26, K1ReleaseGuardEffect, <1>0
     DEF Carried, Custody, GuardInv, Opened, Cleaning, OffStates,
         GivenBackStates, PowerStates
<1>27. CASE ExcOff
  BY <1>27, ExcOffEffect
     DEF Moved, Carried, Custody, GuardInv, Opened, Cleaning, OffStates,
         GivenBackStates, PowerStates
<1>28. CASE RangeDisable
  BY <1>28, RangeDisableEffect
     DEF Fell, Moved, Carried, Custody, GuardInv, Opened, Cleaning, OffStates,
         GivenBackStates, PowerStates
<1>29. CASE AdcRelease
  BY <1>29, StopAdcEffect
     DEF AdcRelease, Moved, Carried, Custody, GuardInv, Opened, Cleaning,
         OffStates, GivenBackStates, PowerStates
<1>30. CASE AdcRestore
  BY <1>30, AdcRestoreEffect
     DEF NotGivenBack, Fell, Carried, SamplerDisturbed, GuardInv, Opened,
         Cleaning, OffStates, GivenBackStates, PowerStates
<1>31. CASE AuxResume
  BY <1>31, AuxResumeEffect
     DEF Moved, Carried, Custody, GuardInv, Opened, Cleaning, OffStates,
         GivenBackStates, PowerStates
<1>32. CASE QuietExit
  BY <1>32, QuietExitEffect
     DEF Carried, Custody, GuardInv, Opened, Cleaning, OffStates,
         GivenBackStates, PowerStates
<1>33. CASE Analyze
  BY <1>33, AnalyzeEffect
     DEF Ends, Carried, Custody, GuardInv, Opened, Cleaning, OffStates,
         GivenBackStates, PowerStates
<1>34. CASE AbortStop
  <2>1. Opened(0) => Opened(0)'
    BY <1>34, <1>0, AbortStopEffect DEF Opened, Safer
  <2>2. m.guard => Opened(t.wait)'
    BY <1>34, <1>0, AbortStopEffect DEF Opened
  <2>3. /\ m'.k1Reached = m.k1Reached /\ m.guard = m.k1Reached /\ m'.guard = m.guard
        /\ m'.st = "ABORT"
        /\ m'.phase = (IF m.guard THEN "RELEASE_GUARD" ELSE "ADC_RESTORE")
    BY <1>34, AbortStopEffect DEF GuardInv
  <2>4. ~m.guard => Opened(0) BY <2>3 DEF GuardInv
  <2> QED BY <2>1, <2>2, <2>3, <2>4 DEF GuardInv, Cleaning, OffStates, GivenBackStates
<1>35. CASE AbortReleaseGuard
  BY <1>35, AbortReleaseGuardEffect, <1>0
     DEF Carried, Custody, GuardInv, Opened, Cleaning, OffStates,
         GivenBackStates, PowerStates
<1>36. CASE AbortAdcRestore
  BY <1>36, AbortAdcRestoreEffect
     DEF Carried, Custody, SamplerDisturbed, GuardInv, Opened, Cleaning,
         OffStates, GivenBackStates, PowerStates
<1>37. CASE AbortAuxResume
  BY <1>37, AbortAuxResumeEffect
     DEF Carried, Custody, GuardInv, Opened, Cleaning, OffStates,
         GivenBackStates, PowerStates
<1>38. CASE AbortQuietOff
  BY <1>38, AbortQuietOffEffect
     DEF Carried, Custody, GuardInv, Opened, Cleaning, OffStates,
         GivenBackStates, PowerStates
<1>39. CASE \E q \in Requests : Start(q)
  BY <1>39, StartEffect
     DEF Begun, Safer, GuardInv, Opened, Cleaning, OffStates, GivenBackStates,
         PowerStates
<1>40. CASE \E q \in Requests : Continue(q)
  BY <1>40, ContinueEffect
     DEF Fell, Carried, Custody, GuardInv, Opened, Cleaning, OffStates,
         GivenBackStates, PowerStates
<1>41. CASE Abort
  BY <1>41, AbortEffect
     DEF Fell, Carried, Custody, GuardInv, Opened, Cleaning, OffStates,
         GivenBackStates, PowerStates
<1>42. CASE FinishSession
  BY <1>42, FinishSessionEffect
     DEF Moved, Carried, Custody, GuardInv, Opened, Cleaning, OffStates,
         GivenBackStates, PowerStates
<1>43. CASE Acknowledge
  BY <1>43, AcknowledgeEffect
     DEF Custody, GuardInv, Opened, Cleaning, OffStates, GivenBackStates,
         PowerStates
<1>44. CASE Supervise
  BY <1>44, SuperviseEffect
     DEF Stepped, Safer, GuardInv, Opened, Cleaning, OffStates,
         GivenBackStates, PowerStates
<1>45. CASE Sampler
  BY <1>45, SamplingEffect
     DEF GuardInv, Opened, Cleaning, OffStates, GivenBackStates, PowerStates
<1>46. CASE Interrupt
  BY <1>46, InterruptEffect
     DEF GuardInv, Opened, Cleaning, OffStates, GivenBackStates, PowerStates
<1>47. CASE ChargerChange
  BY <1>47, ChargerChangeEffect
     DEF GuardInv, Opened, Cleaning, OffStates, GivenBackStates, PowerStates
<1>48. CASE Tick
  BY <1>48, TickEffect, ConstantTypes
     DEF GuardInv, Opened, Cleaning, OffStates, GivenBackStates, PowerStates,
         TypeOK, Deadlines, Decrement, Increment
<1> QED BY <1>1, <1>2, <1>3, <1>4, <1>5, <1>6, <1>7, <1>8, <1>9, <1>10, <1>11,
     <1>12, <1>13, <1>14, <1>15, <1>16, <1>17, <1>18, <1>19, <1>20, <1>21,
     <1>22, <1>23, <1>24, <1>25, <1>26, <1>27, <1>28, <1>29, <1>30, <1>31,
     <1>32, <1>33, <1>34, <1>35, <1>36, <1>37, <1>38, <1>39, <1>40, <1>41,
     <1>42, <1>43, <1>44, <1>45, <1>46, <1>47, <1>48
     DEF Next, MeasureStep, PrepareStep, ConnectedStep, ReleaseStep,
         AbortStep, Owner

(* Only two steps give the sensors back.                                   *)
LEMMA SensorsResumed ==
    ASSUME TypeOK, Next, aux.paused, ~aux'.paused
    PROVE  AuxResume \/ AbortAuxResume
<1>1. CASE RevokedStep
  BY <1>1, RevokedStepEffect
<1>2. CASE ForceK1Safe
  BY <1>2, ForceK1SafeEffect
<1>3. CASE RequestRange
  BY <1>3, RequestRangeEffect
<1>4. CASE WaitRange
  BY <1>4, WaitRangeEffect
<1>5. CASE ExcNeutral
  BY <1>5, SettleNeutralEffect DEF ExcNeutral
<1>6. CASE ExcNeutralWait
  BY <1>6, ExcNeutralWaitEffect
<1>7. CASE QuietEnter
  BY <1>7, QuietEnterEffect
<1>8. CASE PermitIssue
  BY <1>8, PermitIssueEffect
<1>9. CASE PermitValidate
  BY <1>9, PermitValidateEffect
<1>10. CASE K1Request
  BY <1>10, K1RequestEffect
<1>11. CASE AuxPause
  BY <1>11, AuxPauseEffect
<1>12. CASE K1OperateGuard
  BY <1>12, K1OperateGuardEffect
<1>13. CASE AdcAcquire
  BY <1>13, AdcAcquireEffect DEF Taken
<1>14. CASE ExcSineStart
  BY <1>14, ExcSineStartEffect
<1>15. CASE ExcSettle
  BY <1>15, ExcSettleEffect
<1>16. CASE AdcDmaStart
  BY <1>16, AdcDmaStartEffect
<1>17. CASE AdcDmaWait
  BY <1>17, AdcDmaWaitEffect
<1>18. CASE AdcDmaComplete
  BY <1>18, StopAdcEffect DEF AdcDmaComplete
<1>19. CASE ExcNeutralPost
  BY <1>19, SettleNeutralEffect DEF ExcNeutralPost
<1>20. CASE ExcNeutralPostWait
  BY <1>20, ExcNeutralPostWaitEffect
<1>21. CASE PowerRefresh
  BY <1>21, PowerRefreshEffect
<1>22. CASE PowerRestore
  BY <1>22, PowerRestoreEffect DEF SamplerDisturbed
<1>23. CASE PowerWait
  BY <1>23, PowerWaitEffect
<1>24. CASE PowerAcquire
  BY <1>24, PowerAcquireEffect DEF Taken
<1>25. CASE K1Safe
  BY <1>25, K1SafeEffect
<1>26. CASE K1ReleaseGuard
  BY <1>26, K1ReleaseGuardEffect
<1>27. CASE ExcOff
  BY <1>27, ExcOffEffect
<1>28. CASE RangeDisable
  BY <1>28, RangeDisableEffect
<1>29. CASE AdcRelease
  BY <1>29, StopAdcEffect DEF AdcRelease
<1>30. CASE AdcRestore
  BY <1>30, AdcRestoreEffect DEF SamplerDisturbed
<1>31. CASE AuxResume BY <1>31
<1>32. CASE QuietExit
  BY <1>32, QuietExitEffect
<1>33. CASE Analyze
  BY <1>33, AnalyzeEffect
<1>34. CASE AbortStop
  BY <1>34, AbortStopEffect
<1>35. CASE AbortReleaseGuard
  BY <1>35, AbortReleaseGuardEffect
<1>36. CASE AbortAdcRestore
  BY <1>36, AbortAdcRestoreEffect DEF SamplerDisturbed
<1>37. CASE AbortAuxResume BY <1>37
<1>38. CASE AbortQuietOff
  BY <1>38, AbortQuietOffEffect
<1>39. CASE \E q \in Requests : Start(q)
  BY <1>39, StartEffect
<1>40. CASE \E q \in Requests : Continue(q)
  BY <1>40, ContinueEffect
<1>41. CASE Abort
  BY <1>41, AbortEffect
<1>42. CASE FinishSession
  BY <1>42, FinishSessionEffect
<1>43. CASE Acknowledge
  BY <1>43, AcknowledgeEffect
<1>44. CASE Supervise
  BY <1>44, SuperviseEffect
<1>45. CASE Sampler
  BY <1>45, SamplingEffect
<1>46. CASE Interrupt
  BY <1>46, InterruptEffect
<1>47. CASE ChargerChange
  BY <1>47, ChargerChangeEffect
<1>48. CASE Tick
  BY <1>48, TickEffect
<1> QED BY <1>1, <1>2, <1>3, <1>4, <1>5, <1>6, <1>7, <1>8, <1>9, <1>10, <1>11,
     <1>12, <1>13, <1>14, <1>15, <1>16, <1>17, <1>18, <1>19, <1>20, <1>21,
     <1>22, <1>23, <1>24, <1>25, <1>26, <1>27, <1>28, <1>29, <1>30, <1>31,
     <1>32, <1>33, <1>34, <1>35, <1>36, <1>37, <1>38, <1>39, <1>40, <1>41,
     <1>42, <1>43, <1>44, <1>45, <1>46, <1>47, <1>48
     DEF Next, MeasureStep, PrepareStep, ConnectedStep, ReleaseStep,
         AbortStep, Owner

(* The auxiliary sensors go back on the terminals only when the contact    *)
(* has been open for the whole release guard, whatever path led there: the *)
(* orderly release, an abort, an abort of an abort.                        *)
THEOREM SensorsReturnAfterGuard == Spec => ReleaseGuardHonoured
<1>1. Init => GuardInv
  BY ConstantTypes DEF Init, GuardInv, Opened
<1>2. TypeOK /\ AuthorityInv /\ GuardInv /\ [Next]_vars => GuardInv'
  <2>1. GuardInv /\ UNCHANGED vars => GuardInv' BY DEF vars, GuardInv, Opened, Cleaning
  <2> QED BY <2>1, GuardStep
<1>3. TypeOK /\ GuardInv /\ [Next]_vars =>
        [aux.paused /\ ~aux'.paused =>
            (~k1.coil /\ open = ReleaseGuard) \/ "K1_IO" \in faults]_vars
  <2> SUFFICES ASSUME TypeOK, GuardInv, Next, aux.paused, ~aux'.paused
               PROVE  (~k1.coil /\ open = ReleaseGuard) \/ "K1_IO" \in faults
    OBVIOUS
  <2>1. AuxResume \/ AbortAuxResume
    BY SensorsResumed
  <2>2. Opened(0)
    BY <2>1, AuxResumeEffect, AbortAuxResumeEffect
       DEF GuardInv, OffStates, GivenBackStates
  <2> QED BY <2>2, ConstantTypes DEF Opened, TypeOK
<1> QED BY <1>1, <1>2, <1>3, MeasureTypeCorrect, AuthorityAlways,
          PTL DEF Spec, ReleaseGuardHonoured

(***************************************************************************)
(* The capture: what is driven, selected and put into the buffer.          *)
(***************************************************************************)
Connecting ==       \* the transaction has closed the relay, and not opened it
    m.st \in ClosedStates \cup PowerStates \/ (m.st \in SharedStates /\ m.connected)
DrivenStates == {"EXC_SETTLE", "ADC_DMA_START", "ADC_DMA_WAIT"} \cup PowerStates
CapturingStates ==  \* before the block of the request is complete
    PermitStates \cup SharedStates \cup DrivenStates \cup
    {"AUX_PAUSE", "K1_OPERATE_GUARD", "ADC_ACQUIRE", "EXC_SINE_START"}
RangedStates ==     \* from the settled range on
    (SharedStates \ {"RANGE_REQUEST", "RANGE_WAIT"}) \cup
    (PermitStates \ {"FORCE_K1_SAFE"}) \cup (ClosedStates \ {"K1_SAFE"}) \cup PowerStates
Answers == buf.range = m.req.range /\ buf.drive = m.req.drive

CaptureInv ==
    /\ m.st \notin {"IDLE", "DONE", "ABORT"} \/ (m.st = "DONE" /\ m.valid) =>
          m.err = "OK" /\ ~m.restoreFailed
    /\ m.valid => m.done
    /\ m.done => Answers /\ adc.dma # "RUN" /\ m.st \notin CapturingStates
    /\ m.st \in DrivenStates =>
          exc.err \/ (exc.mode = "SINE" /\ exc.drive = m.req.drive)
    /\ m.st \in RangedStates =>
          \/ rg.fsm \in {"DISABLED", "INVALID"}
          \/ rg.fsm = "READY" /\ rg.current = m.req.range
    /\ m.st = "ADC_DMA_WAIT" /\ adc.dma = "DONE" =>
          Answers \/ exc.err \/ rg.fsm # "READY"
    /\ Connecting => k1.cmd = "MEASURE" /\ m.k1Owned

LEMMA CaptureStep ==
    ASSUME TypeOK, AuthorityInv, CustodyInv, CaptureInv, Next
    PROVE  CaptureInv'
<1>1. CASE RevokedStep
  BY <1>1, RevokedStepEffect
     DEF Fell, Carried, Custody, CaptureInv, Connecting, Answers,
         DrivenStates, CapturingStates, RangedStates, ClosedStates,
         SharedStates, PermitStates, PowerStates
<1>2. CASE ForceK1Safe
  BY <1>2, ForceK1SafeEffect
     DEF Fell, Moved, Carried, Custody, Safer, CaptureInv, Connecting,
         Answers, DrivenStates, CapturingStates, RangedStates, ClosedStates,
         SharedStates, PermitStates, PowerStates, CustodyInv, Cleaning
<1>3. CASE RequestRange
  BY <1>3, RequestRangeEffect
     DEF Fell, Moved, Carried, Custody, CaptureInv, Connecting, Answers,
         DrivenStates, CapturingStates, RangedStates, ClosedStates,
         SharedStates, PermitStates, PowerStates
<1>4. CASE WaitRange
  BY <1>4, WaitRangeEffect
     DEF Fell, Moved, Carried, Custody, Stepped, CaptureInv, Connecting,
         Answers, DrivenStates, CapturingStates, RangedStates, ClosedStates,
         SharedStates, PermitStates, PowerStates
<1>5. CASE ExcNeutral
  BY <1>5, SettleNeutralEffect
     DEF ExcNeutral, Moved, Carried, Custody, CaptureInv, Connecting, Answers,
         DrivenStates, CapturingStates, RangedStates, ClosedStates,
         SharedStates, PermitStates, PowerStates
<1>6. CASE ExcNeutralWait
  BY <1>6, ExcNeutralWaitEffect
     DEF Moved, Carried, Custody, CaptureInv, Connecting, Answers,
         DrivenStates, CapturingStates, RangedStates, ClosedStates,
         SharedStates, PermitStates, PowerStates
<1>7. CASE QuietEnter
  BY <1>7, QuietEnterEffect
     DEF Carried, Custody, CaptureInv, Connecting, Answers, DrivenStates,
         CapturingStates, RangedStates, ClosedStates, SharedStates,
         PermitStates, PowerStates
<1>8. CASE PermitIssue
  BY <1>8, PermitIssueEffect
     DEF Fell, Moved, Carried, Custody, CaptureInv, Connecting, Answers,
         DrivenStates, CapturingStates, RangedStates, ClosedStates,
         SharedStates, PermitStates, PowerStates
<1>9. CASE PermitValidate
  BY <1>9, PermitValidateEffect
     DEF Fell, Moved, Carried, Custody, CaptureInv, Connecting, Answers,
         DrivenStates, CapturingStates, RangedStates, ClosedStates,
         SharedStates, PermitStates, PowerStates
<1>10. CASE K1Request
  BY <1>10, K1RequestEffect
     DEF Fell, Carried, Custody, CaptureInv, Connecting, Answers,
         DrivenStates, CapturingStates, RangedStates, ClosedStates,
         SharedStates, PermitStates, PowerStates
<1>11. CASE AuxPause
  BY <1>11, AuxPauseEffect
     DEF Moved, Carried, Custody, CaptureInv, Connecting, Answers,
         DrivenStates, CapturingStates, RangedStates, ClosedStates,
         SharedStates, PermitStates, PowerStates
<1>12. CASE K1OperateGuard
  BY <1>12, K1OperateGuardEffect
     DEF Moved, Carried, Custody, CaptureInv, Connecting, Answers,
         DrivenStates, CapturingStates, RangedStates, ClosedStates,
         SharedStates, PermitStates, PowerStates
<1>13. CASE AdcAcquire
  BY <1>13, AdcAcquireEffect
     DEF Taken, Fell, Carried, CaptureInv, Connecting, Answers, DrivenStates,
         CapturingStates, RangedStates, ClosedStates, SharedStates,
         PermitStates, PowerStates
<1>14. CASE ExcSineStart
  BY <1>14, ExcSineStartEffect
     DEF Fell, Moved, Carried, Custody, CaptureInv, Connecting, Answers,
         DrivenStates, CapturingStates, RangedStates, ClosedStates,
         SharedStates, PermitStates, PowerStates
<1>15. CASE ExcSettle
  BY <1>15, ExcSettleEffect
     DEF Fell, Moved, Carried, Custody, CaptureInv, Connecting, Answers,
         DrivenStates, CapturingStates, RangedStates, ClosedStates,
         SharedStates, PermitStates, PowerStates
<1>16. CASE AdcDmaStart
  BY <1>16, AdcDmaStartEffect
     DEF Fell, Moved, Carried, Custody, CaptureInv, Connecting, Answers,
         DrivenStates, CapturingStates, RangedStates, ClosedStates,
         SharedStates, PermitStates, PowerStates
<1>17. CASE AdcDmaWait
  <2>0. m \in MeasureRecord /\ m.st = "ADC_DMA_WAIT" /\ ~m.done
    BY <1>17, AdcDmaWaitEffect DEF TypeOK, CaptureInv, CapturingStates, DrivenStates
  <2>1. CASE m'.st = "ADC_DMA_COMPLETE"
    <3>1. /\ m'.done
          /\ m'.quiet = m.quiet /\ m'.k1Owned = m.k1Owned
          /\ m'.k1Reached = m.k1Reached /\ m'.connected = m.connected
          /\ m'.req = m.req /\ m'.resume = m.resume
          /\ Custody(m', m)
          /\ m'.err = m.err /\ m'.valid = m.valid
          /\ adc.dma = "DONE" /\ ~exc.err /\ (k1.cmd = "MEASURE" => rg.fsm = "READY")
      BY <1>17, <2>1, AdcDmaWaitEffect DEF Moved, Fell
    <3>2. k1.cmd = "MEASURE" /\ m.k1Owned
      BY <2>0 DEF CaptureInv, Connecting, ClosedStates
    <3>3. Answers BY <2>0, <3>1, <3>2 DEF CaptureInv
    <3>4. /\ m'.req = m.req /\ m'.k1Owned = m.k1Owned /\ m'.connected = m.connected
          /\ m'.restoreFailed = m.restoreFailed
      BY <2>0, <3>1 DEF Carried, Custody, MeasureRecord
    <3> QED BY <1>17, <2>0, <2>1, <3>1, <3>2, <3>3, <3>4, AdcDmaWaitEffect
        DEF CaptureInv, Connecting, Answers, DrivenStates, CapturingStates,
            RangedStates, ClosedStates, SharedStates, PermitStates, PowerStates
  <2>2. CASE m'.st # "ADC_DMA_COMPLETE"
    BY <1>17, <2>0, <2>2, AdcDmaWaitEffect
       DEF CaptureInv, Connecting, Answers, DrivenStates, CapturingStates,
           RangedStates, ClosedStates, SharedStates, PermitStates, PowerStates,
           Moved, Fell, Carried, Custody
  <2> QED BY <2>1, <2>2
<1>18. CASE AdcDmaComplete
  BY <1>18, StopAdcEffect
     DEF AdcDmaComplete, Moved, Carried, Custody, CaptureInv, Connecting,
         Answers, DrivenStates, CapturingStates, RangedStates, ClosedStates,
         SharedStates, PermitStates, PowerStates
<1>19. CASE ExcNeutralPost
  BY <1>19, SettleNeutralEffect
     DEF ExcNeutralPost, Moved, Carried, Custody, CaptureInv, Connecting,
         Answers, DrivenStates, CapturingStates, RangedStates, ClosedStates,
         SharedStates, PermitStates, PowerStates
<1>20. CASE ExcNeutralPostWait
  BY <1>20, ExcNeutralPostWaitEffect
     DEF Ends, Moved, Carried, Custody, CaptureInv, Connecting, Answers,
         DrivenStates, CapturingStates, RangedStates, ClosedStates,
         SharedStates, PermitStates, PowerStates
<1>21. CASE PowerRefresh
  BY <1>21, PowerRefreshEffect
     DEF Custody, CaptureInv, Connecting, Answers, DrivenStates,
         CapturingStates, RangedStates, ClosedStates, SharedStates,
         PermitStates, PowerStates
<1>22. CASE PowerRestore
  BY <1>22, PowerRestoreEffect
     DEF NotGivenBack, Fell, Carried, SamplerDisturbed, CaptureInv,
         Connecting, Answers, DrivenStates, CapturingStates, RangedStates,
         ClosedStates, SharedStates, PermitStates, PowerStates
<1>23. CASE PowerWait
  BY <1>23, PowerWaitEffect
     DEF Fell, Moved, Carried, Custody, CaptureInv, Connecting, Answers,
         DrivenStates, CapturingStates, RangedStates, ClosedStates,
         SharedStates, PermitStates, PowerStates
<1>24. CASE PowerAcquire
  BY <1>24, PowerAcquireEffect
     DEF Taken, Fell, Carried, CaptureInv, Connecting, Answers, DrivenStates,
         CapturingStates, RangedStates, ClosedStates, SharedStates,
         PermitStates, PowerStates, AuthorityInv, TypeOK, MeasureRecord
<1>25. CASE K1Safe
  BY <1>25, K1SafeEffect
     DEF Fell, Carried, Custody, Safer, CaptureInv, Connecting, Answers,
         DrivenStates, CapturingStates, RangedStates, ClosedStates,
         SharedStates, PermitStates, PowerStates
<1>26. CASE K1ReleaseGuard
  BY <1>26, K1ReleaseGuardEffect
     DEF Carried, Custody, CaptureInv, Connecting, Answers, DrivenStates,
         CapturingStates, RangedStates, ClosedStates, SharedStates,
         PermitStates, PowerStates
<1>27. CASE ExcOff
  BY <1>27, ExcOffEffect
     DEF Moved, Carried, Custody, CaptureInv, Connecting, Answers,
         DrivenStates, CapturingStates, RangedStates, ClosedStates,
         SharedStates, PermitStates, PowerStates
<1>28. CASE RangeDisable
  BY <1>28, RangeDisableEffect
     DEF Fell, Moved, Carried, Custody, CaptureInv, Connecting, Answers,
         DrivenStates, CapturingStates, RangedStates, ClosedStates,
         SharedStates, PermitStates, PowerStates
<1>29. CASE AdcRelease
  BY <1>29, StopAdcEffect
     DEF AdcRelease, Moved, Carried, Custody, CaptureInv, Connecting, Answers,
         DrivenStates, CapturingStates, RangedStates, ClosedStates,
         SharedStates, PermitStates, PowerStates
<1>30. CASE AdcRestore
  BY <1>30, AdcRestoreEffect
     DEF NotGivenBack, Fell, Carried, SamplerDisturbed, CaptureInv,
         Connecting, Answers, DrivenStates, CapturingStates, RangedStates,
         ClosedStates, SharedStates, PermitStates, PowerStates
<1>31. CASE AuxResume
  BY <1>31, AuxResumeEffect
     DEF Moved, Carried, Custody, CaptureInv, Connecting, Answers,
         DrivenStates, CapturingStates, RangedStates, ClosedStates,
         SharedStates, PermitStates, PowerStates
<1>32. CASE QuietExit
  BY <1>32, QuietExitEffect
     DEF Carried, Custody, CaptureInv, Connecting, Answers, DrivenStates,
         CapturingStates, RangedStates, ClosedStates, SharedStates,
         PermitStates, PowerStates
<1>33. CASE Analyze
  BY <1>33, AnalyzeEffect
     DEF Ends, Carried, Custody, CaptureInv, Connecting, Answers,
         DrivenStates, CapturingStates, RangedStates, ClosedStates,
         SharedStates, PermitStates, PowerStates
<1>34. CASE AbortStop
  BY <1>34, AbortStopEffect
     DEF Custody, Safer, CaptureInv, Connecting, Answers, DrivenStates,
         CapturingStates, RangedStates, ClosedStates, SharedStates,
         PermitStates, PowerStates
<1>35. CASE AbortReleaseGuard
  BY <1>35, AbortReleaseGuardEffect
     DEF Carried, Custody, CaptureInv, Connecting, Answers, DrivenStates,
         CapturingStates, RangedStates, ClosedStates, SharedStates,
         PermitStates, PowerStates
<1>36. CASE AbortAdcRestore
  BY <1>36, AbortAdcRestoreEffect
     DEF Carried, Custody, SamplerDisturbed, CaptureInv, Connecting, Answers,
         DrivenStates, CapturingStates, RangedStates, ClosedStates,
         SharedStates, PermitStates, PowerStates
<1>37. CASE AbortAuxResume
  BY <1>37, AbortAuxResumeEffect
     DEF Carried, Custody, CaptureInv, Connecting, Answers, DrivenStates,
         CapturingStates, RangedStates, ClosedStates, SharedStates,
         PermitStates, PowerStates
<1>38. CASE AbortQuietOff
  BY <1>38, AbortQuietOffEffect
     DEF Carried, Custody, CaptureInv, Connecting, Answers, DrivenStates,
         CapturingStates, RangedStates, ClosedStates, SharedStates,
         PermitStates, PowerStates
<1>39. CASE \E q \in Requests : Start(q)
  BY <1>39, StartEffect
     DEF Begun, Safer, CaptureInv, Connecting, Answers, DrivenStates,
         CapturingStates, RangedStates, ClosedStates, SharedStates,
         PermitStates, PowerStates, CustodyInv, Cleaning
<1>40. CASE \E q \in Requests : Continue(q)
  BY <1>40, ContinueEffect
     DEF Fell, Carried, Custody, CaptureInv, Connecting, Answers,
         DrivenStates, CapturingStates, RangedStates, ClosedStates,
         SharedStates, PermitStates, PowerStates
<1>41. CASE Abort
  BY <1>41, AbortEffect
     DEF Fell, Carried, Custody, CaptureInv, Connecting, Answers,
         DrivenStates, CapturingStates, RangedStates, ClosedStates,
         SharedStates, PermitStates, PowerStates
<1>42. CASE FinishSession
  BY <1>42, FinishSessionEffect
     DEF Moved, Carried, Custody, CaptureInv, Connecting, Answers,
         DrivenStates, CapturingStates, RangedStates, ClosedStates,
         SharedStates, PermitStates, PowerStates
<1>43. CASE Acknowledge
  BY <1>43, AcknowledgeEffect
     DEF Custody, CaptureInv, Connecting, Answers, DrivenStates,
         CapturingStates, RangedStates, ClosedStates, SharedStates,
         PermitStates, PowerStates
<1>44. CASE Supervise
  BY <1>44, SuperviseEffect
     DEF Stepped, Safer, CaptureInv, Connecting, Answers, DrivenStates,
         CapturingStates, RangedStates, ClosedStates, SharedStates,
         PermitStates, PowerStates, K1Owned, Active
<1>45. CASE Sampler
  BY <1>45, SamplingEffect
     DEF CaptureInv, Connecting, Answers, DrivenStates, CapturingStates,
         RangedStates, ClosedStates, SharedStates, PermitStates, PowerStates
<1>46. CASE Interrupt
  BY <1>46, InterruptEffect
     DEF CaptureInv, Connecting, Answers, DrivenStates, CapturingStates,
         RangedStates, ClosedStates, SharedStates, PermitStates, PowerStates,
         CustodyInv, Cleaning
<1>47. CASE ChargerChange
  BY <1>47, ChargerChangeEffect
     DEF CaptureInv, Connecting, Answers, DrivenStates, CapturingStates,
         RangedStates, ClosedStates, SharedStates, PermitStates, PowerStates
<1>48. CASE Tick
  BY <1>48, TickEffect
     DEF CaptureInv, Connecting, Answers, DrivenStates, CapturingStates,
         RangedStates, ClosedStates, SharedStates, PermitStates, PowerStates
<1> QED BY <1>1, <1>2, <1>3, <1>4, <1>5, <1>6, <1>7, <1>8, <1>9, <1>10, <1>11,
     <1>12, <1>13, <1>14, <1>15, <1>16, <1>17, <1>18, <1>19, <1>20, <1>21,
     <1>22, <1>23, <1>24, <1>25, <1>26, <1>27, <1>28, <1>29, <1>30, <1>31,
     <1>32, <1>33, <1>34, <1>35, <1>36, <1>37, <1>38, <1>39, <1>40, <1>41,
     <1>42, <1>43, <1>44, <1>45, <1>46, <1>47, <1>48
     DEF Next, MeasureStep, PrepareStep, ConnectedStep, ReleaseStep,
         AbortStep, Owner

LEMMA CaptureAlways == Spec => []CaptureInv
<1>1. Init => CaptureInv
  BY DEF Init, CaptureInv, Connecting, Answers, DrivenStates, CapturingStates,
         RangedStates, ClosedStates, SharedStates, PermitStates, PowerStates
<1>2. TypeOK /\ AuthorityInv /\ CustodyInv /\ CaptureInv /\ [Next]_vars => CaptureInv'
  <2>1. CaptureInv /\ UNCHANGED vars => CaptureInv'
    BY DEF vars, CaptureInv, Connecting, Answers
  <2> QED BY <2>1, CaptureStep
<1> QED BY <1>1, <1>2, MeasureTypeCorrect, AuthorityAlways, CustodyAlways,
          PTL DEF Spec

(* A result that can be read was captured, whole, on the range and with    *)
(* the drive of the request it answers, by a transaction that met no       *)
(* error: through continuations, interrupts and power refreshes.           *)
THEOREM ResultAnswersRequest == Spec => []ResultHonest
<1>1. TypeOK /\ CaptureInv => ResultHonest
  <2> SUFFICES ASSUME TypeOK, CaptureInv, ResultReady
               PROVE  /\ m.err = "OK" /\ ~m.restoreFailed
                      /\ buf = [range |-> m.req.range, drive |-> m.req.drive]
    BY DEF ResultHonest
  <2>1. m.err = "OK" /\ ~m.restoreFailed BY DEF CaptureInv, ResultReady
  <2>2. Answers BY DEF CaptureInv, ResultReady
  <2> QED BY <2>1, <2>2 DEF Answers, TypeOK, BufferRecord
<1> QED BY <1>1, MeasureTypeCorrect, CaptureAlways, PTL

(***************************************************************************)
(* Cold switching: what is neutral, permitted and settled when the relay   *)
(* moves.                                                                  *)
(***************************************************************************)
NeutralStates ==
    (RangedStates \ ({"EXC_NEUTRAL", "ADC_DMA_COMPLETE", "EXC_NEUTRAL_POST"} \cup DrivenStates))
    \cup {"K1_SAFE", "K1_RELEASE_GUARD", "EXC_OFF"}

ColdInv ==
    /\ m.st \in NeutralStates \/ (m.st \in SharedStates /\ m.connected) =>
          exc.mode = "NEUTRAL"
    /\ m.st \in {"PERMIT_VALIDATE", "K1_REQUEST"} => permit.range = m.req.range
    /\ rg.fsm \in {"SETTLING", "READY"} => rg.line /\ rg.enabled

LEMMA ColdStep ==
    ASSUME TypeOK, AuthorityInv, CustodyInv, CaptureInv, ColdInv, Next
    PROVE  ColdInv'
<1>1. CASE RevokedStep
  BY <1>1, RevokedStepEffect
     DEF Fell, Carried, Custody, ColdInv, NeutralStates, RangedStates,
         DrivenStates, ClosedStates, SharedStates, PermitStates, PowerStates
<1>2. CASE ForceK1Safe
  BY <1>2, ForceK1SafeEffect
     DEF Fell, Moved, Carried, Custody, Safer, ColdInv, NeutralStates,
         RangedStates, DrivenStates, ClosedStates, SharedStates, PermitStates,
         PowerStates, CustodyInv
<1>3. CASE RequestRange
  BY <1>3, RequestRangeEffect
     DEF Fell, Moved, Carried, Custody, ColdInv, NeutralStates, RangedStates,
         DrivenStates, ClosedStates, SharedStates, PermitStates, PowerStates
<1>4. CASE WaitRange
  BY <1>4, WaitRangeEffect
     DEF Fell, Moved, Carried, Custody, Stepped, ColdInv, NeutralStates,
         RangedStates, DrivenStates, ClosedStates, SharedStates, PermitStates,
         PowerStates
<1>5. CASE ExcNeutral
  BY <1>5, SettleNeutralEffect
     DEF ExcNeutral, Moved, Carried, Custody, ColdInv, NeutralStates,
         RangedStates, DrivenStates, ClosedStates, SharedStates, PermitStates,
         PowerStates
<1>6. CASE ExcNeutralWait
  BY <1>6, ExcNeutralWaitEffect
     DEF Moved, Carried, Custody, ColdInv, NeutralStates, RangedStates,
         DrivenStates, ClosedStates, SharedStates, PermitStates, PowerStates
<1>7. CASE QuietEnter
  BY <1>7, QuietEnterEffect
     DEF Carried, Custody, ColdInv, NeutralStates, RangedStates, DrivenStates,
         ClosedStates, SharedStates, PermitStates, PowerStates
<1>8. CASE PermitIssue
  BY <1>8, PermitIssueEffect
     DEF Fell, Moved, Carried, Custody, ColdInv, NeutralStates, RangedStates,
         DrivenStates, ClosedStates, SharedStates, PermitStates, PowerStates,
         CaptureInv
<1>9. CASE PermitValidate
  BY <1>9, PermitValidateEffect
     DEF Fell, Moved, Carried, Custody, ColdInv, NeutralStates, RangedStates,
         DrivenStates, ClosedStates, SharedStates, PermitStates, PowerStates
<1>10. CASE K1Request
  BY <1>10, K1RequestEffect
     DEF Fell, Carried, Custody, ColdInv, NeutralStates, RangedStates,
         DrivenStates, ClosedStates, SharedStates, PermitStates, PowerStates
<1>11. CASE AuxPause
  BY <1>11, AuxPauseEffect
     DEF Moved, Carried, Custody, ColdInv, NeutralStates, RangedStates,
         DrivenStates, ClosedStates, SharedStates, PermitStates, PowerStates
<1>12. CASE K1OperateGuard
  BY <1>12, K1OperateGuardEffect
     DEF Moved, Carried, Custody, ColdInv, NeutralStates, RangedStates,
         DrivenStates, ClosedStates, SharedStates, PermitStates, PowerStates
<1>13. CASE AdcAcquire
  BY <1>13, AdcAcquireEffect
     DEF Taken, Fell, Carried, ColdInv, NeutralStates, RangedStates,
         DrivenStates, ClosedStates, SharedStates, PermitStates, PowerStates
<1>14. CASE ExcSineStart
  BY <1>14, ExcSineStartEffect
     DEF Fell, Moved, Carried, Custody, ColdInv, NeutralStates, RangedStates,
         DrivenStates, ClosedStates, SharedStates, PermitStates, PowerStates
<1>15. CASE ExcSettle
  BY <1>15, ExcSettleEffect
     DEF Fell, Moved, Carried, Custody, ColdInv, NeutralStates, RangedStates,
         DrivenStates, ClosedStates, SharedStates, PermitStates, PowerStates
<1>16. CASE AdcDmaStart
  BY <1>16, AdcDmaStartEffect
     DEF Fell, Moved, Carried, Custody, ColdInv, NeutralStates, RangedStates,
         DrivenStates, ClosedStates, SharedStates, PermitStates, PowerStates
<1>17. CASE AdcDmaWait
  BY <1>17, AdcDmaWaitEffect
     DEF Fell, Moved, Carried, Custody, ColdInv, NeutralStates, RangedStates,
         DrivenStates, ClosedStates, SharedStates, PermitStates, PowerStates
<1>18. CASE AdcDmaComplete
  BY <1>18, StopAdcEffect
     DEF AdcDmaComplete, Moved, Carried, Custody, ColdInv, NeutralStates,
         RangedStates, DrivenStates, ClosedStates, SharedStates, PermitStates,
         PowerStates
<1>19. CASE ExcNeutralPost
  BY <1>19, SettleNeutralEffect
     DEF ExcNeutralPost, Moved, Carried, Custody, ColdInv, NeutralStates,
         RangedStates, DrivenStates, ClosedStates, SharedStates, PermitStates,
         PowerStates
<1>20. CASE ExcNeutralPostWait
  BY <1>20, ExcNeutralPostWaitEffect
     DEF Ends, Moved, Carried, Custody, ColdInv, NeutralStates, RangedStates,
         DrivenStates, ClosedStates, SharedStates, PermitStates, PowerStates
<1>21. CASE PowerRefresh
  BY <1>21, PowerRefreshEffect
     DEF Custody, ColdInv, NeutralStates, RangedStates, DrivenStates,
         ClosedStates, SharedStates, PermitStates, PowerStates
<1>22. CASE PowerRestore
  BY <1>22, PowerRestoreEffect
     DEF NotGivenBack, Fell, Carried, SamplerDisturbed, ColdInv,
         NeutralStates, RangedStates, DrivenStates, ClosedStates,
         SharedStates, PermitStates, PowerStates
<1>23. CASE PowerWait
  BY <1>23, PowerWaitEffect
     DEF Fell, Moved, Carried, Custody, ColdInv, NeutralStates, RangedStates,
         DrivenStates, ClosedStates, SharedStates, PermitStates, PowerStates
<1>24. CASE PowerAcquire
  BY <1>24, PowerAcquireEffect
     DEF Taken, Fell, Carried, ColdInv, NeutralStates, RangedStates,
         DrivenStates, ClosedStates, SharedStates, PermitStates, PowerStates,
         AuthorityInv, TypeOK, MeasureRecord
<1>25. CASE K1Safe
  BY <1>25, K1SafeEffect
     DEF Fell, Carried, Custody, Safer, ColdInv, NeutralStates, RangedStates,
         DrivenStates, ClosedStates, SharedStates, PermitStates, PowerStates
<1>26. CASE K1ReleaseGuard
  BY <1>26, K1ReleaseGuardEffect
     DEF Carried, Custody, ColdInv, NeutralStates, RangedStates, DrivenStates,
         ClosedStates, SharedStates, PermitStates, PowerStates
<1>27. CASE ExcOff
  BY <1>27, ExcOffEffect
     DEF Moved, Carried, Custody, ColdInv, NeutralStates, RangedStates,
         DrivenStates, ClosedStates, SharedStates, PermitStates, PowerStates
<1>28. CASE RangeDisable
  BY <1>28, RangeDisableEffect
     DEF Fell, Moved, Carried, Custody, ColdInv, NeutralStates, RangedStates,
         DrivenStates, ClosedStates, SharedStates, PermitStates, PowerStates
<1>29. CASE AdcRelease
  BY <1>29, StopAdcEffect
     DEF AdcRelease, Moved, Carried, Custody, ColdInv, NeutralStates,
         RangedStates, DrivenStates, ClosedStates, SharedStates, PermitStates,
         PowerStates
<1>30. CASE AdcRestore
  BY <1>30, AdcRestoreEffect
     DEF NotGivenBack, Fell, Carried, SamplerDisturbed, ColdInv,
         NeutralStates, RangedStates, DrivenStates, ClosedStates,
         SharedStates, PermitStates, PowerStates
<1>31. CASE AuxResume
  BY <1>31, AuxResumeEffect
     DEF Moved, Carried, Custody, ColdInv, NeutralStates, RangedStates,
         DrivenStates, ClosedStates, SharedStates, PermitStates, PowerStates
<1>32. CASE QuietExit
  BY <1>32, QuietExitEffect
     DEF Carried, Custody, ColdInv, NeutralStates, RangedStates, DrivenStates,
         ClosedStates, SharedStates, PermitStates, PowerStates
<1>33. CASE Analyze
  BY <1>33, AnalyzeEffect
     DEF Ends, Carried, Custody, ColdInv, NeutralStates, RangedStates,
         DrivenStates, ClosedStates, SharedStates, PermitStates, PowerStates
<1>34. CASE AbortStop
  BY <1>34, AbortStopEffect
     DEF Custody, Safer, ColdInv, NeutralStates, RangedStates, DrivenStates,
         ClosedStates, SharedStates, PermitStates, PowerStates
<1>35. CASE AbortReleaseGuard
  BY <1>35, AbortReleaseGuardEffect
     DEF Carried, Custody, ColdInv, NeutralStates, RangedStates, DrivenStates,
         ClosedStates, SharedStates, PermitStates, PowerStates
<1>36. CASE AbortAdcRestore
  BY <1>36, AbortAdcRestoreEffect
     DEF Carried, Custody, SamplerDisturbed, ColdInv, NeutralStates,
         RangedStates, DrivenStates, ClosedStates, SharedStates, PermitStates,
         PowerStates
<1>37. CASE AbortAuxResume
  BY <1>37, AbortAuxResumeEffect
     DEF Carried, Custody, ColdInv, NeutralStates, RangedStates, DrivenStates,
         ClosedStates, SharedStates, PermitStates, PowerStates
<1>38. CASE AbortQuietOff
  BY <1>38, AbortQuietOffEffect
     DEF Carried, Custody, ColdInv, NeutralStates, RangedStates, DrivenStates,
         ClosedStates, SharedStates, PermitStates, PowerStates
<1>39. CASE \E q \in Requests : Start(q)
  BY <1>39, StartEffect
     DEF Begun, Safer, ColdInv, NeutralStates, RangedStates, DrivenStates,
         ClosedStates, SharedStates, PermitStates, PowerStates
<1>40. CASE \E q \in Requests : Continue(q)
  BY <1>40, ContinueEffect
     DEF Fell, Carried, Custody, ColdInv, NeutralStates, RangedStates,
         DrivenStates, ClosedStates, SharedStates, PermitStates, PowerStates
<1>41. CASE Abort
  BY <1>41, AbortEffect
     DEF Fell, Carried, Custody, ColdInv, NeutralStates, RangedStates,
         DrivenStates, ClosedStates, SharedStates, PermitStates, PowerStates
<1>42. CASE FinishSession
  BY <1>42, FinishSessionEffect
     DEF Moved, Carried, Custody, ColdInv, NeutralStates, RangedStates,
         DrivenStates, ClosedStates, SharedStates, PermitStates, PowerStates
<1>43. CASE Acknowledge
  BY <1>43, AcknowledgeEffect
     DEF Custody, ColdInv, NeutralStates, RangedStates, DrivenStates,
         ClosedStates, SharedStates, PermitStates, PowerStates
<1>44. CASE Supervise
  BY <1>44, SuperviseEffect
     DEF Stepped, Safer, ColdInv, NeutralStates, RangedStates, DrivenStates,
         ClosedStates, SharedStates, PermitStates, PowerStates
<1>45. CASE Sampler
  BY <1>45, SamplingEffect
     DEF ColdInv, NeutralStates, RangedStates, DrivenStates, ClosedStates,
         SharedStates, PermitStates, PowerStates
<1>46. CASE Interrupt
  BY <1>46, InterruptEffect
     DEF ColdInv, NeutralStates, RangedStates, DrivenStates, ClosedStates,
         SharedStates, PermitStates, PowerStates
<1>47. CASE ChargerChange
  BY <1>47, ChargerChangeEffect
     DEF ColdInv, NeutralStates, RangedStates, DrivenStates, ClosedStates,
         SharedStates, PermitStates, PowerStates
<1>48. CASE Tick
  BY <1>48, TickEffect
     DEF ColdInv, NeutralStates, RangedStates, DrivenStates, ClosedStates,
         SharedStates, PermitStates, PowerStates
<1> QED BY <1>1, <1>2, <1>3, <1>4, <1>5, <1>6, <1>7, <1>8, <1>9, <1>10, <1>11,
     <1>12, <1>13, <1>14, <1>15, <1>16, <1>17, <1>18, <1>19, <1>20, <1>21,
     <1>22, <1>23, <1>24, <1>25, <1>26, <1>27, <1>28, <1>29, <1>30, <1>31,
     <1>32, <1>33, <1>34, <1>35, <1>36, <1>37, <1>38, <1>39, <1>40, <1>41,
     <1>42, <1>43, <1>44, <1>45, <1>46, <1>47, <1>48
     DEF Next, MeasureStep, PrepareStep, ConnectedStep, ReleaseStep,
         AbortStep, Owner

LEMMA ColdAlways == Spec => []ColdInv
<1>1. Init => ColdInv
  <2>1. Init => rg.fsm \in {"DISABLED", "INVALID"} BY BootPost DEF Init
  <2> QED BY <2>1 DEF Init, ColdInv, NeutralStates, RangedStates, DrivenStates,
             ClosedStates, SharedStates, PermitStates, PowerStates
<1>2. TypeOK /\ AuthorityInv /\ CustodyInv /\ CaptureInv /\ ColdInv /\ [Next]_vars => ColdInv'
  <2>1. ColdInv /\ UNCHANGED vars => ColdInv' BY DEF vars, ColdInv
  <2> QED BY <2>1, ColdStep
<1> QED BY <1>1, <1>2, MeasureTypeCorrect, AuthorityAlways, CustodyAlways,
          CaptureAlways, PTL DEF Spec

(* The coil is energised only on request, under a whole permission.        *)
LEMMA CoilCloses ==
    ASSUME TypeOK, Next, ~k1.coil, k1'.coil
    PROVE  /\ K1Request /\ m.validated
           /\ \E residual \in Residuals, battery \in Batteries :
                 MeasureAllowed(residual, battery)
<1>0. k1 \in RelayRecord BY DEF TypeOK
<1>1. CASE RevokedStep
  BY <1>1, RevokedStepEffect
<1>2. CASE ForceK1Safe
  BY <1>2, ForceK1SafeEffect DEF Safer
<1>3. CASE RequestRange
  BY <1>3, RequestRangeEffect
<1>4. CASE WaitRange
  BY <1>4, WaitRangeEffect
<1>5. CASE ExcNeutral
  BY <1>5, SettleNeutralEffect DEF ExcNeutral
<1>6. CASE ExcNeutralWait
  BY <1>6, ExcNeutralWaitEffect
<1>7. CASE QuietEnter
  BY <1>7, QuietEnterEffect
<1>8. CASE PermitIssue
  BY <1>8, PermitIssueEffect
<1>9. CASE PermitValidate
  BY <1>9, PermitValidateEffect
<1>10. CASE K1Request
  <2>1. ASSUME NEW w, MoveK1(K1ForcedSafe(w)) PROVE FALSE
    BY <1>0, <2>1, ForcedSafeEffect DEF Safer
  <2> QED BY <1>10, <2>1 DEF K1Request
<1>11. CASE AuxPause
  BY <1>11, AuxPauseEffect
<1>12. CASE K1OperateGuard
  BY <1>12, K1OperateGuardEffect
<1>13. CASE AdcAcquire
  BY <1>13, AdcAcquireEffect
<1>14. CASE ExcSineStart
  BY <1>14, ExcSineStartEffect
<1>15. CASE ExcSettle
  BY <1>15, ExcSettleEffect
<1>16. CASE AdcDmaStart
  BY <1>16, AdcDmaStartEffect
<1>17. CASE AdcDmaWait
  BY <1>17, AdcDmaWaitEffect
<1>18. CASE AdcDmaComplete
  BY <1>18, StopAdcEffect DEF AdcDmaComplete
<1>19. CASE ExcNeutralPost
  BY <1>19, SettleNeutralEffect DEF ExcNeutralPost
<1>20. CASE ExcNeutralPostWait
  BY <1>20, ExcNeutralPostWaitEffect
<1>21. CASE PowerRefresh
  BY <1>21, PowerRefreshEffect
<1>22. CASE PowerRestore
  BY <1>22, PowerRestoreEffect DEF SamplerDisturbed
<1>23. CASE PowerWait
  BY <1>23, PowerWaitEffect
<1>24. CASE PowerAcquire
  BY <1>24, PowerAcquireEffect
<1>25. CASE K1Safe
  BY <1>25, K1SafeEffect DEF Safer
<1>26. CASE K1ReleaseGuard
  BY <1>26, K1ReleaseGuardEffect
<1>27. CASE ExcOff
  BY <1>27, ExcOffEffect
<1>28. CASE RangeDisable
  BY <1>28, RangeDisableEffect
<1>29. CASE AdcRelease
  BY <1>29, StopAdcEffect DEF AdcRelease
<1>30. CASE AdcRestore
  BY <1>30, AdcRestoreEffect DEF SamplerDisturbed
<1>31. CASE AuxResume
  BY <1>31, AuxResumeEffect
<1>32. CASE QuietExit
  BY <1>32, QuietExitEffect
<1>33. CASE Analyze
  BY <1>33, AnalyzeEffect
<1>34. CASE AbortStop
  BY <1>34, AbortStopEffect DEF Safer
<1>35. CASE AbortReleaseGuard
  BY <1>35, AbortReleaseGuardEffect
<1>36. CASE AbortAdcRestore
  BY <1>36, AbortAdcRestoreEffect DEF SamplerDisturbed
<1>37. CASE AbortAuxResume
  BY <1>37, AbortAuxResumeEffect
<1>38. CASE AbortQuietOff
  BY <1>38, AbortQuietOffEffect
<1>39. CASE \E q \in Requests : Start(q)
  BY <1>39, StartEffect DEF Safer
<1>40. CASE \E q \in Requests : Continue(q)
  BY <1>40, ContinueEffect
<1>41. CASE Abort
  BY <1>41, AbortEffect
<1>42. CASE FinishSession
  BY <1>42, FinishSessionEffect
<1>43. CASE Acknowledge
  BY <1>43, AcknowledgeEffect
<1>44. CASE Supervise
  BY <1>44, SuperviseEffect DEF Safer
<1>45. CASE Sampler
  BY <1>45, SamplingEffect
<1>46. CASE Interrupt
  BY <1>46, InterruptEffect
<1>47. CASE ChargerChange
  BY <1>47, ChargerChangeEffect
<1>48. CASE Tick
  BY <1>48, TickEffect
<1> QED BY <1>1, <1>2, <1>3, <1>4, <1>5, <1>6, <1>7, <1>8, <1>9, <1>10, <1>11,
     <1>12, <1>13, <1>14, <1>15, <1>16, <1>17, <1>18, <1>19, <1>20, <1>21,
     <1>22, <1>23, <1>24, <1>25, <1>26, <1>27, <1>28, <1>29, <1>30, <1>31,
     <1>32, <1>33, <1>34, <1>35, <1>36, <1>37, <1>38, <1>39, <1>40, <1>41,
     <1>42, <1>43, <1>44, <1>45, <1>46, <1>47, <1>48
     DEF Next, MeasureStep, PrepareStep, ConnectedStep, ReleaseStep,
         AbortStep, Owner

(* Outside an abort, and while no failure is latched, it is released only  *)
(* by the orderly opening.                                                 *)
LEMMA CoilOpens ==
    ASSUME TypeOK, AuthorityInv, Next, k1.coil, ~k1'.coil, faults = {}, m.st # "ABORT"
    PROVE  K1Safe
<1>0. /\ K1Owned /\ m.st \notin {"IDLE", "DONE"} /\ m.k1Owned
      /\ m.st \notin PermitStates
  BY DEF AuthorityInv, ConnectedIsAuthorised, K1Owned, Active, Unowned
<1>1. CASE RevokedStep
  BY <1>1, RevokedStepEffect
<1>2. CASE ForceK1Safe
  BY <1>2, <1>0, ForceK1SafeEffect DEF PermitStates
<1>3. CASE RequestRange
  BY <1>3, RequestRangeEffect
<1>4. CASE WaitRange
  BY <1>4, WaitRangeEffect
<1>5. CASE ExcNeutral
  BY <1>5, SettleNeutralEffect DEF ExcNeutral
<1>6. CASE ExcNeutralWait
  BY <1>6, ExcNeutralWaitEffect
<1>7. CASE QuietEnter
  BY <1>7, QuietEnterEffect
<1>8. CASE PermitIssue
  BY <1>8, PermitIssueEffect
<1>9. CASE PermitValidate
  BY <1>9, PermitValidateEffect
<1>10. CASE K1Request
  BY <1>10, <1>0, K1RequestEffect DEF PermitStates
<1>11. CASE AuxPause
  BY <1>11, AuxPauseEffect
<1>12. CASE K1OperateGuard
  BY <1>12, K1OperateGuardEffect
<1>13. CASE AdcAcquire
  BY <1>13, AdcAcquireEffect
<1>14. CASE ExcSineStart
  BY <1>14, ExcSineStartEffect
<1>15. CASE ExcSettle
  BY <1>15, ExcSettleEffect
<1>16. CASE AdcDmaStart
  BY <1>16, AdcDmaStartEffect
<1>17. CASE AdcDmaWait
  BY <1>17, AdcDmaWaitEffect
<1>18. CASE AdcDmaComplete
  BY <1>18, StopAdcEffect DEF AdcDmaComplete
<1>19. CASE ExcNeutralPost
  BY <1>19, SettleNeutralEffect DEF ExcNeutralPost
<1>20. CASE ExcNeutralPostWait
  BY <1>20, ExcNeutralPostWaitEffect
<1>21. CASE PowerRefresh
  BY <1>21, PowerRefreshEffect
<1>22. CASE PowerRestore
  BY <1>22, PowerRestoreEffect DEF SamplerDisturbed
<1>23. CASE PowerWait
  BY <1>23, PowerWaitEffect
<1>24. CASE PowerAcquire
  BY <1>24, PowerAcquireEffect
<1>26. CASE K1ReleaseGuard
  BY <1>26, K1ReleaseGuardEffect
<1>27. CASE ExcOff
  BY <1>27, ExcOffEffect
<1>28. CASE RangeDisable
  BY <1>28, RangeDisableEffect
<1>29. CASE AdcRelease
  BY <1>29, StopAdcEffect DEF AdcRelease
<1>30. CASE AdcRestore
  BY <1>30, AdcRestoreEffect DEF SamplerDisturbed
<1>31. CASE AuxResume
  BY <1>31, AuxResumeEffect
<1>32. CASE QuietExit
  BY <1>32, QuietExitEffect
<1>33. CASE Analyze
  BY <1>33, AnalyzeEffect
<1>34. CASE AbortStop
  BY <1>34, <1>0, AbortStopEffect
<1>35. CASE AbortReleaseGuard
  BY <1>35, AbortReleaseGuardEffect
<1>36. CASE AbortAdcRestore
  BY <1>36, AbortAdcRestoreEffect DEF SamplerDisturbed
<1>37. CASE AbortAuxResume
  BY <1>37, AbortAuxResumeEffect
<1>38. CASE AbortQuietOff
  BY <1>38, AbortQuietOffEffect
<1>39. CASE \E q \in Requests : Start(q)
  BY <1>39, <1>0, StartEffect
<1>40. CASE \E q \in Requests : Continue(q)
  BY <1>40, ContinueEffect
<1>41. CASE Abort
  BY <1>41, AbortEffect
<1>42. CASE FinishSession
  BY <1>42, FinishSessionEffect
<1>43. CASE Acknowledge
  BY <1>43, AcknowledgeEffect
<1>44. CASE Supervise
  BY <1>44, <1>0, SuperviseEffect
<1>45. CASE Sampler
  BY <1>45, SamplingEffect
<1>46. CASE Interrupt
  BY <1>46, InterruptEffect
<1>47. CASE ChargerChange
  BY <1>47, ChargerChangeEffect
<1>48. CASE Tick
  BY <1>48, TickEffect
<1> QED BY <1>1, <1>2, <1>3, <1>4, <1>5, <1>6, <1>7, <1>8, <1>9, <1>10, <1>11,
     <1>12, <1>13, <1>14, <1>15, <1>16, <1>17, <1>18, <1>19, <1>20, <1>21,
     <1>22, <1>23, <1>24, <1>26, <1>27, <1>28, <1>29, <1>30, <1>31, <1>32,
     <1>33, <1>34, <1>35, <1>36, <1>37, <1>38, <1>39, <1>40, <1>41, <1>42,
     <1>43, <1>44, <1>45, <1>46, <1>47, <1>48
     DEF Next, MeasureStep, PrepareStep, ConnectedStep, ReleaseStep,
         AbortStep, Owner

(* The relay closes on a settled range, the one requested and permitted,   *)
(* with the source neutral, no charger, no fault and the sensors watching; *)
(* outside an abort it opens with the source neutral again.                *)
THEOREM RelaySwitchesCold == Spec => SwitchedCold
<1>1. TypeOK /\ AuthorityInv /\ CustodyInv /\ CaptureInv /\ ColdInv /\ [Next]_vars =>
        [/\ ~k1.coil /\ k1'.coil =>
                /\ RangeIsReady(rg) /\ rg.line /\ rg.current = m.req.range
                /\ permit.range = rg.current
                /\ exc.mode = "NEUTRAL" /\ charger = "ABSENT" /\ faults = {}
                /\ ~aux.paused /\ aux.power = "NONE"
         /\ k1.coil /\ ~k1'.coil /\ m.st # "ABORT" /\ faults = {} =>
                exc.mode = "NEUTRAL"]_vars
  <2> SUFFICES ASSUME TypeOK, AuthorityInv, CustodyInv, CaptureInv, ColdInv, Next
               PROVE  /\ ~k1.coil /\ k1'.coil =>
                            /\ RangeIsReady(rg) /\ rg.line /\ rg.current = m.req.range
                            /\ permit.range = rg.current
                            /\ exc.mode = "NEUTRAL" /\ charger = "ABSENT" /\ faults = {}
                            /\ ~aux.paused /\ aux.power = "NONE"
                      /\ k1.coil /\ ~k1'.coil /\ m.st # "ABORT" /\ faults = {} =>
                            exc.mode = "NEUTRAL"
    OBVIOUS
  <2>1. ASSUME ~k1.coil, k1'.coil
        PROVE  /\ RangeIsReady(rg) /\ rg.line /\ rg.current = m.req.range
               /\ permit.range = rg.current
               /\ exc.mode = "NEUTRAL" /\ charger = "ABSENT" /\ faults = {}
               /\ ~aux.paused /\ aux.power = "NONE"
    <3>1. /\ m.st = "K1_REQUEST"
          /\ faults = {} /\ charger = "ABSENT" /\ ~aux.paused
          /\ RangeSafetyState(rg) = "READY"
      BY <2>1, CoilCloses DEF K1Request, At, MeasureAllowed, Residuals
    <3>2. rg.fsm = "READY" /\ rg.enabled BY <3>1, SafetyReady
    <3>3. m.st \in RangedStates /\ m.st \in NeutralStates
      BY <3>1 DEF RangedStates, NeutralStates, DrivenStates, PermitStates, PowerStates
    <3>4. rg.current = m.req.range BY <3>2, <3>3 DEF CaptureInv
    <3>5. rg.line /\ exc.mode = "NEUTRAL" /\ permit.range = m.req.range
      BY <3>1, <3>2, <3>3 DEF ColdInv
    <3>6. aux.power = "NONE" BY <3>1 DEF CustodyInv
    <3> QED BY <3>1, <3>2, <3>4, <3>5, <3>6 DEF RangeIsReady
  <2>2. ASSUME k1.coil, ~k1'.coil, m.st # "ABORT", faults = {}
        PROVE  exc.mode = "NEUTRAL"
    <3>1. m.st = "K1_SAFE" BY <2>2, CoilOpens, K1SafeEffect
    <3> QED BY <3>1 DEF ColdInv, NeutralStates
  <2> QED BY <2>1, <2>2
<1> QED BY <1>1, MeasureTypeCorrect, AuthorityAlways, CustodyAlways, CaptureAlways,
          ColdAlways, PTL DEF Spec, SwitchedCold

(* What moves the multiplexer's lines.                                     *)
LEMMA LinesMove ==
    ASSUME TypeOK, Next, rg'.pins # rg.pins \/ rg'.line # rg.line
    PROVE  RequestRange \/ WaitRange \/ RangeDisable \/ AbortStop \/ Supervise
<1>1. CASE RevokedStep
  BY <1>1, RevokedStepEffect
<1>2. CASE ForceK1Safe
  BY <1>2, ForceK1SafeEffect
<1>3. CASE RequestRange BY <1>3
<1>4. CASE WaitRange BY <1>4
<1>5. CASE ExcNeutral
  BY <1>5, SettleNeutralEffect DEF ExcNeutral
<1>6. CASE ExcNeutralWait
  BY <1>6, ExcNeutralWaitEffect
<1>7. CASE QuietEnter
  BY <1>7, QuietEnterEffect
<1>8. CASE PermitIssue
  BY <1>8, PermitIssueEffect
<1>9. CASE PermitValidate
  BY <1>9, PermitValidateEffect
<1>10. CASE K1Request
  BY <1>10, K1RequestEffect
<1>11. CASE AuxPause
  BY <1>11, AuxPauseEffect
<1>12. CASE K1OperateGuard
  BY <1>12, K1OperateGuardEffect
<1>13. CASE AdcAcquire
  BY <1>13, AdcAcquireEffect
<1>14. CASE ExcSineStart
  BY <1>14, ExcSineStartEffect
<1>15. CASE ExcSettle
  BY <1>15, ExcSettleEffect
<1>16. CASE AdcDmaStart
  BY <1>16, AdcDmaStartEffect
<1>17. CASE AdcDmaWait
  BY <1>17, AdcDmaWaitEffect
<1>18. CASE AdcDmaComplete
  BY <1>18, StopAdcEffect DEF AdcDmaComplete
<1>19. CASE ExcNeutralPost
  BY <1>19, SettleNeutralEffect DEF ExcNeutralPost
<1>20. CASE ExcNeutralPostWait
  BY <1>20, ExcNeutralPostWaitEffect
<1>21. CASE PowerRefresh
  BY <1>21, PowerRefreshEffect
<1>22. CASE PowerRestore
  BY <1>22, PowerRestoreEffect
<1>23. CASE PowerWait
  BY <1>23, PowerWaitEffect
<1>24. CASE PowerAcquire
  BY <1>24, PowerAcquireEffect
<1>25. CASE K1Safe
  BY <1>25, K1SafeEffect
<1>26. CASE K1ReleaseGuard
  BY <1>26, K1ReleaseGuardEffect
<1>27. CASE ExcOff
  BY <1>27, ExcOffEffect
<1>28. CASE RangeDisable BY <1>28
<1>29. CASE AdcRelease
  BY <1>29, StopAdcEffect DEF AdcRelease
<1>30. CASE AdcRestore
  BY <1>30, AdcRestoreEffect
<1>31. CASE AuxResume
  BY <1>31, AuxResumeEffect
<1>32. CASE QuietExit
  BY <1>32, QuietExitEffect
<1>33. CASE Analyze
  BY <1>33, AnalyzeEffect
<1>34. CASE AbortStop BY <1>34
<1>35. CASE AbortReleaseGuard
  BY <1>35, AbortReleaseGuardEffect
<1>36. CASE AbortAdcRestore
  BY <1>36, AbortAdcRestoreEffect
<1>37. CASE AbortAuxResume
  BY <1>37, AbortAuxResumeEffect
<1>38. CASE AbortQuietOff
  BY <1>38, AbortQuietOffEffect
<1>39. CASE \E q \in Requests : Start(q)
  BY <1>39, StartEffect
<1>40. CASE \E q \in Requests : Continue(q)
  BY <1>40, ContinueEffect
<1>41. CASE Abort
  BY <1>41, AbortEffect
<1>42. CASE FinishSession
  BY <1>42, FinishSessionEffect
<1>43. CASE Acknowledge
  BY <1>43, AcknowledgeEffect
<1>44. CASE Supervise BY <1>44
<1>45. CASE Sampler
  BY <1>45, SamplingEffect
<1>46. CASE Interrupt
  BY <1>46, InterruptEffect
<1>47. CASE ChargerChange
  BY <1>47, ChargerChangeEffect
<1>48. CASE Tick
  BY <1>48, TickEffect
<1> QED BY <1>1, <1>2, <1>3, <1>4, <1>5, <1>6, <1>7, <1>8, <1>9, <1>10, <1>11,
     <1>12, <1>13, <1>14, <1>15, <1>16, <1>17, <1>18, <1>19, <1>20, <1>21,
     <1>22, <1>23, <1>24, <1>25, <1>26, <1>27, <1>28, <1>29, <1>30, <1>31,
     <1>32, <1>33, <1>34, <1>35, <1>36, <1>37, <1>38, <1>39, <1>40, <1>41,
     <1>42, <1>43, <1>44, <1>45, <1>46, <1>47, <1>48
     DEF Next, MeasureStep, PrepareStep, ConnectedStep, ReleaseStep,
         AbortStep, Owner

LEMMA StepMoves ==
    ASSUME TypeOK, NEW e, rg' = RangeStepped(e), rg'.pins # rg.pins \/ rg'.line # rg.line
    PROVE  rg.fsm = "DEAD_TIME"
<1>1. CASE t.range = 0
  <2>1. rg' = RangeElapsed(rg, e) BY <1>1 DEF RangeStepped
  <2>2. rg \in RangeRecord BY DEF TypeOK
  <2> QED BY <2>1, <2>2, ElapsedPost
<1>2. CASE t.range # 0 BY <1>2 DEF RangeStepped
<1> QED BY <1>1, <1>2

(* While the terminals are connected the range is re-addressed only with   *)
(* the source neutral: never under a sine, unless an abort or a latched    *)
(* fault is taking the multiplexer down.                                   *)
THEOREM RangeMovesCold == Spec => RangeMovesUnderNeutral
<1>1. TypeOK /\ AuthorityInv /\ CustodyInv /\ CaptureInv /\ ColdInv /\ [Next]_vars =>
        [k1.coil /\ (rg'.pins # rg.pins \/ rg'.line # rg.line) =>
            exc.mode = "NEUTRAL" \/ m.st = "ABORT" \/ faults' # {}]_vars
  <2> SUFFICES ASSUME TypeOK, AuthorityInv, CaptureInv, ColdInv, Next, k1.coil,
                      rg'.pins # rg.pins \/ rg'.line # rg.line,
                      m.st # "ABORT", faults' = {}
               PROVE  exc.mode = "NEUTRAL"
    OBVIOUS
  <2>1. faults = {}
    BY LinesMove, RequestRangeEffect, WaitRangeEffect, RangeDisableEffect,
       AbortStopEffect, SuperviseEffect
  <2>2. /\ m.k1Owned /\ m.st \in States /\ m.st \notin {"IDLE", "DONE", "ABORT"}
        /\ ~Unowned(m) /\ m.st \notin ReleasedStates
    BY <2>1 DEF AuthorityInv, ConnectedIsAuthorised, K1Owned, Active, Isolated,
       Released, TypeOK, MeasureRecord
  <2>3. CASE m.st \in SharedStates
    BY <2>2, <2>3 DEF ColdInv, Unowned
  <2>4. CASE m.st \notin SharedStates
    <3>1. m.st \in ClosedStates \cup PowerStates
      <4>1. m.st \notin PermitStates BY <2>2 DEF Unowned
      <4> QED BY <2>2, <2>4, <4>1
         DEF States, PermitStates, ReleasedStates, SharedStates, ClosedStates,
             PowerStates
    <3>2. CASE m.st = "K1_SAFE" BY <3>2 DEF ColdInv, NeutralStates
    <3>3. CASE m.st # "K1_SAFE"
      <4>1. rg.fsm # "DEAD_TIME" BY <3>1, <3>3 DEF CaptureInv, RangedStates
      <4>2. Supervise
        BY <2>2, <3>1, LinesMove, RequestRangeEffect, WaitRangeEffect,
           RangeDisableEffect, AbortStopEffect
           DEF ClosedStates, PowerStates
      <4>3. \E e \in Gpio : rg' = RangeStepped(e)
        BY <4>2 DEF Supervise
      <4> QED BY <4>1, <4>3, StepMoves
    <3> QED BY <3>2, <3>3
  <2> QED BY <2>3, <2>4
<1> QED BY <1>1, MeasureTypeCorrect, AuthorityAlways, CustodyAlways, CaptureAlways,
          ColdAlways, PTL DEF Spec, RangeMovesUnderNeutral

(***************************************************************************)
(* The settling of the source, across the power refreshes.                 *)
(***************************************************************************)
SettleInv == m.st \in PowerStates => t.resume <= t.wait

LEMMA Elapses ==
    ASSUME NEW n \in Nat, NEW k \in Nat, n <= k
    PROVE  Decrement(n) <= Decrement(k) /\ Decrement(k) <= k
BY DEF Decrement

LEMMA SettleStep ==
    ASSUME TypeOK, AuthorityInv, SettleInv, Next
    PROVE  SettleInv'
<1>0. t.wait \in Nat /\ t.resume \in Nat BY DEF TypeOK, Deadlines
<1>1. CASE RevokedStep
  BY <1>1, RevokedStepEffect
     DEF Fell, Carried, Custody, SettleInv, PowerStates
<1>2. CASE ForceK1Safe
  BY <1>2, ForceK1SafeEffect
     DEF Fell, Moved, Carried, Custody, Safer, SettleInv, PowerStates
<1>3. CASE RequestRange
  BY <1>3, RequestRangeEffect
     DEF Fell, Moved, Carried, Custody, SettleInv, PowerStates
<1>4. CASE WaitRange
  BY <1>4, WaitRangeEffect
     DEF Fell, Moved, Carried, Custody, Stepped, SettleInv, PowerStates
<1>5. CASE ExcNeutral
  BY <1>5, SettleNeutralEffect
     DEF ExcNeutral, Moved, Carried, Custody, SettleInv, PowerStates
<1>6. CASE ExcNeutralWait
  BY <1>6, ExcNeutralWaitEffect
     DEF Moved, Carried, Custody, SettleInv, PowerStates
<1>7. CASE QuietEnter
  BY <1>7, QuietEnterEffect
     DEF Carried, Custody, SettleInv, PowerStates
<1>8. CASE PermitIssue
  BY <1>8, PermitIssueEffect
     DEF Fell, Moved, Carried, Custody, SettleInv, PowerStates
<1>9. CASE PermitValidate
  BY <1>9, PermitValidateEffect
     DEF Fell, Moved, Carried, Custody, SettleInv, PowerStates
<1>10. CASE K1Request
  BY <1>10, K1RequestEffect
     DEF Fell, Carried, Custody, SettleInv, PowerStates
<1>11. CASE AuxPause
  BY <1>11, AuxPauseEffect
     DEF Moved, Carried, Custody, SettleInv, PowerStates
<1>12. CASE K1OperateGuard
  BY <1>12, K1OperateGuardEffect
     DEF Moved, Carried, Custody, SettleInv, PowerStates
<1>13. CASE AdcAcquire
  BY <1>13, AdcAcquireEffect
     DEF Taken, Fell, Carried, SettleInv, PowerStates
<1>14. CASE ExcSineStart
  BY <1>14, ExcSineStartEffect
     DEF Fell, Moved, Carried, Custody, SettleInv, PowerStates
<1>15. CASE ExcSettle
  BY <1>15, ExcSettleEffect
     DEF Fell, Moved, Carried, Custody, SettleInv, PowerStates
<1>16. CASE AdcDmaStart
  BY <1>16, AdcDmaStartEffect
     DEF Fell, Moved, Carried, Custody, SettleInv, PowerStates
<1>17. CASE AdcDmaWait
  BY <1>17, AdcDmaWaitEffect
     DEF Fell, Moved, Carried, Custody, SettleInv, PowerStates
<1>18. CASE AdcDmaComplete
  BY <1>18, StopAdcEffect
     DEF AdcDmaComplete, Moved, Carried, Custody, SettleInv, PowerStates
<1>19. CASE ExcNeutralPost
  BY <1>19, SettleNeutralEffect
     DEF ExcNeutralPost, Moved, Carried, Custody, SettleInv, PowerStates
<1>20. CASE ExcNeutralPostWait
  BY <1>20, ExcNeutralPostWaitEffect
     DEF Ends, Moved, Carried, Custody, SettleInv, PowerStates
<1>21. CASE PowerRefresh
  BY <1>21, PowerRefreshEffect, <1>0
     DEF Custody, SettleInv, PowerStates
<1>22. CASE PowerRestore
  BY <1>22, PowerRestoreEffect
     DEF NotGivenBack, Fell, Carried, SamplerDisturbed, SettleInv, PowerStates
<1>23. CASE PowerWait
  BY <1>23, PowerWaitEffect
     DEF Fell, Moved, Carried, Custody, SettleInv, PowerStates
<1>24. CASE PowerAcquire
  BY <1>24, PowerAcquireEffect
     DEF Taken, Fell, Carried, SettleInv, PowerStates, AuthorityInv, TypeOK,
         MeasureRecord
<1>25. CASE K1Safe
  BY <1>25, K1SafeEffect
     DEF Fell, Carried, Custody, Safer, SettleInv, PowerStates
<1>26. CASE K1ReleaseGuard
  BY <1>26, K1ReleaseGuardEffect
     DEF Carried, Custody, SettleInv, PowerStates
<1>27. CASE ExcOff
  BY <1>27, ExcOffEffect
     DEF Moved, Carried, Custody, SettleInv, PowerStates
<1>28. CASE RangeDisable
  BY <1>28, RangeDisableEffect
     DEF Fell, Moved, Carried, Custody, SettleInv, PowerStates
<1>29. CASE AdcRelease
  BY <1>29, StopAdcEffect
     DEF AdcRelease, Moved, Carried, Custody, SettleInv, PowerStates
<1>30. CASE AdcRestore
  BY <1>30, AdcRestoreEffect
     DEF NotGivenBack, Fell, Carried, SamplerDisturbed, SettleInv, PowerStates
<1>31. CASE AuxResume
  BY <1>31, AuxResumeEffect
     DEF Moved, Carried, Custody, SettleInv, PowerStates
<1>32. CASE QuietExit
  BY <1>32, QuietExitEffect
     DEF Carried, Custody, SettleInv, PowerStates
<1>33. CASE Analyze
  BY <1>33, AnalyzeEffect
     DEF Ends, Carried, Custody, SettleInv, PowerStates
<1>34. CASE AbortStop
  BY <1>34, AbortStopEffect
     DEF Custody, Safer, SettleInv, PowerStates
<1>35. CASE AbortReleaseGuard
  BY <1>35, AbortReleaseGuardEffect
     DEF Carried, Custody, SettleInv, PowerStates
<1>36. CASE AbortAdcRestore
  BY <1>36, AbortAdcRestoreEffect
     DEF Carried, Custody, SamplerDisturbed, SettleInv, PowerStates
<1>37. CASE AbortAuxResume
  BY <1>37, AbortAuxResumeEffect
     DEF Carried, Custody, SettleInv, PowerStates
<1>38. CASE AbortQuietOff
  BY <1>38, AbortQuietOffEffect
     DEF Carried, Custody, SettleInv, PowerStates
<1>39. CASE \E q \in Requests : Start(q)
  BY <1>39, StartEffect
     DEF Begun, Safer, SettleInv, PowerStates
<1>40. CASE \E q \in Requests : Continue(q)
  BY <1>40, ContinueEffect
     DEF Fell, Carried, Custody, SettleInv, PowerStates
<1>41. CASE Abort
  BY <1>41, AbortEffect
     DEF Fell, Carried, Custody, SettleInv, PowerStates
<1>42. CASE FinishSession
  BY <1>42, FinishSessionEffect
     DEF Moved, Carried, Custody, SettleInv, PowerStates
<1>43. CASE Acknowledge
  BY <1>43, AcknowledgeEffect
     DEF Custody, SettleInv, PowerStates
<1>44. CASE Supervise
  BY <1>44, SuperviseEffect
     DEF Stepped, Safer, SettleInv, PowerStates
<1>45. CASE Sampler
  BY <1>45, SamplingEffect
     DEF SettleInv, PowerStates
<1>46. CASE Interrupt
  BY <1>46, InterruptEffect
     DEF SettleInv, PowerStates
<1>47. CASE ChargerChange
  BY <1>47, ChargerChangeEffect
     DEF SettleInv, PowerStates
<1>48. CASE Tick
  BY <1>48, TickEffect, <1>0, Elapses
     DEF SettleInv, PowerStates
<1> QED BY <1>1, <1>2, <1>3, <1>4, <1>5, <1>6, <1>7, <1>8, <1>9, <1>10, <1>11,
     <1>12, <1>13, <1>14, <1>15, <1>16, <1>17, <1>18, <1>19, <1>20, <1>21,
     <1>22, <1>23, <1>24, <1>25, <1>26, <1>27, <1>28, <1>29, <1>30, <1>31,
     <1>32, <1>33, <1>34, <1>35, <1>36, <1>37, <1>38, <1>39, <1>40, <1>41,
     <1>42, <1>43, <1>44, <1>45, <1>46, <1>47, <1>48
     DEF Next, MeasureStep, PrepareStep, ConnectedStep, ReleaseStep,
         AbortStep, Owner

LEMMA SettleAlways == Spec => []SettleInv
<1>1. Init => SettleInv BY DEF Init, SettleInv, PowerStates
<1>2. TypeOK /\ AuthorityInv /\ SettleInv /\ [Next]_vars => SettleInv'
  <2>1. SettleInv /\ UNCHANGED vars => SettleInv' BY DEF vars, SettleInv
  <2> QED BY <2>1, SettleStep
<1> QED BY <1>1, <1>2, MeasureTypeCorrect, AuthorityAlways, PTL DEF Spec

LEMMA SettleShrinks ==
    ASSUME TypeOK, AuthorityInv, SettleInv,
           m.st \in PowerStates \cup {"EXC_SETTLE"},
           m'.st \in PowerStates \cup {"EXC_SETTLE", "ADC_DMA_START"}, Next
    PROVE  t'.wait <= t.wait
<1>0. t.wait \in Nat /\ t.resume \in Nat BY DEF TypeOK, Deadlines
<1>1. CASE RevokedStep
  BY <1>1, <1>0, RevokedStepEffect
     DEF Fell, Carried, Custody, PowerStates
<1>2. CASE ForceK1Safe
  BY <1>2, <1>0, ForceK1SafeEffect
     DEF Fell, Moved, Carried, Custody, Safer, PowerStates
<1>3. CASE RequestRange
  BY <1>3, <1>0, RequestRangeEffect
     DEF Fell, Moved, Carried, Custody, PowerStates
<1>4. CASE WaitRange
  BY <1>4, <1>0, WaitRangeEffect
     DEF Fell, Moved, Carried, Custody, Stepped, PowerStates
<1>5. CASE ExcNeutral
  BY <1>5, <1>0, SettleNeutralEffect
     DEF ExcNeutral, Moved, Carried, Custody, PowerStates
<1>6. CASE ExcNeutralWait
  BY <1>6, <1>0, ExcNeutralWaitEffect
     DEF Moved, Carried, Custody, PowerStates
<1>7. CASE QuietEnter
  BY <1>7, <1>0, QuietEnterEffect
     DEF Carried, Custody, PowerStates
<1>8. CASE PermitIssue
  BY <1>8, <1>0, PermitIssueEffect
     DEF Fell, Moved, Carried, Custody, PowerStates
<1>9. CASE PermitValidate
  BY <1>9, <1>0, PermitValidateEffect
     DEF Fell, Moved, Carried, Custody, PowerStates
<1>10. CASE K1Request
  BY <1>10, <1>0, K1RequestEffect
     DEF Fell, Carried, Custody, PowerStates
<1>11. CASE AuxPause
  BY <1>11, <1>0, AuxPauseEffect
     DEF Moved, Carried, Custody, PowerStates
<1>12. CASE K1OperateGuard
  BY <1>12, <1>0, K1OperateGuardEffect
     DEF Moved, Carried, Custody, PowerStates
<1>13. CASE AdcAcquire
  BY <1>13, <1>0, AdcAcquireEffect
     DEF Taken, Fell, Carried, PowerStates
<1>14. CASE ExcSineStart
  BY <1>14, <1>0, ExcSineStartEffect
     DEF Fell, Moved, Carried, Custody, PowerStates
<1>15. CASE ExcSettle
  BY <1>15, <1>0, ExcSettleEffect
     DEF Fell, Moved, Carried, Custody, PowerStates
<1>16. CASE AdcDmaStart
  BY <1>16, <1>0, AdcDmaStartEffect
     DEF Fell, Moved, Carried, Custody, PowerStates
<1>17. CASE AdcDmaWait
  BY <1>17, <1>0, AdcDmaWaitEffect
     DEF Fell, Moved, Carried, Custody, PowerStates
<1>18. CASE AdcDmaComplete
  BY <1>18, <1>0, StopAdcEffect
     DEF AdcDmaComplete, Moved, Carried, Custody, PowerStates
<1>19. CASE ExcNeutralPost
  BY <1>19, <1>0, SettleNeutralEffect
     DEF ExcNeutralPost, Moved, Carried, Custody, PowerStates
<1>20. CASE ExcNeutralPostWait
  BY <1>20, <1>0, ExcNeutralPostWaitEffect
     DEF Ends, Moved, Carried, Custody, PowerStates
<1>21. CASE PowerRefresh
  BY <1>21, <1>0, PowerRefreshEffect, <1>0
     DEF Custody, PowerStates
<1>22. CASE PowerRestore
  BY <1>22, <1>0, PowerRestoreEffect
     DEF NotGivenBack, Fell, Carried, SamplerDisturbed, PowerStates
<1>23. CASE PowerWait
  BY <1>23, <1>0, PowerWaitEffect
     DEF Fell, Moved, Carried, Custody, PowerStates
<1>24. CASE PowerAcquire
  BY <1>24, <1>0, PowerAcquireEffect, <1>0
     DEF Taken, Fell, Carried, PowerStates, SettleInv
<1>25. CASE K1Safe
  BY <1>25, <1>0, K1SafeEffect
     DEF Fell, Carried, Custody, Safer, PowerStates
<1>26. CASE K1ReleaseGuard
  BY <1>26, <1>0, K1ReleaseGuardEffect
     DEF Carried, Custody, PowerStates
<1>27. CASE ExcOff
  BY <1>27, <1>0, ExcOffEffect
     DEF Moved, Carried, Custody, PowerStates
<1>28. CASE RangeDisable
  BY <1>28, <1>0, RangeDisableEffect
     DEF Fell, Moved, Carried, Custody, PowerStates
<1>29. CASE AdcRelease
  BY <1>29, <1>0, StopAdcEffect
     DEF AdcRelease, Moved, Carried, Custody, PowerStates
<1>30. CASE AdcRestore
  BY <1>30, <1>0, AdcRestoreEffect
     DEF NotGivenBack, Fell, Carried, SamplerDisturbed, PowerStates
<1>31. CASE AuxResume
  BY <1>31, <1>0, AuxResumeEffect
     DEF Moved, Carried, Custody, PowerStates
<1>32. CASE QuietExit
  BY <1>32, <1>0, QuietExitEffect
     DEF Carried, Custody, PowerStates
<1>33. CASE Analyze
  BY <1>33, <1>0, AnalyzeEffect
     DEF Ends, Carried, Custody, PowerStates
<1>34. CASE AbortStop
  BY <1>34, <1>0, AbortStopEffect
     DEF Custody, Safer, PowerStates
<1>35. CASE AbortReleaseGuard
  BY <1>35, <1>0, AbortReleaseGuardEffect
     DEF Carried, Custody, PowerStates
<1>36. CASE AbortAdcRestore
  BY <1>36, <1>0, AbortAdcRestoreEffect
     DEF Carried, Custody, SamplerDisturbed, PowerStates
<1>37. CASE AbortAuxResume
  BY <1>37, <1>0, AbortAuxResumeEffect
     DEF Carried, Custody, PowerStates
<1>38. CASE AbortQuietOff
  BY <1>38, <1>0, AbortQuietOffEffect
     DEF Carried, Custody, PowerStates
<1>39. CASE \E q \in Requests : Start(q)
  BY <1>39, <1>0, StartEffect
     DEF Begun, Safer, PowerStates
<1>40. CASE \E q \in Requests : Continue(q)
  BY <1>40, <1>0, ContinueEffect
     DEF Fell, Carried, Custody, PowerStates
<1>41. CASE Abort
  BY <1>41, <1>0, AbortEffect
     DEF Fell, Carried, Custody, PowerStates
<1>42. CASE FinishSession
  BY <1>42, <1>0, FinishSessionEffect
     DEF Moved, Carried, Custody, PowerStates
<1>43. CASE Acknowledge
  BY <1>43, <1>0, AcknowledgeEffect
     DEF Custody, PowerStates
<1>44. CASE Supervise
  BY <1>44, <1>0, SuperviseEffect
     DEF Stepped, Safer, PowerStates
<1>45. CASE Sampler
  BY <1>45, <1>0, SamplingEffect
     DEF PowerStates
<1>46. CASE Interrupt
  BY <1>46, <1>0, InterruptEffect
     DEF PowerStates
<1>47. CASE ChargerChange
  BY <1>47, <1>0, ChargerChangeEffect
     DEF PowerStates
<1>48. CASE Tick
  BY <1>48, <1>0, TickEffect, <1>0, Elapses
     DEF PowerStates
<1> QED BY <1>1, <1>2, <1>3, <1>4, <1>5, <1>6, <1>7, <1>8, <1>9, <1>10, <1>11,
     <1>12, <1>13, <1>14, <1>15, <1>16, <1>17, <1>18, <1>19, <1>20, <1>21,
     <1>22, <1>23, <1>24, <1>25, <1>26, <1>27, <1>28, <1>29, <1>30, <1>31,
     <1>32, <1>33, <1>34, <1>35, <1>36, <1>37, <1>38, <1>39, <1>40, <1>41,
     <1>42, <1>43, <1>44, <1>45, <1>46, <1>47, <1>48
     DEF Next, MeasureStep, PrepareStep, ConnectedStep, ReleaseStep,
         AbortStep, Owner

(* The settling of the source is not restarted by a power refresh: what is *)
(* left of it never grows between the start of the sine and the capture.   *)
THEOREM RefreshKeepsSettling == Spec => SettleNotRestarted
<1>1. TypeOK /\ AuthorityInv /\ SettleInv /\ [Next]_vars =>
        [/\ m.st \in PowerStates \cup {"EXC_SETTLE"}
         /\ m'.st \in PowerStates \cup {"EXC_SETTLE", "ADC_DMA_START"}
         => t'.wait <= t.wait]_vars
  BY SettleShrinks
<1> QED BY <1>1, MeasureTypeCorrect, AuthorityAlways, SettleAlways,
          PTL DEF Spec, SettleNotRestarted

(***************************************************************************)
(* The transaction implements what its owners rely on (Attempt).           *)
(***************************************************************************)
RunStates ==
    PermitStates \cup SharedStates \cup (ClosedStates \ {"SESSION_HOLD", "K1_SAFE"})
    \cup PowerStates
EndStates == ReleasedStates \cup {"K1_SAFE"}
TakenStates == {"ADC_DMA_COMPLETE", "EXC_NEUTRAL_POST", "EXC_NEUTRAL_POST_WAIT"}

(* Where a transaction goes after its capture is decided by the flag set   *)
(* when the relay closed, and the flag is the request's wish.              *)
AttemptInv ==
    /\ m.st \in RunStates \cup {"ABORT"} => ~m.valid
    /\ m.st \in TakenStates => m.done
    /\ m.st \in RunStates \ (PermitStates \cup SharedStates) => (m.connected <=> Holds(m.req))
    /\ m.st \in SharedStates /\ m.connected => Holds(m.req)
    /\ m.st = "SESSION_HOLD" => m.connected
    /\ m.st = "ABORT" => m.err # "OK"

LEMMA AttemptStep ==
    ASSUME TypeOK, AuthorityInv, CustodyInv, AttemptInv, Next
    PROVE  AttemptInv'
<1>1. CASE RevokedStep
  BY <1>1, RevokedStepEffect
     DEF Fell, Carried, Custody, AttemptInv, RunStates, TakenStates,
         ClosedStates, SharedStates, PermitStates, PowerStates
<1>2. CASE ForceK1Safe
  BY <1>2, ForceK1SafeEffect
     DEF Fell, Moved, Carried, Custody, Safer, AttemptInv, RunStates,
         TakenStates, ClosedStates, SharedStates, PermitStates, PowerStates,
         CustodyInv
<1>3. CASE RequestRange
  BY <1>3, RequestRangeEffect
     DEF Fell, Moved, Carried, Custody, AttemptInv, RunStates, TakenStates,
         ClosedStates, SharedStates, PermitStates, PowerStates
<1>4. CASE WaitRange
  BY <1>4, WaitRangeEffect
     DEF Fell, Moved, Carried, Custody, Stepped, AttemptInv, RunStates,
         TakenStates, ClosedStates, SharedStates, PermitStates, PowerStates
<1>5. CASE ExcNeutral
  BY <1>5, SettleNeutralEffect
     DEF ExcNeutral, Moved, Carried, Custody, AttemptInv, RunStates,
         TakenStates, ClosedStates, SharedStates, PermitStates, PowerStates
<1>6. CASE ExcNeutralWait
  BY <1>6, ExcNeutralWaitEffect
     DEF Moved, Carried, Custody, AttemptInv, RunStates, TakenStates,
         ClosedStates, SharedStates, PermitStates, PowerStates
<1>7. CASE QuietEnter
  BY <1>7, QuietEnterEffect
     DEF Carried, Custody, AttemptInv, RunStates, TakenStates, ClosedStates,
         SharedStates, PermitStates, PowerStates, CustodyInv
<1>8. CASE PermitIssue
  BY <1>8, PermitIssueEffect
     DEF Fell, Moved, Carried, Custody, AttemptInv, RunStates, TakenStates,
         ClosedStates, SharedStates, PermitStates, PowerStates, CustodyInv
<1>9. CASE PermitValidate
  BY <1>9, PermitValidateEffect
     DEF Fell, Moved, Carried, Custody, AttemptInv, RunStates, TakenStates,
         ClosedStates, SharedStates, PermitStates, PowerStates, CustodyInv
<1>10. CASE K1Request
  BY <1>10, K1RequestEffect
     DEF Fell, Carried, Custody, AttemptInv, RunStates, TakenStates,
         ClosedStates, SharedStates, PermitStates, PowerStates, CustodyInv
<1>11. CASE AuxPause
  BY <1>11, AuxPauseEffect
     DEF Moved, Carried, Custody, AttemptInv, RunStates, TakenStates,
         ClosedStates, SharedStates, PermitStates, PowerStates
<1>12. CASE K1OperateGuard
  BY <1>12, K1OperateGuardEffect
     DEF Moved, Carried, Custody, AttemptInv, RunStates, TakenStates,
         ClosedStates, SharedStates, PermitStates, PowerStates
<1>13. CASE AdcAcquire
  BY <1>13, AdcAcquireEffect
     DEF Taken, Fell, Carried, AttemptInv, RunStates, TakenStates,
         ClosedStates, SharedStates, PermitStates, PowerStates
<1>14. CASE ExcSineStart
  BY <1>14, ExcSineStartEffect
     DEF Fell, Moved, Carried, Custody, AttemptInv, RunStates, TakenStates,
         ClosedStates, SharedStates, PermitStates, PowerStates
<1>15. CASE ExcSettle
  BY <1>15, ExcSettleEffect
     DEF Fell, Moved, Carried, Custody, AttemptInv, RunStates, TakenStates,
         ClosedStates, SharedStates, PermitStates, PowerStates
<1>16. CASE AdcDmaStart
  BY <1>16, AdcDmaStartEffect
     DEF Fell, Moved, Carried, Custody, AttemptInv, RunStates, TakenStates,
         ClosedStates, SharedStates, PermitStates, PowerStates
<1>17. CASE AdcDmaWait
  BY <1>17, AdcDmaWaitEffect
     DEF Fell, Moved, Carried, Custody, AttemptInv, RunStates, TakenStates,
         ClosedStates, SharedStates, PermitStates, PowerStates
<1>18. CASE AdcDmaComplete
  BY <1>18, StopAdcEffect
     DEF AdcDmaComplete, Moved, Carried, Custody, AttemptInv, RunStates,
         TakenStates, ClosedStates, SharedStates, PermitStates, PowerStates
<1>19. CASE ExcNeutralPost
  BY <1>19, SettleNeutralEffect
     DEF ExcNeutralPost, Moved, Carried, Custody, AttemptInv, RunStates,
         TakenStates, ClosedStates, SharedStates, PermitStates, PowerStates
<1>20. CASE ExcNeutralPostWait
  BY <1>20, ExcNeutralPostWaitEffect
     DEF Ends, Moved, Carried, Custody, AttemptInv, RunStates, TakenStates,
         ClosedStates, SharedStates, PermitStates, PowerStates
<1>21. CASE PowerRefresh
  BY <1>21, PowerRefreshEffect
     DEF Custody, AttemptInv, RunStates, TakenStates, ClosedStates,
         SharedStates, PermitStates, PowerStates
<1>22. CASE PowerRestore
  BY <1>22, PowerRestoreEffect
     DEF NotGivenBack, Fell, Carried, SamplerDisturbed, AttemptInv, RunStates,
         TakenStates, ClosedStates, SharedStates, PermitStates, PowerStates
<1>23. CASE PowerWait
  BY <1>23, PowerWaitEffect
     DEF Fell, Moved, Carried, Custody, AttemptInv, RunStates, TakenStates,
         ClosedStates, SharedStates, PermitStates, PowerStates
<1>24. CASE PowerAcquire
  BY <1>24, PowerAcquireEffect
     DEF Taken, Fell, Carried, AttemptInv, RunStates, TakenStates,
         ClosedStates, SharedStates, PermitStates, PowerStates, AuthorityInv,
         TypeOK, MeasureRecord
<1>25. CASE K1Safe
  BY <1>25, K1SafeEffect
     DEF Fell, Carried, Custody, Safer, AttemptInv, RunStates, TakenStates,
         ClosedStates, SharedStates, PermitStates, PowerStates
<1>26. CASE K1ReleaseGuard
  BY <1>26, K1ReleaseGuardEffect
     DEF Carried, Custody, AttemptInv, RunStates, TakenStates, ClosedStates,
         SharedStates, PermitStates, PowerStates
<1>27. CASE ExcOff
  BY <1>27, ExcOffEffect
     DEF Moved, Carried, Custody, AttemptInv, RunStates, TakenStates,
         ClosedStates, SharedStates, PermitStates, PowerStates
<1>28. CASE RangeDisable
  BY <1>28, RangeDisableEffect
     DEF Fell, Moved, Carried, Custody, AttemptInv, RunStates, TakenStates,
         ClosedStates, SharedStates, PermitStates, PowerStates
<1>29. CASE AdcRelease
  BY <1>29, StopAdcEffect
     DEF AdcRelease, Moved, Carried, Custody, AttemptInv, RunStates,
         TakenStates, ClosedStates, SharedStates, PermitStates, PowerStates
<1>30. CASE AdcRestore
  BY <1>30, AdcRestoreEffect
     DEF NotGivenBack, Fell, Carried, SamplerDisturbed, AttemptInv, RunStates,
         TakenStates, ClosedStates, SharedStates, PermitStates, PowerStates
<1>31. CASE AuxResume
  BY <1>31, AuxResumeEffect
     DEF Moved, Carried, Custody, AttemptInv, RunStates, TakenStates,
         ClosedStates, SharedStates, PermitStates, PowerStates
<1>32. CASE QuietExit
  BY <1>32, QuietExitEffect
     DEF Carried, Custody, AttemptInv, RunStates, TakenStates, ClosedStates,
         SharedStates, PermitStates, PowerStates
<1>33. CASE Analyze
  BY <1>33, AnalyzeEffect
     DEF Ends, Carried, Custody, AttemptInv, RunStates, TakenStates,
         ClosedStates, SharedStates, PermitStates, PowerStates
<1>34. CASE AbortStop
  BY <1>34, AbortStopEffect
     DEF Custody, Safer, AttemptInv, RunStates, TakenStates, ClosedStates,
         SharedStates, PermitStates, PowerStates
<1>35. CASE AbortReleaseGuard
  BY <1>35, AbortReleaseGuardEffect
     DEF Carried, Custody, AttemptInv, RunStates, TakenStates, ClosedStates,
         SharedStates, PermitStates, PowerStates
<1>36. CASE AbortAdcRestore
  BY <1>36, AbortAdcRestoreEffect
     DEF Carried, Custody, SamplerDisturbed, AttemptInv, RunStates,
         TakenStates, ClosedStates, SharedStates, PermitStates, PowerStates
<1>37. CASE AbortAuxResume
  BY <1>37, AbortAuxResumeEffect
     DEF Carried, Custody, AttemptInv, RunStates, TakenStates, ClosedStates,
         SharedStates, PermitStates, PowerStates
<1>38. CASE AbortQuietOff
  BY <1>38, AbortQuietOffEffect
     DEF Carried, Custody, AttemptInv, RunStates, TakenStates, ClosedStates,
         SharedStates, PermitStates, PowerStates
<1>39. CASE \E q \in Requests : Start(q)
  BY <1>39, StartEffect
     DEF Begun, Safer, AttemptInv, RunStates, TakenStates, ClosedStates,
         SharedStates, PermitStates, PowerStates, CustodyInv
<1>40. CASE \E q \in Requests : Continue(q)
  BY <1>40, ContinueEffect
     DEF Fell, Carried, Custody, AttemptInv, RunStates, TakenStates,
         ClosedStates, SharedStates, PermitStates, PowerStates
<1>41. CASE Abort
  BY <1>41, AbortEffect
     DEF Fell, Carried, Custody, AttemptInv, RunStates, TakenStates,
         ClosedStates, SharedStates, PermitStates, PowerStates
<1>42. CASE FinishSession
  BY <1>42, FinishSessionEffect
     DEF Moved, Carried, Custody, AttemptInv, RunStates, TakenStates,
         ClosedStates, SharedStates, PermitStates, PowerStates
<1>43. CASE Acknowledge
  BY <1>43, AcknowledgeEffect
     DEF Custody, AttemptInv, RunStates, TakenStates, ClosedStates,
         SharedStates, PermitStates, PowerStates
<1>44. CASE Supervise
  BY <1>44, SuperviseEffect
     DEF Stepped, Safer, AttemptInv, RunStates, TakenStates, ClosedStates,
         SharedStates, PermitStates, PowerStates
<1>45. CASE Sampler
  BY <1>45, SamplingEffect
     DEF AttemptInv, RunStates, TakenStates, ClosedStates, SharedStates,
         PermitStates, PowerStates
<1>46. CASE Interrupt
  BY <1>46, InterruptEffect
     DEF AttemptInv, RunStates, TakenStates, ClosedStates, SharedStates,
         PermitStates, PowerStates
<1>47. CASE ChargerChange
  BY <1>47, ChargerChangeEffect
     DEF AttemptInv, RunStates, TakenStates, ClosedStates, SharedStates,
         PermitStates, PowerStates
<1>48. CASE Tick
  BY <1>48, TickEffect
     DEF AttemptInv, RunStates, TakenStates, ClosedStates, SharedStates,
         PermitStates, PowerStates
<1> QED BY <1>1, <1>2, <1>3, <1>4, <1>5, <1>6, <1>7, <1>8, <1>9, <1>10, <1>11,
     <1>12, <1>13, <1>14, <1>15, <1>16, <1>17, <1>18, <1>19, <1>20, <1>21,
     <1>22, <1>23, <1>24, <1>25, <1>26, <1>27, <1>28, <1>29, <1>30, <1>31,
     <1>32, <1>33, <1>34, <1>35, <1>36, <1>37, <1>38, <1>39, <1>40, <1>41,
     <1>42, <1>43, <1>44, <1>45, <1>46, <1>47, <1>48
     DEF Next, MeasureStep, PrepareStep, ConnectedStep, ReleaseStep,
         AbortStep, Owner

LEMMA AttemptAlways == Spec => []AttemptInv
<1>1. Init => AttemptInv
  BY DEF Init, AttemptInv, RunStates, TakenStates, ClosedStates, SharedStates,
         PermitStates, PowerStates
<1>2. TypeOK /\ AuthorityInv /\ CustodyInv /\ AttemptInv /\ [Next]_vars => AttemptInv'
  <2>1. AttemptInv /\ UNCHANGED vars => AttemptInv' BY DEF vars, AttemptInv
  <2> QED BY <2>1, AttemptStep
<1> QED BY <1>1, <1>2, MeasureTypeCorrect, AuthorityAlways, CustodyAlways,
          PTL DEF Spec

(* What the owner sees of each state.                                      *)
LEMMA StateSeen ==
    ASSUME NEW s \in States
    PROVE  AttemptState(s) =
             IF s \in {"IDLE", "DONE", "ABORT"} THEN s
             ELSE IF s = "SESSION_HOLD" THEN "HOLD"
             ELSE IF s \in EndStates THEN "END" ELSE "RUN"
BY DEF AttemptState, EndStates, ReleasedStates

LEMMA StatesPartition ==
    ASSUME NEW s \in States
    PROVE  s \in RunStates <=> s \notin EndStates \cup {"IDLE", "DONE", "ABORT", "SESSION_HOLD"}
BY DEF States, RunStates, EndStates, ReleasedStates, PermitStates, SharedStates,
       ClosedStates, PowerStates

LEMMA ViewFields ==
    ASSUME NEW r \in MeasureRecord, NEW a, a = AttemptView(r)
    PROVE  /\ a \in AsAttempt!Attempts
           /\ a.st = AttemptState(r.st) /\ (a.failed <=> r.err # "OK")
           /\ (a.valid <=> r.valid) /\ ~a.lost
           /\ a.hold <=> AttemptState(r.st) = "RUN" /\ Holds(r.req)
           /\ a.begun <=> r.st = "ABORT" /\ r.phase # "STOP_ADC"
<1>1. r.st \in States /\ r.valid \in BOOLEAN BY DEF MeasureRecord
<1>2. AttemptState(r.st) \in {"IDLE", "DONE", "RUN", "HOLD", "END", "ABORT"}
  BY <1>1, StateSeen
<1> QED BY <1>1, <1>2 DEF AttemptView, AsAttempt!Attempts

LEMMA SameAttempt ==
    ASSUME NEW a \in AsAttempt!Attempts, NEW b \in AsAttempt!Attempts,
           a.st = b.st, a.hold <=> b.hold, a.failed <=> b.failed,
           a.valid <=> b.valid, a.begun <=> b.begun, a.lost <=> b.lost
    PROVE  a = b
<1>1. /\ a.hold \in BOOLEAN /\ a.failed \in BOOLEAN /\ a.valid \in BOOLEAN
      /\ a.begun \in BOOLEAN /\ a.lost \in BOOLEAN
      /\ b.hold \in BOOLEAN /\ b.failed \in BOOLEAN /\ b.valid \in BOOLEAN
      /\ b.begun \in BOOLEAN /\ b.lost \in BOOLEAN
  BY DEF AsAttempt!Attempts
<1>2. /\ a.hold = b.hold /\ a.failed = b.failed /\ a.valid = b.valid
      /\ a.begun = b.begun /\ a.lost = b.lost
  BY <1>1
<1> QED BY <1>2 DEF AsAttempt!Attempts

(* The moves of the abstract transaction, field by field.                  *)
Moves(a, b) ==
    \/ /\ (b.failed <=> a.failed) /\ (b.valid <=> a.valid)
       /\ \/ b.st = a.st /\ (b.hold <=> a.hold) /\ (b.begun <=> a.begun)
          \/ /\ a.st \in {"RUN", "HOLD"} /\ ~a.hold /\ b.st = "END"
             /\ (b.hold <=> a.hold) /\ (b.begun <=> a.begun)
          \/ a.st = "ABORT" /\ a.begun /\ b.st = "IDLE" /\ ~b.begun /\ (b.hold <=> a.hold)
          \/ a.st = "ABORT" /\ ~a.begun /\ b.st = "ABORT" /\ b.begun /\ (b.hold <=> a.hold)
          \/ a.st \in {"IDLE", "DONE"} /\ b.st = "IDLE" /\ ~b.hold /\ ~b.begun
    \/ /\ a.st = "RUN" /\ a.hold /\ b.st = "HOLD" /\ ~b.hold /\ b.valid
       /\ (b.failed <=> a.failed) /\ (b.begun <=> a.begun)
    \/ /\ a.st = "END" /\ b.st = "DONE" /\ (b.hold <=> a.hold)
       /\ (b.failed <=> a.failed) /\ (b.begun <=> a.begun)
    \/ /\ a.st = "HOLD" /\ b.st = "HOLD" /\ ~b.valid
       /\ (b.hold <=> a.hold) /\ (b.failed <=> a.failed) /\ (b.begun <=> a.begun)
    \/ /\ a.st = "DONE" /\ b.st = "IDLE" /\ ~b.valid
       /\ (b.hold <=> a.hold) /\ (b.failed <=> a.failed) /\ (b.begun <=> a.begun)
    \/ /\ a.st \notin {"IDLE", "DONE"}
       /\ b.st = "ABORT" /\ b.failed /\ ~b.hold /\ ~b.valid /\ ~b.begun
    \/ /\ a.st \in {"IDLE", "DONE"} /\ b.st \in {a.st, "IDLE"}
       /\ b.failed /\ ~b.hold /\ ~b.valid /\ ~b.begun
    \/ /\ a.st \in {"IDLE", "DONE"} \/ (a.st = "HOLD" /\ b.hold)
       /\ b.st = "RUN" /\ ~b.failed /\ ~b.valid /\ ~b.begun

LEMMA AttemptMoves ==
    ASSUME NEW a \in AsAttempt!Attempts, NEW b \in AsAttempt!Attempts,
           ~a.lost, ~b.lost, Moves(a, b)
    PROVE  \/ b = a
           \/ a.st \notin {"IDLE", "DONE"} /\ b \in AsAttempt!Steps(a)
           \/ b = AsAttempt!AbortedAttempt(a) \/ b = AsAttempt!Released(a)
           \/ a.st \in {"IDLE", "DONE", "HOLD"} /\ b = AsAttempt!Acknowledged(a)
           \/ /\ a.st \in {"IDLE", "DONE", "HOLD"}
              /\ \E hold \in BOOLEAN : b \in AsAttempt!Starts(a, hold)
<1>1. CASE (b.failed <=> a.failed) /\ (b.valid <=> a.valid) /\ b.st = a.st
           /\ (b.hold <=> a.hold) /\ (b.begun <=> a.begun)
  <2>1. b = a BY <1>1, SameAttempt DEF AsAttempt!Attempts
  <2> QED BY <2>1
<1>2. CASE /\ (b.failed <=> a.failed) /\ (b.valid <=> a.valid) /\ a.st \in {"RUN", "HOLD"}
           /\ ~a.hold /\ b.st = "END" /\ (b.hold <=> a.hold) /\ (b.begun <=> a.begun)
  <2> DEFINE c == [a EXCEPT !.st = "END"]
  <2>1. /\ c \in AsAttempt!Attempts /\ c.st = "END" /\ c.failed = a.failed
        /\ c.valid = a.valid /\ c.hold = a.hold /\ c.begun = a.begun /\ c.lost = a.lost
    BY DEF AsAttempt!Attempts
  <2> HIDE DEF c
  <2>2. b = c BY <1>2, <2>1, SameAttempt DEF AsAttempt!Attempts
  <2>3. CASE a.st = "RUN"
    BY <1>2, <2>2, <2>3 DEF AsAttempt!Steps, c
  <2>4. CASE a.st = "HOLD"
    BY <2>2, <2>4 DEF AsAttempt!Released, c
  <2> QED BY <1>2, <2>3, <2>4
<1>3. CASE /\ (b.failed <=> a.failed) /\ (b.valid <=> a.valid) /\ a.st = "ABORT" /\ a.begun
           /\ b.st = "IDLE" /\ ~b.begun /\ (b.hold <=> a.hold)
  <2> DEFINE c == [a EXCEPT !.st = "IDLE", !.begun = FALSE]
  <2>1. /\ c \in AsAttempt!Attempts /\ c.st = "IDLE" /\ c.failed = a.failed
        /\ c.valid = a.valid /\ c.hold = a.hold /\ c.begun = FALSE /\ c.lost = a.lost
    BY DEF AsAttempt!Attempts
  <2> HIDE DEF c
  <2>2. b = c BY <1>3, <2>1, SameAttempt DEF AsAttempt!Attempts
  <2> QED BY <1>3, <2>2 DEF AsAttempt!Steps, c
<1>4. CASE /\ (b.failed <=> a.failed) /\ (b.valid <=> a.valid) /\ a.st = "ABORT" /\ ~a.begun
           /\ b.st = "ABORT" /\ b.begun /\ (b.hold <=> a.hold)
  <2> DEFINE c == [a EXCEPT !.begun = TRUE]
  <2>1. /\ c \in AsAttempt!Attempts /\ c.st = a.st /\ c.failed = a.failed
        /\ c.valid = a.valid /\ c.hold = a.hold /\ c.begun = TRUE /\ c.lost = a.lost
    BY DEF AsAttempt!Attempts
  <2> HIDE DEF c
  <2>2. b = c BY <1>4, <2>1, SameAttempt DEF AsAttempt!Attempts
  <2> QED BY <1>4, <2>2 DEF AsAttempt!Steps, c
<1>5. CASE /\ (b.failed <=> a.failed) /\ (b.valid <=> a.valid) /\ a.st \in {"IDLE", "DONE"}
           /\ b.st = "IDLE" /\ ~b.hold /\ ~b.begun
  <2> DEFINE c == [a EXCEPT !.st = "IDLE", !.hold = FALSE, !.begun = FALSE,
                            !.lost = @ \/ AsAttempt!AttemptActive(a)]
  <2>1. ~AsAttempt!AttemptActive(a) BY <1>5 DEF AsAttempt!AttemptActive
  <2>2. /\ c \in AsAttempt!Attempts /\ c.st = "IDLE" /\ c.failed = a.failed
        /\ c.valid = a.valid /\ c.hold = FALSE /\ c.begun = FALSE /\ c.lost = FALSE
    BY <2>1 DEF AsAttempt!Attempts
  <2> HIDE DEF c
  <2>3. b = c BY <1>5, <2>2, SameAttempt DEF AsAttempt!Attempts
  <2> QED BY <1>5, <2>3 DEF AsAttempt!Acknowledged, c
<1>6. CASE /\ a.st = "RUN" /\ a.hold /\ b.st = "HOLD" /\ ~b.hold /\ b.valid
           /\ (b.failed <=> a.failed) /\ (b.begun <=> a.begun)
  <2> DEFINE c == [a EXCEPT !.st = "HOLD", !.hold = FALSE, !.valid = TRUE]
  <2>1. /\ c \in AsAttempt!Attempts /\ c.st = "HOLD" /\ c.failed = a.failed
        /\ c.valid = TRUE /\ c.hold = FALSE /\ c.begun = a.begun /\ c.lost = a.lost
    BY DEF AsAttempt!Attempts
  <2> HIDE DEF c
  <2>2. b = c BY <1>6, <2>1, SameAttempt DEF AsAttempt!Attempts
  <2> QED BY <1>6, <2>2 DEF AsAttempt!Steps, c
<1>7. CASE /\ a.st = "END" /\ b.st = "DONE" /\ (b.hold <=> a.hold)
           /\ (b.failed <=> a.failed) /\ (b.begun <=> a.begun)
  <2> DEFINE c == [a EXCEPT !.st = "DONE", !.valid = b.valid]
  <2>0. b.valid \in BOOLEAN BY DEF AsAttempt!Attempts
  <2>1. /\ c \in AsAttempt!Attempts /\ c.st = "DONE" /\ c.failed = a.failed
        /\ c.valid = b.valid /\ c.hold = a.hold /\ c.begun = a.begun /\ c.lost = a.lost
    BY <2>0 DEF AsAttempt!Attempts
  <2> HIDE DEF c
  <2>2. b = c BY <1>7, <2>1, SameAttempt DEF AsAttempt!Attempts
  <2> QED BY <1>7, <2>0, <2>2 DEF AsAttempt!Steps, c
<1>8. CASE /\ a.st = "HOLD" /\ b.st = "HOLD" /\ ~b.valid
           /\ (b.hold <=> a.hold) /\ (b.failed <=> a.failed) /\ (b.begun <=> a.begun)
  <2> DEFINE c == [a EXCEPT !.valid = FALSE]
  <2>1. /\ c \in AsAttempt!Attempts /\ c.st = a.st /\ c.failed = a.failed
        /\ c.valid = FALSE /\ c.hold = a.hold /\ c.begun = a.begun /\ c.lost = a.lost
    BY DEF AsAttempt!Attempts
  <2> HIDE DEF c
  <2>2. b = c BY <1>8, <2>1, SameAttempt DEF AsAttempt!Attempts
  <2> QED BY <1>8, <2>2 DEF AsAttempt!Acknowledged, c
<1>9. CASE /\ a.st = "DONE" /\ b.st = "IDLE" /\ ~b.valid
           /\ (b.hold <=> a.hold) /\ (b.failed <=> a.failed) /\ (b.begun <=> a.begun)
  <2> DEFINE c == [a EXCEPT !.st = "IDLE", !.valid = FALSE]
  <2>1. /\ c \in AsAttempt!Attempts /\ c.st = "IDLE" /\ c.failed = a.failed
        /\ c.valid = FALSE /\ c.hold = a.hold /\ c.begun = a.begun /\ c.lost = a.lost
    BY DEF AsAttempt!Attempts
  <2> HIDE DEF c
  <2>2. b = c BY <1>9, <2>1, SameAttempt DEF AsAttempt!Attempts
  <2> QED BY <1>9, <2>2 DEF AsAttempt!AbortedAttempt, c
<1>10. CASE /\ a.st \notin {"IDLE", "DONE"} \/ b.st # "ABORT"
            /\ a.st \in {"IDLE", "DONE"} => b.st \in {a.st, "IDLE"}
            /\ a.st \notin {"IDLE", "DONE"} => b.st = "ABORT"
            /\ b.failed /\ ~b.hold /\ ~b.valid /\ ~b.begun
  <2> DEFINE c == [AsAttempt!Untouched EXCEPT !.st = b.st, !.failed = TRUE, !.lost = a.lost]
  <2>0. b.st \in {"IDLE", "DONE", "RUN", "HOLD", "END", "ABORT"} BY DEF AsAttempt!Attempts
  <2>1. /\ AsAttempt!Untouched \in AsAttempt!Attempts
        /\ ~AsAttempt!Untouched.hold /\ ~AsAttempt!Untouched.valid
        /\ ~AsAttempt!Untouched.begun
    BY DEF AsAttempt!Untouched, AsAttempt!Attempts
  <2>2. /\ c \in AsAttempt!Attempts /\ c.st = b.st /\ c.failed = TRUE
        /\ ~c.valid /\ ~c.hold /\ ~c.begun /\ c.lost = a.lost
    BY <2>0, <2>1 DEF AsAttempt!Attempts
  <2> HIDE DEF c
  <2>3. b = c BY <1>10, <2>2, SameAttempt DEF AsAttempt!Attempts
  <2>4. CASE a.st \in {"IDLE", "DONE"}
    <3>1. b \in AsAttempt!Starts(a, TRUE)
      BY <1>10, <2>3, <2>4 DEF AsAttempt!Starts, c
    <3> QED BY <2>4, <3>1
  <2>5. CASE a.st \notin {"IDLE", "DONE"}
    BY <1>10, <2>3, <2>5 DEF AsAttempt!AbortedAttempt, c
  <2> QED BY <2>4, <2>5
<1>11. CASE /\ a.st \in {"IDLE", "DONE"} \/ (a.st = "HOLD" /\ b.hold)
            /\ b.st = "RUN" /\ ~b.failed /\ ~b.valid /\ ~b.begun
  <2> DEFINE c == [AsAttempt!Untouched EXCEPT !.st = "RUN", !.hold = b.hold, !.lost = a.lost]
  <2>0. b.hold \in BOOLEAN BY DEF AsAttempt!Attempts
  <2>1. /\ AsAttempt!Untouched \in AsAttempt!Attempts
        /\ ~AsAttempt!Untouched.failed /\ ~AsAttempt!Untouched.valid
        /\ ~AsAttempt!Untouched.begun
    BY DEF AsAttempt!Untouched, AsAttempt!Attempts
  <2>2. /\ c \in AsAttempt!Attempts /\ c.st = "RUN" /\ ~c.failed
        /\ ~c.valid /\ c.hold = b.hold /\ ~c.begun /\ c.lost = a.lost
    BY <2>0, <2>1 DEF AsAttempt!Attempts
  <2> HIDE DEF c
  <2>3. b = c BY <1>11, <2>2, SameAttempt DEF AsAttempt!Attempts
  <2>4. b = AsAttempt!Running(a, b.hold) BY <2>3 DEF AsAttempt!Running, c
  <2>5. b \in AsAttempt!Starts(a, b.hold)
    <3>1. CASE a.st = "HOLD"
      <4>1. b.hold = TRUE BY <1>11, <2>0, <3>1
      <4> QED BY <3>1, <2>4, <4>1 DEF AsAttempt!Starts
    <3>2. CASE a.st # "HOLD" BY <3>2, <2>4 DEF AsAttempt!Starts
    <3> QED BY <3>1, <3>2
  <2> QED BY <1>11, <2>0, <2>5
<1> QED BY <1>1, <1>2, <1>3, <1>4, <1>5, <1>6, <1>7, <1>8, <1>9, <1>10, <1>11
        DEF Moves

LEMMA ViewMoves ==
    ASSUME m \in MeasureRecord, m' \in MeasureRecord, Moves(AttemptView(m), AttemptView(m'))
    PROVE  [AsAttempt!CaptureNext]_(AttemptView(m))
<1> DEFINE a == AttemptView(m)
           b == AttemptView(m')
<1>1. a \in AsAttempt!Attempts /\ b \in AsAttempt!Attempts /\ ~a.lost /\ ~b.lost
  BY ViewFields
<1>2. b = (AttemptView(m))' OBVIOUS
<1>3. Moves(a, b) OBVIOUS
<1> HIDE DEF a, b
<1>4. \/ b = a
      \/ a.st \notin {"IDLE", "DONE"} /\ b \in AsAttempt!Steps(a)
      \/ b = AsAttempt!AbortedAttempt(a) \/ b = AsAttempt!Released(a)
      \/ a.st \in {"IDLE", "DONE", "HOLD"} /\ b = AsAttempt!Acknowledged(a)
      \/ /\ a.st \in {"IDLE", "DONE", "HOLD"}
         /\ \E hold \in BOOLEAN : b \in AsAttempt!Starts(a, hold)
  BY <1>1, <1>3, AttemptMoves
<1> QED BY <1>2, <1>4
     DEF a, AsAttempt!CaptureNext, AsAttempt!StepCapture,
         AsAttempt!AbortCapture, AsAttempt!FinishCapture, AsAttempt!StartCapture,
         AsAttempt!AcknowledgeCapture, AsAttempt!AttemptActive

(* The same moves, on the record of the transaction.                       *)
OwnerSees ==
    \/ /\ m'.err = m.err /\ (m'.valid <=> m.valid)
       /\ \/ m.st \in RunStates /\ m'.st \in RunStates /\ m'.req = m.req
          \/ m.st \in EndStates /\ m'.st \in EndStates
          \/ /\ (m.st \in RunStates /\ ~Holds(m.req)) \/ m.st = "SESSION_HOLD"
             /\ m'.st \in EndStates
          \/ m.st \in {"IDLE", "DONE"} /\ m'.st = "IDLE"
          \/ m.st = "ABORT" /\ m.phase # "STOP_ADC" /\ m'.st = "IDLE"
    \/ /\ m'.err = m.err
       /\ \/ m.st \in RunStates /\ Holds(m.req) /\ m'.st = "SESSION_HOLD" /\ m'.valid
          \/ m.st \in EndStates /\ m'.st = "DONE"
          \/ m.st = "SESSION_HOLD" /\ m'.st = "SESSION_HOLD" /\ ~m'.valid
          \/ m.st = "DONE" /\ m'.st = "IDLE" /\ ~m'.valid
    \/ /\ m.st = "ABORT" /\ m'.st = "ABORT" /\ m'.phase # "STOP_ADC"
       /\ m.err # "OK" /\ m'.err # "OK" /\ (m'.valid <=> m.valid)
    \/ m.st \notin {"IDLE", "DONE"} /\ Fell
    \/ /\ m.st \in {"IDLE", "DONE"} /\ m'.st \in {m.st, "IDLE"}
       /\ m'.err # "OK" /\ ~m'.valid
    \/ /\ m.st \in {"IDLE", "DONE"} \/ (m.st = "SESSION_HOLD" /\ Holds(m'.req))
       /\ m'.st \in RunStates /\ m'.err = "OK" /\ ~m'.valid

LEMMA OwnerSeesMoves ==
    ASSUME m \in MeasureRecord, m' \in MeasureRecord, OwnerSees
    PROVE  Moves(AttemptView(m), AttemptView(m'))
<1> DEFINE a == AttemptView(m)
           b == AttemptView(m')
<1>1. /\ a.st = AttemptState(m.st) /\ (a.failed <=> m.err # "OK")
      /\ a.valid <=> m.valid
      /\ a.hold <=> AttemptState(m.st) = "RUN" /\ Holds(m.req)
      /\ a.begun <=> m.st = "ABORT" /\ m.phase # "STOP_ADC"
      /\ a \in AsAttempt!Attempts
  BY ViewFields
<1>2. /\ b.st = AttemptState(m'.st) /\ (b.failed <=> m'.err # "OK")
      /\ b.valid <=> m'.valid
      /\ b.hold <=> AttemptState(m'.st) = "RUN" /\ Holds(m'.req)
      /\ b.begun <=> m'.st = "ABORT" /\ m'.phase # "STOP_ADC"
      /\ b \in AsAttempt!Attempts
  BY ViewFields
<1>3. SUFFICES Moves(a, b) OBVIOUS
<1> HIDE DEF a, b
<1>4. m.st \in States /\ m'.st \in States BY DEF MeasureRecord
<1>5. ASSUME NEW s \in States
      PROVE  /\ s \in RunStates => AttemptState(s) = "RUN" /\ s # "ABORT"
             /\ s \in EndStates => AttemptState(s) = "END" /\ s # "ABORT"
             /\ s = "SESSION_HOLD" => AttemptState(s) = "HOLD"
             /\ s \in {"IDLE", "DONE", "ABORT"} => AttemptState(s) = s
  BY <1>5, StateSeen, StatesPartition DEF EndStates, ReleasedStates
<1>6. /\ m.st \in RunStates => a.st = "RUN" /\ ~a.begun /\ (a.hold <=> Holds(m.req))
      /\ m.st \in EndStates => a.st = "END" /\ ~a.begun /\ ~a.hold
      /\ m.st = "SESSION_HOLD" => a.st = "HOLD" /\ ~a.begun /\ ~a.hold
      /\ m.st \in {"IDLE", "DONE"} => a.st = m.st /\ ~a.begun /\ ~a.hold
      /\ m.st = "ABORT" => /\ a.st = "ABORT" /\ ~a.hold
                           /\ (a.begun <=> m.phase # "STOP_ADC")
      /\ m.st \notin {"IDLE", "DONE"} => a.st \notin {"IDLE", "DONE"}
  BY <1>1, <1>4, <1>5, StateSeen DEF Holds
<1>7. /\ m'.st \in RunStates => b.st = "RUN" /\ ~b.begun /\ (b.hold <=> Holds(m'.req))
      /\ m'.st \in EndStates => b.st = "END" /\ ~b.begun /\ ~b.hold
      /\ m'.st = "SESSION_HOLD" => b.st = "HOLD" /\ ~b.begun /\ ~b.hold
      /\ m'.st \in {"IDLE", "DONE"} => b.st = m'.st /\ ~b.begun /\ ~b.hold
      /\ m'.st = "ABORT" => /\ b.st = "ABORT" /\ ~b.hold
                            /\ (b.begun <=> m'.phase # "STOP_ADC")
  BY <1>2, <1>4, <1>5 DEF Holds
<1>8. /\ a.failed <=> m.err # "OK"
      /\ a.valid <=> m.valid
      /\ b.failed <=> m'.err # "OK"
      /\ b.valid <=> m'.valid
  BY <1>1, <1>2
<1>9. m'.err = m.err => (b.failed <=> a.failed) BY <1>1, <1>2
<1>10. CASE /\ m'.err = m.err /\ (m'.valid <=> m.valid)
            /\ m.st \in RunStates /\ m'.st \in RunStates /\ m'.req = m.req
  BY <1>6, <1>7, <1>8, <1>9, <1>10 DEF Moves
<1>11. CASE /\ m'.err = m.err /\ (m'.valid <=> m.valid)
            /\ m.st \in EndStates /\ m'.st \in EndStates
  BY <1>6, <1>7, <1>8, <1>9, <1>11 DEF Moves
<1>12. CASE /\ m'.err = m.err /\ (m'.valid <=> m.valid)
            /\ (m.st \in RunStates /\ ~Holds(m.req)) \/ m.st = "SESSION_HOLD"
            /\ m'.st \in EndStates
  BY <1>6, <1>7, <1>8, <1>9, <1>12 DEF Moves
<1>13. CASE /\ m'.err = m.err /\ (m'.valid <=> m.valid) /\ m'.st = "IDLE"
            /\ \/ m.st \in {"IDLE", "DONE"}
               \/ m.st = "ABORT" /\ m.phase # "STOP_ADC"
  BY <1>6, <1>7, <1>8, <1>9, <1>13 DEF Moves
<1>14. CASE /\ m'.err = m.err /\ m.st \in RunStates /\ Holds(m.req)
            /\ m'.st = "SESSION_HOLD" /\ m'.valid
  BY <1>6, <1>7, <1>8, <1>9, <1>14 DEF Moves
<1>15. CASE m'.err = m.err /\ m.st \in EndStates /\ m'.st = "DONE"
  BY <1>6, <1>7, <1>8, <1>9, <1>15 DEF Moves
<1>16. CASE m'.err = m.err /\ m.st = "SESSION_HOLD" /\ m'.st = "SESSION_HOLD" /\ ~m'.valid
  BY <1>6, <1>7, <1>8, <1>9, <1>16 DEF Moves
<1>17. CASE m'.err = m.err /\ m.st = "DONE" /\ m'.st = "IDLE" /\ ~m'.valid
  BY <1>6, <1>7, <1>8, <1>9, <1>17 DEF Moves
<1>18. CASE /\ m.st = "ABORT" /\ m'.st = "ABORT" /\ m'.phase # "STOP_ADC"
            /\ m.err # "OK" /\ m'.err # "OK" /\ (m'.valid <=> m.valid)
  BY <1>6, <1>7, <1>8, <1>18 DEF Moves
<1>19. CASE m.st \notin {"IDLE", "DONE"} /\ Fell
  BY <1>6, <1>7, <1>8, <1>19 DEF Moves, Fell
<1>20. CASE /\ m.st \in {"IDLE", "DONE"} /\ m'.st \in {m.st, "IDLE"}
            /\ m'.err # "OK" /\ ~m'.valid
  BY <1>6, <1>7, <1>8, <1>20 DEF Moves
<1>21. CASE /\ m.st \in {"IDLE", "DONE"} \/ (m.st = "SESSION_HOLD" /\ Holds(m'.req))
            /\ m'.st \in RunStates /\ m'.err = "OK" /\ ~m'.valid
  BY <1>6, <1>7, <1>8, <1>21 DEF Moves
<1> QED BY <1>10, <1>11, <1>12, <1>13, <1>14, <1>15, <1>16, <1>17, <1>18,
     <1>19, <1>20, <1>21 DEF OwnerSees

(* Every step that changes the record is one of those moves.               *)
LEMMA StepSeen ==
    ASSUME TypeOK, AuthorityInv, CaptureInv, AttemptInv, Next
    PROVE  m' = m \/ OwnerSees
<1>1. CASE RevokedStep
  BY <1>1, RevokedStepEffect
     DEF Fell, Carried, Custody, OwnerSees, RunStates, EndStates,
         ReleasedStates, ClosedStates, SharedStates, PermitStates, PowerStates
<1>2. CASE ForceK1Safe
  BY <1>2, ForceK1SafeEffect
     DEF Fell, Moved, Carried, Custody, Safer, OwnerSees, RunStates,
         EndStates, ReleasedStates, ClosedStates, SharedStates, PermitStates,
         PowerStates
<1>3. CASE RequestRange
  BY <1>3, RequestRangeEffect
     DEF Fell, Moved, Carried, Custody, OwnerSees, RunStates, EndStates,
         ReleasedStates, ClosedStates, SharedStates, PermitStates, PowerStates
<1>4. CASE WaitRange
  BY <1>4, WaitRangeEffect
     DEF Fell, Moved, Carried, Custody, Stepped, OwnerSees, RunStates,
         EndStates, ReleasedStates, ClosedStates, SharedStates, PermitStates,
         PowerStates
<1>5. CASE ExcNeutral
  BY <1>5, SettleNeutralEffect
     DEF ExcNeutral, Moved, Carried, Custody, OwnerSees, RunStates, EndStates,
         ReleasedStates, ClosedStates, SharedStates, PermitStates, PowerStates
<1>6. CASE ExcNeutralWait
  BY <1>6, ExcNeutralWaitEffect
     DEF Moved, Carried, Custody, OwnerSees, RunStates, EndStates,
         ReleasedStates, ClosedStates, SharedStates, PermitStates, PowerStates
<1>7. CASE QuietEnter
  BY <1>7, QuietEnterEffect
     DEF Carried, Custody, OwnerSees, RunStates, EndStates, ReleasedStates,
         ClosedStates, SharedStates, PermitStates, PowerStates
<1>8. CASE PermitIssue
  BY <1>8, PermitIssueEffect
     DEF Fell, Moved, Carried, Custody, OwnerSees, RunStates, EndStates,
         ReleasedStates, ClosedStates, SharedStates, PermitStates, PowerStates
<1>9. CASE PermitValidate
  BY <1>9, PermitValidateEffect
     DEF Fell, Moved, Carried, Custody, OwnerSees, RunStates, EndStates,
         ReleasedStates, ClosedStates, SharedStates, PermitStates, PowerStates
<1>10. CASE K1Request
  BY <1>10, K1RequestEffect
     DEF Fell, Carried, Custody, OwnerSees, RunStates, EndStates,
         ReleasedStates, ClosedStates, SharedStates, PermitStates, PowerStates
<1>11. CASE AuxPause
  BY <1>11, AuxPauseEffect
     DEF Moved, Carried, Custody, OwnerSees, RunStates, EndStates,
         ReleasedStates, ClosedStates, SharedStates, PermitStates, PowerStates
<1>12. CASE K1OperateGuard
  BY <1>12, K1OperateGuardEffect
     DEF Moved, Carried, Custody, OwnerSees, RunStates, EndStates,
         ReleasedStates, ClosedStates, SharedStates, PermitStates, PowerStates
<1>13. CASE AdcAcquire
  BY <1>13, AdcAcquireEffect
     DEF Taken, Fell, Carried, OwnerSees, RunStates, EndStates,
         ReleasedStates, ClosedStates, SharedStates, PermitStates, PowerStates
<1>14. CASE ExcSineStart
  BY <1>14, ExcSineStartEffect
     DEF Fell, Moved, Carried, Custody, OwnerSees, RunStates, EndStates,
         ReleasedStates, ClosedStates, SharedStates, PermitStates, PowerStates
<1>15. CASE ExcSettle
  BY <1>15, ExcSettleEffect
     DEF Fell, Moved, Carried, Custody, OwnerSees, RunStates, EndStates,
         ReleasedStates, ClosedStates, SharedStates, PermitStates, PowerStates
<1>16. CASE AdcDmaStart
  BY <1>16, AdcDmaStartEffect
     DEF Fell, Moved, Carried, Custody, OwnerSees, RunStates, EndStates,
         ReleasedStates, ClosedStates, SharedStates, PermitStates, PowerStates
<1>17. CASE AdcDmaWait
  BY <1>17, AdcDmaWaitEffect
     DEF Fell, Moved, Carried, Custody, OwnerSees, RunStates, EndStates,
         ReleasedStates, ClosedStates, SharedStates, PermitStates, PowerStates
<1>18. CASE AdcDmaComplete
  BY <1>18, StopAdcEffect
     DEF AdcDmaComplete, Moved, Carried, Custody, OwnerSees, RunStates,
         EndStates, ReleasedStates, ClosedStates, SharedStates, PermitStates,
         PowerStates
<1>19. CASE ExcNeutralPost
  BY <1>19, SettleNeutralEffect
     DEF ExcNeutralPost, Moved, Carried, Custody, OwnerSees, RunStates,
         EndStates, ReleasedStates, ClosedStates, SharedStates, PermitStates,
         PowerStates
<1>20. CASE ExcNeutralPostWait
  BY <1>20, ExcNeutralPostWaitEffect
     DEF Ends, Moved, Carried, Custody, OwnerSees, RunStates, EndStates,
         ReleasedStates, ClosedStates, SharedStates, PermitStates,
         PowerStates, AttemptInv, TakenStates, CaptureInv
<1>21. CASE PowerRefresh
  BY <1>21, PowerRefreshEffect
     DEF Custody, OwnerSees, RunStates, EndStates, ReleasedStates,
         ClosedStates, SharedStates, PermitStates, PowerStates
<1>22. CASE PowerRestore
  BY <1>22, PowerRestoreEffect
     DEF NotGivenBack, Fell, Carried, SamplerDisturbed, OwnerSees, RunStates,
         EndStates, ReleasedStates, ClosedStates, SharedStates, PermitStates,
         PowerStates
<1>23. CASE PowerWait
  BY <1>23, PowerWaitEffect
     DEF Fell, Moved, Carried, Custody, OwnerSees, RunStates, EndStates,
         ReleasedStates, ClosedStates, SharedStates, PermitStates, PowerStates
<1>24. CASE PowerAcquire
  BY <1>24, PowerAcquireEffect
     DEF Taken, Fell, Carried, OwnerSees, RunStates, EndStates,
         ReleasedStates, ClosedStates, SharedStates, PermitStates,
         PowerStates, AuthorityInv, TypeOK, MeasureRecord
<1>25. CASE K1Safe
  BY <1>25, K1SafeEffect
     DEF Fell, Carried, Custody, Safer, OwnerSees, RunStates, EndStates,
         ReleasedStates, ClosedStates, SharedStates, PermitStates, PowerStates
<1>26. CASE K1ReleaseGuard
  BY <1>26, K1ReleaseGuardEffect
     DEF Carried, Custody, OwnerSees, RunStates, EndStates, ReleasedStates,
         ClosedStates, SharedStates, PermitStates, PowerStates
<1>27. CASE ExcOff
  BY <1>27, ExcOffEffect
     DEF Moved, Carried, Custody, OwnerSees, RunStates, EndStates,
         ReleasedStates, ClosedStates, SharedStates, PermitStates, PowerStates
<1>28. CASE RangeDisable
  BY <1>28, RangeDisableEffect
     DEF Fell, Moved, Carried, Custody, OwnerSees, RunStates, EndStates,
         ReleasedStates, ClosedStates, SharedStates, PermitStates, PowerStates
<1>29. CASE AdcRelease
  BY <1>29, StopAdcEffect
     DEF AdcRelease, Moved, Carried, Custody, OwnerSees, RunStates, EndStates,
         ReleasedStates, ClosedStates, SharedStates, PermitStates, PowerStates
<1>30. CASE AdcRestore
  BY <1>30, AdcRestoreEffect
     DEF NotGivenBack, Fell, Carried, SamplerDisturbed, OwnerSees, RunStates,
         EndStates, ReleasedStates, ClosedStates, SharedStates, PermitStates,
         PowerStates
<1>31. CASE AuxResume
  BY <1>31, AuxResumeEffect
     DEF Moved, Carried, Custody, OwnerSees, RunStates, EndStates,
         ReleasedStates, ClosedStates, SharedStates, PermitStates, PowerStates
<1>32. CASE QuietExit
  BY <1>32, QuietExitEffect
     DEF Carried, Custody, OwnerSees, RunStates, EndStates, ReleasedStates,
         ClosedStates, SharedStates, PermitStates, PowerStates
<1>33. CASE Analyze
  BY <1>33, AnalyzeEffect
     DEF Ends, Carried, Custody, OwnerSees, RunStates, EndStates,
         ReleasedStates, ClosedStates, SharedStates, PermitStates, PowerStates
<1>34. CASE AbortStop
  BY <1>34, AbortStopEffect
     DEF Custody, Safer, OwnerSees, RunStates, EndStates, ReleasedStates,
         ClosedStates, SharedStates, PermitStates, PowerStates, AttemptInv,
         TakenStates
<1>35. CASE AbortReleaseGuard
  BY <1>35, AbortReleaseGuardEffect
     DEF Carried, Custody, OwnerSees, RunStates, EndStates, ReleasedStates,
         ClosedStates, SharedStates, PermitStates, PowerStates, AttemptInv,
         TakenStates
<1>36. CASE AbortAdcRestore
  BY <1>36, AbortAdcRestoreEffect
     DEF Carried, Custody, SamplerDisturbed, OwnerSees, RunStates, EndStates,
         ReleasedStates, ClosedStates, SharedStates, PermitStates,
         PowerStates, AttemptInv, TakenStates
<1>37. CASE AbortAuxResume
  BY <1>37, AbortAuxResumeEffect
     DEF Carried, Custody, OwnerSees, RunStates, EndStates, ReleasedStates,
         ClosedStates, SharedStates, PermitStates, PowerStates, AttemptInv,
         TakenStates
<1>38. CASE AbortQuietOff
  BY <1>38, AbortQuietOffEffect
     DEF Carried, Custody, OwnerSees, RunStates, EndStates, ReleasedStates,
         ClosedStates, SharedStates, PermitStates, PowerStates, AttemptInv,
         TakenStates
<1>39. CASE \E q \in Requests : Start(q)
  BY <1>39, StartEffect
     DEF Begun, Safer, OwnerSees, RunStates, EndStates, ReleasedStates,
         ClosedStates, SharedStates, PermitStates, PowerStates
<1>40. CASE \E q \in Requests : Continue(q)
  BY <1>40, ContinueEffect
     DEF Fell, Carried, Custody, OwnerSees, RunStates, EndStates,
         ReleasedStates, ClosedStates, SharedStates, PermitStates,
         PowerStates, CaptureInv
<1>41. CASE Abort
  BY <1>41, AbortEffect
     DEF Fell, Carried, Custody, OwnerSees, RunStates, EndStates,
         ReleasedStates, ClosedStates, SharedStates, PermitStates, PowerStates
<1>42. CASE FinishSession
  BY <1>42, FinishSessionEffect
     DEF Moved, Carried, Custody, OwnerSees, RunStates, EndStates,
         ReleasedStates, ClosedStates, SharedStates, PermitStates, PowerStates
<1>43. CASE Acknowledge
  BY <1>43, AcknowledgeEffect
     DEF Custody, OwnerSees, RunStates, EndStates, ReleasedStates,
         ClosedStates, SharedStates, PermitStates, PowerStates
<1>44. CASE Supervise
  BY <1>44, SuperviseEffect
     DEF Stepped, Safer, OwnerSees, RunStates, EndStates, ReleasedStates,
         ClosedStates, SharedStates, PermitStates, PowerStates
<1>45. CASE Sampler
  BY <1>45, SamplingEffect
     DEF OwnerSees, RunStates, EndStates, ReleasedStates, ClosedStates,
         SharedStates, PermitStates, PowerStates
<1>46. CASE Interrupt
  BY <1>46, InterruptEffect
     DEF OwnerSees, RunStates, EndStates, ReleasedStates, ClosedStates,
         SharedStates, PermitStates, PowerStates
<1>47. CASE ChargerChange
  BY <1>47, ChargerChangeEffect
     DEF OwnerSees, RunStates, EndStates, ReleasedStates, ClosedStates,
         SharedStates, PermitStates, PowerStates
<1>48. CASE Tick
  BY <1>48, TickEffect
     DEF OwnerSees, RunStates, EndStates, ReleasedStates, ClosedStates,
         SharedStates, PermitStates, PowerStates
<1> QED BY <1>1, <1>2, <1>3, <1>4, <1>5, <1>6, <1>7, <1>8, <1>9, <1>10, <1>11,
     <1>12, <1>13, <1>14, <1>15, <1>16, <1>17, <1>18, <1>19, <1>20, <1>21,
     <1>22, <1>23, <1>24, <1>25, <1>26, <1>27, <1>28, <1>29, <1>30, <1>31,
     <1>32, <1>33, <1>34, <1>35, <1>36, <1>37, <1>38, <1>39, <1>40, <1>41,
     <1>42, <1>43, <1>44, <1>45, <1>46, <1>47, <1>48
     DEF Next, MeasureStep, PrepareStep, ConnectedStep, ReleaseStep,
         AbortStep, Owner

(* What the owners of the transaction rely on, step by step: every step of *)
(* the transaction, of its owner and of the hardware is a move of Attempt, *)
(* or leaves what the owner sees unchanged.                                *)
THEOREM TransactionIsAttempt == Spec => ImplementsAttempt
<1>1. Init => AttemptView(m) = AsAttempt!Untouched
  <2> SUFFICES ASSUME Init PROVE AttemptView(m) = AsAttempt!Untouched
    OBVIOUS
  <2> DEFINE a == AttemptView(m)
  <2>1. /\ m \in MeasureRecord /\ m.st = "IDLE" /\ m.err = "OK" /\ ~m.valid
        /\ "IDLE" \in States
    BY InitType DEF Init, TypeOK, States
  <2>2. AttemptState(m.st) = "IDLE" BY <2>1, StateSeen
  <2>3. /\ a \in AsAttempt!Attempts /\ a.st = "IDLE"
        /\ ~a.hold /\ ~a.failed /\ ~a.valid /\ ~a.begun /\ ~a.lost
    BY <2>1, <2>2, ViewFields
  <2> HIDE DEF a
  <2>4. LET u == AsAttempt!Untouched
        IN  /\ u \in AsAttempt!Attempts /\ u.st = "IDLE"
            /\ ~u.hold /\ ~u.failed /\ ~u.valid /\ ~u.begun /\ ~u.lost
    BY DEF AsAttempt!Untouched, AsAttempt!Attempts
  <2>5. a = AsAttempt!Untouched BY <2>3, <2>4, SameAttempt
  <2> QED BY <2>5 DEF a
<1>2. TypeOK /\ TypeOK' /\ AuthorityInv /\ CaptureInv /\ AttemptInv /\ [Next]_vars
        => [AsAttempt!CaptureNext]_(AttemptView(m))
  <2> SUFFICES ASSUME TypeOK, TypeOK', AuthorityInv, CaptureInv, AttemptInv,
                      [Next]_vars
               PROVE  [AsAttempt!CaptureNext]_(AttemptView(m))
    OBVIOUS
  <2>1. CASE m' = m BY <2>1
  <2>2. CASE m' # m
    <3>1. OwnerSees BY <2>2, StepSeen DEF vars
    <3> QED BY <3>1, OwnerSeesMoves, ViewMoves DEF TypeOK
  <2> QED BY <2>1, <2>2
<1> QED BY <1>1, <1>2, MeasureTypeCorrect, AuthorityAlways, CaptureAlways,
          AttemptAlways, PTL DEF Spec, ImplementsAttempt, AsAttempt!CaptureSpec
=============================================================================
