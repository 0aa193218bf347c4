----------------------------- MODULE MCMeasure -----------------------------
(***************************************************************************)
(* The transaction, for TLC: a continuous survey over two drives, whose    *)
(* conversions may fail, and a held session over two ranges with repeated  *)
(* windows.  A behaviour chooses one of the two instances, over the same   *)
(* variables, and takes its steps, so that what holds of the whole is what *)
(* holds of each.                                                          *)
(***************************************************************************)
EXTENDS MCHwMeasure

VARIABLE which

AllRequests == LegacyRequests \cup SurveyRequests
Survey == INSTANCE HwMeasure WITH Requests <- SurveyRequests
Held == INSTANCE HwMeasure WITH
            Requests <- LegacyRequests, DeadTime <- 0, SettleTime <- 0, RangeTimeout <- 1,
            NeutralSettle <- 0, OperateGuard <- 0, ReleaseGuard <- 1, SessionMax <- 3,
            BatteryMaxAge <- 2, AdcMayFail <- FALSE

MeasureInit == (which = "survey" /\ Survey!Init) \/ (which = "held" /\ Held!Init)
OfSurvey == which = "survey" /\ Survey!Next /\ UNCHANGED which
OfHeld == which = "held" /\ Held!Next /\ UNCHANGED which
MeasureNext == OfSurvey \/ OfHeld
MeasureSpec == MeasureInit /\ [][MeasureNext]_<<which, vars>>
=============================================================================
