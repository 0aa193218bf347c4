---------------------------- MODULE MCInstrument ----------------------------
(***************************************************************************)
(* What a measurement is made with, for TLC: the range driver, the session *)
(* that surveys the conditions, the sampler of the auxiliary sensors.  A   *)
(* behaviour chooses one of them, whose steps it takes; the others keep    *)
(* still where they start, so that what holds of the whole is what holds   *)
(* of each.                                                                *)
(***************************************************************************)
EXTENDS HwRange

CONSTANTS
    Top, Readings, StageMax, Capacity, MaxTransitions, TrimmedSamples, MaxExtraCaptures,
    Average, RequiredSafe
VARIABLES which, att, state, policy, pending, partial, final, started, cancel, late, trim, lease,
          sensors, adc, proof
session == <<att, state, policy, pending, partial, final, started, cancel, late, trim, lease>>
sampler == <<sensors, adc, proof>>

Show(kind, ratio, x, local, level) ==
    [kind |-> kind, ratio |-> ratio, x |-> x, local |-> local, level |-> level,
     short |-> FALSE, source |-> TRUE, subohm |-> FALSE]
(* A resistor, a capacitor well below its range, and a capture that looks  *)
(* open: a mean of the first two belies a capacitor.                       *)
SessionReadings ==
    {Show("OK", "GOOD", 0, "R", "STRONG"), Show("OK", "SMALL", -1, "X", "FAIR"),
     Show("DENOMINATOR", "GOOD", 0, "MIXED", "WEAK")}
M == INSTANCE MeasurementSession
A == INSTANCE AuxSensors
ASSUME InstrumentAssumption ==
    M!AutoRangeAssumption /\ M!SessionAssumption /\ A!SensorsAssumption

InstrumentInit ==
    /\ which \in {"range", "session", "sensors"}
    /\ Init /\ M!Init /\ A!Init
    /\ which # "range" => now = 0 /\ rg = RangeBoot("OK", "OK")
    /\ which # "sensors" => adc.initialized
OfRange == which = "range" /\ Next /\ UNCHANGED <<which, session, sampler>>
OfSession == which = "session" /\ M!Next /\ UNCHANGED <<which, vars, sampler>>
OfSensors == which = "sensors" /\ A!Next /\ UNCHANGED <<which, vars, session>>
InstrumentNext == OfRange \/ OfSession \/ OfSensors
(* The fairness of each, as its module justifies it.  That of the session  *)
(* is WF_session(M!SessionStep) with its ENABLED written out, which TLC    *)
(* would take long to evaluate: a session under way can always step.       *)
InstrumentSpec ==
    /\ InstrumentInit /\ [][InstrumentNext]_<<which, vars, session, sampler>>
    /\ WF_vars(which = "range" /\ Step) /\ WF_vars(which = "range" /\ Tick)
    /\ \/ []<>(which # "session" \/ ~M!Underway)
       \/ []<><<which = "session" /\ M!SessionStep>>_session
    /\ WF_sampler(which = "sensors" /\ (sensors.st = "POLL" => adc.late) /\ A!Step)
    /\ WF_sampler(which = "sensors" /\ A!Late)
-----------------------------------------------------------------------------
(* Whatever interrupts a survey, its transaction is never put to rest      *)
(* before it has ended, and when the session is over the hardware is at    *)
(* rest and the workspace is given back.                                   *)
NothingLeftBehind == M!NothingLeftBehind

(* No condition is captured twice in one survey, each is one the hardware  *)
(* allows, and a survey that goes on has one to go on with; and what is    *)
(* shown as final was seen, in full, and borne out.                        *)
SurveyHonest == M!EachConditionOnce /\ M!FinalIsEarned

(* The terminals are called SAFE only on sweeps all taken since the        *)
(* converter was last lent; a refresh that says OK has sampled the battery *)
(* since it was asked for.                                                 *)
SensorsHonest == A!SafeIsBacked /\ A!RefreshIsFresh

(* A transition of the range, a session, a sweep of the sensors that       *)
(* begins ends: TransitionEnds, M!SessionEnds and A!SweepsEnd at once, as  *)
(* only one of them has anything to do in a behaviour.  One deadline does  *)
(* for all, as the clock starts anywhere and goes round.                   *)
Underway == Waiting(0) \/ M!SessionActive \/ A!Sweeping
WorkEnds == Underway ~> ~Underway
=============================================================================
