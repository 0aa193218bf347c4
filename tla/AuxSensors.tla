----------------------------- MODULE AuxSensors -----------------------------
(***************************************************************************)
(* The auxiliary sensors (hw_aux_sensors.c): three groups of channels      *)
(* share one converter (bsp_adc.c) - the voltages left at the terminals,   *)
(* the battery, the temperature.  Each is swept when it is due, published  *)
(* with the age of its beginning, and forgotten when it is too old.  The   *)
(* transaction takes the converter away (pause, resume: HwMeasure) and in  *)
(* between may ask for the battery alone (power refresh).                  *)
(* Time is what it decides: a group is due or is not, a publication is     *)
(* still in its age or is not, a conversion has used up its time or has    *)
(* not, and each of these may come about at any moment (Elapse).           *)
(***************************************************************************)
EXTENDS Integers

CONSTANTS
    Average,       \* HW_AUX_SENSOR_AVERAGE_COUNT (4)
    RequiredSafe   \* HW_RESIDUAL_REQUIRED_SAFE_COUNT (8)
SensorsAssumption == {Average, RequiredSafe} \subseteq Nat \ {0}

VARIABLES sensors, adc, proof
vars == <<sensors, adc, proof>>

Groups == {"RESIDUAL", "BATTERY", "NTC"}
(* channel_phase: the channels of the residual group, VMID first, then the *)
(* battery's and the temperature's.                                        *)
Phases == {"VMID", "HI", "LO", "BAT", "NTC", "NONE"}
(* pub: never published or invalidated; published and in its age; too old. *)
(* The temperature is only shown: its age is left out.                     *)
Aged == {"RESIDUAL", "BATTERY"}
Publications == {"NONE", "FRESH", "OLD"}
Sensors ==
    [st : {"IDLE", "START", "POLL", "PAUSED"}, phase : Phases, sample : 0 .. Average - 1,
     saturated : BOOLEAN, old : BOOLEAN, paused : BOOLEAN, refreshing : BOOLEAN, ready : BOOLEAN,
     fault : BOOLEAN, residual : {"UNKNOWN", "SAFE", "UNSAFE", "SATURATED"},
     safe_count : 0 .. RequiredSafe, battery : {"UNKNOWN", "KNOWN"},
     due : SUBSET Groups, pub : [Aged -> Publications]]
Adc == [busy : BOOLEAN, late : BOOLEAN, initialized : BOOLEAN]
(* proof is history: the sweeps in a row, since the converter was last     *)
(* lent or the evidence grew too old, that found the terminals discharged; *)
(* that there were once enough and none since found them charged; that the *)
(* battery was sampled in this refresh.                                    *)
NoProof == [row |-> 0, safe |-> FALSE, fresh |-> FALSE]

Init ==
    /\ sensors =
         [st |-> "IDLE", phase |-> "NONE", sample |-> 0, saturated |-> FALSE, old |-> FALSE,
          paused |-> FALSE, refreshing |-> FALSE, ready |-> FALSE, fault |-> FALSE,
          residual |-> "UNKNOWN", safe_count |-> 0, battery |-> "UNKNOWN",
          due |-> Groups, pub |-> [g \in Aged |-> "NONE"]]
    /\ adc \in [busy : {FALSE}, late : {FALSE}, initialized : BOOLEAN]
    /\ proof = NoProof

Here == [s |-> sensors, adc |-> adc, proof |-> proof]
Becomes(x) == sensors' = x.s /\ adc' = x.adc /\ proof' = x.proof
(* hw_aux_sensors_snapshot: what the permit, the page and the PC are told. *)
Residual(s) == IF s.pub["RESIDUAL"] = "FRESH" THEN s.residual ELSE "UNKNOWN"
-----------------------------------------------------------------------------
Canceled(a) == [a EXCEPT !.busy = FALSE, !.late = FALSE]
ResetGroup(s) == [s EXCEPT !.sample = 0, !.saturated = FALSE, !.old = FALSE]
Rest(s) == [s EXCEPT !.st = IF s.paused THEN "PAUSED" ELSE "IDLE", !.phase = "NONE", !.old = FALSE]
(* invalidate_residual_evidence *)
Disproved(s) == [s EXCEPT !.residual = "UNKNOWN", !.safe_count = 0, !.pub["RESIDUAL"] = "NONE"]
(* A conversion that fails fails the group, and latches a fault.           *)
Invalidated(s) == Rest(ResetGroup([s EXCEPT !.refreshing = FALSE, !.ready = FALSE, !.fault = TRUE]))
(* invalidate_stale_publications *)
Forgotten(s) ==
    [(IF s.pub["RESIDUAL"] = "OLD" THEN Disproved(s) ELSE s) EXCEPT
        !.battery = IF s.pub["BATTERY"] = "OLD" THEN "UNKNOWN" ELSE s.battery,
        !.pub = [g \in Aged |-> IF s.pub[g] = "OLD" THEN "NONE" ELSE s.pub[g]]]
Stale(x) ==
    [x EXCEPT !.s = Forgotten(x.s),
              !.proof = IF x.s.pub["RESIDUAL"] = "OLD" THEN [x.proof EXCEPT !.row = 0, !.safe = FALSE]
                        ELSE x.proof]

(* hw_residual_policy_evaluate: what a sweep found, and what it says.      *)
Findings(s) == IF s.saturated THEN {"SATURATED"} ELSE {"LOW", "BETWEEN", "HIGH", "INVALID"}
Judged(s, state, count) == [s EXCEPT !.residual = state, !.safe_count = count]
Counted(s) ==
    Judged(s, IF s.safe_count + 1 >= RequiredSafe THEN "SAFE" ELSE "UNKNOWN", s.safe_count + 1)
(* Seeded fault: a sweep in between does not start the count again.        *)
EvaluateLax(s, f) ==
    CASE f = "SATURATED" -> Judged(s, "SATURATED", 0)
      [] f = "INVALID" -> Judged(s, "UNKNOWN", 0)
      [] f = "HIGH" -> Judged(s, "UNSAFE", 0)
      [] f \in {"LOW", "BETWEEN"} /\ s.residual = "SAFE" -> Judged(s, "SAFE", RequiredSafe)
      [] f = "LOW" /\ s.residual # "SAFE" -> Counted(s)
      [] OTHER -> Judged(s, "UNKNOWN", s.safe_count)
Evaluate(s, f) ==
    CASE f = "SATURATED" -> Judged(s, "SATURATED", 0)
      [] f = "INVALID" -> Judged(s, "UNKNOWN", 0)
      [] f = "HIGH" -> Judged(s, "UNSAFE", 0)
      [] f \in {"LOW", "BETWEEN"} /\ s.residual = "SAFE" -> Judged(s, "SAFE", RequiredSafe)
      [] f = "LOW" /\ s.residual # "SAFE" -> Counted(s)
      [] OTHER -> Judged(s, "UNKNOWN", 0)
(* A publication carries the age and the next date of the sweep's start.   *)
Published(s, group) ==
    [s EXCEPT !.due = @ \ {group},
              !.pub = [g \in Aged |-> IF g # group THEN @[g] ELSE IF s.old THEN "OLD" ELSE "FRESH"]]
Proven(p, f) ==
    LET row == IF f # "LOW" THEN 0 ELSE IF p.row < RequiredSafe THEN p.row + 1 ELSE p.row
    IN  [p EXCEPT !.row = row, !.safe = row = RequiredSafe \/ (@ /\ f \in {"LOW", "BETWEEN"})]
SweptResidual(x) ==
    {[x EXCEPT !.s = Rest(Published(Evaluate(@, f), "RESIDUAL")), !.proof = Proven(@, f)] : f \in Findings(x.s)}
(* hw_battery_state_from_voltage: a plausible voltage has a state.         *)
SweptBattery(s) ==
    {[Published(s, "BATTERY") EXCEPT !.battery = b] :
     b \in IF s.saturated THEN {"UNKNOWN"} ELSE {"UNKNOWN", "KNOWN"}}
RefreshedBattery(x) ==
    {[x EXCEPT !.s = Rest([t EXCEPT !.refreshing = FALSE, !.ready = TRUE]), !.proof.fresh = TRUE] :
     t \in SweptBattery(x.s)}
-----------------------------------------------------------------------------
(* complete_sample: the next sample, the next channel, or the group's end. *)
NextPhase(s) ==
    CASE s.phase = "VMID" -> IF s.refreshing THEN "BAT" ELSE "HI"
      [] s.phase = "HI" -> "LO"
      [] OTHER -> "NONE"
(* Only the residual's saturation is kept from channel to channel.         *)
GroupEnds(x) ==
    CASE x.s.phase = "LO" -> SweptResidual(x)
      [] x.s.phase = "BAT" /\ x.s.refreshing -> RefreshedBattery(x)
      [] x.s.phase = "BAT" /\ ~x.s.refreshing -> {[x EXCEPT !.s = Rest(t)] : t \in SweptBattery(x.s)}
      [] OTHER -> {[x EXCEPT !.s = Rest(Published(@, "NTC"))]}
Sampled(x) ==
    IF x.s.sample + 1 < Average THEN {[x EXCEPT !.s.sample = @ + 1, !.s.st = "START"]}
    ELSE IF NextPhase(x.s) # "NONE"
    THEN {[x EXCEPT !.s.sample = 0, !.s.st = "START", !.s.phase = NextPhase(x.s),
                    !.s.saturated = @ /\ ~x.s.refreshing]}
    ELSE {[y EXCEPT !.s.saturated = FALSE] : y \in GroupEnds([x EXCEPT !.s.sample = 0])}
(* bsp_adc_core_poll: complete, late, or still under way.  Seeded fault:   *)
(* a conversion that is late is waited for.                                *)
Complete(x) ==
    UNION {Sampled([x EXCEPT !.adc = Canceled(@), !.s.saturated = @ \/ sat]) : sat \in BOOLEAN}
PolledForEver(x) == IF x.adc.late THEN {x} ELSE Complete(x) \cup {x}
Polled(x) ==
    Complete(x) \cup
    (IF x.adc.late THEN {[x EXCEPT !.adc = Canceled(@), !.s = Invalidated(@)]} ELSE {x})
(* bsp_adc_start: the converter must have been initialised, and be idle.   *)
Converted(x) ==
    IF ~x.adc.initialized \/ x.adc.busy THEN {[x EXCEPT !.s = Invalidated(@)]}
    ELSE {[x EXCEPT !.s.st = "POLL", !.adc.busy = TRUE, !.adc.late = FALSE]}
(* next_due_group: the residual first.                                     *)
FirstPhase(s) ==
    CASE "RESIDUAL" \in s.due -> "VMID"
      [] "RESIDUAL" \notin s.due /\ "BATTERY" \in s.due -> "BAT"
      [] OTHER -> "NTC"
Begun(x) ==
    IF x.s.due = {} THEN {x}
    ELSE Converted([x EXCEPT !.s = [ResetGroup(x.s) EXCEPT !.phase = FirstPhase(x.s), !.st = "START"]])
(* hw_aux_sensors_step *)
Idled(x) ==
    [x EXCEPT !.s = ResetGroup([x.s EXCEPT !.st = "PAUSED"]),
              !.adc = IF x.s.st = "POLL" THEN Canceled(@) ELSE @]
Worked(x) ==
    CASE x.s.st = "IDLE" -> Begun(x)
      [] x.s.st = "START" -> Converted(x)
      [] x.s.st = "POLL" -> Polled(x)
      [] OTHER -> {x}
StepOf(x) ==
    IF x.s.paused /\ ~x.s.refreshing THEN {Idled(x)} ELSE UNION {Worked(y) : y \in {Stale(x)}}

Step == \E y \in StepOf(Here) : Becomes(y)
(* Time goes on: a group becomes due, a publication or the sweep under way *)
(* too old, a conversion late.                                             *)
Late == adc.busy /\ ~adc.late /\ adc' = [adc EXCEPT !.late = TRUE] /\ UNCHANGED <<sensors, proof>>
GrowsOld ==
    /\ \/ \E g \in Groups \ sensors.due : sensors' = [sensors EXCEPT !.due = @ \cup {g}]
       \/ \E g \in Aged : sensors.pub[g] = "FRESH" /\ sensors' = [sensors EXCEPT !.pub[g] = "OLD"]
       \/ sensors.phase # "NONE" /\ ~sensors.old /\ sensors' = [sensors EXCEPT !.old = TRUE]
    /\ UNCHANGED <<adc, proof>>
Elapse == Late \/ GrowsOld
-----------------------------------------------------------------------------
(* The transaction's calls.  Seeded fault: the evidence outlives the loan. *)
Parked(s) ==
    ResetGroup([s EXCEPT !.paused = TRUE, !.refreshing = FALSE, !.ready = FALSE, !.st = "PAUSED", !.phase = "NONE"])
PausedKeeping(s) == Parked(s)
Paused(s) == Disproved(Parked(s))
(* Seeded fault: the state is left before the conversion is given up.      *)
PauseLate == sensors' = Paused(sensors) /\ proof' = NoProof /\ UNCHANGED adc
Pause ==
    /\ sensors' = Paused(sensors) /\ proof' = NoProof
    /\ adc' = IF sensors.st = "POLL" THEN Canceled(adc) ELSE adc
(* bsp_metrology_adc_restore initialised the converter again, or could not. *)
Resume ==
    /\ sensors.paused
    /\ \E ok \in BOOLEAN : adc' = [Canceled(adc) EXCEPT !.initialized = ok]
    /\ sensors' = ResetGroup([sensors EXCEPT !.paused = FALSE, !.refreshing = FALSE, !.ready = FALSE,
                                             !.st = "IDLE", !.due = Groups])
    /\ UNCHANGED proof
Refreshed(s) ==
    ResetGroup(Disproved([s EXCEPT !.refreshing = TRUE, !.ready = FALSE, !.phase = "VMID", !.st = "START"]))
PowerBegin ==
    /\ sensors.paused /\ sensors.st = "PAUSED" /\ ~sensors.refreshing
    /\ sensors' = Refreshed(sensors) /\ proof' = NoProof
    /\ \E ok \in BOOLEAN : adc' = [adc EXCEPT !.initialized = ok]
PowerStatus(s) ==
    CASE ~s.paused \/ s.fault -> "ERROR"
      [] s.paused /\ ~s.fault /\ s.refreshing -> "BUSY"
      [] OTHER -> IF s.ready THEN "OK" ELSE "ERROR"

Next == Step \/ Elapse \/ Pause \/ Resume \/ PowerBegin
Spec == Init /\ [][Next]_vars
(* The main loop steps the sensors in every pass, and time goes on; but    *)
(* nothing makes the converter complete a conversion.                      *)
FairSpec == Spec /\ WF_vars(Step /\ (sensors.st = "POLL" => adc.late)) /\ WF_vars(Late)
-----------------------------------------------------------------------------
TypeOK == sensors \in Sensors /\ adc \in Adc

(* The terminals are called SAFE only on sweeps that were all taken since  *)
(* the converter was last lent, without a gap: enough of them in a row     *)
(* found them discharged and none since found them charged                 *)
(* (hw_residual_policy_evaluate, hw_aux_sensors_pause).                    *)
SafeIsBacked == Residual(sensors) = "SAFE" => proof.safe /\ ~sensors.paused

(* A refresh that says OK has sampled the battery since it was asked for,  *)
(* and while the converter is lent no conversion of the sensors is under   *)
(* way unless for a refresh (hw_aux_sensors_power_begin, ..._pause).       *)
RefreshIsFresh ==
    /\ PowerStatus(sensors) = "OK" => proof.fresh
    /\ sensors.paused /\ adc.busy => sensors.refreshing

(* A sweep and a refresh that are begun end, whatever the converter does:  *)
(* a conversion has its deadline (bsp_adc_core_poll).                      *)
Sweeping == sensors.st \in {"START", "POLL"}
SweepsEnd == Sweeping ~> ~Sweeping
=============================================================================
