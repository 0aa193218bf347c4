-------------------------- MODULE Failures_proofs --------------------------
(***************************************************************************)
(* What the bench may never leave behind, whichever call of the hardware   *)
(* fails: the source on, the converter or the bus held, a workspace taken  *)
(* from what is being sent, a PASS that was not earned; and what the panel *)
(* may never do: cut a melody, sound under quiet, lose an event, act twice *)
(* on a press.                                                             *)
(*                                                                         *)
(* The bench: a pass of the console is a composition of operators that     *)
(* return what may come of it; there is one lemma for each, from what it   *)
(* is given to what it gives.  In a pass a capture may stand at its abort  *)
(* (ABORT), and one that is over may still have its workspace (Going):     *)
(* fail_safe_shutdown and lab_step_metrology_capture put that right before *)
(* it ends.                                                                *)
(*                                                                         *)
(* The panel: one lemma for each operator of the feedback, which tells     *)
(* what stays of the queue and of the melody; and one for each event of a  *)
(* button, told in its place, and their sum over the buttons of a pass.  A *)
(* press that may still open the menu keeps the display awake (Awake),     *)
(* since its times add up to less than the shortest sleep.                 *)
(***************************************************************************)
EXTENDS MCFailures, SequenceTheorems, WellFoundedInduction, TLAPS

CapFields == {"st", "quiet_held", "aux_paused", "adc_owned", "restore_failed", "dma_complete",
              "valid", "late"}
HwFields == {"range", "quiet", "aux", "adc", "exc", "faults"}
JobFields == {"owner", "raw", "dump", "frame"}
TestFields == {"st", "busy_observed", "op", "chip", "sector", "late", "done"}
BenchShape(x) ==
    /\ {"cap", "hw", "job", "test"} \subseteq DOMAIN x
    /\ CapFields \subseteq DOMAIN x.cap /\ HwFields \subseteq DOMAIN x.hw
    /\ JobFields \subseteq DOMAIN x.job /\ TestFields \subseteq DOMAIN x.test

(* The states in which the source may be on, the converter is the          *)
(* capture's, the sensors are paused for it, the bus is held quiet, and    *)
(* those after the samples were taken.                                     *)
Sourced == {"EXC_NEUTRAL_WAIT", "EXC_SINE_START", "EXC_SETTLE", "ADC_DMA_START", "ADC_DMA_WAIT",
            "ADC_DMA_COMPLETE", "EXC_OFF"}
Owning == Sourced \cup {"EXC_NEUTRAL", "ADC_RELEASE", "AUX_RESTORE"}
Pausing == Owning \cup {"ADC_ACQUIRE", "AUX_RESUME"}
Quieting == Pausing \cup {"AUX_PAUSE", "RANGE_DISABLE", "QUIET_EXIT"}
WithSamples == {"ADC_DMA_COMPLETE", "EXC_OFF", "ADC_RELEASE", "AUX_RESTORE", "AUX_RESUME",
                "RANGE_DISABLE", "QUIET_EXIT", "ANALYZE"}

(* What a capture has of the front end it has in those states only, or a   *)
(* fault that is latched says so.                                          *)
Front(c, h) ==
    /\ c.st \in B!CaptureStates
    /\ c.st \notin Sourced \cup {"ABORT"} => h.exc = "OFF" \/ "METROLOGY" \in h.faults
    /\ h.adc # "AUX" => c.adc_owned \/ "ADC" \in h.faults
    /\ h.aux # "RUN" => c.aux_paused \/ "ADC" \in h.faults
    /\ c.adc_owned => c.st \in Owning \cup {"ABORT"}
    /\ c.st \in Owning => c.adc_owned
    /\ c.aux_paused => c.st \in Pausing \cup {"ABORT"} \/ "ADC" \in h.faults
    /\ c.restore_failed => "ADC" \in h.faults
    /\ h.adc = "SAMPLING" => c.st \in {"ADC_DMA_WAIT", "ADC_DMA_COMPLETE", "ABORT"}
    /\ c.quiet_held => c.st \in Quieting \cup {"ABORT"}

(* The workspace of a capture that is under way, ...                       *)
Taken(x) ==
    /\ x.cap.st \in WithSamples \cup {"DONE"} => x.job.raw = "SAMPLES"
    /\ x.job.owner = "METROLOGY" /\ ~x.job.dump /\ ~x.job.frame
(* ... and between two passes.                                             *)
Workspace(x) ==
    /\ B!Active(x) => Taken(x)
    /\ x.cap.st = "IDLE" => x.job.owner # "METROLOGY" /\ ~x.job.dump
    /\ x.cap.st = "DONE" => x.job.dump
    /\ x.job.dump => x.job.raw = "SAMPLES" /\ x.job.owner = "METROLOGY" /\ x.cap.valid
    /\ x.job.frame => x.job.raw = "FRAME" /\ x.job.owner = "STORE"

(* The self-test: the chip was seen busy only while the driver believes    *)
(* in an operation; what was done is what the place in the test says; the  *)
(* last erasure is under way, or was refused and will be found out.        *)
Tested(q) ==
    /\ q.busy_observed => q.st \in B!Waits /\ q.op # "NONE"
    /\ q.st \in {"ERASE_START", "ERASE_WAIT", "VERIFY_ERASE"} => q.done = {}
    /\ q.st \in {"PROGRAM_START", "PROGRAM_WAIT", "READBACK"} => q.done = {"ERASE"}
    /\ q.st \in {"CLEANUP_START", "CLEANUP_WAIT", "COMPLETE"} => q.done = {"ERASE", "PROGRAM"}
    /\ q.st \in {"VERIFY_ERASE", "PROGRAM_START", "READBACK", "CLEANUP_START", "COMPLETE"} =>
          q.op = "NONE" /\ q.chip = "NONE"
    /\ q.st = "CLEANUP_WAIT" =>
          \/ q.op = "NONE" /\ q.chip = "NONE"
          \/ q.op # "NONE" /\ q.chip \in {"NONE", "ERASE"} /\ q.sector # "PATTERN"
    /\ q.st = "COMPLETE" => q.sector # "PATTERN"

Steady(x) == BenchShape(x) /\ Front(x.cap, x.hw) /\ Workspace(x) /\ Tested(x.test)
BenchInv == Steady(B!Here) /\ cap.st # "ABORT"

(* In a capture's step.                                                    *)
Going(x) == BenchShape(x) /\ Front(x.cap, x.hw) /\ Taken(x)
(* y is x but for the capture and the hardware, or for one of the two.     *)
Apart(x, y) == BenchShape(y) /\ y.job = x.job /\ y.test = x.test
SameHolds(c, d) ==
    /\ d.quiet_held = c.quiet_held /\ d.aux_paused = c.aux_paused /\ d.adc_owned = c.adc_owned
    /\ d.restore_failed = c.restore_failed
SameHw(h, k) == k.faults = h.faults /\ k.exc = h.exc /\ k.adc = h.adc /\ k.aux = h.aux
-----------------------------------------------------------------------------
(* The bench begins with nothing under way.                                *)
LEMMA BenchInitRight == B!Init => BenchInv
<1> SUFFICES ASSUME B!Init PROVE BenchInv OBVIOUS
<1>1. BenchShape(B!Here)
  BY DEF B!Init, B!Here, BenchShape, CapFields, HwFields, JobFields, TestFields
<1>2. Front(cap, hw) BY DEF B!Init, Front, Sourced, Owning, B!CaptureStates
<1>3. Workspace(B!Here) BY DEF B!Init, B!Here, Workspace, B!Active
<1>4. Tested(test) BY DEF B!Init, Tested
<1> QED BY <1>1, <1>2, <1>3, <1>4 DEF BenchInv, Steady, B!Here, B!Init

(* One state to the next.                                                  *)
LEMMA ToEffect ==
    ASSUME NEW x, BenchShape(x), NEW st
    PROVE  LET z == B!To(x, st)
           IN  /\ Apart(x, z) /\ z.hw = x.hw /\ z.cap.st = st /\ SameHolds(x.cap, z.cap)
               /\ z.cap.valid = x.cap.valid /\ z.cap.dma_complete = x.cap.dma_complete
BY DEF B!To, Apart, SameHolds, BenchShape, CapFields

(* The way to the abort.                                                   *)
LEMMA AbortingEffect ==
    ASSUME NEW x, BenchShape(x)
    PROVE  LET z == B!Aborting(x)
           IN  Apart(x, z) /\ z.hw = x.hw /\ z.cap.st = "ABORT" /\ SameHolds(x.cap, z.cap)
BY DEF B!Aborting, Apart, SameHolds, BenchShape, CapFields

(* A fault is latched, and kept.                                           *)
LEMMA LatchedEffect ==
    ASSUME NEW x, BenchShape(x), NEW fault
    PROVE  LET z == B!Latched(x, fault)
           IN  /\ Apart(x, z) /\ z.cap = x.cap /\ z.hw.faults = x.hw.faults \cup {fault}
               /\ z.hw.exc = x.hw.exc /\ z.hw.adc = x.hw.adc /\ z.hw.aux = x.hw.aux
BY DEF B!Latched, Apart, BenchShape, HwFields

(* The range.                                                              *)
LEMMA RangeEffect ==
    ASSUME NEW x, BenchShape(x), NEW position
    PROVE  LET z == [x EXCEPT !.hw.range = position]
           IN  Apart(x, z) /\ z.cap = x.cap /\ SameHw(x.hw, z.hw)
BY DEF Apart, SameHw, BenchShape, HwFields
(* A write of it that fails.                                               *)
LEMMA RangeFailsEffect ==
    ASSUME NEW x, BenchShape(x)
    PROVE  LET z == B!RangeFails(x)
           IN  /\ Apart(x, z) /\ z.cap = x.cap /\ z.hw.faults = x.hw.faults \cup {"SAFETY"}
               /\ z.hw.exc = x.hw.exc /\ z.hw.adc = x.hw.adc /\ z.hw.aux = x.hw.aux
<1> DEFINE w == [x EXCEPT !.hw.range = "INVALID"]
           z == B!Latched(w, "SAFETY")
<1>1. Apart(x, w) /\ w.cap = x.cap /\ SameHw(x.hw, w.hw) BY RangeEffect
<1>2. B!RangeFails(x) = z BY DEF B!RangeFails
<1> HIDE DEF w
<1>3. /\ Apart(w, z) /\ z.cap = w.cap /\ z.hw.faults = w.hw.faults \cup {"SAFETY"}
      /\ z.hw.exc = w.hw.exc /\ z.hw.adc = w.hw.adc /\ z.hw.aux = w.hw.aux
  BY <1>1, LatchedEffect DEF Apart
<1> HIDE DEF z
<1> QED BY <1>1, <1>2, <1>3 DEF Apart, SameHw
(* The driver's step, whatever its outcome.                                *)
LEMMA RangeSteppedEffect ==
    ASSUME NEW x, BenchShape(x), NEW z \in B!RangeStepped(x)
    PROVE  Apart(x, z) /\ z.cap = x.cap /\ SameHw(x.hw, z.hw)
<1>1. z = x \/ \E r : z = [x EXCEPT !.hw.range = r] BY DEF B!RangeStepped
<1>2. CASE z = x BY <1>2 DEF Apart, SameHw
<1>3. ASSUME NEW r, z = [x EXCEPT !.hw.range = r]
      PROVE  Apart(x, z) /\ z.cap = x.cap /\ SameHw(x.hw, z.hw)
  BY <1>3, RangeEffect
<1> QED BY <1>1, <1>2, <1>3
(* The source.                                                             *)
LEMMA ExcEffect ==
    ASSUME NEW x, BenchShape(x), NEW source
    PROVE  LET z == [x EXCEPT !.hw.exc = source]
           IN  /\ Apart(x, z) /\ z.cap = x.cap /\ z.hw.exc = source /\ z.hw.faults = x.hw.faults
               /\ z.hw.adc = x.hw.adc /\ z.hw.aux = x.hw.aux
BY DEF Apart, BenchShape, HwFields
(* The converter.                                                          *)
LEMMA AdcEffect ==
    ASSUME NEW x, BenchShape(x), NEW master
    PROVE  LET z == [x EXCEPT !.hw.adc = master]
           IN  /\ Apart(x, z) /\ z.cap = x.cap /\ z.hw.adc = master /\ z.hw.faults = x.hw.faults
               /\ z.hw.exc = x.hw.exc /\ z.hw.aux = x.hw.aux
BY DEF Apart, BenchShape, HwFields
(* The sampling is stopped; the converter stays whose it is.               *)
LEMMA StoppedEffect ==
    ASSUME NEW x, BenchShape(x)
    PROVE  LET z == B!Stopped(x)
           IN  /\ Apart(x, z) /\ z.cap = x.cap /\ z.hw.faults = x.hw.faults
               /\ z.hw.exc = x.hw.exc /\ z.hw.aux = x.hw.aux
               /\ z.hw.adc = IF x.hw.adc = "SAMPLING" THEN "ACQUIRED" ELSE x.hw.adc
<1> DEFINE master == IF x.hw.adc = "SAMPLING" THEN "ACQUIRED" ELSE x.hw.adc
<1>1. B!Stopped(x) = [x EXCEPT !.hw.adc = master] BY DEF B!Stopped
<1> HIDE DEF master
<1>2. LET z == [x EXCEPT !.hw.adc = master]
      IN  /\ Apart(x, z) /\ z.cap = x.cap /\ z.hw.adc = master /\ z.hw.faults = x.hw.faults
          /\ z.hw.exc = x.hw.exc /\ z.hw.aux = x.hw.aux
  BY AdcEffect
<1> QED BY <1>1, <1>2 DEF master
(* The converter could not be given back: its fault is latched, once.      *)
LEMMA RestoreFailsEffect ==
    ASSUME NEW x, BenchShape(x), x.cap.restore_failed => "ADC" \in x.hw.faults
    PROVE  LET z == B!RestoreFails(x)
           IN  /\ Apart(x, z) /\ z.cap.st = x.cap.st /\ z.cap.quiet_held = x.cap.quiet_held
               /\ z.cap.adc_owned = x.cap.adc_owned /\ z.cap.aux_paused = x.cap.aux_paused
               /\ x.hw.faults \cup {"ADC"} = z.hw.faults
               /\ z.hw.exc = x.hw.exc /\ z.hw.adc = x.hw.adc /\ z.hw.aux = x.hw.aux
<1> DEFINE w == IF x.cap.restore_failed THEN x ELSE B!Latched(x, "ADC")
<1>1. /\ Apart(x, w) /\ w.cap = x.cap /\ w.hw.faults = x.hw.faults \cup {"ADC"}
      /\ w.hw.exc = x.hw.exc /\ w.hw.adc = x.hw.adc /\ w.hw.aux = x.hw.aux
  BY LatchedEffect DEF Apart
<1>2. B!RestoreFails(x) = [w EXCEPT !.cap.restore_failed = TRUE] BY DEF B!RestoreFails
<1> HIDE DEF w
<1> QED BY <1>1, <1>2 DEF Apart, BenchShape, CapFields
(* The sensors go on.                                                      *)
LEMMA AuxResumedEffect ==
    ASSUME NEW x, BenchShape(x)
    PROVE  LET z == B!AuxResumed(x)
           IN  /\ Apart(x, z) /\ z.cap.st = x.cap.st /\ z.cap.quiet_held = x.cap.quiet_held
               /\ z.cap.adc_owned = x.cap.adc_owned /\ z.cap.aux_paused = FALSE
               /\ z.cap.restore_failed = x.cap.restore_failed
               /\ z.hw.faults = x.hw.faults /\ z.hw.exc = x.hw.exc /\ z.hw.adc = x.hw.adc
               /\ z.hw.aux = "RUN"
BY DEF B!AuxResumed, Apart, BenchShape, CapFields, HwFields
(* The bus is quiet no longer for the capture's sake.                      *)
LEMMA QuietReleasedEffect ==
    ASSUME NEW x, BenchShape(x)
    PROVE  LET z == B!QuietReleased(x)
           IN  /\ Apart(x, z) /\ z.cap.st = x.cap.st /\ ~z.cap.quiet_held
               /\ z.cap.adc_owned = x.cap.adc_owned /\ z.cap.aux_paused = x.cap.aux_paused
               /\ z.cap.restore_failed = x.cap.restore_failed /\ SameHw(x.hw, z.hw)
<1>1. CASE x.cap.quiet_held
  BY <1>1 DEF B!QuietReleased, Apart, SameHw, BenchShape, CapFields, HwFields
<1>2. CASE ~x.cap.quiet_held BY <1>2 DEF B!QuietReleased, Apart, SameHw
<1> QED BY <1>1, <1>2
(* bsp_excitation_off: the source is off, or its fault is latched.         *)
LEMMA ExcitationOffEffect ==
    ASSUME NEW x, BenchShape(x), NEW z \in B!ExcitationOff(x)
    PROVE  /\ Apart(x, z) /\ z.cap = x.cap /\ (z.hw.exc = "OFF" \/ "METROLOGY" \in z.hw.faults)
           /\ x.hw.faults \subseteq z.hw.faults /\ z.hw.adc = x.hw.adc /\ z.hw.aux = x.hw.aux
<1> DEFINE off == [x EXCEPT !.hw.exc = "OFF"]
           latched == B!Latched(x, "METROLOGY")
<1>1. z = off \/ z = latched BY DEF B!ExcitationOff
<1>2. CASE z = off
  <2>1. /\ Apart(x, off) /\ off.cap = x.cap /\ off.hw.exc = "OFF" /\ off.hw.faults = x.hw.faults
        /\ off.hw.adc = x.hw.adc /\ off.hw.aux = x.hw.aux
    BY ExcEffect
  <2> QED BY <1>2, <2>1
<1>3. CASE z = latched
  <2>1. /\ Apart(x, latched) /\ latched.cap = x.cap
        /\ latched.hw.faults = x.hw.faults \cup {"METROLOGY"}
        /\ latched.hw.adc = x.hw.adc /\ latched.hw.aux = x.hw.aux
    BY LatchedEffect
  <2> QED BY <1>3, <2>1
<1> QED BY <1>1, <1>2, <1>3
(* hw_range_force_disabled: the same of the range.                         *)
LEMMA RangeOffEffect ==
    ASSUME NEW x, BenchShape(x), NEW z \in B!RangeOff(x)
    PROVE  /\ Apart(x, z) /\ z.cap = x.cap /\ x.hw.faults \subseteq z.hw.faults
           /\ z.hw.exc = x.hw.exc /\ z.hw.adc = x.hw.adc /\ z.hw.aux = x.hw.aux
<1> DEFINE off == [x EXCEPT !.hw.range = "DISABLED"]
           latched == B!RangeFails(x)
<1>1. z = off \/ z = latched BY DEF B!RangeOff
<1>2. CASE z = off
  <2>1. Apart(x, off) /\ off.cap = x.cap /\ SameHw(x.hw, off.hw) BY RangeEffect
  <2> QED BY <1>2, <2>1 DEF SameHw
<1>3. CASE z = latched
  <2>1. /\ Apart(x, latched) /\ latched.cap = x.cap
        /\ latched.hw.faults = x.hw.faults \cup {"SAFETY"}
        /\ latched.hw.exc = x.hw.exc /\ latched.hw.adc = x.hw.adc /\ latched.hw.aux = x.hw.aux
    BY RangeFailsEffect
  <2> QED BY <1>3, <2>1
<1> QED BY <1>1, <1>2, <1>3
(* The converter and the sensors are given back, or their fault is         *)
(* latched.                                                                *)
LEMMA RestoredEffect ==
    ASSUME NEW x, BenchShape(x), x.cap.restore_failed => "ADC" \in x.hw.faults,
           x.hw.adc # "AUX" => x.cap.adc_owned \/ "ADC" \in x.hw.faults,
           x.hw.aux # "RUN" => x.cap.aux_paused \/ "ADC" \in x.hw.faults,
           NEW z \in B!Restored(x)
    PROVE  /\ Apart(x, z) /\ z.cap.quiet_held = x.cap.quiet_held /\ ~z.cap.adc_owned
           /\ z.cap.aux_paused => "ADC" \in z.hw.faults
           /\ z.hw.exc = x.hw.exc /\ x.hw.faults \subseteq z.hw.faults
           /\ z.hw.adc \in {x.hw.adc, "AUX"} /\ z.hw.aux \in {x.hw.aux, "RUN"}
           /\ (z.hw.adc = "AUX" /\ z.hw.aux = "RUN") \/ "ADC" \in z.hw.faults
<1>1. CASE ~(x.cap.adc_owned \/ x.cap.aux_paused)
  <2>1. z = x BY <1>1 DEF B!Restored
  <2> QED BY <1>1, <2>1 DEF Apart
<1>2. CASE x.cap.adc_owned \/ x.cap.aux_paused
  <2> DEFINE fails == B!RestoreFails(x)
             y == [x EXCEPT !.hw.adc = "AUX", !.cap.adc_owned = FALSE]
  <2>1. /\ Apart(x, fails) /\ fails.cap.quiet_held = x.cap.quiet_held
        /\ fails.cap.aux_paused = x.cap.aux_paused
        /\ x.hw.faults \cup {"ADC"} = fails.hw.faults
        /\ fails.hw.exc = x.hw.exc /\ fails.hw.adc = x.hw.adc /\ fails.hw.aux = x.hw.aux
    BY RestoreFailsEffect
  <2>2. /\ Apart(x, y) /\ y.cap.quiet_held = x.cap.quiet_held /\ y.cap.adc_owned = FALSE
        /\ y.cap.aux_paused = x.cap.aux_paused
        /\ y.hw.exc = x.hw.exc /\ y.hw.adc = "AUX" /\ y.hw.aux = x.hw.aux
        /\ y.hw.faults = x.hw.faults
    BY DEF Apart, BenchShape, CapFields, HwFields
  <2>3. \/ z = [fails EXCEPT !.cap.adc_owned = FALSE]
        \/ z = IF x.cap.aux_paused THEN B!AuxResumed(y) ELSE y
    BY <1>2 DEF B!Restored
  <2> HIDE DEF fails, y
  <2>4. CASE z = [fails EXCEPT !.cap.adc_owned = FALSE]
    <3>1. /\ Apart(fails, z) /\ z.cap.quiet_held = fails.cap.quiet_held /\ z.cap.adc_owned = FALSE
          /\ z.hw = fails.hw
      BY <2>1, <2>4 DEF Apart, BenchShape, CapFields
    <3> QED BY <2>1, <3>1 DEF Apart
  <2>5. CASE x.cap.aux_paused /\ z = B!AuxResumed(y)
    <3>1. /\ Apart(y, z) /\ z.cap.quiet_held = y.cap.quiet_held
          /\ z.cap.adc_owned = y.cap.adc_owned /\ z.cap.aux_paused = FALSE
          /\ z.hw.faults = y.hw.faults /\ z.hw.exc = y.hw.exc /\ z.hw.adc = y.hw.adc
          /\ z.hw.aux = "RUN"
      BY <2>2, <2>5, AuxResumedEffect DEF Apart
    <3> QED BY <2>2, <3>1 DEF Apart
  <2>6. CASE ~x.cap.aux_paused /\ z = y BY <2>2, <2>6
  <2> QED BY <2>3, <2>4, <2>5, <2>6
<1> QED BY <1>1, <1>2

(* A capture at rest.                                                      *)
LEMMA RestedEffect ==
    ASSUME NEW x, BenchShape(x)
    PROVE  LET z == B!Rested(x)
           IN  /\ Apart(x, z) /\ z.hw = x.hw /\ z.cap.st = "IDLE" /\ ~z.cap.restore_failed
               /\ z.cap.quiet_held = x.cap.quiet_held /\ z.cap.adc_owned = x.cap.adc_owned
               /\ z.cap.aux_paused = x.cap.aux_paused
BY DEF B!Rested, Apart, BenchShape, CapFields

(* The states that prepare a capture.                                      *)
LEMMA PrepareRight ==
    ASSUME NEW x, Going(x), NEW y,
           \/ x.cap.st = "FORCE_K1_SAFE" /\ y \in B!ForceK1Safe(x)
           \/ x.cap.st = "RANGE_REQUEST" /\ y \in B!RangeRequest(x)
           \/ x.cap.st = "RANGE_WAIT" /\ y \in B!RangeWait(x)
           \/ x.cap.st = "QUIET_ENTER" /\ y \in B!QuietEnter(x)
           \/ x.cap.st = "AUX_PAUSE" /\ y \in B!AuxPause(x)
           \/ x.cap.st = "ADC_ACQUIRE" /\ y \in B!AdcAcquire(x)
    PROVE  Going(y) /\ y.test = x.test
<1>0. BenchShape(x) /\ Front(x.cap, x.hw) /\ Taken(x) BY DEF Going
<1> USE DEF Going, Front, Taken, Apart, SameHolds, SameHw, Sourced, Owning, Pausing, Quieting,
            WithSamples, B!CaptureStates
<1>1. CASE x.cap.st = "FORCE_K1_SAFE" /\ y \in B!ForceK1Safe(x)
  <2> DEFINE w == B!Latched(x, "SAFETY")
  <2>1. y = B!To(x, "RANGE_REQUEST") \/ y = B!Aborting(w) BY <1>1 DEF B!ForceK1Safe
  <2>2. /\ Apart(x, w) /\ w.cap = x.cap /\ w.hw.faults = x.hw.faults \cup {"SAFETY"}
        /\ w.hw.exc = x.hw.exc /\ w.hw.adc = x.hw.adc /\ w.hw.aux = x.hw.aux
    BY <1>0, LatchedEffect
  <2> HIDE DEF w
  <2>3. CASE y = B!To(x, "RANGE_REQUEST") BY <1>0, <1>1, <2>3, ToEffect
  <2>4. CASE y = B!Aborting(w) BY <1>0, <1>1, <2>2, <2>4, AbortingEffect
  <2> QED BY <2>1, <2>3, <2>4
<1>2. CASE x.cap.st = "RANGE_REQUEST" /\ y \in B!RangeRequest(x)
  <2> DEFINE z == B!To(x, "RANGE_WAIT")
             w == [x EXCEPT !.hw.range = "INVALID"]
  <2>1. y = [z EXCEPT !.hw.range = "MOVING"] \/ y = B!Aborting(w) BY <1>2 DEF B!RangeRequest
  <2>2. Apart(x, w) /\ w.cap = x.cap /\ SameHw(x.hw, w.hw) BY <1>0, RangeEffect
  <2>3. Going(z) /\ z.test = x.test BY <1>0, <1>2, ToEffect
  <2> HIDE DEF z, w
  <2>4. CASE y = [z EXCEPT !.hw.range = "MOVING"] BY <2>3, <2>4, RangeEffect
  <2>5. CASE y = B!Aborting(w) BY <1>0, <1>2, <2>2, <2>5, AbortingEffect
  <2> QED BY <2>1, <2>4, <2>5
<1>3. CASE x.cap.st = "RANGE_WAIT" /\ y \in B!RangeWait(x)
  <2>1. PICK z \in B!RangeStepped(x) :
          y = CASE z.hw.range = "READY" -> B!To(z, "QUIET_ENTER")
                [] z.hw.range = "INVALID" -> B!Aborting(z)
                [] OTHER -> IF z.cap.late THEN B!Aborting(z) ELSE z
    BY <1>3 DEF B!RangeWait
  <2>3. Apart(x, z) /\ z.cap = x.cap /\ SameHw(x.hw, z.hw) BY <1>0, RangeSteppedEffect
  <2>4. y = B!To(z, "QUIET_ENTER") \/ y = B!Aborting(z) \/ y = z BY <2>1
  <2>5. CASE y = B!To(z, "QUIET_ENTER") BY <1>0, <1>3, <2>3, <2>5, ToEffect
  <2>6. CASE y = B!Aborting(z) BY <1>0, <1>3, <2>3, <2>6, AbortingEffect
  <2>7. CASE y = z BY <1>0, <1>3, <2>3, <2>7
  <2> QED BY <2>4, <2>5, <2>6, <2>7
<1>4. CASE x.cap.st = "QUIET_ENTER" /\ y \in B!QuietEnter(x)
  <2> DEFINE z == B!To(x, "AUX_PAUSE")
  <2>1. y = [z EXCEPT !.hw.quiet = TRUE, !.cap.quiet_held = TRUE] BY <1>4 DEF B!QuietEnter
  <2>2. Going(z) /\ z.test = x.test /\ z.cap.st = "AUX_PAUSE" BY <1>0, <1>4, ToEffect
  <2> HIDE DEF z
  <2>3. /\ Apart(z, y) /\ SameHw(z.hw, y.hw) /\ y.cap.st = "AUX_PAUSE"
        /\ y.cap.aux_paused = z.cap.aux_paused /\ y.cap.adc_owned = z.cap.adc_owned
        /\ y.cap.restore_failed = z.cap.restore_failed
    BY <2>1, <2>2 DEF BenchShape, CapFields, HwFields
  <2> QED BY <2>2, <2>3
<1>5. CASE x.cap.st = "AUX_PAUSE" /\ y \in B!AuxPause(x)
  <2> DEFINE z == B!To(x, "ADC_ACQUIRE")
  <2>1. y = [z EXCEPT !.hw.aux = "PAUSED", !.cap.aux_paused = TRUE] BY <1>5 DEF B!AuxPause
  <2>2. Going(z) /\ z.test = x.test /\ z.cap.st = "ADC_ACQUIRE" BY <1>0, <1>5, ToEffect
  <2> HIDE DEF z
  <2>3. /\ Apart(z, y) /\ y.cap.st = "ADC_ACQUIRE" /\ y.cap.quiet_held = z.cap.quiet_held
        /\ y.cap.aux_paused = TRUE /\ y.cap.adc_owned = z.cap.adc_owned
        /\ y.cap.restore_failed = z.cap.restore_failed
        /\ y.hw.exc = z.hw.exc /\ y.hw.adc = z.hw.adc /\ y.hw.faults = z.hw.faults
    BY <2>1, <2>2 DEF BenchShape, CapFields, HwFields
  <2> QED BY <2>2, <2>3
<1>6. CASE x.cap.st = "ADC_ACQUIRE" /\ y \in B!AdcAcquire(x)
  <2> DEFINE z == [x EXCEPT !.cap.adc_owned = TRUE, !.hw.adc = "ACQUIRED"]
  <2>1. y = B!To(z, "EXC_NEUTRAL") \/ y = B!Aborting(z) BY <1>6 DEF B!AdcAcquire
  <2>2. /\ Apart(x, z) /\ z.cap.st = x.cap.st /\ z.cap.quiet_held = x.cap.quiet_held
        /\ z.cap.aux_paused = x.cap.aux_paused /\ z.cap.adc_owned = TRUE
        /\ z.cap.restore_failed = x.cap.restore_failed
        /\ z.hw.exc = x.hw.exc /\ z.hw.adc = "ACQUIRED" /\ z.hw.faults = x.hw.faults
        /\ z.hw.aux = x.hw.aux
    BY <1>0 DEF BenchShape, CapFields, HwFields
  <2> HIDE DEF z
  <2>3. CASE y = B!To(z, "EXC_NEUTRAL") BY <1>0, <1>6, <2>2, <2>3, ToEffect
  <2>4. CASE y = B!Aborting(z) BY <1>0, <1>6, <2>2, <2>4, AbortingEffect
  <2> QED BY <2>1, <2>3, <2>4
<1> QED BY <1>1, <1>2, <1>3, <1>4, <1>5, <1>6

(* The states that take its samples.                                       *)
LEMMA AcquireRight ==
    ASSUME NEW x, Going(x), NEW y,
           \/ x.cap.st = "EXC_NEUTRAL" /\ y \in B!ExcNeutral(x)
           \/ x.cap.st = "EXC_NEUTRAL_WAIT" /\ y \in B!ExcNeutralWait(x)
           \/ x.cap.st = "EXC_SINE_START" /\ y \in B!ExcSineStart(x)
           \/ x.cap.st = "EXC_SETTLE" /\ y \in B!ExcSettle(x)
           \/ x.cap.st = "ADC_DMA_START" /\ y \in B!AdcDmaStart(x)
           \/ x.cap.st = "ADC_DMA_WAIT" /\ y \in B!AdcDmaWait(x)
    PROVE  Going(y) /\ y.test = x.test
<1>0. BenchShape(x) /\ Front(x.cap, x.hw) /\ Taken(x) BY DEF Going
<1> USE DEF Going, Front, Taken, Apart, SameHolds, SameHw, Sourced, Owning, Pausing, Quieting,
            WithSamples, B!CaptureStates
<1>a. Going(B!Aborting(x)) /\ B!Aborting(x).test = x.test BY <1>0, AbortingEffect
<1>1. CASE x.cap.st = "EXC_NEUTRAL" /\ y \in B!ExcNeutral(x)
  <2> DEFINE z == B!To(x, "EXC_NEUTRAL_WAIT")
  <2>1. y = [z EXCEPT !.hw.exc = "NEUTRAL"] \/ y = B!Aborting(x) BY <1>1 DEF B!ExcNeutral
  <2>2. Going(z) /\ z.test = x.test /\ z.cap.st = "EXC_NEUTRAL_WAIT" BY <1>0, <1>1, ToEffect
  <2> HIDE DEF z
  <2>3. CASE y = [z EXCEPT !.hw.exc = "NEUTRAL"] BY <2>2, <2>3, ExcEffect
  <2> QED BY <1>a, <2>1, <2>3
<1>2. CASE x.cap.st = "EXC_NEUTRAL_WAIT" /\ y \in B!ExcNeutralWait(x)
  <2>1. y = B!To(x, "EXC_SINE_START") \/ y = x BY <1>2 DEF B!ExcNeutralWait
  <2>2. Going(B!To(x, "EXC_SINE_START")) /\ B!To(x, "EXC_SINE_START").test = x.test
    BY <1>0, <1>2, ToEffect
  <2> QED BY <1>0, <2>1, <2>2
<1>3. CASE x.cap.st = "EXC_SINE_START" /\ y \in B!ExcSineStart(x)
  <2> DEFINE z == B!To(x, "EXC_SETTLE")
  <2>1. y = [z EXCEPT !.hw.exc = "SINE"] \/ y = B!Aborting(x) BY <1>3 DEF B!ExcSineStart
  <2>2. Going(z) /\ z.test = x.test /\ z.cap.st = "EXC_SETTLE" BY <1>0, <1>3, ToEffect
  <2> HIDE DEF z
  <2>3. CASE y = [z EXCEPT !.hw.exc = "SINE"] BY <2>2, <2>3, ExcEffect
  <2> QED BY <1>a, <2>1, <2>3
<1>4. CASE x.cap.st = "EXC_SETTLE" /\ y \in B!ExcSettle(x)
  <2>1. y = B!To(x, "ADC_DMA_START") \/ y = x \/ y = B!Aborting(x) BY <1>4 DEF B!ExcSettle
  <2>2. Going(B!To(x, "ADC_DMA_START")) /\ B!To(x, "ADC_DMA_START").test = x.test
    BY <1>0, <1>4, ToEffect
  <2> QED BY <1>0, <1>a, <2>1, <2>2
<1>5. CASE x.cap.st = "ADC_DMA_START" /\ y \in B!AdcDmaStart(x)
  <2> DEFINE z == B!To(x, "ADC_DMA_WAIT")
  <2>1. y = [z EXCEPT !.hw.adc = "SAMPLING", !.job.raw = "OTHER"] \/ y = B!Aborting(x)
    BY <1>5 DEF B!AdcDmaStart
  <2>2. Going(z) /\ z.test = x.test /\ z.cap.st = "ADC_DMA_WAIT"
    BY <1>0, <1>5, ToEffect
  <2> HIDE DEF z
  <2>3. CASE y = [z EXCEPT !.hw.adc = "SAMPLING", !.job.raw = "OTHER"]
    <3>1. /\ BenchShape(y) /\ y.cap = z.cap /\ y.test = z.test /\ y.hw.adc = "SAMPLING"
          /\ y.hw.exc = z.hw.exc /\ y.hw.faults = z.hw.faults /\ y.hw.aux = z.hw.aux
          /\ y.job.owner = z.job.owner /\ y.job.dump = z.job.dump /\ y.job.frame = z.job.frame
      BY <2>2, <2>3 DEF BenchShape, HwFields, JobFields
    <3> QED BY <2>2, <3>1
  <2> QED BY <1>a, <2>1, <2>3
<1>6. CASE x.cap.st = "ADC_DMA_WAIT" /\ y \in B!AdcDmaWait(x)
  <2> DEFINE z == B!To(x, "ADC_DMA_COMPLETE")
  <2>1. \/ y = [z EXCEPT !.cap.dma_complete = TRUE, !.job.raw = "SAMPLES"]
        \/ y = B!Aborting(x) \/ y = x
    BY <1>6 DEF B!AdcDmaWait
  <2>2. /\ Apart(x, z) /\ z.hw = x.hw /\ z.cap.st = "ADC_DMA_COMPLETE" /\ SameHolds(x.cap, z.cap)
    BY <1>0, ToEffect
  <2> HIDE DEF z
  <2>3. CASE y = [z EXCEPT !.cap.dma_complete = TRUE, !.job.raw = "SAMPLES"]
    <3>1. /\ BenchShape(y) /\ SameHolds(z.cap, y.cap) /\ y.cap.st = z.cap.st /\ y.test = z.test
          /\ y.hw = z.hw /\ y.job.raw = "SAMPLES"
          /\ y.job.owner = z.job.owner /\ y.job.dump = z.job.dump /\ y.job.frame = z.job.frame
      BY <2>2, <2>3 DEF BenchShape, CapFields, JobFields
    <3> QED BY <1>0, <1>6, <2>2, <3>1
  <2> QED BY <1>0, <1>a, <2>1, <2>3
<1> QED BY <1>1, <1>2, <1>3, <1>4, <1>5, <1>6

(* The states that give the front end back, and look at the samples.       *)
LEMMA ReleaseRight ==
    ASSUME NEW x, Going(x), NEW y,
           \/ x.cap.st = "ADC_DMA_COMPLETE" /\ y = B!To(B!Stopped(x), "EXC_OFF")
           \/ x.cap.st = "EXC_OFF" /\ y \in B!ExcOff(x)
           \/ x.cap.st = "ADC_RELEASE" /\ y = B!To(B!Stopped(x), "AUX_RESTORE")
           \/ x.cap.st = "AUX_RESTORE" /\ y \in B!AuxRestore(x)
           \/ x.cap.st = "AUX_RESUME" /\ y = B!To(B!AuxResumed(x), "RANGE_DISABLE")
           \/ x.cap.st = "RANGE_DISABLE" /\ y \in B!RangeDisable(x)
           \/ x.cap.st = "QUIET_EXIT" /\ y = B!To(B!QuietReleased(x), "ANALYZE")
           \/ x.cap.st = "ANALYZE" /\ y \in B!Analyze(x)
    PROVE  Going(y) /\ y.test = x.test
<1>0. BenchShape(x) /\ Front(x.cap, x.hw) /\ Taken(x) BY DEF Going
<1> USE DEF Going, Front, Taken, Apart, SameHolds, SameHw, Sourced, Owning, Pausing, Quieting,
            WithSamples, B!CaptureStates
<1>1. CASE x.cap.st = "ADC_DMA_COMPLETE" /\ y = B!To(B!Stopped(x), "EXC_OFF")
  <2> DEFINE z == B!Stopped(x)
  <2>1. /\ Apart(x, z) /\ z.cap = x.cap /\ z.hw.faults = x.hw.faults
        /\ z.hw.exc = x.hw.exc /\ z.hw.aux = x.hw.aux
        /\ z.hw.adc = IF x.hw.adc = "SAMPLING" THEN "ACQUIRED" ELSE x.hw.adc
    BY <1>0, StoppedEffect
  <2> HIDE DEF z
  <2> QED BY <1>0, <1>1, <2>1, ToEffect DEF z
<1>2. CASE x.cap.st = "EXC_OFF" /\ y \in B!ExcOff(x)
  <2>1. PICK z \in B!ExcitationOff(x) : y = IF z.hw.exc = "OFF" THEN B!To(z, "ADC_RELEASE")
                                            ELSE B!Aborting(z)
    BY <1>2 DEF B!ExcOff
  <2>3. /\ Apart(x, z) /\ z.cap = x.cap /\ (z.hw.exc = "OFF" \/ "METROLOGY" \in z.hw.faults)
        /\ x.hw.faults \subseteq z.hw.faults /\ z.hw.adc = x.hw.adc /\ z.hw.aux = x.hw.aux
    BY <1>0, ExcitationOffEffect
  <2>4. CASE y = B!To(z, "ADC_RELEASE") BY <1>0, <1>2, <2>3, <2>4, ToEffect
  <2>5. CASE y = B!Aborting(z) BY <1>0, <1>2, <2>3, <2>5, AbortingEffect
  <2> QED BY <2>1, <2>4, <2>5
<1>3. CASE x.cap.st = "ADC_RELEASE" /\ y = B!To(B!Stopped(x), "AUX_RESTORE")
  <2> DEFINE z == B!Stopped(x)
  <2>1. /\ Apart(x, z) /\ z.cap = x.cap /\ z.hw.faults = x.hw.faults
        /\ z.hw.exc = x.hw.exc /\ z.hw.aux = x.hw.aux
        /\ z.hw.adc = IF x.hw.adc = "SAMPLING" THEN "ACQUIRED" ELSE x.hw.adc
    BY <1>0, StoppedEffect
  <2> HIDE DEF z
  <2> QED BY <1>0, <1>3, <2>1, ToEffect DEF z
<1>4. CASE x.cap.st = "AUX_RESTORE" /\ y \in B!AuxRestore(x)
  <2> DEFINE z == B!To(x, "AUX_RESUME")
             w == B!RestoreFails(x)
  <2>1. y = [z EXCEPT !.hw.adc = "AUX", !.cap.adc_owned = FALSE] \/ y = B!Aborting(w)
    BY <1>4 DEF B!AuxRestore
  <2>2. Apart(x, z) /\ z.hw = x.hw /\ z.cap.st = "AUX_RESUME" /\ SameHolds(x.cap, z.cap)
    BY <1>0, ToEffect
  <2>3. /\ Apart(x, w) /\ w.cap.quiet_held = x.cap.quiet_held
        /\ w.cap.adc_owned = x.cap.adc_owned /\ w.cap.aux_paused = x.cap.aux_paused
        /\ x.hw.faults \cup {"ADC"} = w.hw.faults
        /\ w.hw.exc = x.hw.exc /\ w.hw.adc = x.hw.adc /\ w.hw.aux = x.hw.aux
    BY <1>0, RestoreFailsEffect
  <2> HIDE DEF z, w
  <2>4. CASE y = [z EXCEPT !.hw.adc = "AUX", !.cap.adc_owned = FALSE]
    <3>1. /\ Apart(z, y) /\ y.cap.st = z.cap.st /\ y.cap.quiet_held = z.cap.quiet_held
          /\ y.cap.adc_owned = FALSE /\ y.cap.aux_paused = z.cap.aux_paused
          /\ y.cap.restore_failed = z.cap.restore_failed
          /\ y.hw.exc = z.hw.exc /\ y.hw.adc = "AUX" /\ y.hw.faults = z.hw.faults /\ y.hw.aux = z.hw.aux
      BY <2>2, <2>4 DEF BenchShape, CapFields, HwFields
    <3> QED BY <1>0, <1>4, <2>2, <3>1
  <2>5. CASE y = B!Aborting(w) BY <1>0, <1>4, <2>3, <2>5, AbortingEffect
  <2> QED BY <2>1, <2>4, <2>5
<1>5. CASE x.cap.st = "AUX_RESUME" /\ y = B!To(B!AuxResumed(x), "RANGE_DISABLE")
  <2> DEFINE z == B!AuxResumed(x)
  <2>1. /\ Apart(x, z) /\ z.cap.st = x.cap.st /\ z.cap.quiet_held = x.cap.quiet_held
        /\ z.cap.adc_owned = x.cap.adc_owned /\ z.cap.aux_paused = FALSE
        /\ z.cap.restore_failed = x.cap.restore_failed
        /\ z.hw.faults = x.hw.faults /\ z.hw.exc = x.hw.exc /\ z.hw.adc = x.hw.adc
        /\ z.hw.aux = "RUN"
    BY <1>0, AuxResumedEffect
  <2> HIDE DEF z
  <2> QED BY <1>0, <1>5, <2>1, ToEffect DEF z
<1>6. CASE x.cap.st = "RANGE_DISABLE" /\ y \in B!RangeDisable(x)
  <2> DEFINE z == B!To(x, "QUIET_EXIT")
             w == B!RangeFails(x)
  <2>1. y = [z EXCEPT !.hw.range = "DISABLED"] \/ y = B!Aborting(w) BY <1>6 DEF B!RangeDisable
  <2>2. Going(z) /\ z.test = x.test BY <1>0, <1>6, ToEffect
  <2>3. /\ Apart(x, w) /\ w.cap = x.cap /\ w.hw.faults = x.hw.faults \cup {"SAFETY"}
        /\ w.hw.exc = x.hw.exc /\ w.hw.adc = x.hw.adc /\ w.hw.aux = x.hw.aux
    BY <1>0, RangeFailsEffect
  <2> HIDE DEF z, w
  <2>4. CASE y = [z EXCEPT !.hw.range = "DISABLED"] BY <2>2, <2>4, RangeEffect
  <2>5. CASE y = B!Aborting(w) BY <1>0, <1>6, <2>3, <2>5, AbortingEffect
  <2> QED BY <2>1, <2>4, <2>5
<1>7. CASE x.cap.st = "QUIET_EXIT" /\ y = B!To(B!QuietReleased(x), "ANALYZE")
  <2> DEFINE z == B!QuietReleased(x)
  <2>1. /\ Apart(x, z) /\ z.cap.st = x.cap.st /\ ~z.cap.quiet_held
        /\ z.cap.adc_owned = x.cap.adc_owned /\ z.cap.aux_paused = x.cap.aux_paused
        /\ z.cap.restore_failed = x.cap.restore_failed /\ SameHw(x.hw, z.hw)
    BY <1>0, QuietReleasedEffect
  <2> HIDE DEF z
  <2> QED BY <1>0, <1>7, <2>1, ToEffect DEF z
<1>8. CASE x.cap.st = "ANALYZE" /\ y \in B!Analyze(x)
  <2> DEFINE z == B!To(x, "DONE")
             good == x.cap.dma_complete /\ ~x.cap.restore_failed
  <2>1. y = [z EXCEPT !.cap.valid = good] BY <1>8 DEF B!Analyze
  <2>2. Going(z) /\ z.test = x.test BY <1>0, <1>8, ToEffect
  <2> HIDE DEF z, good
  <2>3. Apart(z, y) /\ y.hw = z.hw /\ y.cap.st = z.cap.st /\ SameHolds(z.cap, y.cap)
    BY <2>1, <2>2 DEF BenchShape, CapFields
  <2> QED BY <2>2, <2>3
<1> QED BY <1>1, <1>2, <1>3, <1>4, <1>5, <1>6, <1>7, <1>8

(* fail_safe_shutdown: wherever the capture was, and whatever fails, the   *)
(* front end is at rest, or a fault is latched.                            *)
LEMMA ShutDownRight ==
    ASSUME NEW x, Going(x), x.cap.st = "ABORT", NEW y \in B!ShutDown(x)
    PROVE  Going(y) /\ y.test = x.test /\ y.cap.st = "IDLE"
<1>0. BenchShape(x) /\ Front(x.cap, x.hw) /\ Taken(x) BY DEF Going
<1> DEFINE a == B!Stopped(x)
<1>1. /\ Apart(x, a) /\ a.cap = x.cap /\ a.hw.faults = x.hw.faults
      /\ a.hw.exc = x.hw.exc /\ a.hw.aux = x.hw.aux
      /\ a.hw.adc = IF x.hw.adc = "SAMPLING" THEN "ACQUIRED" ELSE x.hw.adc
  BY <1>0, StoppedEffect
<1>2. PICK b \in B!ExcitationOff(a) :
        \E c \in B!K1Safe(b) : \E d \in B!RangeOff(c) : \E e \in B!Restored(d) : y = B!Ended(e)
  BY DEF B!ShutDown
<1> HIDE DEF a
<1>3. PICK c \in B!K1Safe(b) : \E d \in B!RangeOff(c) : \E e \in B!Restored(d) : y = B!Ended(e)
  BY <1>2
<1>4. PICK d \in B!RangeOff(c) : \E e \in B!Restored(d) : y = B!Ended(e) BY <1>3
<1>5. PICK e \in B!Restored(d) : y = B!Ended(e) BY <1>4
<1>6. /\ Apart(a, b) /\ b.cap = a.cap /\ (b.hw.exc = "OFF" \/ "METROLOGY" \in b.hw.faults)
      /\ a.hw.faults \subseteq b.hw.faults /\ b.hw.adc = a.hw.adc /\ b.hw.aux = a.hw.aux
  BY <1>1, ExcitationOffEffect DEF Apart
<1>7. /\ Apart(b, c) /\ c.cap = b.cap /\ b.hw.faults \subseteq c.hw.faults
      /\ c.hw.exc = b.hw.exc /\ c.hw.adc = b.hw.adc /\ c.hw.aux = b.hw.aux
  <2> DEFINE latched == B!Latched(b, "SAFETY")
  <2>1. c = b \/ c = latched BY DEF B!K1Safe
  <2>2. /\ Apart(b, latched) /\ latched.cap = b.cap
        /\ latched.hw.faults = b.hw.faults \cup {"SAFETY"}
        /\ latched.hw.exc = b.hw.exc /\ latched.hw.adc = b.hw.adc /\ latched.hw.aux = b.hw.aux
    BY <1>6, LatchedEffect DEF Apart
  <2> HIDE DEF latched
  <2> QED BY <1>6, <2>1, <2>2 DEF Apart
<1>8. /\ Apart(c, d) /\ d.cap = c.cap /\ c.hw.faults \subseteq d.hw.faults
      /\ d.hw.exc = c.hw.exc /\ d.hw.adc = c.hw.adc /\ d.hw.aux = c.hw.aux
  BY <1>7, RangeOffEffect DEF Apart
<1>9. /\ Apart(x, d) /\ d.cap = x.cap /\ x.hw.faults \subseteq d.hw.faults
      /\ (d.hw.exc = "OFF" \/ "METROLOGY" \in d.hw.faults)
      /\ d.hw.adc = a.hw.adc /\ d.hw.aux = x.hw.aux
  BY <1>1, <1>6, <1>7, <1>8 DEF Apart
<1>10. /\ d.hw.adc # "AUX" => d.cap.adc_owned \/ "ADC" \in d.hw.faults
       /\ d.hw.aux # "RUN" => d.cap.aux_paused \/ "ADC" \in d.hw.faults
       /\ d.cap.restore_failed => "ADC" \in d.hw.faults /\ d.hw.adc # "SAMPLING"
  BY <1>0, <1>1, <1>9 DEF Front
<1>11. /\ Apart(d, e) /\ ~e.cap.adc_owned
       /\ e.cap.aux_paused => "ADC" \in e.hw.faults
       /\ e.hw.exc = d.hw.exc /\ d.hw.faults \subseteq e.hw.faults
       /\ e.hw.adc \in {d.hw.adc, "AUX"}
       /\ (e.hw.adc = "AUX" /\ e.hw.aux = "RUN") \/ "ADC" \in e.hw.faults
  BY <1>9, <1>10, RestoredEffect DEF Apart
<1> DEFINE f == B!QuietReleased(e)
<1>12. /\ Apart(e, f) /\ f.cap.st = e.cap.st /\ ~f.cap.quiet_held
       /\ f.cap.adc_owned = e.cap.adc_owned /\ f.cap.aux_paused = e.cap.aux_paused
       /\ f.cap.restore_failed = e.cap.restore_failed /\ SameHw(e.hw, f.hw)
  BY <1>11, QuietReleasedEffect DEF Apart
<1>13. y = B!Rested(f) BY <1>5 DEF B!Ended
<1> HIDE DEF f
<1>14. /\ Apart(f, y) /\ y.hw = f.hw /\ y.cap.st = "IDLE" /\ ~y.cap.restore_failed
       /\ y.cap.quiet_held = f.cap.quiet_held /\ y.cap.adc_owned = f.cap.adc_owned
       /\ y.cap.aux_paused = f.cap.aux_paused
  BY <1>12, <1>13, RestedEffect DEF Apart
<1>15. a.hw.adc # "SAMPLING" BY <1>1
<1>16. Apart(x, y) BY <1>9, <1>11, <1>12, <1>14 DEF Apart
<1>17. Front(y.cap, y.hw)
  BY <1>9, <1>11, <1>12, <1>14, <1>15 DEF Front, SameHw, Sourced, Owning, Pausing, Quieting,
    B!CaptureStates
<1> QED BY <1>0, <1>14, <1>16, <1>17 DEF Going, Taken, Apart, WithSamples

(* hw_metrology_session_step: no capture stays at its abort.               *)
LEMMA SessionStepRight ==
    ASSUME NEW x, Going(x), B!Active(x), x.cap.st # "ABORT", NEW y \in B!SessionStep(x)
    PROVE  Going(y) /\ y.test = x.test /\ y.cap.st # "ABORT"
<1>1. PICK z \in B!SuccessPath(x) : y \in IF z.cap.st = "ABORT" THEN B!ShutDown(z) ELSE {z}
  BY DEF B!SessionStep
<1>2. Going(z) /\ z.test = x.test
  <2>1. CASE x.cap.st \in {"FORCE_K1_SAFE", "RANGE_REQUEST", "RANGE_WAIT", "QUIET_ENTER", "AUX_PAUSE",
                           "ADC_ACQUIRE"}
    BY <1>1, <2>1, PrepareRight DEF B!SuccessPath
  <2>2. CASE x.cap.st \in {"EXC_NEUTRAL", "EXC_NEUTRAL_WAIT", "EXC_SINE_START", "EXC_SETTLE",
                           "ADC_DMA_START", "ADC_DMA_WAIT"}
    BY <1>1, <2>2, AcquireRight DEF B!SuccessPath
  <2>3. CASE x.cap.st \in {"ADC_DMA_COMPLETE", "EXC_OFF", "ADC_RELEASE", "AUX_RESTORE", "AUX_RESUME",
                           "RANGE_DISABLE", "QUIET_EXIT", "ANALYZE"}
    BY <1>1, <2>3, ReleaseRight DEF B!SuccessPath
  <2> QED BY <2>1, <2>2, <2>3 DEF Going, Front, B!Active, B!CaptureStates
<1> QED BY <1>1, <1>2, ShutDownRight

(* The workspace given back.                                               *)
LEMMA ReleasedEffect ==
    ASSUME NEW x, BenchShape(x)
    PROVE  LET z == B!Released(x)
           IN  /\ BenchShape(z) /\ z.cap = x.cap /\ z.hw = x.hw /\ z.test = x.test
               /\ z.job.owner # "METROLOGY" /\ z.job.dump = x.job.dump /\ z.job.frame = x.job.frame
               /\ x.job.owner # "METROLOGY" => z = x
<1>1. CASE x.job.owner = "METROLOGY" BY <1>1 DEF B!Released, BenchShape, JobFields
<1>2. CASE x.job.owner # "METROLOGY" BY <1>2 DEF B!Released
<1> QED BY <1>1, <1>2

(* lab_step_metrology_capture: samples are dumped, or the workspace is     *)
(* given back.                                                             *)
LEMMA MetrologyStepRight ==
    ASSUME NEW x, Steady(x), x.cap.st # "ABORT", NEW y \in B!MetrologyStep(x)
    PROVE  Steady(y) /\ y.cap.st # "ABORT"
<1>0. BenchShape(x) /\ Front(x.cap, x.hw) /\ Workspace(x) /\ Tested(x.test) BY DEF Steady
<1>1. CASE x.job.dump
  <2>1. x.job.owner = "METROLOGY" /\ x.cap.st = "DONE" /\ ~x.job.frame
    BY <1>0, <1>1 DEF Workspace, Taken, B!Active
  <2> DEFINE a == [x EXCEPT !.job.dump = FALSE]
             b == B!Rested(a)
             z == B!Released(b)
  <2>2. /\ BenchShape(a) /\ a.cap = x.cap /\ a.hw = x.hw /\ a.test = x.test
        /\ a.job.dump = FALSE /\ a.job.frame = x.job.frame
    BY <1>0 DEF BenchShape, JobFields
  <2>3. y = x \/ y = z BY <1>1 DEF B!MetrologyStep, B!DumpStep
  <2> HIDE DEF a
  <2>4. /\ Apart(a, b) /\ b.hw = a.hw /\ b.cap.st = "IDLE" /\ ~b.cap.restore_failed
        /\ b.cap.quiet_held = a.cap.quiet_held /\ b.cap.adc_owned = a.cap.adc_owned
        /\ b.cap.aux_paused = a.cap.aux_paused
    BY <2>2, RestedEffect
  <2> HIDE DEF b
  <2>5. /\ BenchShape(z) /\ z.cap = b.cap /\ z.hw = b.hw /\ z.test = b.test
        /\ z.job.owner # "METROLOGY" /\ z.job.dump = b.job.dump /\ z.job.frame = b.job.frame
    BY <2>4, ReleasedEffect DEF Apart
  <2> HIDE DEF z
  <2>6. Front(z.cap, z.hw)
    BY <1>0, <2>1, <2>2, <2>4, <2>5
    DEF Front, Sourced, Owning, Pausing, Quieting, B!CaptureStates
  <2>7. Workspace(z) BY <2>1, <2>2, <2>4, <2>5 DEF Apart, Workspace, B!Active
  <2>8. Tested(z.test) BY <1>0, <2>2, <2>4, <2>5 DEF Apart
  <2> QED BY <2>3, <2>4, <2>5, <2>6, <2>7, <2>8 DEF Steady
<1>2. CASE ~x.job.dump /\ B!Active(x)
  <2>1. PICK z \in B!SessionStep(x) : y = B!CaptureOver(z) BY <1>2 DEF B!MetrologyStep
  <2>2. Going(x) BY <1>0, <1>2 DEF Going, Workspace
  <2>3. Going(z) /\ z.test = x.test /\ z.cap.st # "ABORT" BY <1>2, <2>1, <2>2, SessionStepRight
  <2>4. BenchShape(z) /\ Front(z.cap, z.hw) /\ Taken(z) BY <2>3 DEF Going
  <2>5. CASE z.cap.st = "DONE" /\ z.cap.valid
    <3>1. y = [z EXCEPT !.job.dump = TRUE] BY <2>1, <2>5 DEF B!CaptureOver
    <3>2. /\ BenchShape(y) /\ y.cap = z.cap /\ y.hw = z.hw /\ y.test = z.test /\ y.job.dump = TRUE
          /\ y.job.owner = z.job.owner /\ y.job.raw = z.job.raw /\ y.job.frame = z.job.frame
      BY <2>4, <3>1 DEF BenchShape, JobFields
    <3>3. Workspace(y) BY <2>4, <2>5, <3>2 DEF Workspace, Taken, B!Active
    <3> QED BY <1>0, <2>3, <2>4, <3>2, <3>3 DEF Steady
  <2>6. CASE z.cap.st = "DONE" /\ ~z.cap.valid
    <3> DEFINE b == B!Rested(z)
    <3>1. y = B!Released(b) BY <2>1, <2>6 DEF B!CaptureOver
    <3>2. /\ Apart(z, b) /\ b.hw = z.hw /\ b.cap.st = "IDLE" /\ ~b.cap.restore_failed
          /\ b.cap.quiet_held = z.cap.quiet_held /\ b.cap.adc_owned = z.cap.adc_owned
          /\ b.cap.aux_paused = z.cap.aux_paused
      BY <2>4, RestedEffect
    <3> HIDE DEF b
    <3>3. /\ BenchShape(y) /\ y.cap = b.cap /\ y.hw = b.hw /\ y.test = b.test
          /\ y.job.owner # "METROLOGY" /\ y.job.dump = b.job.dump /\ y.job.frame = b.job.frame
      BY <3>1, <3>2, ReleasedEffect DEF Apart
    <3>4. Front(y.cap, y.hw)
      BY <2>4, <2>6, <3>2, <3>3 DEF Front, Sourced, Owning, Pausing, Quieting, B!CaptureStates
    <3>5. Workspace(y) BY <2>4, <3>2, <3>3 DEF Apart, Workspace, Taken, B!Active
    <3> QED BY <1>0, <2>3, <3>2, <3>3, <3>4, <3>5 DEF Steady, Apart
  <2>7. CASE z.cap.st = "IDLE"
    <3>1. y = B!Released(z) BY <2>1, <2>7 DEF B!CaptureOver
    <3>2. /\ BenchShape(y) /\ y.cap = z.cap /\ y.hw = z.hw /\ y.test = z.test
          /\ y.job.owner # "METROLOGY" /\ y.job.dump = z.job.dump /\ y.job.frame = z.job.frame
      BY <2>4, <3>1, ReleasedEffect
    <3>3. Workspace(y) BY <2>4, <2>7, <3>2 DEF Workspace, Taken, B!Active
    <3> QED BY <1>0, <2>3, <2>4, <3>2, <3>3 DEF Steady
  <2>8. CASE z.cap.st \notin {"DONE", "IDLE"}
    <3>1. y = z BY <2>1, <2>8 DEF B!CaptureOver
    <3>2. Workspace(y) BY <2>4, <2>8, <3>1 DEF Workspace, Taken, B!Active
    <3> QED BY <1>0, <2>3, <2>4, <3>1, <3>2 DEF Steady
  <2> QED BY <2>5, <2>6, <2>7, <2>8
<1>3. CASE ~x.job.dump /\ ~B!Active(x) BY <1>3 DEF B!MetrologyStep
<1> QED BY <1>1, <1>2, <1>3

(* The range moves, and is put off while a fault is latched.               *)
LEMMA RangeStepRight ==
    ASSUME NEW x, Steady(x), x.cap.st # "ABORT", NEW y \in B!RangeStep(x)
    PROVE  Steady(y) /\ y.cap.st # "ABORT"
<1>1. PICK z \in B!RangeStepped(x) : y = IF z.hw.range = "INVALID" THEN B!Latched(z, "SAFETY") ELSE z
  BY DEF B!RangeStep
<1>2. Apart(x, z) /\ z.cap = x.cap /\ SameHw(x.hw, z.hw) BY RangeSteppedEffect DEF Steady
<1> DEFINE w == B!Latched(z, "SAFETY")
<1>3. /\ Apart(z, w) /\ w.cap = z.cap /\ w.hw.faults = z.hw.faults \cup {"SAFETY"}
      /\ w.hw.exc = z.hw.exc /\ w.hw.adc = z.hw.adc /\ w.hw.aux = z.hw.aux
  BY <1>2, LatchedEffect DEF Apart
<1>4. y = w \/ y = z BY <1>1
<1> HIDE DEF w
<1>5. /\ Apart(x, y) /\ y.cap = x.cap /\ x.hw.faults \subseteq y.hw.faults
      /\ y.hw.exc = x.hw.exc /\ y.hw.adc = x.hw.adc /\ y.hw.aux = x.hw.aux
  BY <1>2, <1>3, <1>4 DEF Apart, SameHw
<1> QED BY <1>5 DEF Steady, Apart, Front, Workspace, Taken, B!Active
(* The range off does not disturb a capture.                               *)
LEMMA RangeOffRight ==
    ASSUME NEW x, Steady(x), x.cap.st # "ABORT", NEW y \in B!RangeOff(x)
    PROVE  Steady(y) /\ y.cap.st # "ABORT"
<1>1. /\ Apart(x, y) /\ y.cap = x.cap /\ x.hw.faults \subseteq y.hw.faults
      /\ y.hw.exc = x.hw.exc /\ y.hw.adc = x.hw.adc /\ y.hw.aux = x.hw.aux
  BY RangeOffEffect DEF Steady
<1> QED BY <1>1 DEF Steady, Apart, Front, Workspace, Taken, B!Active
(* Nor does the interlock that puts it off.                                *)
LEMMA GuardedRight ==
    ASSUME NEW x, Steady(x), x.cap.st # "ABORT", NEW y \in B!Guarded(x)
    PROVE  Steady(y) /\ y.cap.st # "ABORT"
BY RangeOffRight DEF B!Guarded

(* lab_cal_frame_step                                                      *)
LEMMA FrameStepRight ==
    ASSUME NEW x, Steady(x), x.cap.st # "ABORT", NEW y \in B!FrameStep(x)
    PROVE  Steady(y) /\ y.cap.st # "ABORT"
<1>0. BenchShape(x) /\ Front(x.cap, x.hw) /\ Workspace(x) /\ Tested(x.test) BY DEF Steady
<1> DEFINE z == [x EXCEPT !.job.frame = FALSE, !.job.owner = "FREE", !.job.raw = "OTHER"]
<1>1. y = x \/ (x.job.frame /\ y = z) BY DEF B!FrameStep
<1>2. /\ BenchShape(z) /\ z.cap = x.cap /\ z.hw = x.hw /\ z.test = x.test /\ z.job.owner = "FREE"
      /\ z.job.dump = x.job.dump /\ z.job.frame = FALSE
  BY <1>0 DEF BenchShape, JobFields
<1> HIDE DEF z
<1>3. x.job.frame => Workspace(z) BY <1>0, <1>2 DEF Workspace, Taken, B!Active
<1> QED BY <1>0, <1>1, <1>2, <1>3 DEF Steady
-----------------------------------------------------------------------------
(* y is x but for the self-test and the chip.                              *)
Beside(x, y) == BenchShape(y) /\ y.cap = x.cap /\ y.hw = x.hw /\ y.job = x.job

(* A test that failed says nothing.                                        *)
LEMMA FailedRight ==
    ASSUME NEW x, BenchShape(x)
    PROVE  LET z == B!Failed(x) IN Beside(x, z) /\ Tested(z.test)
<1> DEFINE z == B!Failed(x)
<1>1. Beside(x, z) /\ z.test.st = "ERROR" /\ z.test.busy_observed = FALSE
  BY DEF B!Failed, Beside, BenchShape, TestFields
<1> HIDE DEF z
<1> QED BY <1>1 DEF Tested, z

(* The next state of the test.                                             *)
LEMMA TestToEffect ==
    ASSUME NEW x, BenchShape(x), NEW st
    PROVE  LET z == B!TestTo(x, st)
           IN  /\ Beside(x, z) /\ z.test.st = st /\ z.test.busy_observed = x.test.busy_observed
               /\ z.test.op = x.test.op /\ z.test.chip = x.test.chip
               /\ z.test.sector = x.test.sector /\ z.test.done = x.test.done
BY DEF B!TestTo, Beside, BenchShape, TestFields

(* A command: believed to have been started when it was, or was refused    *)
(* by a bus held quiet, or another is still believed to go on.             *)
LEMMA StartEffect ==
    ASSUME NEW x, BenchShape(x), NEW op, NEW r \in B!Start(x, op)
    PROVE  LET q == x.test
               k == r.x.test
           IN  /\ Beside(x, r.x) /\ k.st = q.st /\ k.done = q.done
               /\ k.busy_observed = q.busy_observed
               /\ r.st = "BUSY" =>
                    \/ r.x = x
                    \/ /\ k.op = op
                       /\ q.chip = "NONE" => k.chip = op /\ k.sector = "BAD"
<1> DEFINE a == B!Reached(x, op)
           b == [a EXCEPT !.test.op = op, !.test.late = FALSE]
<1>1. /\ Beside(x, a) /\ a.test.st = x.test.st /\ a.test.done = x.test.done
      /\ a.test.busy_observed = x.test.busy_observed
      /\ x.test.chip = "NONE" => a.test.chip = op /\ a.test.sector = "BAD"
  <2>1. CASE x.test.chip = "NONE" BY <2>1 DEF B!Reached, Beside, BenchShape, TestFields
  <2>2. CASE x.test.chip # "NONE" BY <2>2 DEF B!Reached, Beside
  <2> QED BY <2>1, <2>2
<1>2. r \in {[st |-> "BUSY", x |-> x], [st |-> "ERROR", x |-> x], [st |-> "ERROR", x |-> a],
             [st |-> "BUSY", x |-> b]}
  BY DEF B!Start
<1> HIDE DEF a
<1>3. /\ Beside(a, b) /\ b.test.st = a.test.st /\ b.test.done = a.test.done
      /\ b.test.busy_observed = a.test.busy_observed /\ b.test.op = op
      /\ b.test.chip = a.test.chip /\ b.test.sector = a.test.sector
  BY <1>1 DEF Beside, BenchShape, TestFields
<1> HIDE DEF b
<1>4. CASE r.st = "BUSY" /\ r.x = x BY <1>4 DEF Beside
<1>5. CASE r.st = "ERROR" /\ r.x = x BY <1>5 DEF Beside
<1>6. CASE r.st = "ERROR" /\ r.x = a BY <1>1, <1>6
<1>7. CASE r.st = "BUSY" /\ r.x = b BY <1>1, <1>3, <1>7 DEF Beside
<1> QED BY <1>2, <1>4, <1>5, <1>6, <1>7

(* A poll: OK means the chip is done with what it was believed to do.      *)
LEMMA PollEffect ==
    ASSUME NEW x, BenchShape(x), NEW r \in B!Poll(x)
    PROVE  LET q == x.test
               k == r.x.test
           IN  /\ Beside(x, r.x) /\ k.st = q.st /\ k.done = q.done
               /\ k.busy_observed = q.busy_observed /\ k.chip = q.chip /\ k.sector = q.sector
               /\ r.st = "BUSY" => r.x = x /\ q.op # "NONE"
               /\ r.st = "OK" => k.op = "NONE" /\ (q.op = "NONE" \/ q.chip = "NONE")
               /\ r.st \in {"OK", "BUSY", "ERROR"} /\ k.op \in {q.op, "NONE"}
<1> DEFINE none == [x EXCEPT !.test.op = "NONE", !.test.late = FALSE]
<1>1. /\ Beside(x, none) /\ none.test.st = x.test.st /\ none.test.done = x.test.done
      /\ none.test.busy_observed = x.test.busy_observed /\ none.test.op = "NONE"
      /\ none.test.chip = x.test.chip /\ none.test.sector = x.test.sector
  BY DEF Beside, BenchShape, TestFields
<1>2. CASE x.test.op = "NONE"
  <2>1. r = [st |-> "OK", x |-> x] BY <1>2 DEF B!Poll
  <2> QED BY <1>2, <2>1 DEF Beside
<1>3. CASE x.test.op # "NONE" /\ x.hw.quiet
  <2>1. r = [st |-> "BUSY", x |-> x] BY <1>3 DEF B!Poll
  <2> QED BY <1>3, <2>1 DEF Beside
<1>4. CASE x.test.op # "NONE" /\ ~x.hw.quiet /\ x.test.chip = "NONE"
  <2>1. r = [st |-> "OK", x |-> none] \/ r = [st |-> "ERROR", x |-> x] BY <1>4 DEF B!Poll
  <2> HIDE DEF none
  <2> QED BY <1>1, <1>4, <2>1 DEF Beside
<1>5. CASE x.test.op # "NONE" /\ ~x.hw.quiet /\ x.test.chip # "NONE"
  <2>1. \/ r = [st |-> "ERROR", x |-> none] \/ r = [st |-> "ERROR", x |-> x]
        \/ r = [st |-> "BUSY", x |-> x]
    BY <1>5 DEF B!Poll
  <2> HIDE DEF none
  <2> QED BY <1>1, <1>5, <2>1 DEF Beside
<1> QED BY <1>2, <1>3, <1>4, <1>5

(* step_flash_selftest                                                     *)
LEMMA StartingRight ==
    ASSUME NEW x, BenchShape(x), Tested(x.test), NEW y,
           \/ x.test.st = "ERASE_START" /\ y \in B!Starting(x, "ERASE", "ERASE_WAIT")
           \/ x.test.st = "PROGRAM_START" /\ y \in B!Starting(x, "PROGRAM", "PROGRAM_WAIT")
           \/ x.test.st = "CLEANUP_START" /\ y \in B!Starting(x, "ERASE", "CLEANUP_WAIT")
    PROVE  Beside(x, y) /\ Tested(y.test)
<1>1. PICK op \in {"ERASE", "PROGRAM"}, st \in {"ERASE_WAIT", "PROGRAM_WAIT", "CLEANUP_WAIT"} :
        /\ y \in B!Starting(x, op, st)
        /\ \/ x.test.st = "ERASE_START" /\ st = "ERASE_WAIT"
           \/ x.test.st = "PROGRAM_START" /\ st = "PROGRAM_WAIT"
           \/ x.test.st = "CLEANUP_START" /\ st = "CLEANUP_WAIT" /\ op = "ERASE"
  OBVIOUS
<1>2. PICK r \in B!Start(x, op) : y = IF r.st = "BUSY" THEN B!TestTo(r.x, st) ELSE B!Failed(r.x)
  BY <1>1 DEF B!Starting
<1>3. /\ Beside(x, r.x) /\ r.x.test.st = x.test.st /\ r.x.test.done = x.test.done
      /\ r.x.test.busy_observed = x.test.busy_observed
      /\ r.st = "BUSY" =>
           \/ r.x = x
           \/ /\ r.x.test.op = op
              /\ x.test.chip = "NONE" => r.x.test.chip = op /\ r.x.test.sector = "BAD"
  BY StartEffect
<1>4. CASE r.st = "BUSY"
  <2>1. y = B!TestTo(r.x, st) BY <1>2, <1>4
  <2>2. /\ Beside(r.x, y) /\ y.test.st = st /\ y.test.busy_observed = r.x.test.busy_observed
        /\ y.test.op = r.x.test.op /\ y.test.chip = r.x.test.chip
        /\ y.test.sector = r.x.test.sector /\ y.test.done = r.x.test.done
    BY <1>3, <2>1, TestToEffect DEF Beside
  <2>3. Tested(y.test) BY <1>1, <1>3, <1>4, <2>2 DEF Tested, B!Waits
  <2> QED BY <1>3, <2>2, <2>3 DEF Beside
<1>5. CASE r.st # "BUSY"
  <2>1. y = B!Failed(r.x) BY <1>2, <1>5
  <2> QED BY <1>3, <2>1, FailedRight DEF Beside
<1> QED BY <1>4, <1>5
(* A wait is over only when the chip was seen busy and then not.           *)
LEMMA WaitedRight ==
    ASSUME NEW x, BenchShape(x), Tested(x.test), x.test.st \in B!Waits, NEW r \in B!Poll(x)
    PROVE  Beside(x, B!Waited(r)) /\ Tested(B!Waited(r).test)
<1> DEFINE y == B!Waited(r)
<1>1. /\ Beside(x, r.x) /\ r.x.test.st = x.test.st /\ r.x.test.done = x.test.done
      /\ r.x.test.busy_observed = x.test.busy_observed /\ r.x.test.chip = x.test.chip
      /\ r.x.test.sector = x.test.sector
      /\ r.st = "BUSY" => r.x = x /\ x.test.op # "NONE"
      /\ r.st = "OK" => r.x.test.op = "NONE" /\ (x.test.op = "NONE" \/ x.test.chip = "NONE")
  BY PollEffect
<1>2. CASE r.st = "BUSY"
  <2>1. y = [r.x EXCEPT !.test.busy_observed = TRUE] BY <1>2 DEF B!Waited
  <2> HIDE DEF y
  <2>2. /\ Beside(x, y) /\ y.test.st = x.test.st /\ y.test.busy_observed = TRUE
        /\ y.test.op = x.test.op /\ y.test.chip = x.test.chip
        /\ y.test.sector = x.test.sector /\ y.test.done = x.test.done
    BY <1>1, <1>2, <2>1 DEF Beside, BenchShape, TestFields
  <2>3. Tested(y.test) BY <1>1, <1>2, <2>2 DEF Tested, B!Waits
  <2> QED BY <2>2, <2>3 DEF y
<1>3. CASE r.st = "OK" /\ r.x.test.busy_observed
  <2> DEFINE st == B!AfterWait(r.x)
             z == B!TestTo(r.x, st)
  <2>1. y = [z EXCEPT !.test.busy_observed = FALSE] BY <1>3 DEF B!Waited
  <2>2. \/ x.test.st = "ERASE_WAIT" /\ st = "VERIFY_ERASE"
        \/ x.test.st = "PROGRAM_WAIT" /\ st = "READBACK"
        \/ x.test.st = "CLEANUP_WAIT" /\ st = "COMPLETE"
    BY <1>1 DEF B!AfterWait, B!Waits
  <2> HIDE DEF st, y
  <2>3. /\ Beside(r.x, z) /\ z.test.st = st /\ z.test.op = r.x.test.op
        /\ z.test.chip = r.x.test.chip /\ z.test.sector = r.x.test.sector
        /\ z.test.done = r.x.test.done
    BY <1>1, TestToEffect DEF Beside
  <2> HIDE DEF z
  <2>4. /\ Beside(x, y) /\ y.test.st = st /\ y.test.busy_observed = FALSE
        /\ y.test.op = z.test.op /\ y.test.chip = z.test.chip
        /\ y.test.sector = z.test.sector /\ y.test.done = z.test.done
    BY <1>1, <2>1, <2>3 DEF Beside, BenchShape, TestFields
  <2>5. x.test.op # "NONE" /\ x.test.chip = "NONE" /\ r.x.test.op = "NONE"
    BY <1>1, <1>3 DEF Tested
  <2>6. Tested(y.test) BY <1>1, <2>2, <2>3, <2>4, <2>5 DEF Tested, B!Waits
  <2> QED BY <2>4, <2>6 DEF y
<1>4. CASE ~(r.st = "BUSY") /\ ~(r.st = "OK" /\ r.x.test.busy_observed)
  <2>1. y = B!Failed(r.x) BY <1>4 DEF B!Waited
  <2> HIDE DEF y
  <2>2. Beside(x, y) /\ Tested(y.test) BY <1>1, <2>1, FailedRight DEF Beside
  <2> QED BY <2>2 DEF y
<1> QED BY <1>2, <1>3, <1>4
(* The sector is looked at: what this test saw is what its place says.     *)
LEMMA VerifiedRight ==
    ASSUME NEW x, BenchShape(x), Tested(x.test), NEW y,
           y \in B!TestStep(x), x.test.st \in {"VERIFY_ERASE", "READBACK"}
    PROVE  Beside(x, y) /\ Tested(y.test)
<1> DEFINE content == IF x.test.st = "VERIFY_ERASE" THEN "ERASED" ELSE "PATTERN"
           st == IF x.test.st = "VERIFY_ERASE" THEN "PROGRAM_START" ELSE "CLEANUP_START"
           found == ~x.hw.quiet /\ x.test.sector = content
           done == IF ~found THEN x.test.done
                   ELSE IF x.test.st = "VERIFY_ERASE" THEN {"ERASE"} ELSE x.test.done \cup {"PROGRAM"}
           z == [x EXCEPT !.test.done = done]
           to == B!TestTo(z, st)
           fails == B!Failed(z)
<1>1. y \in B!Verified(z, content, st)
  <2>1. CASE x.test.st = "VERIFY_ERASE" BY <2>1 DEF B!TestStep, B!Waits
  <2>2. CASE x.test.st = "READBACK" BY <2>2 DEF B!TestStep, B!Waits
  <2> QED BY <2>1, <2>2
<1>2. Beside(x, z) /\ z.test.st = x.test.st /\ z.test.busy_observed = x.test.busy_observed
      /\ z.test.op = x.test.op /\ z.test.chip = x.test.chip /\ z.test.sector = x.test.sector
      /\ z.test.done = done
  <2> HIDE DEF done
  <2> QED BY DEF Beside, BenchShape, TestFields
<1> HIDE DEF z
<1>3. y = fails \/ (found /\ y = to) BY <1>1, <1>2 DEF B!Verified, Beside
<1>4. Beside(z, fails) /\ Tested(fails.test) BY <1>2, FailedRight DEF Beside
<1>5. /\ Beside(z, to) /\ to.test.st = st /\ to.test.busy_observed = z.test.busy_observed
      /\ to.test.op = z.test.op /\ to.test.chip = z.test.chip
      /\ to.test.sector = z.test.sector /\ to.test.done = z.test.done
  BY <1>2, TestToEffect DEF Beside
<1> HIDE DEF to, fails
<1>6. CASE y = fails BY <1>2, <1>4, <1>6 DEF Beside
<1>7. CASE found /\ y = to
  <2>1. x.test.op = "NONE" /\ x.test.chip = "NONE" /\ x.test.busy_observed = z.test.busy_observed
    BY <1>2 DEF Tested
  <2>2. ~x.test.busy_observed BY DEF Tested, B!Waits
  <2>3. done = IF x.test.st = "VERIFY_ERASE" THEN {"ERASE"} ELSE {"ERASE", "PROGRAM"}
    BY <1>7 DEF Tested
  <2> HIDE DEF done
  <2>4. Tested(to.test) BY <1>2, <1>5, <2>1, <2>2, <2>3 DEF Tested, B!Waits
  <2> QED BY <1>2, <1>5, <1>7, <2>4 DEF Beside
<1> QED BY <1>3, <1>6, <1>7
(* A step of the self-test.                                                *)
LEMMA TestStepRight ==
    ASSUME NEW x, Steady(x), x.cap.st # "ABORT", NEW y \in B!TestStep(x)
    PROVE  Steady(y) /\ y.cap.st # "ABORT"
<1>0. BenchShape(x) /\ Tested(x.test) BY DEF Steady
<1>1. Beside(x, y) /\ Tested(y.test)
  <2>1. CASE x.test.st \in {"ERASE_START", "PROGRAM_START", "CLEANUP_START"}
    <3>1. \/ x.test.st = "ERASE_START" /\ y \in B!Starting(x, "ERASE", "ERASE_WAIT")
          \/ x.test.st = "PROGRAM_START" /\ y \in B!Starting(x, "PROGRAM", "PROGRAM_WAIT")
          \/ x.test.st = "CLEANUP_START" /\ y \in B!Starting(x, "ERASE", "CLEANUP_WAIT")
      BY <2>1 DEF B!TestStep, B!Waits
    <3> QED BY <1>0, <3>1, StartingRight
  <2>2. CASE x.test.st \in B!Waits
    <3>1. PICK r \in B!Poll(x) : y = B!Waited(r) BY <2>2 DEF B!TestStep, B!Waits
    <3> QED BY <1>0, <2>2, <3>1, WaitedRight
  <2>3. CASE x.test.st \in {"VERIFY_ERASE", "READBACK"} BY <1>0, <2>3, VerifiedRight
  <2>4. CASE x.test.st \notin {"ERASE_START", "PROGRAM_START", "CLEANUP_START", "VERIFY_ERASE",
                               "READBACK"} \cup B!Waits
    <3>1. y = x BY <2>4 DEF B!TestStep, B!Waits
    <3> QED BY <1>0, <3>1 DEF Beside
  <2> QED BY <2>1, <2>2, <2>3, <2>4
<1> QED BY <1>1 DEF Beside, Steady, Workspace, Taken, B!Active
-----------------------------------------------------------------------------
(* What the operator types.                                                *)
LEMMA CaptureRight ==
    ASSUME NEW x, Steady(x), x.cap.st # "ABORT", ~x.job.frame, NEW y \in B!Capture(x)
    PROVE  Steady(y) /\ y.cap.st # "ABORT"
<1>0. BenchShape(x) /\ Front(x.cap, x.hw) /\ Workspace(x) /\ Tested(x.test) BY DEF Steady
<1> DEFINE z == B!To(x, "FORCE_K1_SAFE")
           w == [z EXCEPT !.job.owner = "METROLOGY", !.cap.restore_failed = FALSE,
                          !.cap.valid = FALSE, !.cap.dma_complete = FALSE]
<1>1. y = x \/ (y = w /\ ~B!MetrologyBusy(x)) BY DEF B!Capture
<1>2. CASE y = w /\ ~B!MetrologyBusy(x)
  <2>1. x.cap.st = "IDLE" /\ ~x.job.dump /\ ~x.job.frame BY <1>2 DEF B!MetrologyBusy
  <2>2. /\ Apart(x, z) /\ z.hw = x.hw /\ z.cap.st = "FORCE_K1_SAFE" /\ SameHolds(x.cap, z.cap)
    BY <1>0, ToEffect
  <2> HIDE DEF z
  <2>3. /\ BenchShape(w) /\ w.hw = z.hw /\ w.test = z.test /\ w.cap.st = z.cap.st
        /\ w.cap.quiet_held = z.cap.quiet_held /\ w.cap.aux_paused = z.cap.aux_paused
        /\ w.cap.adc_owned = z.cap.adc_owned /\ w.cap.restore_failed = FALSE
        /\ w.job.owner = "METROLOGY" /\ w.job.dump = z.job.dump /\ w.job.frame = z.job.frame
    BY <2>2 DEF Apart, BenchShape, CapFields, JobFields
  <2> HIDE DEF w
  <2>4. Front(w.cap, w.hw)
    BY <1>0, <2>1, <2>2, <2>3
    DEF SameHolds, Front, Sourced, Owning, Pausing, Quieting, B!CaptureStates
  <2>5. Workspace(w) BY <2>1, <2>2, <2>3 DEF Apart, Workspace, Taken, WithSamples, B!Active
  <2> QED BY <1>0, <1>2, <2>2, <2>3, <2>4, <2>5 DEF Steady, Apart
<1> QED BY <1>1, <1>2
(* The range by hand.                                                      *)
LEMMA RangeRight ==
    ASSUME NEW x, Steady(x), x.cap.st # "ABORT", NEW y \in B!Range(x)
    PROVE  Steady(y) /\ y.cap.st # "ABORT"
<1> DEFINE moving == [x EXCEPT !.hw.range = "MOVING"]
           failed == B!RangeFails(x)
<1>1. y = moving \/ y = failed BY DEF B!Range
<1>2. Apart(x, moving) /\ moving.cap = x.cap /\ SameHw(x.hw, moving.hw) BY RangeEffect DEF Steady
<1>3. /\ Apart(x, failed) /\ failed.cap = x.cap /\ failed.hw.faults = x.hw.faults \cup {"SAFETY"}
      /\ failed.hw.exc = x.hw.exc /\ failed.hw.adc = x.hw.adc /\ failed.hw.aux = x.hw.aux
  BY RangeFailsEffect DEF Steady
<1> HIDE DEF moving, failed
<1>4. /\ Apart(x, y) /\ y.cap = x.cap /\ x.hw.faults \subseteq y.hw.faults
      /\ y.hw.exc = x.hw.exc /\ y.hw.adc = x.hw.adc /\ y.hw.aux = x.hw.aux
  BY <1>1, <1>2, <1>3 DEF SameHw
<1> QED BY <1>4 DEF Steady, Apart, Front, Workspace, Taken, B!Active
(* The bus is made quiet or not, also behind a capture's back.             *)
LEMMA QuietRight ==
    ASSUME NEW x, Steady(x), x.cap.st # "ABORT", NEW quiet
    PROVE  LET y == [x EXCEPT !.hw.quiet = quiet] IN Steady(y) /\ y.cap.st # "ABORT"
<1> DEFINE y == [x EXCEPT !.hw.quiet = quiet]
<1>1. Apart(x, y) /\ y.cap = x.cap /\ SameHw(x.hw, y.hw)
  BY DEF Steady, Apart, SameHw, BenchShape, HwFields
<1> HIDE DEF y
<1>2. Steady(y) /\ y.cap.st # "ABORT"
  BY <1>1 DEF Steady, Apart, SameHw, Front, Workspace, Taken, B!Active
<1> QED BY <1>2 DEF y
(* A self-test begins.                                                     *)
LEMMA SelfTestRight ==
    ASSUME NEW x, Steady(x), x.cap.st # "ABORT", NEW y \in B!SelfTest(x)
    PROVE  Steady(y) /\ y.cap.st # "ABORT"
<1> DEFINE z == B!TestTo(x, "ERASE_START")
           w == [z EXCEPT !.test.busy_observed = FALSE, !.test.done = {}]
<1>1. y = x \/ y = w BY DEF B!SelfTest
<1>2. Beside(x, z) /\ z.test.st = "ERASE_START" BY TestToEffect DEF Steady
<1> HIDE DEF z
<1>3. Beside(z, w) /\ w.test.st = z.test.st /\ w.test.busy_observed = FALSE /\ w.test.done = {}
  BY <1>2 DEF Beside, BenchShape, TestFields
<1> HIDE DEF w
<1>4. Tested(w.test) BY <1>2, <1>3 DEF Tested
<1> QED BY <1>1, <1>2, <1>3, <1>4 DEF Steady, Beside, Workspace, Taken, B!Active
(* A calibration frame takes a workspace that is free.                     *)
LEMMA CalFrameRight ==
    ASSUME NEW x, Steady(x), x.cap.st # "ABORT", NEW y \in B!CalFrame(x)
    PROVE  Steady(y) /\ y.cap.st # "ABORT"
<1>0. BenchShape(x) /\ Front(x.cap, x.hw) /\ Workspace(x) /\ Tested(x.test) BY DEF Steady
<1> DEFINE z == [x EXCEPT !.job.raw = "FRAME", !.job.owner = "STORE", !.job.frame = TRUE]
<1>1. y = x \/ (y = z /\ ~B!MetrologyBusy(x)) BY DEF B!CalFrame
<1>2. /\ BenchShape(z) /\ z.cap = x.cap /\ z.hw = x.hw /\ z.test = x.test /\ z.job.raw = "FRAME"
      /\ z.job.owner = "STORE" /\ z.job.dump = x.job.dump
  BY <1>0 DEF BenchShape, JobFields
<1> HIDE DEF z
<1>3. ~B!MetrologyBusy(x) => Workspace(z)
  BY <1>0, <1>2 DEF B!MetrologyBusy, Workspace, Taken, B!Active
<1> QED BY <1>0, <1>1, <1>2, <1>3 DEF Steady
(* Any command.                                                            *)
LEMMA CommandRight ==
    ASSUME NEW x, Steady(x), x.cap.st # "ABORT", NEW c \in B!Commands, NEW y \in B!Command(x, c)
    PROVE  Steady(y) /\ y.cap.st # "ABORT"
<1>1. CASE x.job.frame BY <1>1 DEF B!Command
<1>2. CASE ~x.job.frame /\ c = "capture" BY <1>2, CaptureRight DEF B!Command
<1>3. CASE ~x.job.frame /\ c = "range" BY <1>3, RangeRight DEF B!Command
<1>4. CASE ~x.job.frame /\ c = "range off" BY <1>4, RangeOffRight DEF B!Command
<1>5. CASE ~x.job.frame /\ c = "quiet on"
  <2> DEFINE z == [x EXCEPT !.hw.quiet = TRUE]
  <2>1. y = x \/ y = z BY <1>5 DEF B!Command, B!QuietOn
  <2>2. Steady(z) /\ z.cap.st # "ABORT" BY QuietRight
  <2> HIDE DEF z
  <2> QED BY <2>1, <2>2
<1>6. CASE ~x.job.frame /\ c = "quiet off"
  <2>1. y = [x EXCEPT !.hw.quiet = FALSE] BY <1>6 DEF B!Command
  <2> QED BY <2>1, QuietRight
<1>7. CASE ~x.job.frame /\ c = "selftest" BY <1>7, SelfTestRight DEF B!Command
<1>8. CASE ~x.job.frame /\ c = "cal frame" BY <1>8, CalFrameRight DEF B!Command
<1> QED BY <1>1, <1>2, <1>3, <1>4, <1>5, <1>6, <1>7, <1>8 DEF B!Commands
-----------------------------------------------------------------------------
(* What the state becomes is what the pass leaves.                         *)
LEMMA BecomesRight ==
    ASSUME NEW y, B!Becomes(y), Steady(y), y.cap.st # "ABORT"
    PROVE  BenchInv'
<1>1. cap' = y.cap /\ hw' = y.hw /\ job' = y.job /\ test' = y.test BY DEF B!Becomes
<1> DEFINE h == [cap |-> cap', hw |-> hw', job |-> job', test |-> test']
<1>2. /\ h.cap = y.cap /\ h.hw = y.hw /\ h.job = y.job /\ h.test = y.test
      /\ {"cap", "hw", "job", "test"} \subseteq DOMAIN h
  BY <1>1
<1> HIDE DEF h
<1>3. Steady(h) BY <1>2 DEF Steady, BenchShape, Workspace, Taken, B!Active
<1>4. (B!Here)' = h BY DEF B!Here, h
<1> QED BY <1>1, <1>3, <1>4 DEF BenchInv, Steady, BenchShape, Workspace, Taken, B!Active

(* A pass of the main loop (app_step), one call after the other.           *)
LEMMA PassSplit ==
    ASSUME NEW x, NEW y \in B!PassOf(x)
    PROVE  \E a \in B!RangeStep(x) : \E b \in B!Guarded(a) : \E c \in B!MetrologyStep(b) :
              \E d \in B!TestStep(c) : y \in B!FrameStep(d)
<1> DEFINE s1 == UNION {B!RangeStep(u) : u \in {x}}
           s2 == UNION {B!Guarded(u) : u \in s1}
           s3 == UNION {B!MetrologyStep(u) : u \in s2}
           s4 == UNION {B!TestStep(u) : u \in s3}
           s5 == UNION {B!FrameStep(u) : u \in s4}
<1>1. B!PassOf(x) = s5 BY DEF B!PassOf, B!Through
<1> QED BY <1>1
(* The calls in their order.                                               *)
LEMMA BenchPassRight == BenchInv /\ B!Pass => BenchInv'
<1> SUFFICES ASSUME BenchInv, B!Pass PROVE BenchInv' OBVIOUS
<1> DEFINE x == B!Here
<1>1. Steady(x) /\ x.cap.st # "ABORT" BY DEF BenchInv, B!Here
<1>2. PICK y \in B!PassOf(x) : B!Becomes(y) BY DEF B!Pass
<1> HIDE DEF x
<1>3. PICK a \in B!RangeStep(x) : \E b \in B!Guarded(a) : \E c \in B!MetrologyStep(b) :
              \E d \in B!TestStep(c) : y \in B!FrameStep(d)
  BY PassSplit
<1>4. PICK b \in B!Guarded(a) : \E c \in B!MetrologyStep(b) :
              \E d \in B!TestStep(c) : y \in B!FrameStep(d)
  BY <1>3
<1>5. PICK c \in B!MetrologyStep(b) : \E d \in B!TestStep(c) : y \in B!FrameStep(d) BY <1>4
<1>6. PICK d \in B!TestStep(c) : y \in B!FrameStep(d) BY <1>5
<1>7. Steady(a) /\ a.cap.st # "ABORT" BY <1>1, RangeStepRight
<1>8. Steady(b) /\ b.cap.st # "ABORT" BY <1>7, GuardedRight
<1>9. Steady(c) /\ c.cap.st # "ABORT" BY <1>8, MetrologyStepRight
<1>10. Steady(d) /\ d.cap.st # "ABORT" BY <1>9, TestStepRight
<1>11. Steady(y) /\ y.cap.st # "ABORT" BY <1>6, <1>10, FrameStepRight
<1> QED BY <1>2, <1>11, BecomesRight

(* A command, the poll of the flash, and what time does.                   *)
LEMMA BenchNextRight == BenchInv /\ [B!Next]_bench => BenchInv'
<1> SUFFICES ASSUME BenchInv, [B!Next]_bench PROVE BenchInv' OBVIOUS
<1> DEFINE x == B!Here
<1>0. /\ Steady(x) /\ x.cap.st # "ABORT" /\ x.cap = cap /\ x.hw = hw /\ x.job = job /\ x.test = test
  BY DEF BenchInv, B!Here
<1>1. CASE B!Pass BY <1>1, BenchPassRight
<1>2. ASSUME NEW c \in B!Commands, B!Type(c) PROVE BenchInv'
  <2>1. PICK y \in B!Command(x, c) : B!Becomes(y) BY <1>2 DEF B!Type
  <2> HIDE DEF x
  <2> QED BY <1>0, <2>1, CommandRight, BecomesRight
<1>3. CASE B!FlashPoll
  <2>1. PICK r \in B!Poll(x) : B!Becomes(r.x) BY <1>3 DEF B!FlashPoll
  <2>2. ~B!FlashBusy(x) BY <1>3 DEF B!FlashPoll
  <2> HIDE DEF x
  <2> DEFINE y == r.x
  <2>3. BenchShape(x) /\ Tested(x.test) BY <1>0 DEF Steady
  <2>4. /\ Beside(x, y) /\ y.test.st = x.test.st /\ y.test.done = x.test.done
        /\ y.test.busy_observed = x.test.busy_observed /\ y.test.chip = x.test.chip
        /\ y.test.sector = x.test.sector /\ y.test.op \in {x.test.op, "NONE"}
    BY <2>3, PollEffect
  <2> HIDE DEF y
  <2>5. Tested(y.test) BY <2>2, <2>3, <2>4 DEF B!FlashBusy, Tested, B!Waits
  <2>6. Steady(y) /\ y.cap.st # "ABORT"
    BY <1>0, <2>4, <2>5 DEF Beside, Steady, Workspace, Taken, B!Active
  <2> QED BY <2>1, <2>6, BecomesRight DEF y
<1>4. CASE B!CaptureLate
  <2>1. cap' = [cap EXCEPT !.late = TRUE] /\ hw' = hw /\ job' = job /\ test' = test
    BY <1>4 DEF B!CaptureLate
  <2>2. CapFields \subseteq DOMAIN cap BY <1>0 DEF Steady, BenchShape
  <2> DEFINE c == [cap EXCEPT !.late = TRUE]
             y == [cap |-> c, hw |-> hw, job |-> job, test |-> test]
  <2>3. /\ c.st = cap.st /\ SameHolds(cap, c) /\ c.valid = cap.valid /\ CapFields \subseteq DOMAIN c
    BY <2>2 DEF SameHolds, CapFields
  <2> HIDE DEF c
  <2>4. B!Becomes(y) BY <2>1 DEF B!Becomes, c
  <2>5. y.cap = c /\ y.hw = hw /\ y.job = job /\ y.test = test
        /\ {"cap", "hw", "job", "test"} \subseteq DOMAIN y
    OBVIOUS
  <2> HIDE DEF x, y
  <2>6. Steady(y) /\ y.cap.st # "ABORT"
    BY <1>0, <2>3, <2>5 DEF Steady, BenchShape, SameHolds, Front, Workspace, Taken, B!Active
  <2> QED BY <2>4, <2>6, BecomesRight
<1>5. CASE B!ChipLate \/ B!Finish
  <2>1. cap' = cap /\ hw' = hw /\ job' = job BY <1>5 DEF B!ChipLate, B!Finish
  <2>2. TestFields \subseteq DOMAIN test /\ Tested(test) BY <1>0 DEF Steady, BenchShape
  <2>3. TestFields \subseteq DOMAIN test' /\ Tested(test')
    <3>1. CASE B!ChipLate
      <4>1. test' = [test EXCEPT !.late = TRUE] BY <3>1 DEF B!ChipLate
      <4>2. /\ TestFields \subseteq DOMAIN test' /\ test'.st = test.st /\ test'.op = test.op
            /\ test'.busy_observed = test.busy_observed /\ test'.chip = test.chip
            /\ test'.sector = test.sector /\ test'.done = test.done
        BY <2>2, <4>1 DEF TestFields
      <4> QED BY <2>2, <4>2 DEF Tested
    <3>2. CASE B!Finish
      <4>1. PICK content \in {"BAD", IF test.chip = "ERASE" THEN "ERASED" ELSE "PATTERN"} :
              test' = [test EXCEPT !.chip = "NONE", !.sector = content]
        BY <3>2 DEF B!Finish
      <4>2. test.chip # "NONE" BY <3>2 DEF B!Finish
      <4>3. /\ TestFields \subseteq DOMAIN test' /\ test'.st = test.st /\ test'.op = test.op
            /\ test'.busy_observed = test.busy_observed /\ test'.chip = "NONE"
            /\ test'.sector = content /\ test'.done = test.done
        BY <2>2, <4>1 DEF TestFields
      <4> QED BY <2>2, <4>1, <4>2, <4>3 DEF Tested
    <3> QED BY <1>5, <3>1, <3>2
  <2> DEFINE y == [cap |-> cap, hw |-> hw, job |-> job, test |-> test']
  <2>4. B!Becomes(y) BY <2>1 DEF B!Becomes
  <2>5. y.cap = cap /\ y.hw = hw /\ y.job = job /\ y.test = test'
        /\ {"cap", "hw", "job", "test"} \subseteq DOMAIN y
    OBVIOUS
  <2> HIDE DEF x, y
  <2>6. Steady(y) /\ y.cap.st # "ABORT"
    BY <1>0, <2>3, <2>5 DEF Steady, BenchShape, Workspace, Taken, B!Active
  <2> QED BY <2>4, <2>6, BecomesRight
<1>6. CASE UNCHANGED bench
  BY <1>6 DEF bench, BenchInv, Steady, BenchShape, Front, Workspace, Taken, Tested, B!Active, B!Here
<1> QED BY <1>1, <1>2, <1>3, <1>4, <1>5, <1>6 DEF B!Next

(* What must hold of the bench follows.                                    *)
LEMMA BenchInvHonest == BenchInv => BenchHonest
<1> SUFFICES ASSUME BenchInv PROVE BenchHonest OBVIOUS
<1>1. /\ Front(cap, hw) /\ Tested(test) /\ cap.st # "ABORT"
      /\ Workspace([cap |-> cap, hw |-> hw, job |-> job, test |-> test])
  BY DEF BenchInv, Steady, B!Here
<1>2. B!LeftSafe
  <2> SUFFICES ASSUME cap.st \in {"IDLE", "DONE"}
               PROVE  /\ hw.exc = "OFF" \/ "METROLOGY" \in hw.faults
                      /\ (hw.aux = "RUN" /\ hw.adc = "AUX") \/ "ADC" \in hw.faults
                      /\ hw.adc # "SAMPLING" /\ ~cap.quiet_held
                      /\ job.owner = "METROLOGY" => job.dump
    BY DEF B!LeftSafe, B!Active, B!Here
  <2>1. job.owner = "METROLOGY" => job.dump BY <1>1 DEF Workspace
  <2> QED BY <1>1, <2>1 DEF Front, Sourced, Owning, Pausing, Quieting
<1>3. B!SentIsWhole BY <1>1 DEF Workspace, B!SentIsWhole
<1>4. B!PassIsHonest BY <1>1 DEF Tested, B!PassIsHonest
<1> QED BY <1>2, <1>3, <1>4 DEF BenchHonest

(* Whatever call of the hardware fails, and wherever: when no capture of   *)
(* the bench is under way nothing is left on or held that no latched fault *)
(* tells of, what is sent of the workspace is whole, and the self-test     *)
(* says PASS only when it earned it (app_bringup_console.c,                *)
(* hw_metrology_session.c, w25q_device.c).                                 *)
THEOREM BenchIsHonest == FailuresSpec => []BenchHonest
<1>1. FailuresInit => BenchInv BY BenchInitRight DEF FailuresInit
<1>2. BenchInv /\ [FailuresNext]_<<which, vars, bench, buttons, tones>> => BenchInv'
  <2> SUFFICES ASSUME BenchInv, [FailuresNext]_<<which, vars, bench, buttons, tones>>
               PROVE  BenchInv'
    OBVIOUS
  <2>1. [B!Next]_bench
    BY DEF FailuresNext, OfProduct, OfBench, OfButtons, OfTones
  <2> QED BY <2>1, BenchNextRight
<1>3. BenchInv => BenchHonest BY BenchInvHonest
<1> QED BY <1>1, <1>2, <1>3, PTL DEF FailuresSpec

(***************************************************************************)
(* The tones.                                                              *)
(***************************************************************************)
(* Feedback and policy, as far as the melodies need them.                  *)
Melodies ==
    [queue : Seq(T!Events), phase : Nat, active : BOOLEAN, due : Nat,
     retrying : BOOLEAN, retry : Nat]
Buzzers == [enabled : BOOLEAN, active : BOOLEAN, quiet : BOOLEAN, stop : Nat]

(* A melody that was begun is marked active and has no more notes behind   *)
(* it than it has; no note was refused.                                    *)
Begun(f) ==
    /\ ~f.retrying
    /\ f.phase > 0 => f.active /\ f.queue # <<>> /\ f.phase <= T!Notes(Head(f.queue))

(* What sounds is what the policy has active, under the quiet in force.    *)
Fit(x) ==
    /\ x \in [f : Melodies, p : Buzzers, on : BOOLEAN]
    /\ Begun(x.f)
    /\ x.p.quiet = hush /\ hush \in BOOLEAN
    /\ x.on => x.p.active /\ ~x.p.quiet /\ x.p.enabled

TonesInv ==
    /\ Fit([f |-> feedback, p |-> policy, on |-> timer])
    /\ mail \in [event : T!Events \cup {T!NONE}, new : BOOLEAN]
    /\ mail.new => mail.event \in T!Events
    /\ sound \in BOOLEAN

(* The melody that plays is still the first, at the same note.             *)
Keeps(f, g) ==
    f.queue # <<>> /\ f.phase > 0 =>
        g.queue # <<>> /\ Head(g.queue) = Head(f.queue) /\ g.phase = f.phase
(* Or it was whole, or may be cut.                                         *)
Spares(f, g) ==
    f.queue # <<>> /\ f.phase > 0 =>
        \/ g.queue # <<>> /\ Head(g.queue) = Head(f.queue)
        \/ f.phase = T!Notes(Head(f.queue)) \/ hush \/ ~sound

(* The first of some of the places in a queue.                             *)
LEMMA FirstOf ==
    ASSUME NEW P \in SUBSET Nat, P # {}
    PROVE  (CHOOSE i \in P : \A j \in P : i <= j) \in P
<1>1. PICK least \in P : \A i \in P : ~ (<<i, least>> \in OpToRel(<, Nat))
  BY NatLessThanWellFounded, WFMin
<1>2. ASSUME NEW i \in P PROVE least <= i
  <2>1. i \in Nat /\ least \in Nat OBVIOUS
  <2>2. SUFFICES ASSUME i < least PROVE FALSE BY <2>1
  <2>3. <<i, least>> \in OpToRel(<, Nat) BY <2>1, <2>2 DEF OpToRel
  <2> QED BY <1>1, <2>3
<1> QED BY <1>2

(* hw_buzzer_set_enabled: what is disabled stops.                          *)
LEMMA EnabledFit ==
    ASSUME NEW x, Fit(x), sound \in BOOLEAN, NEW y, y = T!Enabled(x)
    PROVE  Fit(y) /\ y.f = x.f
<1>1. CASE output.valid /\ output.enabled = sound BY <1>1 DEF T!Enabled
<1>2. CASE ~(output.valid /\ output.enabled = sound)
  <2> DEFINE p == [x.p EXCEPT !.enabled = sound, !.active = @ /\ sound]
  <2>1. y = [x EXCEPT !.p = p, !.on = @ /\ p.active] BY <1>2 DEF T!Enabled
  <2>2. /\ p \in Buzzers /\ p.quiet = x.p.quiet /\ p.enabled = sound
        /\ p.active = (x.p.active /\ sound)
    BY DEF Fit, Buzzers
  <2> HIDE DEF p
  <2>3. y.f = x.f /\ y.p = p /\ y.on = (x.on /\ p.active)
        /\ y \in [f : Melodies, p : Buzzers, on : BOOLEAN]
    BY <2>1, <2>2 DEF Fit, Buzzers
  <2> QED BY <2>2, <2>3 DEF Fit, Buzzers
<1> QED BY <1>1, <1>2

(* The fields of a record of feedback, and of one that is fit.             *)
LEMMA MelodyFields ==
    ASSUME NEW f \in Melodies
    PROVE  /\ f.queue \in Seq(T!Events) /\ f.phase \in Nat /\ f.active \in BOOLEAN
           /\ f.due \in Nat /\ f.retrying \in BOOLEAN /\ f.retry \in Nat
BY DEF Melodies

(* The notes of an event.                                                  *)
LEMMA NotesCounted ==
    ASSUME NEW e \in T!Events PROVE T!Notes(e) \in Nat /\ T!Notes(e) > 0
BY DEF T!Notes, T!Events, T!FAULT, T!COMPLETE

(* A queue one of whose places is given to another event.                  *)
LEMMA ReplacedQueue ==
    ASSUME NEW q \in Seq(T!Events), NEW i \in DOMAIN q, NEW e \in T!Events
    PROVE  /\ [q EXCEPT ![i] = e] \in Seq(T!Events)
           /\ [q EXCEPT ![i] = e] # <<>> /\ q # <<>>
           /\ i # 1 => Head([q EXCEPT ![i] = e]) = Head(q)
<1>1. Len(q) \in Nat /\ DOMAIN q = 1 .. Len(q) /\ \A j \in 1 .. Len(q) : q[j] \in T!Events
  BY ElementOfSeq, LenProperties
<1>2. [q EXCEPT ![i] = e] \in [1 .. Len(q) -> T!Events] BY <1>1
<1>3. [q EXCEPT ![i] = e] \in Seq(T!Events) BY <1>1, <1>2, SeqDef
<1>4. Len([q EXCEPT ![i] = e]) = Len(q) BY <1>1, <1>2, <1>3
<1>5. [q EXCEPT ![i] = e] # <<>> /\ q # <<>> BY <1>1, <1>2, <1>3, <1>4
<1>6. i # 1 => [q EXCEPT ![i] = e][1] = q[1] BY <1>1, <1>5
<1> QED BY <1>3, <1>5, <1>6, HeadTailProperties

(* app_feedback_request: what plays keeps its place, whatever comes.       *)
LEMMA RequestedKeeps ==
    ASSUME NEW f \in Melodies, Begun(f), NEW e \in T!Events, NEW g, g = T!Requested(f, e)
    PROVE  g \in Melodies /\ Begun(g) /\ Keeps(f, g)
<1> USE MelodyFields
<1>1. CASE T!Waits(f, e) \/ (~Len(f.queue) < QueueCapacity /\ T!Lower(f, e) = {})
  BY <1>1 DEF T!Requested, Keeps
<1>2. CASE ~T!Waits(f, e) /\ Len(f.queue) < QueueCapacity
  <2>1. g = [f EXCEPT !.queue = Append(@, e)] BY <1>2 DEF T!Requested
  <2>2. /\ Append(f.queue, e) \in Seq(T!Events) /\ Append(f.queue, e) # <<>>
        /\ f.queue # <<>> => Head(Append(f.queue, e)) = Head(f.queue)
    BY AppendProperties, HeadTailProperties
  <2>3. /\ g \in Melodies /\ g.queue = Append(f.queue, e) /\ g.phase = f.phase
        /\ g.active = f.active /\ g.retrying = f.retrying
    BY <2>1, <2>2 DEF Melodies
  <2> QED BY <2>2, <2>3 DEF Begun, Keeps
<1>3. CASE ~T!Waits(f, e) /\ ~Len(f.queue) < QueueCapacity /\ T!Lower(f, e) # {}
  <2> DEFINE i == CHOOSE i \in T!Lower(f, e) : \A j \in T!Lower(f, e) : i <= j
  <2>1. g = T!Replaced(f, e, i) BY <1>3 DEF T!Requested
  <2>2. T!Lower(f, e) \in SUBSET Nat BY DEF T!Lower
  <2>3. i \in T!Lower(f, e) BY <1>3, <2>2, FirstOf
  <2> HIDE DEF i
  <2>4. i \in DOMAIN f.queue /\ (f.active => i > 1) BY <2>3 DEF T!Lower
  <2> DEFINE q == [f.queue EXCEPT ![i] = e]
  <2>5. /\ q \in Seq(T!Events) /\ q # <<>> /\ f.queue # <<>>
        /\ i # 1 => Head(q) = Head(f.queue)
    BY <2>4, ReplacedQueue
  <2>6. g = [f EXCEPT !.queue = q, !.phase = IF i = 1 THEN 0 ELSE @, !.retrying = @ /\ i # 1]
    BY <2>1 DEF T!Replaced
  <2> HIDE DEF q
  <2>7. /\ g \in Melodies /\ g.queue = q /\ g.phase = (IF i = 1 THEN 0 ELSE f.phase)
        /\ g.active = f.active /\ g.retrying = (f.retrying /\ i # 1)
    <3> DEFINE phase == IF i = 1 THEN 0 ELSE f.phase
               retrying == f.retrying /\ i # 1
    <3>1. phase \in Nat /\ retrying \in BOOLEAN OBVIOUS
    <3>2. g = [f EXCEPT !.queue = q, !.phase = phase, !.retrying = retrying] BY <2>6
    <3> HIDE DEF phase, retrying
    <3>3. /\ g \in Melodies /\ g.queue = q /\ g.phase = phase
          /\ g.active = f.active /\ g.retrying = retrying
      BY <2>5, <3>1, <3>2 DEF Melodies
    <3> QED BY <3>3 DEF phase, retrying
  <2>8. f.active => i # 1 BY <2>4
  <2> QED BY <2>5, <2>7, <2>8 DEF Begun, Keeps
<1> QED BY <1>1, <1>2, <1>3

(* product_apply_outputs: an event is taken from the mailbox.              *)
LEMMA ReceivedFit ==
    ASSUME NEW x, Fit(x), mail.new => mail.event \in T!Events, NEW y, y = T!Received(x)
    PROVE  Fit(y) /\ Keeps(x.f, y.f)
<1>1. CASE T!Taken /\ sound /\ ~hush
  <2> DEFINE g == T!Requested(x.f, mail.event)
  <2>1. y = [x EXCEPT !.f = g] BY <1>1 DEF T!Received
  <2>2. g \in Melodies /\ Begun(g) /\ Keeps(x.f, g)
    BY <1>1, RequestedKeeps DEF T!Taken, Fit
  <2> HIDE DEF g
  <2>3. y \in [f : Melodies, p : Buzzers, on : BOOLEAN] /\ y.f = g /\ y.p = x.p /\ y.on = x.on
    BY <2>1, <2>2 DEF Fit
  <2> QED BY <2>2, <2>3 DEF Fit
<1>2. CASE ~(T!Taken /\ sound /\ ~hush)
  <2>1. y = x BY <1>2 DEF T!Received
  <2> QED BY <2>1 DEF Keeps
<1> QED BY <1>1, <1>2

(* hw_buzzer_mute, the end of a melody and a note keep what is fit.        *)
LEMMA MutedFit ==
    ASSUME NEW x, Fit(x), NEW y, y = T!Muted(x)
    PROVE  Fit(y) /\ y.f = x.f /\ ~y.on
<1> DEFINE p == [x.p EXCEPT !.active = FALSE]
<1>1. y = [x EXCEPT !.p = p, !.on = FALSE] BY DEF T!Muted
<1>2. p \in Buzzers /\ p.quiet = x.p.quiet BY DEF Fit, Buzzers
<1> HIDE DEF p
<1>3. y \in [f : Melodies, p : Buzzers, on : BOOLEAN] /\ y.f = x.f /\ y.p = p /\ y.on = FALSE
  BY <1>1, <1>2 DEF Fit
<1> QED BY <1>2, <1>3 DEF Fit

(* A record whose feedback is replaced by one that has begun nothing, or   *)
(* what Begun allows.                                                      *)
LEMMA RefitKeeps ==
    ASSUME NEW x, Fit(x), NEW g \in Melodies, Begun(g), NEW y, y = [x EXCEPT !.f = g]
    PROVE  Fit(y) /\ y.f = g
<1>1. y \in [f : Melodies, p : Buzzers, on : BOOLEAN] /\ y.f = g /\ y.p = x.p /\ y.on = x.on
  BY DEF Fit
<1> QED BY <1>1 DEF Fit

(* While quiet is asked for or the sound is off, all is dropped.           *)
LEMMA FlushedFit ==
    ASSUME NEW x, Fit(x), NEW y, y = T!Flushed(x)
    PROVE  Fit(y)
<1> DEFINE z == IF x.f.active THEN T!Muted(x) ELSE x
           g == [z.f EXCEPT !.queue = <<>>, !.phase = 0, !.active = FALSE, !.retrying = FALSE]
<1>1. Fit(z) /\ z.f = x.f BY MutedFit
<1>2. y = [z EXCEPT !.f.queue = <<>>, !.f.phase = 0, !.f.active = FALSE, !.f.retrying = FALSE]
  BY DEF T!Flushed
<1>3. g \in Melodies /\ Begun(g)
  <2>1. z.f \in Melodies BY <1>1 DEF Fit
  <2>2. <<>> \in Seq(T!Events) BY EmptySeq
  <2> HIDE DEF z
  <2>3. g \in Melodies /\ g.phase = 0 /\ g.retrying = FALSE BY <2>1, <2>2 DEF Melodies
  <2> QED BY <2>3 DEF Begun
<1> HIDE DEF z
<1>4. y = [z EXCEPT !.f = g] BY <1>1, <1>2 DEF Fit
<1> QED BY <1>1, <1>3, <1>4, RefitKeeps

(* What app_feedback_step is about to sound: as fit, but for the mark.     *)
Playable(x) ==
    /\ x \in [f : Melodies, p : Buzzers, on : BOOLEAN]
    /\ ~x.f.retrying /\ x.f.queue # <<>> /\ x.f.phase <= T!Notes(Head(x.f.queue))
    /\ x.p.quiet = hush /\ hush \in BOOLEAN
    /\ x.on => x.p.active /\ ~x.p.quiet /\ x.p.enabled

(* A note, or the end of the melody after its last one.                    *)
LEMMA SoundedFit ==
    ASSUME NEW x, Playable(x), ~hush, NEW y, y = T!Sounded(x)
    PROVE  Fit(y) /\ Spares(x.f, y.f)
<1> DEFINE notes == T!Notes(Head(x.f.queue))
<1>1. /\ x.f \in Melodies /\ x.f.queue \in Seq(T!Events) /\ x.f.phase \in Nat
      /\ x.p \in Buzzers /\ x.on \in BOOLEAN /\ x.f.phase <= notes
  BY MelodyFields DEF Playable
<1>2. Head(x.f.queue) \in T!Events BY <1>1, HeadTailProperties DEF Playable
<1>3. notes \in Nat /\ notes > 0 BY <1>2, NotesCounted
<1>4. CASE x.f.phase >= notes
  <2> DEFINE g == T!Popped(x.f)
  <2>1. y = [x EXCEPT !.f = g] BY <1>4 DEF T!Sounded
  <2>2. g \in Melodies /\ g.phase = 0 /\ g.retrying = FALSE
    <3>1. Tail(x.f.queue) \in Seq(T!Events) BY <1>1, HeadTailProperties DEF Playable
    <3> QED BY <1>1, <3>1 DEF T!Popped, Melodies
  <2> HIDE DEF g
  <2>3. y \in [f : Melodies, p : Buzzers, on : BOOLEAN] /\ y.f = g /\ y.p = x.p /\ y.on = x.on
    BY <2>1, <2>2 DEF Playable
  <2>4. x.f.phase = notes BY <1>1, <1>3, <1>4
  <2> QED BY <2>2, <2>3, <2>4 DEF Fit, Begun, Spares, Playable
<1>5. CASE ~x.f.phase >= notes
  <2> DEFINE on == x.p.enabled /\ ~x.p.quiet
             p == [x.p EXCEPT !.active = on, !.stop = IF on THEN NoteTime ELSE @]
             g == T!Started(x.f)
  <2>1. ~x.p.quiet BY DEF Playable
  <2>2. T!Plays(x) = [x EXCEPT !.p = p, !.on = on]
    <3>1. T!Plays(x) = [x EXCEPT !.p.active = on, !.p.stop = IF on THEN NoteTime ELSE @, !.on = on]
      BY DEF T!Plays
    <3> QED BY <3>1 DEF Playable
  <2>3. y = [x EXCEPT !.f = g, !.p = p, !.on = on]
    <3>1. y = [T!Plays(x) EXCEPT !.f = T!Started(@)] BY <1>5, <2>1 DEF T!Sounded
    <3> HIDE DEF p, on
    <3> QED BY <2>2, <3>1 DEF Playable
  <2>4. /\ p \in Buzzers /\ p.active = on /\ p.quiet = x.p.quiet /\ p.enabled = x.p.enabled
        /\ on \in BOOLEAN /\ (on => x.p.enabled)
    <3>1. NoteTime \in Nat BY PanelAssumption DEF T!TonesAssumption
    <3>2. on \in BOOLEAN /\ (on => x.p.enabled) BY <1>1 DEF Buzzers
    <3> HIDE DEF on
    <3> DEFINE stop == IF on THEN NoteTime ELSE x.p.stop
    <3>3. stop \in Nat BY <1>1, <3>1 DEF Buzzers
    <3>4. p = [x.p EXCEPT !.active = on, !.stop = stop] OBVIOUS
    <3> HIDE DEF p, stop
    <3> QED BY <1>1, <3>2, <3>3, <3>4 DEF Buzzers
  <2>5. /\ g \in Melodies /\ g.queue = x.f.queue /\ g.phase = x.f.phase + 1
        /\ g.active = TRUE /\ g.retrying = FALSE
    <3>1. NoteTime + GapTime \in Nat BY PanelAssumption DEF T!TonesAssumption
    <3>2. x.f.phase + 1 \in Nat BY <1>1
    <3> DEFINE due == NoteTime + GapTime
               phase == x.f.phase + 1
    <3>3. g = [x.f EXCEPT !.retrying = FALSE, !.active = TRUE, !.due = due, !.phase = phase]
      BY DEF T!Started
    <3>4. due \in Nat /\ phase \in Nat BY <3>1, <3>2
    <3> HIDE DEF g, due, phase
    <3>5. /\ g \in Melodies /\ g.queue = x.f.queue /\ g.phase = phase
          /\ g.active = TRUE /\ g.retrying = FALSE
      BY <1>1, <3>3, <3>4 DEF Melodies
    <3> QED BY <3>5 DEF phase
  <2> HIDE DEF g, p, on
  <2>6. y \in [f : Melodies, p : Buzzers, on : BOOLEAN] /\ y.f = g /\ y.p = p /\ y.on = on
    <3>1. x \in [f : Melodies, p : Buzzers, on : BOOLEAN] BY DEF Playable
    <3>2. g \in Melodies /\ p \in Buzzers /\ on \in BOOLEAN BY <2>4, <2>5
    <3> QED BY <2>3, <3>1, <3>2
  <2>7. x.f.phase + 1 <= notes BY <1>1, <1>3, <1>5
  <2> QED BY <2>1, <2>4, <2>5, <2>6, <2>7 DEF Fit, Begun, Spares, Playable
<1> QED BY <1>4, <1>5

(* app_feedback_step                                                       *)
LEMMA SteppedFit ==
    ASSUME NEW x, Fit(x), sound \in BOOLEAN, NEW y, y = T!Stepped(x)
    PROVE  Fit(y) /\ Spares(x.f, y.f)
<1>1. CASE ~sound \/ hush
  <2>1. y = T!Flushed(x) BY <1>1 DEF T!Stepped
  <2> QED BY <1>1, <2>1, FlushedFit DEF Spares
<1>2. CASE ~(~sound \/ hush) /\ (x.f.queue = <<>> \/ (x.f.active /\ x.f.due > 0))
  <2>1. y = x BY <1>2 DEF T!Stepped
  <2> QED BY <2>1 DEF Spares
<1>3. CASE ~(~sound \/ hush) /\ ~(x.f.queue = <<>> \/ (x.f.active /\ x.f.due > 0))
  <2> DEFINE z == IF x.f.active THEN [T!Muted(x) EXCEPT !.f.active = FALSE] ELSE x
  <2>1. y = T!Sounded(z) BY <1>3 DEF T!Stepped
  <2>2. x.f \in Melodies /\ Head(x.f.queue) \in T!Events
    BY <1>3, MelodyFields, HeadTailProperties DEF Fit
  <2>3. x.f.phase <= T!Notes(Head(x.f.queue))
    BY <2>2, MelodyFields, NotesCounted DEF Fit, Begun
  <2>4. Playable(z) /\ z.f.queue = x.f.queue /\ z.f.phase = x.f.phase
    <3>1. CASE x.f.active
      <4> DEFINE w == T!Muted(x)
                 g == [w.f EXCEPT !.active = FALSE]
      <4>1. Fit(w) /\ w.f = x.f /\ ~w.on BY MutedFit
      <4> HIDE DEF w
      <4>2. z = [w EXCEPT !.f = g] BY <3>1, <4>1 DEF Fit, w
      <4>3. /\ g \in Melodies /\ g.queue = x.f.queue /\ g.phase = x.f.phase
            /\ g.retrying = x.f.retrying
        BY <2>2, <4>1 DEF Melodies
      <4> HIDE DEF g, z
      <4>4. /\ z \in [f : Melodies, p : Buzzers, on : BOOLEAN]
            /\ z.f = g /\ z.p = w.p /\ z.on = w.on
        BY <4>1, <4>2, <4>3 DEF Fit
      <4> QED BY <1>3, <2>3, <4>1, <4>3, <4>4 DEF Playable, Fit, Begun
    <3>2. CASE ~x.f.active
      <4>1. z = x BY <3>2
      <4> QED BY <1>3, <2>3, <4>1 DEF Playable, Fit, Begun
    <3> QED BY <3>1, <3>2
  <2> HIDE DEF z
  <2>5. Fit(y) /\ Spares(z.f, y.f) BY <1>3, <2>1, <2>4, SoundedFit
  <2> QED BY <2>4, <2>5 DEF Spares
<1> QED BY <1>1, <1>2, <1>3

(* One pass of the shell.                                                  *)
LEMMA ApplyKeeps ==
    ASSUME TonesInv, T!ApplyOutputs
    PROVE  TonesInv' /\ Spares(feedback, feedback')
<1> DEFINE v == [f |-> feedback, p |-> policy, on |-> timer]
           w == T!Enabled(v)
           x == T!Received(w)
           y == T!Stepped(x)
<1>1. Fit(v) /\ v.f = feedback /\ (mail.new => mail.event \in T!Events) /\ sound \in BOOLEAN
  BY DEF TonesInv
<1>2. Fit(w) /\ w.f = v.f
  <2> HIDE DEF v
  <2> QED BY <1>1, EnabledFit
<1>3. Fit(x) /\ Keeps(w.f, x.f)
  <2> HIDE DEF w
  <2> QED BY <1>1, <1>2, ReceivedFit
<1>4. Fit(y) /\ Spares(x.f, y.f)
  <2> HIDE DEF x
  <2> QED BY <1>1, <1>3, SteppedFit
<1>5. /\ feedback' = y.f /\ policy' = y.p /\ timer' = y.on
      /\ mail' = [mail EXCEPT !.new = @ /\ ~T!Taken]
      /\ sound' = sound /\ hush' = hush
  BY DEF T!ApplyOutputs
<1> HIDE DEF v, w, x, y
<1>6. Spares(feedback, feedback') BY <1>1, <1>2, <1>3, <1>4, <1>5 DEF Keeps, Spares
<1>7. Fit([f |-> y.f, p |-> y.p, on |-> y.on]) BY <1>4 DEF Fit
<1>8. Fit([f |-> feedback, p |-> policy, on |-> timer])' BY <1>5, <1>7 DEF Fit
<1>9. mail' \in [event : T!Events \cup {T!NONE}, new : BOOLEAN]
      /\ mail'.event = mail.event /\ (mail'.new => mail.new)
  <2> DEFINE taken == T!Taken
             new == mail.new /\ ~taken
  <2>1. mail' = [mail EXCEPT !.new = new] BY <1>5
  <2>2. mail.new \in BOOLEAN BY DEF TonesInv
  <2>3. new \in BOOLEAN /\ (new => mail.new) BY <2>2
  <2> HIDE DEF new
  <2> QED BY <2>1, <2>3 DEF TonesInv
<1> QED BY <1>1, <1>5, <1>6, <1>8, <1>9 DEF TonesInv

(* Where the tones start.                                                  *)
LEMMA TonesInit == ASSUME T!Init PROVE TonesInv
<1>1. feedback \in Melodies
  <2>1. <<>> \in Seq(T!Events) BY EmptySeq
  <2> QED BY <2>1 DEF T!Init, Melodies
<1>2. policy \in Buzzers BY DEF T!Init, Buzzers
<1>3. Begun(feedback) BY DEF T!Init, Begun
<1> QED BY <1>1, <1>2, <1>3 DEF T!Init, TonesInv, Fit

(* What the product leaves in the mailbox is an event.                     *)
LEMMA PostedEvent ==
    ASSUME TonesInv, NEW e \in T!Events, mail' = T!Posted(mail, e)
    PROVE  /\ mail' \in [event : T!Events \cup {T!NONE}, new : BOOLEAN]
           /\ mail'.new => mail'.event \in T!Events
BY DEF TonesInv, T!Posted

(* Every step of the tones, and a step of the other parts.                 *)
LEMMA TonesNext ==
    ASSUME TonesInv, [T!Next]_(T!vars)
    PROVE  TonesInv' /\ (Spares(feedback, feedback') \/ UNCHANGED T!vars)
<1>0. Spares(feedback, feedback) BY DEF Spares
<1>1. ASSUME UNCHANGED <<sound, hush, feedback, policy, timer>>,
             UNCHANGED mail \/ \E e \in T!Events : mail' = T!Posted(mail, e)
      PROVE  TonesInv' /\ Spares(feedback, feedback')
  BY <1>0, <1>1, PostedEvent DEF TonesInv, Fit
<1>2. CASE UNCHANGED T!vars BY <1>2, <1>1 DEF T!vars
<1>3. ASSUME NEW e \in Raised, T!Notify(e) PROVE TonesInv' /\ Spares(feedback, feedback')
  <2>1. e \in T!Events BY PanelAssumption DEF T!TonesAssumption
  <2> QED BY <1>1, <1>3, <2>1 DEF T!Notify
<1>4. ASSUME NEW v \in T!Views, NEW valid \in BOOLEAN, T!SetState(v, valid)
      PROVE  TonesInv' /\ Spares(feedback, feedback')
  <2>1. T!FAULT \in T!Events /\ T!ERROR \in T!Events /\ T!COMPLETE \in T!Events
    BY DEF T!Events, T!FAULT, T!ERROR, T!COMPLETE
  <2>2. UNCHANGED mail \/ \E e \in T!Events : mail' = T!Posted(mail, e)
    BY <1>4, <2>1 DEF T!SetState, T!Views
  <2> QED BY <1>1, <1>4, <2>2 DEF T!SetState
<1>5. CASE T!SetSound
  <2>1. T!CONFIRM \in T!Events BY DEF T!Events, T!CONFIRM, T!FAULT
  <2>2. /\ mail' \in [event : T!Events \cup {T!NONE}, new : BOOLEAN]
        /\ mail'.new => mail'.event \in T!Events
    <3>1. mail' = mail \/ mail' = T!Posted(mail, T!CONFIRM) BY <1>5 DEF T!SetSound
    <3> QED BY <2>1, <3>1, PostedEvent DEF TonesInv
  <2> QED BY <1>0, <1>5, <2>2 DEF T!SetSound, TonesInv, Fit
<1>6. ASSUME NEW requested \in BOOLEAN, T!RequestQuiet(requested)
      PROVE  TonesInv' /\ Spares(feedback, feedback')
  <2> DEFINE active == policy.active /\ ~requested
             on == timer /\ ~(requested /\ policy.active)
  <2>1. /\ policy' = [policy EXCEPT !.quiet = requested, !.active = active]
        /\ timer' = on /\ hush' = requested /\ UNCHANGED <<mail, sound, feedback>>
    BY <1>6 DEF T!RequestQuiet
  <2>2. policy \in Buzzers /\ timer \in BOOLEAN /\ (timer => policy.active /\ policy.enabled)
    BY DEF TonesInv, Fit
  <2>3. active \in BOOLEAN /\ on \in BOOLEAN /\ (on => active /\ ~requested /\ policy.enabled)
    BY <2>2 DEF Buzzers
  <2> HIDE DEF active, on
  <2>4. /\ policy' \in Buzzers /\ policy'.quiet = requested /\ policy'.active = active
        /\ policy'.enabled = policy.enabled
    BY <2>1, <2>2, <2>3 DEF Buzzers
  <2>5. Fit([f |-> feedback, p |-> policy, on |-> timer])'
    BY <2>1, <2>3, <2>4 DEF TonesInv, Fit
  <2> QED BY <1>0, <2>1, <2>5 DEF TonesInv, Fit
<1>7. CASE T!ApplyOutputs BY <1>7, ApplyKeeps
<1>8. CASE T!BuzzerStep
  <2>1. policy' = [policy EXCEPT !.active = FALSE] /\ timer' = FALSE
        /\ UNCHANGED <<mail, sound, hush, feedback>>
    BY <1>8 DEF T!BuzzerStep
  <2>2. policy' \in Buzzers /\ policy'.quiet = policy.quiet
    BY <2>1 DEF TonesInv, Fit, Buzzers
  <2> QED BY <1>0, <2>1, <2>2 DEF TonesInv, Fit
<1>9. CASE T!Tick
  <2>1. /\ feedback' = [feedback EXCEPT !.due = T!Down(@), !.retry = T!Down(@)]
        /\ policy' = [policy EXCEPT !.stop = T!Down(@)]
        /\ UNCHANGED <<mail, sound, hush, timer>>
    BY <1>9 DEF T!Tick
  <2>2. \A n \in Nat : T!Down(n) \in Nat BY DEF T!Down
  <2>3. feedback \in Melodies /\ policy \in Buzzers BY DEF TonesInv, Fit
  <2>4. /\ feedback' \in Melodies /\ feedback'.queue = feedback.queue
        /\ feedback'.phase = feedback.phase /\ feedback'.active = feedback.active
        /\ feedback'.retrying = feedback.retrying
    BY <2>1, <2>2, <2>3 DEF Melodies
  <2>5. /\ policy' \in Buzzers /\ policy'.quiet = policy.quiet
        /\ policy'.active = policy.active /\ policy'.enabled = policy.enabled
    BY <2>1, <2>2, <2>3 DEF Buzzers
  <2>6. Spares(feedback, feedback') BY <2>4 DEF Spares
  <2> QED BY <2>1, <2>4, <2>5, <2>6 DEF TonesInv, Fit, Begun
<1> QED BY <1>2, <1>3, <1>4, <1>5, <1>6, <1>7, <1>8, <1>9 DEF T!Next

(* Nothing sounds while quiet is asked for, nor once the sound is put out  *)
(* as disabled, and no note is refused; a melody that was begun plays to   *)
(* its last note, but for quiet and the sound turned off (app_feedback.c,  *)
(* hw_buzzer_policy.c, app_shell.c).                                       *)
THEOREM TonesAreHonest == FailuresSpec => []T!QuietIsSilent /\ T!MelodyWhole
<1>1. FailuresInit => TonesInv BY TonesInit DEF FailuresInit
<1>2. TonesInv /\ [FailuresNext]_<<which, vars, bench, buttons, tones>> =>
        TonesInv' /\ (Spares(feedback, feedback') \/ UNCHANGED T!vars)
  <2> SUFFICES ASSUME TonesInv, [FailuresNext]_<<which, vars, bench, buttons, tones>>
               PROVE  TonesInv' /\ (Spares(feedback, feedback') \/ UNCHANGED T!vars)
    OBVIOUS
  <2>1. [T!Next]_(T!vars)
    BY DEF FailuresNext, OfProduct, OfBench, OfButtons, OfTones, tones, T!vars
  <2> QED BY <2>1, TonesNext
<1>3. TonesInv => T!QuietIsSilent BY DEF TonesInv, Fit, Begun, T!QuietIsSilent
<1>4. TonesInv /\ (Spares(feedback, feedback') \/ UNCHANGED T!vars) =>
        [/\ T!Playing(feedback)
         /\ feedback'.queue = <<>> \/ Head(feedback'.queue) # Head(feedback.queue)
         => feedback.phase = T!Notes(Head(feedback.queue)) \/ hush \/ ~sound]_(T!vars)
  BY DEF Spares, T!Playing
<1> QED BY <1>1, <1>2, <1>3, <1>4, PTL DEF FailuresSpec, T!MelodyWhole

(***************************************************************************)
(* The buttons.                                                            *)
(***************************************************************************)
(* The names of the buttons, in their order.                               *)
LEMMA OrderOfNames ==
    /\ Len(Order) \in Nat /\ DOMAIN Order = 1 .. Len(Order)
    /\ \A i \in 1 .. Len(Order) : Order[i] \in K!Names
    /\ \A b \in K!Names : \E i \in 1 .. Len(Order) : b = Order[i]
    /\ \A i, j \in 1 .. Len(Order) : Order[i] = Order[j] => i = j
    /\ "OK" \in K!Names /\ "NONE" \notin K!Names
<1>1. Order \in Seq(STRING) BY PanelAssumption DEF K!ButtonsAssumption
<1>2. Len(Order) \in Nat /\ DOMAIN Order = 1 .. Len(Order) BY <1>1, LenProperties
<1> QED BY <1>2, PanelAssumption DEF K!ButtonsAssumption, K!Names

(* The times of the buttons, and the room for their events.                *)
LEMMA TimesOfButtons ==
    /\ DebounceTime \in Nat /\ RepeatPeriod \in Nat /\ SleepTime \in Nat /\ MaxStall \in Nat
    /\ LongTime \in Nat /\ LongTime > 0 /\ RepeatDelay \in Nat /\ RepeatDelay > 0
    /\ EventCapacity \in Nat /\ EventCapacity >= 2 * Len(Order)
    /\ LongTime + DebounceTime + MaxStall < SleepTime
BY PanelAssumption DEF K!ButtonsAssumption

(* A visit of the buttons in their order is what it says: the recursive    *)
(* function has a value, as one of each length has.                        *)
VisitedTo(f, n) ==
    f = [i \in 0 .. n |-> IF i = 0 THEN [u |-> user, h |-> heard, queued |-> 0]
                                   ELSE K!ToldOf(f[i - 1], Order[i])]
(* There is one of each length.                                            *)
LEMMA VisitsExist == \A n \in Nat : \E f : VisitedTo(f, n)
<1> DEFINE Lacking == {n \in Nat : ~ \E f : VisitedTo(f, n)}
<1> SUFFICES ASSUME Lacking # {} PROVE FALSE OBVIOUS
<1>1. PICK n \in Lacking : \A i \in Lacking : ~ (<<i, n>> \in OpToRel(<, Nat))
  <2>1. Lacking \subseteq Nat OBVIOUS
  <2> HIDE DEF Lacking
  <2> QED BY <2>1, NatLessThanWellFounded, WFMin
<1>2. n \in Nat /\ ~ \E f : VisitedTo(f, n) OBVIOUS
<1>3. CASE n = 0
  <2> DEFINE f == [i \in 0 .. 0 |-> [u |-> user, h |-> heard, queued |-> 0]]
  <2>1. VisitedTo(f, 0) BY DEF VisitedTo
  <2> QED BY <1>2, <1>3, <2>1
<1>4. CASE n # 0
  <2>1. n - 1 \in Nat /\ n - 1 < n BY <1>2, <1>4
  <2>2. <<n - 1, n>> \in OpToRel(<, Nat) BY <1>2, <2>1 DEF OpToRel
  <2>3. PICK f : VisitedTo(f, n - 1) BY <1>1, <2>1, <2>2
  <2> DEFINE g == [i \in 0 .. n |-> IF i = n THEN K!ToldOf(f[n - 1], Order[n]) ELSE f[i]]
             v(i) == IF i = 0 THEN [u |-> user, h |-> heard, queued |-> 0]
                     ELSE K!ToldOf(g[i - 1], Order[i])
  <2>4. ASSUME NEW i \in 0 .. n PROVE g[i] = v(i)
    <3>1. CASE i = n
      <4>1. g[n - 1] = f[n - 1] /\ g[n] = K!ToldOf(f[n - 1], Order[n]) BY <1>2, <2>1
      <4> QED BY <1>4, <3>1, <4>1
    <3>2. CASE i # n
      <4>1. i \in 0 .. n - 1 /\ g[i] = f[i] BY <1>2, <3>2
      <4>2. i # 0 => i - 1 \in 0 .. n /\ i - 1 # n BY <1>2, <4>1
      <4>3. i # 0 => g[i - 1] = f[i - 1] BY <4>2
      <4>4. f[i] = IF i = 0 THEN [u |-> user, h |-> heard, queued |-> 0]
                   ELSE K!ToldOf(f[i - 1], Order[i])
        BY <2>3, <4>1 DEF VisitedTo
      <4> QED BY <4>1, <4>3, <4>4
    <3> QED BY <3>1, <3>2
  <2>5. g = [i \in 0 .. n |-> v(i)]
    <3>1. g = [i \in 0 .. n |-> g[i]] OBVIOUS
    <3> HIDE DEF g, v
    <3>2. \A i \in 0 .. n : g[i] = v(i) BY <2>4
    <3> QED BY <3>1, <3>2
  <2>6. VisitedTo(g, n)
    <3> HIDE DEF g
    <3> QED BY <2>5 DEF VisitedTo
  <2> QED BY <1>2, <2>6
<1> QED BY <1>3, <1>4

(* So this is one.                                                         *)
LEMMA VisitedIs ==
    /\ K!Visited[0] = [u |-> user, h |-> heard, queued |-> 0]
    /\ \A i \in 1 .. Len(Order) : K!Visited[i] = K!ToldOf(K!Visited[i - 1], Order[i])
<1>1. Len(Order) \in Nat BY OrderOfNames
<1>2. PICK f : VisitedTo(f, Len(Order)) BY <1>1, VisitsExist
<1>3. VisitedTo(K!Visited, Len(Order)) BY <1>2 DEF K!Visited, VisitedTo
<1> QED BY <1>1, <1>3 DEF VisitedTo

(* The product and what was told, whatever the times and counts.           *)
Users ==
    [sleeping : BOOLEAN, consumes : K!Names \cup {"NONE"}, armed : BOOLEAN,
     long_seen : BOOLEAN, idle : Nat]
Stories == [believed : {"UP", "DOWN", "HELD", "WRONG"}, spent : BOOLEAN, acts : Nat]
EventTypes == {"PRESS", "RELEASE", "LONG_PRESS", "REPEAT"}
KeyEvent(b, type) == [button |-> b, type |-> type]

(* What the product does with an event, in its fields.                     *)
LEMMA HandledEffect ==
    ASSUME NEW u \in Users, NEW b \in K!Names, NEW t1 \in EventTypes,
           NEW w, w = K!Handled(u, KeyEvent(b, t1))
    PROVE  /\ w \in Users /\ w.idle <= u.idle
           /\ t1 = "PRESS" /\ u.sleeping =>
                 /\ ~w.sleeping /\ w.consumes = b /\ (w.armed <=> u.armed)
                 /\ w.long_seen <=> u.long_seen
           /\ ~(t1 = "PRESS" /\ u.sleeping) /\ u.consumes # "NONE" =>
                 IF b = u.consumes /\ t1 = "RELEASE"
                 THEN w.consumes = "NONE" /\ ~w.armed /\ ~w.long_seen
                 ELSE w = u
           /\ ~(t1 = "PRESS" /\ u.sleeping) /\ u.consumes = "NONE" =>
                 /\ (w.sleeping <=> u.sleeping) /\ w.consumes = "NONE"
                 /\ t1 = "PRESS" => w.idle = 0
                 /\ w.armed <=> IF b # "OK" THEN u.armed
                                ELSE t1 = "PRESS" \/ (u.armed /\ t1 # "RELEASE")
                 /\ w.long_seen <=>
                        IF b # "OK" THEN u.long_seen
                        ELSE /\ t1 \notin {"PRESS", "RELEASE"}
                             /\ u.long_seen \/ (t1 = "LONG_PRESS" /\ u.armed)
<1> DEFINE e == KeyEvent(b, t1)
<1>1. e.button = b /\ e.type = t1 BY DEF KeyEvent
<1>2. /\ u.sleeping \in BOOLEAN /\ u.consumes \in K!Names \cup {"NONE"} /\ u.armed \in BOOLEAN
      /\ u.long_seen \in BOOLEAN /\ u.idle \in Nat
  BY DEF Users
<1> HIDE DEF e
<1>3. CASE t1 = "PRESS" /\ u.sleeping
  <2>1. w = [u EXCEPT !.sleeping = FALSE, !.consumes = b, !.idle = 0]
    BY <1>1, <1>3 DEF K!Handled, K!Wakes, K!Awoken, e
  <2>2. w \in Users
    <3>1. FALSE \in BOOLEAN /\ 0 \in Nat /\ b \in K!Names \cup {"NONE"} OBVIOUS
    <3> QED BY <2>1, <3>1, Zenon DEF Users
  <2>3. /\ w.sleeping = FALSE /\ w.consumes = b /\ w.idle = 0 /\ w.armed = u.armed
        /\ w.long_seen = u.long_seen
    BY <2>1 DEF Users
  <2>4. w.idle <= u.idle BY <1>2, <2>3
  <2> QED BY <1>3, <2>2, <2>3, <2>4
<1>4. CASE ~(t1 = "PRESS" /\ u.sleeping) /\ u.consumes # "NONE"
  <2>1. w = K!Consumed(u, e) BY <1>1, <1>4 DEF K!Handled, K!Wakes, e
  <2>2. CASE b = u.consumes /\ t1 = "RELEASE"
    <3>1. w = [u EXCEPT !.consumes = "NONE", !.armed = FALSE, !.long_seen = FALSE]
      BY <1>1, <2>1, <2>2 DEF K!Consumed
    <3>2. w \in Users BY <3>1 DEF Users
    <3>3. /\ w.consumes = "NONE" /\ w.armed = FALSE /\ w.long_seen = FALSE /\ w.idle = u.idle
      BY <3>1 DEF Users
    <3>4. w.idle <= u.idle BY <1>2, <3>3
    <3> QED BY <1>4, <2>2, <3>2, <3>3, <3>4
  <2>3. CASE ~(b = u.consumes /\ t1 = "RELEASE")
    <3>1. w = u BY <1>1, <2>1, <2>3 DEF K!Consumed
    <3> QED BY <1>2, <1>4, <2>3, <3>1
  <2> QED BY <2>2, <2>3
<1>5. CASE ~(t1 = "PRESS" /\ u.sleeping) /\ u.consumes = "NONE"
  <2> DEFINE idle == IF t1 = "PRESS" THEN 0 ELSE u.idle
             armed == IF b # "OK" THEN u.armed
                      ELSE t1 = "PRESS" \/ (u.armed /\ t1 # "RELEASE")
             long == IF b # "OK" THEN u.long_seen
                     ELSE /\ t1 \notin {"PRESS", "RELEASE"}
                          /\ u.long_seen \/ (t1 = "LONG_PRESS" /\ u.armed)
  <2>1. w = [u EXCEPT !.idle = idle, !.armed = armed, !.long_seen = long]
    BY <1>1, <1>5 DEF K!Handled, K!Wakes, K!OpensMenu, e
  <2>2. /\ idle \in Nat /\ idle <= u.idle /\ (t1 = "PRESS" => idle = 0)
        /\ armed \in BOOLEAN /\ long \in BOOLEAN
    <3>1. idle \in Nat /\ idle <= u.idle /\ (t1 = "PRESS" => idle = 0) BY <1>2
    <3>2. armed \in BOOLEAN
      <4>1. CASE b # "OK" BY <1>2, <4>1
      <4>2. CASE b = "OK" BY <4>2
      <4> QED BY <4>1, <4>2
    <3>3. long \in BOOLEAN
      <4>1. CASE b # "OK" BY <1>2, <4>1
      <4>2. CASE b = "OK" BY <4>2
      <4> QED BY <4>1, <4>2
    <3> QED BY <3>1, <3>2, <3>3
  <2> HIDE DEF idle, armed, long
  <2>3. /\ w \in Users /\ w.idle = idle /\ w.armed = armed /\ w.long_seen = long
        /\ w.sleeping = u.sleeping /\ w.consumes = u.consumes
    BY <1>2, <2>1, <2>2 DEF Users
  <2> QED BY <1>5, <2>2, <2>3 DEF armed, long
<1> QED BY <1>3, <1>4, <1>5

(* What the history makes of it.                                           *)
LEMMA NotedEffect ==
    ASSUME NEW h \in [K!Names -> Stories], NEW u \in Users, NEW b \in K!Names,
           NEW t1 \in EventTypes, NEW g, g = K!Noted(h, u, KeyEvent(b, t1))
    PROVE  /\ g \in [K!Names -> Stories]
           /\ \A c \in K!Names : c # b => g[c] = h[c]
           /\ g[b].believed = K!Believed(h[b], t1)
           /\ g[b].spent <=> IF t1 = "PRESS" THEN u.sleeping \/ u.consumes # "NONE"
                                             ELSE h[b].spent
           /\ g[b].acts = IF t1 = "PRESS" THEN 0
                          ELSE IF K!ActsOn(u, KeyEvent(b, t1)) /\ h[b].acts < 2
                               THEN h[b].acts + 1 ELSE h[b].acts
<1> DEFINE believed == K!Believed(h[b], t1)
           spent == IF t1 = "PRESS" THEN u.sleeping \/ u.consumes # "NONE" ELSE h[b].spent
           acts == IF t1 = "PRESS" THEN 0
                   ELSE IF K!ActsOn(u, KeyEvent(b, t1)) /\ h[b].acts < 2
                        THEN h[b].acts + 1 ELSE h[b].acts
           story == [believed |-> believed, spent |-> spent, acts |-> acts]
<1>1. h[b] \in Stories OBVIOUS
<1>2. believed \in {"UP", "DOWN", "HELD", "WRONG"} BY <1>1 DEF K!Believed, Stories
<1>3. spent \in BOOLEAN BY <1>1 DEF Users, Stories
<1>4. acts \in Nat BY <1>1 DEF Stories
<1>5. g = [h EXCEPT ![b] = story] BY DEF K!Noted, K!Wakes, KeyEvent
<1> HIDE DEF believed, spent, acts
<1>6. /\ story \in Stories /\ story.believed = believed /\ story.spent = spent
      /\ story.acts = acts
  BY <1>2, <1>3, <1>4 DEF Stories
<1> HIDE DEF story
<1>7. g[b] = story /\ g \in [K!Names -> Stories] /\ \A c \in K!Names : c # b => g[c] = h[c]
  BY <1>5, <1>6
<1>8. g[b].spent <=> IF t1 = "PRESS" THEN u.sleeping \/ u.consumes # "NONE" ELSE h[b].spent
  BY <1>6, <1>7, Zenon DEF spent
<1> QED BY <1>6, <1>7, <1>8 DEF believed, acts

(* What the product owes a press of OK, from what it was told of it: the   *)
(* click or the menu, to come; or nothing any more.                        *)
Meets(u, k) ==
    /\ k.spent => k.acts = 0
    /\ k.believed = "UP" /\ ~k.spent => k.acts = 1
    /\ k.believed # "UP" /\ k.spent => (u.consumes = "NONE" => ~u.armed)
    /\ k.believed = "DOWN" /\ ~k.spent =>
            k.acts = 0 /\ u.armed /\ ~u.long_seen /\ u.consumes = "NONE" /\ ~u.sleeping
    /\ k.believed = "HELD" /\ ~k.spent =>
            k.acts = 1 /\ (u.consumes = "NONE" => ~u.armed \/ u.long_seen)
Owed(k) == k.believed = "DOWN" /\ ~k.spent

(* An event that is in its place keeps this.                               *)
LEMMA EventMeets ==
    ASSUME NEW u \in Users, NEW h \in [K!Names -> Stories], Meets(u, h["OK"]),
           NEW b \in K!Names, NEW t1 \in EventTypes, K!Believed(h[b], t1) # "WRONG",
           NEW w, w = K!Handled(u, KeyEvent(b, t1)), NEW g, g = K!Noted(h, u, KeyEvent(b, t1))
    PROVE  /\ Meets(w, g["OK"])
           /\ Owed(g["OK"]) => IF b = "OK" /\ t1 = "PRESS" THEN w.idle = 0
                               ELSE Owed(h["OK"])
<1> DEFINE k == h["OK"]
           l == g["OK"]
<1>1. "OK" \in K!Names /\ "NONE" \notin K!Names BY OrderOfNames
<1>2. /\ u.sleeping \in BOOLEAN /\ u.consumes \in K!Names \cup {"NONE"} /\ u.armed \in BOOLEAN
      /\ u.long_seen \in BOOLEAN /\ u.idle \in Nat
  BY DEF Users
<1>3. k.believed \in {"UP", "DOWN", "HELD", "WRONG"} /\ k.spent \in BOOLEAN /\ k.acts \in Nat
  BY <1>1 DEF Stories
<1>4. CASE b # "OK"
  <2>1. l = k BY <1>1, <1>4, NotedEffect
  <2> QED BY <1>1, <1>2, <1>3, <1>4, <2>1, HandledEffect DEF Meets, Owed
<1>5. CASE b = "OK" /\ t1 = "PRESS"
  <2>1. k.believed = "UP" /\ l.believed = "DOWN" /\ l.acts = 0
        /\ (l.spent <=> u.sleeping \/ u.consumes # "NONE")
    BY <1>5, NotedEffect DEF K!Believed
  <2> QED BY <1>1, <1>2, <1>3, <1>5, <2>1, HandledEffect DEF Meets, Owed
<1>6. CASE b = "OK" /\ t1 = "RELEASE"
  <2>1. k.believed \in {"DOWN", "HELD"} /\ l.believed = "UP" /\ (l.spent <=> k.spent)
        /\ l.acts = IF u.consumes = "NONE" /\ u.armed /\ ~u.long_seen /\ k.acts < 2
                    THEN k.acts + 1 ELSE k.acts
    BY <1>6, NotedEffect DEF K!Believed, K!ActsOn, K!Wakes, K!Clicks, K!OpensMenu, KeyEvent
  <2> QED BY <1>1, <1>2, <1>3, <1>6, <2>1, HandledEffect DEF Meets, Owed
<1>7. CASE b = "OK" /\ t1 = "LONG_PRESS"
  <2>1. k.believed = "DOWN" /\ l.believed = "HELD" /\ (l.spent <=> k.spent)
        /\ l.acts = IF u.consumes = "NONE" /\ u.armed /\ k.acts < 2
                    THEN k.acts + 1 ELSE k.acts
    BY <1>7, NotedEffect DEF K!Believed, K!ActsOn, K!Wakes, K!Clicks, K!OpensMenu, KeyEvent
  <2> QED BY <1>1, <1>2, <1>3, <1>7, <2>1, HandledEffect DEF Meets, Owed
<1>8. CASE b = "OK" /\ t1 = "REPEAT"
  <2>1. k.believed \in {"DOWN", "HELD"} /\ l.believed = k.believed /\ (l.spent <=> k.spent)
        /\ l.acts = k.acts
    BY <1>8, NotedEffect DEF K!Believed, K!ActsOn, K!Wakes, K!Clicks, K!OpensMenu, KeyEvent
  <2> QED BY <1>1, <1>2, <1>3, <1>8, <2>1, HandledEffect DEF Meets, Owed
<1> QED BY <1>4, <1>5, <1>6, <1>7, <1>8 DEF EventTypes

(***************************************************************************)
(* A pass of the buttons.                                                  *)
(***************************************************************************)
(* While the menu of a press is owed the display is not put to sleep: the  *)
(* long press comes first, or the release, however slow the passes.        *)
Awake(s, u, slow) ==
    IF s.held < LongTime THEN u.idle <= s.held
    ELSE IF s.raw THEN u.idle <= LongTime - 1 + slow
    ELSE s.age < DebounceTime => u.idle <= LongTime - 1 + MaxStall + s.age
(* A button, whatever its times, and what the product must have been told. *)
Debounced ==
    [raw : BOOLEAN, pressed : BOOLEAN, long_sent : BOOLEAN, age : Nat, held : Nat, repeat : Int]
Says(s) == IF ~s.pressed THEN "UP" ELSE IF s.long_sent THEN "HELD" ELSE "DOWN"

(* The fields of a button.                                                 *)
LEMMA DebouncedFields ==
    ASSUME NEW s \in Debounced
    PROVE  /\ s.raw \in BOOLEAN /\ s.pressed \in BOOLEAN /\ s.long_sent \in BOOLEAN
           /\ s.age \in Nat /\ s.held \in Nat /\ s.repeat \in Int
BY DEF Debounced

(* What a sample of its contact does to a button.                          *)
LEMMA SampledEffect ==
    ASSUME NEW s \in Debounced, NEW raw \in BOOLEAN, NEW p, p = K!Sampled(s, raw)
    PROVE  /\ p \in Debounced /\ p.raw = raw /\ p.pressed = s.pressed
           /\ p.long_sent = s.long_sent /\ p.held = s.held /\ p.repeat = s.repeat
           /\ p.age = IF raw = s.raw THEN s.age ELSE 0
<1>1. CASE raw = s.raw BY <1>1 DEF K!Sampled
<1>2. CASE raw # s.raw
  <2>1. p = [s EXCEPT !.raw = raw, !.age = 0] BY <1>2 DEF K!Sampled
  <2>2. p \in Debounced
    <3>1. 0 \in Nat OBVIOUS
    <3> QED BY <2>1, <3>1, Zenon DEF Debounced
  <2>3. /\ p.raw = raw /\ p.pressed = s.pressed /\ p.long_sent = s.long_sent /\ p.held = s.held
        /\ p.repeat = s.repeat /\ p.age = 0
    BY <2>1 DEF Debounced
  <2> QED BY <1>2, <2>2, <2>3
<1> QED BY <1>1, <1>2

(* A press or a release is all that a pass has of a button: neither a long *)
(* press nor a repeat comes with it.                                       *)
LEMMA ChangedEffect ==
    ASSUME NEW p \in Debounced, NEW c, c = K!Changed(p)
    PROVE  /\ c \in Debounced
           /\ ~K!Changes(p) => c = p
           /\ K!Changes(p) => /\ p.raw # p.pressed /\ (c.pressed <=> p.raw) /\ c.raw = p.raw
                              /\ ~c.long_sent /\ c.held = 0
                              /\ ~K!GoesLong(c) /\ ~K!Repeats(c)
<1>1. CASE ~K!Changes(p) BY <1>1 DEF K!Changed
<1>2. CASE K!Changes(p) /\ p.raw
  <2>1. c = [p EXCEPT !.pressed = TRUE, !.long_sent = FALSE, !.held = 0, !.repeat = RepeatDelay]
    BY <1>2 DEF K!Changed
  <2>2. c \in Debounced
    <3>1. TRUE \in BOOLEAN /\ FALSE \in BOOLEAN /\ 0 \in Nat /\ RepeatDelay \in Int
      BY TimesOfButtons
    <3> QED BY <2>1, <3>1, Zenon DEF Debounced
  <2>3. /\ c.pressed = TRUE /\ c.long_sent = FALSE /\ c.held = 0
        /\ c.repeat = RepeatDelay /\ c.raw = p.raw
    BY <2>1 DEF Debounced
  <2>4. c.held < LongTime /\ c.repeat > 0 BY <2>3, TimesOfButtons
  <2>5. ~K!GoesLong(c) /\ ~K!Repeats(c)
    <3>1. ~(c.held >= LongTime) /\ ~(c.repeat <= 0) BY <2>3, <2>4, TimesOfButtons
    <3> QED BY <3>1 DEF K!GoesLong, K!Repeats
  <2>6. p.raw # p.pressed BY <1>2 DEF K!Changes
  <2> QED BY <1>2, <2>2, <2>3, <2>5, <2>6
<1>3. CASE K!Changes(p) /\ ~p.raw
  <2>1. c = [p EXCEPT !.pressed = FALSE, !.long_sent = FALSE, !.held = 0, !.repeat = 0]
    BY <1>3 DEF K!Changed
  <2>2. c \in Debounced
    <3>1. FALSE \in BOOLEAN /\ 0 \in Nat /\ 0 \in Int OBVIOUS
    <3> QED BY <2>1, <3>1, Zenon DEF Debounced
  <2>3. /\ c.pressed = FALSE /\ c.long_sent = FALSE /\ c.held = 0 /\ c.raw = p.raw
    BY <2>1 DEF Debounced
  <2>4. ~K!GoesLong(c) /\ ~K!Repeats(c) BY <2>3 DEF K!GoesLong, K!Repeats
  <2>5. p.raw # p.pressed BY <1>3 DEF K!Changes
  <2> QED BY <1>3, <2>2, <2>3, <2>4, <2>5
<1> QED BY <1>1, <1>2, <1>3

(* A long press is noted once.                                             *)
LEMMA UpdatedEffect ==
    ASSUME NEW c \in Debounced, NEW n, n = K!Updated(c)
    PROVE  /\ n \in Debounced /\ n.pressed = c.pressed /\ n.raw = c.raw
           /\ n.age = c.age /\ n.held = c.held
           /\ n.long_sent <=> c.long_sent \/ K!GoesLong(c)
<1> DEFINE long == c.long_sent \/ K!GoesLong(c)
           repeat == IF K!Repeats(c) THEN c.repeat + RepeatPeriod ELSE c.repeat
<1>1. n = [c EXCEPT !.long_sent = long, !.repeat = repeat] BY DEF K!Updated
<1>2. long \in BOOLEAN BY DebouncedFields DEF K!GoesLong
<1>3. repeat \in Int BY DebouncedFields, TimesOfButtons
<1> HIDE DEF long, repeat
<1>4. /\ n \in Debounced /\ n.pressed = c.pressed /\ n.raw = c.raw /\ n.age = c.age
      /\ n.held = c.held /\ n.long_sent = long
  BY <1>1, <1>2, <1>3 DEF Debounced
<1> QED BY <1>4 DEF long

(* Between two events of a pass.                                           *)
Fine(x) ==
    /\ x.u \in Users /\ x.h \in [K!Names -> Stories] /\ x.queued \in Nat
    /\ Meets(x.u, x.h["OK"])
    /\ Owed(x.h["OK"]) => IF keys["OK"].pressed
                          THEN Owed(heard["OK"]) /\ x.u.idle <= user.idle ELSE x.u.idle = 0

(* What an event that may be queued adds to what was told before it.       *)
Adds(x, y, b, type, says) ==
    /\ Fine(y) /\ y.queued = IF says THEN x.queued + 1 ELSE x.queued
    /\ \A c \in K!Names : c # b => y.h[c] = x.h[c]
    /\ y.h[b].believed = IF says THEN K!Believed(x.h[b], type) ELSE x.h[b].believed

(* An event that is queued in its place keeps things fine.                 *)
LEMMA ToldFine ==
    ASSUME NEW x, Fine(x), NEW b \in K!Names, NEW t1 \in EventTypes, NEW says \in BOOLEAN,
           says => /\ x.queued < EventCapacity /\ K!Believed(x.h[b], t1) # "WRONG"
                   /\ t1 = "PRESS" => ~keys[b].pressed,
           NEW y, y = K!Told(x, b, t1, says), user.idle \in Nat
    PROVE  Adds(x, y, b, t1, says)
<1>1. x.u \in Users /\ x.h \in [K!Names -> Stories] /\ x.queued \in Nat BY DEF Fine
<1>2. EventCapacity \in Nat BY TimesOfButtons
<1>3. CASE ~says
  <2>1. y = x BY <1>3 DEF K!Told
  <2> QED BY <1>3, <2>1 DEF Adds
<1>4. CASE says
  <2> DEFINE w == K!Handled(x.u, KeyEvent(b, t1))
             g == K!Noted(x.h, x.u, KeyEvent(b, t1))
  <2>1. y = [u |-> w, h |-> g, queued |-> x.queued + 1]
    <3>1. x.queued # EventCapacity BY <1>1, <1>2, <1>4
    <3> QED BY <1>4, <3>1 DEF K!Told, KeyEvent
  <2>2. w \in Users /\ w.idle <= x.u.idle BY <1>1, HandledEffect
  <2>3. /\ g \in [K!Names -> Stories] /\ \A c \in K!Names : c # b => g[c] = x.h[c]
        /\ g[b].believed = K!Believed(x.h[b], t1)
    BY <1>1, NotedEffect
  <2>4. /\ Meets(w, g["OK"])
        /\ Owed(g["OK"]) => IF b = "OK" /\ t1 = "PRESS" THEN w.idle = 0 ELSE Owed(x.h["OK"])
    <3> HIDE DEF w, g
    <3>1. w = K!Handled(x.u, KeyEvent(b, t1)) /\ g = K!Noted(x.h, x.u, KeyEvent(b, t1))
      BY DEF w, g
    <3> QED BY <1>1, <1>4, <3>1, EventMeets DEF Fine
  <2> HIDE DEF w, g
  <2>5. x.queued + 1 \in Nat BY <1>1
  <2>6. Owed(g["OK"]) => IF keys["OK"].pressed
                         THEN Owed(heard["OK"]) /\ w.idle <= user.idle ELSE w.idle = 0
    <3>1. w.idle \in Nat /\ x.u.idle \in Nat BY <1>1, <2>2 DEF Users
    <3> QED BY <1>4, <2>2, <2>4, <3>1 DEF Fine
  <2>7. y.u = w /\ y.h = g /\ y.queued = x.queued + 1 BY <2>1
  <2>8. Fine(y) BY <2>2, <2>3, <2>4, <2>5, <2>6, <2>7 DEF Fine
  <2> QED BY <1>4, <2>3, <2>7, <2>8 DEF Adds
<1> QED BY <1>3, <1>4

(* What becomes of a button in a pass.                                     *)
After(b) == K!Updated(K!Changed(K!At(b)))

(* Its events are all queued, and tell what becomes of it.                 *)
LEMMA ToldOfFine ==
    ASSUME NEW x, Fine(x), NEW b \in K!Names, x.queued + 2 <= EventCapacity,
           keys \in [K!Names -> Debounced], user.idle \in Nat,
           x.h[b].believed = Says(keys[b]), NEW y, y = K!ToldOf(x, b)
    PROVE  /\ Fine(y) /\ y.queued <= x.queued + 2
           /\ \A c \in K!Names : c # b => y.h[c] = x.h[c]
           /\ y.h[b].believed = Says(After(b))
<1> DEFINE s == keys[b]
           p == K!At(b)
           c == K!Changed(p)
           n == K!Updated(c)
           first == IF c.pressed THEN "PRESS" ELSE "RELEASE"
           v == K!Told(x, b, first, K!Changes(p))
           w == K!Told(v, b, "LONG_PRESS", K!GoesLong(c))
<1>1. y = K!Told(w, b, "REPEAT", K!Repeats(c)) /\ After(b) = n BY DEF K!ToldOf, After
<1>2. s \in Debounced /\ p = K!Sampled(s, b \in contacts) /\ (b \in contacts) \in BOOLEAN
  BY DEF K!At
<1>3. p \in Debounced /\ p.pressed = s.pressed /\ p.long_sent = s.long_sent
  <2> HIDE DEF s, p
  <2> QED BY <1>2, SampledEffect
<1> HIDE DEF s, p
<1>4. /\ c \in Debounced
      /\ ~K!Changes(p) => c = p
      /\ K!Changes(p) => /\ p.raw # p.pressed /\ (c.pressed <=> p.raw)
                         /\ ~c.long_sent /\ ~K!GoesLong(c) /\ ~K!Repeats(c)
  BY <1>3, ChangedEffect
<1> HIDE DEF c
<1>5. n.pressed = c.pressed /\ (n.long_sent <=> c.long_sent \/ K!GoesLong(c))
  BY <1>4, UpdatedEffect
<1> HIDE DEF n
<1>6. /\ p.raw \in BOOLEAN /\ p.pressed \in BOOLEAN /\ p.long_sent \in BOOLEAN
      /\ c.pressed \in BOOLEAN /\ c.long_sent \in BOOLEAN
      /\ K!Changes(p) \in BOOLEAN /\ K!GoesLong(c) \in BOOLEAN /\ K!Repeats(c) \in BOOLEAN
  BY <1>3, <1>4, DebouncedFields DEF K!Changes, K!GoesLong, K!Repeats
<1>7. x.queued \in Nat /\ EventCapacity \in Nat BY TimesOfButtons DEF Fine
<1>8. CASE K!Changes(p)
  <2>1. K!Believed(x.h[b], first) = Says(n) /\ first \in EventTypes
        /\ (first = "PRESS" => ~s.pressed) /\ K!Believed(x.h[b], first) # "WRONG"
    BY <1>3, <1>4, <1>5, <1>6, <1>8 DEF Says, K!Believed, EventTypes, s
  <2>2. /\ Fine(v) /\ v.queued = x.queued + 1
        /\ \A d \in K!Names : d # b => v.h[d] = x.h[d]
        /\ v.h[b].believed = K!Believed(x.h[b], first)
    <3>1. x.queued < EventCapacity BY <1>7
    <3>2. first \in EventTypes /\ K!Believed(x.h[b], first) # "WRONG"
          /\ (first = "PRESS" => ~keys[b].pressed)
      BY <2>1 DEF s
    <3>3. v = K!Told(x, b, first, TRUE) BY <1>8 DEF K!Told
    <3> HIDE DEF first, v
    <3>4. TRUE \in BOOLEAN OBVIOUS
    <3>5. Adds(x, v, b, first, TRUE) BY <3>1, <3>2, <3>3, <3>4, ToldFine
    <3> QED BY <3>5 DEF Adds
  <2>3. y = v BY <1>1, <1>4, <1>8 DEF K!Told
  <2> HIDE DEF v
  <2> QED BY <1>1, <1>7, <2>1, <2>2, <2>3
<1>9. CASE ~K!Changes(p)
  <2>1. v = x BY <1>9 DEF K!Told
  <2> HIDE DEF v
  <2>2. c = p BY <1>4, <1>9
  <2>3. K!GoesLong(c) => K!Believed(x.h[b], "LONG_PRESS") = "HELD" /\ x.h[b].believed = "DOWN"
    BY <1>3, <2>2 DEF K!GoesLong, K!Believed, Says, s
  <2>4. /\ Fine(w) /\ w.queued = (IF K!GoesLong(c) THEN x.queued + 1 ELSE x.queued)
        /\ \A d \in K!Names : d # b => w.h[d] = x.h[d]
        /\ w.h[b].believed = IF K!GoesLong(c) THEN "HELD" ELSE x.h[b].believed
    <3>1. x.queued < EventCapacity BY <1>7
    <3>2. w = K!Told(x, b, "LONG_PRESS", K!GoesLong(c)) BY <2>1
    <3> HIDE DEF w
    <3>3. "LONG_PRESS" \in EventTypes BY DEF EventTypes
    <3>4. Adds(x, w, b, "LONG_PRESS", K!GoesLong(c))
      BY <1>6, <2>3, <3>1, <3>2, <3>3, ToldFine
    <3> QED BY <2>3, <3>4 DEF Adds
  <2> HIDE DEF w
  <2>5. w.h[b].believed = Says(n)
    BY <1>3, <1>5, <1>6, <2>2, <2>4 DEF K!GoesLong, Says, s
  <2>6. K!Repeats(c) => /\ K!Believed(w.h[b], "REPEAT") = w.h[b].believed
                        /\ w.h[b].believed # "WRONG"
    BY <1>5, <2>5 DEF K!Repeats, K!Believed, Says
  <2>7. w.queued \in Nat /\ w.queued < EventCapacity /\ w.queued <= x.queued + 1
    BY <1>7, <2>4
  <2>8. /\ Fine(y) /\ y.queued = (IF K!Repeats(c) THEN w.queued + 1 ELSE w.queued)
        /\ \A d \in K!Names : d # b => y.h[d] = w.h[d]
        /\ y.h[b].believed = w.h[b].believed
    <3>1. "REPEAT" \in EventTypes BY DEF EventTypes
    <3>2. Adds(w, y, b, "REPEAT", K!Repeats(c))
      BY <1>1, <1>6, <2>4, <2>6, <2>7, <3>1, ToldFine
    <3> QED BY <2>6, <3>2 DEF Adds
  <2> QED BY <1>1, <1>7, <2>4, <2>5, <2>7, <2>8
<1> QED BY <1>8, <1>9

(* The debouncer and what was told of it, between two steps.               *)
PanelInv ==
    /\ keys \in [K!Names -> Debounced] /\ user \in Users /\ heard \in [K!Names -> Stories]
    /\ stall \in 0 .. MaxStall
    /\ \A b \in K!Names : heard[b].believed = Says(keys[b])
    /\ Meets(user, heard["OK"])
    /\ Owed(heard["OK"]) => Awake(keys["OK"], user, stall)

(* All the buttons visited: every event was queued.                        *)
LEMMA VisitedFine ==
    ASSUME PanelInv
    PROVE  /\ Fine(K!Visited[Len(Order)])
           /\ \A b \in K!Names : K!Visited[Len(Order)].h[b].believed = Says(After(b))
<1> DEFINE n == Len(Order)
           To(i, b) == IF \E j \in 1 .. i : b = Order[j] THEN Says(After(b)) ELSE Says(keys[b])
           Right(i) == /\ Fine(K!Visited[i]) /\ K!Visited[i].queued <= 2 * i
                       /\ \A b \in K!Names : K!Visited[i].h[b].believed = To(i, b)
           Wrong == {i \in 0 .. n : ~Right(i)}
<1>1. n \in Nat BY OrderOfNames
<1>2. user.idle \in Nat BY DEF PanelInv, Users
<1>3. Right(0)
  <2>1. /\ K!Visited[0].u = user /\ K!Visited[0].h = heard /\ K!Visited[0].queued = 0
    BY VisitedIs
  <2>2. Owed(heard["OK"]) => keys["OK"].pressed
    BY OrderOfNames DEF PanelInv, Owed, Says
  <2>3. Fine(K!Visited[0]) BY <1>2, <2>1, <2>2 DEF PanelInv, Fine
  <2>4. \A b \in K!Names : To(0, b) = Says(keys[b]) OBVIOUS
  <2> HIDE DEF To
  <2> QED BY <2>1, <2>3, <2>4 DEF PanelInv
<1>4. ASSUME NEW i \in 1 .. n, Right(i - 1) PROVE Right(i)
  <2> DEFINE x == K!Visited[i - 1]
             y == K!Visited[i]
             b == Order[i]
  <2>1. b \in K!Names /\ y = K!ToldOf(x, b) BY OrderOfNames, VisitedIs
  <2>2. i - 1 \in Nat /\ i \in Nat /\ i <= n BY <1>1
  <2>3. ~ \E j \in 1 .. i - 1 : b = Order[j]
    <3> SUFFICES ASSUME NEW j \in 1 .. i - 1, b = Order[j] PROVE FALSE OBVIOUS
    <3>1. j \in 1 .. n /\ i \in 1 .. n /\ j # i BY <1>1
    <3> HIDE DEF n
    <3> QED BY <3>1, OrderOfNames DEF n
  <2>4. x.h[b].believed = Says(keys[b]) BY <1>4, <2>1, <2>3
  <2>5. x.queued + 2 <= EventCapacity
    <3>1. x.queued \in Nat /\ x.queued <= 2 * (i - 1) BY <1>4 DEF Fine
    <3>2. EventCapacity \in Nat /\ EventCapacity >= 2 * n BY TimesOfButtons
    <3> HIDE DEF x, n
    <3> QED BY <1>1, <2>2, <3>1, <3>2
  <2>6. keys \in [K!Names -> Debounced] BY DEF PanelInv
  <2>7. Fine(x) BY <1>4
  <2> HIDE DEF x, y, b
  <2>8. /\ Fine(y) /\ y.queued <= x.queued + 2
        /\ \A c \in K!Names : c # b => y.h[c] = x.h[c]
        /\ y.h[b].believed = Says(After(b))
    BY <1>2, <2>1, <2>4, <2>5, <2>6, <2>7, ToldOfFine
  <2>9. y.queued <= 2 * i
    <3>1. x.queued \in Nat /\ y.queued \in Nat /\ x.queued <= 2 * (i - 1)
      BY <1>4, <2>7, <2>8 DEF Fine, x
    <3> QED BY <2>2, <2>8, <3>1
  <2>10. ASSUME NEW c \in K!Names PROVE y.h[c].believed = To(i, c)
    <3>1. CASE c = b
      <4>1. \E j \in 1 .. i : c = Order[j] BY <1>1, <3>1 DEF b
      <4> QED BY <2>8, <3>1, <4>1
    <3>2. CASE c # b
      <4>1. (\E j \in 1 .. i : c = Order[j]) <=> (\E j \in 1 .. i - 1 : c = Order[j])
        <5>1. \A j \in 1 .. i : j = i \/ j \in 1 .. i - 1 BY <2>2
        <5>2. 1 .. i - 1 \subseteq 1 .. i BY <2>2
        <5> QED BY <3>2, <5>1, <5>2 DEF b
      <4>2. To(i, c) = To(i - 1, c) BY <4>1
      <4>3. x.h[c].believed = To(i - 1, c) BY <1>4 DEF x
      <4> QED BY <2>8, <3>2, <4>2, <4>3
    <3> QED BY <3>1, <3>2
  <2> QED BY <2>8, <2>9, <2>10 DEF y
<1>5. Wrong = {}
  <2> SUFFICES ASSUME Wrong # {} PROVE FALSE OBVIOUS
  <2>1. Wrong \subseteq Nat BY <1>1
  <2>2. PICK i \in Wrong : \A j \in Wrong : ~ (<<j, i>> \in OpToRel(<, Nat))
    <3> HIDE DEF Wrong
    <3> QED BY <2>1, NatLessThanWellFounded, WFMin
  <2>3. i \in 0 .. n /\ ~Right(i) OBVIOUS
  <2> HIDE DEF Right
  <2>4. i \in 1 .. n /\ i - 1 \in 0 .. n /\ i - 1 \in Nat /\ i \in Nat /\ i - 1 < i
    BY <1>1, <1>3, <2>3
  <2>5. ~Right(i - 1) BY <1>4, <2>3, <2>4
  <2>6. i - 1 \in Wrong BY <2>4, <2>5
  <2>7. <<i - 1, i>> \in OpToRel(<, Nat) BY <2>4 DEF OpToRel
  <2> HIDE DEF Wrong
  <2> QED BY <2>2, <2>6, <2>7
<1>6. Right(n)
  <2> HIDE DEF Right
  <2> QED BY <1>1, <1>5
<1>7. \A b \in K!Names : To(n, b) = Says(After(b)) BY OrderOfNames
<1> HIDE DEF To
<1> QED BY <1>6, <1>7

(* What a pass makes of a button whose press is owed its menu: it is still *)
(* pressed and was told of, or it was pressed in this pass.                *)
LEMMA OwedAfter ==
    ASSUME keys \in [K!Names -> Debounced], NEW b \in K!Names, Says(After(b)) = "DOWN"
    PROVE  IF keys[b].pressed
           THEN /\ After(b).held = keys[b].held
                /\ keys[b].held >= LongTime =>
                      /\ ~After(b).raw /\ After(b).age < DebounceTime
                      /\ After(b).age = IF keys[b].raw THEN 0 ELSE keys[b].age
           ELSE After(b).held = 0
<1> DEFINE s == keys[b]
           p == K!At(b)
           c == K!Changed(p)
           n == K!Updated(c)
           closed == b \in contacts
<1>1. s \in Debounced /\ p = K!Sampled(s, closed) /\ closed \in BOOLEAN
  BY DEF K!At
<1>2. After(b) = n BY DEF After
<1> HIDE DEF s, p, closed
<1>3. /\ p \in Debounced /\ p.raw = closed /\ p.pressed = s.pressed
      /\ p.held = s.held /\ p.age = (IF closed = s.raw THEN s.age ELSE 0)
  BY <1>1, SampledEffect
<1>4. c \in Debounced /\ (~K!Changes(p) => c = p)
  BY <1>3, ChangedEffect
<1>5. K!Changes(p) => p.raw # p.pressed /\ (c.pressed <=> p.raw) /\ c.held = 0
  BY <1>3, ChangedEffect
<1> HIDE DEF c
<1>6. /\ n \in Debounced /\ n.pressed = c.pressed /\ n.raw = c.raw /\ n.age = c.age
      /\ n.held = c.held /\ (n.long_sent <=> c.long_sent \/ K!GoesLong(c))
  BY <1>4, UpdatedEffect
<1> HIDE DEF n
<1>7. /\ p.raw \in BOOLEAN /\ p.pressed \in BOOLEAN /\ c.raw \in BOOLEAN
      /\ c.pressed \in BOOLEAN /\ c.long_sent \in BOOLEAN /\ c.held \in Nat /\ p.age \in Nat
      /\ s.raw \in BOOLEAN /\ s.held \in Nat /\ s.pressed \in BOOLEAN
  BY <1>1, <1>3, <1>4, DebouncedFields
<1>8. n.pressed /\ ~n.long_sent BY <1>2 DEF Says
<1>9. CASE K!Changes(p)
  <2>1. ~s.pressed BY <1>3, <1>5, <1>6, <1>7, <1>8, <1>9
  <2> QED BY <1>2, <1>5, <1>6, <1>9, <2>1 DEF s
<1>10. CASE ~K!Changes(p)
  <2>1. c = p /\ s.pressed BY <1>3, <1>4, <1>6, <1>8, <1>10
  <2>2. s.held >= LongTime => ~p.raw BY <1>3, <1>6, <1>7, <1>8, <2>1, TimesOfButtons DEF K!GoesLong
  <2>3. ~p.raw => p.age < DebounceTime
    <3>1. ~p.raw => p.raw # p.pressed BY <1>3, <1>7, <2>1
    <3> QED BY <1>7, <1>10, <3>1, TimesOfButtons DEF K!Changes
  <2>4. ~p.raw => p.age = IF s.raw THEN 0 ELSE s.age BY <1>3, <1>7
  <2> QED BY <1>2, <1>3, <1>6, <2>1, <2>2, <2>3, <2>4 DEF s
<1> QED BY <1>9, <1>10

(* A pass.                                                                 *)
LEMMA PassKeeps == ASSUME PanelInv, K!Pass PROVE PanelInv'
<1> DEFINE x == K!Visited[Len(Order)]
           s == keys["OK"]
           n == After("OK")
           k == x.h["OK"]
<1>1. "OK" \in K!Names BY OrderOfNames
<1>2. /\ keys' = [b \in K!Names |-> After(b)] /\ heard' = x.h /\ stall' = 0
      /\ \E mode \in {"FORCED", "NEVER", "TIMED"} : user' = K!Lit(x.u, mode)
  BY DEF K!Pass, After
<1>3. Fine(x) /\ \A b \in K!Names : x.h[b].believed = Says(After(b)) BY VisitedFine
<1> HIDE DEF x
<1>4. /\ x.u \in Users /\ x.h \in [K!Names -> Stories] /\ Meets(x.u, k)
      /\ Owed(k) => IF s.pressed THEN Owed(heard["OK"]) /\ x.u.idle <= user.idle
                    ELSE x.u.idle = 0
  BY <1>3 DEF Fine
<1>5. keys \in [K!Names -> Debounced] /\ user.idle \in Nat /\ x.u.idle \in Nat
      /\ stall \in 0 .. MaxStall
  BY <1>4 DEF PanelInv, Users
<1>6. keys' \in [K!Names -> Debounced]
  <2>1. ASSUME NEW b \in K!Names PROVE After(b) \in Debounced
    <3>1. keys[b] \in Debounced /\ (b \in contacts) \in BOOLEAN BY <1>5
    <3>2. K!At(b) \in Debounced BY <3>1, SampledEffect DEF K!At
    <3>3. K!Changed(K!At(b)) \in Debounced BY <3>2, ChangedEffect
    <3> QED BY <3>3, UpdatedEffect DEF After
  <2> QED BY <1>2, <2>1
<1>7. \A b \in K!Names : heard'[b].believed = Says(keys'[b]) BY <1>2, <1>3
<1>8. Owed(k) => Awake(n, x.u, 0) /\ x.u.idle < SleepTime
  <2> SUFFICES ASSUME Owed(k) PROVE Awake(n, x.u, 0) /\ x.u.idle < SleepTime OBVIOUS
  <2>1. Says(n) = "DOWN" BY <1>1, <1>3 DEF Owed
  <2>2. s \in Debounced BY <1>1, <1>5
  <2>3. s.raw \in BOOLEAN /\ s.held \in Nat /\ s.age \in Nat BY <2>2, DebouncedFields
  <2>4. /\ LongTime \in Nat /\ LongTime > 0 /\ MaxStall \in Nat /\ DebounceTime \in Nat
        /\ SleepTime \in Nat /\ LongTime + DebounceTime + MaxStall < SleepTime
    BY TimesOfButtons, PanelAssumption DEF K!ButtonsAssumption
  <2>5. CASE ~s.pressed
    <3>1. n.held = 0 BY <1>1, <1>5, <2>1, <2>5, OwedAfter
    <3> QED BY <1>4, <2>4, <2>5, <3>1 DEF Awake
  <2>6. CASE s.pressed
    <3>1. /\ n.held = s.held
          /\ s.held >= LongTime =>
                ~n.raw /\ n.age < DebounceTime /\ n.age = IF s.raw THEN 0 ELSE s.age
      BY <1>1, <1>5, <2>1, <2>6, OwedAfter
    <3>2. Awake(s, user, stall) /\ x.u.idle <= user.idle BY <1>4, <2>6 DEF PanelInv
    <3> HIDE DEF s, n
    <3>3. CASE s.held < LongTime BY <1>5, <2>3, <2>4, <3>1, <3>2, <3>3 DEF Awake
    <3>4. CASE s.held >= LongTime /\ s.raw BY <1>5, <2>3, <2>4, <3>1, <3>2, <3>4 DEF Awake
    <3>5. CASE s.held >= LongTime /\ ~s.raw BY <1>5, <2>3, <2>4, <3>1, <3>2, <3>5 DEF Awake
    <3> QED BY <2>3, <2>4, <3>3, <3>4, <3>5
  <2> QED BY <2>5, <2>6
<1>9. /\ user' \in Users
      /\ user'.consumes = x.u.consumes /\ user'.armed = x.u.armed
      /\ user'.long_seen = x.u.long_seen
      /\ user'.idle = x.u.idle \/ user'.idle = 0
      /\ x.u.idle < SleepTime => (user'.sleeping => x.u.sleeping)
  <2>1. CASE user' = [x.u EXCEPT !.sleeping = FALSE, !.idle = 0]
    <3>1. user' \in Users
      <4>1. FALSE \in BOOLEAN /\ 0 \in Nat OBVIOUS
      <4> QED BY <1>4, <2>1, <4>1, Zenon DEF Users
    <3>2. /\ user'.consumes = x.u.consumes /\ user'.armed = x.u.armed
          /\ user'.long_seen = x.u.long_seen /\ user'.idle = 0 /\ user'.sleeping = FALSE
      BY <1>4, <2>1 DEF Users
    <3> QED BY <3>1, <3>2
  <2>2. CASE user' = x.u BY <1>4, <2>2
  <2>3. CASE user' = [x.u EXCEPT !.sleeping = @ \/ x.u.idle >= SleepTime]
    <3> DEFINE asleep == x.u.sleeping \/ x.u.idle >= SleepTime
    <3>1. asleep \in BOOLEAN BY <1>4 DEF Users
    <3>2. user' = [x.u EXCEPT !.sleeping = asleep] BY <2>3
    <3>3. asleep => x.u.sleeping \/ ~(x.u.idle < SleepTime) BY <1>5, TimesOfButtons
    <3> HIDE DEF asleep
    <3>4. user' \in Users BY <1>4, <3>1, <3>2 DEF Users
    <3>5. /\ user'.consumes = x.u.consumes /\ user'.armed = x.u.armed
          /\ user'.long_seen = x.u.long_seen /\ user'.idle = x.u.idle /\ user'.sleeping = asleep
      BY <1>4, <3>2 DEF Users
    <3> QED BY <3>3, <3>4, <3>5
  <2> QED BY <1>2, <2>1, <2>2, <2>3 DEF K!Lit
<1>10. Meets(user', k) BY <1>4, <1>8, <1>9 DEF Meets, Owed
<1>11. Owed(k) => Awake(n, user', 0)
  <2>1. user'.idle \in Nat /\ user'.idle <= x.u.idle BY <1>5, <1>9
  <2>2. n \in Debounced BY <1>1, <1>2, <1>6
  <2>3. n.held \in Nat /\ n.age \in Nat BY <2>2, DebouncedFields
  <2>4. LongTime \in Nat /\ MaxStall \in Nat /\ DebounceTime \in Nat BY TimesOfButtons
  <2> HIDE DEF n
  <2> QED BY <1>5, <1>8, <2>1, <2>3, <2>4 DEF Awake
<1>12. heard'["OK"] = k /\ keys'["OK"] = n BY <1>1, <1>2
<1>13. stall' \in 0 .. MaxStall BY <1>2, TimesOfButtons
<1> QED BY <1>2, <1>4, <1>6, <1>7, <1>9, <1>10, <1>11, <1>12, <1>13 DEF PanelInv

(* A click from the PC: no menu is owed then, and OK is let go again.      *)
LEMMA ClickKeeps == ASSUME PanelInv, K!SerialClick PROVE PanelInv'
<1> DEFINE w == K!Handled(user, KeyEvent("OK", "PRESS"))
           v == K!Handled(w, KeyEvent("OK", "RELEASE"))
           k == heard["OK"]
<1>1. /\ "OK" \in K!Names /\ "NONE" \notin K!Names
      /\ "PRESS" \in EventTypes /\ "RELEASE" \in EventTypes
  BY OrderOfNames DEF EventTypes
<1>2. user' = v /\ ~user.armed /\ UNCHANGED <<contacts, keys, stall, heard>>
  BY DEF K!SerialClick, KeyEvent
<1>3. /\ user.sleeping \in BOOLEAN /\ user.consumes \in K!Names \cup {"NONE"}
      /\ user.armed \in BOOLEAN /\ user.long_seen \in BOOLEAN /\ user \in Users
  BY DEF PanelInv, Users
<1>4. w \in Users BY <1>1, <1>3, HandledEffect
<1>5. w.sleeping \in BOOLEAN /\ w.armed \in BOOLEAN /\ w.consumes \in K!Names \cup {"NONE"}
  BY <1>4 DEF Users
<1>6. w.consumes # "NONE" /\ w.consumes # "OK" => ~user.sleeping /\ w = user
  BY <1>1, <1>3, HandledEffect
<1>7. w.consumes = "OK" /\ user.consumes = "NONE" => user.sleeping
  BY <1>1, <1>3, HandledEffect
<1>8. v \in Users BY <1>1, <1>4, HandledEffect
<1>9. v.consumes = "NONE" => ~v.armed
  <2> HIDE DEF w
  <2> QED BY <1>1, <1>4, <1>5, HandledEffect
<1>10. Meets(user, k) /\ ~Owed(k) BY <1>2 DEF PanelInv, Meets, Owed
<1>11. Meets(v, k) BY <1>9, <1>10 DEF Meets, Owed
<1> HIDE DEF v
<1> QED BY <1>2, <1>8, <1>10, <1>11 DEF PanelInv

(* Time passes.                                                            *)
LEMMA TickKeeps == ASSUME PanelInv, K!Tick PROVE PanelInv'
<1> DEFINE s == keys["OK"]
           Aged(b) == [keys[b] EXCEPT
                         !.age = K!Least(@ + 1, DebounceTime),
                         !.held = IF keys[b].pressed THEN K!Least(@ + 1, LongTime) ELSE @,
                         !.repeat = IF keys[b].pressed /\ @ > -RepeatPeriod THEN @ - 1 ELSE @]
           n == Aged("OK")
<1>1. /\ keys' = [b \in K!Names |-> Aged(b)] /\ stall < MaxStall /\ stall' = stall + 1
      /\ user' = [user EXCEPT !.idle = K!Least(@ + 1, SleepTime)] /\ heard' = heard
  BY DEF K!Tick
<1>2. /\ DebounceTime \in Nat /\ LongTime \in Nat /\ LongTime > 0 /\ SleepTime \in Nat
      /\ MaxStall \in Nat
  BY TimesOfButtons
<1>3. ASSUME NEW b \in K!Names
      PROVE  /\ Aged(b) \in Debounced /\ Says(Aged(b)) = Says(keys[b])
             /\ Aged(b).raw = keys[b].raw
             /\ Aged(b).age = K!Least(keys[b].age + 1, DebounceTime)
             /\ keys[b].pressed => Aged(b).held = K!Least(keys[b].held + 1, LongTime)
  <2> DEFINE c == keys[b]
             age == K!Least(c.age + 1, DebounceTime)
             held == IF c.pressed THEN K!Least(c.held + 1, LongTime) ELSE c.held
             repeat == IF c.pressed /\ c.repeat > -RepeatPeriod THEN c.repeat - 1 ELSE c.repeat
             a == Aged(b)
  <2>1. c \in Debounced BY DEF PanelInv
  <2>2. a = [c EXCEPT !.age = age, !.held = held, !.repeat = repeat] OBVIOUS
  <2> HIDE DEF a, c
  <2>3. c.age \in Nat /\ c.held \in Nat /\ c.repeat \in Int BY <2>1, DebouncedFields
  <2>4. age \in Nat /\ held \in Nat /\ repeat \in Int BY <1>2, <2>3 DEF K!Least
  <2>5. c.pressed => held = K!Least(c.held + 1, LongTime) OBVIOUS
  <2>6. age = K!Least(c.age + 1, DebounceTime) OBVIOUS
  <2> HIDE DEF age, held, repeat
  <2>7. /\ a \in Debounced /\ a.raw = c.raw /\ a.pressed = c.pressed
        /\ a.long_sent = c.long_sent /\ a.age = age /\ a.held = held
    BY <2>1, <2>2, <2>4 DEF Debounced
  <2>8. Says(a) = Says(c) BY <2>7 DEF Says
  <2> QED BY <2>5, <2>6, <2>7, <2>8 DEF a, c
<1> HIDE DEF Aged
<1>4. keys' \in [K!Names -> Debounced] BY <1>1, <1>3
<1>5. /\ user' \in Users /\ user'.idle <= user.idle + 1
      /\ user'.sleeping = user.sleeping /\ user'.consumes = user.consumes
      /\ user'.armed = user.armed /\ user'.long_seen = user.long_seen
  <2> DEFINE idle == K!Least(user.idle + 1, SleepTime)
  <2>1. user \in Users /\ user.idle \in Nat BY DEF PanelInv, Users
  <2>2. idle \in Nat /\ idle <= user.idle + 1 BY <1>2, <2>1 DEF K!Least
  <2>3. user' = [user EXCEPT !.idle = idle] BY <1>1
  <2> HIDE DEF idle
  <2> QED BY <2>1, <2>2, <2>3 DEF Users
<1>6. \A b \in K!Names : heard'[b].believed = Says(keys'[b]) BY <1>1, <1>3 DEF PanelInv
<1>7. Meets(user', heard'["OK"]) BY <1>1, <1>5 DEF PanelInv, Meets
<1>8. ASSUME Owed(heard["OK"]) PROVE Awake(n, user', stall')
  <2>1. "OK" \in K!Names BY OrderOfNames
  <2>2. s \in Debounced /\ s.pressed /\ Awake(s, user, stall)
    BY <1>8, <2>1 DEF PanelInv, Owed, Says
  <2>3. s.age \in Nat /\ s.held \in Nat /\ s.raw \in BOOLEAN BY <2>2, DebouncedFields
  <2>4. /\ n.raw = s.raw /\ n.age = K!Least(s.age + 1, DebounceTime)
        /\ n.held = K!Least(s.held + 1, LongTime)
    BY <1>3, <2>1, <2>2
  <2>5. user.idle \in Nat /\ user'.idle \in Nat /\ stall \in Nat /\ stall' = stall + 1
        /\ stall' <= MaxStall
    BY <1>1, <1>2, <1>5 DEF PanelInv, Users
  <2> HIDE DEF s, n
  <2>6. CASE s.held < LongTime
    <3>1. user.idle <= s.held BY <2>2, <2>6 DEF Awake
    <3>2. n.held = s.held + 1 /\ n.age \in Nat BY <1>2, <2>3, <2>4, <2>6 DEF K!Least
    <3> QED BY <1>2, <1>5, <2>3, <2>4, <2>5, <2>6, <3>1, <3>2 DEF Awake
  <2>7. CASE s.held >= LongTime /\ s.raw
    <3>1. user.idle <= LongTime - 1 + stall BY <1>2, <2>2, <2>3, <2>7 DEF Awake
    <3>2. n.held = LongTime BY <1>2, <2>3, <2>4, <2>7 DEF K!Least
    <3> QED BY <1>2, <1>5, <2>3, <2>4, <2>5, <2>7, <3>1, <3>2 DEF Awake
  <2>8. CASE s.held >= LongTime /\ ~s.raw
    <3>1. s.age < DebounceTime => user.idle <= LongTime - 1 + MaxStall + s.age
      BY <1>2, <2>2, <2>3, <2>8 DEF Awake
    <3>2. n.held = LongTime BY <1>2, <2>3, <2>4, <2>8 DEF K!Least
    <3>3. n.age < DebounceTime => n.age = s.age + 1 /\ s.age < DebounceTime
      BY <1>2, <2>3, <2>4 DEF K!Least
    <3>4. n.age < DebounceTime => user'.idle <= LongTime - 1 + MaxStall + n.age
      BY <1>2, <1>5, <2>3, <2>5, <3>1, <3>3
    <3> QED BY <1>2, <2>3, <2>4, <2>8, <3>2, <3>4 DEF Awake
  <2> QED BY <1>2, <2>3, <2>6, <2>7, <2>8
<1>9. stall' \in 0 .. MaxStall BY <1>1, <1>2 DEF PanelInv
<1>10. keys'["OK"] = n BY <1>1, OrderOfNames
<1>11. Owed(heard'["OK"]) => Awake(keys'["OK"], user', stall') BY <1>1, <1>8, <1>10
<1> QED BY <1>1, <1>4, <1>5, <1>6, <1>7, <1>9, <1>11 DEF PanelInv

(* Where the buttons start.                                                *)
LEMMA PanelInit == ASSUME K!Init PROVE PanelInv
<1>1. DebounceTime \in Nat /\ MaxStall \in Nat BY TimesOfButtons
<1>2. keys \in [K!Names -> Debounced] /\ \A b \in K!Names : Says(keys[b]) = "UP"
  BY <1>1 DEF K!Init, Debounced, Says
<1>3. user \in Users BY DEF K!Init, Users
<1>4. /\ heard \in [K!Names -> Stories]
      /\ \A b \in K!Names : heard[b].believed = "UP" /\ heard[b].spent /\ heard[b].acts = 0
  BY DEF K!Init, Stories
<1>5. stall \in 0 .. MaxStall BY <1>1 DEF K!Init
<1> QED BY <1>2, <1>3, <1>4, <1>5, OrderOfNames DEF PanelInv, Meets, Owed

(* Every step of the buttons.                                              *)
LEMMA PanelNext == ASSUME PanelInv, [K!Next]_(K!vars) PROVE PanelInv'
<1>1. CASE K!Contact BY <1>1 DEF K!Contact, PanelInv
<1>2. CASE UNCHANGED K!vars BY <1>2 DEF K!vars, PanelInv
<1> QED BY <1>1, <1>2, PassKeeps, ClickKeeps, TickKeeps DEF K!Next

(* What must hold of the buttons follows.                                  *)
LEMMA PanelInvHonest == PanelInv => K!EventsFaithful /\ K!PressActsOnce
<1> SUFFICES ASSUME PanelInv PROVE K!EventsFaithful /\ K!PressActsOnce OBVIOUS
<1>1. K!EventsFaithful BY DEF PanelInv, Says, K!EventsFaithful
<1>2. heard["OK"].believed = Says(keys["OK"]) /\ Meets(user, heard["OK"])
  BY OrderOfNames DEF PanelInv
<1>3. K!PressActsOnce BY <1>2 DEF Meets, Says, K!PressActsOnce
<1> QED BY <1>1, <1>3

(* No event of a button is lost, repeated or out of its order, and a press *)
(* of OK acts once, or not at all when it woke the display, however slow   *)
(* the passes and whatever the other buttons, the sleep of the display and *)
(* the PC do (buttons.c, app_product.c, app_serial_ui.c).                  *)
THEOREM ButtonsAreHonest == FailuresSpec => []K!EventsFaithful /\ []K!PressActsOnce
<1>1. FailuresInit => PanelInv BY PanelInit DEF FailuresInit
<1>2. PanelInv /\ [FailuresNext]_<<which, vars, bench, buttons, tones>> => PanelInv'
  <2> SUFFICES ASSUME PanelInv, [FailuresNext]_<<which, vars, bench, buttons, tones>>
               PROVE  PanelInv'
    OBVIOUS
  <2>1. [K!Next]_(K!vars)
    BY DEF FailuresNext, OfProduct, OfBench, OfButtons, OfTones, buttons, K!vars
  <2> QED BY <2>1, PanelNext
<1>3. PanelInv => K!EventsFaithful /\ K!PressActsOnce BY PanelInvHonest
<1> QED BY <1>1, <1>2, <1>3, PTL DEF FailuresSpec

(* What is pressed and what is heard, but for a fault that is heard in the *)
(* end, is as it should be (buttons.c, app_product.c, app_feedback.c,      *)
(* hw_buzzer_policy.c).                                                    *)
THEOREM PanelIsSafe == FailuresSpec => PanelSafe
BY ButtonsAreHonest, TonesAreHonest DEF PanelSafe
=============================================================================
