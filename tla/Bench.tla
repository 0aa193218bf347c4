------------------------------- MODULE Bench --------------------------------
(***************************************************************************)
(* The bring-up console (app_bringup_console.c) and the raw capture it     *)
(* runs (hw_metrology_session.c): one bench, one converter, one range      *)
(* multiplexer, one workspace and one flash chip, shared by a capture and  *)
(* the dump of its samples, the dump of a calibration frame, the self-test *)
(* of the flash, and by the commands the operator types between any two    *)
(* passes of the main loop.                                                *)
(* Time is what it decides: a wait is over or is not (Elapse).  Every call *)
(* of the hardware that returns a status may fail.                         *)
(***************************************************************************)
EXTENDS Integers

VARIABLES cap, hw, job, test
vars == <<cap, hw, job, test>>

CaptureStates ==
    {"IDLE", "FORCE_K1_SAFE", "RANGE_REQUEST", "RANGE_WAIT", "QUIET_ENTER", "AUX_PAUSE", "ADC_ACQUIRE",
     "EXC_NEUTRAL", "EXC_NEUTRAL_WAIT", "EXC_SINE_START", "EXC_SETTLE", "ADC_DMA_START", "ADC_DMA_WAIT",
     "ADC_DMA_COMPLETE", "EXC_OFF", "ADC_RELEASE", "AUX_RESTORE", "AUX_RESUME", "RANGE_DISABLE", "QUIET_EXIT",
     "ANALYZE", "DONE", "ABORT"}
CaptureWaits == {"RANGE_WAIT", "EXC_NEUTRAL_WAIT", "EXC_SETTLE", "ADC_DMA_WAIT"}
(* SAFETY: of the relay or of the range multiplexer.                       *)
Faults == {"SAFETY", "ADC", "METROLOGY"}
Captures ==
    [st : CaptureStates, quiet_held : BOOLEAN, aux_paused : BOOLEAN, adc_owned : BOOLEAN,
     restore_failed : BOOLEAN, dma_complete : BOOLEAN, valid : BOOLEAN, late : BOOLEAN]
(* exc: the excitation; adc: who has the converter, and whether it samples *)
(* into the workspace.                                                     *)
Hardware ==
    [range : {"DISABLED", "MOVING", "READY", "INVALID"}, quiet : BOOLEAN, aux : {"RUN", "PAUSED"},
     adc : {"AUX", "ACQUIRED", "SAMPLING"}, exc : {"OFF", "NEUTRAL", "SINE"}, faults : SUBSET Faults]
(* owner: of the workspace; raw: what it holds; dump, frame: the samples,  *)
(* the calibration frame are being sent.                                   *)
Jobs ==
    [owner : {"FREE", "METROLOGY", "STORE"}, raw : {"OTHER", "SAMPLES", "FRAME"}, dump : BOOLEAN, frame : BOOLEAN]
TestStates ==
    {"IDLE", "ERASE_START", "ERASE_WAIT", "VERIFY_ERASE", "PROGRAM_START", "PROGRAM_WAIT", "READBACK",
     "CLEANUP_START", "CLEANUP_WAIT", "COMPLETE", "ERROR"}
Waits == {"ERASE_WAIT", "PROGRAM_WAIT", "CLEANUP_WAIT"}
Operations == {"NONE", "ERASE", "PROGRAM"}
(* op: what the driver believes the chip is doing; chip: what it does;     *)
(* sector: what the reserved sector holds; done is history: what has been  *)
(* done to it since the test began.                                        *)
Tests ==
    [st : TestStates, busy_observed : BOOLEAN, op : Operations, chip : Operations,
     sector : {"ERASED", "PATTERN", "BAD"}, late : BOOLEAN, done : SUBSET {"ERASE", "PROGRAM"}]
Commands == {"capture", "range", "range off", "quiet on", "quiet off", "selftest", "cal frame"}

Init ==
    /\ cap = [st |-> "IDLE", quiet_held |-> FALSE, aux_paused |-> FALSE, adc_owned |-> FALSE,
              restore_failed |-> FALSE, dma_complete |-> FALSE, valid |-> FALSE, late |-> FALSE]
    /\ hw = [range |-> "DISABLED", quiet |-> FALSE, aux |-> "RUN", adc |-> "AUX", exc |-> "OFF", faults |-> {}]
    /\ job = [owner |-> "FREE", raw |-> "OTHER", dump |-> FALSE, frame |-> FALSE]
    /\ test = [st |-> "IDLE", busy_observed |-> FALSE, op |-> "NONE", chip |-> "NONE", sector |-> "ERASED",
               late |-> FALSE, done |-> {}]
Here == [cap |-> cap, hw |-> hw, job |-> job, test |-> test]
Becomes(x) == cap' = x.cap /\ hw' = x.hw /\ job' = x.job /\ test' = x.test
-----------------------------------------------------------------------------
(* hw_metrology_session.c                                                  *)
Active(x) == x.cap.st \notin {"IDLE", "DONE"}
Latched(x, fault) == [x EXCEPT !.hw.faults = @ \cup {fault}]
To(x, st) == [x EXCEPT !.cap.st = st, !.cap.late = FALSE]
Aborting(x) == [x EXCEPT !.cap.st = "ABORT", !.cap.valid = FALSE]
(* hw_range_force_disabled, bsp_excitation_off: done, or failed and latched. *)
RangeFails(x) == Latched([x EXCEPT !.hw.range = "INVALID"], "SAFETY")
RangeOff(x) == {[x EXCEPT !.hw.range = "DISABLED"], RangeFails(x)}
ExcitationOff(x) == {[x EXCEPT !.hw.exc = "OFF"], Latched(x, "METROLOGY")}
K1Safe(x) == {x, Latched(x, "SAFETY")}
Stopped(x) == [x EXCEPT !.hw.adc = IF @ = "SAMPLING" THEN "ACQUIRED" ELSE @]
(* note_adc_restore_result: a failure is latched once and kept.            *)
RestoreFails(x) ==
    [(IF x.cap.restore_failed THEN x ELSE Latched(x, "ADC")) EXCEPT
        !.cap.restore_failed = TRUE]
AuxResumed(x) == [x EXCEPT !.hw.aux = "RUN", !.cap.aux_paused = FALSE]
Restored(x) ==
    IF ~(x.cap.adc_owned \/ x.cap.aux_paused) THEN {x}
    ELSE {[RestoreFails(x) EXCEPT !.cap.adc_owned = FALSE],
          LET y == [x EXCEPT !.hw.adc = "AUX", !.cap.adc_owned = FALSE]
          IN  IF x.cap.aux_paused THEN AuxResumed(y) ELSE y}
QuietReleased(x) ==
    IF x.cap.quiet_held THEN [x EXCEPT !.hw.quiet = FALSE, !.cap.quiet_held = FALSE] ELSE x
(* fail_safe_shutdown: every step is taken, whichever of them fails.       *)
(* Seeded fault: the rest is left undone when the excitation will not stop. *)
(* What nothing reads before the next start clears it is cleared here.     *)
Rested(x) ==
    [x EXCEPT !.cap.st = "IDLE", !.cap.late = FALSE, !.cap.valid = FALSE, !.cap.dma_complete = FALSE,
              !.cap.restore_failed = FALSE]
Ended(x) == Rested(QuietReleased(x))
ShutDownHasty(x) ==
    UNION {IF "METROLOGY" \in y.hw.faults THEN {Ended(y)}
           ELSE {Ended(u) : u \in UNION {Restored(w) : w \in UNION {RangeOff(v) : v \in K1Safe(y)}}} :
           y \in ExcitationOff(Stopped(x))}
ShutDown(x) ==
    {Ended(u) : u \in UNION {Restored(w) : w \in UNION {RangeOff(v) : v \in
                      UNION {K1Safe(y) : y \in ExcitationOff(Stopped(x))}}}}

(* step_success_path: what one step does in each state.                    *)
ForceK1Safe(x) == {To(x, "RANGE_REQUEST"), Aborting(Latched(x, "SAFETY"))}
RangeRequest(x) == {[To(x, "RANGE_WAIT") EXCEPT !.hw.range = "MOVING"], Aborting([x EXCEPT !.hw.range = "INVALID"])}
(* hw_range_step: the enable that follows the dead time may not be         *)
(* written, and a failed driver keeps saying so; the super-loop latches it. *)
RangeStepped(x) ==
    {x} \cup (IF x.hw.range = "MOVING"
              THEN {[x EXCEPT !.hw.range = r] : r \in {"READY", "INVALID"}} ELSE {})
RangeStep(x) ==
    {IF y.hw.range = "INVALID" THEN Latched(y, "SAFETY") ELSE y : y \in RangeStepped(x)}
RangeWait(x) ==
    {CASE y.hw.range = "READY" -> To(y, "QUIET_ENTER")
       [] y.hw.range = "INVALID" -> Aborting(y)
       [] OTHER -> IF y.cap.late THEN Aborting(y) ELSE y :
     y \in RangeStepped(x)}
QuietEnter(x) == {[To(x, "AUX_PAUSE") EXCEPT !.hw.quiet = TRUE, !.cap.quiet_held = TRUE]}
AuxPause(x) == {[To(x, "ADC_ACQUIRE") EXCEPT !.hw.aux = "PAUSED", !.cap.aux_paused = TRUE]}
AdcAcquire(x) ==
    LET y == [x EXCEPT !.cap.adc_owned = TRUE, !.hw.adc = "ACQUIRED"]
    IN  {To(y, "EXC_NEUTRAL"), Aborting(y)}
ExcNeutral(x) == {[To(x, "EXC_NEUTRAL_WAIT") EXCEPT !.hw.exc = "NEUTRAL"], Aborting(x)}
ExcNeutralWait(x) == {IF x.cap.late THEN To(x, "EXC_SINE_START") ELSE x}
ExcSineStart(x) == {[To(x, "EXC_SETTLE") EXCEPT !.hw.exc = "SINE"], Aborting(x)}
ExcSettle(x) == {Aborting(x), IF x.cap.late THEN To(x, "ADC_DMA_START") ELSE x}
AdcDmaStart(x) ==
    {[To(x, "ADC_DMA_WAIT") EXCEPT !.hw.adc = "SAMPLING", !.job.raw = "OTHER"], Aborting(x)}
AdcDmaWait(x) ==
    {Aborting(x),
     [To(x, "ADC_DMA_COMPLETE") EXCEPT !.cap.dma_complete = TRUE, !.job.raw = "SAMPLES"],
     IF x.cap.late THEN Aborting(x) ELSE x}
ExcOff(x) == {IF y.hw.exc = "OFF" THEN To(y, "ADC_RELEASE") ELSE Aborting(y) : y \in ExcitationOff(x)}
AuxRestore(x) ==
    {[To(x, "AUX_RESUME") EXCEPT !.hw.adc = "AUX", !.cap.adc_owned = FALSE], Aborting(RestoreFails(x))}
RangeDisable(x) ==
    {[To(x, "QUIET_EXIT") EXCEPT !.hw.range = "DISABLED"], Aborting(RangeFails(x))}
Analyze(x) == {[To(x, "DONE") EXCEPT !.cap.valid = x.cap.dma_complete /\ ~x.cap.restore_failed]}
SuccessPath(x) ==
    CASE x.cap.st = "FORCE_K1_SAFE" -> ForceK1Safe(x)
      [] x.cap.st = "RANGE_REQUEST" -> RangeRequest(x)
      [] x.cap.st = "RANGE_WAIT" -> RangeWait(x)
      [] x.cap.st = "QUIET_ENTER" -> QuietEnter(x)
      [] x.cap.st = "AUX_PAUSE" -> AuxPause(x)
      [] x.cap.st = "ADC_ACQUIRE" -> AdcAcquire(x)
      [] x.cap.st = "EXC_NEUTRAL" -> ExcNeutral(x)
      [] x.cap.st = "EXC_NEUTRAL_WAIT" -> ExcNeutralWait(x)
      [] x.cap.st = "EXC_SINE_START" -> ExcSineStart(x)
      [] x.cap.st = "EXC_SETTLE" -> ExcSettle(x)
      [] x.cap.st = "ADC_DMA_START" -> AdcDmaStart(x)
      [] x.cap.st = "ADC_DMA_WAIT" -> AdcDmaWait(x)
      [] x.cap.st = "ADC_DMA_COMPLETE" -> {To(Stopped(x), "EXC_OFF")}
      [] x.cap.st = "EXC_OFF" -> ExcOff(x)
      [] x.cap.st = "ADC_RELEASE" -> {To(Stopped(x), "AUX_RESTORE")}
      [] x.cap.st = "AUX_RESTORE" -> AuxRestore(x)
      [] x.cap.st = "AUX_RESUME" -> {To(AuxResumed(x), "RANGE_DISABLE")}
      [] x.cap.st = "RANGE_DISABLE" -> RangeDisable(x)
      [] x.cap.st = "QUIET_EXIT" -> {To(QuietReleased(x), "ANALYZE")}
      [] OTHER -> Analyze(x)
SessionStep(x) ==
    UNION {IF y.cap.st = "ABORT" THEN ShutDown(y) ELSE {y} : y \in SuccessPath(x)}
-----------------------------------------------------------------------------
(* The console's jobs.  lab_metrology_busy, app_bringup_console_flash_busy *)
MetrologyBusy(x) == x.cap.st # "IDLE" \/ x.job.dump \/ x.job.frame
FlashBusy(x) == x.test.st \notin {"IDLE", "COMPLETE", "ERROR"}
Released(x) == IF x.job.owner = "METROLOGY" THEN [x EXCEPT !.job.owner = "FREE", !.job.raw = "OTHER"] ELSE x
(* lab_step_metrology_capture: the samples are dumped when they are valid; *)
(* a capture that failed gives the workspace back.                         *)
CaptureOver(x) ==
    CASE x.cap.st = "DONE" /\ x.cap.valid -> [x EXCEPT !.job.dump = TRUE]
      [] x.cap.st = "DONE" /\ ~x.cap.valid -> Released(Rested(x))
      [] x.cap.st = "IDLE" -> Released(x)
      [] OTHER -> x
DumpStep(x) == {x, Released(Rested([x EXCEPT !.job.dump = FALSE]))}
MetrologyStep(x) ==
    CASE x.job.dump -> DumpStep(x)
      [] ~x.job.dump /\ Active(x) -> {CaptureOver(y) : y \in SessionStep(x)}
      [] OTHER -> {x}
(* lab_cal_frame_step: a row, the end, or a line the UART would not take.  *)
FrameStep(x) ==
    IF x.job.frame THEN {x, [x EXCEPT !.job.frame = FALSE, !.job.owner = "FREE", !.job.raw = "OTHER"]} ELSE {x}

(* w25q_device.c: a command starts the chip unless it is busy; while the   *)
(* bus is quiet it is refused - with the status of one that was started.   *)
Reached(x, op) ==
    IF x.test.chip # "NONE" THEN x
    ELSE [x EXCEPT !.test.chip = op, !.test.sector = "BAD"]
Start(x, op) ==
    IF x.test.op # "NONE" \/ x.hw.quiet THEN {[st |-> "BUSY", x |-> x]}
    ELSE {[st |-> "ERROR", x |-> x], [st |-> "ERROR", x |-> Reached(x, op)],
          [st |-> "BUSY", x |-> [Reached(x, op) EXCEPT !.test.op = op, !.test.late = FALSE]]}
Poll(x) ==
    LET none == [x EXCEPT !.test.op = "NONE", !.test.late = FALSE]
    IN  CASE x.test.op = "NONE" -> {[st |-> "OK", x |-> x]}
          [] x.test.op # "NONE" /\ x.hw.quiet -> {[st |-> "BUSY", x |-> x]}
          [] x.test.op # "NONE" /\ ~x.hw.quiet /\ x.test.chip = "NONE" ->
                {[st |-> "OK", x |-> none], [st |-> "ERROR", x |-> x]}
          [] OTHER -> {[st |-> "ERROR", x |-> x],
                       IF x.test.late THEN [st |-> "ERROR", x |-> none] ELSE [st |-> "BUSY", x |-> x]}
TestTo(x, st) == [x EXCEPT !.test.st = st]
(* The next start clears what it is about to read.                         *)
Failed(x) == [x EXCEPT !.test.st = "ERROR", !.test.busy_observed = FALSE, !.test.done = {}]
(* step_flash_selftest                                                     *)
Starting(x, op, st) == {IF r.st = "BUSY" THEN TestTo(r.x, st) ELSE Failed(r.x) : r \in Start(x, op)}
AfterWait(x) ==
    CASE x.test.st = "ERASE_WAIT" -> "VERIFY_ERASE"
      [] x.test.st = "PROGRAM_WAIT" -> "READBACK"
      [] OTHER -> "COMPLETE"
(* Seeded fault: it does not matter whether the chip was ever seen busy.   *)
WaitedBlind(r) ==
    CASE r.st = "BUSY" -> [r.x EXCEPT !.test.busy_observed = TRUE]
      [] r.st = "OK" -> [TestTo(r.x, AfterWait(r.x)) EXCEPT !.test.busy_observed = FALSE]
      [] OTHER -> Failed(r.x)
Waited(r) ==
    CASE r.st = "BUSY" -> [r.x EXCEPT !.test.busy_observed = TRUE]
      [] r.st = "OK" /\ r.x.test.busy_observed ->
            [TestTo(r.x, AfterWait(r.x)) EXCEPT !.test.busy_observed = FALSE]
      [] OTHER -> Failed(r.x)
Verified(x, content, st) ==
    {Failed(x)} \cup (IF ~x.hw.quiet /\ x.test.sector = content THEN {TestTo(x, st)} ELSE {})
TestStep(x) ==
    CASE x.test.st = "ERASE_START" -> Starting(x, "ERASE", "ERASE_WAIT")
      [] x.test.st \in Waits -> {Waited(r) : r \in Poll(x)}
      [] x.test.st = "VERIFY_ERASE" ->
            Verified([x EXCEPT !.test.done = IF ~x.hw.quiet /\ x.test.sector = "ERASED" THEN {"ERASE"} ELSE @],
                     "ERASED", "PROGRAM_START")
      [] x.test.st = "PROGRAM_START" -> Starting(x, "PROGRAM", "PROGRAM_WAIT")
      [] x.test.st = "READBACK" ->
            Verified([x EXCEPT !.test.done = IF ~x.hw.quiet /\ x.test.sector = "PATTERN"
                                             THEN @ \cup {"PROGRAM"} ELSE @], "PATTERN", "CLEANUP_START")
      [] x.test.st = "CLEANUP_START" -> Starting(x, "ERASE", "CLEANUP_WAIT")
      [] OTHER -> {x}
-----------------------------------------------------------------------------
(* run_command: what the operator types.                                   *)
Capture(x) ==
    IF FlashBusy(x) \/ MetrologyBusy(x) \/ x.job.owner # "FREE" THEN {x}
    ELSE {x,  \* refused: the clock, the amplitude or the arguments
          [To(x, "FORCE_K1_SAFE") EXCEPT !.job.owner = "METROLOGY", !.cap.restore_failed = FALSE,
                                         !.cap.valid = FALSE, !.cap.dma_complete = FALSE]}
Range(x) == {[x EXCEPT !.hw.range = "MOVING"], RangeFails(x)}
QuietOn(x) == IF FlashBusy(x) THEN {x} ELSE {[x EXCEPT !.hw.quiet = TRUE]}
SelfTest(x) ==
    IF x.hw.quiet \/ FlashBusy(x) THEN {x}
    ELSE {[TestTo(x, "ERASE_START") EXCEPT !.test.busy_observed = FALSE, !.test.done = {}]}
(* Seeded fault: the frame is put into the workspace whoever has it.       *)
CalFrameRude(x) ==
    IF FlashBusy(x) \/ x.hw.quiet THEN {x}
    ELSE {[x EXCEPT !.job.raw = "FRAME", !.job.owner = "STORE", !.job.frame = TRUE]}
CalFrame(x) ==
    IF FlashBusy(x) \/ MetrologyBusy(x) \/ x.hw.quiet \/ x.job.owner # "FREE" THEN {x}
    ELSE {x,  \* refused: nothing to encode, or the start line is not taken
          [x EXCEPT !.job.raw = "FRAME", !.job.owner = "STORE", !.job.frame = TRUE]}
Command(x, c) ==
    CASE x.job.frame -> {x}
      [] ~x.job.frame /\ c = "capture" -> Capture(x)
      [] ~x.job.frame /\ c = "range" -> Range(x)
      [] ~x.job.frame /\ c = "range off" -> RangeOff(x)
      [] ~x.job.frame /\ c = "quiet on" -> QuietOn(x)
      [] ~x.job.frame /\ c = "quiet off" -> {[x EXCEPT !.hw.quiet = FALSE]}
      [] ~x.job.frame /\ c = "selftest" -> SelfTest(x)
      [] ~x.job.frame /\ c = "cal frame" -> CalFrame(x)
      [] OTHER -> {x}
(* app_step: the range, the interlock that puts it off while a fault is    *)
(* latched, the console's jobs in their order; then every command that has *)
(* come in, and the poll of the flash while nothing of the console uses it. *)
Guarded(x) == IF x.hw.faults = {} THEN {x} ELSE RangeOff(x)
Through(S, F(_)) == UNION {F(x) : x \in S}
PassOf(x) ==
    Through(Through(Through(Through(Through({x}, RangeStep), Guarded), MetrologyStep), TestStep), FrameStep)
Pass == \E y \in PassOf(Here) : Becomes(y)
Type(c) == \E y \in Command(Here, c) : Becomes(y)
FlashPoll == ~FlashBusy(Here) /\ ~MetrologyBusy(Here) /\ \E r \in Poll(Here) : Becomes(r.x)
-----------------------------------------------------------------------------
(* Time goes on; the chip finishes what it does.                           *)
CaptureLate ==
    cap.st \in CaptureWaits /\ ~cap.late /\ cap' = [cap EXCEPT !.late = TRUE] /\ UNCHANGED <<hw, job, test>>
ChipLate ==
    test.op # "NONE" /\ ~test.late /\ test' = [test EXCEPT !.late = TRUE] /\ UNCHANGED <<cap, hw, job>>
Finish ==
    /\ test.chip # "NONE"
    /\ \E content \in {"BAD", IF test.chip = "ERASE" THEN "ERASED" ELSE "PATTERN"} :
          test' = [test EXCEPT !.chip = "NONE", !.sector = content]
    /\ UNCHANGED <<cap, hw, job>>
Next == Pass \/ (\E c \in Commands : Type(c)) \/ FlashPoll \/ CaptureLate \/ ChipLate \/ Finish
Spec == Init /\ [][Next]_vars
-----------------------------------------------------------------------------
TypeOK == cap \in Captures /\ hw \in Hardware /\ job \in Jobs /\ test \in Tests

(* Whatever failed, and wherever: when no capture is under way the source  *)
(* is off or its fault latched, the sensors have the converter back or its *)
(* fault is latched, the bus is not held quiet by a capture, and the       *)
(* workspace is only kept for samples that are being sent                  *)
(* (fail_safe_shutdown, lab_step_metrology_capture).                       *)
LeftSafe ==
    ~Active(Here) =>
        /\ hw.exc = "OFF" \/ "METROLOGY" \in hw.faults
        /\ (hw.aux = "RUN" /\ hw.adc = "AUX") \/ "ADC" \in hw.faults
        /\ hw.adc # "SAMPLING" /\ ~cap.quiet_held
        /\ job.owner = "METROLOGY" => job.dump

(* What is sent is still whole: the workspace that holds it is not given   *)
(* to, or written by, anything else until the last row has left            *)
(* (lab_cal_frame_start, lab_start_metrology_capture, app_io_workspace.c). *)
SentIsWhole ==
    /\ job.dump => job.raw = "SAMPLES" /\ job.owner = "METROLOGY" /\ cap.valid
    /\ job.frame => job.raw = "FRAME" /\ job.owner = "STORE"

(* The self-test says PASS only when this test saw its sector erased and   *)
(* its pattern read back, and does not leave the pattern there - though a  *)
(* bus held quiet by a capture refuses a command with the very status of   *)
(* one that was started (step_flash_selftest, w25q_device.c).              *)
PassIsHonest ==
    test.st = "COMPLETE" => test.done = {"ERASE", "PROGRAM"} /\ test.sector # "PATTERN"
=============================================================================
