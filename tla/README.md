# Verification of the RLC meter firmware

These modules describe the firmware of the WTK RLC meter
(`src/Firmware/src`, an STM32F103), as the PRODUCT image builds it: held
sessions, trimmed statistics and continuous surveys are compiled in; the DC
pilot and the bench supply are not. Two images stand beside it: `CalInstall`,
`CalWizard` and `CalCapture` are about the calibration image (BRINGUP_CAL,
`app/app_cal_capture_shell.c`), `Bench` about the bring-up console
(`app/app_bringup_console.c`).

The firmware is one cooperative super-loop (`app_step`,
`app/app_shell.c:1602`) that calls every service once per pass, plus four
interrupts: the millisecond timer, the DMA of the converters, the DMA of the
excitation timer, the receiver of the serial line. No service blocks: each is
a state machine whose step is called again, and each wait has a deadline on a
32-bit millisecond clock that wraps. What is hard here is therefore not locks
but *interleavings of steps*: the safety supervision, the owner's calls, the
user's buttons, the PC's frames and the interrupts fall between any two steps
of a transaction, a write to a port or to the flash may fail, the power may go,
the evidence a decision was made on may be stale when it is acted on.

## Inventory

| component | state it keeps | operations | talks to | what makes it correct | module |
|---|---|---|---|---|---|
| Clock and deadlines (`bsp_time.c`) | a wrapping counter | read, compare | everyone | a deadline is reached when its time has passed, across the wrap | `Deadline` |
| Range multiplexer (`hw_range.c`) | requested and selected range, address and enable lines, deadline | request, step, force disabled | transaction, supervision | the address never moves while enabled; ready only after dead time and settling | `HwRange`, `HwRangeOps` |
| Relay K1 (`hw_k1.c`) | commanded position | force safe, request measure | transaction, supervision | energised only with permission | `HwMeasure` |
| Measurement permit (`hw_measure_permit.c`) | one permit, its validity, range, issue time | issue, validate | transaction | used once, in time, for the range it was issued for | `HwMeasure` |
| Safety policy (`hw_safety.c`, `app_safety_fault.c`) | latched faults | evaluate, latch | everyone | a latched fault stops every connection | `HwMeasure` |
| Excitation (`hw_excitation.c`, `bsp_excitation.c`) | off, neutral or sine; DMA error | off, neutral, sine | transaction, DMA interrupt | a sine only from neutral; terminals switch under neutral | `HwMeasure` |
| Converters (`bsp_metrology_adc.c`) | owner, DMA state | acquire, start, stop, restore | transaction, auxiliary sensors, DMA interrupt | one owner; a completed block is the block asked for | `HwMeasure` |
| Auxiliary sensors (`hw_aux_sensors.c`, `hw_residual.c`, `bsp_adc.c`) | sample groups, battery and residual evidence, pause | step, pause, resume, power group | transaction, permit | SAFE rests on evidence taken since the last loan; a refresh is fresh | `AuxSensors` |
| Transaction (`hw_metrology_measure.c`) | state, abort phase, request, ownership flags, deadlines | start, continue, step, finish, acknowledge, abort | all of the above | cold switching, honest results, everything given back, every wait ends | `HwMeasure`, `Attempt` |
| Measurement session (`app_measurement_session.c`) | session state, request, engine results, repeats | start, step, cancel | transaction, engine, workspace | one transaction at a time, every outcome reported | `MeasurementSession` |
| Engine (`measurement_engine.c`) | range, frequency, search history | next condition, accept a capture | session | the search ends, repeats nothing, and says what it saw | `AutoRange` |
| Settings service (`app_settings_service.c`) | settings in RAM, save state machine, two slots | load, set, start, step, acknowledge | flash adapter | a reboot restores the last committed version | `SettingsStore` |
| Calibration store and installation (`measurement_calibration_store.c`, `app_cal_capture_service.c`) | record sets, two slots, a commanded installation | begin, chunks, commit, abort, step | flash adapter, PC | same; nothing unwanted is written | `CalInstall` |
| Lead profile store and calibration (`lead_profile_store.c`, `app_lead_calibration.c`) | profile, two slots; groups of repeats | load, save; start, accept, cancel, step | flash adapter, transaction, product | same; a profile rests on full groups | `LeadStore`, `LeadCalibration` |
| Resources (`resource_store.c`, `app_resource_update.c`) | one partition, an upload session | mount; begin, chunk, end, abort, step | flash, serial link, product | a pack is served only whole; what is acknowledged is stored | `Upload` |
| Flash and workspace (`w25q_device.c`, `app_flash_access.c`, `app_io_workspace.c`) | the operation in flight, the holder of the buffer | start, poll, acquire, release | stores | one operation, one writer, one holder | `FlashSlots`, `Product` |
| Calibration session, workflow, wizard | steps of a guided calibration, a candidate | start, advance, cancel, step | transaction, store | nothing is saved that was not measured in full; what is over holds nothing | `CalSession`, `CalWizard` |
| Capture service for the PC (`app_cal_capture_service.c`, `pc_cal_capture.py`) | a capture, its observation, two replies | start, status, result, cancel, step | session, safety, PC | an observation is of the capture asked for, whole, and taken safely | `CalCapture` |
| Product application (`app_product.c`) | page, runtime, teardown, wanted save | buttons, step | all services | what is shown is current; no runtime is left without a page | `Product` |
| Serial link (`bsp_uart_rx.c`, `app_shell.c`, `app_pc_link_protocol.c`) | receive ring, frame | receive interrupt, pop, decode | super-loop | a frame handed on is one frame as sent | `PcReceiver`, `Upload` |
| Buttons (`drivers/buttons.c`, `app_product.c`) | debouncing, event queue, who woke the display | update, pop | product | no event is lost; one press acts once | `Buttons` |
| Tones (`app_feedback.c`, `hw_buzzer_policy.c`) | mailbox, queue, note, quiet | request, step, set quiet | product, transaction | silence in a capture, whole melodies, a fault is heard | `Tones` |
| Bring-up console (`app_bringup_console.c`, `hw_metrology_session.c`) | a capture, dumps, a flash self-test | commands, step | every driver | what failed is left safe or latched; PASS is earned | `Bench` |
| Display and text, board support, numerics, power latch | drawing, registers, floating point | | | not modelled, see the end | |

## Modules

* `Deadline` is the comparison `(int32_t)(now - deadline) >= 0` on a clock of
  any width. `DeadlineExact` (in `Instrument_proofs`) says that it is exact while
  the waits are shorter than half a turn, which is why the other modules may
  hold a deadline as a count of milliseconds to go.
* `HwRangeOps` holds the operations of `hw_range.c` on a record, with the
  electrical lines (`pins`, `line`) beside what the driver believes
  (`current`, `enabled`): a failed write may or may not have moved the line,
  and an address write that fails partway leaves any address between the two
  (`Between`). `HwRange` is the driver by itself on a wrapping clock;
  `Instrument_proofs` has its theorems.
* `HwMeasure` is the transaction with all its surroundings. There is one
  action for each state of `hw_metrology_measure_step`, for each phase of
  `abort_cleanup_step` and for each call of the owner (`Start`, `Continue`,
  `Abort`, `FinishSession`, `Acknowledge`); `Supervise` is what the super-loop
  does before the transaction's step (`hw_range_step` and
  `app_update_safety_state`); `AdcDmaDone`, `AdcDmaError`, `ExcDmaError` are
  the interrupts; `AuxSample`, `PowerSample`, `AuxFailure` stand for the
  auxiliary sampler. The variables are the C structures they are named for:
  `m` is `hw_metrology_measure_t`, `permit` is `hw_measure_permit_t`, `rg` is
  `hw_range_t`. `t` gathers the deadlines. `buf` records what the DMA wrote
  the raw buffer under, `open` for how long the coil has been released: these
  two are history, no guard reads them.
  `MCHwMeasure` gives the requests of each instance.

* `FlashSlots` is what the stores share: two flash sectors with a sequence
  number, a checksum and a commit word (`Valid`, `Newer`, `Chosen`), the start
  and poll of `w25q_device.c` with the one operation it notes (`Started`,
  `Polled`), and the chip behind it. A cell of a sector is what a reader makes
  of it: `ERASED`, the bytes of a value, `PART` of them, or `TORN`. The chip
  carries an operation out some time after the command; power lost in between
  leaves each field untouched, done or torn; a command to a busy chip is
  ignored; a cut transfer may have been a whole command, a part, or none. The
  checksum is taken to detect every mixture, except that with `CHANCE` a value
  programmed over another one without an erase may by luck come out right.
* `DurableRegister` is the promise of a store: one durable value; an attempt
  may or may not become durable, at any moment until the next report; a power
  loss leaves the value before or one attempted; a report says what is durable.
  `SettingsStore`, `LeadStore` and `CalInstall` are shown to implement it with
  `durable` the value a reboot that reads both sectors would restore.
* `SettingsStore` is `app_settings_service.c` with the acknowledgement in
  `app_product.c`: edits (`Set`), the request of a save, `Pass` (one pass of
  the product's loop: start, one step of the service, acknowledge). One action
  for each state of `app_settings_service_step`. `saved` and `attempts` are
  history.
* `LeadStore` is `lead_profile_store.c` in the same way.
* `CalInstall` is the installation of a calibration set by a PC, as the
  calibration image builds it: one action for each command of
  `install_dispatch`, one for each state of `measurement_cal_store_step` with
  the guards that `install_step` puts before it (`Waiting`, `Blocked`,
  `StoreNow`), `Expire` for the deadline, `SafetyChange` for the evidence that
  `snapshot()` answers, `CaptureStart` to `CaptureEnd` for the captures that
  share the workspace. `MCCalInstall` declares the sets interchangeable. What
  the next installation overwrites before it reads is forgotten at the end of
  one, which keeps the instance small. `Values` are valid full sets; a set that
  fails validation is `MIXED`.

* `Attempt` is the transaction as its owners see it, through the wrappers of
  `app_shell.c`: at rest, done, running, held, ending, aborting. `HwMeasure`
  implements it (`ImplementsAttempt`), and the session, the lead calibration
  and the calibration session are built on its operators, with the lease of
  the shared workspace. `lost` marks a transaction forgotten before its end,
  which no owner may bring about.
* `AutoRange` is the engine's policy in a survey: from what a capture showed
  (`Reading`, a class and not a number) the next condition, the end of a stage,
  and what the history says of the component. `MeasurementSession` runs it: one
  operator for each state of `app_measurement_session_step`, `CancelAtRest` and
  `CancelRunning` for the two ways of `..._cancel`, the deadline, the repeats.
* `AuxSensors` is the sampler of the residual voltages, the battery and the
  temperature: sweeps, their publication and its age, the policy that calls the
  terminals SAFE, the loan of the converter (`Pause`, `Resume`) and the refresh
  of the battery in between. `proof` is history.
* `LeadCalibration` is `app_lead_calibration.c` with the two pages that drive
  it (`step_lead_ui`).
* `CalSession` holds the calibration session and its workflow as operators on
  records; `CalWizard` is the guided calibration over them, with the candidate
  and its commit; `CalCapture` the capture service, its shell, the line and the
  client of `pc_cal_capture.py`, which gives up, cancels and asks again.
* `Product` is one pass of `app_product_step` and what `app_shell.c` does
  between passes: the branches of a fault, of missing resources, of each page,
  the teardown of a runtime, the pending save, uploads and installations.
* `Buttons` is the path of a press: contacts that bounce at any moment, one
  sample per pass and passes of up to `MaxStall`, the queue, then the product,
  which a first press only wakes. `Tones` is the path of a sound: mailbox,
  queue of melodies, policy, timer, with quiet asked for between any two.
* `PcReceiver` is the ring between the receive interrupt and the super-loop,
  and the frame put together from it. `Upload` is the upload of a resource
  pack: the tool on the PC, the link, the update with its flash, the mount, the
  page that may cancel it, the loss of power. Its partition is one and is
  erased first, so what it promises is that no other than a whole pack is ever
  served.
* `Bench` is the raw capture of the bring-up image with the jobs and commands
  of the console that share its workspace and the flash.

`MCMeasure`, `MCFailures`, `MCInstrument`, `MCStorage`, `MCPages`, `MCUpload`
and `MCCalInstall` give the constants their values and put several components
into one run (see *Runs*).

Operators introduced by the comment *Seeded fault* are wrong variants of the
definition after them: a dropped guard, a missing reset, a comparison that does
not wrap. Nothing uses them. Put in the place of the right definition, each
makes one property of one run fail, which is how we know that the property
depends on that line of the code.

## Runs

Several components share a run where they do not interact: each keeps its own
variables, a variable `which` is chosen at the start and never changes, and a
behaviour takes the steps of that one component while the others stay where
they start. What holds of such a sum is what holds of each part, with its own
constants (they are given in the `MC` module, by `INSTANCE ... WITH`); a
property that names only one part's variables is trivially true of the other
behaviours, and a conjunction of such properties says each of its part.
Fairness is stated for the chosen part only.

| run | parts | what it shows |
|---|---|---|
| `measure` | `HwMeasure` twice: a continuous survey whose conversions and DMA may fail, and held sessions over two ranges with statistical windows | the relay and the range switch cold; the connection never outlives its battery evidence; a refresh does not restart the settling; the converters have one master; a result answers its request; the owners get what `Attempt` promises |
| `failures` | `HwMeasure` with failing port writes; `Bench`; `Buttons`; `Tones` | isolated or latched; nothing held at rest; the release guard; a bench left safe, samples sent whole, PASS earned; one press acts once; quiet is silent, melodies whole, a fault is heard |
| `transaction_ends` | `HwMeasure` with fairness | a transaction comes to rest whatever the hardware and the charger do, and although its owner forgets it; only an owner that aborts it again and again during its cleanup keeps it from ending (each abort starts the cleanup over). With `RestHoldsNothing`, the terminals are disconnected once it has ended |
| `instrument` | `HwRange` on a wrapping clock; `MeasurementSession` with `AutoRange`; `AuxSensors` | break before make; nothing left behind by an interrupted survey; no condition twice, what is final was earned; SAFE rests on sweeps since the last loan; each of them ends |
| `storage` | `SettingsStore`, `LeadStore`, `CalInstall`, `PcReceiver` | a reboot finds a whole value, the last one saved or one being saved; settings that are not dirty are in the flash; the slot in use is not touched; writes end and tell; no frame is spliced |
| `install_saved` | `CalInstall` | the same promises for a calibration set, with two values; what is reported installed is in use and found by a reboot; no flash command while the evidence is not SAFE; an accepted abort takes no effect later; the workspace is given back |
| `upload` | `Upload` with fairness | a pack is served only whole; an acknowledged chunk is in the flash; the workspace comes back; every frame that makes the update work is answered |
| `pages` | `Product`, `LeadCalibration`, `CalWizard`, `CalCapture` with fairness | a result is of the calibration in force; no runtime without its page; one writer; what is kept was earned; what is over holds nothing; what was asked to end ends |
| `product_link`, `wizard_cancel`, `lead_workspace`, `settings_unread_boot` | one module each | violated, see *Findings* |

Conjunctions. A property of a sum may gather those of its parts. `PanelSafe`
is `EventsFaithful`, `PressActsOnce` (`Buttons`), `QuietIsSilent`,
`MelodyWhole` (`Tones`); `BreaksBeforeMakes` is `AddressMovesOffline` and
`DeadTimeHonoured`; `BenchHonest` is `LeftSafe`,
`SentIsWhole`, `PassIsHonest`; `SurveyHonest` is `EachConditionOnce` and
`FinalIsEarned`; `SensorsHonest` is `SafeIsBacked` and `RefreshIsFresh`;
`KeptIsEarned` is `ReviewIsEarned`, `SavedIsEarned`, `TakenIsEarned`;
`OverIsOver` gathers the leads', the wizard's and the captures';
`NothingUnwanted` is `AbortRollsBack` and `NoUnsafeCommand`.
`WorkEnds`, `WritesEnd`, `PagesEnd` join `A ~> B` of the parts into one formula,
sound because in a behaviour all parts but one never have anything under way.
The mutants break each part by itself. The `TypeOK` of the modules other than
`HwMeasure` document the types; the properties would not evaluate on a state
outside of them.

Bounds. In `HwMeasure` times are one to six milliseconds instead of the code's
hundreds: the properties depend on their order (a transfer that ends before,
with and after its timeout; evidence younger, as old as and older than its
limit), which the small values keep. A wait is counted in whole units, so that
a wait of 0 stands for one shorter than the unit of the instance. Two ranges,
two drives and at most two captures of a kind show every change and every
repetition of a condition. The clock of the range driver has eight values and
wraps many times.

The storage runs have two values, so that old and new differ, and sequence
numbers modulo 4: enough for both neighbours of a number to be told apart
(`SequenceModulus > 3`), and small enough that a run wraps it many times
(settings, leads) or reaches its last number (calibration, which refuses to
roll over). `Failures` names what may go wrong: `BUS` (any transfer), `SLOW` (a
chip slower than the driver's timeout), `BOOT_READ` (a sector unreadable at
boot), `CHANCE`. A calibration set has two body pages, a first and a last; the
pages between repeat the first. The installation of `storage` has one set of
two chunks. The installations are without `CHANCE`: a calibration set is 2760
bytes, and one that comes out right when programmed over another is not a case
the code could handle.

The survey has three ranges, three readings (a resistor, a capacitor far below
its range, and an apparent open circuit), two attempts in a stage, a history of
four and two repeats: stages, frequencies and the history each run out before
the others in some behaviour. Sensors: two samples to an average and two sweeps
to SAFE. Leads: two frequencies, two ranges, two repeats of at most three.
Wizard: two ranges with one and two conditions, two captures of at most three.
Captures for the PC: two of two blocks, of at most three (the wizard and the
captures share `MaxAttempts`), a result of two parts, two requests for a
capture. Upload: two packs, two sectors of two cells, a chunk of two cells
and one of one, any frame lost or damaged, at most two unread replies. The
receiver: a ring of three bytes, frames of four, two pops to a pass, twelve byte
numbers. Buttons: two of them, a queue of four (the code has three and eight:
in both the queue holds two events of each), times of one unit, sleep after
four; `MaxStall` is the longest pass the watchdog (2 s) lets live. Tones: three
events that differ in priority and length, a queue of two.

Fairness. The super-loop keeps calling what it calls (`WF` on the step of each
part), and time passes: the millisecond clock or the deadline of the part.
`AuxSensors`' conversions, the DMA, the owner, the sensors, the charger, the
user and the PC are assumed to do nothing: the timeouts are there for them.
Beyond that: `SettingsStore` assumes a pass in which the flash is not with
another owner, infinitely often (an installation has its deadline; an upload
that waits for its next chunk has none, and is ended by the PC or the user);
`CalInstall` and `Upload` that the chip ends an operation (an abort drains it;
the driver's own timeout, which `SLOW` lets happen but does not force, bounds
that wait in the code); `Product` that an upload or an installation ends and a
runtime progresses (which `upload`, `storage` and `instrument` show of them);
`Tones` that a transaction gives the quiet back (`TransactionEnds`). Parts that
build on `Attempt` take from `TransactionEnds` that no wait of a transaction
lasts for ever. That property has a premise of its own, on its owner: it says
that a transaction that never ends is aborted for ever during its cleanup
(`<>[]Active => []<><<...>>_vars`), for `Abort` has no guard but the state
(`hw_metrology_measure_abort` restarts the cleanup at every call). The
measurement session (`AbortAndCancel`) and the captures of the calibration
abort once and then wait, so for them it ends; the lead pages under a fault do
not, and there it does not (`CancelEnds` below). The session's fairness in
`MCInstrument` is written out (`[]<>` of "nothing under way" or of its step):
it is `WF` with the ENABLED replaced by what it amounts to, since a session
under way can always step.

## Findings

Each of these is a run that TLC finds violated:

* `settings_unread_boot`: a boot that cannot read the sector in use counts it
  as empty; the next save is numbered 1, and is verified and reported, but the
  next reboot restores the old sector (`app_settings_service.c:386`, `:451`).
  The lead store refuses such a save.
* `product_link`: a fault that interrupts a measurement or a calibration begins
  a teardown that only an active runtime steps; its mark stays, and the serial
  link is blocked for ever (`app_product.c:1341`, `:1931`).
* `wizard_cancel`: a second cancel, or a fault, during a cancel ends the session
  at once; the transaction is left in its cleanup, unstepped, and keeps the
  workspace (`app_calibration_session.c:295`).
* `lead_workspace`: a capture that fails while a group is being released ends
  the lead calibration without an acknowledgement: the workspace stays lent
  (`app_lead_calibration.c:193`).

And these properties, defined in the modules, are violated as well; they have
no run of their own, as they repeat a mechanism above or take another instance:

* `FailedSaveKeepsPrevious` (`SettingsStore`, with `Failures = {"BUS",
  "CHANCE"}`): a save that fails after its commit word was sent is reported as
  failed, and yet is what the reboot restores (`app_settings_service.c:464`);
  the design says that the previous settings are preserved.
* `InstalledIsDurable` (`CalInstall`, once `"BOOT_READ"` is among the
  failures): as `settings_unread_boot`, for a calibration set
  (`measurement_calibration_store.c:161`).
* `CancelEnds` (`LeadCalibration`): while a fault lasts, the lead pages cancel
  in every pass, and each cancel starts the cleanup of the transaction afresh,
  so that it never gets past its first phase (`app_lead_calibration.c:67`,
  `app_product.c:1209`). It is the one way that `TransactionEnds` leaves open
  for a transaction not to end.
* The second cancel of `wizard_cancel` exists in the capture service too
  (`app_cal_capture_service.c:490`): no reply leaves afterwards. `CalCapture`
  marks it (`ext.again`), and `CaptureDrains` leaves it out.

## Proofs

TLC checks the instances above. For every value of the constants, TLAPS checks
the theorems below. The only assumptions are those the modules name:
`HalfTurnAssumption`, `RangeConstantsAssumption` (dead time and settling below
half a turn of the clock), `MeasureConstantsAssumption` (waits, limits and
bounds are natural numbers, requests are requests), `InstrumentAssumption` (at
least three ranges; the readings are readings; averages, sweeps, captures and
bounds are positive, the repeats at least two), `FlashAssumption` and
`ValuesAssumption` (more than three sequence numbers; the cells of a sector that
are no value are none; the default is a value), and those on the sizes of frames,
rings and packs; `PanelAssumption`: the buttons have names of their own, OK
among them, a queue with room for two events of each, and a shortest sleep of
the display that outlasts a long press with its debouncing and the longest pass
(15 s against 700 ms, 25 ms and 2 s: `app_settings_service.h:16`,
`buttons.c:5`); the tones that are raised are events, and their queue holds at
least one.

| module | theorem | states |
|---|---|---|
| `Instrument_proofs` | `DeadlineExact` | the unsigned comparison is neither early nor late across a wrap |
| | `RangeTypeCorrect`, `RangeReadyIsSettled`, `RangeBreaksBeforeMakes` | the safety properties of the range driver |
| | `SensorsAreHonest` | SAFE rests on sweeps all taken since the converter was last lent; a refresh that says OK has sampled the battery since |
| | `NothingIsLeftBehind`, `SurveysAreHonest` | a session that is over holds neither hardware nor workspace; a survey tries no condition twice, and what it shows as final it has seen in full |
| `HwMeasure_proofs` | `MeasureTypeCorrect` | every variable of the transaction keeps its type |
| | `BatteryDeadlineIsHonest` | the battery deadline of a session never outlives the sample it rests on, however often it is refreshed |
| | `RelayConnectedIsAuthorised` | the terminals are connected only by a transaction that spent a validated permit, or the failure of the relay's port is latched |
| | `ConverterHasOneMaster` | the metrology converters are configured only while the sensors are paused and take no power sample, and capture only where the transaction waits for them |
| | `RestIsSafe` | a transaction at rest holds nothing, or what could not be given back is latched |
| | `SensorsReturnAfterGuard` | the sensors return to the terminals only after the release guard, whatever path led there |
| | `ResultAnswersRequest` | a result that can be read was captured whole, on the range and with the drive of its request |
| | `RelaySwitchesCold`, `RangeMovesCold` | relay and range switch under a neutral source |
| | `RefreshKeepsSettling` | a power refresh does not restart the settling of the source |
| | `TransactionIsAttempt` | the transaction implements `Attempt`, on which its owners are built |
| `Failures_proofs` | `BenchIsHonest` | whichever call fails, a bench at rest has left nothing on or held that no latched fault tells of; what is sent of the workspace is whole; a PASS of the flash's self-test was earned |
| | `PanelIsSafe` | no event of a button is lost, repeated or out of order; a press of OK acts once, or not at all when it woke the display; nothing sounds under quiet, and a melody is not cut by another |
| `Upload_proofs` | `UploadServesWhole`, `UploadWorkspaceReturned` | a pack is served whole or not at all; the workspace is lent exactly while a session is configured |
| | `UploadTypeCorrect` | the types, and with them that the update never leaves the chunk at hand |
| | `UploadAcknowledgedIsStored` | what the tool was told is stored is stored, unless the driver lost track of the chip |
| `Storage_proofs` | `StoresKeepValues` | settings and leads implement `DurableRegister`; settings that are not dirty are what a reboot restores |
| | `StoresKeepSlots` | the slot that the settings or the leads run on is never touched |
| | `ReceiverNoSplice` | a frame handed on is one frame as it was sent |
| `Pages_proofs` | `ProductInvariant`, `ProductResultCurrent`, `ProductNobodyStranded`, `ProductOneWriter` | a result shown is of the calibration in force; no runtime is active without its page; one writer at the flash |
| | `PagesInvariant`, `PagesKeepTheEarned`, `PagesLeaveNothing` | a profile, a calibration record, an observation rests on all the captures it needs and on no other; what is over has left nothing running, and what was aborted is not published |
| `CalInstall_proofs` | `InstallTypeCorrect`, `InstallWorkspaceReturned` | the types; the workspace is the store's exactly while an installation is under way |
| | `InstallActiveSlot`, `InstallNoUnsafeCommand` | the slot in use is never touched; no command goes to the flash on evidence that is not SAFE |
| | `InstallImplementsRegister`, `InstallIsDurable`, `InstallNothingUnwanted` | the installation implements `DurableRegister`; what is reported installed is what a reboot finds; an accepted abort takes no effect later. These three assume `Dependable`, see below |

Every invariant that a passing run checks is a theorem, and so is every action
property and every refinement; what is left to TLC is liveness (see *Only
model-checked*).

**The range driver.** `IInv` adds three facts to the types: what the driver
believes is what the lines are, unless it is `INVALID` (`BeliefIsTruth`); which
lines each state of its machine may have (`LinesOfState`); and what is left of
the deadline, as a number below half a turn (`TimeToGo`). The properties speak
of lines and of elapsed time, the code of its own copies and of a 32-bit
difference, so neither follows without these. `HwRangeOps_proofs` has one lemma
for each operation, with what it leaves behind (`BootPost`, `RequestPost`,
`DisablePost`, `ElapsedPost`); both the driver's proofs and the transaction's
cite them, and neither opens the operations again.

**The sensors.** `SensorsHonest` says of the verdict what the sweeps showed
(`proof`, history), and the code keeps no record of them but a count. The
invariant (`SensorsRight`) says that the count is what the sweeps in a row were
as long as there is no verdict (`Backed`), and what a loan of the converter
leaves (`Lent`): nothing known of the terminals, and no sweep but the refresh
that was asked for. A conversion that fails, is late or saturates goes through
`InvalidatedEffect`, and a publication that grew old through `ForgottenEffect`:
both are ways to lose a verdict, never to keep one that is not backed.

**The session.** `SessionRight` ties the state of the session to that of its
transaction (`Place`: a capture is read only while it is held and valid, a
cancel waits on an abort, nothing final has an active transaction), the
workspace to the transaction (`Leased`), and the survey to the repeats
(`Surveying`: one or the other goes on). The policy has an invariant of its
own, `PolicyRight`, which each operation on it keeps (`StoredEffect`,
`DecidedRight`, `StoppedRight`, `BelieEffect`): a condition that is offered has
not been tried, a survey that has no next condition has a result, and a result
shown is an entry of the history. `PrimaryBorneOut` is where the classification
and the choice of what to show must agree: if a good reading exists there is
one among those the class does not contradict. Everything that ends a survey
passes through `PublishEffect`. The assumption on the number of repeats (at
least two; the source has seven) is needed: with one, the first reading would
fill the row and no mean would ever be held against the survey.

**The battery deadline.** `BatteryDeadlineHonest` is not inductive: a refresh
takes the deadline from a sample that is still being taken. `EvidenceInv` adds
that while a sample is taken, the deadline is covered by its group's age
already, and that the sensors are then paused.

**The relay.** `AuthorityInv` adds when the transaction may say that it owns the
relay (never in a state before the request, `Unowned`); that in the states
after the release the contact is open or the fault latched (`Released`,
`Isolated`); that a validated permit waiting to be used is the one consumed;
and that a power refresh returns to a measuring state and not to IDLE. The
proof has one lemma per action; most actions touch neither relay nor permit and
share `AuthorityKept`, the ways into an abort share `AuthorityAborted`, the
orderly ends `AuthorityClosed` and `AuthorityReleased`.

**What a transaction may hold, and when.** The second part of
`HwMeasure_proofs` first says, once for each action, what it does to the fields
the properties read (the lemmas `...Effect`, in the vocabulary of `Moved`, `Fell`, `Ends`, `Taken`,
`Safer`, `Stepped`); the invariants then only reason about effects. One
invariant for each concern, each inductive with the types and with the ones
before it:

* `CustodyInv`: who has the converter knows it, and a capture runs only where
  it is waited for or about to be stopped. The condition that is easily lost is
  the last part of a transaction: from the giving back on nothing is owned,
  nobody is paused and nothing is quiet, *unless* the failure of the converter
  is latched. `AdcExclusive` is its first conjunct.
* `OffInv`: from the multiplexer's disabling on the source is off, and once
  that is past the multiplexer is, or its failure is latched. With `CustodyInv` and
  `AuthorityInv`, `RestHoldsNothing` follows.
* `GuardInv`: the time the contact has been open, plus what is left of the
  guard, is at least the guard (`Opened`); an abort of an abort keeps it
  because `AbortStop` skips the guard only if the relay was never reached.
* `CaptureInv`: what is driven and selected is what the request asked for, or
  the failure is already noted and will be met; a block that is complete
  answers its request (`Answers`).
* `ColdInv`: the states in which the source is neutral (`NeutralStates`); the
  permit is for the range of the request.
* `SettleInv`: in a refresh, what will remain of the settling is not more than
  what remained when it began.

**The bench.** A pass of the console is a composition of operators that give
all that may come of it, and any call of the hardware in it may fail.
`BenchInv` has three parts. `Front`: what a capture has of the front end (the
source on, the converter, the sensors paused, the bus quiet) it has only in the
states that need it, or the fault that says so is latched. `Workspace`: it is
the capture's while one is under way, is being sent after one that is done, and
what is sent is what was put there. `Tested`: the self-test has seen the chip
busy only while the driver believes in an operation, its place says what was
done so far, and once the last erasure was asked for the sector no longer holds
the pattern, or the erasure is still to be refused. `LeftSafe` alone is not
inductive: that nothing is left rests on every path out of a capture passing
the abort (`Going`, `Front`), within one pass.

**The refinement.** `TransactionIsAttempt` maps the states of the driver to
the six that its owners see (`AttemptView`). Its steps: `AttemptInv` (where a
transaction goes after a capture is decided by the flag set when the relay
closed, and that flag is the request's wish to hold); each action is one of the
moves of `OwnerSees`, which speak of the driver's record alone
(`StepSeen`); each such move is a move of the view (`OwnerSeesMoves`, with
`ViewMoves`); each move of the view is a step of `Attempt` or a stutter
(`AttemptMoves`). The states of the driver that no owner tells apart are a
partition (`StatesPartition`), which is what makes the middle step finite.

**The upload.** `ServedWhole` and `WorkspaceAccounted` need each other
(`UploadInv`): a configured session has deferred the resources, and only its
end, which mounts what the flash then holds, serves them again.
`AcknowledgedIsStored` speaks of the tool and of the flash, and its invariant
(`StoredInv`, which TLC confirmed on the instance of `upload` before it was
proved) ties the two through the reply between them. `Talk` says what may be on
its way: as long as the tool has met nothing but what it hopes for, the replies
on the line answer the frame it awaits, or a stray one, and a reply that is
deferred is the next it reads. So an acknowledgement that was meant for an
earlier run of the tool, or for a frame the tool gave up, never passes for the
one it awaits. `Kept`, which holds while the driver keeps track of the chip,
says what the cells hold at each state of the update: erased up to the sector at
hand, the chunk's pack up to the cell at hand, blank beyond. An operation under
way is then in a chunk later than any the tool was told of (`OperationSpares`),
which is why neither its end nor a loss of power harms those. It rests on
`LayoutAssumption`: chunks and sectors follow one another, none is empty, and
the sectors erased hold the pack (`iter_resource_frames` refuses an empty pack
and an empty chunk; `erase_total` is the pack rounded up to sectors).

**The settings and the leads.** A save erases, programs and verifies over many
passes, and may be given up in any of them while the chip goes on with what it
has, or lose its power there. `Kept` is what holds through all of it, of the two
slots and the chip, with no step of a store in it: the slot the store runs on
holds what it runs on (`InUse`); the other one is passed over by a load
(`PassedOver`), or, once an erase of it is over, holds no header but of a value
tried since, under the next number (`Rewritten`); and whatever is in the chip is
for that slot, that number and such a value (`Ours`). That an erase comes first is the
delicate part: a program found in the chip means that one is over, an erase in
the chip is not one cut in transfer, and a save that waits for its erase has
either it over or in the chip with the driver's poll still to come
(`ErasedSoon`); otherwise a poll that answers OK could stand for an erase that
never began. `RestoredIs` then gives what a reboot restores, `ReportKeeps` lets
the slots change their parts when a save is reported, and each store has one
lemma for each of its actions (`Set...Keeps`, `Prof...Keeps`) that ends in a
step of the register (`RegisterStep`). The sequence numbers enter by
`NextIsNewer` only: the next number is newer for any modulus above three, also
over the wrap. Nothing is asked of a body, so that the theorems hold with
`CHANCE` among the failures, where the installation's do not: a value here is
one frame of less than a page, tried under one number, and whatever passes its
checks under that number is that value. The settings are without `BOOT_READ`,
with which they are wrong (*Findings*); the leads have it, and `LeadsUnread`
says why it does not hurt them: a store that could not read both slots saves
nothing.

**The receiver.** `NoSplice` needs that ring and frame are runs of the line,
that the ring goes on where the frame ends and the line where the ring ends
(`RingGoesOn`), unless bytes were lost, and that a loss is known by one of two
marks: the ring is poisoned, and nothing is popped from it; or the epoch has
changed, and then no pop comes before the `Begin` that drops the frame
(`LossSeen`).

**The product.** A pass composes operators that each return the products they
may leave; each has a lemma from what it is given to what it gives. Between
them only `Between` holds: `begin_runtime_teardown` is called after the page
has changed, so a runtime may be off its page (`Placed` fails) in the middle of
a pass, and is not at its end (`Good`). `Kinds` says that the shared memory is
of the kind of the active runtime, `Single` that of the pending save, the
leads' save, the wizard's commit and the link at most one is under way; the
wizard keeps the link away from its first page on, since it writes at its end
without asking again.

**Leads, wizard, captures.** The three are built on the transaction as
`Attempt` gives it, and the first lemmas of the second part of `Pages_proofs`
say what its calls leave (`AbortedEffect` to `StartCallsEffect`): it is never
`lost`, and a start that is turned down leaves a rest a rest.

* `LeadInv`: what a group has counted is what it was given (`Grouped`), the
  groups closed are those of the frequencies before the one at hand, open ones
  first (`LeadProgress`), and only a capture or its cleanup has a transaction.
  `ReviewIsEarned` follows when the last frequency of the short closes.
* `WizardInv`: `Evidence` ties the state of the session to that of its workflow
  and says that what the workflow counts as accepted is what it took; so a
  session can say COMPLETE only with enough captures, and not at all once it
  is canceled (`SessionSays`). The wizard then needs that every record solved
  so far was earned (`AllEarned`), that a candidate offered to be saved is whole
  (`Whole`), and that no session is active away from the pages of a capture
  (`Settled`).
* `CaptureInv`: the session is the wizard's (`SessionsAgree` carries its lemmas
  over). `Served`: what waits for safety is complete and was not aborted, what
  is published was earned at rest, and an aborted session is CANCELING, from
  where no result comes. The hard part is the client. `TakenIsEarned` compares
  the parts it has put together, over several requests that may be lost or
  answered late, with a capture that the device may have left since.
  `Fits` is what makes it inductive: a part is of the capture the client asks
  about, and *while that is the device's capture* the device is not busy
  and can publish nothing but that part again. `HeardRight` says that at most
  one reply on its way is for the request waited for, `LineRight` that a
  request on the line is that one, unanswered.

**The installation.** First, what the driver and the chip do: what a start, a
poll, an operation that is carried out or cut short, and a loss of power leave
(`StartedEffect`, `PolledEffect`, `Altered`, `ChipEffect`, `PowerEffect`). The
record of an installation takes one of three kinds of step: it is given up
(`GivenUp`), goes on (`GoneOn`), or is `Installed`; each action is shown to be
one of them with what it tells the driver. Two invariants follow.

`InstallInv` needs nothing of the sectors. It relates installation, store,
workspace, driver and chip (`Protocol`, `Device`): whatever the chip is busy
with, also after a failure that the driver has forgotten, is an operation for
the slot not in use, under the number that comes next. With it come the
workspace, the slot in use and the safety evidence, under any failure.

`Content` says what the sectors hold, and is about the operation that an
earlier, failed installation left behind in the chip. `Book`: the slot in use
holds the set in use, and the other slot, if its header can be read, is older
by one or newer by one, so that the wrapping comparison cannot go wrong; if it
is valid and newer, it was attempted. `Erased`: after its erase a slot is
`Sound`, that is, a commit word stands only over a header and a body already
written, so that no later program completes a set under an old commit word;
until then nothing but an erase is sent to it. `Verified`: the commit word is
sent for the very set that was read back, from a chip at rest; one that is
still under way while a later installation runs belongs to an older attempt,
which is why an abort can promise what it does. The hypothesis `Dependable` leaves
out two of the four failures: `BOOT_READ`, with which `InstalledIsDurable` is
false (see *Findings*), and `CHANCE`, a checksum that comes out right over a
mixture of bytes. Failing transfers, a chip slower than the driver's patience
and a loss of power in any step are all in.

**The panel.** Its instance of `failures` runs beside the others, so that the
theorem is about every step of that sum.

*Tones.* `TonesInv`: a melody that has begun (`phase > 0`) is marked active, is the
head of the queue and has at least as many notes as were played; the quiet of the
policy is the one asked for; what sounds is active, enabled and not under quiet.
That `active` goes with `phase` is what the proof turns on: `app_feedback_request`
looks for a place in a full queue behind the head only while a melody is active
(`app_feedback.c:32`). Each operator of `ApplyOutputs` gets a lemma: it keeps this,
and the head of the queue with it (`Keeps`), or the melody was whole or may be cut
(`Spares`). The retry after BUSY never comes about, as part of the invariant.

*Buttons.* The events of a pass are told one after another, so the proof follows
them. `ToldFine` is about one event, told in its place: what was told of the other
buttons stays; the product's state still `Meets` what it owes the press of OK.
`ToldOfFine` is about the events of a button, at most two: a press or a release,
or else a long press and a repeat. `VisitedFine` adds them up in the order of the
buttons; the queue never fills, which is where its capacity of two for each
button comes in. (That the recursive function `Visited` has a value at all is
`VisitsExist`, by a least counterexample.) Between two passes the one thing that
could take the menu from a press is the sleep of the display. `Awake` bounds the
time the backlight was idle while a press is owed its menu: by how long OK was held;
once that is over the long press, by the pass that is late; and once the contact
is open, by the debouncing as well. All of it is less than `SleepTime`.

**Only model-checked.** Liveness (`TransactionEnds`, `WorkEnds`, `WritesEnd`,
`PagesEnd`, `AckArrives`, `FaultHeard`), which TLAPS does not handle, nor `ENABLED`.
No module declares a RECURSIVE operator, so that all
of them stay open to proof.

## Hazards

PROJECT.json lists the hazards of this code at their lines, each with the
properties that would catch it going wrong. Two of them have no property in a
run, because the one that states them is violated (see *Findings*): the leads'
cancel that starts over in every pass (`app_lead_calibration.c:67`) and the
failed save that is in the flash (`app_settings_service.c:556`). Further ones
are in the models as the code has them, and no document says what should
happen:

* a DMA error flag that refuses every later attempt (`bsp_metrology_adc.c:143`);
* a conversion of the sensors orphaned by an abort in a power refresh
  (`hw_metrology_measure.c:325`);
* the lead store's note that a failed save may be in the flash, which a second
  save clears (`lead_profile_store.c:119`);
* the branch of the missing resources, which leaves a runtime's page
  (`app_product.c:1364`), and a save begun while a measurement runs
  (`app_product.c:1862`);
* a wizard left in FAILED without its candidate being discarded
  (`app_calibration_wizard.c:685`);
* the second cancel of the capture service (`app_cal_capture_service.c:490`),
  and a range commanded from the console in a capture (`app_bringup_console.c`);
* the priority of the residual sweep over the others (`hw_aux_sensors.c:296`).

## Plan

Done: the transaction with all its drivers, the sessions and policies above it,
the stores, the upload, the product, the panel, the receiver and the bench, all
model-checked; the range driver, the sensors, the session with its policy, the
transaction with its refinement, the bench, the panel, the upload, the receiver, the
product, the leads, the wizard, the captures for the PC, the installation, the
settings and the store of the leads proved as above.

Next, in this order:

1. the power latch and the campaign of the bench, and the commands of the
   console that `Bench` leaves out.

## Not modelled, and why

* Floating-point arithmetic (signal processing, calibration solver, trimmed
  statistics, lead compensation, the engine's scoring): neither checker reasons
  about it. Where a decision rests on it, the model takes any outcome.
* Drawing, fonts, text and images: no state a property is about.
* Register configuration of the board support: what the transaction depends on
  (DMA, timers) is in `HwMeasure`.
* The power latch, the calibration campaign and the rest of the console: next in
  the plan. Host tools other than the two clients (`Upload`, `CalCapture`), the
  simulators and the host tests: outside the firmware; the tests were read as a
  statement of what the code promises.
* In `Product`: a failing `activate_measurement_runtime`
  (`app_product.c:1870`), which leaves the page in the same pass.
* In `Tones`: the view of a fault is not left; quiet is not begun under a fault;
  the retry after BUSY never comes about, as the policy is never busy when it is
  asked. `FaultHeard` has two exceptions the code has: the sound is off, or an
  error is already in the mailbox.
* In `Buttons`: a button held through a second sleep, and let go and pressed
  again by OK, repeats pages; the observation is of presses and not of repeats.
* Liveness of `Bench`: its instance is too large for it.
* The `TypeOK` of modules other than `HwMeasure`, `HwRange` and `CalInstall` is
  documentation: the properties would not evaluate outside of it.
