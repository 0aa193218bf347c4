--------------------------- MODULE SettingsStore ---------------------------
(***************************************************************************)
(* The settings service (app_settings_service.c) over its two flash slots, *)
(* driven by app_product.c's service_pending_settings_save, with edits     *)
(* between any two steps, failing transfers, a chip slower than the        *)
(* driver's timeout, and power lost at any moment.                         *)
(***************************************************************************)
EXTENDS FlashSlots

CONSTANT Default        \* app_settings_defaults
DefaultAssumption == Default \in Values

VARIABLES
    s,          \* app_settings_service_t
    request,    \* product->settings_save_requested
    dev,        \* the flash, its chip and its driver
    saved,      \* history: the value last reported as saved, or rebooted to
    attempts    \* history: the values a save was started for since
vars == <<s, request, dev, saved, attempts>>

BusyStates == {"ERASE_START", "ERASE_WAIT", "HEADER_START", "HEADER_WAIT",
               "PAYLOAD_START", "PAYLOAD_WAIT", "VERIFY_PRE_COMMIT",
               "COMMIT_START", "COMMIT_WAIT", "VERIFY_COMMIT"}
States == BusyStates \cup {"IDLE", "DONE", "ERROR"}
Service ==
    [st : States, current : Values, persisted : Values, pseq : SequenceNumbers,
     pvalid : BOOLEAN, active : Slots, target : Slots, tseq : SequenceNumbers,
     frame : Values, dirty : BOOLEAN, failed : BOOLEAN]
Busy == s.st \in BusyStates

Defaults ==
    [st |-> "IDLE", current |-> Default, persisted |-> Default, pseq |-> 0,
     pvalid |-> FALSE, active |-> "A", target |-> "A", tseq |-> 0,
     frame |-> Default, dirty |-> FALSE, failed |-> FALSE]

(* The service after app_settings_service_init and _load, when only the    *)
(* slots in readable could be read.                                        *)
Loaded(slots, readable) ==
    LET slot == Chosen(slots, readable)
    IN  IF slot = "NONE" THEN Defaults
        ELSE [Defaults EXCEPT !.current = slots[slot].head,
                 !.persisted = slots[slot].head, !.pseq = slots[slot].seq,
                 !.active = slot, !.pvalid = TRUE]

Init ==
    /\ dev = Fresh([x \in Slots |-> Blank])
    /\ s = Loaded(dev.slots, Slots)
    /\ request = FALSE
    /\ saved = Default /\ attempts = {}

(***************************************************************************)
(* The user, through the menus of app_product.c.                           *)
(***************************************************************************)
Set(v) ==
    /\ s' = [s EXCEPT !.current = v, !.dirty = ~s.pvalid \/ v # s.persisted,
                      !.failed = FALSE]
    /\ UNCHANGED <<request, dev, saved, attempts>>

RequestSave == request' = TRUE /\ UNCHANGED <<s, dev, saved, attempts>>

(***************************************************************************)
(* service_pending_settings_save: with no save under way it acknowledges   *)
(* the last one and starts the next; otherwise it steps the save.          *)
(***************************************************************************)
(* Seeded fault: the save goes to the slot in use. *)
SaveStartedInPlace(r) ==
    [r EXCEPT !.target = r.active, !.tseq = IF r.pvalid THEN Succ(r.pseq) ELSE 1,
              !.frame = r.current, !.st = "ERASE_START"]
SaveStarted(r) ==
    [r EXCEPT !.target = IF ~r.pvalid \/ r.active = "B" THEN "A" ELSE "B",
              !.tseq = IF r.pvalid THEN Succ(r.pseq) ELSE 1,
              !.frame = r.current, !.st = "ERASE_START"]
Acknowledged(r) == [r EXCEPT !.st = IF r.st \in {"DONE", "ERROR"} THEN "IDLE" ELSE r.st]

(* blocked: another owner holds the flash (inputs->settings_storage_busy). *)
Pass(blocked) ==
    /\ ~Busy
    /\ LET start == request /\ s.dirty /\ ~blocked
       IN  /\ s' = IF start THEN SaveStarted(Acknowledged(s)) ELSE Acknowledged(s)
           /\ attempts' = IF start THEN attempts \cup {s.current} ELSE attempts
    /\ request' = (request /\ s.dirty)
    /\ UNCHANGED <<dev, saved>>

Fail ==
    /\ s' = [s EXCEPT !.st = "ERROR", !.failed = TRUE]
    /\ request' = FALSE
    /\ UNCHANGED <<saved, attempts>>
Goto(st) == s' = [s EXCEPT !.st = st] /\ UNCHANGED <<request, saved, attempts>>

(* A start that finds the bus or the driver busy is tried again. *)
StartOperation(st, next, kind) ==
    /\ s.st = st
    /\ \E answer \in Started(dev, [kind |-> kind, slot |-> s.target,
                                   seq |-> s.tseq, val |-> s.frame]) :
         /\ dev' = answer.dev
         /\ CASE answer.status = "OK" -> Goto(next)
              [] answer.status = "BUSY" -> Goto(st)
              [] answer.status = "ERROR" -> Fail

AwaitOperation(st, next) ==
    /\ s.st = st
    /\ \E answer \in Polled(dev) :
         /\ dev' = answer.dev
         /\ CASE answer.status = "OK" -> Goto(next)
              [] answer.status = "BUSY" -> Goto(st)
              [] answer.status \in {"ERROR", "TIMEOUT"} -> Fail

EraseStart == StartOperation("ERASE_START", "ERASE_WAIT", "ERASE")
EraseWait == AwaitOperation("ERASE_WAIT", "HEADER_START")
HeaderStart == StartOperation("HEADER_START", "HEADER_WAIT", "HEAD")
HeaderWait == AwaitOperation("HEADER_WAIT", "PAYLOAD_START")
PayloadStart == StartOperation("PAYLOAD_START", "PAYLOAD_WAIT", "BODY")
PayloadWait == AwaitOperation("PAYLOAD_WAIT", "VERIFY_PRE_COMMIT")
CommitStart == StartOperation("COMMIT_START", "COMMIT_WAIT", "MARK")
CommitWait == AwaitOperation("COMMIT_WAIT", "VERIFY_COMMIT")

TargetHolds == Holds(dev.slots[s.target], s.tseq, s.frame) /\ dev.chip.kind = "NONE"
TargetMark == dev.slots[s.target].mark

VerifyPreCommit ==
    /\ s.st = "VERIFY_PRE_COMMIT"
    /\ \E answer \in ReadAnswers :
         IF answer = "OK" /\ TargetHolds /\ TargetMark # "COMMITTED"
         THEN Goto("COMMIT_START") ELSE Fail
    /\ UNCHANGED dev

(* Seeded fault: an edit made during the save is forgotten. *)
VerifyCommitClean ==
    /\ s.st = "VERIFY_COMMIT"
    /\ \E answer \in ReadAnswers :
         IF answer = "OK" /\ TargetHolds /\ TargetMark = "COMMITTED"
         THEN /\ s' = [s EXCEPT !.persisted = s.frame, !.pseq = s.tseq,
                         !.active = s.target, !.pvalid = TRUE,
                         !.dirty = FALSE, !.failed = FALSE, !.st = "DONE"]
              /\ saved' = s.frame /\ attempts' = {}
              /\ UNCHANGED request
         ELSE Fail
    /\ UNCHANGED dev

(* Seeded fault: the end of a save answers every request. *)
VerifyCommitAnswersAll ==
    /\ s.st = "VERIFY_COMMIT"
    /\ \E answer \in ReadAnswers :
         IF answer = "OK" /\ TargetHolds /\ TargetMark = "COMMITTED"
         THEN /\ s' = [s EXCEPT !.persisted = s.frame, !.pseq = s.tseq,
                         !.active = s.target, !.pvalid = TRUE,
                         !.dirty = s.current # s.frame, !.failed = FALSE,
                         !.st = "DONE"]
              /\ saved' = s.frame /\ attempts' = {}
              /\ request' = FALSE
         ELSE Fail
    /\ UNCHANGED dev

(* The frame read back is what is persisted now; an edit made meanwhile    *)
(* leaves the service dirty, and its request standing.                     *)
VerifyCommit ==
    /\ s.st = "VERIFY_COMMIT"
    /\ \E answer \in ReadAnswers :
         IF answer = "OK" /\ TargetHolds /\ TargetMark = "COMMITTED"
         THEN /\ s' = [s EXCEPT !.persisted = s.frame, !.pseq = s.tseq,
                         !.active = s.target, !.pvalid = TRUE,
                         !.dirty = s.current # s.frame, !.failed = FALSE,
                         !.st = "DONE"]
              /\ saved' = s.frame /\ attempts' = {}
              /\ UNCHANGED request
         ELSE Fail
    /\ UNCHANGED dev

(* SETTINGS_SAVE_TIMEOUT_MS: in any state, whatever the device is doing.   *)
Expire == Busy /\ Fail /\ UNCHANGED dev

Step ==
    \/ EraseStart \/ EraseWait \/ HeaderStart \/ HeaderWait
    \/ PayloadStart \/ PayloadWait \/ VerifyPreCommit
    \/ CommitStart \/ CommitWait \/ VerifyCommit
    \/ Expire

(***************************************************************************)
(* The super-loop's own poll, the chip, and the power.                     *)
(***************************************************************************)
GenericPoll ==
    /\ ~Busy
    /\ \E answer \in Polled(dev) : dev' = answer.dev
    /\ UNCHANGED <<s, request, saved, attempts>>

ChipDone ==
    /\ dev.chip.kind # "NONE"
    /\ \E slots \in AfterOperation(dev) :
         dev' = [dev EXCEPT !.slots = slots, !.chip = Idle, !.torn = FALSE]
    /\ UNCHANGED <<s, request, saved, attempts>>

(* Power lost and back: what the flash kept is what counts from here on.   *)
PowerLoss ==
    \E slots \in AfterPowerLoss(dev) :
        /\ dev' = Fresh(slots)
        /\ \E readable \in IF "BOOT_READ" \in Failures THEN SUBSET Slots ELSE {Slots} :
             s' = Loaded(slots, readable)
        /\ request' = FALSE
        /\ saved' = Restored(slots, Default) /\ attempts' = {}

Next ==
    \/ \E v \in Values : Set(v)
    \/ RequestSave
    \/ \E blocked \in BOOLEAN : Pass(blocked)
    \/ Step
    \/ GenericPoll \/ ChipDone \/ PowerLoss

Spec == Init /\ [][Next]_vars

(* The product keeps running its passes and the clock runs, so a save that *)
(* does not end by itself expires.  That no other owner keeps the flash    *)
(* for ever is an assumption: the installations have a deadline, while an  *)
(* upload that waits for its next chunk is ended by the PC or the user     *)
(* alone (app_resource_update_step does nothing in READY).                 *)
FairSpec == Spec /\ WF_vars(Pass(FALSE)) /\ WF_vars(Expire)

(***************************************************************************)
(* Properties.                                                             *)
(***************************************************************************)
TypeOK ==
    /\ s \in Service
    /\ request \in BOOLEAN
    /\ dev \in Devices
    /\ saved \in Values /\ attempts \subseteq Values

(* Whatever step the power is lost in, a reboot restores a value that was  *)
(* whole: the last one saved, or one whose save had been started since;    *)
(* and a save is reported only when a reboot restores it.                  *)
Register == INSTANCE DurableRegister WITH durable <- Restored(dev.slots, Default)
ImplementsRegister == Register!Spec

(* The slot the service runs on is never touched by a save or by what a    *)
(* failed one left in the chip.                                            *)
ActiveSlotUntouched ==
    [][s.pvalid => dev'.slots[s.active] = dev.slots[s.active]]_vars

(* With no save started since the last one reported, "not dirty" means     *)
(* that a reboot gives the settings the user sees.                         *)
CleanIsDurable ==
    [][attempts' = {} /\ ~s'.dirty => Restored(dev'.slots, Default) = s'.current]_vars

(* An edit whose save was asked for is saved, superseded or reported as    *)
(* failed; so a save under way ends.                                       *)
Asked(v) == request /\ s.current = v
Answered(v) == saved = v \/ s.current # v \/ s.failed
EditSaved == \A v \in Values : Asked(v) ~> Answered(v)

(* "reboot restores only the last successfully committed version": a value *)
(* reported as saved is what a reboot restores until the next save starts. *)
SavedIsRestored == attempts = {} => Restored(dev.slots, Default) = saved

(* "A failed settings write ... preserves the previous valid settings slot *)
(* for reboot": after a failure the reboot gives what was saved before.    *)
FailedSaveKeepsPrevious ==
    s.failed /\ dev.chip.kind = "NONE" => Restored(dev.slots, Default) = saved
=============================================================================
