----------------------------- MODULE LeadStore -----------------------------
(***************************************************************************)
(* The lead profile store (lead_profile_store.c): the two-slot scheme of   *)
(* the settings with one program for the whole frame, a refusal to save    *)
(* over slots that could not be read, and a note of uncertainty about a    *)
(* save that failed once its commit word may have been written.            *)
(***************************************************************************)
EXTENDS FlashSlots

CONSTANT Absent         \* stands for "no profile": every lead at zero
AbsentAssumption == Absent \in Values

VARIABLES
    s,          \* lead_profile_store_t
    dev,        \* the flash, its chip and its driver
    saved,      \* history: the value last reported as saved, or rebooted to
    attempts    \* history: the values a save was started for since
vars == <<s, dev, saved, attempts>>

BusyStates == {"ERASE_START", "ERASE_WAIT", "WRITE_START", "WRITE_WAIT",
               "VERIFY", "COMMIT_START", "COMMIT_WAIT", "VERIFY_COMMIT"}
UncertainStates == {"COMMIT_START", "COMMIT_WAIT", "VERIFY_COMMIT"}
Store ==
    [st : BusyStates \cup {"IDLE", "DONE", "ERROR"}, active : Values,
     valid : BOOLEAN, seq : SequenceNumbers, slot : Slots, target : Slots,
     frame : Values, tseq : SequenceNumbers, loaded : BOOLEAN,
     uncertain : BOOLEAN]
Busy == s.st \in BusyStates

(* lead_profile_store_init and _load, when only the slots in readable      *)
(* could be read: one unread slot is enough to leave the store unloaded.   *)
(* Seeded fault: it takes two. *)
LoadedIfAny(slots, readable) ==
    LET slot == Chosen(slots, readable)
    IN  [st |-> "IDLE", valid |-> slot # "NONE",
         active |-> IF slot = "NONE" THEN Absent ELSE slots[slot].head,
         seq |-> IF slot = "NONE" THEN 0 ELSE slots[slot].seq,
         slot |-> IF slot = "NONE" THEN "A" ELSE slot,
         target |-> "A", frame |-> Absent, tseq |-> 0,
         loaded |-> readable # {}, uncertain |-> FALSE]
Loaded(slots, readable) ==
    LET slot == Chosen(slots, readable)
    IN  [st |-> "IDLE", valid |-> slot # "NONE",
         active |-> IF slot = "NONE" THEN Absent ELSE slots[slot].head,
         seq |-> IF slot = "NONE" THEN 0 ELSE slots[slot].seq,
         slot |-> IF slot = "NONE" THEN "A" ELSE slot,
         target |-> "A", frame |-> Absent, tseq |-> 0,
         loaded |-> readable = Slots, uncertain |-> FALSE]

Init ==
    /\ dev = Fresh([x \in Slots |-> Blank])
    /\ s = Loaded(dev.slots, Slots)
    /\ saved = Absent /\ attempts = {}

(* Seeded fault: the slot in use is the one written. *)
SaveInPlace(v) ==
    /\ ~Busy /\ s.loaded
    /\ s' = [s EXCEPT !.tseq = IF s.valid THEN Succ(s.seq) ELSE 1,
                !.target = s.slot, !.frame = v, !.uncertain = FALSE,
                !.st = "ERASE_START"]
    /\ attempts' = attempts \cup {v}
    /\ UNCHANGED <<dev, saved>>
(* lead_profile_store_save, from a confirmed calibration or the menu. *)
Save(v) ==
    /\ ~Busy /\ s.loaded
    /\ s' = [s EXCEPT !.tseq = IF s.valid THEN Succ(s.seq) ELSE 1,
                !.target = IF s.valid THEN Other(s.slot) ELSE "A",
                !.frame = v, !.uncertain = FALSE, !.st = "ERASE_START"]
    /\ attempts' = attempts \cup {v}
    /\ UNCHANGED <<dev, saved>>

Fail ==
    /\ s' = [s EXCEPT !.st = "ERROR", !.uncertain = s.st \in UncertainStates]
    /\ UNCHANGED <<saved, attempts>>
Goto(st) == s' = [s EXCEPT !.st = st] /\ UNCHANGED <<saved, attempts>>

StartOperation(st, next, kind) ==
    /\ s.st = st
    /\ \E answer \in Started(dev, [kind |-> kind, slot |-> s.target,
                                   seq |-> s.tseq, val |-> s.frame]) :
         /\ dev' = answer.dev
         /\ CASE answer.status = "OK" -> Goto(next)
              [] answer.status = "BUSY" -> Goto(st)
              [] answer.status = "ERROR" -> Fail

AwaitOperation(st, next) ==
    /\ s.st = st
    /\ \E answer \in Polled(dev) :
         /\ dev' = answer.dev
         /\ CASE answer.status = "OK" -> Goto(next)
              [] answer.status = "BUSY" -> Goto(st)
              [] answer.status \in {"ERROR", "TIMEOUT"} -> Fail

EraseStart == StartOperation("ERASE_START", "ERASE_WAIT", "ERASE")
EraseWait == AwaitOperation("ERASE_WAIT", "WRITE_START")
WriteStart == StartOperation("WRITE_START", "WRITE_WAIT", "FRAME")
WriteWait == AwaitOperation("WRITE_WAIT", "VERIFY")
CommitStart == StartOperation("COMMIT_START", "COMMIT_WAIT", "MARK")
CommitWait == AwaitOperation("COMMIT_WAIT", "VERIFY_COMMIT")

TargetReads(mark) ==
    /\ Holds(dev.slots[s.target], s.tseq, s.frame)
    /\ dev.slots[s.target].mark = mark
    /\ dev.chip.kind = "NONE"

Verify ==
    /\ s.st = "VERIFY"
    /\ \E answer \in ReadAnswers :
         IF answer = "OK" /\ TargetReads("ERASED") THEN Goto("COMMIT_START") ELSE Fail
    /\ UNCHANGED dev

VerifyCommit ==
    /\ s.st = "VERIFY_COMMIT"
    /\ \E answer \in ReadAnswers :
         IF answer = "OK" /\ TargetReads("COMMITTED")
         THEN /\ s' = [s EXCEPT !.active = s.frame, !.seq = s.tseq,
                         !.slot = s.target, !.valid = TRUE, !.st = "DONE"]
              /\ saved' = s.frame /\ attempts' = {}
         ELSE Fail
    /\ UNCHANGED dev

(* Five seconds after the save began, in any state. *)
Expire == Busy /\ Fail /\ UNCHANGED dev

Step ==
    \/ EraseStart \/ EraseWait \/ WriteStart \/ WriteWait \/ Verify
    \/ CommitStart \/ CommitWait \/ VerifyCommit
    \/ Expire

(* The super-loop's own poll, the chip, and the power. *)
GenericPoll ==
    /\ ~Busy
    /\ \E answer \in Polled(dev) : dev' = answer.dev
    /\ UNCHANGED <<s, saved, attempts>>

ChipDone ==
    /\ dev.chip.kind # "NONE"
    /\ \E slots \in AfterOperation(dev) :
         dev' = [dev EXCEPT !.slots = slots, !.chip = Idle, !.torn = FALSE]
    /\ UNCHANGED <<s, saved, attempts>>

PowerLoss ==
    \E slots \in AfterPowerLoss(dev) :
        /\ dev' = Fresh(slots)
        /\ \E readable \in IF "BOOT_READ" \in Failures THEN SUBSET Slots ELSE {Slots} :
             s' = Loaded(slots, readable)
        /\ saved' = Restored(slots, Absent) /\ attempts' = {}

Next ==
    \/ \E v \in Values : Save(v)
    \/ Step
    \/ GenericPoll \/ ChipDone \/ PowerLoss

Spec == Init /\ [][Next]_vars

(***************************************************************************)
(* Properties.                                                             *)
(***************************************************************************)
TypeOK ==
    /\ s \in Store
    /\ dev \in Devices
    /\ saved \in Values /\ attempts \subseteq Values

(* Also when slots cannot be read at boot, a reboot restores the last      *)
(* profile reported as saved or one whose save was started since, and a    *)
(* save is reported only when a reboot restores it.                        *)
Register == INSTANCE DurableRegister WITH durable <- Restored(dev.slots, Absent)
ImplementsRegister == Register!Spec

(* The slot of the profile in use is never touched by a save or by what a  *)
(* failed one left in the chip.                                            *)
ActiveSlotUntouched ==
    [][s.valid /\ s.loaded => dev'.slots[s.slot] = dev.slots[s.slot]]_vars
=============================================================================
