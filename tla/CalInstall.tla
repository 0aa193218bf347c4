---------------------------- MODULE CalInstall ----------------------------
(***************************************************************************)
(* The installation of a calibration set, in the calibration image: a PC   *)
(* sends the set in chunks (app_cal_capture_service.c), the calibration    *)
(* service and store write it to the flash slot not in use                 *)
(* (app_calibration_service.c, measurement_calibration_store.c), while the *)
(* safety evidence comes and goes, captures use the same workspace, and    *)
(* the power may go.                                                       *)
(***************************************************************************)
EXTENDS FlashSlots

CONSTANTS
    Chunks,         \* chunks of a set on the link
    Pages           \* flash pages of its body
ASSUME SizeAssumption == Chunks \in Nat \ {0} /\ Pages \in Nat \ {0, 1}

VARIABLES
    inst,       \* app_cal_capture_service_t, the fields of an installation
    cal,        \* app_calibration_service_t with its store and runtime
    owner,      \* the owner of the shared workspace
    image,      \* what the workspace holds
    capturing,  \* a calibration workflow is active
    safety,     \* what snapshot() answers now
    dev,        \* the flash, its chip and its driver
    saved,      \* history: the set last reported installed, or booted with
    attempts,   \* history: the sets a commit was started for since
    older       \* history: attempts of before the current commit
vars == <<inst, cal, owner, image, capturing, safety, dev, saved, attempts, older>>
flashVars == <<dev, saved, attempts, older>>

NoSet == "NONE"
Sets == Values \cup {NoSet}
Images == Values \cup {"MIXED", NoSet}

InstallStates ==
    {"IDLE", "RECEIVING", "VALIDATED", "WRITING", "INSTALLED", "FAILED", "ABORTED"}
Errors == {"OK", "CANCELED", "TIMEOUT", "SAFETY_BLOCKED", "INVALID_CANDIDATE",
           "STORAGE_ERROR"}
Installs == [st : InstallStates, error : Errors, seq : SequenceNumbers,
             received : 0 .. Chunks, late : BOOLEAN]
Installing == inst.st \in {"RECEIVING", "VALIDATED", "WRITING"}

StoreBusyStates ==
    {"ERASE_START", "ERASE_WAIT", "HEADER_START", "HEADER_WAIT", "PAYLOAD_START",
     "PAYLOAD_WAIT", "VERIFY_UNCOMMITTED", "COMMIT_START", "COMMIT_WAIT", "VERIFY"}
StoreStates == StoreBusyStates \cup {"IDLE", "DONE", "ERROR"}
CandidateStates == {"NONE", "BUILDING", "COMPLETE", "COMMITTING", "ACTIVATED", "FAILED"}

(* scan is store.scan_set, page the program offset; active, aseq and aslot *)
(* are the runtime's.                                                      *)
Calibrations ==
    [cand : CandidateStates, held : BOOLEAN, scan : Sets, store : StoreStates,
     abort : BOOLEAN, target : Slots, tseq : SequenceNumbers, page : 0 .. Pages,
     active : Sets, aseq : SequenceNumbers, aslot : Slots]
StoreBusy == cal.store \in StoreBusyStates
ServiceBusy == capturing \/ StoreBusy

(* SAFE: factory_allowed and transfer_safe; REFRESH: only the residual     *)
(* evidence is being renewed (aux_refresh_pending); UNSAFE: all else.      *)
Safeties == {"SAFE", "REFRESH", "UNSAFE"}

(* app_calibration_service_load, when the slots in readable could be read. *)
Loaded(slots, readable) ==
    LET slot == Chosen(slots, readable)
    IN  [cand |-> "NONE", held |-> FALSE, scan |-> NoSet, store |-> "IDLE",
         abort |-> FALSE, target |-> "A", tseq |-> 0, page |-> 0,
         active |-> IF slot = "NONE" THEN NoSet ELSE slots[slot].head,
         aseq |-> IF slot = "NONE" THEN 0 ELSE slots[slot].seq,
         aslot |-> IF slot = "NONE" THEN "A" ELSE slot]
NoInstall == [st |-> "IDLE", error |-> "OK", seq |-> 0, received |-> 0, late |-> FALSE]

Init ==
    /\ dev = Fresh([x \in Slots |-> Blank])
    /\ cal = Loaded(dev.slots, Slots)
    /\ inst = NoInstall
    /\ owner = "FREE" /\ image = NoSet /\ capturing = FALSE
    /\ safety \in Safeties
    /\ saved = NoSet /\ attempts = {} /\ older = {}

(* The sequence does not roll over: 0 refuses. *)
Successor(seq) == IF seq = SequenceModulus - 1 THEN 0 ELSE seq + 1

(***************************************************************************)
(* The end of an installation, by install_finish.  What the next one       *)
(* writes before it reads is forgotten here: target, tseq, page, received, *)
(* seq, and what is in the workspace.                                      *)
(***************************************************************************)
Discarded(c) ==
    [c EXCEPT !.store = "IDLE", !.abort = IF c.store \in {"DONE", "ERROR"} THEN FALSE ELSE c.abort,
              !.held = FALSE, !.scan = NoSet, !.cand = "NONE",
              !.target = "A", !.tseq = 0, !.page = 0]
Finish(c, error) ==
    /\ cal' = Discarded(c)
    /\ owner' = IF owner = "STORE" THEN "FREE" ELSE owner
    /\ inst' = [NoInstall EXCEPT !.error = error,
                   !.st = IF error = "CANCELED" THEN "ABORTED" ELSE "FAILED"]
    /\ image' = NoSet

(***************************************************************************)
(* The commands of the PC (install_dispatch).  A command that is refused   *)
(* changes nothing and is left out.                                        *)
(***************************************************************************)
Begin ==
    /\ ~Installing /\ ~ServiceBusy /\ owner = "FREE"
    /\ safety = "SAFE"
    /\ Successor(cal.aseq) # 0
    /\ cal.cand \notin {"BUILDING", "COMPLETE", "COMMITTING"}
    /\ cal' = [cal EXCEPT !.scan = NoSet, !.cand = "BUILDING", !.held = TRUE]
    /\ owner' = "STORE"
    /\ inst' = [st |-> "RECEIVING", error |-> "OK", seq |-> Successor(cal.aseq),
                received |-> 0, late |-> FALSE]
    /\ UNCHANGED <<image, capturing, safety, flashVars>>

(* A chunk of the set v, or of none that is valid. *)
Chunk(v) ==
    /\ inst.st = "RECEIVING" /\ safety = "SAFE"
    /\ inst.received < Chunks
    /\ image' = IF inst.received = 0 \/ image = v THEN v ELSE "MIXED"
    /\ inst' = [inst EXCEPT !.received = @ + 1, !.late = FALSE]
    /\ UNCHANGED <<cal, owner, capturing, safety, flashVars>>

ValidCandidate ==
    /\ inst.received = Chunks /\ image \in Values
    /\ Successor(cal.aseq) = inst.seq
Validate ==
    /\ inst.st = "RECEIVING" /\ safety = "SAFE"
    /\ IF ValidCandidate
       THEN /\ inst' = [inst EXCEPT !.st = "VALIDATED"]
            /\ cal' = [cal EXCEPT !.scan = image, !.cand = "COMPLETE"]
            /\ UNCHANGED <<owner, image>>
       ELSE Finish(cal, "INVALID_CANDIDATE")
    /\ UNCHANGED <<capturing, safety, flashVars>>

(* Seeded fault: the set is written to slot A. *)
TargetFixed == "A"
Target == IF cal.active # NoSet /\ cal.aslot = "A" THEN "B" ELSE "A"

(* commit_start and write_bound: the set is serialized from scan again, so *)
(* the workspace may be acquired anew.                                     *)
Commit ==
    /\ inst.st = "VALIDATED" /\ safety = "SAFE"
    /\ IF /\ ~ServiceBusy /\ cal.cand = "COMPLETE" /\ cal.scan \in Values
          /\ (cal.held \/ owner = "FREE")
          /\ Successor(cal.aseq) = inst.seq
       THEN /\ cal' = [cal EXCEPT !.held = TRUE, !.cand = "COMMITTING", !.store = "ERASE_START",
                                  !.abort = FALSE, !.target = Target, !.tseq = inst.seq,
                                  !.page = 0]
            /\ owner' = "STORE" /\ image' = cal.scan
            /\ inst' = [inst EXCEPT !.st = "WRITING", !.late = FALSE, !.received = 0]
            /\ attempts' = attempts \cup {cal.scan} /\ older' = attempts
       ELSE /\ Finish(cal, "STORAGE_ERROR")
            /\ UNCHANGED <<attempts, older>>
    /\ UNCHANGED <<capturing, safety, dev, saved>>

(* Seeded fault: an abort is taken whenever the store is busy. *)
AbortStoreAlways(c) == [c EXCEPT !.abort = TRUE]
(* measurement_cal_store_abort: refused once the commit was issued. *)
AbortStore(c) ==
    [c EXCEPT !.abort = c.abort \/ c.store \notin {"COMMIT_WAIT", "VERIFY", "DONE"}]

Abort ==
    /\ Installing
    /\ IF inst.st = "WRITING"
       THEN /\ cal' = AbortStore(cal)
            /\ inst' = [inst EXCEPT !.error =
                           IF cal.store \in {"COMMIT_WAIT", "VERIFY", "DONE"}
                           THEN inst.error ELSE "CANCELED"]
            /\ UNCHANGED <<owner, image>>
       ELSE Finish(cal, "CANCELED")
    /\ UNCHANGED <<capturing, safety, flashVars>>

(***************************************************************************)
(* install_step, once per pass: it waits out a refresh of the residual     *)
(* evidence; late or unsafe it aborts the store; then it steps the store.  *)
(***************************************************************************)
(* Seeded fault: a refresh is waited out for ever. *)
WaitingPatiently == safety = "REFRESH"
Waiting == ~inst.late /\ safety = "REFRESH"
Blocked == inst.late \/ safety # "SAFE"
(* Seeded fault: lost safety is noted but the store is not aborted. *)
StoreNowUnaborted == IF inst.late THEN AbortStore(cal) ELSE cal
StoreNow == IF Blocked THEN AbortStore(cal) ELSE cal
ErrorNow ==
    IF Blocked /\ inst.error = "OK"
    THEN IF inst.late THEN "TIMEOUT" ELSE "SAFETY_BLOCKED"
    ELSE inst.error

GiveUp ==
    /\ inst.st \in {"RECEIVING", "VALIDATED"} /\ ~Waiting /\ Blocked
    /\ Finish(cal, ErrorNow)
    /\ UNCHANGED <<capturing, safety, flashVars>>

Goes(c) ==
    /\ cal' = c
    /\ inst' = [inst EXCEPT !.error = ErrorNow]
    /\ UNCHANGED <<owner, image, saved, attempts, older>>
GoesTo(st) == Goes([StoreNow EXCEPT !.store = st])
Fails ==
    /\ Finish([StoreNow EXCEPT !.store = "ERROR"],
              IF ErrorNow = "OK" THEN "STORAGE_ERROR" ELSE ErrorNow)
    /\ UNCHANGED <<saved, attempts, older>>

Stepped == inst.st = "WRITING" /\ ~Waiting /\ UNCHANGED <<capturing, safety>>
Stepping(st) == Stepped /\ ~StoreNow.abort /\ cal.store = st

(* The driver's BUSY stands for "started": a start it refuses because an   *)
(* older operation is pending is taken for one, too.                       *)
StartOperation(st, next, kind) ==
    /\ Stepping(st)
    /\ \E answer \in Started(dev, [kind |-> kind, slot |-> cal.target,
                                   seq |-> cal.tseq, val |-> cal.scan]) :
         /\ dev' = answer.dev
         /\ IF answer.status = "ERROR" THEN Fails ELSE GoesTo(next)

AwaitOperation(st, after) ==
    /\ Stepping(st)
    /\ \E answer \in Polled(dev) :
         /\ dev' = answer.dev
         /\ CASE answer.status = "OK" -> Goes(after)
              [] answer.status = "BUSY" -> GoesTo(st)
              [] answer.status \in {"ERROR", "TIMEOUT"} -> Fails

EraseStart == StartOperation("ERASE_START", "ERASE_WAIT", "ERASE")
EraseWait ==
    AwaitOperation("ERASE_WAIT", [StoreNow EXCEPT !.store = "HEADER_START", !.page = 0])
HeaderStart == StartOperation("HEADER_START", "HEADER_WAIT", "HEAD")
HeaderWait == AwaitOperation("HEADER_WAIT", [StoreNow EXCEPT !.store = "PAYLOAD_START"])
PayloadStart ==
    StartOperation("PAYLOAD_START", "PAYLOAD_WAIT",
                   IF cal.page = Pages - 1 THEN "LAST" ELSE "PAGE")
PayloadWait ==
    AwaitOperation("PAYLOAD_WAIT",
        [StoreNow EXCEPT !.page = @ + 1, !.store = IF cal.page = Pages - 1
                         THEN "VERIFY_UNCOMMITTED" ELSE "PAYLOAD_START"])
CommitStart == StartOperation("COMMIT_START", "COMMIT_WAIT", "MARK")
CommitWait == AwaitOperation("COMMIT_WAIT", [StoreNow EXCEPT !.store = "VERIFY"])

TargetSector == dev.slots[cal.target]
Readable(answer) == answer = "OK" /\ dev.chip.kind = "NONE"
(* Of the pieces read back, the first holds the header and the commit word. *)
PieceReads(piece) ==
    /\ piece = 0 => /\ TargetSector.head = cal.scan /\ TargetSector.seq = cal.tseq
                    /\ TargetSector.mark = "ERASED"
    /\ piece = Pages - 1 => TargetSector.body = cal.scan
VerifyUncommitted ==
    /\ Stepping("VERIFY_UNCOMMITTED")
    /\ LET piece == IF cal.page = Pages THEN 0 ELSE cal.page
       IN  \E answer \in ReadAnswers :
             IF Readable(answer) /\ PieceReads(piece)
             THEN Goes([StoreNow EXCEPT !.page = piece + 1,
                          !.store = IF piece = Pages - 1 THEN "COMMIT_START"
                                    ELSE "VERIFY_UNCOMMITTED"])
             ELSE Fails
    /\ UNCHANGED dev

(* Seeded fault: the sequence in use stays what it was. *)
ActivationUnnumbered(c) ==
    [c EXCEPT !.active = c.scan, !.aslot = c.target, !.cand = "ACTIVATED",
              !.store = "IDLE", !.abort = FALSE, !.scan = NoSet,
              !.target = "A", !.tseq = 0, !.page = 0]
(* activate_verified_commit; its diagnostics overwrite scan. *)
Activation(c) ==
    [c EXCEPT !.active = c.scan, !.aseq = c.tseq, !.aslot = c.target, !.cand = "ACTIVATED",
              !.store = "IDLE", !.abort = FALSE, !.scan = NoSet,
              !.target = "A", !.tseq = 0, !.page = 0]
InstalledNow ==
    /\ inst' = [inst EXCEPT !.st = "INSTALLED", !.error = "OK", !.received = 0, !.late = FALSE]
    /\ image' = NoSet
    /\ saved' = cal.scan /\ attempts' = {} /\ older' = {}
(* Seeded fault: the workspace stays with the store. *)
ActivatedHolding == InstalledNow /\ cal' = Activation(cal) /\ UNCHANGED owner
Activated ==
    InstalledNow /\ cal' = [Activation(cal) EXCEPT !.held = FALSE] /\ owner' = "FREE"

Verify ==
    /\ Stepping("VERIFY")
    /\ \E answer \in ReadAnswers :
         IF Readable(answer) /\ Valid(TargetSector) /\ Holds(TargetSector, cal.tseq, cal.scan)
         THEN Activated ELSE Fails
    /\ UNCHANGED dev

(* An aborted store lets the operation under way end, and no more. *)
Drain ==
    /\ Stepped /\ StoreNow.abort
    /\ IF cal.store \in {"ERASE_WAIT", "HEADER_WAIT", "PAYLOAD_WAIT"}
       THEN \E answer \in Polled(dev) :
              /\ dev' = answer.dev
              /\ IF answer.status = "BUSY" THEN GoesTo(cal.store) ELSE Fails
       ELSE Fails /\ UNCHANGED dev

Step ==
    \/ GiveUp
    \/ EraseStart \/ EraseWait \/ HeaderStart \/ HeaderWait
    \/ PayloadStart \/ PayloadWait \/ VerifyUncommitted
    \/ CommitStart \/ CommitWait \/ Verify
    \/ Drain

(***************************************************************************)
(* Time, the evidence, the captures of the same image, the chip, and the   *)
(* power.                                                                  *)
(***************************************************************************)
Expire ==
    /\ Installing /\ ~inst.late
    /\ inst' = [inst EXCEPT !.late = TRUE]
    /\ UNCHANGED <<cal, owner, image, capturing, safety, flashVars>>

SafetyChange ==
    /\ safety' \in Safeties \ {safety}
    /\ UNCHANGED <<inst, cal, owner, image, capturing, flashVars>>

CaptureStart ==
    /\ ~ServiceBusy /\ ~cal.held /\ safety = "SAFE"
    /\ capturing' = TRUE
    /\ UNCHANGED <<inst, cal, owner, image, safety, flashVars>>
CaptureHold ==
    /\ capturing /\ owner = "FREE"
    /\ owner' = "METROLOGY" /\ image' = "MIXED"
    /\ UNCHANGED <<inst, cal, capturing, safety, flashVars>>
CaptureRelease ==
    /\ owner = "METROLOGY"
    /\ owner' = "FREE" /\ image' = NoSet
    /\ UNCHANGED <<inst, cal, capturing, safety, flashVars>>
CaptureEnd ==
    /\ capturing /\ owner # "METROLOGY"
    /\ capturing' = FALSE
    /\ UNCHANGED <<inst, cal, owner, image, safety, flashVars>>

ChipDone ==
    /\ dev.chip.kind # "NONE"
    /\ \E slots \in AfterOperation(dev) :
         dev' = [dev EXCEPT !.slots = slots, !.chip = Idle, !.torn = FALSE]
    /\ UNCHANGED <<inst, cal, owner, image, capturing, safety, saved, attempts, older>>

PowerLoss ==
    /\ \E slots \in AfterPowerLoss(dev) :
         /\ dev' = Fresh(slots)
         /\ \E readable \in IF "BOOT_READ" \in Failures THEN SUBSET Slots ELSE {Slots} :
              cal' = Loaded(slots, readable)
         /\ saved' = Restored(slots, NoSet)
    /\ inst' = NoInstall
    /\ owner' = "FREE" /\ image' = NoSet /\ capturing' = FALSE
    /\ attempts' = {} /\ older' = {}
    /\ UNCHANGED safety

Next ==
    \/ Begin \/ (\E v \in Values \cup {"MIXED"} : Chunk(v)) \/ Validate \/ Commit \/ Abort
    \/ Step
    \/ Expire \/ SafetyChange
    \/ CaptureStart \/ CaptureHold \/ CaptureRelease \/ CaptureEnd
    \/ ChipDone \/ PowerLoss

Spec == Init /\ [][Next]_vars

(* The loop keeps stepping an installation that is late, the clock runs,   *)
(* and the chip ends what it does.  Nothing is assumed of the PC, nor of   *)
(* the evidence.                                                           *)
FairSpec ==
    Spec /\ WF_vars(inst.late /\ Step) /\ WF_vars(Expire) /\ WF_vars(ChipDone)

(***************************************************************************)
(* Properties.                                                             *)
(***************************************************************************)
TypeOK ==
    /\ inst \in Installs /\ cal \in Calibrations
    /\ owner \in {"FREE", "STORE", "METROLOGY"} /\ image \in Images
    /\ capturing \in BOOLEAN /\ safety \in Safeties
    /\ dev \in Devices
    /\ saved \in Sets /\ attempts \subseteq Values /\ older \subseteq Values

(* Whatever step the power is lost in, a reboot finds a whole set: the one *)
(* in use before, or one that was being committed; and an installation is  *)
(* reported only when the reboot finds it.                                 *)
Register ==
    INSTANCE DurableRegister WITH Values <- Sets, durable <- Restored(dev.slots, NoSet)
ImplementsRegister == Register!Spec

(* The slot of the set in use is never touched. *)
ActiveSlotUntouched ==
    [][cal.active # NoSet => dev'.slots[cal.aslot] = dev.slots[cal.aslot]]_vars

(* "never authorizes a write": the chip is given a command only while the  *)
(* safety evidence is fresh and SAFE.                                      *)
NoUnsafeCommand ==
    [][dev'.chip # dev.chip /\ dev'.chip.kind # "NONE" => safety = "SAFE"]_vars

(* "never claim rollback": once an abort was accepted, a reboot does not   *)
(* come to find the aborted set; it finds what it found before.            *)
AbortRollsBack ==
    [][cal.abort => Restored(dev'.slots, NoSet)
                        \in {Restored(dev.slots, NoSet), saved} \cup older]_vars

(* Nothing is written that is not wanted, or no longer.                    *)
NothingUnwanted == NoUnsafeCommand /\ AbortRollsBack

(* The store owns the workspace exactly while it is said to hold it, which *)
(* is while an installation is under way: a capture always gets it back.   *)
WorkspaceAccounted ==
    /\ cal.held <=> Installing
    /\ cal.held <=> owner = "STORE"

(* "Device INSTALLED + verified readback ...; after reboot same usable     *)
(* record": an installation reported INSTALLED is the set in use, of the   *)
(* agreed sequence, and the one a reboot finds.                            *)
InstalledIsDurable ==
    [][inst'.st = "INSTALLED" =>
        /\ cal'.active = saved' /\ cal'.aseq = inst'.seq
        /\ Restored(dev'.slots, NoSet) = cal'.active]_vars

(* An installation ends, whatever the PC and the evidence do. *)
InstallEnds == Installing ~> ~Installing
=============================================================================
