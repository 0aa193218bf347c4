----------------------------- MODULE FlashSlots -----------------------------
(***************************************************************************)
(* A store of two flash sectors, A and B, as the settings and lead stores  *)
(* use it: frames with a sequence number, a checksum and a commit word that *)
(* is programmed last; the W25Q driver with its one operation in flight;   *)
(* and the chip behind it, which loses power between any two steps.        *)
(*                                                                         *)
(* A cell of a sector is what a reader makes of it: ERASED, the bytes      *)
(* written for a value, PART of them, or TORN, anything else.  The         *)
(* checksum is taken to tell these apart.                                  *)
(***************************************************************************)
EXTENDS Integers

CONSTANTS
    Values,             \* what the store keeps
    SequenceModulus,    \* sequence numbers wrap (2^32 in the code)
    Failures            \* what may go wrong, a subset of FailureKinds

FailureKinds == {"BUS", "SLOW", "BOOT_READ", "CHANCE"}

ASSUME FlashAssumption ==
    /\ SequenceModulus \in Nat /\ SequenceModulus > 3
    /\ {"ERASED", "TORN", "PART", "NONE"} \cap Values = {}
    /\ Failures \subseteq FailureKinds

SequenceNumbers == 0 .. SequenceModulus - 1
Succ(seq) == (seq + 1) % SequenceModulus
(* Seeded fault: the plain order. *)
NewerPlain(a, b) == a > b
(* Seeded fault: the order the wrong way round. *)
NewerReversed(a, b) == a # b /\ (b - a) % SequenceModulus < SequenceModulus \div 2
Newer(a, b) == a # b /\ (a - b) % SequenceModulus < SequenceModulus \div 2

Slots == {"A", "B"}
Other(slot) == IF slot = "A" THEN "B" ELSE "A"
Cells == Values \cup {"ERASED", "TORN", "PART"}
Marks == {"ERASED", "TORN", "COMMITTED"}

(* seq and head are the header with its checksum, body the payload, mark   *)
(* the commit word.                                                        *)
Sectors == [seq : SequenceNumbers, head : Cells, body : Cells, mark : Marks]
Blank == [seq |-> 0, head |-> "ERASED", body |-> "ERASED", mark |-> "ERASED"]

Holds(sector, seq, val) ==
    sector.head = val /\ sector.seq = seq /\ sector.body = val
Valid(sector) ==
    /\ sector.head \in Values /\ sector.body = sector.head
    /\ sector.mark = "COMMITTED"

(* The slot a load chooses among those it could read. *)
Chosen(slots, readable) ==
    LET valid == {x \in readable : Valid(slots[x])}
    IN  IF "B" \in valid /\ ("A" \in valid => Newer(slots["B"].seq, slots["A"].seq))
        THEN "B" ELSE IF "A" \in valid THEN "A" ELSE "NONE"

(* What a reboot that can read both slots restores. *)
Restored(slots, default) ==
    LET slot == Chosen(slots, Slots)
    IN  IF slot = "NONE" THEN default ELSE slots[slot].head

(***************************************************************************)
(* The chip.  Programming only clears bits: over the bytes of another      *)
(* value the result is unreadable or, with CHANCE, the new value.          *)
(***************************************************************************)
OpKinds == {"NONE", "ERASE", "HEAD", "BODY", "FRAME", "PAGE", "LAST", "MARK"}
Operations == [kind : OpKinds, slot : Slots, seq : SequenceNumbers,
               val : Values \cup {"NONE"}]
Idle == [kind |-> "NONE", slot |-> "A", seq |-> 0, val |-> "NONE"]

Over(new) == {"TORN"} \cup IF "CHANCE" \in Failures THEN {new} ELSE {}
Programmed(old, new) == IF old \in {"ERASED", new} THEN {new} ELSE Over(new)
WithHead(sector, seq, cell) ==
    [sector EXCEPT !.head = cell, !.seq = IF cell \in Values THEN seq ELSE 0]

HeadProgrammed(sector, op) ==
    {WithHead(sector, op.seq, cell) : cell \in
        IF sector.head = op.val /\ sector.seq # op.seq THEN Over(op.val)
        ELSE Programmed(sector.head, op.val)}
BodyProgrammed(sector, op) ==
    {[sector EXCEPT !.body = cell] : cell \in Programmed(sector.body, op.val)}

(* A body of several pages: PART until the last one, whole only over PART. *)
PageProgrammed(sector) ==
    {[sector EXCEPT !.body = cell] : cell \in Programmed(sector.body, "PART")}
LastProgrammed(sector, op) ==
    {[sector EXCEPT !.body = cell] : cell \in
        CASE sector.body = "PART" -> {op.val}
          [] sector.body = "ERASED" -> {"TORN"}
          [] OTHER -> Over(op.val)}

(* HEAD and BODY are the settings' two programs, FRAME the single one of   *)
(* the lead profile; HEAD, PAGE and LAST those of a calibration set.       *)
Completed(sector, op) ==
    CASE op.kind = "NONE"  -> {sector}
      [] op.kind = "ERASE" -> {Blank}
      [] op.kind = "HEAD"  -> HeadProgrammed(sector, op)
      [] op.kind = "BODY"  -> BodyProgrammed(sector, op)
      [] op.kind = "FRAME" ->
            UNION {BodyProgrammed(half, op) : half \in HeadProgrammed(sector, op)}
      [] op.kind = "PAGE"  -> PageProgrammed(sector)
      [] op.kind = "LAST"  -> LastProgrammed(sector, op)
      [] op.kind = "MARK"  ->
            {[sector EXCEPT !.mark = cell] : cell \in Programmed(sector.mark, "COMMITTED")}

(* An operation cut short leaves its field as it was, done, or torn; an    *)
(* erase each field by itself.                                             *)
Interrupted(sector, op) ==
    Completed(sector, op) \cup
    CASE op.kind = "NONE"  -> {}
      [] op.kind = "ERASE" ->
            {[WithHead(sector, sector.seq, head) EXCEPT !.body = body, !.mark = mark] :
                head \in {sector.head, "TORN", "ERASED"},
                body \in {sector.body, "TORN", "ERASED"},
                mark \in {sector.mark, "TORN", "ERASED"}}
      [] op.kind = "HEAD"  -> {sector, WithHead(sector, 0, "TORN")}
      [] op.kind \in {"BODY", "PAGE", "LAST"} -> {sector, [sector EXCEPT !.body = "TORN"]}
      [] op.kind = "FRAME" ->
            {[half EXCEPT !.body = body] :
                half \in {sector, WithHead(sector, 0, "TORN")} \cup HeadProgrammed(sector, op),
                body \in {sector.body, "TORN", op.val}}
      [] op.kind = "MARK"  -> {sector, [sector EXCEPT !.mark = "TORN"]}

(***************************************************************************)
(* The driver: slots is the flash, chip the operation the chip is busy     *)
(* with, torn whether its transfer was cut, pending the operation the      *)
(* driver has noted (device->operation).                                   *)
(***************************************************************************)
Devices == [slots : [Slots -> Sectors], chip : Operations, torn : BOOLEAN,
            pending : BOOLEAN]
Fresh(slots) == [slots |-> slots, chip |-> Idle, torn |-> FALSE, pending |-> FALSE]

(* The chip's flash once its operation is over, or when power goes. *)
AfterOperation(dev) ==
    {[dev.slots EXCEPT ![dev.chip.slot] = sector] : sector \in
        IF dev.torn THEN Interrupted(dev.slots[dev.chip.slot], dev.chip)
        ELSE Completed(dev.slots[dev.chip.slot], dev.chip)}
AfterPowerLoss(dev) ==
    {[dev.slots EXCEPT ![dev.chip.slot] = sector] :
        sector \in Interrupted(dev.slots[dev.chip.slot], dev.chip)}

Answer(status, dev) == [status |-> status, dev |-> dev]

(* A busy chip ignores a command. *)
Commanded(dev, op, torn) ==
    IF dev.chip.kind = "NONE" THEN [dev EXCEPT !.chip = op, !.torn = torn] ELSE dev

(* A failed transfer may have left the chip a whole command, a cut one (of *)
(* which an erase is none), or none; the driver then notes no operation.   *)
Started(dev, op) ==
    IF dev.pending THEN {Answer("BUSY", dev)}
    ELSE {Answer("OK", [Commanded(dev, op, FALSE) EXCEPT !.pending = TRUE])}
         \cup IF "BUS" \in Failures
              THEN {Answer("ERROR", dev)} \cup
                   {Answer("ERROR", Commanded(dev, op, torn)) :
                        torn \in {FALSE, op.kind # "ERASE"}}
              ELSE {}

(* A poll that runs out of time forgets the operation, not the chip. *)
Polled(dev) ==
    IF ~dev.pending THEN {Answer("OK", dev)}
    ELSE (IF dev.chip.kind = "NONE"
          THEN {Answer("OK", [dev EXCEPT !.pending = FALSE])}
          ELSE {Answer("BUSY", dev)}
               \cup IF "SLOW" \in Failures
                    THEN {Answer("TIMEOUT", [dev EXCEPT !.pending = FALSE])} ELSE {})
         \cup IF "BUS" \in Failures THEN {Answer("ERROR", dev)} ELSE {}

ReadAnswers == {"OK"} \cup IF "BUS" \in Failures THEN {"ERROR"} ELSE {}
=============================================================================
