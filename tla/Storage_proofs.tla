--------------------------- MODULE Storage_proofs ---------------------------
(***************************************************************************)
(* The settings and the leads as durable registers, and the receiver, for  *)
(* any values, any width of the sequence numbers, any failures of the      *)
(* flash, and rings and frames of any length.                              *)
(*                                                                         *)
(* The two stores share their flash, so their proofs share what is said of *)
(* it.  First the driver and the chip (FlashSlots).  Then the protocol of  *)
(* a store on two slots, with no store in it: what it runs on is not       *)
(* touched; the other slot holds nothing but what a load passes over, or,  *)
(* once an erase of it is over, what was started since; and the chip does  *)
(* nothing but that.  No reading of a body is needed: a head that is a     *)
(* value, with the next number, is one that was tried, also where bytes    *)
(* programmed over others come out right by luck.  Then each store, step   *)
(* by step; the receiver; and the whole.                                   *)
(***************************************************************************)
EXTENDS MCStorage, SequenceTheorems, TLAPS

(***************************************************************************)
(* The driver and the chip.                                                *)
(***************************************************************************)
(* Cells that are no value; the kinds of an operation.                     *)
LEMMA CellsApart ==
    /\ {"ERASED", "TORN", "PART", "NONE"} \cap Values = {}
    /\ {"ERASED", "TORN", "PART"} \subseteq Cells /\ Values \subseteq Cells
    /\ 0 \in SequenceNumbers /\ 1 \in SequenceNumbers
BY FlashAssumption DEF Cells, SequenceNumbers

(* A device is its four fields.                                            *)
LEMMA DeviceFields ==
    ASSUME NEW d \in Devices
    PROVE  /\ d = [slots |-> d.slots, chip |-> d.chip, torn |-> d.torn,
                   pending |-> d.pending]
           /\ d.slots \in [Slots -> Sectors] /\ d.chip \in Operations
           /\ d.chip.slot \in Slots /\ d.torn \in BOOLEAN /\ d.pending \in BOOLEAN
BY DEF Devices, Operations

(* What a start leaves behind: a command, whole or cut, or none.           *)
Issued(a, d, op) ==
    /\ a.slots = d.slots
    /\ \/ a.chip = d.chip /\ a.torn = d.torn
       \/ d.chip.kind = "NONE" /\ a.chip = op /\ (op.kind = "ERASE" => ~a.torn)

(* What any start leaves: a device with at most that command in it.        *)
LEMMA StartedEffect ==
    ASSUME NEW d \in Devices, NEW op \in Operations, NEW a \in Started(d, op)
    PROVE  /\ a.dev \in Devices /\ Issued(a.dev, d, op)
           /\ a.status \in {"OK", "BUSY", "ERROR"}
           /\ a.status = "BUSY" => a.dev = d
           /\ a.status = "OK" => /\ a.dev.pending
                                 /\ a.dev.chip = op \/ d.chip.kind # "NONE"
<1>1. CASE d.pending
  BY <1>1 DEF Started, Answer, Issued
<1>2. CASE ~d.pending
  <2> DEFINE C(torn) == Commanded(d, op, torn)
  <2>1. ASSUME NEW torn \in BOOLEAN, torn => op.kind # "ERASE"
        PROVE  /\ C(torn) \in Devices /\ Issued(C(torn), d, op)
               /\ C(torn).chip = op \/ d.chip.kind # "NONE"
    BY <1>2, <2>1, DeviceFields DEF Commanded, Devices, Issued
  <2> HIDE DEF C
  <2>2. CASE a = Answer("OK", [C(FALSE) EXCEPT !.pending = TRUE])
    <3>1. /\ C(FALSE) \in Devices /\ Issued(C(FALSE), d, op)
          /\ C(FALSE).chip = op \/ d.chip.kind # "NONE"
      BY <2>1
    <3>2. a.dev = [C(FALSE) EXCEPT !.pending = TRUE] /\ a.status = "OK"
      BY <2>2 DEF Answer
    <3>3. /\ a.dev \in Devices /\ a.dev.pending /\ a.dev.slots = C(FALSE).slots
          /\ a.dev.chip = C(FALSE).chip /\ a.dev.torn = C(FALSE).torn
      BY <3>1, <3>2 DEF Devices
    <3> QED BY <3>1, <3>2, <3>3 DEF Issued
  <2>3. CASE a = Answer("ERROR", d)
    BY <2>3 DEF Answer, Issued
  <2>4. CASE \E torn \in {FALSE, op.kind # "ERASE"} : a = Answer("ERROR", C(torn))
    <3>1. PICK torn \in {FALSE, op.kind # "ERASE"} : a = Answer("ERROR", C(torn))
      BY <2>4
    <3>2. torn \in BOOLEAN /\ (torn => op.kind # "ERASE") BY <3>1
    <3>3. a.dev = C(torn) /\ a.status = "ERROR" BY <3>1 DEF Answer
    <3> QED BY <2>1, <3>2, <3>3
  <2> QED BY <1>2, <2>2, <2>3, <2>4 DEF Started, C
<1> QED BY <1>1, <1>2, DeviceFields

(* A poll touches the driver's note only; after a command it says OK only  *)
(* of an idle chip.                                                        *)
LEMMA PolledEffect ==
    ASSUME NEW d \in Devices, NEW a \in Polled(d)
    PROVE  /\ a.dev \in Devices
           /\ a.dev.slots = d.slots /\ a.dev.chip = d.chip /\ a.dev.torn = d.torn
           /\ a.status \in {"OK", "BUSY", "TIMEOUT", "ERROR"}
           /\ a.status = "BUSY" => a.dev = d
           /\ a.status = "OK" /\ d.pending => d.chip.kind = "NONE"
<1> DEFINE Noted == [d EXCEPT !.pending = FALSE]
<1>1. /\ Noted \in Devices /\ Noted.slots = d.slots /\ Noted.chip = d.chip
      /\ Noted.torn = d.torn
  BY DeviceFields DEF Devices
<1> HIDE DEF Noted
<1>2. \/ a = Answer("OK", d) /\ ~d.pending
      \/ a = Answer("OK", Noted) /\ d.chip.kind = "NONE"
      \/ a = Answer("BUSY", d) \/ a = Answer("TIMEOUT", Noted) \/ a = Answer("ERROR", d)
  BY DEF Polled, Noted
<1> QED BY <1>1, <1>2 DEF Answer

(* What an operation of a store, whole or cut, makes of a sector w: r.  A  *)
(* value is in its head only if it was, or if the operation is a program   *)
(* of it; and an erase makes nothing valid.                                *)
OpsOfStore == {"ERASE", "HEAD", "BODY", "FRAME", "MARK"}
HeadOf(r, w) == r.head = w.head /\ r.seq = w.seq
Altered(r, w, op) ==
    /\ r \in Sectors
    /\ \/ HeadOf(r, w) \/ r.head \notin Values
       \/ op.kind # "ERASE" /\ r.head = op.val /\ r.seq = op.seq
    /\ op.kind = "ERASE" /\ Valid(r) => HeadOf(r, w) /\ Valid(w)

(* Writing one part of a sector leaves the others as they are.             *)
LEMMA HeadFields ==
    ASSUME NEW w \in Sectors, NEW seq \in SequenceNumbers, NEW cell \in Cells
    PROVE  /\ WithHead(w, seq, cell) \in Sectors
           /\ WithHead(w, seq, cell).head = cell
           /\ WithHead(w, seq, cell).seq = IF cell \in Values THEN seq ELSE 0
           /\ WithHead(w, seq, cell).body = w.body
           /\ WithHead(w, seq, cell).mark = w.mark
<1>1. 0 \in SequenceNumbers BY CellsApart
<1> QED BY <1>1 DEF WithHead, Sectors

(* As HeadFields, for the body; the number is the header's.                *)
LEMMA BodyFields ==
    ASSUME NEW w \in Sectors, NEW cell \in Cells
    PROVE  [w EXCEPT !.body = cell] \in Sectors /\ HeadOf([w EXCEPT !.body = cell], w)
BY DEF Sectors, HeadOf

(* As HeadFields, for the commit word.                                     *)
LEMMA MarkFields ==
    ASSUME NEW w \in Sectors, NEW cell \in Marks
    PROVE  [w EXCEPT !.mark = cell] \in Sectors /\ HeadOf([w EXCEPT !.mark = cell], w)
BY DEF Sectors, HeadOf

(* An erased sector has no header.                                         *)
LEMMA BlankFields == Blank \in Sectors /\ Blank.head \notin Values
BY CellsApart DEF Blank, Sectors, Cells, Marks

(* A header that can be read after a program is the one programmed.        *)
LEMMA HeadProgrammedEffect ==
    ASSUME NEW w \in Sectors, NEW op \in Operations, op.val \in Values,
           NEW r \in HeadProgrammed(w, op)
    PROVE  /\ r \in Sectors
           /\ r.head \notin Values \/ (r.head = op.val /\ r.seq = op.seq)
<1>1. PICK cell \in (IF w.head = op.val /\ w.seq # op.seq THEN Over(op.val)
                     ELSE Programmed(w.head, op.val)) : r = WithHead(w, op.seq, cell)
  BY DEF HeadProgrammed
<1>2. cell \in {"TORN", op.val} BY <1>1 DEF Programmed, Over
<1>3. cell \in Cells /\ op.seq \in SequenceNumbers /\ "TORN" \notin Values
  BY <1>2, CellsApart DEF Operations
<1>4. r \in Sectors /\ r.head = cell /\ (cell \in Values => r.seq = op.seq)
  BY <1>1, <1>3, HeadFields
<1> QED BY <1>2, <1>3, <1>4

(* A program of the body, or of a part of it, leaves the header.           *)
LEMMA BodyProgrammedEffect ==
    ASSUME NEW w \in Sectors, NEW op, op.val \in Values, NEW r \in BodyProgrammed(w, op)
    PROVE  r \in Sectors /\ HeadOf(r, w)
<1>1. PICK cell \in Programmed(w.body, op.val) : r = [w EXCEPT !.body = cell]
  BY DEF BodyProgrammed
<1>2. cell \in Cells BY <1>1, CellsApart DEF Programmed, Over
<1> QED BY <1>1, <1>2, BodyFields

(* What an operation that is carried out makes of its sector.              *)
LEMMA CompletedEffect ==
    ASSUME NEW w \in Sectors, NEW op \in Operations, op.kind \in OpsOfStore,
           op.val \in Values, NEW r \in Completed(w, op)
    PROVE  Altered(r, w, op) /\ (op.kind = "ERASE" => r = Blank)
<1>1. CASE op.kind = "ERASE"
  BY <1>1, BlankFields DEF Completed, Altered, Valid
<1>2. CASE op.kind = "HEAD"
  BY <1>2, HeadProgrammedEffect DEF Completed, Altered
<1>3. CASE op.kind = "BODY"
  BY <1>3, BodyProgrammedEffect DEF Completed, Altered
<1>4. CASE op.kind = "FRAME"
  <2>1. PICK half \in HeadProgrammed(w, op) : r \in BodyProgrammed(half, op)
    BY <1>4 DEF Completed
  <2>2. /\ half \in Sectors
        /\ half.head \notin Values \/ (half.head = op.val /\ half.seq = op.seq)
    BY HeadProgrammedEffect
  <2>3. r \in Sectors /\ HeadOf(r, half) BY <2>1, <2>2, BodyProgrammedEffect
  <2> QED BY <1>4, <2>2, <2>3 DEF Altered, HeadOf
<1>5. CASE op.kind = "MARK"
  <2>1. PICK cell \in Programmed(w.mark, "COMMITTED") : r = [w EXCEPT !.mark = cell]
    BY <1>5 DEF Completed
  <2>2. cell \in Marks BY <2>1 DEF Programmed, Over, Marks
  <2> QED BY <1>5, <2>1, <2>2, MarkFields DEF Altered
<1> QED BY <1>1, <1>2, <1>3, <1>4, <1>5 DEF OpsOfStore

(* One cut short by a loss of power alters no more than a whole one.       *)
LEMMA InterruptedEffect ==
    ASSUME NEW w \in Sectors, NEW op \in Operations, op.kind \in OpsOfStore,
           op.val \in Values, NEW r \in Completed(w, op) \cup Interrupted(w, op)
    PROVE  Altered(r, w, op)
<1>0. /\ "TORN" \in Cells /\ "ERASED" \in Cells /\ "TORN" \notin Values /\ "ERASED" \notin Values
      /\ w.head \in Cells /\ w.body \in Cells /\ w.seq \in SequenceNumbers /\ w.mark \in Marks
      /\ 0 \in SequenceNumbers /\ op.val \in Cells
  BY CellsApart DEF Sectors
<1>a. ASSUME r = w PROVE Altered(r, w, op)
  BY <1>a DEF Altered, HeadOf
<1>1. CASE r \in Completed(w, op) BY <1>1, CompletedEffect
<1>2. CASE op.kind = "ERASE" /\ r \in Interrupted(w, op) /\ r \notin Completed(w, op)
  <2>1. PICK head \in {w.head, "TORN", "ERASED"}, body \in {w.body, "TORN", "ERASED"},
             mark \in {w.mark, "TORN", "ERASED"} :
             r = [WithHead(w, w.seq, head) EXCEPT !.body = body, !.mark = mark]
    BY <1>2 DEF Interrupted
  <2> DEFINE h == WithHead(w, w.seq, head)
  <2>2. /\ h \in Sectors /\ h.head = head /\ h.seq = IF head \in Values THEN w.seq ELSE 0
    <3>1. head \in Cells /\ w.seq \in SequenceNumbers BY <1>0, <2>1
    <3> QED BY <3>1, HeadFields
  <2> HIDE DEF h
  <2>3. r = [h EXCEPT !.body = body, !.mark = mark] BY <2>1 DEF h
  <2>4. mark \in Marks /\ body \in Cells BY <1>0, <2>1 DEF Marks
  <2>5. /\ r \in Sectors /\ r.head = head /\ r.body = body /\ r.mark = mark
        /\ r.seq = IF head \in Values THEN w.seq ELSE 0
    BY <2>2, <2>3, <2>4 DEF Sectors
  <2>6. r.head \notin Values \/ HeadOf(r, w) BY <1>0, <2>1, <2>5 DEF HeadOf
  <2>7. Valid(r) => Valid(w) /\ HeadOf(r, w)
    BY <1>0, <2>1, <2>5, <2>6 DEF Valid, HeadOf
  <2> QED BY <2>5, <2>6, <2>7 DEF Altered
<1>3. CASE op.kind = "HEAD" /\ r \in Interrupted(w, op) /\ r \notin Completed(w, op)
  <2>1. r = w \/ r = WithHead(w, 0, "TORN") BY <1>3 DEF Interrupted
  <2>2. CASE r = WithHead(w, 0, "TORN")
    <3>1. "TORN" \in Cells /\ 0 \in SequenceNumbers /\ "TORN" \notin Values BY <1>0
    <3>2. r \in Sectors /\ r.head = "TORN" BY <2>2, <3>1, HeadFields
    <3> QED BY <1>3, <3>1, <3>2 DEF Altered
  <2> QED BY <1>a, <2>1, <2>2
<1>4. CASE op.kind = "BODY" /\ r \in Interrupted(w, op) /\ r \notin Completed(w, op)
  <2>1. r = w \/ r = [w EXCEPT !.body = "TORN"] BY <1>4 DEF Interrupted
  <2>2. CASE r = [w EXCEPT !.body = "TORN"]
    BY <1>0, <1>4, <2>2, BodyFields DEF Altered
  <2> QED BY <1>a, <2>1, <2>2
<1>5. CASE op.kind = "FRAME" /\ r \in Interrupted(w, op) /\ r \notin Completed(w, op)
  <2>1. PICK half \in {w, WithHead(w, 0, "TORN")} \cup HeadProgrammed(w, op),
             body \in {w.body, "TORN", op.val} : r = [half EXCEPT !.body = body]
    BY <1>5 DEF Interrupted
  <2>2. /\ half \in Sectors
        /\ \/ HeadOf(half, w) \/ half.head \notin Values
           \/ half.head = op.val /\ half.seq = op.seq
    <3>1. CASE half = w BY <3>1 DEF HeadOf
    <3>2. CASE half = WithHead(w, 0, "TORN")
      <4>1. "TORN" \in Cells /\ 0 \in SequenceNumbers /\ "TORN" \notin Values BY <1>0
      <4> QED BY <3>2, <4>1, HeadFields
    <3>3. CASE half \in HeadProgrammed(w, op) BY <3>3, HeadProgrammedEffect
    <3> QED BY <2>1, <3>1, <3>2, <3>3
  <2>3. r \in Sectors /\ HeadOf(r, half)
    <3>1. body \in Cells BY <1>0, <2>1
    <3> QED BY <1>0, <2>1, <2>2, <3>1, BodyFields
  <2> QED BY <1>5, <2>2, <2>3 DEF Altered, HeadOf
<1>6. CASE op.kind = "MARK" /\ r \in Interrupted(w, op) /\ r \notin Completed(w, op)
  <2>1. r = w \/ r = [w EXCEPT !.mark = "TORN"] BY <1>6 DEF Interrupted
  <2>2. CASE r = [w EXCEPT !.mark = "TORN"]
    <3>1. "TORN" \in Marks BY DEF Marks
    <3> QED BY <1>6, <2>2, <3>1, MarkFields DEF Altered
  <2> QED BY <1>a, <2>1, <2>2
<1> QED BY <1>1, <1>2, <1>3, <1>4, <1>5, <1>6 DEF OpsOfStore

(* The sectors once the chip has done what it does, or has lost power.     *)
LEMMA ChipEffect ==
    ASSUME NEW d \in Devices, d.chip.kind \in OpsOfStore, d.chip.val \in Values,
           NEW slots \in AfterOperation(d) \cup AfterPowerLoss(d)
    PROVE  /\ slots \in [Slots -> Sectors]
           /\ \A x \in Slots \ {d.chip.slot} : slots[x] = d.slots[x]
           /\ Altered(slots[d.chip.slot], d.slots[d.chip.slot], d.chip)
           /\ d.chip.kind = "ERASE" /\ ~d.torn /\ slots \in AfterOperation(d) =>
                 slots[d.chip.slot] = Blank
<1> DEFINE was == d.slots[d.chip.slot]
<1>1. was \in Sectors BY DeviceFields
<1>2. PICK r \in Completed(was, d.chip) \cup Interrupted(was, d.chip) :
          slots = [d.slots EXCEPT ![d.chip.slot] = r]
  BY DEF AfterOperation, AfterPowerLoss
<1>3. Altered(r, was, d.chip) BY <1>1, <1>2, InterruptedEffect, DeviceFields
<1>4. slots[d.chip.slot] = r /\ r \in Sectors
  BY <1>2, <1>3, DeviceFields DEF Altered
<1>5. ASSUME d.chip.kind = "ERASE", ~d.torn, slots \in AfterOperation(d)
      PROVE  r = Blank
  <2>1. PICK q \in Completed(was, d.chip) : slots = [d.slots EXCEPT ![d.chip.slot] = q]
    BY <1>5 DEF AfterOperation
  <2>2. q = Blank BY <1>1, <1>5, <2>1, CompletedEffect, DeviceFields DEF OpsOfStore
  <2>3. slots[d.chip.slot] = q BY <2>1, DeviceFields
  <2> QED BY <1>4, <2>2, <2>3
<1> QED BY <1>2, <1>3, <1>4, <1>5, DeviceFields

(* An idle chip loses nothing with the power.                              *)
LEMMA IdleEffect ==
    ASSUME NEW d \in Devices, d.chip.kind = "NONE", NEW slots \in AfterPowerLoss(d)
    PROVE  slots = d.slots
<1>1. PICK r \in Interrupted(d.slots[d.chip.slot], d.chip) :
        slots = [d.slots EXCEPT ![d.chip.slot] = r]
  BY DEF AfterPowerLoss
<1>2. r = d.slots[d.chip.slot] BY <1>1 DEF Interrupted, Completed
<1> QED BY <1>1, <1>2, DeviceFields

(* A device after power came back.                                         *)
LEMMA FreshDevice ==
    ASSUME NEW slots \in [Slots -> Sectors]
    PROVE  /\ Fresh(slots) \in Devices /\ Fresh(slots).slots = slots
           /\ Fresh(slots).chip.kind = "NONE"
<1>1. Idle \in Operations /\ Idle.kind = "NONE"
  BY CellsApart DEF Idle, Operations, OpKinds, Slots
<1> QED BY <1>1 DEF Fresh, Devices

(* The device once the chip is done.                                       *)
Done(d, slots) == [d EXCEPT !.slots = slots, !.chip = Idle, !.torn = FALSE]
(* Its types; the chip is idle.                                            *)
LEMMA DoneDevice ==
    ASSUME NEW d \in Devices, NEW slots \in [Slots -> Sectors]
    PROVE  /\ Done(d, slots) \in Devices /\ Done(d, slots).slots = slots
           /\ Done(d, slots).chip.kind = "NONE"
<1>1. Idle \in Operations /\ Idle.kind = "NONE"
  BY CellsApart DEF Idle, Operations, OpKinds, Slots
<1> QED BY <1>1, DeviceFields DEF Done, Devices

(***************************************************************************)
(* What the two stores have in common.  A store runs on what it last saved *)
(* or loaded, if anything (use); a save goes to the other slot, with the   *)
(* next number; tries are the values a save was started for since.         *)
(***************************************************************************)
Uses == [valid : BOOLEAN, slot : Slots, seq : SequenceNumbers, val : Values]
Spare(use) == IF use.valid THEN Other(use.slot) ELSE "A"
NextSeq(use) == IF use.valid THEN Succ(use.seq) ELSE 1

InUse(slots, use) ==
    IF use.valid
    THEN /\ Valid(slots[use.slot])
         /\ slots[use.slot].seq = use.seq /\ slots[use.slot].head = use.val
    ELSE use.slot = "A" /\ use.val = Default /\ ~Valid(slots["B"])

(* The spare sector: once an erase of it is over, nothing in it is         *)
(* readable but what was started since; until then it is what the boot or  *)
(* the report left, which a load passes over.                              *)
Rewritten(sector, use, tries) ==
    sector.head \in Values => sector.seq = NextSeq(use) /\ sector.head \in tries
PassedOver(sector, use) ==
    Valid(sector) =>
        /\ use.valid
        /\ IF use.slot = "A" THEN ~Newer(sector.seq, use.seq)
                             ELSE Newer(use.seq, sector.seq)

(* Whatever is in the chip belongs to a save that was started since; there *)
(* is no program before an erase of the spare is over, and a cut transfer  *)
(* erases nothing.                                                         *)
Ours(op, use, tries) ==
    /\ op.kind \in OpsOfStore
    /\ op.slot = Spare(use) /\ op.seq = NextSeq(use) /\ op.val \in tries
SpareKept(slots, use, tries) ==
    Rewritten(slots[Spare(use)], use, tries) \/ PassedOver(slots[Spare(use)], use)
Kept(d, use, tries) ==
    /\ InUse(d.slots, use) /\ SpareKept(d.slots, use, tries)
    /\ d.chip.kind # "NONE" => Ours(d.chip, use, tries)
    /\ d.chip.kind \notin {"NONE", "ERASE"} =>
            Rewritten(d.slots[Spare(use)], use, tries)
    /\ d.chip.kind = "ERASE" => ~d.torn

(* A save under way: its slot, number and value, and the erase it waits    *)
(* for or has behind it.                                                   *)
ErasedSoon(d, use, tries) ==
    \/ Rewritten(d.slots[Spare(use)], use, tries)
    \/ d.pending /\ d.chip.kind = "ERASE"
Saving(d, use, tries, r) ==
    /\ r.target = Spare(use) /\ r.tseq = NextSeq(use) /\ r.frame \in tries
    /\ r.st = "ERASE_WAIT" => ErasedSoon(d, use, tries)
    /\ r.st \notin {"ERASE_START", "ERASE_WAIT"} =>
            Rewritten(d.slots[Spare(use)], use, tries)

(* What DurableRegister lets a step do, of what a reboot restores (val),   *)
(* what was last reported (rep) and what was tried since.                  *)
RegisterStep(val, rep, tries, val2, rep2, tries2) ==
    \/ val2 = val /\ rep2 = rep /\ tries2 = tries
    \/ val2 = val /\ rep2 = rep /\ \E v \in Values : tries2 = tries \cup {v}
    \/ rep2 = rep /\ tries2 = tries /\ val2 \in Values /\ val2 \in tries \cup {rep}
    \/ val2 = val /\ val \in tries /\ rep2 = val /\ tries2 = {}
    \/ val2 \in Values /\ val2 \in tries \cup {rep} /\ rep2 = val2 /\ tries2 = {}

(* The next number is the newer of the two, for any width.                 *)
LEMMA NextIsNewer ==
    ASSUME NEW q \in SequenceNumbers
    PROVE  Succ(q) \in SequenceNumbers /\ Newer(Succ(q), q) /\ ~Newer(q, Succ(q))
<1>1. SequenceModulus \in Nat /\ SequenceModulus > 3 /\ q \in 0 .. SequenceModulus - 1
  BY FlashAssumption DEF SequenceNumbers
<1>2. CASE q = SequenceModulus - 1
  <2>1. Succ(q) = 0 BY <1>1, <1>2 DEF Succ
  <2>2. Succ(q) - q = 1 - SequenceModulus /\ q - Succ(q) = SequenceModulus - 1
    BY <1>1, <1>2, <2>1
  <2>3. /\ (1 - SequenceModulus) % SequenceModulus = 1
        /\ (SequenceModulus - 1) % SequenceModulus = SequenceModulus - 1
    BY <1>1
  <2>4. 1 < SequenceModulus \div 2 /\ ~(SequenceModulus - 1 < SequenceModulus \div 2)
    BY <1>1
  <2> QED BY <1>1, <1>2, <2>1, <2>2, <2>3, <2>4 DEF Newer, SequenceNumbers
<1>3. CASE q # SequenceModulus - 1
  <2>1. Succ(q) = q + 1 BY <1>1, <1>3 DEF Succ
  <2>2. Succ(q) - q = 1 /\ q - Succ(q) = -1 BY <1>1, <2>1
  <2>3. 1 % SequenceModulus = 1 /\ (-1) % SequenceModulus = SequenceModulus - 1
    BY <1>1
  <2>4. 1 < SequenceModulus \div 2 /\ ~(SequenceModulus - 1 < SequenceModulus \div 2)
    BY <1>1
  <2> QED BY <1>1, <1>3, <2>1, <2>2, <2>3, <2>4 DEF Newer, SequenceNumbers
<1> QED BY <1>2, <1>3

(* The slot in use and the spare are the two slots.                        *)
LEMMA TwoSlots ==
    ASSUME NEW use \in Uses, ~use.valid => use.slot = "A"
    PROVE  /\ use.valid \in BOOLEAN /\ use.slot \in {"A", "B"}
           /\ use.seq \in SequenceNumbers /\ use.val \in Values
           /\ Spare(use) \in {"A", "B"} /\ Spare(use) \in Slots
           /\ use.valid => (use.slot = "A" <=> Spare(use) = "B") /\ Spare(use) # use.slot
           /\ ~use.valid => Spare(use) = "A"
           /\ NextSeq(use) \in SequenceNumbers
BY NextIsNewer, CellsApart DEF Uses, Spare, NextSeq, Other, Slots

(* The spare holds a whole new save.                                       *)
Renewed(slots, use) == Valid(slots[Spare(use)]) /\ slots[Spare(use)].seq = NextSeq(use)

(* What a reboot restores: what the spare holds once it is whole and new,  *)
(* otherwise what the store runs on; so nothing but a value it runs on or  *)
(* was asked to save.                                                      *)
LEMMA RestoredIs ==
    ASSUME NEW use \in Uses, NEW slots \in [Slots -> Sectors], NEW tries,
           InUse(slots, use), SpareKept(slots, use, tries)
    PROVE  /\ Restored(slots, Default) \in tries \cup {use.val}
           /\ tries = {} => Restored(slots, Default) = use.val
           /\ Rewritten(slots[Spare(use)], use, tries) /\ Renewed(slots, use) =>
                 Restored(slots, Default) = slots[Spare(use)].head
<1> DEFINE spare == slots[Spare(use)]
<1>1. ~use.valid => use.slot = "A" BY DEF InUse
<1>2. Slots = {"A", "B"} BY DEF Slots
<1>3. CASE Rewritten(spare, use, tries) /\ Valid(spare)
  <2>1. spare.seq = NextSeq(use) /\ spare.head \in tries
    BY <1>3 DEF Rewritten, Valid
  <2>2. Chosen(slots, Slots) = Spare(use)
    <3>1. CASE ~use.valid
      BY <1>1, <1>2, <1>3, <3>1, TwoSlots DEF Chosen, InUse
    <3>2. CASE use.valid /\ use.slot = "A"
      <4>1. Newer(slots["B"].seq, slots["A"].seq) /\ Spare(use) = "B"
        BY <1>1, <2>1, <3>2, TwoSlots, NextIsNewer DEF InUse, NextSeq
      <4> QED BY <1>2, <1>3, <4>1 DEF Chosen
    <3>3. CASE use.valid /\ use.slot = "B"
      <4>1. ~Newer(slots["B"].seq, slots["A"].seq) /\ Spare(use) = "A"
        BY <1>1, <2>1, <3>3, TwoSlots, NextIsNewer DEF InUse, NextSeq
      <4> QED BY <1>2, <1>3, <4>1 DEF Chosen
    <3> QED BY <1>1, <3>1, <3>2, <3>3, TwoSlots
  <2>3. Restored(slots, Default) = spare.head
    BY <1>1, <2>2, TwoSlots DEF Restored
  <2> QED BY <2>1, <2>3
<1>4. CASE \/ PassedOver(spare, use) /\ ~Rewritten(spare, use, tries)
           \/ ~Valid(spare)
  <2>0. PassedOver(spare, use) BY <1>4 DEF PassedOver
  <2>1. Restored(slots, Default) = use.val
    <3>1. CASE ~use.valid
      <4>1. ~Valid(slots["A"]) /\ ~Valid(slots["B"]) /\ use.val = Default
        BY <1>1, <2>0, <3>1, TwoSlots DEF PassedOver, InUse
      <4>2. Chosen(slots, Slots) = "NONE" BY <4>1 DEF Chosen
      <4> QED BY <4>1, <4>2 DEF Restored
    <3>2. CASE use.valid /\ use.slot = "A"
      <4>1. /\ Valid(slots["A"]) /\ slots["A"].seq = use.seq /\ slots["A"].head = use.val
            /\ Valid(slots["B"]) => ~Newer(slots["B"].seq, use.seq)
        BY <1>1, <2>0, <3>2, TwoSlots DEF PassedOver, InUse
      <4>2. Chosen(slots, Slots) = "A" BY <1>2, <4>1 DEF Chosen
      <4> QED BY <4>1, <4>2 DEF Restored
    <3>3. CASE use.valid /\ use.slot = "B"
      <4>1. /\ Valid(slots["B"]) /\ slots["B"].seq = use.seq /\ slots["B"].head = use.val
            /\ Valid(slots["A"]) => Newer(use.seq, slots["A"].seq)
        BY <1>1, <2>0, <3>3, TwoSlots DEF PassedOver, InUse
      <4>2. Chosen(slots, Slots) = "B" BY <1>2, <4>1 DEF Chosen
      <4> QED BY <4>1, <4>2 DEF Restored
    <3> QED BY <1>1, <3>1, <3>2, <3>3, TwoSlots
  <2>2. ~(Rewritten(spare, use, tries) /\ Renewed(slots, use)) BY <1>4 DEF Renewed
  <2> QED BY <2>1, <2>2
<1> QED BY <1>3, <1>4 DEF SpareKept

(* The operation a save starts next, and what the driver makes of it.      *)
LEMMA StartKeeps ==
    ASSUME NEW use \in Uses, NEW tries \in SUBSET Values, NEW d \in Devices,
           Kept(d, use, tries), NEW op, Ours(op, use, tries),
           op.kind # "ERASE" => Rewritten(d.slots[Spare(use)], use, tries),
           op = [kind |-> op.kind, slot |-> op.slot, seq |-> op.seq, val |-> op.val],
           NEW a \in Started(d, op)
    PROVE  /\ a.dev \in Devices /\ Kept(a.dev, use, tries) /\ a.dev.slots = d.slots
           /\ a.status \in {"OK", "BUSY", "ERROR"}
           /\ a.status = "BUSY" => a.dev = d
           /\ a.status = "OK" /\ op.kind = "ERASE" => ErasedSoon(a.dev, use, tries)
<1>1. ~use.valid => use.slot = "A" BY DEF Kept, InUse
<1>2. op \in Operations
  <2>1. /\ op.kind \in OpKinds /\ op.slot \in Slots /\ op.seq \in SequenceNumbers
        /\ op.val \in Values
    BY <1>1, TwoSlots DEF Ours, OpsOfStore, OpKinds
  <2> QED BY <2>1 DEF Operations
<1>3. /\ a.dev \in Devices /\ Issued(a.dev, d, op)
      /\ a.status \in {"OK", "BUSY", "ERROR"}
      /\ a.status = "BUSY" => a.dev = d
      /\ a.status = "OK" => a.dev.pending /\ (a.dev.chip = op \/ d.chip.kind # "NONE")
  BY <1>2, StartedEffect
<1>4. Kept(a.dev, use, tries) BY <1>3 DEF Kept, Issued
<1>5. ASSUME a.status = "OK", op.kind = "ERASE" PROVE ErasedSoon(a.dev, use, tries)
  <2>1. a.dev.pending /\ a.dev.slots = d.slots /\ a.dev.chip.kind # "NONE"
    <3>1. op.kind # "NONE" BY <1>5
    <3> QED BY <1>3, <1>5, <3>1 DEF Issued
  <2> QED BY <1>4, <2>1 DEF Kept, ErasedSoon
<1> QED BY <1>3, <1>4, <1>5 DEF Issued

(* Polling the driver changes no sector; OK tells that an erase is over.   *)
LEMMA PollKeeps ==
    ASSUME NEW use, NEW tries, NEW d \in Devices, Kept(d, use, tries), NEW a \in Polled(d)
    PROVE  /\ a.dev \in Devices /\ Kept(a.dev, use, tries)
           /\ a.dev.slots = d.slots /\ a.dev.chip = d.chip
           /\ a.status \in {"OK", "BUSY", "TIMEOUT", "ERROR"}
           /\ a.status = "BUSY" => a.dev = d
           /\ a.status = "OK" /\ ErasedSoon(d, use, tries) =>
                 Rewritten(d.slots[Spare(use)], use, tries)
<1>1. /\ a.dev \in Devices
      /\ a.dev.slots = d.slots /\ a.dev.chip = d.chip /\ a.dev.torn = d.torn
      /\ a.status \in {"OK", "BUSY", "TIMEOUT", "ERROR"}
      /\ a.status = "BUSY" => a.dev = d
      /\ a.status = "OK" /\ d.pending => d.chip.kind = "NONE"
  BY PolledEffect
<1>2. Kept(a.dev, use, tries) BY <1>1 DEF Kept
<1> QED BY <1>1, <1>2 DEF ErasedSoon

(* An operation of the chip, over or cut short, leaves the slot in use, a  *)
(* rewritten spare, and one a load passes over.                            *)
LEMMA SlotsKeep ==
    ASSUME NEW use \in Uses, NEW tries \in SUBSET Values, NEW d \in Devices,
           Kept(d, use, tries), NEW slots \in AfterOperation(d) \cup AfterPowerLoss(d),
           d.chip.kind # "NONE"
    PROVE  /\ slots \in [Slots -> Sectors]
           /\ InUse(slots, use) /\ SpareKept(slots, use, tries)
           /\ use.valid => slots[use.slot] = d.slots[use.slot]
           /\ Rewritten(d.slots[Spare(use)], use, tries) =>
                 Rewritten(slots[Spare(use)], use, tries)
           /\ d.chip.kind = "ERASE" /\ slots \in AfterOperation(d) =>
                 Rewritten(slots[Spare(use)], use, tries)
<1> DEFINE was == d.slots[Spare(use)]
           is == slots[Spare(use)]
<1>1. ~use.valid => use.slot = "A" BY DEF Kept, InUse
<1>2. /\ Ours(d.chip, use, tries) /\ d.chip.kind \in OpsOfStore
      /\ d.chip.slot = Spare(use) /\ d.chip.val \in Values
      /\ d.chip.kind = "ERASE" => ~d.torn
  BY DEF Kept, Ours
<1>3. /\ slots \in [Slots -> Sectors]
      /\ \A x \in Slots \ {Spare(use)} : slots[x] = d.slots[x]
      /\ Altered(is, was, d.chip)
      /\ d.chip.kind = "ERASE" /\ slots \in AfterOperation(d) => is = Blank
  BY <1>2, ChipEffect
<1>4. /\ Slots = {"A", "B"}
      /\ use.valid => slots[use.slot] = d.slots[use.slot]
      /\ ~use.valid => slots["B"] = d.slots["B"]
  BY <1>1, <1>3, TwoSlots DEF Slots
<1>5. InUse(slots, use) BY <1>4 DEF Kept, InUse
<1>6. Rewritten(was, use, tries) => Rewritten(is, use, tries)
  BY <1>2, <1>3 DEF Altered, Rewritten, Ours, HeadOf
<1>7. d.chip.kind # "ERASE" => Rewritten(was, use, tries)
  BY DEF Kept
<1>8. d.chip.kind = "ERASE" /\ PassedOver(was, use) => PassedOver(is, use)
  BY <1>3 DEF Altered, PassedOver, HeadOf
<1>9. SpareKept(slots, use, tries) BY <1>6, <1>7, <1>8 DEF Kept, SpareKept
<1>10. is = Blank => Rewritten(is, use, tries) BY BlankFields DEF Rewritten
<1> QED BY <1>3, <1>4, <1>5, <1>6, <1>9, <1>10

(* The chip carries out or drops what it has: the slot in use keeps still. *)
LEMMA ChipKeeps ==
    ASSUME NEW use \in Uses, NEW tries \in SUBSET Values, NEW d \in Devices,
           Kept(d, use, tries), NEW slots \in AfterOperation(d), d.chip.kind # "NONE",
           NEW e, e = Done(d, slots)
    PROVE  /\ e \in Devices /\ Kept(e, use, tries) /\ e.slots = slots
           /\ use.valid => slots[use.slot] = d.slots[use.slot]
           /\ ErasedSoon(d, use, tries) => ErasedSoon(e, use, tries)
           /\ Rewritten(d.slots[Spare(use)], use, tries) =>
                 Rewritten(slots[Spare(use)], use, tries)
<1>1. /\ slots \in [Slots -> Sectors]
      /\ InUse(slots, use) /\ SpareKept(slots, use, tries)
      /\ use.valid => slots[use.slot] = d.slots[use.slot]
      /\ Rewritten(d.slots[Spare(use)], use, tries) =>
            Rewritten(slots[Spare(use)], use, tries)
      /\ d.chip.kind = "ERASE" => Rewritten(slots[Spare(use)], use, tries)
  BY SlotsKeep
<1>2. e \in Devices /\ e.slots = slots /\ e.chip.kind = "NONE"
  BY <1>1, DoneDevice
<1> QED BY <1>1, <1>2 DEF Kept, ErasedSoon

(* Power lost: what a reboot restores is a value the store ran on or was   *)
(* asked to save.                                                          *)
LEMMA PowerKeeps ==
    ASSUME NEW use \in Uses, NEW tries \in SUBSET Values, NEW d \in Devices,
           Kept(d, use, tries), NEW slots \in AfterPowerLoss(d)
    PROVE  /\ slots \in [Slots -> Sectors]
           /\ use.valid => slots[use.slot] = d.slots[use.slot]
           /\ Restored(slots, Default) \in tries \cup {use.val}
<1>1. CASE d.chip.kind = "NONE"
  <2>1. slots = d.slots BY <1>1, IdleEffect
  <2>2. d.slots \in [Slots -> Sectors] BY DeviceFields
  <2>3. Restored(d.slots, Default) \in tries \cup {use.val}
    BY <2>2, RestoredIs DEF Kept
  <2> QED BY <2>1, <2>2, <2>3
<1>2. CASE d.chip.kind # "NONE"
  <2>1. /\ slots \in [Slots -> Sectors]
        /\ InUse(slots, use) /\ SpareKept(slots, use, tries)
        /\ use.valid => slots[use.slot] = d.slots[use.slot]
    BY <1>2, SlotsKeep
  <2> QED BY <2>1, RestoredIs
<1> QED BY <1>1, <1>2

(* A boot that read both slots runs on what a load chose.                  *)
LoadedUse(slots, slot) ==
    IF slot = "NONE" THEN [valid |-> FALSE, slot |-> "A", seq |-> 0, val |-> Default]
    ELSE [valid |-> TRUE, slot |-> slot, seq |-> slots[slot].seq, val |-> slots[slot].head]

(* What a boot chooses is a whole frame in a slot that it could read.      *)
LEMMA ChosenType ==
    ASSUME NEW slots \in [Slots -> Sectors], NEW readable \in SUBSET Slots
    PROVE  LET slot == Chosen(slots, readable)
           IN  /\ slot = "NONE" \/ (slot \in readable /\ slot \in Slots /\ Valid(slots[slot]))
               /\ slot # "NONE" => /\ slots[slot].head \in Values
                                   /\ slots[slot].seq \in SequenceNumbers
               /\ LoadedUse(slots, slot) \in Uses
<1> DEFINE slot == Chosen(slots, readable)
<1>1. slot = "NONE" \/ (slot \in readable /\ slot \in Slots /\ Valid(slots[slot]))
  BY DEF Chosen
<1> HIDE DEF slot
<1>2. slot # "NONE" => slots[slot].head \in Values /\ slots[slot].seq \in SequenceNumbers
  BY <1>1 DEF Valid, Sectors
<1>3. LoadedUse(slots, slot) \in Uses
  BY <1>1, <1>2, CellsApart, ValuesAssumption DEF LoadedUse, Uses, Slots
<1> QED BY <1>1, <1>2, <1>3 DEF slot

(* A boot that reads both slots starts with what a reboot restores.        *)
LEMMA BootKeeps ==
    ASSUME NEW slots \in [Slots -> Sectors], NEW slot, slot = Chosen(slots, Slots)
    PROVE  /\ Fresh(slots) \in Devices /\ Fresh(slots).slots = slots
           /\ Kept(Fresh(slots), LoadedUse(slots, slot), {})
           /\ LoadedUse(slots, slot).val = Restored(slots, Default)
<1> DEFINE use == LoadedUse(slots, slot)
<1>1. /\ slot = "NONE" \/ (slot \in Slots /\ Valid(slots[slot]))
      /\ use \in Uses
  BY ChosenType
<1>2. /\ slot = "NONE" => ~Valid(slots["A"]) /\ ~Valid(slots["B"])
      /\ slot = "A" => (Valid(slots["B"]) => ~Newer(slots["B"].seq, slots["A"].seq))
      /\ slot = "B" => (Valid(slots["A"]) => Newer(slots["B"].seq, slots["A"].seq))
  BY DEF Chosen, Slots
<1>3. use.val = Restored(slots, Default) BY DEF Restored, LoadedUse
<1>4. InUse(slots, use) BY <1>1, <1>2 DEF InUse, LoadedUse
<1>5. PassedOver(slots[Spare(use)], use)
  BY <1>1, <1>2 DEF PassedOver, LoadedUse, Spare, Other, Slots
<1>6. Kept(Fresh(slots), use, {}) BY <1>4, <1>5, FreshDevice DEF Kept, SpareKept
<1> QED BY <1>3, <1>6, FreshDevice

(* A save verified as committed is what the store runs on from then on,    *)
(* and what a reboot restores already.                                     *)
LEMMA ReportKeeps ==
    ASSUME NEW use \in Uses, NEW tries \in SUBSET Values, NEW d \in Devices,
           Kept(d, use, tries), d.chip.kind = "NONE", NEW v \in tries,
           Rewritten(d.slots[Spare(use)], use, tries),
           Holds(d.slots[Spare(use)], NextSeq(use), v),
           d.slots[Spare(use)].mark = "COMMITTED",
           NEW next, next = [valid |-> TRUE, slot |-> Spare(use), seq |-> NextSeq(use), val |-> v]
    PROVE  /\ next \in Uses /\ Kept(d, next, {})
           /\ Restored(d.slots, Default) = v
<1> DEFINE spare == d.slots[Spare(use)]
<1>1. ~use.valid => use.slot = "A" BY DEF Kept, InUse
<1>2. d.slots \in [Slots -> Sectors] BY DeviceFields
<1>3. Valid(spare) /\ spare.seq = NextSeq(use) /\ spare.head = v
  BY DEF Valid, Holds
<1>4. Restored(d.slots, Default) = v
  BY <1>2, <1>3, RestoredIs DEF Kept, Renewed
<1>5. next \in Uses BY <1>1, TwoSlots DEF Uses
<1>6. InUse(d.slots, next) BY <1>3 DEF InUse
<1>7. PassedOver(d.slots[Spare(next)], next)
  <2>1. CASE ~use.valid
    <3>1. Spare(next) = "B" /\ ~Valid(d.slots["B"])
      BY <1>1, <2>1, TwoSlots DEF Spare, Other, Kept, InUse
    <3> QED BY <3>1 DEF PassedOver
  <2>2. CASE use.valid
    <3>1. Spare(next) = use.slot /\ d.slots[use.slot].seq = use.seq
      BY <1>1, <2>2, TwoSlots DEF Spare, Other, Kept, InUse
    <3>2. NextSeq(use) = Succ(use.seq) /\ use.seq \in SequenceNumbers
      BY <1>1, <2>2, TwoSlots DEF NextSeq
    <3> QED BY <3>1, <3>2, NextIsNewer DEF PassedOver
  <2> QED BY <1>1, <2>1, <2>2, TwoSlots
<1> QED BY <1>4, <1>5, <1>6, <1>7 DEF Kept, SpareKept

(* A save started adds to what was tried.                                  *)
LEMMA TriesKeep ==
    ASSUME NEW use, NEW tries, NEW more, tries \subseteq more, NEW d, Kept(d, use, tries)
    PROVE  Kept(d, use, more)
BY DEF Kept, SpareKept, Rewritten, Ours

(***************************************************************************)
(* The stores speak of the flash with the operators of their own instance  *)
(* of FlashSlots: they are the same.  The settings' fails as the leads'    *)
(* does, but for the reading at boot, which is no matter of the flash.     *)
(***************************************************************************)
LEMMA LeadsDriver ==
    /\ \A d, op : L!Started(d, op) = Started(d, op)
    /\ \A d : L!Polled(d) = Polled(d)
    /\ \A d : L!AfterOperation(d) = AfterOperation(d)
    /\ \A d : L!AfterPowerLoss(d) = AfterPowerLoss(d)
    /\ \A x : L!Fresh(x) = Fresh(x)
    /\ L!Idle = Idle /\ L!Slots = Slots /\ L!Blank = Blank
BY DEF L!Started, Started, L!Answer, Answer, L!Commanded, Commanded, L!Polled, Polled,
       L!AfterOperation, AfterOperation, L!AfterPowerLoss, AfterPowerLoss,
       L!Interrupted, Interrupted, L!Completed, Completed, L!HeadProgrammed, HeadProgrammed,
       L!BodyProgrammed, BodyProgrammed, L!PageProgrammed, PageProgrammed,
       L!LastProgrammed, LastProgrammed, L!Programmed, Programmed, L!Over, Over,
       L!WithHead, WithHead, L!Fresh, Fresh, L!Idle, Idle, L!Slots, Slots, L!Blank, Blank

(* The leads read, compare and number their slots as FlashSlots does.      *)
LEMMA LeadsReader ==
    /\ \A x, r : L!Chosen(x, r) = Chosen(x, r)
    /\ \A x : L!Restored(x, Default) = Restored(x, Default)
    /\ \A w, q, v : L!Holds(w, q, v) = Holds(w, q, v)
    /\ \A q : L!Succ(q) = Succ(q)
    /\ \A x : L!Other(x) = Other(x)
    /\ L!SequenceNumbers = SequenceNumbers /\ L!ReadAnswers = ReadAnswers
BY DEF L!Chosen, Chosen, L!Restored, Restored, L!Valid, Valid, L!Newer, Newer, L!Slots, Slots,
       L!Holds, Holds, L!Succ, Succ, L!Other, Other, L!SequenceNumbers, SequenceNumbers,
       L!ReadAnswers, ReadAnswers

(* So do the settings.                                                     *)
LEMMA SettingsReader ==
    /\ \A x, r : S!Chosen(x, r) = Chosen(x, r)
    /\ \A x : S!Restored(x, Default) = Restored(x, Default)
    /\ \A w, q, v : S!Holds(w, q, v) = Holds(w, q, v)
    /\ \A q : S!Succ(q) = Succ(q)
    /\ S!SequenceNumbers = SequenceNumbers
BY DEF S!Chosen, Chosen, S!Restored, Restored, S!Valid, Valid, S!Newer, Newer, S!Slots, Slots,
       S!Holds, Holds, S!Succ, Succ, S!SequenceNumbers, SequenceNumbers

(* The settings' failures, as far as the flash asks for them.              *)
LEMMA SettingsFailures ==
    /\ ("CHANCE" \in Failures \ {"BOOT_READ"}) = ("CHANCE" \in Failures)
    /\ ("BUS" \in Failures \ {"BOOT_READ"}) = ("BUS" \in Failures)
    /\ ("SLOW" \in Failures \ {"BOOT_READ"}) = ("SLOW" \in Failures)
OBVIOUS

(* The settings' driver.                                                   *)
LEMMA SettingsDriver ==
    /\ \A d, op : S!Started(d, op) = Started(d, op)
    /\ \A d : S!Polled(d) = Polled(d)
    /\ \A x : S!Fresh(x) = Fresh(x)
    /\ S!Idle = Idle /\ S!Slots = Slots /\ S!Blank = Blank
BY SettingsFailures
   DEF S!Started, Started, S!Answer, Answer, S!Commanded, Commanded, S!Polled, Polled,
       S!Fresh, Fresh, S!Idle, Idle, S!Slots, Slots, S!Blank, Blank

(* Interrupted, of what the operation completed, and its head, make.       *)
CutShort(whole, halves, sector, op) ==
    whole \cup
    CASE op.kind = "NONE"  -> {}
      [] op.kind = "ERASE" ->
            {[WithHead(sector, sector.seq, head) EXCEPT !.body = body, !.mark = mark] :
                head \in {sector.head, "TORN", "ERASED"},
                body \in {sector.body, "TORN", "ERASED"},
                mark \in {sector.mark, "TORN", "ERASED"}}
      [] op.kind = "HEAD"  -> {sector, WithHead(sector, 0, "TORN")}
      [] op.kind \in {"BODY", "PAGE", "LAST"} -> {sector, [sector EXCEPT !.body = "TORN"]}
      [] op.kind = "FRAME" ->
            {[half EXCEPT !.body = body] :
                half \in {sector, WithHead(sector, 0, "TORN")} \cup halves,
                body \in {sector.body, "TORN", op.val}}
      [] op.kind = "MARK"  -> {sector, [sector EXCEPT !.mark = "TORN"]}

(* The settings' chip.                                                     *)
LEMMA SettingsChip ==
    /\ \A d : S!AfterOperation(d) = AfterOperation(d)
    /\ \A d : S!AfterPowerLoss(d) = AfterPowerLoss(d)
<1>1. \A v : S!Over(v) = Over(v) BY SettingsFailures DEF S!Over, Over
<1>2. \A u, v : S!Programmed(u, v) = Programmed(u, v)
  BY <1>1 DEF S!Programmed, Programmed
<1>3. \A w, q, c : S!WithHead(w, q, c) = WithHead(w, q, c) BY DEF S!WithHead, WithHead
<1>4. \A w, op : S!HeadProgrammed(w, op) = HeadProgrammed(w, op)
  BY <1>1, <1>2, <1>3 DEF S!HeadProgrammed, HeadProgrammed
<1>5. \A w, op : S!BodyProgrammed(w, op) = BodyProgrammed(w, op)
  BY <1>2 DEF S!BodyProgrammed, BodyProgrammed
<1>6. \A w : S!PageProgrammed(w) = PageProgrammed(w)
  BY <1>2 DEF S!PageProgrammed, PageProgrammed
<1>7. \A w, op : S!LastProgrammed(w, op) = LastProgrammed(w, op)
  BY <1>1 DEF S!LastProgrammed, LastProgrammed
<1>8. \A w, op : S!Completed(w, op) = Completed(w, op)
  BY <1>2, <1>4, <1>5, <1>6, <1>7 DEF S!Completed, Completed, S!Blank, Blank
<1>9. \A w, op : S!Interrupted(w, op) = Interrupted(w, op)
  <2> SUFFICES ASSUME NEW w, NEW op PROVE S!Interrupted(w, op) = Interrupted(w, op)
    OBVIOUS
  <2>1. Interrupted(w, op) = CutShort(Completed(w, op), HeadProgrammed(w, op), w, op)
    BY DEF Interrupted, CutShort, WithHead
  <2>2. S!Interrupted(w, op) =
            CutShort(S!Completed(w, op), S!HeadProgrammed(w, op), w, op)
    BY DEF S!Interrupted, CutShort, S!WithHead, WithHead
  <2> QED BY <1>4, <1>8, <2>1, <2>2
<1> QED BY <1>8, <1>9 DEF S!AfterOperation, AfterOperation, S!AfterPowerLoss, AfterPowerLoss

(***************************************************************************)
(* The settings.                                                           *)
(***************************************************************************)
SetUse == [valid |-> set.pvalid, slot |-> set.active, seq |-> set.pseq,
           val |-> set.persisted]
SetVal == Restored(setdev.slots, Default)
SettingsInv ==
    /\ set \in S!Service
    /\ setdev \in Devices
    /\ settries \in SUBSET Values
    /\ Kept(setdev, SetUse, settries)
    /\ set.st \in S!BusyStates => Saving(setdev, SetUse, settries, set)
    /\ setsaved = set.persisted
    /\ ~set.dirty => set.current = set.persisted

(* A step keeps the invariant and the slot in use, and is one of the       *)
(* register's.                                                             *)
SettingsGood ==
    /\ SettingsInv'
    /\ RegisterStep(SetVal, setsaved, settries, SetVal', setsaved', settries')
    /\ set.pvalid => setdev'.slots[set.active] = setdev.slots[set.active]

SetStill ==     \* only the state and the note of a failure change
    /\ set' \in S!Service
    /\ set'.current = set.current /\ set'.persisted = set.persisted
    /\ set'.pseq = set.pseq /\ set'.pvalid = set.pvalid /\ set'.active = set.active
    /\ set'.target = set.target /\ set'.tseq = set.tseq /\ set'.frame = set.frame
    /\ set'.dirty = set.dirty
    /\ UNCHANGED <<setsaved, settries>>

(* What the settings run on, typed.                                        *)
LEMMA SetUseType == ASSUME set \in S!Service PROVE SetUse \in Uses
BY SettingsReader, SettingsDriver DEF S!Service, SetUse, Uses

(* Going on changes the state only.                                        *)
LEMMA SetGoto ==
    ASSUME set \in S!Service, NEW st \in S!States, S!Goto(st)
    PROVE  SetStill /\ set'.st = st
BY DEF S!Goto, S!Service, SetStill

(* A failure keeps what the settings run on, and the edit.                 *)
LEMMA SetFail ==
    ASSUME set \in S!Service, S!Fail
    PROVE  SetStill /\ set'.st = "ERROR"
BY DEF S!Fail, S!Service, S!States, SetStill

(* The states the proofs name.                                             *)
LEMMA SetStates ==
    /\ S!BusyStates \subseteq S!States /\ "ERROR" \in S!States /\ "IDLE" \in S!States
    /\ "ERROR" \notin S!BusyStates /\ "IDLE" \notin S!BusyStates /\ "DONE" \notin S!BusyStates
    /\ "DONE" \in S!States /\ "ERASE_START" \in S!BusyStates
BY DEF S!BusyStates, S!States

(* The device may change, the sectors may not.                             *)
LEMMA SetMoved ==
    ASSUME SettingsInv, SetStill, setdev' \in Devices, Kept(setdev', SetUse, settries),
           setdev'.slots = setdev.slots,
           set'.st \in S!BusyStates => Saving(setdev', SetUse, settries, set')
    PROVE  SettingsGood
<1>1. SetUse' = SetUse /\ SetVal' = SetVal BY DEF SetUse, SetStill, SetVal
<1> QED BY <1>1 DEF SettingsGood, SettingsInv, SetStill, RegisterStep

(* Each START state: OK goes on, BUSY waits, anything else fails.          *)
LEMMA SetStartKeeps ==
    ASSUME SettingsInv, NEW st \in S!BusyStates, NEW next \in S!BusyStates,
           NEW kind \in {"ERASE", "HEAD", "BODY", "MARK"},
           kind = "ERASE" <=> st = "ERASE_START", kind = "ERASE" <=> next = "ERASE_WAIT",
           st # "ERASE_WAIT", next # "ERASE_START",
           S!StartOperation(st, next, kind)
    PROVE  SettingsGood
<1> DEFINE op == [kind |-> kind, slot |-> set.target, seq |-> set.tseq, val |-> set.frame]
<1>1. set.st = st BY DEF S!StartOperation
<1>2. PICK a \in Started(setdev, op) :
        /\ setdev' = a.dev
        /\ CASE a.status = "OK" -> S!Goto(next)
             [] a.status = "BUSY" -> S!Goto(st)
             [] a.status = "ERROR" -> S!Fail
  BY SettingsDriver DEF S!StartOperation
<1>3. /\ Saving(setdev, SetUse, settries, set) /\ Kept(setdev, SetUse, settries)
      /\ setdev \in Devices /\ settries \in SUBSET Values /\ set \in S!Service
  BY <1>1 DEF SettingsInv
<1>4. /\ Ours(op, SetUse, settries)
      /\ op.kind # "ERASE" => Rewritten(setdev.slots[Spare(SetUse)], SetUse, settries)
      /\ op = [kind |-> op.kind, slot |-> op.slot, seq |-> op.seq, val |-> op.val]
      /\ op.kind = kind
  BY <1>1, <1>3 DEF Saving, Ours, OpsOfStore
<1>5. SetUse \in Uses BY <1>3, SetUseType
<1> HIDE DEF op
<1>6. /\ setdev' \in Devices /\ Kept(setdev', SetUse, settries)
      /\ setdev'.slots = setdev.slots
      /\ a.status \in {"OK", "BUSY", "ERROR"} /\ (a.status = "BUSY" => setdev' = setdev)
      /\ a.status = "OK" /\ kind = "ERASE" => ErasedSoon(setdev', SetUse, settries)
  BY <1>2, <1>3, <1>4, <1>5, StartKeeps
<1>7. CASE a.status = "OK"
  <2>1. SetStill /\ set'.st = next
    BY <1>2, <1>3, <1>7, SetGoto, SetStates
  <2>2. Saving(setdev', SetUse, settries, set')
    BY <1>1, <1>3, <1>4, <1>6, <1>7, <2>1 DEF Saving, SetStill
  <2> QED BY <1>6, <2>1, <2>2, SetMoved
<1>8. CASE a.status = "BUSY"
  <2>1. SetStill /\ set'.st = st
    BY <1>2, <1>3, <1>8, SetGoto, SetStates
  <2>2. Saving(setdev', SetUse, settries, set')
    BY <1>1, <1>3, <1>6, <1>8, <2>1 DEF Saving, SetStill
  <2> QED BY <1>6, <2>1, <2>2, SetMoved
<1>9. CASE a.status = "ERROR"
  <2>1. SetStill /\ set'.st = "ERROR" BY <1>2, <1>3, <1>9, SetFail
  <2> QED BY <1>6, <2>1, SetStates, SetMoved
<1> QED BY <1>6, <1>7, <1>8, <1>9

(* Each WAIT state, the erase's among them.                                *)
LEMMA SetAwaitKeeps ==
    ASSUME SettingsInv, NEW st \in S!BusyStates, NEW next \in S!BusyStates,
           st # "ERASE_START", next \notin {"ERASE_START", "ERASE_WAIT"},
           S!AwaitOperation(st, next)
    PROVE  SettingsGood
<1>1. set.st = st BY DEF S!AwaitOperation
<1>2. PICK a \in Polled(setdev) :
        /\ setdev' = a.dev
        /\ CASE a.status = "OK" -> S!Goto(next)
             [] a.status = "BUSY" -> S!Goto(st)
             [] a.status \in {"ERROR", "TIMEOUT"} -> S!Fail
  BY SettingsDriver DEF S!AwaitOperation
<1>3. /\ Saving(setdev, SetUse, settries, set) /\ Kept(setdev, SetUse, settries)
      /\ setdev \in Devices /\ set \in S!Service
  BY <1>1 DEF SettingsInv
<1>4. /\ setdev' \in Devices /\ Kept(setdev', SetUse, settries)
      /\ setdev'.slots = setdev.slots
      /\ a.status \in {"OK", "BUSY", "TIMEOUT", "ERROR"}
      /\ a.status = "BUSY" => setdev' = setdev
      /\ a.status = "OK" /\ ErasedSoon(setdev, SetUse, settries) =>
            Rewritten(setdev.slots[Spare(SetUse)], SetUse, settries)
  BY <1>2, <1>3, PollKeeps
<1>5. CASE a.status = "OK"
  <2>1. SetStill /\ set'.st = next
    BY <1>2, <1>3, <1>5, SetGoto, SetStates
  <2>2. Saving(setdev', SetUse, settries, set')
    BY <1>1, <1>3, <1>4, <1>5, <2>1 DEF Saving, SetStill, ErasedSoon
  <2> QED BY <1>4, <2>1, <2>2, SetMoved
<1>6. CASE a.status = "BUSY"
  <2>1. SetStill /\ set'.st = st
    BY <1>2, <1>3, <1>6, SetGoto, SetStates
  <2>2. Saving(setdev', SetUse, settries, set')
    BY <1>1, <1>3, <1>4, <1>6, <2>1 DEF Saving, SetStill
  <2> QED BY <1>4, <2>1, <2>2, SetMoved
<1>7. CASE a.status \in {"ERROR", "TIMEOUT"}
  <2>1. SetStill /\ set'.st = "ERROR" BY <1>2, <1>3, <1>7, SetFail
  <2> QED BY <1>4, <2>1, SetStates, SetMoved
<1> QED BY <1>4, <1>5, <1>6, <1>7

(* The deadline of a save.                                                 *)
LEMMA SetExpireKeeps == ASSUME SettingsInv, S!Fail, UNCHANGED setdev PROVE SettingsGood
<1>1. SetStill /\ set'.st = "ERROR" BY SetFail DEF SettingsInv
<1> QED BY <1>1, SetStates, SetMoved DEF SettingsInv

(* The reading before the commit word.                                     *)
LEMMA SetPreCommitKeeps == ASSUME SettingsInv, S!VerifyPreCommit PROVE SettingsGood
<1>1. set.st = "VERIFY_PRE_COMMIT" /\ UNCHANGED setdev BY DEF S!VerifyPreCommit
<1>2. S!Goto("COMMIT_START") \/ S!Fail BY DEF S!VerifyPreCommit
<1>3. CASE S!Goto("COMMIT_START")
  <2>1. SetStill /\ set'.st = "COMMIT_START"
    BY <1>3, SetGoto DEF SettingsInv, S!States, S!BusyStates
  <2>2. Saving(setdev, SetUse, settries, set) BY <1>1 DEF SettingsInv, S!BusyStates
  <2>3. Saving(setdev', SetUse, settries, set')
    BY <1>1, <2>1, <2>2 DEF Saving, SetStill
  <2> QED BY <1>1, <2>1, <2>3, SetMoved DEF SettingsInv
<1> QED BY <1>1, <1>2, <1>3, SetExpireKeeps

(* The report: what was verified is what the service runs on.              *)
LEMMA SetCommitKeeps == ASSUME SettingsInv, S!VerifyCommit PROVE SettingsGood
<1>1. set.st = "VERIFY_COMMIT" /\ UNCHANGED setdev BY DEF S!VerifyCommit
<1>2. \/ S!Fail
      \/ /\ S!TargetHolds /\ S!TargetMark = "COMMITTED"
         /\ set' = [set EXCEPT !.persisted = set.frame, !.pseq = set.tseq,
                         !.active = set.target, !.pvalid = TRUE,
                         !.dirty = set.current # set.frame, !.failed = FALSE,
                         !.st = "DONE"]
         /\ setsaved' = set.frame /\ settries' = {}
  BY DEF S!VerifyCommit
<1>3. CASE /\ S!TargetHolds /\ S!TargetMark = "COMMITTED"
           /\ set' = [set EXCEPT !.persisted = set.frame, !.pseq = set.tseq,
                         !.active = set.target, !.pvalid = TRUE,
                         !.dirty = set.current # set.frame, !.failed = FALSE,
                         !.st = "DONE"]
           /\ setsaved' = set.frame /\ settries' = {}
  <2>1. /\ Saving(setdev, SetUse, settries, set) /\ Kept(setdev, SetUse, settries)
        /\ setdev \in Devices /\ settries \in SUBSET Values /\ set \in S!Service
    BY <1>1 DEF SettingsInv, S!BusyStates
  <2>2. /\ set.target = Spare(SetUse) /\ set.tseq = NextSeq(SetUse) /\ set.frame \in settries
        /\ Rewritten(setdev.slots[Spare(SetUse)], SetUse, settries)
    BY <1>1, <2>1 DEF Saving
  <2>3. /\ Holds(setdev.slots[Spare(SetUse)], NextSeq(SetUse), set.frame)
        /\ setdev.chip.kind = "NONE" /\ setdev.slots[Spare(SetUse)].mark = "COMMITTED"
    BY <1>3, <2>2, SettingsReader DEF S!TargetHolds, S!TargetMark
  <2> DEFINE next == [valid |-> TRUE, slot |-> Spare(SetUse), seq |-> NextSeq(SetUse),
                      val |-> set.frame]
  <2>4. next \in Uses /\ Kept(setdev, next, {}) /\ SetVal = set.frame
    BY <2>1, <2>2, <2>3, SetUseType, ReportKeeps DEF SetVal
  <2>5. /\ set' \in S!Service /\ set'.st = "DONE"
        /\ set'.persisted = set.frame /\ set'.dirty = (set.current # set.frame)
        /\ set'.current = set.current
        /\ set'.pvalid = TRUE /\ set'.active = set.target /\ set'.pseq = set.tseq
    BY <1>3, <2>1, SetStates DEF S!Service
  <2>6. SetUse' = next BY <2>2, <2>5 DEF SetUse
  <2> HIDE DEF next
  <2>7. SettingsInv'
    BY <1>1, <1>3, <2>1, <2>4, <2>5, <2>6, SetStates DEF SettingsInv
  <2>8. SetVal' = SetVal /\ SetVal \in settries /\ setsaved' = SetVal /\ settries' = {}
    BY <1>1, <1>3, <2>2, <2>4 DEF SetVal
  <2> QED BY <1>1, <2>7, <2>8 DEF SettingsGood, RegisterStep
<1> QED BY <1>1, <1>2, <1>3, SetExpireKeeps

(* The user's edits, and the passes that start a save.                     *)
LEMMA SetEditKeeps ==
    ASSUME SettingsInv, NEW v \in Values, S!Set(v) PROVE SettingsGood
<1>1. set' = [set EXCEPT !.current = v, !.dirty = ~set.pvalid \/ v # set.persisted,
                         !.failed = FALSE]
      /\ UNCHANGED <<setdev, setsaved, settries>>
  BY DEF S!Set
<1>2. /\ set' \in S!Service /\ set'.st = set.st
      /\ set'.current = v /\ set'.dirty = (~set.pvalid \/ v # set.persisted)
      /\ set'.persisted = set.persisted
      /\ set'.pseq = set.pseq /\ set'.pvalid = set.pvalid /\ set'.active = set.active
      /\ set'.target = set.target /\ set'.tseq = set.tseq /\ set'.frame = set.frame
  BY <1>1 DEF SettingsInv, S!Service
<1>3. SetUse' = SetUse /\ SetVal' = SetVal BY <1>1, <1>2 DEF SetUse, SetVal
<1>4. SettingsInv'
  <2>1. ~set'.dirty => set'.current = set'.persisted BY <1>2
  <2>2. /\ setdev' = setdev /\ settries' = settries /\ setsaved' = setsaved
    BY <1>1
  <2>3. Kept(setdev', SetUse', settries') BY <1>3, <2>2 DEF SettingsInv
  <2>4. set'.st \in S!BusyStates => Saving(setdev', SetUse', settries', set')
    BY <1>2, <1>3, <2>2 DEF SettingsInv, Saving
  <2> QED BY <1>2, <2>1, <2>2, <2>3, <2>4 DEF SettingsInv
<1> QED BY <1>1, <1>3, <1>4 DEF SettingsGood, RegisterStep

(* A pass of a service at rest, which may start a save to the spare slot.  *)
LEMMA SetPassKeeps ==
    ASSUME SettingsInv, NEW blocked \in BOOLEAN, S!Pass(blocked) PROVE SettingsGood
<1> DEFINE start == request /\ set.dirty /\ ~blocked
<1>1. /\ set.st \notin S!BusyStates /\ UNCHANGED <<setdev, setsaved>>
      /\ set' = IF start THEN S!SaveStarted(S!Acknowledged(set)) ELSE S!Acknowledged(set)
      /\ settries' = IF start THEN settries \cup {set.current} ELSE settries
  BY DEF S!Pass, S!Busy
<1> HIDE DEF start
<1> DEFINE r == S!Acknowledged(set)
<1>2. /\ r \in S!Service /\ r.st \in {set.st, "IDLE"}
      /\ r.current = set.current /\ r.persisted = set.persisted
      /\ r.pseq = set.pseq /\ r.pvalid = set.pvalid /\ r.active = set.active
      /\ r.target = set.target /\ r.tseq = set.tseq /\ r.frame = set.frame
      /\ r.dirty = set.dirty
  BY SetStates DEF SettingsInv, S!Service, S!Acknowledged
<1> HIDE DEF r
<1>3. CASE ~start
  <2>1. set' = r /\ settries' = settries BY <1>1, <1>3 DEF r
  <2>2. SetStill BY <1>1, <1>2, <2>1 DEF SetStill
  <2>3. set'.st \notin S!BusyStates BY <1>1, <1>2, <2>1, SetStates
  <2> QED BY <1>1, <2>2, <2>3, SetMoved DEF SettingsInv
<1>4. CASE start
  <2>1. set' = S!SaveStarted(r) /\ settries' = settries \cup {set.current}
    BY <1>1, <1>4 DEF r
  <2> DEFINE to == IF ~r.pvalid \/ r.active = "B" THEN "A" ELSE "B"
             number == IF r.pvalid THEN Succ(r.pseq) ELSE 1
  <2>2. set' = [r EXCEPT !.target = to, !.tseq = number, !.frame = r.current,
                         !.st = "ERASE_START"]
    BY <2>1, SettingsReader DEF S!SaveStarted
  <2>3. ~SetUse.valid => SetUse.slot = "A" BY DEF SettingsInv, Kept, InUse
  <2>4. SetUse \in Uses BY SetUseType DEF SettingsInv
  <2>5. to = Spare(SetUse) /\ number = NextSeq(SetUse)
    BY <1>2, <2>3, <2>4, TwoSlots DEF SetUse, Spare, NextSeq, Other
  <2>6. to \in S!Slots /\ number \in S!SequenceNumbers
    BY <2>3, <2>4, <2>5, TwoSlots, SettingsReader, SettingsDriver
  <2> HIDE DEF to, number
  <2>7. /\ set' \in S!Service /\ set'.st = "ERASE_START"
        /\ set'.target = to /\ set'.tseq = number /\ set'.frame = set.current
        /\ set'.current = set.current /\ set'.persisted = set.persisted
        /\ set'.pseq = set.pseq /\ set'.pvalid = set.pvalid /\ set'.active = set.active
        /\ set'.dirty = set.dirty /\ set.current \in Values
    BY <1>2, <2>2, <2>6, SetStates DEF S!Service
  <2>8. SetUse' = SetUse /\ SetVal' = SetVal
    BY <1>1, <2>7 DEF SetUse, SetVal
  <2>9. Kept(setdev', SetUse, settries')
    BY <1>1, <2>1, TriesKeep DEF SettingsInv
  <2>10. Saving(setdev', SetUse, settries', set')
    BY <2>1, <2>5, <2>7 DEF Saving
  <2>11. SettingsInv'
    BY <1>1, <2>1, <2>7, <2>8, <2>9, <2>10 DEF SettingsInv
  <2> QED BY <1>1, <2>1, <2>7, <2>8, <2>11 DEF SettingsGood, RegisterStep
<1> QED BY <1>3, <1>4

(* Another client polls the driver the stores share.                       *)
LEMMA SetPollKeeps == ASSUME SettingsInv, S!GenericPoll PROVE SettingsGood
<1>1. PICK a \in Polled(setdev) : setdev' = a.dev
  BY SettingsDriver DEF S!GenericPoll
<1>2. set.st \notin S!BusyStates /\ UNCHANGED <<set, setsaved, settries>>
  BY DEF S!GenericPoll, S!Busy
<1>3. setdev' \in Devices /\ Kept(setdev', SetUse, settries) /\ setdev'.slots = setdev.slots
  BY <1>1, PollKeeps DEF SettingsInv
<1>4. SetStill BY <1>2 DEF SettingsInv, SetStill
<1> QED BY <1>2, <1>3, <1>4, SetMoved

(* The chip is done: what a reboot restores may be another of the values   *)
(* tried.                                                                  *)
LEMMA SetChipKeeps == ASSUME SettingsInv, S!ChipDone PROVE SettingsGood
<1>1. setdev.chip.kind # "NONE" /\ UNCHANGED <<set, setsaved, settries>>
  BY DEF S!ChipDone
<1>2. PICK slots \in AfterOperation(setdev) : setdev' = Done(setdev, slots)
  BY SettingsChip, SettingsDriver DEF S!ChipDone, Done
<1>3. SetUse \in Uses BY SetUseType DEF SettingsInv
<1>4. /\ setdev' \in Devices /\ Kept(setdev', SetUse, settries) /\ setdev'.slots = slots
      /\ SetUse.valid => slots[SetUse.slot] = setdev.slots[SetUse.slot]
      /\ ErasedSoon(setdev, SetUse, settries) => ErasedSoon(setdev', SetUse, settries)
      /\ Rewritten(setdev.slots[Spare(SetUse)], SetUse, settries) =>
            Rewritten(setdev'.slots[Spare(SetUse)], SetUse, settries)
  BY <1>1, <1>2, <1>3, ChipKeeps DEF SettingsInv
<1>5. SetUse' = SetUse BY <1>1 DEF SetUse
<1>6. SettingsInv' BY <1>1, <1>4, <1>5 DEF SettingsInv, Saving
<1>7. SetVal' \in settries \cup {set.persisted}
  <2>1. setdev'.slots \in [Slots -> Sectors] BY <1>4, DeviceFields
  <2>2. SetVal' \in settries \cup {SetUse.val}
    BY <1>3, <1>4, <2>1, RestoredIs DEF Kept, SetVal
  <2> QED BY <2>2 DEF SetUse
<1>8. SetVal' \in Values BY <1>7 DEF SettingsInv, S!Service
<1>9. set.pvalid => setdev'.slots[set.active] = setdev.slots[set.active]
  BY <1>4 DEF SetUse
<1> QED BY <1>1, <1>6, <1>7, <1>8, <1>9 DEF SettingsGood, RegisterStep, SettingsInv

(* What the service runs on after a boot that read both slots.             *)
LEMMA SetLoaded ==
    ASSUME NEW slots \in [Slots -> Sectors], NEW r, r = S!Loaded(slots, Slots)
    PROVE  /\ r \in S!Service /\ r.st = "IDLE"
           /\ r.current = r.persisted
           /\ [valid |-> r.pvalid, slot |-> r.active, seq |-> r.pseq, val |-> r.persisted]
                 = LoadedUse(slots, Chosen(slots, Slots))
<1> DEFINE slot == Chosen(slots, Slots)
<1>1. /\ slot = "NONE" \/ slot \in Slots
      /\ slot # "NONE" => /\ slots[slot].head \in Values
                          /\ slots[slot].seq \in SequenceNumbers
  BY ChosenType
<1>2. r = IF slot = "NONE" THEN S!Defaults
             ELSE [S!Defaults EXCEPT !.current = slots[slot].head,
                      !.persisted = slots[slot].head, !.pseq = slots[slot].seq,
                      !.active = slot, !.pvalid = TRUE]
  BY SettingsReader DEF S!Loaded
<1> HIDE DEF slot
<1>3. /\ S!Defaults \in S!Service /\ S!Defaults.st = "IDLE"
      /\ S!Defaults.current = Default /\ S!Defaults.persisted = Default
      /\ S!Defaults.pseq = 0 /\ S!Defaults.pvalid = FALSE /\ S!Defaults.active = "A"
  BY ValuesAssumption, CellsApart, SettingsReader, SettingsDriver, SetStates
     DEF S!Defaults, S!Service, Slots
<1>4. CASE slot = "NONE"
  BY <1>2, <1>3, <1>4 DEF LoadedUse, slot
<1>5. CASE slot # "NONE"
  <2>0. slot \in S!Slots /\ slots[slot].seq \in S!SequenceNumbers /\ slots[slot].head \in Values
    BY <1>1, <1>5, SettingsReader, SettingsDriver
  <2>1. /\ r \in S!Service /\ r.st = "IDLE"
        /\ r.current = slots[slot].head /\ r.persisted = slots[slot].head
        /\ r.pseq = slots[slot].seq /\ r.pvalid = TRUE /\ r.active = slot
    BY <1>2, <1>3, <1>5, <2>0 DEF S!Service
  <2> QED BY <1>5, <2>1 DEF LoadedUse, slot
<1> QED BY <1>4, <1>5

(* Hence of the boot itself.                                               *)
LEMMA SetBoots ==
    ASSUME NEW slots \in [Slots -> Sectors], setdev' = Fresh(slots),
           set' = S!Loaded(slots, Slots), settries' = {},
           setsaved' = Restored(slots, Default)
    PROVE  SettingsInv' /\ SetVal' = setsaved'
<1>1. /\ set' \in S!Service /\ set'.st = "IDLE" /\ set'.current = set'.persisted
      /\ SetUse' = LoadedUse(slots, Chosen(slots, Slots))
  BY SetLoaded DEF SetUse
<1>2. /\ setdev' \in Devices /\ setdev'.slots = slots /\ Kept(setdev', SetUse', settries')
      /\ SetUse'.val = setsaved'
  BY <1>1, BootKeeps
<1>3. set'.persisted = setsaved' BY <1>2 DEF SetUse
<1> QED BY <1>1, <1>2, <1>3, SetStates DEF SettingsInv, SetVal

(* A loss of power in any step, and the boot after it.                     *)
LEMMA SetPowerKeeps == ASSUME SettingsInv, S!PowerLoss PROVE SettingsGood
<1>1. PICK slots \in AfterPowerLoss(setdev) :
        /\ setdev' = Fresh(slots) /\ set' = S!Loaded(slots, Slots)
        /\ setsaved' = Restored(slots, Default) /\ settries' = {}
  BY SettingsChip, SettingsDriver, SettingsReader DEF S!PowerLoss
<1>2. SetUse \in Uses BY SetUseType DEF SettingsInv
<1>3. /\ slots \in [Slots -> Sectors]
      /\ SetUse.valid => slots[SetUse.slot] = setdev.slots[SetUse.slot]
      /\ Restored(slots, Default) \in settries \cup {SetUse.val}
  BY <1>2, PowerKeeps DEF SettingsInv
<1>4. SettingsInv' /\ SetVal' = setsaved' BY <1>1, <1>3, SetBoots
<1>5. SetVal' \in settries \cup {setsaved} /\ SetVal' \in Values
  BY <1>1, <1>3, <1>4 DEF SettingsInv, SetUse, S!Service
<1>6. set.pvalid => setdev'.slots[set.active] = setdev.slots[set.active]
  BY <1>1, <1>3, FreshDevice DEF SetUse
<1> QED BY <1>1, <1>4, <1>5, <1>6 DEF SettingsGood, RegisterStep

(* A flash never written restores the default.                             *)
LEMMA BlankSlots == [x \in Slots |-> Blank] \in [Slots -> Sectors]
                    /\ Restored([x \in Slots |-> Blank], Default) = Default
BY BlankFields DEF Restored, Chosen, Valid, Slots

(* Every step of the settings.                                             *)
LEMMA SetNext == ASSUME SettingsInv, S!Next PROVE SettingsGood
<1>1. ASSUME S!Step PROVE SettingsGood
  <2>1. CASE S!EraseStart BY <2>1, SetStartKeeps DEF S!EraseStart, S!BusyStates
  <2>2. CASE S!HeaderStart BY <2>2, SetStartKeeps DEF S!HeaderStart, S!BusyStates
  <2>3. CASE S!PayloadStart BY <2>3, SetStartKeeps DEF S!PayloadStart, S!BusyStates
  <2>4. CASE S!CommitStart BY <2>4, SetStartKeeps DEF S!CommitStart, S!BusyStates
  <2>5. CASE S!EraseWait BY <2>5, SetAwaitKeeps DEF S!EraseWait, S!BusyStates
  <2>6. CASE S!HeaderWait BY <2>6, SetAwaitKeeps DEF S!HeaderWait, S!BusyStates
  <2>7. CASE S!PayloadWait BY <2>7, SetAwaitKeeps DEF S!PayloadWait, S!BusyStates
  <2>8. CASE S!CommitWait BY <2>8, SetAwaitKeeps DEF S!CommitWait, S!BusyStates
  <2>9. CASE S!Expire BY <2>9, SetExpireKeeps DEF S!Expire
  <2> QED BY <1>1, <2>1, <2>2, <2>3, <2>4, <2>5, <2>6, <2>7, <2>8, <2>9,
             SetPreCommitKeeps, SetCommitKeeps DEF S!Step
<1>2. ASSUME S!RequestSave PROVE SettingsGood
  <2>1. UNCHANGED <<set, setdev, setsaved, settries>> BY <1>2 DEF S!RequestSave
  <2>2. SetStill BY <2>1 DEF SettingsInv, SetStill
  <2> QED BY <2>1, <2>2, SetMoved DEF SettingsInv
<1> QED BY <1>1, <1>2, SetEditKeeps, SetPassKeeps, SetPollKeeps, SetChipKeeps, SetPowerKeeps
        DEF S!Next

(***************************************************************************)
(* The leads.  A store that could not read both slots saves nothing.       *)
(***************************************************************************)
ProfUse == [valid |-> prof.valid, slot |-> prof.slot, seq |-> prof.seq,
            val |-> prof.active]
ProfVal == Restored(profdev.slots, Default)
LeadsKeep ==
    /\ Kept(profdev, ProfUse, proftries)
    /\ prof.st \in L!BusyStates => Saving(profdev, ProfUse, proftries, prof)
    /\ profsaved = prof.active
LeadsUnread ==
    /\ prof.st \notin L!BusyStates /\ profdev.chip.kind = "NONE" /\ proftries = {}
    /\ profsaved = ProfVal
LeadsInv ==
    /\ prof \in L!Store
    /\ profdev \in Devices
    /\ proftries \in SUBSET Values
    /\ IF prof.loaded THEN LeadsKeep ELSE LeadsUnread

LeadsGood ==
    /\ LeadsInv'
    /\ RegisterStep(ProfVal, profsaved, proftries, ProfVal', profsaved', proftries')
    /\ prof.valid /\ prof.loaded => profdev'.slots[prof.slot] = profdev.slots[prof.slot]

ProfStill ==    \* only the state and the note of uncertainty change
    /\ prof' \in L!Store
    /\ prof'.active = prof.active /\ prof'.valid = prof.valid /\ prof'.seq = prof.seq
    /\ prof'.slot = prof.slot /\ prof'.target = prof.target /\ prof'.tseq = prof.tseq
    /\ prof'.frame = prof.frame /\ prof'.loaded = prof.loaded
    /\ UNCHANGED <<profsaved, proftries>>

(* What the leads run on, typed.                                           *)
LEMMA ProfUseType == ASSUME prof \in L!Store PROVE ProfUse \in Uses
BY LeadsReader, LeadsDriver DEF L!Store, ProfUse, Uses

(* The states the proofs name.                                             *)
LEMMA ProfStates ==
    /\ "ERROR" \notin L!BusyStates /\ "IDLE" \notin L!BusyStates /\ "DONE" \notin L!BusyStates
    /\ "ERASE_START" \in L!BusyStates
BY DEF L!BusyStates

(* Going on changes the state only.                                        *)
LEMMA ProfGoto ==
    ASSUME prof \in L!Store, NEW st \in L!BusyStates, L!Goto(st)
    PROVE  ProfStill /\ prof'.st = st
BY DEF L!Goto, L!Store, ProfStill

(* A failure notes whether the flash may hold the save, no more.           *)
LEMMA ProfFail ==
    ASSUME prof \in L!Store, L!Fail
    PROVE  ProfStill /\ prof'.st = "ERROR"
<1> DEFINE unsure == prof.st \in L!UncertainStates
<1>1. unsure \in BOOLEAN OBVIOUS
<1>2. prof' = [prof EXCEPT !.st = "ERROR", !.uncertain = unsure]
      /\ UNCHANGED <<profsaved, proftries>>
  BY DEF L!Fail
<1> HIDE DEF unsure
<1> QED BY <1>1, <1>2 DEF L!Store, ProfStill

(* A busy store has read both slots.                                       *)
LEMMA ProfBusy ==
    ASSUME LeadsInv, prof.st \in L!BusyStates
    PROVE  /\ prof.loaded /\ LeadsKeep /\ Saving(profdev, ProfUse, proftries, prof)
           /\ Kept(profdev, ProfUse, proftries)
BY DEF LeadsInv, LeadsKeep, LeadsUnread

(* The device may change, the sectors may not.                             *)
LEMMA ProfMoved ==
    ASSUME LeadsInv, prof.loaded, ProfStill, profdev' \in Devices,
           Kept(profdev', ProfUse, proftries),
           profdev'.slots = profdev.slots,
           prof'.st \in L!BusyStates => Saving(profdev', ProfUse, proftries, prof')
    PROVE  LeadsGood
<1>1. ProfUse' = ProfUse /\ ProfVal' = ProfVal BY DEF ProfUse, ProfStill, ProfVal
<1>2. LeadsKeep' BY <1>1 DEF LeadsInv, LeadsKeep, ProfStill
<1> QED BY <1>1, <1>2 DEF LeadsGood, LeadsInv, ProfStill, RegisterStep

(* Each START state: OK goes on, BUSY waits, anything else fails.          *)
LEMMA ProfStartKeeps ==
    ASSUME LeadsInv, NEW st \in L!BusyStates, NEW next \in L!BusyStates,
           NEW kind \in {"ERASE", "FRAME", "MARK"},
           kind = "ERASE" <=> st = "ERASE_START", kind = "ERASE" <=> next = "ERASE_WAIT",
           st # "ERASE_WAIT", next # "ERASE_START",
           L!StartOperation(st, next, kind)
    PROVE  LeadsGood
<1> DEFINE op == [kind |-> kind, slot |-> prof.target, seq |-> prof.tseq, val |-> prof.frame]
<1>1. prof.st = st BY DEF L!StartOperation
<1>2. PICK a \in Started(profdev, op) :
        /\ profdev' = a.dev
        /\ CASE a.status = "OK" -> L!Goto(next)
             [] a.status = "BUSY" -> L!Goto(st)
             [] a.status = "ERROR" -> L!Fail
  BY LeadsDriver DEF L!StartOperation
<1>3. /\ Saving(profdev, ProfUse, proftries, prof) /\ Kept(profdev, ProfUse, proftries)
      /\ profdev \in Devices /\ proftries \in SUBSET Values /\ prof \in L!Store
      /\ prof.loaded
  BY <1>1, ProfBusy DEF LeadsInv
<1>4. /\ Ours(op, ProfUse, proftries)
      /\ op.kind # "ERASE" => Rewritten(profdev.slots[Spare(ProfUse)], ProfUse, proftries)
      /\ op = [kind |-> op.kind, slot |-> op.slot, seq |-> op.seq, val |-> op.val]
      /\ op.kind = kind
  BY <1>1, <1>3 DEF Saving, Ours, OpsOfStore
<1>5. ProfUse \in Uses BY <1>3, ProfUseType
<1> HIDE DEF op
<1>6. /\ profdev' \in Devices /\ Kept(profdev', ProfUse, proftries)
      /\ profdev'.slots = profdev.slots
      /\ a.status \in {"OK", "BUSY", "ERROR"} /\ (a.status = "BUSY" => profdev' = profdev)
      /\ a.status = "OK" /\ kind = "ERASE" => ErasedSoon(profdev', ProfUse, proftries)
  BY <1>2, <1>3, <1>4, <1>5, StartKeeps
<1>7. CASE a.status = "OK"
  <2>1. ProfStill /\ prof'.st = next BY <1>2, <1>3, <1>7, ProfGoto
  <2>2. Saving(profdev', ProfUse, proftries, prof')
    BY <1>1, <1>3, <1>4, <1>6, <1>7, <2>1 DEF Saving, ProfStill
  <2> QED BY <1>3, <1>6, <2>1, <2>2, ProfMoved
<1>8. CASE a.status = "BUSY"
  <2>1. ProfStill /\ prof'.st = st BY <1>2, <1>3, <1>8, ProfGoto
  <2>2. Saving(profdev', ProfUse, proftries, prof')
    BY <1>1, <1>3, <1>6, <1>8, <2>1 DEF Saving, ProfStill
  <2> QED BY <1>3, <1>6, <2>1, <2>2, ProfMoved
<1>9. CASE a.status = "ERROR"
  <2>1. ProfStill /\ prof'.st = "ERROR" BY <1>2, <1>3, <1>9, ProfFail
  <2> QED BY <1>3, <1>6, <2>1, ProfStates, ProfMoved
<1> QED BY <1>6, <1>7, <1>8, <1>9

(* Each WAIT state, the erase's among them.                                *)
LEMMA ProfAwaitKeeps ==
    ASSUME LeadsInv, NEW st \in L!BusyStates, NEW next \in L!BusyStates,
           st # "ERASE_START", next \notin {"ERASE_START", "ERASE_WAIT"},
           L!AwaitOperation(st, next)
    PROVE  LeadsGood
<1>1. prof.st = st BY DEF L!AwaitOperation
<1>2. PICK a \in Polled(profdev) :
        /\ profdev' = a.dev
        /\ CASE a.status = "OK" -> L!Goto(next)
             [] a.status = "BUSY" -> L!Goto(st)
             [] a.status \in {"ERROR", "TIMEOUT"} -> L!Fail
  BY LeadsDriver DEF L!AwaitOperation
<1>3. /\ Saving(profdev, ProfUse, proftries, prof) /\ Kept(profdev, ProfUse, proftries)
      /\ profdev \in Devices /\ prof \in L!Store /\ prof.loaded
  BY <1>1, ProfBusy DEF LeadsInv
<1>4. /\ profdev' \in Devices /\ Kept(profdev', ProfUse, proftries)
      /\ profdev'.slots = profdev.slots
      /\ a.status \in {"OK", "BUSY", "TIMEOUT", "ERROR"}
      /\ a.status = "BUSY" => profdev' = profdev
      /\ a.status = "OK" /\ ErasedSoon(profdev, ProfUse, proftries) =>
            Rewritten(profdev.slots[Spare(ProfUse)], ProfUse, proftries)
  BY <1>2, <1>3, PollKeeps
<1>5. CASE a.status = "OK"
  <2>1. ProfStill /\ prof'.st = next BY <1>2, <1>3, <1>5, ProfGoto
  <2>2. Saving(profdev', ProfUse, proftries, prof')
    BY <1>1, <1>3, <1>4, <1>5, <2>1 DEF Saving, ProfStill, ErasedSoon
  <2> QED BY <1>3, <1>4, <2>1, <2>2, ProfMoved
<1>6. CASE a.status = "BUSY"
  <2>1. ProfStill /\ prof'.st = st BY <1>2, <1>3, <1>6, ProfGoto
  <2>2. Saving(profdev', ProfUse, proftries, prof')
    BY <1>1, <1>3, <1>4, <1>6, <2>1 DEF Saving, ProfStill
  <2> QED BY <1>3, <1>4, <2>1, <2>2, ProfMoved
<1>7. CASE a.status \in {"ERROR", "TIMEOUT"}
  <2>1. ProfStill /\ prof'.st = "ERROR" BY <1>2, <1>3, <1>7, ProfFail
  <2> QED BY <1>3, <1>4, <2>1, ProfStates, ProfMoved
<1> QED BY <1>4, <1>5, <1>6, <1>7

(* A failure that leaves the device alone.                                 *)
LEMMA ProfFailKeeps ==
    ASSUME LeadsInv, prof.st \in L!BusyStates, L!Fail, UNCHANGED profdev
    PROVE  LeadsGood
<1>1. ProfStill /\ prof'.st = "ERROR" BY ProfFail DEF LeadsInv
<1>2. prof.loaded /\ Kept(profdev, ProfUse, proftries) BY ProfBusy
<1> QED BY <1>1, <1>2, ProfStates, ProfMoved DEF LeadsInv

(* The reading back: what it reports is what a reboot restores.            *)
LEMMA ProfVerifyKeeps == ASSUME LeadsInv, L!Verify PROVE LeadsGood
<1>1. prof.st = "VERIFY" /\ prof.st \in L!BusyStates /\ UNCHANGED profdev
  BY DEF L!Verify, L!BusyStates
<1>2. L!Goto("COMMIT_START") \/ L!Fail BY DEF L!Verify
<1>3. CASE L!Goto("COMMIT_START")
  <2>1. ProfStill /\ prof'.st = "COMMIT_START"
    BY <1>3, ProfGoto DEF LeadsInv, L!BusyStates
  <2>2. /\ Saving(profdev, ProfUse, proftries, prof) /\ prof.loaded
        /\ Kept(profdev, ProfUse, proftries)
    BY <1>1, ProfBusy
  <2>3. Saving(profdev', ProfUse, proftries, prof')
    BY <1>1, <2>1, <2>2 DEF Saving, ProfStill
  <2> QED BY <1>1, <2>1, <2>2, <2>3, ProfMoved DEF LeadsInv
<1> QED BY <1>1, <1>2, <1>3, ProfFailKeeps

(* The report: what was verified is what the store runs on.                *)
LEMMA ProfCommitKeeps == ASSUME LeadsInv, L!VerifyCommit PROVE LeadsGood
<1>1. prof.st = "VERIFY_COMMIT" /\ prof.st \in L!BusyStates /\ UNCHANGED profdev
  BY DEF L!VerifyCommit, L!BusyStates
<1>2. \/ L!Fail
      \/ /\ L!TargetReads("COMMITTED")
         /\ prof' = [prof EXCEPT !.active = prof.frame, !.seq = prof.tseq,
                         !.slot = prof.target, !.valid = TRUE, !.st = "DONE"]
         /\ profsaved' = prof.frame /\ proftries' = {}
  BY DEF L!VerifyCommit
<1>3. CASE /\ L!TargetReads("COMMITTED")
           /\ prof' = [prof EXCEPT !.active = prof.frame, !.seq = prof.tseq,
                         !.slot = prof.target, !.valid = TRUE, !.st = "DONE"]
           /\ profsaved' = prof.frame /\ proftries' = {}
  <2>1. /\ Saving(profdev, ProfUse, proftries, prof) /\ Kept(profdev, ProfUse, proftries)
        /\ profdev \in Devices /\ proftries \in SUBSET Values /\ prof \in L!Store
        /\ prof.loaded
    BY <1>1, ProfBusy DEF LeadsInv
  <2>2. /\ prof.target = Spare(ProfUse) /\ prof.tseq = NextSeq(ProfUse)
        /\ prof.frame \in proftries
        /\ Rewritten(profdev.slots[Spare(ProfUse)], ProfUse, proftries)
    BY <1>1, <2>1 DEF Saving
  <2>3. /\ Holds(profdev.slots[Spare(ProfUse)], NextSeq(ProfUse), prof.frame)
        /\ profdev.chip.kind = "NONE" /\ profdev.slots[Spare(ProfUse)].mark = "COMMITTED"
    BY <1>3, <2>2, LeadsReader DEF L!TargetReads
  <2> DEFINE next == [valid |-> TRUE, slot |-> Spare(ProfUse), seq |-> NextSeq(ProfUse),
                      val |-> prof.frame]
  <2>4. next \in Uses /\ Kept(profdev, next, {}) /\ ProfVal = prof.frame
    BY <2>1, <2>2, <2>3, ProfUseType, ReportKeeps DEF ProfVal
  <2>5. /\ prof' \in L!Store /\ prof'.st = "DONE"
        /\ prof'.active = prof.frame /\ prof'.valid = TRUE /\ prof'.slot = prof.target
        /\ prof'.seq = prof.tseq /\ prof'.loaded = prof.loaded
    BY <1>3, <2>1 DEF L!Store
  <2>6. ProfUse' = next BY <2>2, <2>5 DEF ProfUse
  <2> HIDE DEF next
  <2>7. LeadsKeep' /\ LeadsInv'
    BY <1>1, <1>3, <2>1, <2>4, <2>5, <2>6, ProfStates DEF LeadsInv, LeadsKeep
  <2>8. ProfVal' = ProfVal /\ ProfVal \in proftries /\ profsaved' = ProfVal /\ proftries' = {}
    BY <1>1, <1>3, <2>2, <2>4 DEF ProfVal
  <2> QED BY <1>1, <2>7, <2>8 DEF LeadsGood, RegisterStep
<1> QED BY <1>1, <1>2, <1>3, ProfFailKeeps

(* A save goes to the spare slot, with the next number.                    *)
LEMMA ProfSaveKeeps ==
    ASSUME LeadsInv, NEW v \in Values, L!Save(v) PROVE LeadsGood
<1> DEFINE to == IF prof.valid THEN Other(prof.slot) ELSE "A"
           number == IF prof.valid THEN Succ(prof.seq) ELSE 1
<1>1. /\ prof.loaded /\ UNCHANGED <<profdev, profsaved>>
      /\ prof' = [prof EXCEPT !.tseq = number, !.target = to, !.frame = v,
                              !.uncertain = FALSE, !.st = "ERASE_START"]
      /\ proftries' = proftries \cup {v}
  BY LeadsReader DEF L!Save
<1>2. LeadsKeep /\ ProfUse \in Uses /\ (~ProfUse.valid => ProfUse.slot = "A")
  BY <1>1, ProfUseType DEF LeadsInv, LeadsKeep, Kept, InUse
<1>3. to = Spare(ProfUse) /\ number = NextSeq(ProfUse)
  BY DEF ProfUse, Spare, NextSeq
<1>4. to \in L!Slots /\ number \in L!SequenceNumbers
  BY <1>2, <1>3, TwoSlots, LeadsReader, LeadsDriver
<1> HIDE DEF to, number
<1>5. /\ prof' \in L!Store /\ prof'.st = "ERASE_START"
      /\ prof'.active = prof.active /\ prof'.valid = prof.valid /\ prof'.seq = prof.seq
      /\ prof'.slot = prof.slot /\ prof'.target = to /\ prof'.tseq = number
      /\ prof'.frame = v /\ prof'.loaded = prof.loaded
  BY <1>1, <1>4, ProfStates DEF LeadsInv, L!Store
<1>6. ProfUse' = ProfUse /\ ProfVal' = ProfVal BY <1>1, <1>5 DEF ProfUse, ProfVal
<1>7. Kept(profdev', ProfUse, proftries') BY <1>1, <1>2, TriesKeep DEF LeadsKeep
<1>8. Saving(profdev', ProfUse, proftries', prof') BY <1>1, <1>3, <1>5 DEF Saving
<1>9. LeadsKeep' BY <1>1, <1>2, <1>5, <1>6, <1>7, <1>8 DEF LeadsKeep
<1>10. LeadsInv' BY <1>1, <1>5, <1>9 DEF LeadsInv
<1> QED BY <1>1, <1>6, <1>10 DEF LeadsGood, RegisterStep

(* Another client polls the driver the stores share.                       *)
LEMMA ProfPollKeeps == ASSUME LeadsInv, L!GenericPoll PROVE LeadsGood
<1>1. PICK a \in Polled(profdev) : profdev' = a.dev
  BY LeadsDriver DEF L!GenericPoll
<1>2. prof.st \notin L!BusyStates /\ UNCHANGED <<prof, profsaved, proftries>>
  BY DEF L!GenericPoll, L!Busy
<1>3. ProfStill BY <1>2 DEF LeadsInv, ProfStill
<1>4. CASE prof.loaded
  <2>1. /\ profdev' \in Devices /\ Kept(profdev', ProfUse, proftries)
        /\ profdev'.slots = profdev.slots
    BY <1>1, <1>4, PollKeeps DEF LeadsInv, LeadsKeep
  <2> QED BY <1>2, <1>3, <1>4, <2>1, ProfMoved
<1>5. CASE ~prof.loaded
  <2>1. /\ profdev' \in Devices /\ profdev'.slots = profdev.slots
        /\ profdev'.chip = profdev.chip
    BY <1>1, PolledEffect DEF LeadsInv
  <2>2. ProfVal' = ProfVal BY <2>1 DEF ProfVal
  <2>3. LeadsInv' BY <1>2, <1>5, <2>1, <2>2 DEF LeadsInv, LeadsUnread
  <2> QED BY <1>2, <1>5, <2>1, <2>2, <2>3 DEF LeadsGood, RegisterStep
<1> QED BY <1>4, <1>5

(* The chip is done: what a reboot restores may be another of the values   *)
(* tried.                                                                  *)
LEMMA ProfChipKeeps == ASSUME LeadsInv, L!ChipDone PROVE LeadsGood
<1>1. profdev.chip.kind # "NONE" /\ UNCHANGED <<prof, profsaved, proftries>>
  BY DEF L!ChipDone
<1>2. PICK slots \in AfterOperation(profdev) : profdev' = Done(profdev, slots)
  BY LeadsDriver DEF L!ChipDone, Done
<1>3. prof.loaded /\ LeadsKeep /\ ProfUse \in Uses
  BY <1>1, ProfUseType DEF LeadsInv, LeadsUnread
<1>4. /\ profdev' \in Devices /\ Kept(profdev', ProfUse, proftries) /\ profdev'.slots = slots
      /\ ProfUse.valid => slots[ProfUse.slot] = profdev.slots[ProfUse.slot]
      /\ ErasedSoon(profdev, ProfUse, proftries) => ErasedSoon(profdev', ProfUse, proftries)
      /\ Rewritten(profdev.slots[Spare(ProfUse)], ProfUse, proftries) =>
            Rewritten(profdev'.slots[Spare(ProfUse)], ProfUse, proftries)
  BY <1>1, <1>2, <1>3, ChipKeeps DEF LeadsInv, LeadsKeep
<1>5. ProfUse' = ProfUse BY <1>1 DEF ProfUse
<1>6. LeadsKeep' BY <1>1, <1>3, <1>4, <1>5 DEF LeadsKeep, Saving
<1>7. LeadsInv' BY <1>1, <1>3, <1>4, <1>6 DEF LeadsInv
<1>8. ProfVal' \in proftries \cup {profsaved}
  <2>1. profdev'.slots \in [Slots -> Sectors] BY <1>4, DeviceFields
  <2>2. ProfVal' \in proftries \cup {ProfUse.val}
    BY <1>3, <1>4, <2>1, RestoredIs DEF Kept, ProfVal
  <2> QED BY <1>3, <2>2 DEF ProfUse, LeadsKeep
<1>9. ProfVal' \in Values BY <1>3, <1>8 DEF LeadsInv, LeadsKeep, L!Store
<1>10. prof.valid => profdev'.slots[prof.slot] = profdev.slots[prof.slot]
  BY <1>4 DEF ProfUse
<1> QED BY <1>1, <1>7, <1>8, <1>9, <1>10 DEF LeadsGood, RegisterStep

(* What the store runs on after a boot, whichever slots it could read.     *)
LEMMA ProfLoaded ==
    ASSUME NEW slots \in [Slots -> Sectors], NEW readable \in SUBSET Slots,
           NEW r, r = L!Loaded(slots, readable)
    PROVE  /\ r \in L!Store /\ r.st = "IDLE"
           /\ r.loaded = (readable = Slots)
           /\ [valid |-> r.valid, slot |-> r.slot, seq |-> r.seq, val |-> r.active]
                 = LoadedUse(slots, Chosen(slots, readable))
<1> DEFINE slot == Chosen(slots, readable)
<1>1. /\ slot = "NONE" \/ slot \in Slots
      /\ slot # "NONE" => /\ slots[slot].head \in Values
                          /\ slots[slot].seq \in SequenceNumbers
  BY ChosenType
<1>2. r = [st |-> "IDLE", valid |-> slot # "NONE",
               active |-> IF slot = "NONE" THEN Default ELSE slots[slot].head,
               seq |-> IF slot = "NONE" THEN 0 ELSE slots[slot].seq,
               slot |-> IF slot = "NONE" THEN "A" ELSE slot,
               target |-> "A", frame |-> Default, tseq |-> 0,
               loaded |-> readable = Slots, uncertain |-> FALSE]
  BY LeadsReader, LeadsDriver DEF L!Loaded
<1> HIDE DEF slot
<1>3. "A" \in Slots /\ 0 \in SequenceNumbers /\ Default \in Values
  BY ValuesAssumption, CellsApart DEF Slots
<1>4. r \in L!Store
  <2>1. L!Slots = Slots /\ L!SequenceNumbers = SequenceNumbers
    BY LeadsReader, LeadsDriver
  <2> QED BY <1>1, <1>2, <1>3, <2>1 DEF L!Store
<1>5. /\ r.st = "IDLE" /\ r.loaded = (readable = Slots)
      /\ r.valid = (slot # "NONE")
      /\ r.active = IF slot = "NONE" THEN Default ELSE slots[slot].head
      /\ r.seq = IF slot = "NONE" THEN 0 ELSE slots[slot].seq
      /\ r.slot = IF slot = "NONE" THEN "A" ELSE slot
  BY <1>2
<1>6. [valid |-> r.valid, slot |-> r.slot, seq |-> r.seq, val |-> r.active]
          = LoadedUse(slots, slot)
  <2>1. CASE slot = "NONE" BY <1>5, <2>1 DEF LoadedUse
  <2>2. CASE slot # "NONE" BY <1>5, <2>2 DEF LoadedUse
  <2> QED BY <2>1, <2>2
<1> QED BY <1>4, <1>5, <1>6 DEF slot

(* A boot, with any of the slots unreadable.                               *)
LEMMA ProfBoots ==
    ASSUME NEW slots \in [Slots -> Sectors], NEW readable \in SUBSET Slots,
           profdev' = Fresh(slots), prof' = L!Loaded(slots, readable), proftries' = {},
           profsaved' = Restored(slots, Default)
    PROVE  LeadsInv' /\ ProfVal' = profsaved'
<1>1. /\ prof' \in L!Store /\ prof'.st = "IDLE" /\ prof'.loaded = (readable = Slots)
      /\ ProfUse' = LoadedUse(slots, Chosen(slots, readable))
  BY ProfLoaded DEF ProfUse
<1>2. profdev' \in Devices /\ profdev'.slots = slots /\ profdev'.chip.kind = "NONE"
  BY FreshDevice
<1>3. ProfVal' = profsaved' BY <1>2 DEF ProfVal
<1>4. CASE readable = Slots
  <2>1. Kept(profdev', ProfUse', proftries') /\ ProfUse'.val = profsaved'
    BY <1>1, <1>4, BootKeeps
  <2>2. prof'.active = profsaved' BY <2>1 DEF ProfUse
  <2>3. LeadsKeep' BY <1>1, <2>1, <2>2, ProfStates DEF LeadsKeep
  <2> QED BY <1>1, <1>2, <1>3, <1>4, <2>3 DEF LeadsInv
<1>5. CASE readable # Slots
  <2>1. LeadsUnread' BY <1>1, <1>2, <1>3, ProfStates DEF LeadsUnread
  <2> QED BY <1>1, <1>2, <1>3, <1>5, <2>1 DEF LeadsInv
<1> QED BY <1>4, <1>5

(* A loss of power in any step, and the boot after it.                     *)
LEMMA ProfPowerKeeps == ASSUME LeadsInv, L!PowerLoss PROVE LeadsGood
<1>1. PICK slots \in AfterPowerLoss(profdev), readable \in SUBSET Slots :
        /\ profdev' = Fresh(slots) /\ prof' = L!Loaded(slots, readable)
        /\ profsaved' = Restored(slots, Default) /\ proftries' = {}
  BY LeadsDriver, LeadsReader DEF L!PowerLoss
<1>2. /\ slots \in [Slots -> Sectors]
      /\ Restored(slots, Default) \in proftries \cup {profsaved}
      /\ prof.valid /\ prof.loaded => slots[prof.slot] = profdev.slots[prof.slot]
  <2>1. CASE prof.loaded
    <3>1. ProfUse \in Uses BY ProfUseType DEF LeadsInv
    <3>2. /\ slots \in [Slots -> Sectors]
          /\ ProfUse.valid => slots[ProfUse.slot] = profdev.slots[ProfUse.slot]
          /\ Restored(slots, Default) \in proftries \cup {ProfUse.val}
      BY <2>1, <3>1, PowerKeeps DEF LeadsInv, LeadsKeep
    <3> QED BY <2>1, <3>2 DEF ProfUse, LeadsInv, LeadsKeep
  <2>2. CASE ~prof.loaded
    <3>1. slots = profdev.slots /\ profsaved = ProfVal
      BY <2>2, IdleEffect DEF LeadsInv, LeadsUnread
    <3> QED BY <2>2, <3>1, DeviceFields DEF LeadsInv, ProfVal
  <2> QED BY <2>1, <2>2
<1>3. LeadsInv' /\ ProfVal' = profsaved' BY <1>1, <1>2, ProfBoots
<1>4. ProfVal' \in Values
  <2>1. profsaved \in Values \/ profsaved = ProfVal
    BY DEF LeadsInv, LeadsKeep, LeadsUnread, L!Store
  <2>2. Restored(slots, Default) \in Values
    BY <1>2, ChosenType, ValuesAssumption DEF Restored
  <2> QED BY <1>1, <1>3, <2>2
<1>5. prof.valid /\ prof.loaded => profdev'.slots[prof.slot] = profdev.slots[prof.slot]
  BY <1>1, <1>2, FreshDevice
<1> QED BY <1>1, <1>2, <1>3, <1>4, <1>5 DEF LeadsGood, RegisterStep

(* Every step of the leads.                                                *)
LEMMA ProfNext == ASSUME LeadsInv, L!Next PROVE LeadsGood
<1>1. ASSUME L!Step PROVE LeadsGood
  <2>1. CASE L!EraseStart BY <2>1, ProfStartKeeps DEF L!EraseStart, L!BusyStates
  <2>2. CASE L!WriteStart BY <2>2, ProfStartKeeps DEF L!WriteStart, L!BusyStates
  <2>3. CASE L!CommitStart BY <2>3, ProfStartKeeps DEF L!CommitStart, L!BusyStates
  <2>4. CASE L!EraseWait BY <2>4, ProfAwaitKeeps DEF L!EraseWait, L!BusyStates
  <2>5. CASE L!WriteWait BY <2>5, ProfAwaitKeeps DEF L!WriteWait, L!BusyStates
  <2>6. CASE L!CommitWait BY <2>6, ProfAwaitKeeps DEF L!CommitWait, L!BusyStates
  <2>7. CASE L!Expire BY <2>7, ProfFailKeeps DEF L!Expire, L!Busy
  <2> QED BY <1>1, <2>1, <2>2, <2>3, <2>4, <2>5, <2>6, <2>7,
             ProfVerifyKeeps, ProfCommitKeeps DEF L!Step
<1> QED BY <1>1, ProfSaveKeeps, ProfPollKeeps, ProfChipKeeps, ProfPowerKeeps DEF L!Next

(***************************************************************************)
(* The receiver.  That a decoded frame is consecutive needs more than that *)
(* the ring and the frame are: the ring goes on where the frame ends, and  *)
(* the line where the ring ends, unless bytes were lost.  A loss is known  *)
(* by one of two marks.  While the ring is poisoned nothing is popped from *)
(* it; once only the epoch has changed, no pop comes before the Begin that *)
(* drops the frame.                                                        *)
(***************************************************************************)
Follows(byte, before) == byte = (before + 1) % Stream
Numbers == 0 .. Stream - 1
RingOf(runs) == [data : runs, blocked : BOOLEAN, poisoned : BOOLEAN, changed : BOOLEAN]
Types ==
    /\ sent \in Numbers
    /\ rx \in RingOf(Seq(Numbers))
    /\ frame \in Seq(Numbers)

(* The ring is a run of the line, up to the byte that is sent next.        *)
RingIsRun ==
    /\ Consecutive(rx.data)
    /\ rx.blocked => rx.data = <<>>
    /\ ~rx.blocked /\ ~rx.poisoned /\ rx.data # <<>> => Follows(sent, rx.data[Len(rx.data)])
FrameIsRun ==
    /\ Consecutive(frame)
    /\ frame # <<>> => frame[1] % FrameBytes = 0
(* Without a loss the ring goes on where the frame ends.                   *)
RingGoesOn ==
    ~rx.changed /\ ~rx.poisoned /\ frame # <<>> =>
        /\ ~rx.blocked
        /\ Follows(IF rx.data = <<>> THEN sent ELSE rx.data[1], frame[Len(frame)])
(* A loss that only the epoch tells of has no pop before the next Begin.   *)
LossSeen == left # 0 /\ rx.changed => rx.poisoned
ReceiverInv == Types /\ RingIsRun /\ FrameIsRun /\ RingGoesOn /\ LossSeen /\ NoSplice

(* The number of the next byte is a number.                                *)
LEMMA Counted ==
    ASSUME NEW n \in Numbers PROVE (n + 1) % Stream \in Numbers
BY ReceiverAssumption DEF Numbers

(* The rings of a set of runs.                                             *)
LEMMA RingTyped ==
    ASSUME NEW runs, NEW r \in RingOf(runs), NEW d \in runs
    PROVE  /\ [r EXCEPT !.data = d] \in RingOf(runs)
           /\ [r EXCEPT !.changed = FALSE] \in RingOf(runs)
           /\ [r EXCEPT !.data = d, !.poisoned = FALSE] \in RingOf(runs)
           /\ \A c \in BOOLEAN : [r EXCEPT !.poisoned = TRUE, !.changed = c] \in RingOf(runs)
BY DEF RingOf

(* No byte, or one, is a run.                                              *)
LEMMA EmptyIsRun == Consecutive(<<>>) /\ \A b : Consecutive(<<b>>)
BY DEF Consecutive

(* What is appended to a run, or left of it, is a run.                     *)
LEMMA AppendedIsRun ==
    ASSUME NEW s \in Seq(Numbers), Consecutive(s), NEW b \in Numbers,
           s # <<>> => Follows(b, s[Len(s)])
    PROVE  /\ Append(s, b) \in Seq(Numbers) /\ Append(s, b) # <<>>
           /\ Consecutive(Append(s, b))
           /\ Append(s, b)[Len(Append(s, b))] = b
           /\ Append(s, b)[1] = IF s = <<>> THEN b ELSE s[1]
<1>1. /\ Append(s, b) \in Seq(Numbers) /\ Append(s, b) # <<>>
      /\ Len(Append(s, b)) = Len(s) + 1 /\ Append(s, b)[Len(s) + 1] = b
      /\ \A i \in 1 .. Len(s) : Append(s, b)[i] = s[i]
  BY AppendProperties
<1>2. Len(s) \in Nat /\ (s # <<>> => Len(s) > 0) /\ (s = <<>> => Len(s) = 0)
  BY EmptySeq
<1>3. ASSUME NEW i \in 1 .. Len(Append(s, b)) - 1
      PROVE  Append(s, b)[i + 1] = (Append(s, b)[i] + 1) % Stream
  <2>1. CASE i = Len(s) BY <1>1, <1>2, <2>1 DEF Follows
  <2>2. CASE i # Len(s)
    <3>1. i \in 1 .. Len(s) - 1 /\ i + 1 \in 1 .. Len(s) BY <1>1, <1>2, <2>2
    <3>2. QED BY <1>1, <1>2, <3>1 DEF Consecutive
  <2>3. QED BY <2>1, <2>2
<1>4. Consecutive(Append(s, b)) BY <1>3 DEF Consecutive
<1>5. Append(s, b)[1] = IF s = <<>> THEN b ELSE s[1] BY <1>1, <1>2
<1>6. QED BY <1>1, <1>4, <1>5

(* A run without its first byte is one, that goes on after it.             *)
LEMMA TailIsRun ==
    ASSUME NEW s \in Seq(Numbers), Consecutive(s), s # <<>>
    PROVE  /\ Head(s) \in Numbers /\ Head(s) = s[1]
           /\ Tail(s) \in Seq(Numbers) /\ Consecutive(Tail(s))
           /\ Tail(s) # <<>> => /\ Follows(Tail(s)[1], Head(s))
                                /\ Tail(s)[Len(Tail(s))] = s[Len(s)]
           /\ Tail(s) = <<>> => Head(s) = s[Len(s)]
<1>1. /\ Head(s) \in Numbers /\ Head(s) = s[1] /\ Tail(s) \in Seq(Numbers)
      /\ Len(Tail(s)) = Len(s) - 1 /\ Len(s) \in Nat /\ Len(s) > 0
      /\ \A i \in 1 .. Len(Tail(s)) : Tail(s)[i] = s[i + 1]
  BY HeadTailProperties, EmptySeq
<1>2. Tail(s) = <<>> <=> Len(s) = 1
  <2>1. Tail(s) = <<>> <=> Len(Tail(s)) = 0 BY <1>1, EmptySeq
  <2>2. QED BY <1>1, <2>1
<1>3. Consecutive(Tail(s))
  <2>1. ASSUME NEW i \in 1 .. Len(Tail(s)) - 1
        PROVE  Tail(s)[i + 1] = (Tail(s)[i] + 1) % Stream
    <3>1. i \in 1 .. Len(Tail(s)) /\ i + 1 \in 1 .. Len(Tail(s)) /\ i + 1 \in 1 .. Len(s) - 1
      BY <1>1
    <3>2. QED BY <1>1, <3>1 DEF Consecutive
  <2>2. QED BY <2>1 DEF Consecutive
<1>4. ASSUME Tail(s) # <<>> PROVE Follows(Tail(s)[1], Head(s)) /\ Tail(s)[Len(Tail(s))] = s[Len(s)]
  <2>1. Len(s) > 1 BY <1>1, <1>2, <1>4
  <2>2. 1 \in 1 .. Len(s) - 1 /\ Len(s) - 1 \in 1 .. Len(Tail(s)) BY <1>1, <2>1
  <2>3. QED BY <1>1, <2>2 DEF Consecutive, Follows
<1>5. QED BY <1>1, <1>2, <1>3, <1>4

(* An empty ring and no frame.                                             *)
LEMMA ReceiverInit == ASSUME Init PROVE ReceiverInv
<1>1. Types BY ReceiverAssumption DEF Init, Types, RingOf, Numbers
<1>2. RingIsRun /\ FrameIsRun /\ RingGoesOn /\ LossSeen /\ NoSplice
  BY EmptyIsRun DEF Init, RingIsRun, FrameIsRun, RingGoesOn, LossSeen, NoSplice
<1>3. QED BY <1>1, <1>2 DEF ReceiverInv

(* The interrupt adds a byte, or poisons the ring and changes the epoch.   *)
LEMMA InterruptKeeps == ASSUME ReceiverInv, Interrupt PROVE ReceiverInv'
<1> USE DEF ReceiverInv
<1>1. PICK error \in BOOLEAN : rx' = Push(rx, sent, error) BY DEF Interrupt
<1>2. /\ sent' = (sent + 1) % Stream /\ sent' \in Numbers
      /\ frame' = frame /\ left' = left /\ decoded' = decoded
  BY Counted DEF Interrupt, Types
<1>3. NoSplice' /\ FrameIsRun' BY <1>2 DEF NoSplice, FrameIsRun
<1>4. CASE /\ rx'.poisoned /\ rx'.data = rx.data /\ rx'.blocked = rx.blocked
           /\ rx' \in RingOf(Seq(Numbers))
  BY <1>2, <1>3, <1>4 DEF Types, RingOf, RingIsRun, RingGoesOn, LossSeen
<1>5. CASE rx' = rx /\ rx.blocked /\ ~rx.poisoned
  BY <1>2, <1>3, <1>5 DEF Types, RingOf, RingIsRun, RingGoesOn, LossSeen
<1>6. CASE rx' = [rx EXCEPT !.data = Append(@, sent)] /\ ~rx.blocked /\ ~rx.poisoned
  <2>1. /\ rx'.data = Append(rx.data, sent) /\ rx'.blocked = rx.blocked
        /\ rx'.poisoned = rx.poisoned /\ rx'.changed = rx.changed
    BY <1>6 DEF Types, RingOf
  <2>2. /\ Append(rx.data, sent) \in Seq(Numbers) /\ Append(rx.data, sent) # <<>>
        /\ Consecutive(Append(rx.data, sent))
        /\ Append(rx.data, sent)[Len(Append(rx.data, sent))] = sent
        /\ Append(rx.data, sent)[1] = IF rx.data = <<>> THEN sent ELSE rx.data[1]
    BY <1>6, AppendedIsRun DEF Types, RingOf, RingIsRun
  <2>3. Types' BY <1>2, <1>6, <2>1, <2>2 DEF Types, RingOf
  <2>4. RingIsRun' BY <1>2, <1>6, <2>1, <2>2 DEF RingIsRun, Follows
  <2>5. RingGoesOn' BY <1>2, <1>6, <2>1, <2>2 DEF RingGoesOn
  <2>6. LossSeen' BY <1>2, <2>1 DEF LossSeen
  <2>7. QED BY <1>3, <2>3, <2>4, <2>5, <2>6
<1>7. QED BY <1>1, <1>4, <1>5, <1>6 DEF Push, Types, RingOf

(* Between two passes a block empties the ring and changes the epoch.      *)
LEMMA SetBlockedKeeps == ASSUME ReceiverInv, SetBlocked PROVE ReceiverInv'
<1> USE DEF ReceiverInv
<1>1. PICK blocked \in BOOLEAN : rx' = Block(rx, blocked) BY DEF SetBlocked
<1>2. left = 0 /\ UNCHANGED <<sent, frame, left, decoded>> BY DEF SetBlocked
<1>3. CASE rx' = rx
  BY <1>2, <1>3 DEF Types, RingOf, RingIsRun, FrameIsRun, RingGoesOn, LossSeen, NoSplice
<1>4. CASE rx' = [data |-> <<>>, blocked |-> blocked, poisoned |-> FALSE, changed |-> TRUE]
  <2>1. Types' BY <1>2, <1>4 DEF Types, RingOf
  <2>2. RingIsRun' /\ RingGoesOn' BY <1>4, EmptyIsRun DEF RingIsRun, RingGoesOn
  <2>3. FrameIsRun' /\ LossSeen' /\ NoSplice' BY <1>2 DEF FrameIsRun, LossSeen, NoSplice
  <2>4. QED BY <2>1, <2>2, <2>3
<1>5. QED BY <1>1, <1>3, <1>4 DEF Block

(* The first of a pass: a loss has the frame start afresh.                 *)
LEMMA BeginKeeps == ASSUME ReceiverInv, Begin PROVE ReceiverInv'
<1> USE DEF ReceiverInv
<1>1. /\ rx' = [rx EXCEPT !.changed = FALSE] /\ UNCHANGED <<sent, decoded>>
      /\ frame' = <<>> \/ (frame' = frame /\ ~rx.changed)
  BY DEF Begin
<1>2. /\ rx'.data = rx.data /\ rx'.blocked = rx.blocked /\ rx'.poisoned = rx.poisoned
      /\ ~rx'.changed
  BY <1>1 DEF Types, RingOf
<1>3. Types'
  <2>1. rx' \in RingOf(Seq(Numbers)) BY <1>1, RingTyped DEF Types
  <2>2. <<>> \in Seq(Numbers) BY EmptySeq
  <2>3. QED BY <1>1, <2>1, <2>2 DEF Types
<1>4. RingIsRun' /\ NoSplice' BY <1>1, <1>2 DEF RingIsRun, NoSplice
<1>5. FrameIsRun' /\ RingGoesOn' BY <1>1, <1>2, EmptyIsRun DEF FrameIsRun, RingGoesOn
<1>6. LossSeen' BY <1>2 DEF LossSeen
<1>7. QED BY <1>3, <1>4, <1>5, <1>6

(* A poisoned ring is emptied and its frame dropped.                       *)
LEMMA PopPoisonedKeeps == ASSUME ReceiverInv, PopPoisoned PROVE ReceiverInv'
<1> USE DEF ReceiverInv
<1>1. /\ rx' = [rx EXCEPT !.data = <<>>, !.poisoned = FALSE]
      /\ frame' = <<>> /\ left' = 0 /\ UNCHANGED <<sent, decoded>>
  BY DEF PopPoisoned
<1>2. rx'.data = <<>> BY <1>1 DEF Types, RingOf
<1>3. Types'
  <2>1. <<>> \in Seq(Numbers) BY EmptySeq
  <2>2. rx' \in RingOf(Seq(Numbers)) BY <1>1, <2>1, RingTyped DEF Types
  <2>3. QED BY <1>1, <2>1, <2>2 DEF Types
<1>4. RingIsRun' /\ FrameIsRun' BY <1>1, <1>2, EmptyIsRun DEF RingIsRun, FrameIsRun
<1>5. RingGoesOn' /\ LossSeen' /\ NoSplice' BY <1>1 DEF RingGoesOn, LossSeen, NoSplice
<1>6. QED BY <1>3, <1>4, <1>5

(* A byte makes the frame longer, or is where it starts afresh.            *)
LEMMA ExtendedIsRun ==
    ASSUME ReceiverInv, NEW b \in Numbers, frame # <<>> => Follows(b, frame[Len(frame)])
    PROVE  /\ Extended(b) \in Seq(Numbers) /\ Consecutive(Extended(b))
           /\ Extended(b) # <<>> => /\ Extended(b)[1] % FrameBytes = 0
                                    /\ Extended(b)[Len(Extended(b))] = b
<1> USE DEF ReceiverInv
<1>1. CASE Magic(b, Len(frame))
  <2>1. Extended(b) = Append(frame, b) BY <1>1 DEF Extended
  <2>2. frame = <<>> => b % FrameBytes = 0 BY <1>1 DEF Magic
  <2>3. frame # <<>> => frame[1] % FrameBytes = 0 BY DEF FrameIsRun
  <2>4. /\ Append(frame, b) \in Seq(Numbers) /\ Consecutive(Append(frame, b))
        /\ Append(frame, b)[Len(Append(frame, b))] = b
        /\ Append(frame, b)[1] = IF frame = <<>> THEN b ELSE frame[1]
    BY AppendedIsRun DEF Types, RingOf, FrameIsRun
  <2>5. QED BY <2>1, <2>2, <2>3, <2>4
<1>2. CASE ~Magic(b, Len(frame)) /\ Magic(b, 0)
  <2>1. Extended(b) = <<b>> BY <1>2 DEF Extended
  <2>2. b % FrameBytes = 0 BY <1>2 DEF Magic
  <2>3. QED BY <2>1, <2>2, EmptyIsRun
<1>3. CASE ~Magic(b, Len(frame)) /\ ~Magic(b, 0)
  <2>1. Extended(b) = <<>> BY <1>3 DEF Extended
  <2>2. QED BY <2>1, EmptyIsRun
<1>4. QED BY <1>1, <1>2, <1>3

(* A pop appends to the frame, or ends it.                                 *)
LEMMA PopByteKeeps == ASSUME ReceiverInv, left # 0, PopByte PROVE ReceiverInv'
<1> USE DEF ReceiverInv
<1> DEFINE b == Head(rx.data)
           next == Extended(b)
           rest == Tail(rx.data)
<1>1. ~rx.poisoned /\ ~rx.changed /\ rx.data # <<>> /\ ~rx.blocked
  BY DEF PopByte, LossSeen, Types, RingIsRun
<1>2. /\ b \in Numbers /\ b = rx.data[1] /\ rest \in Seq(Numbers) /\ Consecutive(rest)
      /\ rest # <<>> => Follows(rest[1], b) /\ rest[Len(rest)] = rx.data[Len(rx.data)]
      /\ rest = <<>> => b = rx.data[Len(rx.data)]
  BY <1>1, TailIsRun DEF Types, RingOf, RingIsRun
<1>3. frame # <<>> => Follows(b, frame[Len(frame)]) BY <1>1, <1>2 DEF RingGoesOn
<1>4. /\ next \in Seq(Numbers) /\ Consecutive(next)
      /\ next # <<>> => next[1] % FrameBytes = 0 /\ next[Len(next)] = b
  BY <1>2, <1>3, ExtendedIsRun
<1>5. rx' = [rx EXCEPT !.data = rest] /\ sent' = sent BY DEF PopByte
<1>6. /\ rx'.data = rest /\ rx'.blocked = rx.blocked /\ rx'.poisoned = rx.poisoned
      /\ rx'.changed = rx.changed
  BY <1>5 DEF Types, RingOf
<1>7. RingIsRun' BY <1>1, <1>2, <1>5, <1>6 DEF RingIsRun
<1>8. LossSeen' BY <1>1, <1>6 DEF LossSeen
<1>9. Follows(IF rest = <<>> THEN sent ELSE rest[1], b) BY <1>1, <1>2 DEF RingIsRun
<1>10. /\ frame' = <<>> \/ frame' = next
       /\ decoded' = next \/ decoded' = decoded
  BY DEF PopByte
<1> HIDE DEF b, next, rest
<1>11. Types'
  <2>1. rx' \in RingOf(Seq(Numbers)) BY <1>2, <1>5, RingTyped DEF Types
  <2>2. <<>> \in Seq(Numbers) BY EmptySeq
  <2>3. QED BY <1>4, <1>5, <1>10, <2>1, <2>2 DEF Types
<1>12. FrameIsRun' BY <1>4, <1>10, EmptyIsRun DEF FrameIsRun
<1>13. RingGoesOn' BY <1>1, <1>4, <1>5, <1>6, <1>9, <1>10 DEF RingGoesOn
<1>14. NoSplice' BY <1>4, <1>10 DEF NoSplice
<1>15. QED BY <1>7, <1>8, <1>11, <1>12, <1>13, <1>14

(* Every step of the receiver.                                             *)
LEMMA ReceiverNext == ReceiverInv /\ [Next]_vars => ReceiverInv'
<1> SUFFICES ASSUME ReceiverInv, [Next]_vars PROVE ReceiverInv' OBVIOUS
<1>1. CASE Interrupt BY <1>1, InterruptKeeps
<1>2. CASE SetBlocked BY <1>2, SetBlockedKeeps
<1>3. CASE Begin BY <1>3, BeginKeeps
<1>4. CASE Pop
  <2>1. CASE PopPoisoned BY <2>1, PopPoisonedKeeps
  <2>2. CASE PopEmpty
    BY <2>2 DEF PopEmpty, ReceiverInv, Types, RingIsRun, FrameIsRun, RingGoesOn, LossSeen, NoSplice
  <2>3. CASE PopByte BY <1>4, <2>3, PopByteKeeps DEF Pop
  <2>4. QED BY <1>4, <2>1, <2>2, <2>3 DEF Pop
<1>5. CASE Release \/ UNCHANGED vars
  BY <1>5 DEF Release, vars, ReceiverInv, Types, RingIsRun, FrameIsRun, RingGoesOn, LossSeen,
              NoSplice
<1>6. QED BY <1>1, <1>2, <1>3, <1>4, <1>5 DEF Next

(***************************************************************************)
(* The whole: each of its parts takes its own steps, and the others keep   *)
(* still.                                                                  *)
(***************************************************************************)
StorageInv == SettingsInv /\ LeadsInv /\ ReceiverInv

(* Where the settings start: a boot from a flash never written.            *)
LEMMA SettingsInit == S!Init => SettingsInv /\ SetVal = Default
<1> SUFFICES ASSUME S!Init PROVE SettingsInv /\ SetVal = Default OBVIOUS
<1> DEFINE slots == [x \in Slots |-> Blank]
<1>1. /\ setdev = Fresh(slots) /\ set = S!Loaded(setdev.slots, Slots)
      /\ setsaved = Default /\ settries = {}
  BY SettingsDriver DEF S!Init
<1>2. slots \in [Slots -> Sectors] /\ Restored(slots, Default) = Default BY BlankSlots
<1> HIDE DEF slots
<1>3. setdev.slots = slots BY <1>1, <1>2, FreshDevice
<1>4. /\ set \in S!Service /\ set.st = "IDLE" /\ set.current = set.persisted
      /\ SetUse = LoadedUse(slots, Chosen(slots, Slots))
  BY <1>1, <1>2, <1>3, SetLoaded DEF SetUse
<1>5. /\ setdev \in Devices /\ Kept(setdev, SetUse, settries) /\ SetUse.val = Default
  BY <1>1, <1>2, <1>4, BootKeeps
<1>6. set.persisted = setsaved BY <1>1, <1>5 DEF SetUse
<1> QED BY <1>1, <1>2, <1>3, <1>4, <1>5, <1>6, SetStates DEF SettingsInv, SetVal

(* The same for the leads.                                                 *)
LEMMA LeadsInit == L!Init => LeadsInv /\ ProfVal = Default
<1> SUFFICES ASSUME L!Init PROVE LeadsInv /\ ProfVal = Default OBVIOUS
<1> DEFINE slots == [x \in Slots |-> Blank]
<1>1. /\ profdev = Fresh(slots) /\ prof = L!Loaded(profdev.slots, Slots)
      /\ profsaved = Default /\ proftries = {}
  BY LeadsDriver DEF L!Init
<1>2. slots \in [Slots -> Sectors] /\ Restored(slots, Default) = Default BY BlankSlots
<1> HIDE DEF slots
<1>3. profdev.slots = slots BY <1>1, <1>2, FreshDevice
<1>4. /\ prof \in L!Store /\ prof.st = "IDLE" /\ prof.loaded
      /\ ProfUse = LoadedUse(slots, Chosen(slots, Slots))
  <2>1. prof = L!Loaded(slots, Slots) BY <1>1, <1>3
  <2>2. /\ prof \in L!Store /\ prof.st = "IDLE" /\ prof.loaded = (Slots = Slots)
        /\ ProfUse = LoadedUse(slots, Chosen(slots, Slots))
    BY <1>2, <2>1, ProfLoaded DEF ProfUse
  <2> QED BY <2>2
<1>5. /\ profdev \in Devices /\ Kept(profdev, ProfUse, proftries) /\ ProfUse.val = Default
  BY <1>1, <1>2, <1>4, BootKeeps
<1>6. prof.active = profsaved BY <1>1, <1>5 DEF ProfUse
<1>7. LeadsKeep BY <1>4, <1>5, <1>6, ProfStates DEF LeadsKeep
<1> QED BY <1>1, <1>2, <1>3, <1>4, <1>5, <1>7 DEF LeadsInv, ProfVal

(* Where no step is taken nothing changes.                                 *)
LEMMA SettingsStill == ASSUME SettingsInv, UNCHANGED settings PROVE SettingsGood
<1>1. UNCHANGED <<set, setdev, setsaved, settries>> BY DEF settings
<1>2. SetStill BY <1>1 DEF SettingsInv, SetStill
<1> QED BY <1>1, <1>2, SetMoved DEF SettingsInv

(* The steps of the other parts.                                           *)
LEMMA LeadsStill == ASSUME LeadsInv, UNCHANGED leads PROVE LeadsGood
<1>1. UNCHANGED <<prof, profdev, profsaved, proftries>> BY DEF leads
<1>2. ProfUse' = ProfUse /\ ProfVal' = ProfVal BY <1>1 DEF ProfUse, ProfVal
<1>3. LeadsInv' BY <1>1, <1>2 DEF LeadsInv, LeadsKeep, LeadsUnread
<1> QED BY <1>1, <1>2, <1>3 DEF LeadsGood, RegisterStep

StorageVars == <<which, settings, leads, install, vars>>
(* A step is of one part, and the others keep still.                       *)
LEMMA StorageStep ==
    ASSUME StorageInv, [StorageNext]_StorageVars
    PROVE  SettingsGood /\ LeadsGood /\ ReceiverInv'
<1> USE DEF StorageInv
<1>1. \/ S!Next /\ UNCHANGED <<leads, vars>>
      \/ L!Next /\ UNCHANGED <<settings, vars>>
      \/ [Next]_vars /\ UNCHANGED <<settings, leads>>
  BY DEF StorageNext, OfSettings, OfLeads, OfInstall, OfReceiver, StorageVars
<1> QED BY <1>1, SetNext, ProfNext, SettingsStill, LeadsStill, ReceiverNext

(* The invariant holds in every reachable state.                           *)
LEMMA StorageAlways == StorageSpec => []StorageInv
<1>1. StorageInit => StorageInv
  BY SettingsInit, LeadsInit, ReceiverInit DEF StorageInit, StorageInv
<1>2. StorageInv /\ [StorageNext]_StorageVars => StorageInv'
  BY StorageStep DEF StorageInv, SettingsGood, LeadsGood
<1> QED BY <1>1, <1>2, PTL DEF StorageSpec, StorageVars

(* A step of the register, in its own words.                               *)
LEMMA SettingsRegister ==
    ASSUME RegisterStep(SetVal, setsaved, settries, SetVal', setsaved', settries')
    PROVE  [S!Register!Next]_(S!Register!regVars)
<1>1. /\ S!Restored(setdev.slots, Default) = SetVal
      /\ S!Restored(setdev'.slots, Default) = SetVal'
  BY SettingsReader DEF SetVal
<1>2. CASE SetVal' = SetVal /\ setsaved' = setsaved /\ settries' = settries
  BY <1>1, <1>2 DEF S!Register!regVars
<1>3. CASE /\ SetVal' = SetVal /\ setsaved' = setsaved
           /\ \E v \in Values : settries' = settries \cup {v}
  BY <1>1, <1>3 DEF S!Register!Next, S!Register!Attempt
<1>4. CASE /\ setsaved' = setsaved /\ settries' = settries
           /\ SetVal' \in Values /\ SetVal' \in settries \cup {setsaved}
  <2>1. S!Register!Settle(SetVal') BY <1>1, <1>4 DEF S!Register!Settle
  <2> QED BY <1>4, <2>1 DEF S!Register!Next
<1>5. CASE SetVal' = SetVal /\ SetVal \in settries /\ setsaved' = SetVal /\ settries' = {}
  BY <1>1, <1>5 DEF S!Register!Next, S!Register!Report
<1>6. CASE /\ SetVal' \in Values /\ SetVal' \in settries \cup {setsaved}
           /\ setsaved' = SetVal' /\ settries' = {}
  <2>1. S!Register!PowerLoss(SetVal') BY <1>1, <1>6 DEF S!Register!PowerLoss
  <2> QED BY <1>6, <2>1 DEF S!Register!Next
<1> QED BY <1>2, <1>3, <1>4, <1>5, <1>6 DEF RegisterStep

(* The same for the leads.                                                 *)
LEMMA LeadsRegister ==
    ASSUME RegisterStep(ProfVal, profsaved, proftries, ProfVal', profsaved', proftries')
    PROVE  [L!Register!Next]_(L!Register!regVars)
<1>1. /\ L!Restored(profdev.slots, Default) = ProfVal
      /\ L!Restored(profdev'.slots, Default) = ProfVal'
  BY LeadsReader DEF ProfVal
<1>2. CASE ProfVal' = ProfVal /\ profsaved' = profsaved /\ proftries' = proftries
  BY <1>1, <1>2 DEF L!Register!regVars
<1>3. CASE /\ ProfVal' = ProfVal /\ profsaved' = profsaved
           /\ \E v \in Values : proftries' = proftries \cup {v}
  BY <1>1, <1>3 DEF L!Register!Next, L!Register!Attempt
<1>4. CASE /\ profsaved' = profsaved /\ proftries' = proftries
           /\ ProfVal' \in Values /\ ProfVal' \in proftries \cup {profsaved}
  <2>1. L!Register!Settle(ProfVal') BY <1>1, <1>4 DEF L!Register!Settle
  <2> QED BY <1>4, <2>1 DEF L!Register!Next
<1>5. CASE ProfVal' = ProfVal /\ ProfVal \in proftries /\ profsaved' = ProfVal /\ proftries' = {}
  BY <1>1, <1>5 DEF L!Register!Next, L!Register!Report
<1>6. CASE /\ ProfVal' \in Values /\ ProfVal' \in proftries \cup {profsaved}
           /\ profsaved' = ProfVal' /\ proftries' = {}
  <2>1. L!Register!PowerLoss(ProfVal') BY <1>1, <1>6 DEF L!Register!PowerLoss
  <2> QED BY <1>6, <2>1 DEF L!Register!Next
<1> QED BY <1>2, <1>3, <1>4, <1>5, <1>6 DEF RegisterStep

(* With nothing tried since the last report, a reboot gives what the       *)
(* service runs on; and "not dirty" that this is what the user sees.       *)
LEMMA CleanIsRestored ==
    ASSUME SettingsInv', settries' = {}, ~set'.dirty
    PROVE  SetVal' = set'.current
<1>1. /\ set' \in S!Service /\ setdev' \in Devices /\ Kept(setdev', SetUse', settries')
      /\ set'.current = set'.persisted
  BY DEF SettingsInv
<1>2. SetUse' \in Uses
  BY <1>1, SettingsReader, SettingsDriver DEF S!Service, SetUse, Uses
<1>3. setdev'.slots \in [Slots -> Sectors] BY <1>1, DeviceFields
<1>4. SetVal' = SetUse'.val BY <1>1, <1>2, <1>3, RestoredIs DEF Kept, SetVal
<1> QED BY <1>1, <1>4 DEF SetUse

(* Both stores are durable registers: whatever step the power is lost in,  *)
(* with transfers failing, a chip slower than the driver waits for and     *)
(* bytes that come right by luck, and for the leads with slots unread at   *)
(* boot, a reboot restores a value that was whole, the last one saved or   *)
(* one whose save was started since; a save is reported only when a reboot *)
(* restores it; and the settings say "not dirty" only when a reboot gives  *)
(* what the user sees.                                                     *)
THEOREM StoresKeepValues == StorageSpec => StoresImplement
<1>1. StorageInit => S!Register!Init /\ L!Register!Init
  <2> SUFFICES ASSUME StorageInit PROVE S!Register!Init /\ L!Register!Init OBVIOUS
  <2>1. SetVal = Default /\ setsaved = Default /\ settries = {}
    BY SettingsInit DEF StorageInit, S!Init
  <2>2. ProfVal = Default /\ profsaved = Default /\ proftries = {}
    BY LeadsInit DEF StorageInit, L!Init
  <2> QED BY <2>1, <2>2, SettingsReader, LeadsReader, ValuesAssumption
          DEF S!Register!Init, L!Register!Init, SetVal, ProfVal
<1>2. StorageInv /\ [StorageNext]_StorageVars =>
        [S!Register!Next]_(S!Register!regVars) /\ [L!Register!Next]_(L!Register!regVars)
  BY StorageStep, SettingsRegister, LeadsRegister DEF SettingsGood, LeadsGood
<1>3. SettingsInv' =>
        [settries' = {} /\ ~set'.dirty => S!Restored(setdev'.slots, Default) = set'.current]_S!vars
  BY CleanIsRestored, SettingsReader DEF SetVal
<1>4. StorageInv /\ [StorageNext]_StorageVars => SettingsInv'
  BY StorageStep DEF SettingsGood
<1> QED BY <1>1, <1>2, <1>3, <1>4, StorageAlways, PTL
        DEF StorageSpec, StorageVars, StoresImplement, S!ImplementsRegister, L!ImplementsRegister,
            S!CleanIsDurable, S!Register!Spec, L!Register!Spec

(* The slot a store runs on is never touched by a save, nor by what a      *)
(* failed one left in the chip.                                            *)
THEOREM StoresKeepSlots == StorageSpec => SlotsUntouched
<1>1. StorageInv /\ [StorageNext]_StorageVars =>
        /\ [set.pvalid => setdev'.slots[set.active] = setdev.slots[set.active]]_S!vars
        /\ [prof.valid /\ prof.loaded =>
                profdev'.slots[prof.slot] = profdev.slots[prof.slot]]_L!vars
  BY StorageStep DEF SettingsGood, LeadsGood
<1> QED BY <1>1, StorageAlways, PTL
        DEF StorageSpec, StorageVars, SlotsUntouched, S!ActiveSlotUntouched, L!ActiveSlotUntouched

(* A frame handed to the decoder is one frame as it was sent, never one    *)
(* joined from the bytes before and after a loss (bsp_uart_rx_push,        *)
(* product_pc_link_step_rx), for a ring and frames of any length and       *)
(* however the interrupt, the blocking and the pops interleave.            *)
THEOREM ReceiverNoSplice == StorageSpec => []NoSplice
<1>1. StorageInv => NoSplice BY DEF StorageInv, ReceiverInv
<1> QED BY <1>1, StorageAlways, PTL
=============================================================================
