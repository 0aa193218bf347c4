------------------------- MODULE CalInstall_proofs --------------------------
(***************************************************************************)
(* The installation of a calibration set, for any sets, any number of      *)
(* chunks and pages, and any width of the sequence numbers: the workspace  *)
(* comes back, the slot in use is never touched, no command goes out on    *)
(* evidence that is not SAFE; and, when a boot can read both slots and     *)
(* bytes programmed over others never come out right by luck, a reboot     *)
(* finds a whole set, as DurableRegister promises.                         *)
(*                                                                         *)
(* First what the driver and the chip do (FlashSlots), then the protocol   *)
(* of the installation, which needs nothing of the sectors, then what the  *)
(* sectors hold.                                                           *)
(***************************************************************************)
EXTENDS CalInstall, TLAPS

(***************************************************************************)
(* The driver.                                                             *)
(***************************************************************************)
(* What a start leaves behind: a command, whole or cut, or none.           *)
Issued(a, d, op) ==
    /\ a.slots = d.slots
    /\ \/ a.chip = d.chip /\ a.torn = d.torn
       \/ d.chip.kind = "NONE" /\ a.chip = op /\ (op.kind = "ERASE" => ~a.torn)
    /\ a.pending => d.pending \/ a.chip = op \/ d.chip.kind # "NONE"

LEMMA StartedEffect ==
    ASSUME NEW d \in Devices, NEW op \in Operations, NEW a \in Started(d, op)
    PROVE  /\ a.dev \in Devices /\ Issued(a.dev, d, op)
           /\ a.status = "ERROR" => (a.dev.pending <=> d.pending)
           /\ a.status # "ERROR" => a.dev.pending
           /\ d.pending => a.dev = d
<1>1. d = [slots |-> d.slots, chip |-> d.chip, torn |-> d.torn, pending |-> d.pending]
      /\ d.slots \in [Slots -> Sectors] /\ d.chip \in Operations
      /\ d.torn \in BOOLEAN /\ d.pending \in BOOLEAN
  BY DEF Devices
<1>2. CASE d.pending
  BY <1>2 DEF Started, Answer, Issued
<1>3. CASE ~d.pending
  <2> DEFINE C(torn) == Commanded(d, op, torn)
  <2>1. ASSUME NEW torn \in BOOLEAN, torn => op.kind # "ERASE"
        PROVE  /\ C(torn) \in Devices /\ C(torn).slots = d.slots /\ ~C(torn).pending
               /\ Issued(C(torn), d, op)
               /\ C(torn).chip = op \/ d.chip.kind # "NONE"
    BY <1>1, <1>3, <2>1 DEF Commanded, Devices, Issued
  <2> HIDE DEF C
  <2>2. CASE a = Answer("OK", [C(FALSE) EXCEPT !.pending = TRUE])
    <3>1. C(FALSE) \in Devices /\ C(FALSE).slots = d.slots /\ Issued(C(FALSE), d, op)
          /\ (C(FALSE).chip = op \/ d.chip.kind # "NONE")
      BY <2>1
    <3>2. a.dev = [C(FALSE) EXCEPT !.pending = TRUE] /\ a.status = "OK"
      BY <2>2 DEF Answer
    <3>3. /\ a.dev \in Devices /\ a.dev.pending /\ a.dev.slots = C(FALSE).slots
          /\ a.dev.chip = C(FALSE).chip /\ a.dev.torn = C(FALSE).torn
      BY <3>1, <3>2 DEF Devices
    <3> QED BY <1>3, <3>1, <3>2, <3>3 DEF Issued
  <2>3. CASE a = Answer("ERROR", d)
    BY <1>3, <2>3 DEF Answer, Issued
  <2>4. CASE \E torn \in {FALSE, op.kind # "ERASE"} : a = Answer("ERROR", C(torn))
    <3>1. PICK torn \in {FALSE, op.kind # "ERASE"} : a = Answer("ERROR", C(torn))
      BY <2>4
    <3>2. torn \in BOOLEAN /\ (torn => op.kind # "ERASE") BY <3>1
    <3>3. a.dev = C(torn) /\ a.status = "ERROR" BY <3>1 DEF Answer
    <3> QED BY <1>3, <2>1, <3>2, <3>3
  <2> QED BY <1>3, <2>2, <2>3, <2>4 DEF Started, C
<1> QED BY <1>1, <1>2, <1>3

(* A poll touches the driver's note only; it says OK of an idle chip, or   *)
(* of nothing noted.                                                       *)
LEMMA PolledEffect ==
    ASSUME NEW d \in Devices, NEW a \in Polled(d)
    PROVE  /\ a.dev \in Devices
           /\ a.dev.slots = d.slots /\ a.dev.chip = d.chip /\ a.dev.torn = d.torn
           /\ a.dev.pending => d.pending
           /\ a.status = "OK" => ~a.dev.pending /\ (d.pending => d.chip.kind = "NONE")
           /\ a.status = "BUSY" => a.dev = d
           /\ a.status \in {"OK", "BUSY", "TIMEOUT", "ERROR"}
<1>1. d = [slots |-> d.slots, chip |-> d.chip, torn |-> d.torn, pending |-> d.pending]
      /\ d.slots \in [Slots -> Sectors] /\ d.chip \in Operations
      /\ d.torn \in BOOLEAN /\ d.pending \in BOOLEAN
  BY DEF Devices
<1> DEFINE Noted == [d EXCEPT !.pending = FALSE]
<1>2. /\ Noted \in Devices /\ Noted.slots = d.slots /\ Noted.chip = d.chip
      /\ Noted.torn = d.torn /\ ~Noted.pending
  BY <1>1 DEF Devices
<1> HIDE DEF Noted
<1>3. \/ a = Answer("OK", d) /\ ~d.pending
      \/ a = Answer("OK", Noted) /\ d.chip.kind = "NONE"
      \/ a = Answer("BUSY", d) \/ a = Answer("TIMEOUT", Noted) \/ a = Answer("ERROR", d)
  BY DEF Polled, Noted
<1> QED BY <1>1, <1>2, <1>3 DEF Answer

(***************************************************************************)
(* The chip.                                                               *)
(***************************************************************************)
OpsOfSet == {"ERASE", "HEAD", "PAGE", "LAST", "MARK"}

LEMMA CellsApart ==
    /\ {"ERASED", "TORN", "PART", "NONE"} \cap Values = {}
    /\ {"ERASED", "TORN", "PART"} \subseteq Cells /\ Values \subseteq Cells
BY FlashAssumption DEF Cells

LEMMA HeadFields ==
    ASSUME NEW s \in Sectors, NEW seq \in SequenceNumbers, NEW cell \in Cells
    PROVE  /\ WithHead(s, seq, cell) \in Sectors
           /\ WithHead(s, seq, cell).head = cell
           /\ WithHead(s, seq, cell).seq = IF cell \in Values THEN seq ELSE 0
           /\ WithHead(s, seq, cell).body = s.body /\ WithHead(s, seq, cell).mark = s.mark
<1>1. 0 \in SequenceNumbers BY FlashAssumption DEF SequenceNumbers
<1> QED BY <1>1 DEF WithHead, Sectors

LEMMA BodyFields ==
    ASSUME NEW s \in Sectors, NEW cell \in Cells
    PROVE  /\ [s EXCEPT !.body = cell] \in Sectors
           /\ [s EXCEPT !.body = cell].body = cell
           /\ [s EXCEPT !.body = cell].head = s.head /\ [s EXCEPT !.body = cell].seq = s.seq
           /\ [s EXCEPT !.body = cell].mark = s.mark
BY DEF Sectors

LEMMA MarkFields ==
    ASSUME NEW s \in Sectors, NEW cell \in Marks
    PROVE  /\ [s EXCEPT !.mark = cell] \in Sectors
           /\ [s EXCEPT !.mark = cell].mark = cell
           /\ [s EXCEPT !.mark = cell].head = s.head /\ [s EXCEPT !.mark = cell].seq = s.seq
           /\ [s EXCEPT !.mark = cell].body = s.body
BY DEF Sectors

LEMMA BlankFields ==
    /\ Blank \in Sectors /\ Blank.head = "ERASED" /\ Blank.body = "ERASED"
    /\ Blank.mark = "ERASED" /\ Blank.seq = 0
<1>1. 0 \in SequenceNumbers BY FlashAssumption DEF SequenceNumbers
<1> QED BY <1>1 DEF Blank, Sectors, Cells, Marks

(* What an operation, whole or cut, may make of a sector s: r.             *)
HeadOf(r, s) == r.head = s.head /\ r.seq = s.seq
Altered(r, s, op) ==
    /\ op.kind = "ERASE" =>
          /\ HeadOf(r, s) \/ r.head \notin Values
          /\ r.body \in {s.body, "TORN", "ERASED"} /\ r.mark \in {s.mark, "TORN", "ERASED"}
    /\ op.kind = "HEAD" =>
          /\ r.body = s.body /\ r.mark = s.mark
          /\ \/ HeadOf(r, s) \/ r.head = "TORN"
             \/ r.head = op.val /\ r.seq = op.seq
                /\ (s.head = "ERASED" \/ "CHANCE" \in Failures)
    /\ op.kind = "PAGE" =>
          /\ HeadOf(r, s) /\ r.mark = s.mark
          /\ \/ r.body = s.body \/ r.body = "TORN"
             \/ r.body = "PART" /\ (s.body = "ERASED" \/ "CHANCE" \in Failures)
    /\ op.kind = "LAST" =>
          /\ HeadOf(r, s) /\ r.mark = s.mark
          /\ \/ r.body = s.body \/ r.body = "TORN"
             \/ r.body = op.val /\ (s.body = "PART" \/ "CHANCE" \in Failures)
    /\ op.kind = "MARK" =>
          /\ HeadOf(r, s) /\ r.body = s.body
          /\ \/ r.mark = s.mark \/ r.mark = "TORN"
             \/ r.mark = "COMMITTED" /\ (s.mark = "ERASED" \/ "CHANCE" \in Failures)

LEMMA OverEffect ==
    ASSUME NEW old, NEW new, NEW cell \in Programmed(old, new)
    PROVE  \/ cell = new /\ (old = "ERASED" \/ old = new \/ "CHANCE" \in Failures)
           \/ cell = "TORN"
BY DEF Programmed, Over

(* An operation that is carried out, or cut short, by kind. *)
LEMMA CompletedEffect ==
    ASSUME NEW s \in Sectors, NEW op \in Operations, op.kind \in OpsOfSet,
           op.val \in Values, NEW r \in Completed(s, op)
    PROVE  r \in Sectors /\ Altered(r, s, op) /\ (op.kind = "ERASE" => r = Blank)
<1>0. /\ op.val \in Cells /\ op.seq \in SequenceNumbers /\ "TORN" \in Cells /\ "PART" \in Cells
      /\ "TORN" \notin Values
      /\ s.head \in Cells /\ s.body \in Cells /\ s.seq \in SequenceNumbers /\ s.mark \in Marks
  BY CellsApart DEF Operations, Sectors
<1>1. CASE op.kind = "ERASE"
  BY <1>1, BlankFields, CellsApart DEF Completed, Altered
<1>2. CASE op.kind = "HEAD"
  <2>1. r \in HeadProgrammed(s, op) BY <1>2 DEF Completed
  <2>2. PICK cell \in (IF s.head = op.val /\ s.seq # op.seq THEN Over(op.val)
                       ELSE Programmed(s.head, op.val)) : r = WithHead(s, op.seq, cell)
    BY <2>1 DEF HeadProgrammed
  <2>3. cell \in {"TORN", op.val}
    BY <2>2, OverEffect DEF Over
  <2>4. /\ r \in Sectors /\ r.head = cell /\ r.body = s.body /\ r.mark = s.mark
        /\ r.seq = IF cell \in Values THEN op.seq ELSE 0
    <3>1. cell \in Cells /\ op.seq \in SequenceNumbers BY <1>0, <2>3
    <3> QED BY <2>2, <3>1, HeadFields
  <2>5. CASE cell = "TORN"
    BY <1>2, <2>4, <2>5 DEF Altered
  <2>6. CASE cell = op.val /\ cell # "TORN"
    <3>1. r.head = op.val /\ r.seq = op.seq BY <2>4, <2>6
    <3>2. \/ s.head = "ERASED" \/ "CHANCE" \in Failures
          \/ s.head = op.val /\ s.seq = op.seq
      BY <2>2, <2>6, OverEffect DEF Over
    <3> QED BY <1>2, <2>4, <3>1, <3>2 DEF Altered, HeadOf
  <2> QED BY <2>3, <2>5, <2>6
<1>3. CASE op.kind = "PAGE"
  <2>1. PICK cell \in Programmed(s.body, "PART") : r = [s EXCEPT !.body = cell]
    BY <1>3 DEF Completed, PageProgrammed
  <2>2. cell = "TORN" \/ (cell = "PART" /\ (s.body \in {"ERASED", "PART"} \/ "CHANCE" \in Failures))
    BY <2>1, OverEffect
  <2>3. r \in Sectors /\ r.body = cell /\ HeadOf(r, s) /\ r.mark = s.mark
    BY <1>0, <2>1, <2>2, BodyFields DEF HeadOf
  <2> QED BY <1>3, <2>2, <2>3 DEF Altered
<1>4. CASE op.kind = "LAST"
  <2>1. PICK cell \in (CASE s.body = "PART" -> {op.val}
                         [] s.body = "ERASED" -> {"TORN"}
                         [] OTHER -> Over(op.val)) : r = [s EXCEPT !.body = cell]
    BY <1>4 DEF Completed, LastProgrammed
  <2>2. cell = "TORN" \/ (cell = op.val /\ (s.body = "PART" \/ "CHANCE" \in Failures))
    BY <2>1 DEF Over
  <2>3. r \in Sectors /\ r.body = cell /\ HeadOf(r, s) /\ r.mark = s.mark
    BY <1>0, <2>1, <2>2, BodyFields DEF HeadOf
  <2> QED BY <1>4, <2>2, <2>3 DEF Altered
<1>5. CASE op.kind = "MARK"
  <2>1. PICK cell \in Programmed(s.mark, "COMMITTED") : r = [s EXCEPT !.mark = cell]
    BY <1>5 DEF Completed
  <2>2. \/ cell = "TORN"
        \/ cell = "COMMITTED" /\ (s.mark \in {"ERASED", "COMMITTED"} \/ "CHANCE" \in Failures)
    BY <2>1, OverEffect
  <2>3. r \in Sectors /\ r.mark = cell /\ HeadOf(r, s) /\ r.body = s.body
    BY <2>1, <2>2, MarkFields DEF HeadOf, Marks
  <2> QED BY <1>5, <2>2, <2>3 DEF Altered
<1> QED BY <1>1, <1>2, <1>3, <1>4, <1>5 DEF OpsOfSet

LEMMA InterruptedEffect ==
    ASSUME NEW s \in Sectors, NEW op \in Operations, op.kind \in OpsOfSet,
           op.val \in Values, NEW r \in Interrupted(s, op)
    PROVE  r \in Sectors /\ Altered(r, s, op)
<1>0. /\ "TORN" \in Cells /\ "ERASED" \in Cells /\ "TORN" \notin Values /\ "ERASED" \notin Values
      /\ s.head \in Cells /\ s.body \in Cells /\ s.seq \in SequenceNumbers /\ s.mark \in Marks
      /\ 0 \in SequenceNumbers
  BY CellsApart, FlashAssumption DEF Sectors, SequenceNumbers
<1>1. CASE r \in Completed(s, op) BY <1>1, CompletedEffect
<1>2. CASE op.kind = "ERASE" /\ r \notin Completed(s, op)
  <2>1. PICK head \in {s.head, "TORN", "ERASED"}, body \in {s.body, "TORN", "ERASED"},
             mark \in {s.mark, "TORN", "ERASED"} :
             r = [WithHead(s, s.seq, head) EXCEPT !.body = body, !.mark = mark]
    BY <1>2 DEF Interrupted
  <2> DEFINE h == WithHead(s, s.seq, head)
  <2>2. /\ h \in Sectors /\ h.head = head /\ h.seq = IF head \in Values THEN s.seq ELSE 0
    <3>1. head \in Cells /\ s.seq \in SequenceNumbers BY <1>0, <2>1
    <3> QED BY <3>1, HeadFields
  <2> HIDE DEF h
  <2>3. r = [h EXCEPT !.body = body, !.mark = mark] BY <2>1 DEF h
  <2>4. mark \in Marks /\ body \in Cells BY <1>0, <2>1 DEF Marks
  <2>5. /\ r \in Sectors /\ r.head = head /\ r.body = body /\ r.mark = mark
        /\ r.seq = IF head \in Values THEN s.seq ELSE 0
    BY <2>2, <2>3, <2>4 DEF Sectors
  <2>6. r.head \notin Values \/ (r.head = s.head /\ r.seq = s.seq) BY <1>0, <2>1, <2>5
  <2> QED BY <1>2, <2>1, <2>5, <2>6 DEF Altered, HeadOf
<1>3. CASE op.kind = "HEAD" /\ r \notin Completed(s, op)
  <2>1. r = s \/ r = WithHead(s, 0, "TORN") BY <1>3 DEF Interrupted
  <2>2. CASE r = s BY <1>3, <2>2 DEF Altered, HeadOf
  <2>3. CASE r = WithHead(s, 0, "TORN")
    <3>0. "TORN" \in Cells /\ 0 \in SequenceNumbers BY <1>0
    <3>1. r \in Sectors /\ r.head = "TORN" /\ r.body = s.body /\ r.mark = s.mark
      BY <2>3, <3>0, HeadFields
    <3> QED BY <1>3, <3>1 DEF Altered
  <2> QED BY <2>1, <2>2, <2>3
<1>4. CASE op.kind \in {"PAGE", "LAST"} /\ r \notin Completed(s, op)
  <2>1. r = s \/ r = [s EXCEPT !.body = "TORN"] BY <1>4 DEF Interrupted
  <2>2. CASE r = s BY <1>4, <2>2 DEF Altered, HeadOf
  <2>3. CASE r = [s EXCEPT !.body = "TORN"]
    <3>1. r \in Sectors /\ HeadOf(r, s) /\ r.body = "TORN" /\ r.mark = s.mark
      BY <1>0, <2>3, BodyFields DEF HeadOf
    <3> QED BY <1>4, <3>1 DEF Altered
  <2> QED BY <2>1, <2>2, <2>3
<1>5. CASE op.kind = "MARK" /\ r \notin Completed(s, op)
  <2>1. r = s \/ r = [s EXCEPT !.mark = "TORN"] BY <1>5 DEF Interrupted
  <2>2. "TORN" \in Marks BY DEF Marks
  <2>3. CASE r = s BY <1>5, <2>3 DEF Altered, HeadOf
  <2>4. CASE r = [s EXCEPT !.mark = "TORN"]
    <3>1. r \in Sectors /\ HeadOf(r, s) /\ r.mark = "TORN" /\ r.body = s.body
      BY <2>2, <2>4, MarkFields DEF HeadOf
    <3> QED BY <1>5, <3>1 DEF Altered
  <2> QED BY <2>1, <2>3, <2>4
<1> QED BY <1>1, <1>2, <1>3, <1>4, <1>5 DEF OpsOfSet

(* The sectors once the chip has done what it does, or has lost power.     *)
LEMMA ChipEffect ==
    ASSUME NEW d \in Devices, d.chip.kind \in OpsOfSet, d.chip.val \in Values,
           NEW slots \in AfterOperation(d)
    PROVE  /\ slots \in [Slots -> Sectors]
           /\ \A x \in Slots \ {d.chip.slot} : slots[x] = d.slots[x]
           /\ Altered(slots[d.chip.slot], d.slots[d.chip.slot], d.chip)
           /\ d.chip.kind = "ERASE" /\ ~d.torn => slots[d.chip.slot] = Blank
<1> DEFINE was == d.slots[d.chip.slot]
<1>1. d.chip \in Operations /\ d.chip.slot \in Slots /\ d.slots \in [Slots -> Sectors]
      /\ was \in Sectors
  BY DEF Devices, Operations
<1>2. PICK r \in (IF d.torn THEN Interrupted(was, d.chip) ELSE Completed(was, d.chip)) :
        slots = [d.slots EXCEPT ![d.chip.slot] = r]
  BY DEF AfterOperation
<1> HIDE DEF was
<1>3. /\ r \in Sectors /\ Altered(r, was, d.chip)
      /\ d.chip.kind = "ERASE" /\ ~d.torn => r = Blank
  BY <1>1, <1>2, CompletedEffect, InterruptedEffect
<1> QED BY <1>1, <1>2, <1>3 DEF was

LEMMA PowerEffect ==
    ASSUME NEW d \in Devices, d.chip.kind \in OpsOfSet => d.chip.val \in Values,
           d.chip.kind \in OpsOfSet \cup {"NONE"}, NEW slots \in AfterPowerLoss(d)
    PROVE  /\ slots \in [Slots -> Sectors]
           /\ \A x \in Slots \ {d.chip.slot} : slots[x] = d.slots[x]
           /\ d.chip.kind = "NONE" => slots = d.slots
           /\ d.chip.kind # "NONE" =>
                 Altered(slots[d.chip.slot], d.slots[d.chip.slot], d.chip)
<1> DEFINE was == d.slots[d.chip.slot]
<1>1. d.chip \in Operations /\ d.chip.slot \in Slots /\ d.slots \in [Slots -> Sectors]
      /\ was \in Sectors
  BY DEF Devices, Operations
<1>2. PICK r \in Interrupted(was, d.chip) : slots = [d.slots EXCEPT ![d.chip.slot] = r]
  BY DEF AfterPowerLoss
<1> HIDE DEF was
<1>3. CASE d.chip.kind = "NONE"
  <2>1. r = was BY <1>2, <1>3 DEF Interrupted, Completed
  <2>2. slots = d.slots BY <1>1, <1>2, <2>1 DEF was
  <2> QED BY <1>1, <1>3, <2>2
<1>4. CASE d.chip.kind \in OpsOfSet
  <2>1. r \in Sectors /\ Altered(r, was, d.chip)
    BY <1>1, <1>2, <1>4, InterruptedEffect
  <2> QED BY <1>1, <1>2, <1>4, <2>1 DEF was, OpsOfSet
<1> QED BY <1>3, <1>4

LEMMA FreshDevice ==
    ASSUME NEW slots \in [Slots -> Sectors]
    PROVE  /\ Fresh(slots) \in Devices /\ Fresh(slots).slots = slots
           /\ Fresh(slots).chip.kind = "NONE" /\ ~Fresh(slots).pending
<1>1. Idle \in Operations /\ Idle.kind = "NONE"
  BY FlashAssumption DEF Idle, Operations, OpKinds, Slots, SequenceNumbers
<1> QED BY <1>1 DEF Fresh, Devices

(***************************************************************************)
(* The effect of each step on the record of the installation.              *)
(***************************************************************************)
Runtime == cal'.active = cal.active /\ cal'.aseq = cal.aseq /\ cal'.aslot = cal.aslot

GivenUp ==          \* the installation ends without a set
    /\ cal' \in Calibrations /\ inst' \in Installs /\ Runtime
    /\ cal'.store = "IDLE" /\ ~cal'.abort /\ ~cal'.held
    /\ inst'.st \in {"FAILED", "ABORTED"}
    /\ owner' = (IF owner = "STORE" THEN "FREE" ELSE owner) /\ image' = NoSet

GoneOn(to, page) == \* the store takes a step
    /\ cal' \in Calibrations /\ inst' \in Installs /\ Runtime
    /\ cal'.store = to /\ cal'.page = page
    /\ cal'.held = cal.held /\ cal'.scan = cal.scan /\ cal'.cand = cal.cand
    /\ cal'.target = cal.target /\ cal'.tseq = cal.tseq
    /\ (cal'.abort <=> StoreNow.abort)
    /\ inst'.st = inst.st /\ inst'.seq = inst.seq
    /\ UNCHANGED <<owner, image>>

Polling ==          \* the driver is asked
    /\ dev' \in Devices /\ (dev'.pending => dev.pending)
    /\ dev'.slots = dev.slots /\ dev'.chip = dev.chip /\ dev'.torn = dev.torn

Command(kind) == [kind |-> kind, slot |-> cal.target, seq |-> cal.tseq, val |-> cal.scan]
Commanding(kind) == \* the driver is told
    dev' \in Devices /\ Issued(dev', dev, Command(kind))

LEMMA NoSetApart == NoSet \notin Values /\ NoSet \in Sets /\ NoSet \in Images
BY FlashAssumption DEF NoSet, Sets, Images

LEMMA InstallStatesApart ==
    /\ {"FAILED", "ABORTED", "INSTALLED", "IDLE", "WRITING", "RECEIVING", "VALIDATED"}
          \subseteq InstallStates
    /\ 0 \in SequenceNumbers /\ 0 \in 0 .. Chunks /\ 0 \in 0 .. Pages
    /\ Slots = {"A", "B"}
BY SizeAssumption, FlashAssumption DEF InstallStates, SequenceNumbers, Slots

LEMMA StoreNowEffect ==
    ASSUME TypeOK
    PROVE  /\ StoreNow \in Calibrations
           /\ StoreNow.cand = cal.cand /\ StoreNow.held = cal.held
           /\ StoreNow.scan = cal.scan /\ StoreNow.store = cal.store
           /\ StoreNow.target = cal.target /\ StoreNow.tseq = cal.tseq
           /\ StoreNow.page = cal.page /\ StoreNow.active = cal.active
           /\ StoreNow.aseq = cal.aseq /\ StoreNow.aslot = cal.aslot
           /\ StoreNow.abort <=>
                 cal.abort \/ (Blocked /\ cal.store \notin {"COMMIT_WAIT", "VERIFY", "DONE"})
<1>1. cal \in Calibrations BY DEF TypeOK
<1> DEFINE b == cal.abort \/ cal.store \notin {"COMMIT_WAIT", "VERIFY", "DONE"}
<1>2. b \in BOOLEAN OBVIOUS
<1>3. AbortStore(cal) = [cal EXCEPT !.abort = b] BY DEF AbortStore
<1> HIDE DEF b
<1>4. /\ AbortStore(cal) \in Calibrations
      /\ AbortStore(cal).cand = cal.cand /\ AbortStore(cal).held = cal.held
      /\ AbortStore(cal).scan = cal.scan /\ AbortStore(cal).store = cal.store
      /\ AbortStore(cal).target = cal.target /\ AbortStore(cal).tseq = cal.tseq
      /\ AbortStore(cal).page = cal.page /\ AbortStore(cal).active = cal.active
      /\ AbortStore(cal).aseq = cal.aseq /\ AbortStore(cal).aslot = cal.aslot
      /\ AbortStore(cal).abort = b
  BY <1>1, <1>2, <1>3 DEF Calibrations
<1>5. CASE Blocked BY <1>4, <1>5 DEF StoreNow, b
<1>6. CASE ~Blocked BY <1>1, <1>6 DEF StoreNow
<1> QED BY <1>5, <1>6

LEMMA DiscardedEffect ==
    ASSUME NEW c \in Calibrations, c.store = "ERROR" \/ ~c.abort
    PROVE  /\ Discarded(c) \in Calibrations
           /\ Discarded(c).store = "IDLE" /\ ~Discarded(c).abort /\ ~Discarded(c).held
           /\ Discarded(c).active = c.active /\ Discarded(c).aseq = c.aseq
           /\ Discarded(c).aslot = c.aslot
<1>1. c.abort \in BOOLEAN BY DEF Calibrations
<1>2. (IF c.store \in {"DONE", "ERROR"} THEN FALSE ELSE c.abort) = FALSE BY <1>1
<1>3. Discarded(c) =
        [c EXCEPT !.store = "IDLE", !.abort = FALSE, !.held = FALSE, !.scan = NoSet,
                  !.cand = "NONE", !.target = "A", !.tseq = 0, !.page = 0]
  BY <1>2 DEF Discarded
<1>4. /\ "IDLE" \in StoreStates /\ NoSet \in Sets /\ "NONE" \in CandidateStates /\ "A" \in Slots
      /\ 0 \in SequenceNumbers /\ 0 \in 0 .. Pages
  BY NoSetApart, InstallStatesApart DEF StoreStates, CandidateStates
<1> QED BY <1>3, <1>4 DEF Calibrations

LEMMA FinishEffect ==
    ASSUME TypeOK, NEW c \in Calibrations, c.store = "ERROR" \/ ~c.abort,
           c.active = cal.active, c.aseq = cal.aseq, c.aslot = cal.aslot,
           NEW error \in Errors, Finish(c, error)
    PROVE  GivenUp
<1>1. /\ cal' \in Calibrations /\ cal'.store = "IDLE" /\ ~cal'.abort /\ ~cal'.held
      /\ Runtime
  BY DiscardedEffect DEF Finish, Runtime
<1>2. inst' \in Installs /\ inst'.st \in {"FAILED", "ABORTED"}
  <2> DEFINE st == IF error = "CANCELED" THEN "ABORTED" ELSE "FAILED"
  <2>1. st \in {"FAILED", "ABORTED"} /\ st \in InstallStates
    BY InstallStatesApart
  <2>2. inst' = [st |-> st, error |-> error, seq |-> 0, received |-> 0, late |-> FALSE]
    BY DEF Finish, NoInstall
  <2> HIDE DEF st
  <2> QED BY <2>1, <2>2, InstallStatesApart DEF Installs
<1> QED BY <1>1, <1>2 DEF GivenUp, Finish

LEMMA ErrorNowType == ASSUME TypeOK PROVE ErrorNow \in Errors
BY DEF TypeOK, Installs, ErrorNow, Errors

LEMMA FailsEffect == ASSUME TypeOK, Fails PROVE GivenUp
<1> DEFINE c == [StoreNow EXCEPT !.store = "ERROR"]
<1>1. /\ c \in Calibrations /\ c.store = "ERROR"
      /\ c.active = cal.active /\ c.aseq = cal.aseq /\ c.aslot = cal.aslot
  <2>1. "ERROR" \in StoreStates BY DEF StoreStates
  <2> QED BY <2>1, StoreNowEffect DEF Calibrations
<1>2. (IF ErrorNow = "OK" THEN "STORAGE_ERROR" ELSE ErrorNow) \in Errors
  BY ErrorNowType DEF Errors
<1> QED BY <1>1, <1>2, FinishEffect DEF Fails

LEMMA GoesEffect ==
    ASSUME TypeOK, NEW to \in StoreStates, NEW page \in 0 .. Pages,
           Goes([StoreNow EXCEPT !.store = to, !.page = page])
    PROVE  GoneOn(to, page)
<1>1. /\ cal' \in Calibrations /\ cal'.store = to /\ cal'.page = page
      /\ cal'.held = cal.held /\ cal'.scan = cal.scan /\ cal'.cand = cal.cand
      /\ cal'.target = cal.target /\ cal'.tseq = cal.tseq
      /\ cal'.abort = StoreNow.abort /\ Runtime
  BY StoreNowEffect DEF Calibrations, Goes, Runtime
<1>2. inst' \in Installs /\ inst'.st = inst.st /\ inst'.seq = inst.seq
  <2>1. inst' = [inst EXCEPT !.error = ErrorNow] BY DEF Goes
  <2>2. ErrorNow \in Errors BY ErrorNowType
  <2> HIDE DEF ErrorNow
  <2> QED BY <2>1, <2>2 DEF TypeOK, Installs
<1> QED BY <1>1, <1>2 DEF GoneOn, Goes

LEMMA GoesToEffect ==
    ASSUME TypeOK, NEW to \in StoreStates, GoesTo(to)
    PROVE  GoneOn(to, cal.page)
<1>1. [StoreNow EXCEPT !.store = to] = [StoreNow EXCEPT !.store = to, !.page = cal.page]
  BY StoreNowEffect DEF Calibrations
<1>2. cal.page \in 0 .. Pages BY DEF TypeOK, Calibrations
<1> QED BY <1>1, <1>2, GoesEffect DEF GoesTo

(***************************************************************************)
(* The protocol: what the installation, the store, the driver and the chip *)
(* know of one another.                                                    *)
(***************************************************************************)
Paging == {"HEADER_START", "HEADER_WAIT", "PAYLOAD_START", "PAYLOAD_WAIT"}
Protocol ==
    /\ WorkspaceAccounted
    /\ inst.st = "WRITING" <=> StoreBusy
    /\ cal.store \in StoreBusyStates \cup {"IDLE"}
    /\ cal.abort => StoreBusy /\ cal.store \notin {"COMMIT_WAIT", "VERIFY"}
    /\ StoreBusy => cal.target = Target /\ cal.tseq = inst.seq /\ cal.scan \in Values
    /\ Installing => inst.seq = cal.aseq + 1
    /\ inst.st = "INSTALLED" => inst.seq = cal.aseq /\ attempts = {}
    /\ cal.store \in Paging => cal.page < Pages
    /\ cal.active = NoSet => cal.aslot = "A" /\ cal.aseq = 0

(* What the chip is busy with was told by the store, for the slot it       *)
(* writes, under the sequence number that comes next.                      *)
Device ==
    /\ dev.chip.kind # "NONE" =>
          /\ dev.chip.kind \in OpsOfSet /\ dev.chip.val \in Values
          /\ dev.chip.slot = Target /\ dev.chip.seq = cal.aseq + 1
    /\ dev.chip.kind = "ERASE" => ~dev.torn
    /\ cal.store = "ERASE_WAIT" => dev.pending
    /\ cal.store = "VERIFY" => ~dev.pending

InstallInv == TypeOK /\ Protocol /\ Device

(* The slot of the set in use is never the target. *)
LEMMA TargetSpares ==
    /\ Target \in Slots
    /\ cal.active # NoSet /\ cal.aslot \in Slots => Target # cal.aslot
BY InstallStatesApart DEF Target

(* A step that leaves history, evidence and captures alone, and gives the  *)
(* installation up or takes the store one state on.                        *)
LEMMA GivenUpKeeps ==
    ASSUME InstallInv, Installing, GivenUp, UNCHANGED <<capturing, safety, saved, attempts, older>>,
           dev' \in Devices,
           dev'.chip.kind # "NONE" =>
              /\ dev'.chip.kind \in OpsOfSet /\ dev'.chip.val \in Values
              /\ dev'.chip.slot = Target /\ dev'.chip.seq = cal.aseq + 1,
           dev'.chip.kind = "ERASE" => ~dev'.torn
    PROVE  InstallInv'
<1>1. Target' = Target BY DEF GivenUp, Runtime, Target
<1>2. ~StoreBusy' /\ ~Installing' /\ inst'.st \notin {"WRITING", "INSTALLED"}
  BY DEF GivenUp, StoreBusy, StoreBusyStates, Installing
<1>3. owner = "STORE" BY DEF InstallInv, Protocol, WorkspaceAccounted
<1>4. TypeOK'
  BY NoSetApart DEF InstallInv, TypeOK, GivenUp
<1>5. Protocol'
  BY <1>1, <1>2, <1>3 DEF InstallInv, Protocol, GivenUp, Runtime, WorkspaceAccounted,
     Paging
<1>6. Device' BY <1>1 DEF InstallInv, Device, GivenUp, Runtime
<1> QED BY <1>4, <1>5, <1>6 DEF InstallInv

LEMMA GoneOnKeeps ==
    ASSUME InstallInv, StoreBusy, ~StoreNow.abort,
           NEW to \in StoreBusyStates, NEW page \in 0 .. Pages, GoneOn(to, page),
           UNCHANGED <<capturing, safety, saved, attempts, older>>,
           to \in Paging => page < Pages,
           dev' \in Devices,
           dev'.chip.kind # "NONE" =>
              /\ dev'.chip.kind \in OpsOfSet /\ dev'.chip.val \in Values
              /\ dev'.chip.slot = Target /\ dev'.chip.seq = cal.aseq + 1,
           dev'.chip.kind = "ERASE" => ~dev'.torn,
           to = "ERASE_WAIT" => dev'.pending,
           to = "VERIFY" => ~dev'.pending
    PROVE  InstallInv'
<1>1. Target' = Target BY DEF GoneOn, Runtime, Target
<1>2. StoreBusy' /\ inst'.st = "WRITING" /\ (Installing' <=> Installing)
  BY DEF GoneOn, StoreBusy, Installing, InstallInv, Protocol
<1>4. TypeOK'
  BY DEF InstallInv, TypeOK, GoneOn
<1>5. Protocol'
  BY <1>1, <1>2 DEF InstallInv, Protocol, GoneOn, Runtime, WorkspaceAccounted
<1>6. Device' BY <1>1 DEF InstallInv, Device, GoneOn, Runtime
<1> QED BY <1>4, <1>5, <1>6 DEF InstallInv

(* A command of the store is for the slot and the number it writes. *)
LEMMA CommandType ==
    ASSUME InstallInv, StoreBusy, NEW kind \in OpsOfSet
    PROVE  Command(kind) \in Operations /\ Command(kind).kind = kind
           /\ Command(kind).slot = Target /\ Command(kind).seq = cal.aseq + 1
           /\ Command(kind).val = cal.scan /\ cal.scan \in Values
<1>1. Installing BY DEF InstallInv, Protocol, Installing
<1>2. /\ cal.target = Target /\ cal.tseq = cal.aseq + 1 /\ cal.scan \in Values
      /\ cal.target \in Slots /\ cal.tseq \in SequenceNumbers
  BY <1>1 DEF InstallInv, TypeOK, Protocol, Calibrations
<1>3. kind \in OpKinds BY DEF OpsOfSet, OpKinds
<1> QED BY <1>2, <1>3 DEF Command, Operations

LEMMA CommandingKeeps ==
    ASSUME InstallInv, StoreBusy, NEW kind \in OpsOfSet, Commanding(kind)
    PROVE  /\ dev'.slots = dev.slots
           /\ dev'.chip.kind # "NONE" =>
              /\ dev'.chip.kind \in OpsOfSet /\ dev'.chip.val \in Values
              /\ dev'.chip.slot = Target /\ dev'.chip.seq = cal.aseq + 1
           /\ dev'.chip.kind = "ERASE" => ~dev'.torn
BY CommandType DEF Commanding, Issued, InstallInv, Device

LEMMA StartOperationEffect ==
    ASSUME InstallInv, NEW st \in StoreBusyStates, NEW next \in StoreStates, NEW kind \in OpsOfSet,
           StartOperation(st, next, kind)
    PROVE  /\ inst.st = "WRITING" /\ StoreBusy /\ Installing /\ ~StoreNow.abort
           /\ cal.store = st /\ Commanding(kind)
           /\ UNCHANGED <<capturing, safety, saved, attempts, older>>
           /\ dev.pending => dev' = dev
           /\ GivenUp \/ (GoneOn(next, cal.page) /\ dev'.pending)
<1>1. /\ inst.st = "WRITING" /\ ~StoreNow.abort /\ cal.store = st
      /\ UNCHANGED <<capturing, safety>>
  BY DEF StartOperation, Stepping, Stepped
<1>2. StoreBusy /\ Installing BY <1>1 DEF StoreBusy, Installing
<1>3. PICK a \in Started(dev, Command(kind)) :
        /\ dev' = a.dev
        /\ IF a.status = "ERROR" THEN Fails ELSE GoesTo(next)
  BY DEF StartOperation, Command
<1>4. TypeOK /\ dev \in Devices BY DEF InstallInv, TypeOK
<1>5. /\ Command(kind) \in Operations /\ Commanding(kind)
      /\ a.status # "ERROR" => dev'.pending
      /\ dev.pending => dev' = dev
  BY <1>2, <1>3, <1>4, CommandType, StartedEffect DEF Commanding
<1>6. CASE a.status = "ERROR"
  BY <1>1, <1>2, <1>3, <1>4, <1>5, <1>6, FailsEffect DEF Fails
<1>7. CASE a.status # "ERROR"
  BY <1>1, <1>2, <1>3, <1>4, <1>5, <1>7, GoesToEffect DEF GoesTo, Goes
<1> QED BY <1>6, <1>7

(* A start, for each of the store's. *)
LEMMA StartKeeps ==
    ASSUME InstallInv, NEW st \in StoreBusyStates, NEW next \in StoreBusyStates,
           NEW kind \in OpsOfSet, StartOperation(st, next, kind),
           next # "VERIFY", next \in Paging => st \in Paging
    PROVE  InstallInv'
<1>1. next \in StoreStates BY DEF StoreStates
<1>2. cal.page \in 0 .. Pages BY DEF InstallInv, TypeOK, Calibrations
<1>3. st \in Paging /\ cal.store = st => cal.page < Pages
  BY DEF InstallInv, Protocol
<1> QED BY <1>1, <1>2, <1>3, StartOperationEffect, CommandingKeeps, GivenUpKeeps, GoneOnKeeps
        DEF Commanding

LEMMA AwaitOperationEffect ==
    ASSUME InstallInv, NEW st \in StoreBusyStates, NEW to \in StoreStates, NEW page \in 0 .. Pages,
           AwaitOperation(st, [StoreNow EXCEPT !.store = to, !.page = page])
    PROVE  /\ inst.st = "WRITING" /\ StoreBusy /\ Installing /\ ~StoreNow.abort
           /\ cal.store = st /\ Polling
           /\ UNCHANGED <<capturing, safety, saved, attempts, older>>
           /\ \/ GivenUp
              \/ GoneOn(st, cal.page) /\ dev' = dev
              \/ GoneOn(to, page) /\ ~dev'.pending /\ (dev.pending => dev.chip.kind = "NONE")
<1>1. /\ inst.st = "WRITING" /\ ~StoreNow.abort /\ cal.store = st
      /\ UNCHANGED <<capturing, safety>>
  BY DEF AwaitOperation, Stepping, Stepped
<1>2. StoreBusy /\ Installing BY <1>1 DEF StoreBusy, Installing
<1>3. PICK a \in Polled(dev) :
        /\ dev' = a.dev
        /\ CASE a.status = "OK" -> Goes([StoreNow EXCEPT !.store = to, !.page = page])
             [] a.status = "BUSY" -> GoesTo(st)
             [] a.status \in {"ERROR", "TIMEOUT"} -> Fails
  BY DEF AwaitOperation
<1>4. TypeOK /\ dev \in Devices /\ st \in StoreStates BY DEF InstallInv, TypeOK, StoreStates
<1>5. /\ Polling /\ a.status \in {"OK", "BUSY", "TIMEOUT", "ERROR"}
      /\ a.status = "OK" => ~dev'.pending /\ (dev.pending => dev.chip.kind = "NONE")
      /\ a.status = "BUSY" => dev' = dev
  BY <1>3, <1>4, PolledEffect DEF Polling
<1>6. CASE a.status = "OK"
  <2>1. Goes([StoreNow EXCEPT !.store = to, !.page = page]) BY <1>3, <1>6
  <2> QED BY <1>1, <1>2, <1>4, <1>5, <1>6, <2>1, GoesEffect DEF Goes
<1>7. CASE a.status = "BUSY"
  <2>1. GoesTo(st) BY <1>3, <1>7
  <2> QED BY <1>1, <1>2, <1>4, <1>5, <1>7, <2>1, GoesToEffect DEF GoesTo, Goes
<1>8. CASE a.status \in {"ERROR", "TIMEOUT"}
  <2>1. Fails BY <1>3, <1>8
  <2> QED BY <1>1, <1>2, <1>4, <1>5, <2>1, FailsEffect DEF Fails
<1> QED BY <1>5, <1>6, <1>7, <1>8

LEMMA AwaitKeeps ==
    ASSUME InstallInv, NEW st \in StoreBusyStates, NEW to \in StoreBusyStates,
           NEW page \in 0 .. Pages,
           AwaitOperation(st, [StoreNow EXCEPT !.store = to, !.page = page]),
           to # "ERASE_WAIT",
           to \in Paging => page < Pages
    PROVE  InstallInv'
<1>1. to \in StoreStates /\ cal.page \in 0 .. Pages
  BY DEF StoreStates, InstallInv, TypeOK, Calibrations
<1>2. cal.store \in Paging => cal.page < Pages
  BY DEF InstallInv, Protocol
<1>3. (cal.store = "ERASE_WAIT" => dev.pending) /\ (cal.store = "VERIFY" => ~dev.pending)
  BY DEF InstallInv, Device
<1>4. /\ dev.chip.kind # "NONE" =>
            /\ dev.chip.kind \in OpsOfSet /\ dev.chip.val \in Values
            /\ dev.chip.slot = Target /\ dev.chip.seq = cal.aseq + 1
      /\ dev.chip.kind = "ERASE" => ~dev.torn
      /\ dev \in Devices
  BY DEF InstallInv, Device, TypeOK
<1> QED BY <1>1, <1>2, <1>3, <1>4, AwaitOperationEffect, GivenUpKeeps, GoneOnKeeps DEF Polling

LEMMA InstallInit == Init => InstallInv
<1> SUFFICES ASSUME Init PROVE InstallInv OBVIOUS
<1> DEFINE slots == [x \in Slots |-> Blank]
<1>1. slots \in [Slots -> Sectors] BY BlankFields
<1> HIDE DEF slots
<1>2. /\ dev = Fresh(slots) /\ dev \in Devices /\ dev.slots = slots
      /\ dev.chip.kind = "NONE" /\ ~dev.pending
  BY <1>1, FreshDevice DEF Init, slots
<1>3. cal = Loaded(slots, Slots) BY <1>2 DEF Init
<1>4. ~Valid(slots["A"]) /\ ~Valid(slots["B"])
  BY CellsApart, BlankFields, InstallStatesApart DEF slots, Valid
<1>5. Chosen(slots, Slots) = "NONE" BY <1>4, InstallStatesApart DEF Chosen
<1>6. /\ cal \in Calibrations /\ cal.store = "IDLE" /\ ~cal.abort /\ ~cal.held
      /\ cal.active = NoSet /\ cal.aslot = "A" /\ cal.aseq = 0
  BY <1>3, <1>5, NoSetApart, InstallStatesApart
     DEF Loaded, Calibrations, StoreStates, CandidateStates
<1>7. inst \in Installs /\ inst.st = "IDLE"
  BY InstallStatesApart DEF Init, NoInstall, Installs, Errors
<1>8. TypeOK BY <1>2, <1>6, <1>7, NoSetApart DEF Init, TypeOK, Safeties
<1>9. Protocol BY <1>6, <1>7 DEF Protocol, Init, WorkspaceAccounted, Installing, StoreBusy,
        StoreBusyStates, Paging
<1>10. Device BY <1>2, <1>6 DEF Device
<1> QED BY <1>8, <1>9, <1>10 DEF InstallInv

(* The commands of the PC. *)
LEMMA SuccessorType ==
    ASSUME NEW seq \in SequenceNumbers, Successor(seq) # 0
    PROVE  Successor(seq) = seq + 1 /\ seq + 1 \in SequenceNumbers
BY FlashAssumption DEF Successor, SequenceNumbers

LEMMA BeginKeeps == ASSUME InstallInv, Begin PROVE InstallInv'
<1>1. cal.aseq \in SequenceNumbers BY DEF InstallInv, TypeOK, Calibrations
<1>2. /\ inst' = [st |-> "RECEIVING", error |-> "OK", seq |-> cal.aseq + 1,
                  received |-> 0, late |-> FALSE]
      /\ cal.aseq + 1 \in SequenceNumbers
  BY <1>1, SuccessorType DEF Begin
<1>3. inst' \in Installs /\ inst'.st = "RECEIVING" /\ inst'.seq = cal.aseq + 1
  BY <1>2, InstallStatesApart DEF Installs, Errors
<1>4. /\ cal' \in Calibrations /\ cal'.held /\ cal'.store = cal.store
      /\ (cal'.abort <=> cal.abort) /\ Runtime
  <2>1. cal' = [cal EXCEPT !.scan = NoSet, !.cand = "BUILDING", !.held = TRUE] BY DEF Begin
  <2>2. cal \in Calibrations BY DEF InstallInv, TypeOK
  <2> QED BY <2>1, <2>2, NoSetApart DEF Calibrations, CandidateStates, Runtime
<1>5. ~StoreBusy /\ ~StoreBusy' BY <1>4 DEF Begin, ServiceBusy, StoreBusy
<1>6. Target' = Target BY <1>4 DEF Runtime, Target
<1>7. TypeOK' BY <1>3, <1>4 DEF InstallInv, TypeOK, Begin, flashVars
<1>8. Protocol'
  BY <1>3, <1>4, <1>5 DEF InstallInv, Protocol, Begin, Runtime, WorkspaceAccounted, Installing,
     StoreBusy, StoreBusyStates
<1>9. Device' BY <1>4, <1>6 DEF InstallInv, Device, Begin, Runtime, flashVars
<1> QED BY <1>7, <1>8, <1>9 DEF InstallInv

LEMMA ChunkKeeps == ASSUME InstallInv, NEW v \in Values \cup {"MIXED"}, Chunk(v) PROVE InstallInv'
<1>1. /\ inst' \in Installs /\ inst'.st = "RECEIVING" /\ inst.st = "RECEIVING"
      /\ inst'.seq = inst.seq
  <2>1. inst' = [inst EXCEPT !.received = @ + 1, !.late = FALSE] /\ inst.st = "RECEIVING"
        /\ inst.received < Chunks
    BY DEF Chunk
  <2>2. inst \in Installs BY DEF InstallInv, TypeOK
  <2>3. inst.received + 1 \in 0 .. Chunks BY <2>1, <2>2, SizeAssumption DEF Installs
  <2> QED BY <2>1, <2>2, <2>3 DEF Installs
<1>2. TypeOK' BY <1>1 DEF InstallInv, TypeOK, Chunk, flashVars, Images
<1>3. Protocol'
  BY <1>1 DEF InstallInv, Protocol, Chunk, WorkspaceAccounted, Installing, StoreBusy, Target
<1>4. Device' BY DEF InstallInv, Device, Chunk, flashVars, Target
<1> QED BY <1>2, <1>3, <1>4 DEF InstallInv

LEMMA ValidateKeeps == ASSUME InstallInv, Validate PROVE InstallInv'
<1>0. /\ inst.st = "RECEIVING" /\ Installing /\ ~StoreBusy /\ ~cal.abort /\ dev' = dev
      /\ UNCHANGED <<capturing, safety, saved, attempts, older>> /\ cal \in Calibrations
      /\ inst \in Installs
  BY DEF Validate, Installing, InstallInv, Protocol, TypeOK, flashVars
<1>1. CASE ValidCandidate
  <2>1. /\ inst' \in Installs /\ inst'.st = "VALIDATED" /\ inst'.seq = inst.seq
    BY <1>0, <1>1, InstallStatesApart DEF Validate, Installs
  <2>2. /\ cal' \in Calibrations /\ cal'.held = cal.held /\ cal'.store = cal.store
        /\ (cal'.abort <=> cal.abort) /\ Runtime
    BY <1>0, <1>1 DEF Validate, ValidCandidate, Calibrations, Sets, CandidateStates, Runtime
  <2>3. owner' = owner /\ image' = image BY <1>1 DEF Validate
  <2>4. TypeOK' BY <1>0, <2>1, <2>2, <2>3 DEF InstallInv, TypeOK
  <2>5. Protocol'
    BY <1>0, <2>1, <2>2, <2>3 DEF InstallInv, Protocol, WorkspaceAccounted, Installing,
       StoreBusy, StoreBusyStates, Runtime, Paging
  <2>6. Device' BY <1>0, <2>2 DEF InstallInv, Device, Runtime, Target
  <2> QED BY <2>4, <2>5, <2>6 DEF InstallInv
<1>2. CASE ~ValidCandidate
  <2>1. Finish(cal, "INVALID_CANDIDATE") BY <1>2 DEF Validate
  <2>2. GivenUp BY <1>0, <2>1, FinishEffect DEF Errors, InstallInv
  <2> QED BY <1>0, <2>2, GivenUpKeeps DEF InstallInv, Device, TypeOK
<1> QED BY <1>1, <1>2

LEMMA CommitKeeps == ASSUME InstallInv, Commit PROVE InstallInv'
<1> DEFINE Ready ==
        /\ ~ServiceBusy /\ cal.cand = "COMPLETE" /\ cal.scan \in Values
        /\ (cal.held \/ owner = "FREE")
        /\ Successor(cal.aseq) = inst.seq
<1>0. /\ inst.st = "VALIDATED" /\ Installing /\ ~StoreBusy /\ ~cal.abort
      /\ UNCHANGED <<capturing, safety, saved>> /\ dev' = dev /\ cal \in Calibrations
      /\ inst \in Installs /\ inst.seq = cal.aseq + 1
  BY DEF Commit, Installing, InstallInv, Protocol, TypeOK
<1>1. CASE Ready
  <2>1. /\ cal' = [cal EXCEPT !.held = TRUE, !.cand = "COMMITTING", !.store = "ERASE_START",
                              !.abort = FALSE, !.target = Target, !.tseq = inst.seq, !.page = 0]
        /\ owner' = "STORE" /\ image' = cal.scan
        /\ inst' = [inst EXCEPT !.st = "WRITING", !.late = FALSE, !.received = 0]
        /\ attempts' = attempts \cup {cal.scan} /\ older' = attempts
        /\ cal.scan \in Values
    BY <1>1 DEF Commit
  <2>2. inst' \in Installs /\ inst'.st = "WRITING" /\ inst'.seq = inst.seq
    BY <1>0, <2>1, InstallStatesApart DEF Installs
  <2>3. Target \in Slots /\ inst.seq \in SequenceNumbers
    BY <1>0, InstallStatesApart DEF Target, Installs
  <2>4. /\ cal' \in Calibrations /\ cal'.held /\ cal'.store = "ERASE_START" /\ ~cal'.abort
        /\ cal'.target = Target /\ cal'.tseq = inst.seq /\ cal'.scan = cal.scan /\ Runtime
    <3>1. "ERASE_START" \in StoreStates /\ "COMMITTING" \in CandidateStates /\ 0 \in 0 .. Pages
      BY InstallStatesApart DEF StoreStates, StoreBusyStates, CandidateStates
    <3> QED BY <1>0, <2>1, <2>3, <3>1 DEF Calibrations, Runtime
  <2>5. Target' = Target BY <2>4 DEF Runtime, Target
  <2>6. TypeOK' BY <1>0, <2>1, <2>2, <2>4 DEF InstallInv, TypeOK, Images
  <2>7. StoreBusy' /\ Installing' BY <2>2, <2>4 DEF StoreBusy, StoreBusyStates, Installing
  <2>8. Protocol'
    BY <1>0, <2>1, <2>2, <2>4, <2>5, <2>7
       DEF InstallInv, Protocol, WorkspaceAccounted, StoreBusyStates, Runtime, Paging
  <2>9. Device' BY <1>0, <2>4, <2>5 DEF InstallInv, Device, Runtime
  <2> QED BY <2>6, <2>8, <2>9 DEF InstallInv
<1>2. CASE ~Ready
  <2>1. Finish(cal, "STORAGE_ERROR") /\ UNCHANGED <<attempts, older>> BY <1>2 DEF Commit
  <2>2. GivenUp BY <1>0, <2>1, FinishEffect DEF Errors, InstallInv
  <2> QED BY <1>0, <2>1, <2>2, GivenUpKeeps DEF InstallInv, Device, TypeOK
<1> QED BY <1>1, <1>2

LEMMA AbortKeeps == ASSUME InstallInv, Abort PROVE InstallInv'
<1>0. /\ Installing /\ dev' = dev /\ UNCHANGED <<capturing, safety, saved, attempts, older>>
      /\ cal \in Calibrations /\ inst \in Installs
  BY DEF Abort, InstallInv, TypeOK, flashVars
<1>1. CASE inst.st = "WRITING"
  <2>1. /\ cal' = AbortStore(cal) /\ owner' = owner /\ image' = image
        /\ inst' = [inst EXCEPT !.error =
                       IF cal.store \in {"COMMIT_WAIT", "VERIFY", "DONE"}
                       THEN inst.error ELSE "CANCELED"]
    BY <1>1 DEF Abort
  <2>2. inst' \in Installs /\ inst'.st = inst.st /\ inst'.seq = inst.seq
    BY <1>0, <2>1 DEF Installs, Errors
  <2> DEFINE b == cal.abort \/ cal.store \notin {"COMMIT_WAIT", "VERIFY", "DONE"}
  <2>3. cal' = [cal EXCEPT !.abort = b] /\ b \in BOOLEAN BY <2>1 DEF AbortStore
  <2> HIDE DEF b
  <2>4. /\ cal' \in Calibrations /\ cal'.abort = b /\ cal'.held = cal.held
        /\ cal'.store = cal.store /\ cal'.target = cal.target /\ cal'.tseq = cal.tseq
        /\ cal'.scan = cal.scan /\ cal'.page = cal.page /\ Runtime
    BY <1>0, <2>3 DEF Calibrations, Runtime
  <2>5. Target' = Target BY <2>4 DEF Runtime, Target
  <2>6. TypeOK' BY <1>0, <2>1, <2>2, <2>4 DEF InstallInv, TypeOK
  <2>7. StoreBusy /\ StoreBusy' BY <1>1, <2>4 DEF InstallInv, Protocol, StoreBusy
  <2>8. Protocol'
    BY <1>0, <1>1, <2>1, <2>2, <2>4, <2>5, <2>7
       DEF InstallInv, Protocol, WorkspaceAccounted, Installing, Runtime, b
  <2>9. Device' BY <1>0, <2>4, <2>5 DEF InstallInv, Device, Runtime
  <2> QED BY <2>6, <2>8, <2>9 DEF InstallInv
<1>2. CASE inst.st # "WRITING"
  <2>1. Finish(cal, "CANCELED") /\ ~cal.abort
    BY <1>2 DEF Abort, InstallInv, Protocol
  <2>2. GivenUp BY <1>0, <2>1, FinishEffect DEF Errors, InstallInv
  <2> QED BY <1>0, <2>2, GivenUpKeeps DEF InstallInv, Device, TypeOK
<1> QED BY <1>1, <1>2

(* install_step. *)
LEMMA SameOrder ==
    ASSUME TypeOK, NEW to, NEW page
    PROVE  [StoreNow EXCEPT !.page = page, !.store = to]
              = [StoreNow EXCEPT !.store = to, !.page = page]
BY StoreNowEffect DEF Calibrations

LEMMA SamePage ==
    ASSUME TypeOK, NEW to
    PROVE  [StoreNow EXCEPT !.store = to] = [StoreNow EXCEPT !.store = to, !.page = cal.page]
BY StoreNowEffect DEF Calibrations

LEMMA GiveUpEffect ==
    ASSUME InstallInv, GiveUp
    PROVE  /\ GivenUp /\ Installing /\ dev' = dev
           /\ UNCHANGED <<capturing, safety, saved, attempts, older>>
<1>1. Installing /\ ~cal.abort /\ cal \in Calibrations
  BY DEF GiveUp, Installing, InstallInv, Protocol, TypeOK
<1>2. Finish(cal, ErrorNow) /\ ErrorNow \in Errors /\ TypeOK
  BY ErrorNowType DEF GiveUp, InstallInv
<1> QED BY <1>1, <1>2, FinishEffect DEF GiveUp, flashVars

LEMMA EraseWaitIs ==
    EraseWait => AwaitOperation("ERASE_WAIT", [StoreNow EXCEPT !.store = "HEADER_START", !.page = 0])
BY DEF EraseWait

LEMMA HeaderWaitIs ==
    ASSUME TypeOK, HeaderWait
    PROVE  AwaitOperation("HEADER_WAIT",
                          [StoreNow EXCEPT !.store = "PAYLOAD_START", !.page = cal.page])
BY SamePage DEF HeaderWait

LEMMA CommitWaitIs ==
    ASSUME TypeOK, CommitWait
    PROVE  AwaitOperation("COMMIT_WAIT", [StoreNow EXCEPT !.store = "VERIFY", !.page = cal.page])
BY SamePage DEF CommitWait

AfterPage == IF cal.page = Pages - 1 THEN "VERIFY_UNCOMMITTED" ELSE "PAYLOAD_START"
LEMMA PayloadWaitIs ==
    ASSUME TypeOK, PayloadWait
    PROVE  AwaitOperation("PAYLOAD_WAIT",
                          [StoreNow EXCEPT !.store = AfterPage, !.page = cal.page + 1])
<1>1. StoreNow \in Calibrations /\ StoreNow.page = cal.page BY StoreNowEffect
<1>2. [StoreNow EXCEPT !.page = @ + 1, !.store = AfterPage]
         = [StoreNow EXCEPT !.store = AfterPage, !.page = cal.page + 1]
  BY <1>1 DEF Calibrations
<1> QED BY <1>2 DEF PayloadWait, AfterPage

LEMMA BusyStatesOfStore ==
    /\ {"ERASE_START", "ERASE_WAIT", "HEADER_START", "HEADER_WAIT", "PAYLOAD_START",
        "PAYLOAD_WAIT", "VERIFY_UNCOMMITTED", "COMMIT_START", "COMMIT_WAIT", "VERIFY"}
          = StoreBusyStates
    /\ StoreBusyStates \subseteq StoreStates
    /\ OpsOfSet = {"ERASE", "HEAD", "PAGE", "LAST", "MARK"}
    /\ 0 \in 0 .. Pages
BY SizeAssumption DEF StoreBusyStates, StoreStates, OpsOfSet

LEMMA EraseStartKeeps == ASSUME InstallInv, EraseStart PROVE InstallInv'
BY StartKeeps, BusyStatesOfStore DEF EraseStart, Paging
LEMMA HeaderStartKeeps == ASSUME InstallInv, HeaderStart PROVE InstallInv'
BY StartKeeps, BusyStatesOfStore DEF HeaderStart, Paging
LEMMA PayloadStartKeeps == ASSUME InstallInv, PayloadStart PROVE InstallInv'
<1>1. (IF cal.page = Pages - 1 THEN "LAST" ELSE "PAGE") \in OpsOfSet BY BusyStatesOfStore
<1> QED BY <1>1, StartKeeps, BusyStatesOfStore DEF PayloadStart, Paging
LEMMA CommitStartKeeps == ASSUME InstallInv, CommitStart PROVE InstallInv'
BY StartKeeps, BusyStatesOfStore DEF CommitStart, Paging
LEMMA EraseWaitKeeps == ASSUME InstallInv, EraseWait PROVE InstallInv'
<1>1. 0 \in 0 .. Pages /\ 0 < Pages BY SizeAssumption
<1>2. AwaitOperation("ERASE_WAIT", [StoreNow EXCEPT !.store = "HEADER_START", !.page = 0])
  BY EraseWaitIs
<1> QED BY <1>1, <1>2, AwaitKeeps, BusyStatesOfStore
LEMMA HeaderWaitKeeps == ASSUME InstallInv, HeaderWait PROVE InstallInv'
<1>1. cal.page \in 0 .. Pages /\ TypeOK BY DEF InstallInv, TypeOK, Calibrations
<1>2. AwaitOperation("HEADER_WAIT", [StoreNow EXCEPT !.store = "PAYLOAD_START", !.page = cal.page])
  BY <1>1, HeaderWaitIs
<1>3. cal.page < Pages
  BY <1>2 DEF AwaitOperation, Stepping, InstallInv, Protocol, Paging
<1> QED BY <1>1, <1>2, <1>3, AwaitKeeps, BusyStatesOfStore
LEMMA CommitWaitKeeps == ASSUME InstallInv, CommitWait PROVE InstallInv'
<1>1. cal.page \in 0 .. Pages /\ TypeOK BY DEF InstallInv, TypeOK, Calibrations
<1> QED BY <1>1, CommitWaitIs, AwaitKeeps, BusyStatesOfStore DEF Paging
LEMMA PayloadWaitKeeps == ASSUME InstallInv, PayloadWait PROVE InstallInv'
<1>1. cal.page \in 0 .. Pages /\ TypeOK BY DEF InstallInv, TypeOK, Calibrations
<1>2. AwaitOperation("PAYLOAD_WAIT",
                     [StoreNow EXCEPT !.store = AfterPage, !.page = cal.page + 1])
  BY <1>1, PayloadWaitIs
<1>3. cal.store = "PAYLOAD_WAIT" /\ cal.page < Pages
  BY <1>2 DEF AwaitOperation, Stepping, InstallInv, Protocol, Paging
<1>4. /\ cal.page + 1 \in 0 .. Pages /\ AfterPage \in StoreBusyStates
      /\ AfterPage # "ERASE_WAIT" /\ (AfterPage \in Paging => cal.page + 1 < Pages)
  BY <1>1, <1>3, SizeAssumption, BusyStatesOfStore DEF AfterPage, Paging
<1> QED BY <1>2, <1>4, AwaitKeeps, BusyStatesOfStore

LEMMA DeviceNow ==
    ASSUME InstallInv
    PROVE  /\ dev.chip.kind # "NONE" =>
                 /\ dev.chip.kind \in OpsOfSet /\ dev.chip.val \in Values
                 /\ dev.chip.slot = Target /\ dev.chip.seq = cal.aseq + 1
           /\ dev.chip.kind = "ERASE" => ~dev.torn
           /\ dev \in Devices
BY DEF InstallInv, Device, TypeOK

(* The reading back before the commit word: piece by piece, of an idle chip. *)
Piece == IF cal.page = Pages THEN 0 ELSE cal.page
AfterPiece == IF Piece = Pages - 1 THEN "COMMIT_START" ELSE "VERIFY_UNCOMMITTED"
LEMMA VerifyUncommittedEffect ==
    ASSUME InstallInv, VerifyUncommitted
    PROVE  /\ inst.st = "WRITING" /\ StoreBusy /\ Installing /\ ~StoreNow.abort
           /\ cal.store = "VERIFY_UNCOMMITTED" /\ dev' = dev
           /\ UNCHANGED <<capturing, safety, saved, attempts, older>>
           /\ Piece + 1 \in 0 .. Pages /\ AfterPiece \in StoreBusyStates
           /\ \/ GivenUp
              \/ GoneOn(AfterPiece, Piece + 1) /\ dev.chip.kind = "NONE" /\ PieceReads(Piece)
<1>1. /\ inst.st = "WRITING" /\ ~StoreNow.abort /\ cal.store = "VERIFY_UNCOMMITTED"
      /\ UNCHANGED <<capturing, safety>> /\ dev' = dev
  BY DEF VerifyUncommitted, Stepping, Stepped
<1>2. StoreBusy /\ Installing
  BY <1>1 DEF StoreBusy, StoreBusyStates, Installing
<1>3. cal.page \in 0 .. Pages /\ TypeOK BY DEF InstallInv, TypeOK, Calibrations
<1>4. Piece + 1 \in 0 .. Pages /\ AfterPiece \in StoreBusyStates /\ AfterPiece \in StoreStates
  BY <1>3, SizeAssumption, BusyStatesOfStore DEF Piece, AfterPiece
<1>5. PICK answer \in ReadAnswers :
        IF Readable(answer) /\ PieceReads(Piece)
        THEN Goes([StoreNow EXCEPT !.page = Piece + 1, !.store = AfterPiece])
        ELSE Fails
  BY DEF VerifyUncommitted, Piece, AfterPiece
<1>6. CASE Readable(answer) /\ PieceReads(Piece)
  <2>1. Goes([StoreNow EXCEPT !.store = AfterPiece, !.page = Piece + 1])
    BY <1>3, <1>5, <1>6, SameOrder
  <2>2. GoneOn(AfterPiece, Piece + 1) BY <1>3, <1>4, <2>1, GoesEffect
  <2> QED BY <1>1, <1>2, <1>4, <1>6, <2>1, <2>2 DEF Goes, Readable
<1>7. CASE ~(Readable(answer) /\ PieceReads(Piece))
  <2>1. Fails BY <1>5, <1>7
  <2> QED BY <1>1, <1>2, <1>3, <1>4, <2>1, FailsEffect DEF Fails
<1> QED BY <1>6, <1>7

LEMMA VerifyUncommittedKeeps == ASSUME InstallInv, VerifyUncommitted PROVE InstallInv'
<1>1. AfterPiece \notin Paging \cup {"ERASE_WAIT", "VERIFY"} BY DEF AfterPiece, Paging
<1> QED BY <1>1, VerifyUncommittedEffect, DeviceNow, GivenUpKeeps, GoneOnKeeps

(* The end that is meant: the set is read back whole, and is the one in use. *)
Installed ==
    /\ cal' \in Calibrations /\ cal'.store = "IDLE" /\ ~cal'.abort /\ ~cal'.held
    /\ cal'.active = cal.scan /\ cal'.aseq = cal.tseq /\ cal'.aslot = cal.target
    /\ inst' \in Installs /\ inst'.st = "INSTALLED" /\ inst'.seq = inst.seq
    /\ owner' = "FREE" /\ image' = NoSet
    /\ saved' = cal.scan /\ attempts' = {} /\ older' = {}
    /\ dev.chip.kind = "NONE" /\ Valid(TargetSector) /\ Holds(TargetSector, cal.tseq, cal.scan)

LEMMA VerifyEffect ==
    ASSUME InstallInv, Verify
    PROVE  /\ inst.st = "WRITING" /\ StoreBusy /\ Installing /\ ~StoreNow.abort
           /\ cal.store = "VERIFY" /\ dev' = dev /\ UNCHANGED <<capturing, safety>>
           /\ \/ GivenUp /\ UNCHANGED <<saved, attempts, older>>
              \/ Installed
<1>1. /\ inst.st = "WRITING" /\ ~StoreNow.abort /\ cal.store = "VERIFY"
      /\ UNCHANGED <<capturing, safety>> /\ dev' = dev
  BY DEF Verify, Stepping, Stepped
<1>2. StoreBusy /\ Installing
  BY <1>1 DEF StoreBusy, StoreBusyStates, Installing
<1>3. TypeOK /\ cal \in Calibrations /\ inst \in Installs BY DEF InstallInv, TypeOK
<1>4. PICK answer \in ReadAnswers :
        IF Readable(answer) /\ Valid(TargetSector) /\ Holds(TargetSector, cal.tseq, cal.scan)
        THEN Activated ELSE Fails
  BY DEF Verify
<1>5. CASE Readable(answer) /\ Valid(TargetSector) /\ Holds(TargetSector, cal.tseq, cal.scan)
  <2>1. Activated BY <1>4, <1>5
  <2>2. /\ inst' \in Installs /\ inst'.st = "INSTALLED" /\ inst'.seq = inst.seq
    BY <1>3, <2>1, InstallStatesApart DEF Activated, InstalledNow, Installs, Errors
  <2>3. cal' = [Activation(cal) EXCEPT !.held = FALSE] BY <2>1 DEF Activated
  <2>4. /\ Activation(cal) \in Calibrations
        /\ Activation(cal).store = "IDLE" /\ ~Activation(cal).abort
        /\ Activation(cal).active = cal.scan /\ Activation(cal).aseq = cal.tseq
        /\ Activation(cal).aslot = cal.target
    <3>1. /\ "IDLE" \in StoreStates /\ "ACTIVATED" \in CandidateStates /\ "A" \in Slots
          /\ 0 \in SequenceNumbers /\ 0 \in 0 .. Pages
      BY InstallStatesApart DEF StoreStates, CandidateStates
    <3> QED BY <1>3, <3>1, NoSetApart DEF Activation, Calibrations
  <2>5. /\ cal' \in Calibrations /\ cal'.store = "IDLE" /\ ~cal'.abort /\ ~cal'.held
        /\ cal'.active = cal.scan /\ cal'.aseq = cal.tseq /\ cal'.aslot = cal.target
    BY <2>3, <2>4 DEF Calibrations
  <2> QED BY <1>1, <1>2, <1>5, <2>1, <2>2, <2>5 DEF Installed, Activated, InstalledNow, Readable
<1>6. CASE ~(Readable(answer) /\ Valid(TargetSector) /\ Holds(TargetSector, cal.tseq, cal.scan))
  <2>1. Fails BY <1>4, <1>6
  <2> QED BY <1>1, <1>2, <1>3, <2>1, FailsEffect DEF Fails
<1> QED BY <1>5, <1>6

LEMMA VerifyKeeps == ASSUME InstallInv, Verify PROVE InstallInv'
<1>1. CASE GivenUp /\ UNCHANGED <<saved, attempts, older>>
  BY <1>1, VerifyEffect, DeviceNow, GivenUpKeeps
<1>2. CASE Installed
  <2>1. cal.scan \in Values /\ inst.seq = cal.tseq /\ cal.scan # NoSet
    BY NoSetApart, VerifyEffect DEF InstallInv, Protocol
  <2>2. TypeOK'
    BY <1>2, <2>1, VerifyEffect, NoSetApart DEF Installed, InstallInv, TypeOK, Sets
  <2>3. Protocol'
    BY <1>2, <2>1 DEF Installed, Protocol, WorkspaceAccounted, Installing, StoreBusy, StoreBusyStates,
        Paging
  <2>4. Device' BY <1>2, VerifyEffect DEF Installed, Device
  <2> QED BY <2>2, <2>3, <2>4 DEF InstallInv
<1> QED BY <1>1, <1>2, VerifyEffect

LEMMA DrainEffect ==
    ASSUME InstallInv, Drain
    PROVE  /\ inst.st = "WRITING" /\ StoreBusy /\ Installing /\ StoreNow.abort
           /\ UNCHANGED <<capturing, safety, saved, attempts, older>> /\ Polling
           /\ \/ GivenUp
              \/ /\ cal.store \in {"ERASE_WAIT", "HEADER_WAIT", "PAYLOAD_WAIT"}
                 /\ GoneOn(cal.store, cal.page) /\ dev' = dev
<1>1. inst.st = "WRITING" /\ StoreNow.abort /\ UNCHANGED <<capturing, safety>>
  BY DEF Drain, Stepped
<1>2. StoreBusy /\ Installing BY <1>1 DEF InstallInv, Protocol, Installing
<1>3. TypeOK /\ dev \in Devices /\ cal.store \in StoreStates
  BY DEF InstallInv, TypeOK, Calibrations
<1>4. CASE cal.store \in {"ERASE_WAIT", "HEADER_WAIT", "PAYLOAD_WAIT"}
  <2>1. PICK a \in Polled(dev) :
          dev' = a.dev /\ IF a.status = "BUSY" THEN GoesTo(cal.store) ELSE Fails
    BY <1>4 DEF Drain
  <2>2. Polling /\ (a.status = "BUSY" => dev' = dev)
    BY <1>3, <2>1, PolledEffect DEF Polling
  <2>3. CASE a.status = "BUSY"
    BY <1>1, <1>2, <1>3, <1>4, <2>1, <2>2, <2>3, GoesToEffect DEF GoesTo, Goes
  <2>4. CASE a.status # "BUSY"
    BY <1>1, <1>2, <1>3, <1>4, <2>1, <2>2, <2>4, FailsEffect DEF Fails
  <2> QED BY <2>3, <2>4
<1>5. CASE cal.store \notin {"ERASE_WAIT", "HEADER_WAIT", "PAYLOAD_WAIT"}
  <2>1. Fails /\ dev' = dev BY <1>5 DEF Drain
  <2> QED BY <1>1, <1>2, <1>3, <2>1, FailsEffect DEF Fails, Polling
<1> QED BY <1>4, <1>5


(* A store that is aborted waits for what is under way.  *)
LEMMA DrainKeeps == ASSUME InstallInv, Drain PROVE InstallInv'
<1>1. CASE GivenUp
  BY <1>1, DrainEffect, DeviceNow, GivenUpKeeps DEF Polling
<1>2. CASE /\ cal.store \in {"ERASE_WAIT", "HEADER_WAIT", "PAYLOAD_WAIT"}
           /\ GoneOn(cal.store, cal.page) /\ dev' = dev
  <2>0. /\ inst.st = "WRITING" /\ StoreBusy /\ StoreNow.abort
        /\ UNCHANGED <<capturing, safety, saved, attempts, older>>
    BY DrainEffect
  <2>1. Target' = Target BY <1>2 DEF GoneOn, Runtime, Target
  <2>2. StoreBusy' /\ (Installing' <=> Installing)
    BY <1>2, <2>0 DEF GoneOn, StoreBusy, Installing
  <2>3. TypeOK' BY <1>2, <2>0 DEF InstallInv, TypeOK, GoneOn
  <2>4. Protocol'
    BY <1>2, <2>0, <2>1, <2>2 DEF InstallInv, Protocol, GoneOn, Runtime, WorkspaceAccounted
  <2>5. Device' BY <1>2, <2>1 DEF InstallInv, Device, GoneOn, Runtime
  <2> QED BY <2>3, <2>4, <2>5 DEF InstallInv
<1> QED BY <1>1, <1>2, DrainEffect

LEMMA StepKeeps == ASSUME InstallInv, Step PROVE InstallInv'
<1>1. CASE GiveUp BY <1>1, GiveUpEffect, DeviceNow, GivenUpKeeps
<1>2. CASE EraseStart BY <1>2, EraseStartKeeps
<1>3. CASE EraseWait BY <1>3, EraseWaitKeeps
<1>4. CASE HeaderStart BY <1>4, HeaderStartKeeps
<1>5. CASE HeaderWait BY <1>5, HeaderWaitKeeps
<1>6. CASE PayloadStart BY <1>6, PayloadStartKeeps
<1>7. CASE PayloadWait BY <1>7, PayloadWaitKeeps
<1>8. CASE VerifyUncommitted BY <1>8, VerifyUncommittedKeeps
<1>9. CASE CommitStart BY <1>9, CommitStartKeeps
<1>10. CASE CommitWait BY <1>10, CommitWaitKeeps
<1>11. CASE Verify BY <1>11, VerifyKeeps
<1>12. CASE Drain BY <1>12, DrainKeeps
<1> QED BY <1>1, <1>2, <1>3, <1>4, <1>5, <1>6, <1>7, <1>8, <1>9, <1>10, <1>11, <1>12 DEF Step

(* What the surroundings do to the record: nothing the protocol knows of.  *)
Outside == Expire \/ SafetyChange \/ CaptureStart \/ CaptureHold \/ CaptureRelease \/ CaptureEnd
LEMMA OutsideEffect ==
    ASSUME InstallInv, Outside
    PROVE  /\ cal' = cal /\ UNCHANGED flashVars
           /\ inst' \in Installs /\ inst'.st = inst.st /\ inst'.seq = inst.seq
           /\ (owner' = "STORE" <=> owner = "STORE")
           /\ owner' \in {"FREE", "STORE", "METROLOGY"} /\ image' \in Images
           /\ capturing' \in BOOLEAN /\ safety' \in Safeties
<1>1. TypeOK /\ inst \in Installs BY DEF InstallInv, TypeOK
<1>2. CASE Expire
  <2>1. inst' = [inst EXCEPT !.late = TRUE] BY <1>2 DEF Expire
  <2>2. inst' \in Installs /\ inst'.st = inst.st /\ inst'.seq = inst.seq
    BY <1>1, <2>1 DEF Installs
  <2> QED BY <1>1, <1>2, <2>2 DEF Expire, TypeOK
<1>3. CASE SafetyChange BY <1>1, <1>3 DEF SafetyChange, TypeOK
<1>4. CASE CaptureStart BY <1>1, <1>4 DEF CaptureStart, TypeOK
<1>5. CASE CaptureHold BY <1>1, <1>5 DEF CaptureHold, TypeOK, Images
<1>6. CASE CaptureRelease BY <1>1, <1>6, NoSetApart DEF CaptureRelease, TypeOK
<1>7. CASE CaptureEnd BY <1>1, <1>7 DEF CaptureEnd, TypeOK
<1> QED BY <1>2, <1>3, <1>4, <1>5, <1>6, <1>7 DEF Outside

LEMMA OutsideKeeps == ASSUME InstallInv, Outside PROVE InstallInv'
<1>1. TypeOK' BY OutsideEffect DEF InstallInv, TypeOK, flashVars
<1>2. Protocol'
  BY OutsideEffect DEF InstallInv, Protocol, WorkspaceAccounted, Installing, StoreBusy, Target,
     flashVars
<1>3. Device' BY OutsideEffect DEF InstallInv, Device, Target, flashVars
<1> QED BY <1>1, <1>2, <1>3 DEF InstallInv

LEMMA ChipDoneEffect ==
    ASSUME InstallInv, ChipDone
    PROVE  /\ UNCHANGED <<inst, cal, owner, image, capturing, safety, saved, attempts, older>>
           /\ dev' \in Devices /\ dev'.chip.kind = "NONE" /\ ~dev'.torn
           /\ (dev'.pending <=> dev.pending) /\ dev.chip.kind \in OpsOfSet
           /\ dev'.slots \in [Slots -> Sectors]
           /\ \A x \in Slots \ {Target} : dev'.slots[x] = dev.slots[x]
           /\ dev.chip.slot = Target
           /\ Altered(dev'.slots[Target], dev.slots[Target], dev.chip)
           /\ dev.chip.kind = "ERASE" => dev'.slots[Target] = Blank
<1>1. dev.chip.kind \in OpsOfSet /\ dev.chip.val \in Values /\ dev.chip.slot = Target
      /\ dev \in Devices
  BY DEF ChipDone, InstallInv, Device, TypeOK
<1>2. PICK slots \in AfterOperation(dev) :
        dev' = [dev EXCEPT !.slots = slots, !.chip = Idle, !.torn = FALSE]
  BY DEF ChipDone
<1>3. /\ slots \in [Slots -> Sectors]
      /\ \A x \in Slots \ {Target} : slots[x] = dev.slots[x]
      /\ Altered(slots[Target], dev.slots[Target], dev.chip)
      /\ dev.chip.kind = "ERASE" => slots[Target] = Blank
  <2>1. dev.chip.kind = "ERASE" => ~dev.torn BY DeviceNow
  <2> QED BY <1>1, <1>2, <2>1, ChipEffect
<1>4. Idle \in Operations /\ Idle.kind = "NONE"
  BY FlashAssumption DEF Idle, Operations, OpKinds, Slots, SequenceNumbers
<1>5. /\ dev' \in Devices /\ dev'.slots = slots /\ dev'.chip = Idle /\ ~dev'.torn
      /\ (dev'.pending <=> dev.pending)
  BY <1>1, <1>2, <1>3, <1>4 DEF Devices
<1> QED BY <1>1, <1>3, <1>4, <1>5 DEF ChipDone

LEMMA ChipDoneKeeps == ASSUME InstallInv, ChipDone PROVE InstallInv'
<1>1. TypeOK' BY ChipDoneEffect DEF InstallInv, TypeOK
<1>2. Protocol'
  BY ChipDoneEffect
     DEF InstallInv, Protocol, WorkspaceAccounted, Installing, StoreBusy, Target
<1>3. dev'.chip.kind # "ERASE" BY ChipDoneEffect
<1>4. Device' BY <1>3, ChipDoneEffect DEF InstallInv, Device, Target
<1> QED BY <1>1, <1>2, <1>4 DEF InstallInv

(* What a reboot loads, of whatever it could read. *)
LEMMA LoadedEffect ==
    ASSUME NEW slots \in [Slots -> Sectors], NEW readable \in SUBSET Slots
    PROVE  /\ Loaded(slots, readable) \in Calibrations
           /\ Loaded(slots, readable).store = "IDLE" /\ ~Loaded(slots, readable).abort
           /\ ~Loaded(slots, readable).held
           /\ LET slot == Chosen(slots, readable)
              IN  /\ slot \in {"A", "B", "NONE"}
                  /\ slot # "NONE" => /\ slot \in readable /\ Valid(slots[slot])
                                      /\ Loaded(slots, readable).active = slots[slot].head
                                      /\ Loaded(slots, readable).aseq = slots[slot].seq
                                      /\ Loaded(slots, readable).aslot = slot
                  /\ slot = "NONE" => /\ Loaded(slots, readable).active = NoSet
                                      /\ Loaded(slots, readable).aseq = 0
                                      /\ Loaded(slots, readable).aslot = "A"
<1> DEFINE slot == Chosen(slots, readable)
           active == IF slot = "NONE" THEN NoSet ELSE slots[slot].head
           aseq == IF slot = "NONE" THEN 0 ELSE slots[slot].seq
           aslot == IF slot = "NONE" THEN "A" ELSE slot
<1>1. /\ slot \in {"A", "B", "NONE"}
      /\ slot # "NONE" => slot \in readable /\ Valid(slots[slot])
  BY DEF Chosen
<1>2. Loaded(slots, readable) =
        [cand |-> "NONE", held |-> FALSE, scan |-> NoSet, store |-> "IDLE", abort |-> FALSE,
         target |-> "A", tseq |-> 0, page |-> 0, active |-> active, aseq |-> aseq, aslot |-> aslot]
  BY DEF Loaded
<1>3. active \in Sets /\ aseq \in SequenceNumbers /\ aslot \in Slots
  <2>1. CASE slot = "NONE" BY <2>1, NoSetApart, InstallStatesApart
  <2>2. CASE slot # "NONE"
    <3>1. slot \in Slots /\ slots[slot] \in Sectors /\ slots[slot].head \in Values
      BY <1>1, <2>2 DEF Valid
    <3> QED BY <2>2, <3>1 DEF Sectors, Sets
  <2> QED BY <2>1, <2>2
<1>4. /\ "NONE" \in CandidateStates /\ NoSet \in Sets /\ "IDLE" \in StoreStates
      /\ "A" \in Slots /\ 0 \in SequenceNumbers /\ 0 \in 0 .. Pages
  BY NoSetApart, InstallStatesApart DEF StoreStates, CandidateStates
<1> HIDE DEF active, aseq, aslot
<1>5. /\ Loaded(slots, readable) \in Calibrations
      /\ Loaded(slots, readable).store = "IDLE" /\ ~Loaded(slots, readable).abort
      /\ ~Loaded(slots, readable).held
      /\ Loaded(slots, readable).active = active /\ Loaded(slots, readable).aseq = aseq
      /\ Loaded(slots, readable).aslot = aslot
  BY <1>2, <1>3, <1>4 DEF Calibrations
<1> QED BY <1>1, <1>5 DEF active, aseq, aslot

LEMMA PowerLossEffect ==
    ASSUME InstallInv, PowerLoss
    PROVE  /\ inst' = NoInstall /\ owner' = "FREE" /\ image' = NoSet /\ capturing' = FALSE
           /\ safety' = safety /\ attempts' = {} /\ older' = {}
           /\ dev' \in Devices /\ dev'.chip.kind = "NONE" /\ ~dev'.pending
           /\ dev'.slots \in [Slots -> Sectors]
           /\ \A x \in Slots \ {Target} : dev'.slots[x] = dev.slots[x]
           /\ dev.chip.kind = "NONE" => dev'.slots = dev.slots
           /\ dev.chip.kind # "NONE" =>
                 Altered(dev'.slots[Target], dev.slots[Target], dev.chip)
           /\ saved' = Restored(dev'.slots, NoSet)
           /\ \E readable \in SUBSET Slots :
                 /\ cal' = Loaded(dev'.slots, readable)
                 /\ "BOOT_READ" \notin Failures => readable = Slots
<1>1. PICK slots \in AfterPowerLoss(dev) :
        /\ dev' = Fresh(slots)
        /\ \E readable \in IF "BOOT_READ" \in Failures THEN SUBSET Slots ELSE {Slots} :
              cal' = Loaded(slots, readable)
        /\ saved' = Restored(slots, NoSet)
  BY DEF PowerLoss
<1>2. /\ slots \in [Slots -> Sectors]
      /\ \A x \in Slots \ {dev.chip.slot} : slots[x] = dev.slots[x]
      /\ dev.chip.kind = "NONE" => slots = dev.slots
      /\ dev.chip.kind # "NONE" =>
            Altered(slots[dev.chip.slot], dev.slots[dev.chip.slot], dev.chip)
  <2>1. /\ dev \in Devices /\ dev.chip.kind \in OpsOfSet \cup {"NONE"}
        /\ dev.chip.kind \in OpsOfSet => dev.chip.val \in Values
    BY DEF InstallInv, Device, TypeOK, OpsOfSet
  <2> QED BY <1>1, <2>1, PowerEffect
<1>3. dev.chip.kind # "NONE" => dev.chip.slot = Target BY DEF InstallInv, Device
<1>4. dev' \in Devices /\ dev'.slots = slots /\ dev'.chip.kind = "NONE" /\ ~dev'.pending
  BY <1>1, <1>2, FreshDevice
<1>5. \E readable \in SUBSET Slots :
        /\ cal' = Loaded(slots, readable)
        /\ "BOOT_READ" \notin Failures => readable = Slots
  BY <1>1
<1>6. UNCHANGED safety /\ inst' = NoInstall /\ owner' = "FREE" /\ image' = NoSet
      /\ capturing' = FALSE /\ attempts' = {} /\ older' = {}
  BY DEF PowerLoss
<1>7. /\ \A x \in Slots \ {Target} : slots[x] = dev.slots[x]
      /\ dev.chip.kind # "NONE" => Altered(slots[Target], dev.slots[Target], dev.chip)
  BY <1>2, <1>3
<1> QED BY <1>1, <1>2, <1>4, <1>5, <1>6, <1>7

LEMMA PowerLossKeeps == ASSUME InstallInv, PowerLoss PROVE InstallInv'
<1>1. PICK readable \in SUBSET Slots : cal' = Loaded(dev'.slots, readable) BY PowerLossEffect
<1>2. dev'.slots \in [Slots -> Sectors] BY PowerLossEffect
<1>3. /\ cal' \in Calibrations /\ cal'.store = "IDLE" /\ ~cal'.abort /\ ~cal'.held
      /\ cal'.active = NoSet => cal'.aslot = "A" /\ cal'.aseq = 0
  <2> DEFINE slot == Chosen(dev'.slots, readable)
  <2>1. CASE slot = "NONE" BY <1>1, <1>2, <2>1, LoadedEffect
  <2>2. CASE slot # "NONE"
    <3>1. Valid(dev'.slots[slot]) /\ cal'.active = dev'.slots[slot].head
      BY <1>1, <1>2, <2>2, LoadedEffect
    <3>2. cal'.active # NoSet BY <3>1, NoSetApart DEF Valid
    <3> QED BY <1>1, <1>2, <3>2, LoadedEffect
  <2> QED BY <2>1, <2>2
<1>4. inst' \in Installs /\ inst'.st = "IDLE"
  <2>1. inst' = [st |-> "IDLE", error |-> "OK", seq |-> 0, received |-> 0, late |-> FALSE]
    BY PowerLossEffect DEF NoInstall
  <2> QED BY <2>1, InstallStatesApart DEF Installs, Errors
<1>5. saved' \in Sets
  <2>1. PICK slot \in {"A", "B", "NONE"} :
          /\ saved' = (IF slot = "NONE" THEN NoSet ELSE dev'.slots[slot].head)
          /\ slot # "NONE" => Valid(dev'.slots[slot])
    <3>1. /\ Chosen(dev'.slots, Slots) \in {"A", "B", "NONE"}
          /\ Chosen(dev'.slots, Slots) # "NONE" => Valid(dev'.slots[Chosen(dev'.slots, Slots)])
      BY DEF Chosen
    <3>2. saved' = (IF Chosen(dev'.slots, Slots) = "NONE" THEN NoSet
                    ELSE dev'.slots[Chosen(dev'.slots, Slots)].head)
      BY PowerLossEffect DEF Restored
    <3> QED BY <3>1, <3>2
  <2> QED BY <2>1, NoSetApart DEF Valid, Sets
<1>6. TypeOK'
  <2>1. /\ owner' = "FREE" /\ image' = NoSet /\ capturing' = FALSE /\ safety' = safety
        /\ attempts' = {} /\ older' = {} /\ dev' \in Devices
    BY PowerLossEffect
  <2> QED BY <1>3, <1>4, <1>5, <2>1, NoSetApart DEF TypeOK, InstallInv
<1>7. Protocol'
  BY <1>3, <1>4, PowerLossEffect DEF Protocol, WorkspaceAccounted, Installing, StoreBusy,
     StoreBusyStates, Paging
<1>8. Device' BY <1>3, PowerLossEffect DEF Device
<1> QED BY <1>6, <1>7, <1>8 DEF InstallInv

LEMMA InstallNext == InstallInv /\ [Next]_vars => InstallInv'
<1> SUFFICES ASSUME InstallInv, [Next]_vars PROVE InstallInv' OBVIOUS
<1>1. CASE Begin BY <1>1, BeginKeeps
<1>2. CASE \E v \in Values \cup {"MIXED"} : Chunk(v) BY <1>2, ChunkKeeps
<1>3. CASE Validate BY <1>3, ValidateKeeps
<1>4. CASE Commit BY <1>4, CommitKeeps
<1>5. CASE Abort BY <1>5, AbortKeeps
<1>6. CASE Step BY <1>6, StepKeeps
<1>7. CASE Outside BY <1>7, OutsideKeeps
<1>8. CASE ChipDone BY <1>8, ChipDoneKeeps
<1>9. CASE PowerLoss BY <1>9, PowerLossKeeps
<1>10. CASE UNCHANGED vars
  BY <1>10 DEF vars, InstallInv, TypeOK, Protocol, Device, WorkspaceAccounted, Installing,
     StoreBusy, Target
<1> QED BY <1>1, <1>2, <1>3, <1>4, <1>5, <1>6, <1>7, <1>8, <1>9, <1>10 DEF Next, Outside

LEMMA InstallAlways == Spec => []InstallInv
BY InstallInit, InstallNext, PTL DEF Spec

(* The variables of an installation keep their types. *)
THEOREM InstallTypeCorrect == Spec => []TypeOK
<1>1. InstallInv => TypeOK BY DEF InstallInv
<1> QED BY <1>1, InstallAlways, PTL

(* The workspace is the store's exactly while an installation is under     *)
(* way: however it ends, by the PC, by time, by the evidence, by the flash *)
(* or by a reboot, a capture gets the workspace back.                      *)
THEOREM InstallWorkspaceReturned == Spec => []WorkspaceAccounted
<1>1. InstallInv => WorkspaceAccounted BY DEF InstallInv, Protocol
<1> QED BY <1>1, InstallAlways, PTL

(***************************************************************************)
(* What a step may do to the flash.                                        *)
(***************************************************************************)
LEMMA StartIsSafe ==
    ASSUME NEW st \in StoreBusyStates \ {"COMMIT_WAIT", "VERIFY"}, NEW next, NEW kind,
           StartOperation(st, next, kind)
    PROVE  safety = "SAFE"
<1>1. cal.store = st /\ ~StoreNow.abort /\ st \notin {"COMMIT_WAIT", "VERIFY", "DONE"}
  BY BusyStatesOfStore DEF StartOperation, Stepping
<1>2. ASSUME Blocked PROVE FALSE
  <2>1. (cal.abort \/ cal.store \notin {"COMMIT_WAIT", "VERIFY", "DONE"}) = TRUE BY <1>1
  <2>2. StoreNow = [cal EXCEPT !.abort = TRUE] BY <1>2, <2>1 DEF StoreNow, AbortStore
  <2> QED BY <1>1, <2>2
<1> QED BY <1>2 DEF Blocked

(* Each start is one of the store's, in the state that comes before.       *)
Starts ==
    {<<"ERASE_START", "ERASE_WAIT", "ERASE">>, <<"HEADER_START", "HEADER_WAIT", "HEAD">>,
     <<"PAYLOAD_START", "PAYLOAD_WAIT", "PAGE">>, <<"PAYLOAD_START", "PAYLOAD_WAIT", "LAST">>,
     <<"COMMIT_START", "COMMIT_WAIT", "MARK">>}

LEMMA StoreStarts ==
    ASSUME EraseStart \/ HeaderStart \/ PayloadStart \/ CommitStart
    PROVE  \E start \in Starts : StartOperation(start[1], start[2], start[3])
<1>1. CASE EraseStart BY <1>1 DEF EraseStart, Starts
<1>2. CASE HeaderStart BY <1>2 DEF HeaderStart, Starts
<1>3. CASE PayloadStart BY <1>3 DEF PayloadStart, Starts
<1>4. CASE CommitStart BY <1>4 DEF CommitStart, Starts
<1> QED BY <1>1, <1>2, <1>3, <1>4

LEMMA StartFacts ==
    ASSUME NEW start \in Starts
    PROVE  /\ start[1] \in StoreBusyStates \ {"COMMIT_WAIT", "VERIFY"}
           /\ start[2] \in StoreBusyStates /\ start[3] \in OpsOfSet
           /\ start[2] \in StoreStates
BY BusyStatesOfStore DEF Starts

LEMMA FlashEffect ==
    ASSUME InstallInv, [Next]_vars, ~ChipDone, ~PowerLoss
    PROVE  /\ dev'.slots = dev.slots
           /\ dev'.chip # dev.chip => safety = "SAFE"
<1>1. CASE EraseStart \/ HeaderStart \/ PayloadStart \/ CommitStart
  <2>1. PICK start \in Starts : StartOperation(start[1], start[2], start[3])
    BY <1>1, StoreStarts
  <2>2. safety = "SAFE" BY <2>1, StartFacts, StartIsSafe
  <2>3. Commanding(start[3]) BY <2>1, StartFacts, StartOperationEffect
  <2> QED BY <2>2, <2>3 DEF Commanding, Issued
<1>2. CASE EraseWait \/ HeaderWait \/ PayloadWait \/ CommitWait \/ Drain
  <2>1. (\E a \in Polled(dev) : dev' = a.dev) \/ dev' = dev
    BY <1>2 DEF EraseWait, HeaderWait, PayloadWait, CommitWait, AwaitOperation, Drain
  <2>2. dev \in Devices BY DEF InstallInv, TypeOK
  <2>3. dev'.slots = dev.slots /\ dev'.chip = dev.chip
    BY <2>1, <2>2, PolledEffect
  <2> QED BY <2>3
<1>3. CASE dev' = dev BY <1>3
<1>4. CASE Step
  BY <1>1, <1>2, <1>3, <1>4 DEF Step, GiveUp, VerifyUncommitted, Verify, flashVars
<1>5. CASE Outside
  BY <1>3, <1>5 DEF Outside, Expire, SafetyChange, CaptureStart, CaptureHold, CaptureRelease,
     CaptureEnd, flashVars
<1> QED BY <1>3, <1>4, <1>5
        DEF Next, Outside, vars, Begin, Chunk, Validate, Commit, Abort, flashVars

(* Whatever is written, torn or interrupted, and whatever a boot could     *)
(* read: no step changes a bit of the slot whose set is in use.            *)
THEOREM InstallActiveSlot == Spec => ActiveSlotUntouched
<1>1. ASSUME InstallInv, [Next]_vars, cal.active # NoSet
      PROVE  dev'.slots[cal.aslot] = dev.slots[cal.aslot]
  <2>1. cal.aslot \in Slots \ {Target}
    BY <1>1, TargetSpares DEF InstallInv, TypeOK, Calibrations
  <2>2. CASE ChipDone BY <1>1, <2>1, <2>2, ChipDoneEffect
  <2>3. CASE PowerLoss BY <1>1, <2>1, <2>3, PowerLossEffect
  <2>4. CASE ~ChipDone /\ ~PowerLoss BY <1>1, <2>4, FlashEffect
  <2> QED BY <2>2, <2>3, <2>4
<1> QED BY <1>1, InstallAlways, PTL DEF Spec, ActiveSlotUntouched

(* The chip is given a command only while the evidence is SAFE: every      *)
(* start of the store is preceded, in the same pass, by the test that      *)
(* aborts it otherwise.                                                    *)
THEOREM InstallNoUnsafeCommand == Spec => NoUnsafeCommand
<1>1. ASSUME InstallInv, [Next]_vars, dev'.chip # dev.chip, dev'.chip.kind # "NONE"
      PROVE  safety = "SAFE"
  <2>1. CASE ChipDone BY <1>1, <2>1, ChipDoneEffect
  <2>2. CASE PowerLoss BY <1>1, <2>2, PowerLossEffect
  <2>3. CASE ~ChipDone /\ ~PowerLoss BY <1>1, <2>3, FlashEffect
  <2> QED BY <2>1, <2>2, <2>3
<1> QED BY <1>1, InstallAlways, PTL DEF Spec, NoUnsafeCommand

(***************************************************************************)
(* What the sectors hold.  It needs a flash whose checksum tells bytes     *)
(* programmed over others from a set, and boots that can read both slots:  *)
(* a boot that cannot read the slot in use takes the other one for the     *)
(* set in use, and writes over the first.                                  *)
(***************************************************************************)
Dependable == {"BOOT_READ", "CHANCE"} \cap Failures = {}

(* The slot an installation writes when the runtime is that of c. *)
To(c) == IF c.active # NoSet /\ c.aslot = "A" THEN "B" ELSE "A"

(* The sectors hold the set in use; what the other slot holds is older by  *)
(* one, or newer by one: then a reboot takes it.                           *)
Kept(c, slots) ==
    /\ IF c.active = NoSet THEN slots["B"] = Blank
       ELSE /\ Valid(slots[c.aslot])
            /\ slots[c.aslot].head = c.active /\ slots[c.aslot].seq = c.aseq
    /\ slots[To(c)].head \in Values => slots[To(c)].seq \in {c.aseq - 1, c.aseq + 1}
Renewed(c, slots) == Valid(slots[To(c)]) /\ slots[To(c)].seq = c.aseq + 1

LEMMA NewerByOne ==
    ASSUME NEW seq \in SequenceNumbers
    PROVE  /\ Newer(seq + 1, seq) /\ ~Newer(seq, seq + 1)
           /\ ~Newer(seq - 1, seq) /\ Newer(seq, seq - 1)
<1>1. SequenceModulus \in Nat /\ SequenceModulus > 3 /\ seq \in Int
  BY FlashAssumption DEF SequenceNumbers
<1>2. (seq + 1) - seq = 1 /\ seq - (seq + 1) = -1 /\ (seq - 1) - seq = -1 /\ seq - (seq - 1) = 1
  BY <1>1
<1>3. 1 % SequenceModulus = 1 /\ (-1) % SequenceModulus = SequenceModulus - 1
  BY <1>1
<1>4. 1 < SequenceModulus \div 2 /\ ~(SequenceModulus - 1 < SequenceModulus \div 2)
  BY <1>1
<1>5. seq + 1 # seq /\ seq - 1 # seq BY <1>1
<1> QED BY <1>2, <1>3, <1>4, <1>5 DEF Newer

(* The two slots, whichever is in use. *)
LEMMA TwoSlots ==
    ASSUME NEW c \in Calibrations, c.active = NoSet => c.aslot = "A"
    PROVE  /\ To(c) \in {"A", "B"} /\ c.aslot \in {"A", "B"} /\ Slots = {"A", "B"}
           /\ c.active = NoSet => To(c) = "A" /\ c.aslot = "A"
           /\ c.active # NoSet => (c.aslot = "A" <=> To(c) = "B") /\ To(c) # c.aslot
BY DEF To, Calibrations, Slots

LEMMA ChosenIs ==
    ASSUME NEW c \in Calibrations, c.active = NoSet => c.aslot = "A" /\ c.aseq = 0,
           NEW slots \in [Slots -> Sectors], Kept(c, slots)
    PROVE  Chosen(slots, Slots) = IF Renewed(c, slots) THEN To(c)
                                  ELSE IF c.active = NoSet THEN "NONE" ELSE c.aslot
<1> DEFINE to == To(c)
<1>1. c.aseq \in SequenceNumbers /\ c.aseq \in Int /\ c.aseq >= 0
  BY FlashAssumption DEF Calibrations, SequenceNumbers
<1>2. slots["A"] \in Sectors /\ slots["B"] \in Sectors BY DEF Slots
<1>3. Valid(slots[to]) => slots[to].seq \in {c.aseq - 1, c.aseq + 1}
  BY DEF Kept, Valid
<1>4. to \in {"A", "B"} /\ Slots = {"A", "B"} BY TwoSlots
<1>5. CASE c.active = NoSet
  <2>1. to = "A" /\ c.aseq = 0 BY <1>5, TwoSlots
  <2>2. ~Valid(slots["B"])
    BY <1>5, BlankFields, CellsApart DEF Kept, Valid
  <2>3. slots["A"].seq >= 0 BY <1>2, FlashAssumption DEF Sectors, SequenceNumbers
  <2>4. Valid(slots["A"]) <=> Renewed(c, slots)
    BY <1>3, <2>1, <2>3 DEF Renewed
  <2> QED BY <1>4, <1>5, <2>1, <2>2, <2>4 DEF Chosen
<1>6. CASE c.active # NoSet /\ c.aslot = "A"
  <2>1. to = "B" /\ Valid(slots["A"]) /\ slots["A"].seq = c.aseq
    BY <1>6, TwoSlots DEF Kept
  <2>2. Valid(slots["B"]) /\ Newer(slots["B"].seq, slots["A"].seq) <=> Renewed(c, slots)
    <3>1. CASE slots["B"].seq = c.aseq + 1
      BY <1>1, <2>1, <3>1, NewerByOne DEF Renewed
    <3>2. CASE slots["B"].seq = c.aseq - 1
      BY <1>1, <2>1, <3>2, NewerByOne DEF Renewed
    <3> QED BY <1>3, <2>1, <3>1, <3>2 DEF Renewed
  <2> QED BY <1>4, <1>6, <2>1, <2>2 DEF Chosen
<1>7. CASE c.active # NoSet /\ c.aslot = "B"
  <2>1. to = "A" /\ Valid(slots["B"]) /\ slots["B"].seq = c.aseq
    BY <1>7, TwoSlots DEF Kept
  <2>2. Valid(slots["A"]) /\ ~Newer(slots["B"].seq, slots["A"].seq) <=> Renewed(c, slots)
    <3>1. CASE slots["A"].seq = c.aseq + 1
      BY <1>1, <2>1, <3>1, NewerByOne DEF Renewed
    <3>2. CASE slots["A"].seq = c.aseq - 1
      BY <1>1, <2>1, <3>2, NewerByOne DEF Renewed
    <3> QED BY <1>3, <2>1, <3>1, <3>2 DEF Renewed
  <2> QED BY <1>4, <1>7, <2>1, <2>2 DEF Chosen
<1> QED BY <1>5, <1>6, <1>7, TwoSlots

(* What a reboot finds: the set in use, or the one that follows it. *)
LEMMA RestoredIs ==
    ASSUME NEW c \in Calibrations, c.active = NoSet => c.aslot = "A" /\ c.aseq = 0,
           NEW slots \in [Slots -> Sectors], Kept(c, slots)
    PROVE  Restored(slots, NoSet) = IF Renewed(c, slots) THEN slots[To(c)].head ELSE c.active
<1>1. c.active # NoSet => c.aslot # "NONE" /\ slots[c.aslot].head = c.active
  BY TwoSlots DEF Kept
<1>2. To(c) # "NONE" BY DEF To
<1> QED BY <1>1, <1>2, ChosenIs DEF Restored

(* The runtime moves to the new set, by a reboot or by its verification.   *)
LEMMA RenewedKept ==
    ASSUME NEW c \in Calibrations, c.active = NoSet => c.aslot = "A" /\ c.aseq = 0,
           NEW slots \in [Slots -> Sectors], Kept(c, slots), Renewed(c, slots),
           NEW d \in Calibrations, d.active = slots[To(c)].head,
           d.aseq = slots[To(c)].seq, d.aslot = To(c)
    PROVE  Kept(d, slots) /\ ~Renewed(d, slots)
<1>1. d.active # NoSet /\ d.aseq = c.aseq + 1 /\ Valid(slots[d.aslot])
  BY NoSetApart DEF Renewed, Valid
<1>2. c.aseq \in Int BY FlashAssumption DEF Calibrations, SequenceNumbers
<1>3. To(d) \in {"A", "B"} /\ To(d) # To(c) BY <1>1, TwoSlots
<1>4. CASE c.active = NoSet
  <2>1. To(d) = "B" /\ slots["B"] = Blank BY <1>3, <1>4, TwoSlots DEF Kept
  <2>2. slots[To(d)].head \notin Values BY <2>1, BlankFields, CellsApart
  <2> QED BY <1>1, <2>2 DEF Kept, Renewed, Valid
<1>5. CASE c.active # NoSet
  <2>1. To(d) = c.aslot BY <1>3, <1>5, TwoSlots
  <2>2. slots[To(d)].seq = d.aseq - 1 BY <1>1, <1>2, <1>5, <2>1 DEF Kept
  <2> QED BY <1>1, <1>2, <2>2 DEF Kept, Renewed
<1> QED BY <1>4, <1>5

(* A commit word stands over a header and a body that were written: what   *)
(* is programmed later cannot complete a set under it.                     *)
Sound(s) == s.mark = "COMMITTED" => {s.head, s.body} \cap {"ERASED", "PART"} = {}
Spare == dev.slots[Target]

Book ==
    /\ saved = cal.active
    /\ Kept(cal, dev.slots)
    /\ Renewed(cal, dev.slots) => Spare.head \in attempts

(* Nothing but an erase goes to a slot that was not erased before.         *)
AfterErase ==
    {"HEADER_START", "HEADER_WAIT", "PAYLOAD_START", "PAYLOAD_WAIT", "VERIFY_UNCOMMITTED",
     "COMMIT_START", "COMMIT_WAIT", "VERIFY"}
Erased ==
    /\ dev.pending => dev.chip.kind = "ERASE" \/ Sound(Spare)
    /\ dev.chip.kind \notin {"NONE", "ERASE"} => Sound(Spare)
    /\ cal.store \in AfterErase => Sound(Spare) /\ dev.chip.kind # "ERASE"

(* The commit word goes out for the very set that was read back, from a    *)
(* chip that was at rest; what is still under way of an earlier commit is  *)
(* an older attempt.                                                       *)
Written ==
    /\ Spare.head = cal.scan /\ Spare.seq = cal.tseq /\ Spare.mark = "ERASED"
    /\ dev.chip.kind = "NONE"
MarkDue ==
    /\ Spare.head = dev.chip.val /\ Spare.body = dev.chip.val /\ Spare.seq = cal.aseq + 1
    /\ dev.chip.val \in attempts
    /\ StoreBusy /\ cal.store \notin {"COMMIT_WAIT", "VERIFY"} => dev.chip.val \in older
Verified ==
    /\ cal.store = "VERIFY_UNCOMMITTED" => cal.page # 0 /\ (cal.page < Pages => Written)
    /\ cal.store = "COMMIT_START" => Written /\ Spare.body = cal.scan
    /\ dev.chip.kind = "MARK" => MarkDue
    /\ StoreBusy => cal.scan \in attempts

Content == Book /\ Erased /\ Verified

LEMMA TargetIsTo == Target = To(cal)
BY DEF Target, To

LEMMA ContentInit == Init => Content
<1> SUFFICES ASSUME Init PROVE Content OBVIOUS
<1>0. InstallInv BY InstallInit
<1>1. /\ dev.slots = [x \in Slots |-> Blank] /\ dev.chip.kind = "NONE" /\ ~dev.pending
  <2>1. [x \in Slots |-> Blank] \in [Slots -> Sectors] BY BlankFields
  <2> QED BY <2>1, FreshDevice DEF Init
<1>2. dev.slots["A"] = Blank /\ dev.slots["B"] = Blank BY <1>1, InstallStatesApart
<1>3. ~Valid(Blank) /\ Blank.head \notin Values BY BlankFields, CellsApart DEF Valid
<1>4. cal = Loaded(dev.slots, Slots) /\ saved = NoSet BY DEF Init
<1>5. Chosen(dev.slots, Slots) = "NONE" BY <1>2, <1>3, InstallStatesApart DEF Chosen
<1>6. cal.active = NoSet /\ cal.store = "IDLE" /\ To(cal) \in {"A", "B"}
  BY <1>4, <1>5 DEF Loaded, To
<1>7. Book BY <1>2, <1>3, <1>4, <1>6 DEF Book, Kept, Renewed
<1>8. Erased /\ Verified
  BY <1>1, <1>6 DEF Erased, Verified, AfterErase, StoreBusy, StoreBusyStates
<1> QED BY <1>7, <1>8 DEF Content

(* Nothing happens to the flash, nor to what is being written. *)
LEMMA QuietKeeps ==
    ASSUME InstallInv, Content, UNCHANGED <<dev, saved, attempts, older>>, Runtime,
           cal'.store = cal.store,
           StoreBusy => cal'.scan = cal.scan /\ cal'.tseq = cal.tseq /\ cal'.page = cal.page
    PROVE  Content'
<1>1. Target' = Target /\ (StoreBusy' <=> StoreBusy) BY DEF Runtime, Target, StoreBusy
<1>2. Book'
  BY <1>1 DEF Content, Book, Kept, Renewed, To, Runtime, Spare
<1>3. Erased' BY <1>1 DEF Content, Erased, Spare
<1>4. Verified'
  BY <1>1 DEF Content, Verified, Written, MarkDue, Spare, StoreBusy, StoreBusyStates, Runtime
<1> QED BY <1>2, <1>3, <1>4 DEF Content

(* The driver is told, or asked, and the store goes on, or gives up.       *)
LEMMA BookSame ==
    ASSUME Book, Runtime, dev'.slots = dev.slots, UNCHANGED <<saved, attempts>>
    PROVE  Book' /\ Spare' = Spare /\ Target' = Target
<1>1. Target' = Target BY DEF Runtime, Target
<1> QED BY <1>1 DEF Book, Kept, Renewed, To, Runtime, Spare

LEMMA PollingContent ==
    ASSUME InstallInv, Content, StoreBusy, Installing, Polling,
           UNCHANGED <<saved, attempts, older>>, NEW to \in StoreBusyStates, NEW page,
           GivenUp \/ GoneOn(to, page),
           to \in AfterErase => /\ cal.store \in AfterErase \/ Sound(Spare)
                                /\ dev.chip.kind # "ERASE",
           to = "VERIFY_UNCOMMITTED" => page # 0 /\ (page < Pages => Written),
           to = "COMMIT_START" => Written /\ Spare.body = cal.scan,
           cal.store \in {"COMMIT_WAIT", "VERIFY"} => to \in {"COMMIT_WAIT", "VERIFY"}
    PROVE  Content'
<1>0. Runtime BY DEF GivenUp, GoneOn
<1>1. Book' /\ Spare' = Spare /\ Target' = Target
  BY <1>0, BookSame DEF Content, Polling
<1>2. dev'.chip = dev.chip /\ (dev'.pending => dev.pending) BY DEF Polling
<1>3. CASE GivenUp
  <2>1. ~StoreBusy' /\ cal'.store = "IDLE" BY <1>3 DEF GivenUp, StoreBusy, StoreBusyStates
  <2>2. Erased' BY <1>1, <1>2, <2>1 DEF Content, Erased, AfterErase
  <2>3. Verified'
    BY <1>0, <1>1, <1>2, <2>1 DEF Content, Verified, MarkDue, Runtime
  <2> QED BY <1>1, <2>2, <2>3 DEF Content
<1>4. CASE GoneOn(to, page)
  <2>1. cal'.store = to /\ cal'.page = page /\ cal'.scan = cal.scan /\ cal'.tseq = cal.tseq
    BY <1>4 DEF GoneOn
  <2>2. Erased' BY <1>1, <1>2, <2>1 DEF Content, Erased
  <2>3. dev'.chip.kind = "MARK" => MarkDue'
    BY <1>0, <1>1, <1>2, <2>1 DEF Content, Verified, MarkDue, Runtime
  <2>4. Written => Written' BY <1>1, <1>2, <2>1 DEF Written
  <2>5. Verified'
    BY <1>1, <2>1, <2>3, <2>4 DEF Content, Verified
  <2> QED BY <1>1, <2>2, <2>5 DEF Content
<1> QED BY <1>3, <1>4

LEMMA CommandingContent ==
    ASSUME InstallInv, Content, StoreBusy, Installing,
           UNCHANGED <<saved, attempts, older>>, NEW start \in Starts, cal.store = start[1],
           Commanding(start[3]), NEW page,
           GivenUp \/ GoneOn(start[2], page)
    PROVE  Content'
<1> DEFINE op == Command(start[3])
<1>0. Runtime BY DEF GivenUp, GoneOn
<1>1. Book' /\ Spare' = Spare /\ Target' = Target
  BY <1>0, BookSame DEF Content, Commanding, Issued
<1>2. /\ op.kind = start[3] /\ op.val = cal.scan /\ op.seq = cal.aseq + 1
      /\ cal.tseq = cal.aseq + 1
  <2>1. start[3] \in OpsOfSet BY StartFacts
  <2>2. cal.tseq = cal.aseq + 1 BY DEF InstallInv, Protocol
  <2> QED BY <2>1, <2>2, CommandType
<1> HIDE DEF op
<1>3. /\ dev'.chip = dev.chip \/ (dev.chip.kind = "NONE" /\ dev'.chip = op)
      /\ dev'.pending => dev.pending \/ dev'.chip = op \/ dev.chip.kind # "NONE"
  BY DEF Commanding, Issued, op
<1>4. /\ start[3] = "ERASE" => start[1] = "ERASE_START" /\ start[2] = "ERASE_WAIT"
      /\ start[3] # "ERASE" => start[1] \in AfterErase
      /\ start[3] = "MARK" => start[1] = "COMMIT_START"
      /\ start[1] \notin {"COMMIT_WAIT", "VERIFY"}
      /\ start[2] \notin {"VERIFY_UNCOMMITTED", "COMMIT_START"}
      /\ start[2] \in AfterErase => start[3] # "ERASE"
  BY DEF Starts, AfterErase
<1>5. cal'.store \in {"IDLE", start[2]} BY DEF GivenUp, GoneOn
<1>6. Erased'
  <2>1. start[3] # "ERASE" => Sound(Spare) /\ dev.chip.kind # "ERASE"
    BY <1>4 DEF Content, Erased
  <2>2. dev'.pending => dev'.chip.kind = "ERASE" \/ Sound(Spare)
    BY <1>2, <1>3, <2>1 DEF Content, Erased
  <2>3. dev'.chip.kind \notin {"NONE", "ERASE"} => Sound(Spare)
    BY <1>2, <1>3, <2>1 DEF Content, Erased
  <2>4. cal'.store \in AfterErase => Sound(Spare) /\ dev'.chip.kind # "ERASE"
    <3>1. cal'.store \in AfterErase => start[3] # "ERASE" BY <1>4, <1>5 DEF AfterErase
    <3> QED BY <1>2, <1>3, <2>1, <3>1
  <2> QED BY <1>1, <2>2, <2>3, <2>4 DEF Erased
<1>7. dev'.chip.kind = "MARK" => MarkDue'
  <2>1. CASE dev'.chip = dev.chip
    BY <1>0, <1>1, <1>4, <2>1 DEF Content, Verified, MarkDue, Runtime
  <2>2. CASE dev'.chip = op /\ op.kind = "MARK"
    <3>1. start[3] = "MARK" /\ cal.store = "COMMIT_START" /\ start[2] = "COMMIT_WAIT"
      BY <1>2, <1>4, <2>2 DEF Starts
    <3>2. /\ Spare.head = cal.scan /\ Spare.seq = cal.tseq /\ Spare.body = cal.scan
          /\ cal.scan \in attempts
      BY <3>1 DEF Content, Verified, Written
    <3>3. StoreBusy' => cal'.store = "COMMIT_WAIT"
      BY <1>5, <3>1 DEF StoreBusy, StoreBusyStates
    <3> QED BY <1>0, <1>1, <1>2, <2>2, <3>2, <3>3 DEF MarkDue, Runtime
  <2> QED BY <1>3, <2>1, <2>2
<1>8. StoreBusy' => cal'.scan = cal.scan
  BY DEF GivenUp, GoneOn, StoreBusy, StoreBusyStates
<1>9. Verified' BY <1>4, <1>5, <1>7, <1>8 DEF Content, Verified
<1> QED BY <1>1, <1>6, <1>9 DEF Content

(* install_step. *)
LEMMA StartContent ==
    ASSUME InstallInv, Content, EraseStart \/ HeaderStart \/ PayloadStart \/ CommitStart
    PROVE  Content'
<1>1. PICK start \in Starts : StartOperation(start[1], start[2], start[3]) BY StoreStarts
<1>2. start[1] \in StoreBusyStates /\ start[2] \in StoreStates /\ start[3] \in OpsOfSet
  BY StartFacts
<1>3. /\ StoreBusy /\ Installing /\ cal.store = start[1] /\ Commanding(start[3])
      /\ UNCHANGED <<saved, attempts, older>>
      /\ GivenUp \/ GoneOn(start[2], cal.page)
  BY <1>1, <1>2, StartOperationEffect
<1> QED BY <1>3, CommandingContent

LEMMA AwaitContent ==
    ASSUME InstallInv, Content, NEW st \in StoreBusyStates, NEW to \in StoreBusyStates,
           NEW page \in 0 .. Pages,
           AwaitOperation(st, [StoreNow EXCEPT !.store = to, !.page = page]),
           st \notin {"VERIFY_UNCOMMITTED", "COMMIT_START", "VERIFY"}, to # "COMMIT_START",
           to \in AfterErase => st \in AfterErase \cup {"ERASE_WAIT"},
           to = "VERIFY_UNCOMMITTED" => page = Pages,
           st = "COMMIT_WAIT" => to = "VERIFY"
    PROVE  Content'
<1>1. to \in StoreStates /\ cal.page \in 0 .. Pages /\ Pages \in Nat /\ Pages # 0
  BY SizeAssumption DEF StoreStates, InstallInv, TypeOK, Calibrations
<1>2. /\ StoreBusy /\ Installing /\ cal.store = st /\ Polling
      /\ UNCHANGED <<saved, attempts, older>>
  BY <1>1, AwaitOperationEffect
<1>3. CASE GivenUp \/ (GoneOn(st, cal.page) /\ dev' = dev)
  <2>1. st \in AfterErase => dev.chip.kind # "ERASE" BY <1>2 DEF Content, Erased
  <2> QED BY <1>2, <1>3, <2>1, PollingContent
<1>4. CASE GoneOn(to, page) /\ (dev.pending => dev.chip.kind = "NONE")
  <2>1. st = "ERASE_WAIT" => Sound(Spare) /\ dev.chip.kind # "ERASE"
    BY <1>2, <1>4 DEF Content, Erased, InstallInv, Device
  <2>2. st \in AfterErase => dev.chip.kind # "ERASE" BY <1>2 DEF Content, Erased
  <2>3. to = "VERIFY_UNCOMMITTED" => page # 0 /\ ~(page < Pages) BY <1>1
  <2>4. to \in AfterErase => /\ cal.store \in AfterErase \/ Sound(Spare)
                             /\ dev.chip.kind # "ERASE"
    BY <1>2, <2>1, <2>2
  <2>5. cal.store \in {"COMMIT_WAIT", "VERIFY"} => to \in {"COMMIT_WAIT", "VERIFY"} BY <1>2
  <2> QED BY <1>2, <1>4, <2>3, <2>4, <2>5, PollingContent
<1> QED BY <1>1, <1>3, <1>4, AwaitOperationEffect

LEMMA WaitContent ==
    ASSUME InstallInv, Content, EraseWait \/ HeaderWait \/ PayloadWait \/ CommitWait
    PROVE  Content'
<1>1. TypeOK /\ cal.page \in 0 .. Pages /\ 0 \in 0 .. Pages
  BY InstallStatesApart DEF InstallInv, TypeOK, Calibrations
<1>2. CASE EraseWait
  BY <1>1, <1>2, EraseWaitIs, AwaitContent, BusyStatesOfStore DEF AfterErase
<1>3. CASE HeaderWait
  <2>1. AwaitOperation("HEADER_WAIT",
                       [StoreNow EXCEPT !.store = "PAYLOAD_START", !.page = cal.page])
    BY <1>1, <1>3, HeaderWaitIs
  <2> QED BY <1>1, <2>1, AwaitContent, BusyStatesOfStore DEF AfterErase
<1>4. CASE PayloadWait
  <2>1. AwaitOperation("PAYLOAD_WAIT",
                       [StoreNow EXCEPT !.store = AfterPage, !.page = cal.page + 1])
    BY <1>1, <1>4, PayloadWaitIs
  <2>2. cal.page < Pages
    BY <2>1 DEF AwaitOperation, Stepping, InstallInv, Protocol, Paging
  <2>3. /\ cal.page + 1 \in 0 .. Pages /\ AfterPage \in {"VERIFY_UNCOMMITTED", "PAYLOAD_START"}
        /\ AfterPage = "VERIFY_UNCOMMITTED" => cal.page + 1 = Pages
    BY <1>1, <2>2, SizeAssumption DEF AfterPage
  <2>4. AfterPage \in StoreBusyStates /\ AfterPage # "COMMIT_START" BY <2>3, BusyStatesOfStore
  <2>5. "PAYLOAD_WAIT" \in StoreBusyStates /\ "PAYLOAD_WAIT" \in AfterErase
    BY BusyStatesOfStore DEF AfterErase
  <2> QED BY <2>1, <2>3, <2>4, <2>5, AwaitContent
<1>5. CASE CommitWait
  <2>1. AwaitOperation("COMMIT_WAIT", [StoreNow EXCEPT !.store = "VERIFY", !.page = cal.page])
    BY <1>1, <1>5, CommitWaitIs
  <2> QED BY <1>1, <2>1, AwaitContent, BusyStatesOfStore DEF AfterErase
<1> QED BY <1>2, <1>3, <1>4, <1>5

LEMMA VerifyUncommittedContent ==
    ASSUME InstallInv, Content, VerifyUncommitted PROVE Content'
<1>1. /\ StoreBusy /\ Installing /\ cal.store = "VERIFY_UNCOMMITTED" /\ dev' = dev
      /\ UNCHANGED <<saved, attempts, older>>
      /\ Piece + 1 \in 0 .. Pages /\ AfterPiece \in StoreBusyStates
      /\ \/ GivenUp
         \/ GoneOn(AfterPiece, Piece + 1) /\ dev.chip.kind = "NONE" /\ PieceReads(Piece)
  BY VerifyUncommittedEffect
<1>2. Polling BY <1>1 DEF Polling, InstallInv, TypeOK
<1>3. /\ AfterPiece \in {"COMMIT_START", "VERIFY_UNCOMMITTED"}
      /\ AfterPiece = "COMMIT_START" <=> Piece = Pages - 1
  BY DEF AfterPiece
<1>4. dev.chip.kind # "ERASE" /\ "VERIFY_UNCOMMITTED" \in AfterErase
  BY <1>1 DEF Content, Erased, AfterErase
<1>5. CASE GivenUp
  <2>1. "ERASE_START" \in StoreBusyStates /\ "ERASE_START" \notin AfterErase
    BY BusyStatesOfStore DEF AfterErase
  <2> QED BY <1>1, <1>2, <1>5, <2>1, PollingContent
<1>6. CASE GoneOn(AfterPiece, Piece + 1) /\ dev.chip.kind = "NONE" /\ PieceReads(Piece)
  <2>1. cal.page \in 0 .. Pages /\ cal.page # 0 /\ (cal.page < Pages => Written)
    BY <1>1 DEF Content, Verified, InstallInv, TypeOK, Calibrations
  <2>2. cal.target = Target BY <1>1 DEF InstallInv, Protocol
  <2>3. Piece \in 0 .. Pages /\ Piece + 1 # 0 /\ Pages - 1 # 0
    BY <2>1, SizeAssumption DEF Piece
  <2>4. Written
    <3>1. CASE Piece = 0
      BY <1>6, <2>2, <3>1 DEF PieceReads, TargetSector, Written, Spare
    <3>2. CASE Piece # 0
      BY <2>1, <3>2, SizeAssumption DEF Piece
    <3> QED BY <3>1, <3>2
  <2>5. AfterPiece = "COMMIT_START" => Spare.body = cal.scan
    BY <1>3, <1>6, <2>2 DEF PieceReads, TargetSector, Spare
  <2> QED BY <1>1, <1>2, <1>4, <1>6, <2>3, <2>4, <2>5, PollingContent
<1> QED BY <1>1, <1>5, <1>6

LEMMA DrainContent == ASSUME InstallInv, Content, Drain PROVE Content'
<1>1. /\ StoreBusy /\ Installing /\ Polling /\ UNCHANGED <<saved, attempts, older>>
      /\ \/ GivenUp
         \/ /\ cal.store \in {"ERASE_WAIT", "HEADER_WAIT", "PAYLOAD_WAIT"}
            /\ GoneOn(cal.store, cal.page)
  BY DrainEffect
<1>2. CASE GivenUp
  <2>1. /\ "VERIFY" \in StoreBusyStates /\ "ERASE_START" \in StoreBusyStates
        /\ "ERASE_START" \notin AfterErase
    BY BusyStatesOfStore DEF AfterErase
  <2>2. cal.store \notin {"COMMIT_WAIT", "VERIFY"}
    <3>1. ASSUME cal.store \in {"COMMIT_WAIT", "VERIFY"} PROVE FALSE
      <4>1. ~cal.abort /\ TypeOK BY <3>1 DEF InstallInv, Protocol
      <4>2. StoreNow.abort BY DEF Drain
      <4> QED BY <3>1, <4>1, <4>2, StoreNowEffect
    <3> QED BY <3>1
  <2> QED BY <1>1, <1>2, <2>1, <2>2, PollingContent
<1>3. CASE /\ cal.store \in {"ERASE_WAIT", "HEADER_WAIT", "PAYLOAD_WAIT"}
           /\ GoneOn(cal.store, cal.page)
  <2>1. cal.store \in StoreBusyStates BY <1>3, BusyStatesOfStore
  <2>2. cal.store \in AfterErase => dev.chip.kind # "ERASE" BY DEF Content, Erased
  <2> QED BY <1>1, <1>3, <2>1, <2>2, PollingContent
<1> QED BY <1>1, <1>2, <1>3

LEMMA GiveUpContent == ASSUME InstallInv, Content, GiveUp PROVE Content'
<1>1. GivenUp /\ dev' = dev /\ UNCHANGED <<saved, attempts, older>> BY GiveUpEffect
<1>2. inst.st # "WRITING" BY DEF GiveUp
<1>3. cal.store = "IDLE" BY <1>2 DEF InstallInv, Protocol, StoreBusy
<1>4. Runtime /\ cal'.store = cal.store /\ ~StoreBusy
  BY <1>1, <1>3 DEF GivenUp, StoreBusy, StoreBusyStates
<1> QED BY <1>1, <1>4, QuietKeeps

(* The set read back is the one a reboot finds. *)
LEMMA VerifyContent == ASSUME InstallInv, Content, Verify PROVE Content'
<1>0. /\ StoreBusy /\ Installing /\ cal.store = "VERIFY" /\ dev' = dev
      /\ (GivenUp /\ UNCHANGED <<saved, attempts, older>>) \/ Installed
  BY VerifyEffect
<1>1. CASE GivenUp /\ UNCHANGED <<saved, attempts, older>>
  <2>1. Polling BY <1>0 DEF Polling, InstallInv, TypeOK
  <2>2. "VERIFY" \in StoreBusyStates /\ "VERIFY" \in AfterErase
    BY BusyStatesOfStore DEF AfterErase
  <2>3. dev.chip.kind # "ERASE" BY <1>0, <2>2 DEF Content, Erased
  <2> QED BY <1>0, <1>1, <2>1, <2>2, <2>3, PollingContent
<1>2. CASE Installed
  <2>1. /\ cal \in Calibrations /\ cal' \in Calibrations
        /\ dev.slots \in [Slots -> Sectors]
        /\ cal.active = NoSet => cal.aslot = "A" /\ cal.aseq = 0
        /\ cal.target = To(cal) /\ cal.tseq = cal.aseq + 1
    BY <1>0, <1>2, TargetIsTo DEF Installed, InstallInv, TypeOK, Protocol, Devices
  <2>2. /\ dev.slots[To(cal)].head = cal.scan /\ dev.slots[To(cal)].seq = cal.tseq
        /\ Valid(dev.slots[To(cal)]) /\ dev.chip.kind = "NONE"
    BY <1>2, <2>1 DEF Installed, TargetSector, Holds
  <2>3. Renewed(cal, dev.slots) /\ Kept(cal, dev.slots)
    BY <2>1, <2>2 DEF Renewed, Content, Book
  <2>4. /\ cal'.active = dev.slots[To(cal)].head /\ cal'.aseq = dev.slots[To(cal)].seq
        /\ cal'.aslot = To(cal)
    BY <1>2, <2>1, <2>2 DEF Installed
  <2>5. Kept(cal', dev.slots) /\ ~Renewed(cal', dev.slots)
    BY <2>1, <2>3, <2>4, RenewedKept
  <2>6. Book' BY <1>0, <1>2, <2>5 DEF Book, Installed
  <2>7. ~dev.pending BY <1>0 DEF InstallInv, Device
  <2>8. Erased' /\ Verified'
    BY <1>0, <1>2, <2>2, <2>7
       DEF Installed, Erased, Verified, AfterErase, StoreBusy, StoreBusyStates
  <2> QED BY <2>6, <2>8 DEF Content
<1> QED BY <1>0, <1>1, <1>2

LEMMA StepContent == ASSUME InstallInv, Content, Step PROVE Content'
<1>1. CASE GiveUp BY <1>1, GiveUpContent
<1>2. CASE EraseStart \/ HeaderStart \/ PayloadStart \/ CommitStart BY <1>2, StartContent
<1>3. CASE EraseWait \/ HeaderWait \/ PayloadWait \/ CommitWait BY <1>3, WaitContent
<1>4. CASE VerifyUncommitted BY <1>4, VerifyUncommittedContent
<1>5. CASE Verify BY <1>5, VerifyContent
<1>6. CASE Drain BY <1>6, DrainContent
<1> QED BY <1>1, <1>2, <1>3, <1>4, <1>5, <1>6 DEF Step

(* The commands of the PC, and what goes on around. *)
LEMMA CommitContent == ASSUME InstallInv, Content, Commit PROVE Content'
<1> DEFINE Ready ==
        /\ ~ServiceBusy /\ cal.cand = "COMPLETE" /\ cal.scan \in Values
        /\ (cal.held \/ owner = "FREE")
        /\ Successor(cal.aseq) = inst.seq
<1>0. /\ cal.store = "IDLE" /\ ~StoreBusy /\ ~cal.abort /\ dev' = dev /\ saved' = saved
      /\ cal \in Calibrations /\ TypeOK
  BY DEF Commit, InstallInv, Protocol, TypeOK, StoreBusy
<1>1. CASE Ready
  <2>1. /\ cal' = [cal EXCEPT !.held = TRUE, !.cand = "COMMITTING", !.store = "ERASE_START",
                              !.abort = FALSE, !.target = Target, !.tseq = inst.seq, !.page = 0]
        /\ attempts' = attempts \cup {cal.scan} /\ older' = attempts
    BY <1>1 DEF Commit
  <2>2. cal'.store = "ERASE_START" /\ cal'.scan = cal.scan /\ Runtime
    BY <1>0, <2>1 DEF Calibrations, Runtime
  <2>3. Target' = Target /\ Spare' = Spare BY <1>0, <2>2 DEF Runtime, Target, Spare
  <2>4. Book'
    BY <1>0, <2>1, <2>2, <2>3 DEF Content, Book, Kept, Renewed, To, Runtime
  <2>5. Erased' BY <1>0, <2>2, <2>3 DEF Content, Erased, AfterErase
  <2>6. dev.chip.kind = "MARK" => MarkDue'
    BY <1>0, <2>1, <2>2, <2>3 DEF Content, Verified, MarkDue, Runtime
  <2>7. Verified' BY <1>0, <2>1, <2>2, <2>6 DEF Verified
  <2> QED BY <2>4, <2>5, <2>7 DEF Content
<1>2. CASE ~Ready
  <2>1. Finish(cal, "STORAGE_ERROR") /\ UNCHANGED <<attempts, older>> BY <1>2 DEF Commit
  <2>2. GivenUp BY <1>0, <2>1, FinishEffect DEF Errors
  <2>3. Runtime /\ cal'.store = cal.store BY <1>0, <2>2 DEF GivenUp
  <2> QED BY <1>0, <2>1, <2>3, QuietKeeps
<1> QED BY <1>1, <1>2

LEMMA CommandContent ==
    ASSUME InstallInv, Content, Begin \/ (\E v \in Values \cup {"MIXED"} : Chunk(v))
                                      \/ Validate \/ Abort
    PROVE  Content'
<1>0. /\ TypeOK /\ cal \in Calibrations /\ (inst.st = "WRITING" <=> StoreBusy)
      /\ ~StoreBusy => cal.store = "IDLE" /\ ~cal.abort
  BY DEF InstallInv, Protocol, TypeOK, StoreBusy
<1>1. CASE Begin
  <2>1. cal' = [cal EXCEPT !.scan = NoSet, !.cand = "BUILDING", !.held = TRUE] /\ ~StoreBusy
        /\ UNCHANGED <<dev, saved, attempts, older>>
    BY <1>1 DEF Begin, ServiceBusy, flashVars
  <2>2. Runtime /\ cal'.store = cal.store BY <1>0, <2>1 DEF Calibrations, Runtime
  <2> QED BY <2>1, <2>2, QuietKeeps
<1>2. CASE \E v \in Values \cup {"MIXED"} : Chunk(v)
  BY <1>2, QuietKeeps DEF Chunk, flashVars, Runtime
<1>3. CASE Validate
  <2>1. ~StoreBusy /\ cal.store = "IDLE" /\ ~cal.abort
        /\ UNCHANGED <<dev, saved, attempts, older>>
    BY <1>0, <1>3 DEF Validate, flashVars
  <2>2. CASE ValidCandidate
    <3>1. Runtime /\ cal'.store = cal.store
      BY <1>0, <1>3, <2>2 DEF Validate, Calibrations, Runtime
    <3> QED BY <2>1, <3>1, QuietKeeps
  <2>3. CASE ~ValidCandidate
    <3>1. Finish(cal, "INVALID_CANDIDATE") BY <1>3, <2>3 DEF Validate
    <3>2. GivenUp BY <1>0, <2>1, <3>1, FinishEffect DEF Errors
    <3>3. Runtime /\ cal'.store = cal.store BY <2>1, <3>2 DEF GivenUp
    <3> QED BY <2>1, <3>3, QuietKeeps
  <2> QED BY <2>2, <2>3
<1>4. CASE Abort
  <2>1. UNCHANGED <<dev, saved, attempts, older>> BY <1>4 DEF Abort, flashVars
  <2>2. CASE inst.st = "WRITING"
    <3>1. cal' = AbortStore(cal) BY <1>4, <2>2 DEF Abort
    <3>2. Runtime /\ cal'.store = cal.store /\ cal'.scan = cal.scan /\ cal'.tseq = cal.tseq
          /\ cal'.page = cal.page
      BY <1>0, <3>1 DEF AbortStore, Calibrations, Runtime
    <3> QED BY <2>1, <3>2, QuietKeeps
  <2>3. CASE inst.st # "WRITING"
    <3>1. Finish(cal, "CANCELED") /\ ~StoreBusy BY <1>0, <1>4, <2>3 DEF Abort
    <3>2. GivenUp BY <1>0, <3>1, FinishEffect DEF Errors
    <3>3. Runtime /\ cal'.store = cal.store BY <1>0, <3>1, <3>2 DEF GivenUp
    <3> QED BY <2>1, <3>1, <3>3, QuietKeeps
  <2> QED BY <2>2, <2>3
<1> QED BY <1>1, <1>2, <1>3, <1>4

LEMMA OutsideContent == ASSUME InstallInv, Content, Outside PROVE Content'
<1>1. cal' = cal /\ UNCHANGED <<dev, saved, attempts, older>>
  BY OutsideEffect DEF flashVars
<1> QED BY <1>1, QuietKeeps DEF Runtime

(* What becomes of the spare slot when the chip ends an operation, by      *)
(* itself or by the loss of its power.                                     *)
LEMMA SpareAltered ==
    ASSUME InstallInv, Content, Dependable, NEW r \in Sectors, dev.chip.kind \in OpsOfSet,
           Altered(r, Spare, dev.chip)
    PROVE  /\ r.head \in Values => r.seq \in {cal.aseq - 1, cal.aseq + 1}
           /\ dev.chip.kind # "ERASE" => Sound(r)
           /\ Valid(r) => \/ Valid(Spare) /\ HeadOf(r, Spare)
                          \/ /\ dev.chip.kind = "MARK" /\ r.head = dev.chip.val
                             /\ r.head \in attempts
<1>0. /\ dev.chip.seq = cal.aseq + 1 /\ dev.chip.val \in Values /\ "CHANCE" \notin Failures
      /\ Spare.head \in Values => Spare.seq \in {cal.aseq - 1, cal.aseq + 1}
      /\ dev.chip.kind # "ERASE" => Sound(Spare)
  BY TargetIsTo
     DEF InstallInv, Device, Dependable, Content, Book, Kept, Erased, Spare, OpsOfSet
<1>1. CASE dev.chip.kind = "ERASE"
  BY <1>0, <1>1, CellsApart DEF Altered, HeadOf, Valid
<1>2. CASE dev.chip.kind = "HEAD"
  <2>1. Sound(r) BY <1>0, <1>2, CellsApart DEF Altered, HeadOf, Sound
  <2>2. Valid(r) => Valid(Spare) /\ HeadOf(r, Spare)
    BY <1>0, <1>2, CellsApart DEF Altered, HeadOf, Sound, Valid
  <2> QED BY <1>0, <1>2, <2>1, <2>2, CellsApart DEF Altered, HeadOf
<1>3. CASE dev.chip.kind \in {"PAGE", "LAST"}
  <2>1. Sound(r) BY <1>0, <1>3, CellsApart DEF Altered, HeadOf, Sound
  <2>2. Valid(r) => Valid(Spare) /\ HeadOf(r, Spare)
    BY <1>0, <1>3, CellsApart DEF Altered, HeadOf, Sound, Valid
  <2> QED BY <1>0, <1>3, <2>1, <2>2 DEF Altered, HeadOf
<1>4. CASE dev.chip.kind = "MARK"
  <2>1. /\ Spare.head = dev.chip.val /\ Spare.body = dev.chip.val
        /\ dev.chip.val \in attempts
    BY <1>4 DEF Content, Verified, MarkDue
  <2>2. HeadOf(r, Spare) /\ r.body = Spare.body BY <1>4 DEF Altered
  <2>3. Sound(r) BY <1>0, <2>1, <2>2, CellsApart DEF HeadOf, Sound
  <2> QED BY <1>0, <1>4, <2>1, <2>2, <2>3 DEF HeadOf
<1> QED BY <1>1, <1>2, <1>3, <1>4 DEF OpsOfSet

(* Of the flash as it is after a step of the chip, or after a power loss,  *)
(* nothing but the spare slot was touched: a reboot finds the set in use,  *)
(* or what it found before, or the set the commit word was sent for.       *)
LEMMA SlotsAltered ==
    ASSUME InstallInv, Content, Dependable, NEW slots \in [Slots -> Sectors],
           \A x \in Slots \ {Target} : slots[x] = dev.slots[x],
           \/ slots = dev.slots
           \/ dev.chip.kind \in OpsOfSet /\ Altered(slots[Target], Spare, dev.chip)
    PROVE  /\ Kept(cal, slots)
           /\ Renewed(cal, slots) =>
                 \/ Renewed(cal, dev.slots) /\ slots[Target].head = Spare.head
                 \/ /\ dev.chip.kind = "MARK" /\ slots[Target].head = dev.chip.val
                    /\ dev.chip.val \in attempts
           /\ Renewed(cal, slots) => slots[Target].head \in attempts
<1>0. /\ cal \in Calibrations /\ Kept(cal, dev.slots) /\ Target = To(cal)
      /\ cal.active = NoSet => cal.aslot = "A"
      /\ Renewed(cal, dev.slots) => Spare.head \in attempts
  BY TargetIsTo DEF InstallInv, TypeOK, Protocol, Content, Book
<1>1. CASE slots = dev.slots BY <1>0, <1>1 DEF Spare
<1>2. CASE dev.chip.kind \in OpsOfSet /\ Altered(slots[Target], Spare, dev.chip)
  <2> DEFINE r == slots[Target]
  <2>1. r \in Sectors BY <1>0, TwoSlots
  <2>2. /\ r.head \in Values => r.seq \in {cal.aseq - 1, cal.aseq + 1}
        /\ Valid(r) => \/ Valid(Spare) /\ HeadOf(r, Spare)
                       \/ /\ dev.chip.kind = "MARK" /\ r.head = dev.chip.val
                          /\ r.head \in attempts
    BY <1>2, <2>1, SpareAltered
  <2>3. Kept(cal, slots)
    <3>1. CASE cal.active = NoSet
      <4>1. slots["B"] = dev.slots["B"] BY <1>0, <3>1, TwoSlots
      <4> QED BY <1>0, <2>2, <3>1, <4>1 DEF Kept
    <3>2. CASE cal.active # NoSet
      <4>1. slots[cal.aslot] = dev.slots[cal.aslot] BY <1>0, <3>2, TwoSlots
      <4> QED BY <1>0, <2>2, <3>2, <4>1 DEF Kept
    <3> QED BY <3>1, <3>2
  <2>4. Renewed(cal, slots) => Valid(r) /\ r.seq = cal.aseq + 1 BY <1>0 DEF Renewed
  <2>5. Valid(Spare) /\ HeadOf(r, Spare) /\ r.seq = cal.aseq + 1
           => Renewed(cal, dev.slots) /\ r.head = Spare.head
    BY <1>0 DEF Renewed, HeadOf, Spare
  <2> HIDE DEF r
  <2>6. /\ Renewed(cal, slots) =>
              \/ Renewed(cal, dev.slots) /\ r.head = Spare.head
              \/ /\ dev.chip.kind = "MARK" /\ r.head = dev.chip.val
                 /\ dev.chip.val \in attempts
        /\ Renewed(cal, slots) => r.head \in attempts
    BY <1>0, <2>2, <2>4, <2>5
  <2> QED BY <2>3, <2>6 DEF r
<1> QED BY <1>1, <1>2

LEMMA ChipDoneContent == ASSUME InstallInv, Content, Dependable, ChipDone PROVE Content'
<1>0. /\ UNCHANGED <<cal, inst, saved, attempts, older>>
      /\ dev'.chip.kind = "NONE" /\ (dev'.pending <=> dev.pending)
      /\ dev.chip.kind \in OpsOfSet /\ dev.chip.kind # "NONE"
      /\ dev'.slots \in [Slots -> Sectors]
      /\ \A x \in Slots \ {Target} : dev'.slots[x] = dev.slots[x]
      /\ Altered(dev'.slots[Target], Spare, dev.chip)
      /\ dev.chip.kind = "ERASE" => dev'.slots[Target] = Blank
  BY ChipDoneEffect DEF ChipDone, Spare
<1>1. Target' = Target /\ Spare' = dev'.slots[Target] /\ (StoreBusy' <=> StoreBusy)
  BY <1>0 DEF Target, Spare, StoreBusy
<1>2. Kept(cal, dev'.slots) /\ (Renewed(cal, dev'.slots) => Spare' \in Sectors /\ Spare'.head \in attempts)
  <2>1. Target \in Slots BY TargetSpares
  <2> QED BY <1>0, <1>1, <2>1, SlotsAltered
<1>3. Book' BY <1>0, <1>1, <1>2 DEF Content, Book
<1>4. Sound(Spare')
  <2>1. CASE dev.chip.kind = "ERASE"
    BY <1>0, <1>1, <2>1, BlankFields DEF Sound
  <2>2. CASE dev.chip.kind # "ERASE"
    <3>1. Spare' \in Sectors BY <1>0, <1>1, TargetSpares
    <3> QED BY <1>0, <1>1, <2>2, <3>1, SpareAltered
  <2> QED BY <2>1, <2>2
<1>5. Erased' BY <1>0, <1>4 DEF Erased
<1>6. ~Written BY <1>0 DEF Written
<1>7. Verified' BY <1>0, <1>1, <1>6 DEF Content, Verified
<1> QED BY <1>3, <1>5, <1>7 DEF Content

LEMMA PowerLossSlots ==
    ASSUME InstallInv, Content, Dependable, PowerLoss
    PROVE  /\ dev'.slots \in [Slots -> Sectors] /\ Kept(cal, dev'.slots)
           /\ Renewed(cal, dev'.slots) =>
                 \/ Renewed(cal, dev.slots) /\ dev'.slots[Target].head = Spare.head
                 \/ /\ dev.chip.kind = "MARK" /\ dev'.slots[Target].head = dev.chip.val
                    /\ dev.chip.val \in attempts
           /\ Renewed(cal, dev'.slots) => dev'.slots[Target].head \in attempts
<1>1. /\ dev'.slots \in [Slots -> Sectors]
      /\ \A x \in Slots \ {Target} : dev'.slots[x] = dev.slots[x]
      /\ dev.chip.kind = "NONE" => dev'.slots = dev.slots
      /\ dev.chip.kind # "NONE" => Altered(dev'.slots[Target], Spare, dev.chip)
  BY PowerLossEffect DEF Spare
<1>2. dev.chip.kind # "NONE" => dev.chip.kind \in OpsOfSet BY DEF InstallInv, Device
<1> QED BY <1>1, <1>2, SlotsAltered

LEMMA PowerLossContent == ASSUME InstallInv, Content, Dependable, PowerLoss PROVE Content'
<1> DEFINE slots == dev'.slots
<1>0. /\ slots \in [Slots -> Sectors] /\ Kept(cal, slots)
  BY PowerLossSlots
<1>1. /\ cal' = Loaded(slots, Slots) /\ saved' = Restored(slots, NoSet)
      /\ dev'.chip.kind = "NONE" /\ ~dev'.pending
  BY PowerLossEffect DEF Dependable
<1>2. /\ cal \in Calibrations /\ Target = To(cal)
      /\ cal.active = NoSet => cal.aslot = "A" /\ cal.aseq = 0
  BY TargetIsTo DEF InstallInv, TypeOK, Protocol
<1> HIDE DEF slots
<1>3. Chosen(slots, Slots) = IF Renewed(cal, slots) THEN To(cal)
                             ELSE IF cal.active = NoSet THEN "NONE" ELSE cal.aslot
  BY <1>0, <1>2, ChosenIs
<1>4. cal' \in Calibrations /\ cal'.store = "IDLE" BY <1>0, <1>1, LoadedEffect
<1>5. CASE Renewed(cal, slots)
  <2>1. Chosen(slots, Slots) = To(cal) /\ To(cal) # "NONE" BY <1>3, <1>5 DEF To
  <2>2. /\ cal'.active = slots[To(cal)].head /\ cal'.aseq = slots[To(cal)].seq
        /\ cal'.aslot = To(cal)
    BY <1>0, <1>1, <2>1, LoadedEffect
  <2>3. Kept(cal', slots) /\ ~Renewed(cal', slots)
    BY <1>0, <1>2, <1>4, <1>5, <2>2, RenewedKept
  <2>4. saved' = cal'.active BY <1>1, <2>1, <2>2 DEF Restored
  <2> QED BY <1>1, <1>4, <2>3, <2>4
          DEF Content, Book, Erased, Verified, AfterErase, StoreBusy, StoreBusyStates, slots
<1>6. CASE ~Renewed(cal, slots)
  <2>1. Runtime /\ saved' = cal'.active
    <3>1. CASE cal.active = NoSet
      <4>1. Chosen(slots, Slots) = "NONE" BY <1>3, <1>6, <3>1
      <4> QED BY <1>0, <1>1, <1>2, <3>1, <4>1, LoadedEffect DEF Runtime, Restored
    <3>2. CASE cal.active # NoSet
      <4>1. Chosen(slots, Slots) = cal.aslot /\ cal.aslot # "NONE"
        BY <1>2, <1>3, <1>6, <3>2, TwoSlots
      <4>2. slots[cal.aslot].head = cal.active /\ slots[cal.aslot].seq = cal.aseq
        BY <1>0, <3>2 DEF Kept
      <4> QED BY <1>0, <1>1, <4>1, <4>2, LoadedEffect DEF Runtime, Restored
    <3> QED BY <3>1, <3>2
  <2>2. Kept(cal', slots) /\ ~Renewed(cal', slots)
    BY <1>0, <1>6, <2>1 DEF Kept, Renewed, To, Runtime
  <2> QED BY <1>1, <1>4, <2>1, <2>2
          DEF Content, Book, Erased, Verified, AfterErase, StoreBusy, StoreBusyStates, slots
<1> QED BY <1>5, <1>6

LEMMA ContentNext ==
    ASSUME Dependable PROVE InstallInv /\ Content /\ [Next]_vars => Content'
<1> SUFFICES ASSUME InstallInv, Content, [Next]_vars PROVE Content' OBVIOUS
<1>1. CASE Begin \/ (\E v \in Values \cup {"MIXED"} : Chunk(v)) \/ Validate \/ Abort
  BY <1>1, CommandContent
<1>2. CASE Commit BY <1>2, CommitContent
<1>3. CASE Step BY <1>3, StepContent
<1>4. CASE Outside BY <1>4, OutsideContent
<1>5. CASE ChipDone BY <1>5, ChipDoneContent
<1>6. CASE PowerLoss BY <1>6, PowerLossContent
<1>7. CASE UNCHANGED vars BY <1>7, QuietKeeps DEF vars, Runtime
<1> QED BY <1>1, <1>2, <1>3, <1>4, <1>5, <1>6, <1>7 DEF Next, Outside

LEMMA ContentAlways == ASSUME Dependable PROVE Spec => [](InstallInv /\ Content)
<1>1. InstallInv /\ Content /\ [Next]_vars => (InstallInv /\ Content)'
  BY InstallNext, ContentNext
<1> QED BY <1>1, InstallInit, ContentInit, PTL DEF Spec

(* A reboot finds the set in use or, once its commit word stands, one that *)
(* was attempted.                                                          *)
LEMMA DurableIs ==
    ASSUME InstallInv, Content
    PROVE  /\ Restored(dev.slots, NoSet) = IF Renewed(cal, dev.slots) THEN Spare.head ELSE saved
           /\ Restored(dev.slots, NoSet) \in attempts \cup {saved}
<1>1. /\ cal \in Calibrations /\ dev.slots \in [Slots -> Sectors]
      /\ cal.active = NoSet => cal.aslot = "A" /\ cal.aseq = 0
      /\ Kept(cal, dev.slots) /\ saved = cal.active /\ Target = To(cal)
      /\ Renewed(cal, dev.slots) => Spare.head \in attempts
  BY TargetIsTo DEF InstallInv, TypeOK, Protocol, Content, Book, Devices
<1>2. Restored(dev.slots, NoSet) =
        IF Renewed(cal, dev.slots) THEN dev.slots[To(cal)].head ELSE cal.active
  BY <1>1, RestoredIs
<1> QED BY <1>1, <1>2 DEF Spare

(* Of the next state too. *)
LEMMA DurableNext ==
    ASSUME InstallInv', Content'
    PROVE  /\ Restored(dev'.slots, NoSet)
                 = IF Renewed(cal', dev'.slots) THEN Spare'.head ELSE saved'
           /\ Restored(dev'.slots, NoSet) \in attempts' \cup {saved'}
           /\ attempts' = {} => Restored(dev'.slots, NoSet) = saved'
<1>1. /\ cal' \in Calibrations /\ dev'.slots \in [Slots -> Sectors]
      /\ cal'.active = NoSet => cal'.aslot = "A" /\ cal'.aseq = 0
      /\ Kept(cal', dev'.slots) /\ saved' = cal'.active /\ Target' = To(cal')
      /\ Renewed(cal', dev'.slots) => Spare'.head \in attempts'
  BY DEF InstallInv, TypeOK, Protocol, Content, Book, Devices, Target, To
<1>2. Restored(dev'.slots, NoSet) =
        IF Renewed(cal', dev'.slots) THEN dev'.slots[To(cal')].head ELSE cal'.active
  BY <1>1, RestoredIs
<1> QED BY <1>1, <1>2 DEF Spare

(* The steps that the register sees. *)
LEMMA VerifySaves ==
    ASSUME InstallInv, Content, Verify, Installed
    PROVE  /\ Restored(dev.slots, NoSet) = cal.scan /\ cal.scan \in attempts
           /\ dev' = dev /\ saved' = cal.scan /\ attempts' = {}
<1>1. StoreBusy /\ Installing /\ dev' = dev BY VerifyEffect
<1>2. cal.target = Target /\ cal.tseq = cal.aseq + 1 /\ cal.scan \in attempts
  BY <1>1 DEF InstallInv, Protocol, Content, Verified
<1>3. Renewed(cal, dev.slots) /\ Spare.head = cal.scan
  BY <1>2, TargetIsTo DEF Installed, TargetSector, Holds, Renewed, Spare
<1> QED BY <1>1, <1>2, <1>3, DurableIs DEF Installed

Recorded == UNCHANGED <<saved, attempts>>
LEMMA AwaitRecorded ==
    ASSUME InstallInv, NEW st, NEW after, AwaitOperation(st, after)
    PROVE  Recorded
<1>1. PICK a \in Polled(dev) :
        CASE a.status = "OK" -> Goes(after)
          [] a.status = "BUSY" -> GoesTo(st)
          [] a.status \in {"ERROR", "TIMEOUT"} -> Fails
  BY DEF AwaitOperation
<1>2. a.status \in {"OK", "BUSY", "TIMEOUT", "ERROR"}
  BY <1>1, PolledEffect DEF InstallInv, TypeOK
<1>3. Goes(after) \/ GoesTo(st) \/ Fails BY <1>1, <1>2
<1> QED BY <1>3 DEF Goes, GoesTo, Fails, Recorded

LEMMA HistoryEffect ==
    ASSUME InstallInv, [Next]_vars, ~ChipDone, ~PowerLoss
    PROVE  \/ Recorded
           \/ Commit /\ cal.scan \in Values /\ saved' = saved
              /\ attempts' = attempts \cup {cal.scan}
           \/ Verify /\ Installed
<1>1. CASE Commit BY <1>1 DEF Commit, Recorded
<1>2. CASE Verify BY <1>2, VerifyEffect DEF Recorded
<1>3. CASE EraseStart \/ HeaderStart \/ PayloadStart \/ CommitStart
  <2>1. PICK start \in Starts : StartOperation(start[1], start[2], start[3])
    BY <1>3, StoreStarts
  <2> QED BY <2>1, StartFacts, StartOperationEffect DEF Recorded
<1>4. CASE EraseWait \/ HeaderWait \/ PayloadWait \/ CommitWait \/ Drain
  <2>1. CASE Drain BY <2>1, DrainEffect DEF Recorded
  <2>2. CASE EraseWait \/ HeaderWait \/ PayloadWait \/ CommitWait
    BY <2>2, AwaitRecorded DEF EraseWait, HeaderWait, PayloadWait, CommitWait
  <2> QED BY <1>4, <2>1, <2>2
<1>5. CASE GiveUp BY <1>5, GiveUpEffect DEF Recorded
<1>6. CASE VerifyUncommitted BY <1>6, VerifyUncommittedEffect DEF Recorded
<1>7. CASE Step
  BY <1>2, <1>3, <1>4, <1>5, <1>6, <1>7 DEF Step
<1>8. CASE Outside BY <1>8, OutsideEffect DEF flashVars, Recorded
<1>9. CASE Begin \/ (\E v \in Values \cup {"MIXED"} : Chunk(v)) \/ Validate \/ Abort
  BY <1>9 DEF Begin, Chunk, Validate, Abort, flashVars, Recorded
<1>10. CASE UNCHANGED vars BY <1>10 DEF vars, Recorded
<1> QED BY <1>1, <1>7, <1>8, <1>9, <1>10 DEF Next, Outside

(* The installation is a durable register of sets: whatever step the power *)
(* is lost in, a reboot finds the set reported last or one whose commit    *)
(* was started since, whole; and a set is reported as installed only when  *)
(* the reboot finds it.                                                    *)
THEOREM InstallImplementsRegister == ASSUME Dependable PROVE Spec => ImplementsRegister
<1> DEFINE durable == Restored(dev.slots, NoSet)
<1>1. Init => Register!Init
  <2> SUFFICES ASSUME Init PROVE Register!Init OBVIOUS
  <2>1. InstallInv /\ Content BY InstallInit, ContentInit
  <2>2. saved = NoSet /\ attempts = {} BY DEF Init
  <2>3. durable = saved BY <2>1, <2>2, DurableIs
  <2> QED BY <2>2, <2>3, NoSetApart DEF Register!Init
<1>2. ASSUME InstallInv /\ Content, [Next]_vars
      PROVE  [Register!Next]_(Register!regVars)
  <2>0. InstallInv' /\ Content' BY <1>2, InstallNext, ContentNext
  <2>1. /\ durable \in attempts \cup {saved} /\ durable' \in attempts' \cup {saved'}
        /\ attempts' = {} => durable' = saved'
    BY <1>2, <2>0, DurableIs, DurableNext
  <2>2. attempts \subseteq Sets /\ saved \in Sets
    BY <1>2 DEF InstallInv, TypeOK, Sets
  <2>3. CASE ChipDone
    <3>1. UNCHANGED <<saved, attempts>> BY <1>2, <2>3, ChipDoneEffect
    <3>2. durable' \in attempts \cup {saved} /\ durable' \in Sets BY <2>1, <2>2, <3>1
    <3>3. Register!Settle(durable') BY <3>1, <3>2 DEF Register!Settle
    <3> QED BY <3>2, <3>3 DEF Register!Next
  <2>4. CASE PowerLoss
    <3>1. saved' = durable' /\ attempts' = {} BY <1>2, <2>4, PowerLossEffect
    <3>2. durable' \in attempts \cup {saved}
      <4>1. /\ dev'.slots \in [Slots -> Sectors] /\ Kept(cal, dev'.slots)
            /\ Renewed(cal, dev'.slots) => dev'.slots[Target].head \in attempts
        BY <1>2, <2>4, PowerLossSlots
      <4>2. /\ cal \in Calibrations /\ Target = To(cal) /\ saved = cal.active
            /\ cal.active = NoSet => cal.aslot = "A" /\ cal.aseq = 0
        BY <1>2, TargetIsTo DEF InstallInv, TypeOK, Protocol, Content, Book
      <4>3. durable' = IF Renewed(cal, dev'.slots) THEN dev'.slots[To(cal)].head
                       ELSE cal.active
        BY <4>1, <4>2, RestoredIs
      <4> QED BY <4>1, <4>2, <4>3
    <3>3. durable' \in Sets BY <2>2, <3>2
    <3>4. Register!PowerLoss(durable') BY <3>1, <3>2 DEF Register!PowerLoss
    <3> QED BY <3>3, <3>4 DEF Register!Next
  <2>5. CASE ~ChipDone /\ ~PowerLoss
    <3>1. dev'.slots = dev.slots BY <1>2, <2>5, FlashEffect
    <3>2. durable' = durable BY <3>1
    <3>3. CASE Recorded
      BY <3>2, <3>3 DEF Recorded, Register!regVars
    <3>4. CASE /\ cal.scan \in Values /\ saved' = saved
               /\ attempts' = attempts \cup {cal.scan}
      <4>1. cal.scan \in Sets BY <3>4 DEF Sets
      <4>2. Register!Attempt(cal.scan) BY <3>2, <3>4 DEF Register!Attempt
      <4> QED BY <4>1, <4>2 DEF Register!Next
    <3>5. CASE Verify /\ Installed
      <4>1. durable \in attempts /\ saved' = durable /\ attempts' = {}
        BY <1>2, <3>5, VerifySaves
      <4>2. Register!Report BY <3>2, <4>1 DEF Register!Report
      <4> QED BY <4>2 DEF Register!Next
    <3> QED BY <1>2, <2>5, <3>3, <3>4, <3>5, HistoryEffect
  <2> QED BY <2>3, <2>4, <2>5
<1> QED BY <1>1, <1>2, ContentAlways, PTL DEF Spec, ImplementsRegister, Register!Spec

(* An installation reported INSTALLED is the set in use, of the agreed     *)
(* sequence, and the one a reboot finds, as long as it is reported.        *)
THEOREM InstallIsDurable == ASSUME Dependable PROVE Spec => InstalledIsDurable
<1>1. ASSUME InstallInv', Content', inst'.st = "INSTALLED"
      PROVE  /\ cal'.active = saved' /\ cal'.aseq = inst'.seq
             /\ Restored(dev'.slots, NoSet) = cal'.active
  <2>1. cal'.active = saved' /\ cal'.aseq = inst'.seq /\ attempts' = {}
    BY <1>1 DEF InstallInv, Protocol, Content, Book
  <2> QED BY <1>1, <2>1, DurableNext
<1>2. InstallInv /\ Content /\ [Next]_vars => InstallInv' /\ Content'
  BY InstallNext, ContentNext
<1> QED BY <1>1, <1>2, ContentAlways, PTL DEF Spec, InstalledIsDurable

(* No command goes out on evidence that is not SAFE; and once an abort was *)
(* accepted the aborted set does not come to be found by a reboot: the     *)
(* commit word is not sent any more, and one that is still under way is of *)
(* an earlier attempt.                                                     *)
THEOREM InstallNothingUnwanted == ASSUME Dependable PROVE Spec => NothingUnwanted
<1>1. ASSUME InstallInv /\ Content, [Next]_vars, cal.abort
      PROVE  Restored(dev'.slots, NoSet) \in {Restored(dev.slots, NoSet), saved} \cup older
  <2>0. InstallInv' /\ Content' BY <1>1, InstallNext, ContentNext
  <2>1. StoreBusy /\ cal.store \notin {"COMMIT_WAIT", "VERIFY"}
    BY <1>1 DEF InstallInv, Protocol
  <2>2. dev.chip.kind = "MARK" => dev.chip.val \in older
    BY <1>1, <2>1 DEF Content, Verified, MarkDue
  <2>3. /\ cal \in Calibrations /\ Target = To(cal) /\ saved = cal.active
        /\ cal.active = NoSet => cal.aslot = "A" /\ cal.aseq = 0
    BY <1>1, TargetIsTo DEF InstallInv, TypeOK, Protocol, Content, Book
  <2>4. CASE ChipDone \/ PowerLoss
    <3>1. /\ dev'.slots \in [Slots -> Sectors] /\ Kept(cal, dev'.slots)
          /\ Renewed(cal, dev'.slots) =>
                \/ Renewed(cal, dev.slots) /\ dev'.slots[Target].head = Spare.head
                \/ /\ dev.chip.kind = "MARK" /\ dev'.slots[Target].head = dev.chip.val
                   /\ dev.chip.val \in attempts
      <4>1. CASE PowerLoss BY <1>1, <4>1, PowerLossSlots
      <4>2. CASE ChipDone
        <5>1. /\ dev'.slots \in [Slots -> Sectors] /\ dev.chip.kind \in OpsOfSet
              /\ \A x \in Slots \ {Target} : dev'.slots[x] = dev.slots[x]
              /\ Altered(dev'.slots[Target], Spare, dev.chip)
          BY <1>1, <4>2, ChipDoneEffect DEF Spare
        <5> QED BY <1>1, <5>1, SlotsAltered
      <4> QED BY <2>4, <4>1, <4>2
    <3>2. Restored(dev'.slots, NoSet) =
            IF Renewed(cal, dev'.slots) THEN dev'.slots[To(cal)].head ELSE cal.active
      BY <2>3, <3>1, RestoredIs
    <3>3. Renewed(cal, dev.slots) => Restored(dev.slots, NoSet) = Spare.head
      BY <1>1, DurableIs
    <3> QED BY <2>2, <2>3, <3>1, <3>2, <3>3
  <2>5. CASE ~ChipDone /\ ~PowerLoss
    <3>1. dev'.slots = dev.slots BY <1>1, <2>5, FlashEffect
    <3> QED BY <3>1
  <2> QED BY <2>4, <2>5
<1>2. Spec => AbortRollsBack
  BY <1>1, ContentAlways, PTL DEF Spec, AbortRollsBack
<1> QED BY <1>2, InstallNoUnsafeCommand DEF NothingUnwanted
=============================================================================
