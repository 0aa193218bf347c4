------------------------------- MODULE Upload -------------------------------
(***************************************************************************)
(* A resource pack sent by the PC tool (pc_link_resource_pack.py), taken   *)
(* frame by frame by app_shell.c, erased and programmed into the resource  *)
(* partition by app_resource_update.c, and mounted by resource_store.c.    *)
(*                                                                         *)
(* A pack is Len(ChunkEnds) chunks; a cell is what one program command     *)
(* writes: a chunk is split where it crosses a page, so it is one cell or  *)
(* several.  Chunk i ends with cell ChunkEnds[i], sector j with cell       *)
(* SectorEnds[j].                                                          *)
(***************************************************************************)
EXTENDS Integers, Sequences

CONSTANTS
    Packs,          \* the packs the tool may send
    ChunkEnds, SectorEnds,
    Checked,        \* the cells a mount verifies: header, table, texts, fonts
    Failures,       \* "BUS": a transfer fails; "SLOW": the driver times out;
                    \* "LINE": a frame is lost or damaged; "POWER"
    Strays,         \* other frames a PC may send
    MaxReplies      \* bound: the environment waits for replies to be read

ASSUME UploadAssumption ==
    /\ {"ERASED", "TORN", "NONE"} \cap Packs = {}
    /\ Failures \subseteq {"BUS", "SLOW", "LINE", "POWER"}
    /\ Strays \subseteq {"ABORT", "BAD_BEGIN", "END"}

(* Chunks and sectors follow one another, none is empty, and the sectors   *)
(* erased hold the whole pack.                                             *)
Ascending(ends) ==
    ends \in Seq(Nat \ {0}) /\ \A i, j \in DOMAIN ends : i < j => ends[i] < ends[j]
ASSUME LayoutAssumption ==
    /\ Ascending(ChunkEnds) /\ Ascending(SectorEnds) /\ SectorEnds # <<>>
    /\ \A i \in DOMAIN ChunkEnds : ChunkEnds[i] <= SectorEnds[Len(SectorEnds)]

Chunks == 1 .. Len(ChunkEnds)
Sectors == 1 .. Len(SectorEnds)
Cells == 1 .. SectorEnds[Len(SectorEnds)]
Before(ends, i) == IF i = 1 THEN 0 ELSE ends[i - 1]
CellsOf(ends, i) == Before(ends, i) + 1 .. ends[i]

VARIABLES
    flash,      \* what each cell holds
    chip,       \* the operation the chip is busy with
    pending,    \* the driver has noted an operation (device->operation)
    u,          \* app_resource_update_t
    configured, \* g_resource_update_configured
    owned,      \* g_resource_update_workspace_acquired, and the workspace's owner
    deferred,   \* g_pc_link_ack_deferred, and the sequence to acknowledge
    status,     \* g_resource_status
    view,       \* the product's screen, as far as uploads go
    line,       \* a frame on its way to the receiver
    replies,    \* status frames on their way to the tool
    tool,       \* send_serial
    tainted     \* history: the driver lost track of the chip, since power-up
                \* or since before the upload under way
device == <<flash, chip, pending, tainted>>
link == <<u, configured, owned, deferred, status>>
vars == <<device, link, view, line, replies, tool>>

(***************************************************************************)
(* The chip and its driver (w25q_device.c).                                *)
(***************************************************************************)
Contents == Packs \cup {"ERASED", "TORN"}
Operations == [kind : {"ERASE"}, at : Sectors, pack : {"NONE"}]
              \cup [kind : {"PROGRAM"}, at : Cells, pack : Packs]
Idle == [kind |-> "NONE", at |-> 0, pack |-> "NONE"]

Done(op) ==
    CASE op.kind = "NONE" -> flash
      [] op.kind = "ERASE" ->
            [c \in Cells |-> IF c \in CellsOf(SectorEnds, op.at) THEN "ERASED" ELSE flash[c]]
      [] op.kind = "PROGRAM" ->
            [flash EXCEPT ![op.at] = IF @ \in {"ERASED", op.pack} THEN op.pack ELSE "TORN"]
(* Power goes during an operation: each cell as it was, done, or torn. *)
Cut(op) ==
    {f \in [Cells -> Contents] : \A c \in Cells :
        IF Done(op)[c] = flash[c] THEN f[c] = flash[c]
        ELSE f[c] \in {flash[c], Done(op)[c], "TORN"}}

ChipDone ==
    /\ chip # Idle
    /\ flash' = Done(chip) /\ chip' = Idle
    /\ UNCHANGED <<pending, tainted, link, view, line, replies, tool>>

(* A start: BUSY says that the operation is under way, or that another is  *)
(* noted.  A busy chip ignores the command.                                *)
StartAnswers(op) ==
    IF pending
    THEN {[answer |-> "BUSY", chip |-> chip, pending |-> TRUE, tainted |-> tainted]}
    ELSE {[answer |-> "BUSY", chip |-> IF chip = Idle THEN op ELSE chip,
           pending |-> TRUE, tainted |-> tainted]}
         \cup {[answer |-> "ERROR", chip |-> c, pending |-> FALSE, tainted |-> TRUE] :
                c \in IF "BUS" \notin Failures THEN {}
                      ELSE {chip, IF chip = Idle THEN op ELSE chip}}
PollAnswers ==
    (IF ~pending
     THEN {[answer |-> "OK", chip |-> chip, pending |-> FALSE, tainted |-> tainted]}
     ELSE {IF chip = Idle
           THEN [answer |-> "OK", chip |-> Idle, pending |-> FALSE, tainted |-> tainted]
           ELSE [answer |-> "BUSY", chip |-> chip, pending |-> TRUE, tainted |-> tainted]}
          \cup {[answer |-> "ERROR", chip |-> chip, pending |-> FALSE, tainted |-> TRUE] :
                 x \in {"SLOW"} \cap Failures \cap IF chip = Idle THEN {} ELSE {"SLOW"}}
          \cup {[answer |-> "ERROR", chip |-> chip, pending |-> TRUE, tainted |-> TRUE] :
                 x \in {"BUS"} \cap Failures})
Driver(d) == chip' = d.chip /\ pending' = d.pending /\ tainted' = d.tainted /\ UNCHANGED flash

(***************************************************************************)
(* product_mount_resource_pack: what the flash holds is a pack as far as   *)
(* the mount looks.  DEFERRED: the driver is busy.                         *)
(***************************************************************************)
Statuses == {"OK", "DEFERRED", "BAD"}
Readable == \E p \in Packs : \A c \in Checked : flash[c] = p
MountAnswers(noted) ==
    IF noted THEN {"DEFERRED"}
    ELSE {IF chip = Idle /\ Readable THEN "OK" ELSE "BAD"}
         \cup IF "BUS" \in Failures THEN {"BAD"} ELSE {}

(***************************************************************************)
(* The update (app_resource_update.c): applied are the packs of the chunks *)
(* received, its running CRC; written the cells of the chunk at hand.      *)
(***************************************************************************)
BusyStates == {"ERASE_START", "ERASE_POLL", "PROGRAM_START", "PROGRAM_POLL"}
Updates == [st : BusyStates \cup {"IDLE", "READY", "COMPLETE", "ERROR"},
            pack : Packs \cup {"NONE"}, applied : UNION {[1 .. n -> Packs] : n \in 0 .. Len(ChunkEnds)},
            sector : Sectors, chunk : Packs \cup {"NONE"}, written : {0} \cup Cells]
FreshUpdate == [st |-> "IDLE", pack |-> "NONE", applied |-> <<>>, sector |-> 1,
                chunk |-> "NONE", written |-> 0]
Busy(r) == r.st \in BusyStates

(* accept_frame, for a session that was begun. *)
Sums(r, pack) == Len(r.applied) = Len(ChunkEnds) /\ \A i \in DOMAIN r.applied : r.applied[i] = pack
Begun(frame) ==
    IF frame.type = "BEGIN"
    THEN [FreshUpdate EXCEPT !.st = "ERASE_START", !.pack = frame.pack]
    ELSE [FreshUpdate EXCEPT !.st = "ERROR"]
Accepted(r, frame) ==
    CASE frame.type = "ABORT" -> FreshUpdate
      [] frame.type = "CHUNK" /\ frame.chunk = Len(r.applied) + 1 ->
            [r EXCEPT !.st = "PROGRAM_START", !.chunk = frame.pack,
                      !.written = Before(ChunkEnds, frame.chunk)]
      [] frame.type = "END" /\ frame.pack = r.pack /\ Sums(r, r.pack) ->
            [r EXCEPT !.st = "COMPLETE"]
      [] OTHER -> [r EXCEPT !.st = "ERROR"]
Outcome(r) == CASE r.st = "COMPLETE" -> "COMPLETE" [] r.st = "ERROR" -> "REFUSED" [] OTHER -> "OK"

(***************************************************************************)
(* The shell: replies, and the end of an update.                           *)
(***************************************************************************)
NoFrame == [type |-> "NONE", pack |-> "NONE", chunk |-> 0, seq |-> 0]
Reply(seq, outcome) == replies' = Append(replies, [seq |-> seq, outcome |-> outcome])

(* product_pc_link_finish_update_if_terminal; r keeps COMPLETE or ERROR    *)
(* until the next BEGIN, so each later reply comes here again.             *)
FinishIfTerminal(r, noted, conf, own, stat) ==
    /\ u' = r
    /\ IF r.st \in {"COMPLETE", "ERROR"}
       THEN /\ configured' = FALSE /\ owned' = FALSE
            /\ IF r.st = "ERROR" THEN status' = "BAD"
               ELSE \E m \in MountAnswers(noted) : status' = m
       ELSE configured' = conf /\ owned' = own /\ status' = stat

(* Seeded fault: the acknowledgement waits for the next frame. *)
SteppedSilently(r, d) ==
    /\ Driver(d)
    /\ u' = r /\ UNCHANGED <<configured, owned, status, deferred, replies>>
    /\ UNCHANGED <<view, line, tool>>

(* product_pc_link_step_update, once the update has stepped to r: when it  *)
(* is no longer busy the acknowledgement that waited goes out.             *)
Stepped(r, d) ==
    /\ Driver(d)
    /\ IF deferred # 0 /\ ~Busy(r)
       THEN /\ Reply(deferred, Outcome(r)) /\ deferred' = 0
            /\ FinishIfTerminal(r, d.pending, configured, owned, status)
       ELSE u' = r /\ UNCHANGED <<configured, owned, status, deferred, replies>>
    /\ UNCHANGED <<view, line, tool>>

Failed == [u EXCEPT !.st = "ERROR"]
EraseStart ==
    /\ configured /\ u.st = "ERASE_START"
    /\ \E d \in StartAnswers([kind |-> "ERASE", at |-> u.sector, pack |-> "NONE"]) :
         Stepped(IF d.answer = "BUSY" THEN [u EXCEPT !.st = "ERASE_POLL"] ELSE Failed, d)

NextSector(r) ==
    IF r.sector = Len(SectorEnds) THEN [r EXCEPT !.st = "READY"]
    ELSE [r EXCEPT !.st = "ERASE_START", !.sector = @ + 1]
ErasePoll ==
    /\ configured /\ u.st = "ERASE_POLL"
    /\ \E d \in PollAnswers :
         Stepped(CASE d.answer = "BUSY" -> u [] d.answer = "OK" -> NextSector(u)
                   [] OTHER -> Failed, d)

ProgramStart ==
    /\ configured /\ u.st = "PROGRAM_START"
    /\ \E d \in StartAnswers([kind |-> "PROGRAM", at |-> u.written + 1, pack |-> u.chunk]) :
         Stepped(IF d.answer = "BUSY" THEN [u EXCEPT !.st = "PROGRAM_POLL"] ELSE Failed, d)

(* Only once the whole chunk is programmed does it count as received. *)
NextCell(r) ==
    IF r.written + 1 < ChunkEnds[Len(r.applied) + 1]
    THEN [r EXCEPT !.st = "PROGRAM_START", !.written = @ + 1]
    ELSE [r EXCEPT !.st = "READY", !.written = 0, !.chunk = "NONE",
                   !.applied = Append(@, r.chunk)]
ProgramPoll ==
    /\ configured /\ u.st = "PROGRAM_POLL"
    /\ \E d \in PollAnswers :
         Stepped(CASE d.answer = "BUSY" -> u [] d.answer = "OK" -> NextCell(u)
                   [] OTHER -> Failed, d)

(***************************************************************************)
(* Receiving (product_pc_link_step_rx, _decode_ready_frame,                *)
(* _process_frame): nothing is read while an acknowledgement is deferred   *)
(* or the product is busy.                                                 *)
(***************************************************************************)
Receiving == deferred = 0 /\ view # "BUSY" /\ line # NoFrame
Taken == line' = NoFrame /\ UNCHANGED <<device, tool>>
Stay == FinishIfTerminal(u, pending, configured, owned, status)

(* The line lost bytes, and the receiver starts afresh; or the CRC fails.  *)
Lost == /\ "LINE" \in Failures /\ line # NoFrame
        /\ Taken /\ UNCHANGED <<link, view, replies>>
Damaged == /\ "LINE" \in Failures /\ Receiving
           /\ Taken /\ Reply(line.seq, "REFUSED") /\ Stay /\ UNCHANGED <<deferred, view>>

(* app_product_request_resource_upload: from READY, when all is at rest.   *)
ViewFor(frame, atRest) ==
    IF frame.type \in {"BEGIN", "BAD_BEGIN"} /\ view = "READY" /\ atRest THEN "PC_LINK" ELSE view

Refuse == Reply(line.seq, "REFUSED") /\ Stay /\ UNCHANGED deferred

(* The reply, or, when the update is busy with the frame, its deferral.    *)
(* Seeded fault: every accepted frame is acknowledged at once. *)
AnsweredAtOnce(r, conf, own, stat) ==
    /\ Reply(line.seq, Outcome(r)) /\ FinishIfTerminal(r, pending, conf, own, stat)
    /\ UNCHANGED deferred
Answered(r, conf, own, stat) ==
    IF Busy(r)
    THEN /\ u' = r /\ configured' = conf /\ owned' = own /\ status' = stat
         /\ deferred' = line.seq /\ UNCHANGED replies
    ELSE /\ Reply(line.seq, Outcome(r)) /\ FinishIfTerminal(r, pending, conf, own, stat)
         /\ UNCHANGED deferred

(* Seeded fault: the display goes on with the pack that is being replaced. *)
BeginServing == Answered(Begun(line), TRUE, TRUE, status)
Begin == Answered(Begun(line), TRUE, TRUE, "DEFERRED")
(* Seeded fault: the abort keeps the workspace. *)
AbortHolding ==
    /\ Reply(line.seq, "OK") /\ UNCHANGED <<deferred, owned>>
    /\ u' = FreshUpdate /\ configured' = FALSE
    /\ \E m \in MountAnswers(pending) : status' = m
Abort ==
    /\ Reply(line.seq, "OK") /\ UNCHANGED deferred
    /\ u' = FreshUpdate /\ configured' = FALSE /\ owned' = FALSE
    /\ \E m \in MountAnswers(pending) : status' = m

Process ==
    /\ Receiving /\ Taken
    /\ \E atRest \in BOOLEAN :
         /\ view' = ViewFor(line, atRest)
         /\ IF view' # "PC_LINK" THEN Refuse
            ELSE IF line.type \in {"BEGIN", "BAD_BEGIN"}
            THEN IF owned THEN Refuse ELSE Begin
            ELSE IF ~configured THEN Refuse
            ELSE IF line.type = "ABORT" THEN Abort
            ELSE Answered(Accepted(u, line), configured, owned, status)

(***************************************************************************)
(* The rest of the pass: the product, and the poll nobody owns.            *)
(***************************************************************************)
Views == {"READY", "BUSY", "PC_LINK"}
(* Without a pack only the upload screen is left; BUSY is any screen that  *)
(* keeps the receiver blocked.                                             *)
Product ==
    /\ view' \in IF status # "OK" THEN {"PC_LINK"} ELSE Views
    /\ UNCHANGED <<device, link, line, replies, tool>>

GenericPoll ==
    /\ u.st \in {"IDLE", "COMPLETE", "ERROR"}
    /\ \E d \in PollAnswers : Driver(d)
    /\ UNCHANGED <<link, view, line, replies, tool>>

(* At boot the pack is mounted whatever the update was doing. *)
PowerLoss ==
    /\ "POWER" \in Failures
    /\ flash' \in Cut(chip) /\ chip' = Idle /\ pending' = FALSE
    /\ tainted' = (tainted /\ tool.at # 0)
    /\ u' = FreshUpdate /\ configured' = FALSE /\ owned' = FALSE /\ deferred' = 0
    /\ status' = IF \E p \in Packs : \A c \in Checked : flash'[c] = p THEN "OK" ELSE "BAD"
    /\ view' = "BUSY" /\ line' = NoFrame /\ UNCHANGED <<replies, tool>>

(***************************************************************************)
(* The PC.  send_serial sends frame after frame, each once the one before  *)
(* was acknowledged, and stops at anything else; tool.at is the frame      *)
(* whose acknowledgement it awaits, 0 when it does not run.                *)
(***************************************************************************)
LastFrame == Len(ChunkEnds) + 2
FrameAt(pack, i) ==
    [type |-> CASE i = 1 -> "BEGIN" [] i = LastFrame -> "END" [] OTHER -> "CHUNK",
     pack |-> pack, chunk |-> IF i \in {1, LastFrame} THEN 0 ELSE i - 1, seq |-> i]
Frames == {NoFrame} \cup {FrameAt(p, i) : p \in Packs, i \in 1 .. LastFrame}
          \cup [type : Strays, pack : Packs, chunk : {0}, seq : {LastFrame + 1}]
Tools == [at : 0 .. LastFrame, pack : Packs \cup {"NONE"}]
NotRunning == [at |-> 0, pack |-> "NONE"]

(* Opening the port drops what had been received. *)
ToolStarts ==
    /\ tool = NotRunning /\ line = NoFrame
    /\ \E p \in Packs : line' = FrameAt(p, 1) /\ tool' = [at |-> 1, pack |-> p]
    /\ replies' = <<>>
    /\ UNCHANGED <<device, link, view>>

ToolReads ==
    /\ tool.at # 0 /\ replies # <<>>
    /\ LET expected == IF tool.at = LastFrame THEN "COMPLETE" ELSE "OK"
           good == Head(replies) = [seq |-> tool.at, outcome |-> expected]
       IN  IF good /\ tool.at < LastFrame
           THEN /\ line = NoFrame
                /\ tool' = [tool EXCEPT !.at = @ + 1]
                /\ line' = FrameAt(tool.pack, tool.at + 1)
           ELSE tool' = NotRunning /\ UNCHANGED line
    /\ replies' = Tail(replies)
    /\ UNCHANGED <<device, link, view>>

ToolGivesUp ==
    /\ tool.at # 0 /\ tool' = NotRunning
    /\ UNCHANGED <<device, link, view, line, replies>>

Stray ==
    /\ line = NoFrame /\ Len(replies) < MaxReplies
    /\ \E t \in Strays, p \in Packs :
         line' = [type |-> t, pack |-> p, chunk |-> 0, seq |-> LastFrame + 1]
    /\ UNCHANGED <<device, link, view, replies, tool>>

(***************************************************************************)
Init ==
    /\ flash \in [Cells -> {"ERASED"}] \cup {[c \in Cells |-> p] : p \in Packs}
    /\ chip = Idle /\ pending = FALSE /\ tainted = FALSE
    /\ u = FreshUpdate /\ configured = FALSE /\ owned = FALSE /\ deferred = 0
    /\ status = IF Readable THEN "OK" ELSE "BAD"
    /\ view = "BUSY" /\ line = NoFrame /\ replies = <<>> /\ tool = NotRunning

Step == EraseStart \/ ErasePoll \/ ProgramStart \/ ProgramPoll
Next ==
    \/ Step \/ Process \/ Lost \/ Damaged \/ Product \/ GenericPoll
    \/ ChipDone \/ PowerLoss
    \/ ToolStarts \/ ToolReads \/ ToolGivesUp \/ Stray
Spec == Init /\ [][Next]_vars
(* The super-loop keeps stepping the update, and the chip gets done. *)
FairSpec == Spec /\ WF_vars(Step) /\ WF_vars(ChipDone)

(***************************************************************************)
TypeOK ==
    /\ flash \in [Cells -> Contents] /\ chip \in Operations \cup {Idle}
    /\ pending \in BOOLEAN /\ tainted \in BOOLEAN
    /\ u \in Updates /\ configured \in BOOLEAN /\ owned \in BOOLEAN
    /\ deferred \in 0 .. LastFrame + 1 /\ status \in Statuses /\ view \in Views
    /\ line \in Frames /\ tool \in Tools
    /\ replies \in Seq([seq : 1 .. LastFrame + 1, outcome : {"OK", "COMPLETE", "REFUSED"}])

(* Whatever the display is served from is one pack: from the first erase   *)
(* of an upload to the mount that verifies it the resources are deferred,  *)
(* also when the upload fails, is aborted, or when power goes.             *)
ServedWhole == status = "OK" => Readable /\ chip = Idle /\ ~configured

(* What the tool was told is stored is stored: the sectors erased and the  *)
(* chunks programmed, unless the driver lost track of the chip.            *)
AcknowledgedIsStored ==
    ~tainted => \A i \in 1 .. tool.at - 2 : i \in Chunks =>
                   \A c \in CellsOf(ChunkEnds, i) : flash[c] = tool.pack

(* The workspace is held exactly while a session is configured, and an     *)
(* update works on a frame only within a session.                          *)
WorkspaceAccounted == owned = configured /\ (Busy(u) => configured)

(* Each frame that makes the update work is answered in the end. *)
AckArrives == deferred # 0 ~> deferred = 0
=============================================================================
