--------------------------- MODULE Upload_proofs ----------------------------
(***************************************************************************)
(* Whatever packs, chunks and sectors there are, and whatever fails: the   *)
(* display is served from one whole pack only, the shared workspace is     *)
(* held exactly while a session is configured, and what the tool was told  *)
(* is stored is stored.                                                    *)
(*                                                                         *)
(* The first two need each other: a session that is configured has         *)
(* deferred the resources, and only its end, which mounts what the flash   *)
(* then holds, serves them again; an update works, and so programs the     *)
(* flash, only while it is configured.  Of the types it is enough for them *)
(* that the update has a state and that two flags are Boolean.             *)
(*                                                                         *)
(* The third needs all the types, and two invariants more: Talk, of what   *)
(* is on its way between the tool and the update, and Kept, of what the    *)
(* cells hold while the driver keeps track of the chip.                    *)
(***************************************************************************)
EXTENDS Upload, TLAPS

Update(r) == "st" \in DOMAIN r
UploadTypes == Update(u) /\ configured \in BOOLEAN /\ pending \in BOOLEAN
UploadInv == UploadTypes /\ ServedWhole /\ WorkspaceAccounted

LEMMA FreshIsUpdate == Update(FreshUpdate) /\ FreshUpdate.st = "IDLE" /\ ~Busy(FreshUpdate)
BY DEF Update, FreshUpdate, Busy, BusyStates

LEMMA UploadInit == Init => UploadInv
BY FreshIsUpdate DEF Init, UploadInv, UploadTypes, ServedWhole, WorkspaceAccounted

(* A change of state is an update in that state.                           *)
LEMMA StateChanged ==
    ASSUME NEW r, Update(r), NEW s
    PROVE  Update([r EXCEPT !.st = s]) /\ [r EXCEPT !.st = s].st = s
BY DEF Update

LEMMA NextSectorState ==
    ASSUME NEW r, Update(r)
    PROVE  Update(NextSector(r)) /\ NextSector(r).st \in {"READY", "ERASE_START"}
BY DEF Update, NextSector

LEMMA NextCellState ==
    ASSUME NEW r, Update(r)
    PROVE  Update(NextCell(r)) /\ NextCell(r).st \in {"READY", "PROGRAM_START"}
BY DEF Update, NextCell

(* Only an END completes an update; no frame makes it forget its state.    *)
LEMMA AcceptedUpdate == ASSUME NEW r, Update(r), NEW f PROVE Update(Accepted(r, f))
BY FreshIsUpdate DEF Update, Accepted

LEMMA BegunUpdate == ASSUME NEW f PROVE Update(Begun(f))
BY FreshIsUpdate DEF Update, Begun

(* The end of a session: what is mounted is what the flash holds.          *)
LEMMA FinishKeeps ==
    ASSUME NEW r, Update(r), NEW noted, NEW conf \in BOOLEAN, NEW stat,
           Busy(r) => conf,
           stat = "OK" => Readable /\ chip = Idle /\ ~conf,
           FinishIfTerminal(r, noted, conf, conf, stat),
           UNCHANGED <<flash, chip>>, pending' \in BOOLEAN
    PROVE  UploadInv'
<1>1. u' = r /\ Update(u)' BY DEF FinishIfTerminal, Update
<1>2. Readable' = Readable /\ chip' = chip BY DEF Readable
<1>3. CASE r.st \in {"COMPLETE", "ERROR"}
  <2>1. configured' = FALSE /\ owned' = FALSE BY <1>3 DEF FinishIfTerminal
  <2>2. status' = "OK" => Readable /\ chip = Idle
    BY <1>3 DEF FinishIfTerminal, MountAnswers
  <2>3. ~Busy(r) BY <1>3 DEF Busy, BusyStates
  <2>4. WorkspaceAccounted' BY <1>1, <2>1, <2>3 DEF WorkspaceAccounted, Busy
  <2>5. ServedWhole' BY <1>2, <2>1, <2>2 DEF ServedWhole
  <2>6. QED BY <1>1, <2>1, <2>4, <2>5 DEF UploadInv, UploadTypes
<1>4. CASE r.st \notin {"COMPLETE", "ERROR"}
  <2>1. configured' = conf /\ owned' = conf /\ status' = stat
    BY <1>4 DEF FinishIfTerminal
  <2>2. WorkspaceAccounted' BY <1>1, <2>1 DEF WorkspaceAccounted, Busy
  <2>3. ServedWhole' BY <1>2, <2>1 DEF ServedWhole
  <2>4. QED BY <1>1, <2>1, <2>2, <2>3 DEF UploadInv, UploadTypes
<1>5. QED BY <1>3, <1>4

(* A step of the update: the driver answers, and the acknowledgement that  *)
(* waited may go out.  The session is configured, so nothing is served,    *)
(* and a step does not complete it.                                        *)
LEMMA SteppedKeeps ==
    ASSUME UploadInv, configured, NEW r, Update(r), r.st # "COMPLETE",
           NEW d, d.pending \in BOOLEAN, Stepped(r, d)
    PROVE  UploadInv'
<1>1. status # "OK" /\ owned = TRUE /\ configured = TRUE
  BY DEF UploadInv, UploadTypes, ServedWhole, WorkspaceAccounted
<1>2. u' = r /\ Update(u)' /\ pending' \in BOOLEAN
  BY DEF Stepped, FinishIfTerminal, Driver, Update
<1>3. CASE deferred # 0 /\ ~Busy(r) /\ r.st = "ERROR"
  <2>1. configured' = FALSE /\ owned' = FALSE /\ status' = "BAD"
    BY <1>3 DEF Stepped, FinishIfTerminal
  <2>2. ServedWhole' BY <2>1 DEF ServedWhole
  <2>3. WorkspaceAccounted' BY <1>2, <1>3, <2>1 DEF WorkspaceAccounted, Busy
  <2>4. QED BY <1>2, <2>1, <2>2, <2>3 DEF UploadInv, UploadTypes
<1>4. CASE ~(deferred # 0 /\ ~Busy(r) /\ r.st = "ERROR")
  <2>1. configured' = configured /\ owned' = owned /\ status' = status
    BY <1>4 DEF Stepped, FinishIfTerminal
  <2>2. ServedWhole' BY <1>1, <2>1 DEF ServedWhole
  <2>3. WorkspaceAccounted' BY <1>1, <2>1 DEF WorkspaceAccounted
  <2>4. QED BY <1>1, <1>2, <2>1, <2>2, <2>3 DEF UploadInv, UploadTypes
<1>5. QED BY <1>3, <1>4

(* What the driver notes is a Boolean.                                     *)
LEMMA DriverAnswers ==
    /\ \A op : \A d \in StartAnswers(op) : d.pending \in BOOLEAN
    /\ \A d \in PollAnswers : d.pending \in BOOLEAN
<1>1. ASSUME NEW op, NEW d \in StartAnswers(op) PROVE d.pending \in BOOLEAN
  <2>1. d.pending = TRUE \/ d.pending = FALSE BY <1>1 DEF StartAnswers
  <2>2. QED BY <2>1
<1>2. ASSUME NEW d \in PollAnswers PROVE d.pending \in BOOLEAN
  <2>1. d.pending = TRUE \/ d.pending = FALSE BY <1>2 DEF PollAnswers
  <2>2. QED BY <2>1
<1>3. QED BY <1>1, <1>2

LEMMA StepKeeps == ASSUME UploadInv, Step PROVE UploadInv'
<1> USE DriverAnswers
<1>0. UploadTypes /\ Update(u) BY DEF UploadInv, UploadTypes
<1>1. Update(Failed) /\ Failed.st = "ERROR" BY <1>0, StateChanged DEF Failed
<1>2. \A s : Update([u EXCEPT !.st = s]) /\ [u EXCEPT !.st = s].st = s
  BY <1>0, StateChanged
<1>3. ASSUME EraseStart PROVE UploadInv'
  <2>1. PICK d \in StartAnswers([kind |-> "ERASE", at |-> u.sector, pack |-> "NONE"]) :
          configured /\ Stepped(IF d.answer = "BUSY" THEN [u EXCEPT !.st = "ERASE_POLL"]
                                ELSE Failed, d)
    BY <1>3 DEF EraseStart
  <2>2. CASE d.answer = "BUSY"
    <3> DEFINE polling == [u EXCEPT !.st = "ERASE_POLL"]
    <3>1. Stepped(polling, d) BY <2>1, <2>2
    <3>2. Update(polling) /\ polling.st # "COMPLETE" BY <1>2
    <3>3. configured /\ d.pending \in BOOLEAN BY <2>1
    <3> HIDE DEF polling
    <3>4. QED BY <3>1, <3>2, <3>3, SteppedKeeps
  <2>3. CASE d.answer # "BUSY" BY <1>0, <1>1, <2>1, <2>3, SteppedKeeps
  <2>4. QED BY <2>2, <2>3
<1>4. ASSUME ErasePoll PROVE UploadInv'
  <2>1. PICK d \in PollAnswers :
          configured /\ Stepped(CASE d.answer = "BUSY" -> u [] d.answer = "OK" -> NextSector(u)
                                 [] OTHER -> Failed, d)
    BY <1>4 DEF ErasePoll
  <2>2. u.st # "COMPLETE" BY <1>4 DEF ErasePoll
  <2>3. CASE d.answer = "BUSY" BY <1>0, <2>1, <2>2, <2>3, SteppedKeeps
  <2>4. CASE d.answer = "OK" BY <1>0, <2>1, <2>4, NextSectorState, SteppedKeeps
  <2>5. CASE d.answer \notin {"BUSY", "OK"} BY <1>0, <1>1, <2>1, <2>5, SteppedKeeps
  <2>6. QED BY <2>3, <2>4, <2>5
<1>5. ASSUME ProgramStart PROVE UploadInv'
  <2>1. PICK d \in StartAnswers([kind |-> "PROGRAM", at |-> u.written + 1, pack |-> u.chunk]) :
          configured /\ Stepped(IF d.answer = "BUSY" THEN [u EXCEPT !.st = "PROGRAM_POLL"]
                                ELSE Failed, d)
    BY <1>5 DEF ProgramStart
  <2>2. CASE d.answer = "BUSY"
    <3> DEFINE polling == [u EXCEPT !.st = "PROGRAM_POLL"]
    <3>1. Stepped(polling, d) BY <2>1, <2>2
    <3>2. Update(polling) /\ polling.st # "COMPLETE" BY <1>2
    <3>3. configured /\ d.pending \in BOOLEAN BY <2>1
    <3> HIDE DEF polling
    <3>4. QED BY <3>1, <3>2, <3>3, SteppedKeeps
  <2>3. CASE d.answer # "BUSY" BY <1>0, <1>1, <2>1, <2>3, SteppedKeeps
  <2>4. QED BY <2>2, <2>3
<1>6. ASSUME ProgramPoll PROVE UploadInv'
  <2>1. PICK d \in PollAnswers :
          configured /\ Stepped(CASE d.answer = "BUSY" -> u [] d.answer = "OK" -> NextCell(u)
                                 [] OTHER -> Failed, d)
    BY <1>6 DEF ProgramPoll
  <2>2. u.st # "COMPLETE" BY <1>6 DEF ProgramPoll
  <2>3. CASE d.answer = "BUSY" BY <1>0, <2>1, <2>2, <2>3, SteppedKeeps
  <2>4. CASE d.answer = "OK" BY <1>0, <2>1, <2>4, NextCellState, SteppedKeeps
  <2>5. CASE d.answer \notin {"BUSY", "OK"} BY <1>0, <1>1, <2>1, <2>5, SteppedKeeps
  <2>6. QED BY <2>3, <2>4, <2>5
<1>7. QED BY <1>3, <1>4, <1>5, <1>6 DEF Step

(* What a frame leaves the session in, answered at once or not.            *)
LEMMA AnsweredKeeps ==
    ASSUME UploadInv, NEW r, Update(r), NEW conf \in BOOLEAN, NEW stat,
           Busy(r) => conf,
           stat = "OK" => Readable /\ chip = Idle /\ ~conf,
           Answered(r, conf, conf, stat), UNCHANGED device
    PROVE  UploadInv'
<1>1. pending' \in BOOLEAN /\ UNCHANGED <<flash, chip>>
  BY DEF UploadInv, UploadTypes, device
<1>2. CASE Busy(r)
  <2>1. u' = r /\ configured' = conf /\ owned' = conf /\ status' = stat
    BY <1>2 DEF Answered
  <2>2. Readable' = Readable /\ chip' = chip BY <1>1 DEF Readable
  <2>3. ServedWhole' BY <2>1, <2>2 DEF ServedWhole
  <2>4. WorkspaceAccounted' BY <1>2, <2>1 DEF WorkspaceAccounted
  <2>5. QED BY <1>1, <2>1, <2>3, <2>4 DEF UploadInv, UploadTypes, Update
<1>3. CASE ~Busy(r)
  <2>1. FinishIfTerminal(r, pending, conf, conf, stat) BY <1>3 DEF Answered
  <2>2. QED BY <1>1, <2>1, FinishKeeps
<1>4. QED BY <1>2, <1>3

(* A reply that changes nothing else comes by the end of a session too.    *)
LEMMA StayKeeps == ASSUME UploadInv, Stay, UNCHANGED device PROVE UploadInv'
<1>1. Update(u) /\ configured \in BOOLEAN /\ owned = configured /\ (Busy(u) => configured)
  BY DEF UploadInv, UploadTypes, WorkspaceAccounted
<1>2. status = "OK" => Readable /\ chip = Idle /\ ~configured BY DEF UploadInv, ServedWhole
<1>3. FinishIfTerminal(u, pending, configured, configured, status) BY <1>1 DEF Stay
<1>4. UNCHANGED <<flash, chip>> /\ pending' \in BOOLEAN
  BY DEF UploadInv, UploadTypes, device
<1>5. QED BY <1>1, <1>2, <1>3, <1>4, FinishKeeps

LEMMA ProcessKeeps == ASSUME UploadInv, Process PROVE UploadInv'
<1>1. UNCHANGED device BY DEF Process, Taken
<1>2. CASE Refuse BY <1>1, <1>2, StayKeeps DEF Refuse
<1>3. CASE Begin
  <2>1. Answered(Begun(line), TRUE, TRUE, "DEFERRED") BY <1>3 DEF Begin
  <2>2. QED BY <1>1, <2>1, BegunUpdate, AnsweredKeeps
<1>4. CASE Abort
  <2>1. u' = FreshUpdate /\ configured' = FALSE /\ owned' = FALSE BY <1>4 DEF Abort
  <2>2. status' = "OK" => Readable /\ chip = Idle BY <1>4 DEF Abort, MountAnswers
  <2>3. Readable' = Readable /\ chip' = chip /\ pending' = pending
    BY <1>1 DEF Readable, device
  <2>4. ServedWhole' BY <2>1, <2>2, <2>3 DEF ServedWhole
  <2>5. WorkspaceAccounted' BY <2>1, FreshIsUpdate DEF WorkspaceAccounted
  <2>6. QED BY <2>1, <2>3, <2>4, <2>5, FreshIsUpdate DEF UploadInv, UploadTypes
<1>5. CASE configured /\ Answered(Accepted(u, line), configured, owned, status)
  <2>1. Update(u) /\ configured \in BOOLEAN /\ owned = configured
    BY DEF UploadInv, UploadTypes, WorkspaceAccounted
  <2>2. status # "OK" BY <1>5 DEF UploadInv, ServedWhole
  <2>3. Answered(Accepted(u, line), configured, configured, status) BY <1>5, <2>1
  <2>4. Update(Accepted(u, line)) BY <2>1, AcceptedUpdate
  <2>5. QED BY <1>1, <1>5, <2>1, <2>2, <2>3, <2>4, AnsweredKeeps
<1>6. QED BY <1>2, <1>3, <1>4, <1>5 DEF Process

(* The chip: while a pack is served it is idle, and nobody commands it.    *)
LEMMA ChipKeeps == ASSUME UploadInv, ChipDone \/ GenericPoll PROVE UploadInv'
<1>1. UNCHANGED link BY DEF ChipDone, GenericPoll
<1>2. WorkspaceAccounted' BY <1>1 DEF UploadInv, WorkspaceAccounted, link, Busy
<1>3. ASSUME ChipDone PROVE UploadInv'
  <2>1. chip # Idle /\ pending' = pending BY <1>3 DEF ChipDone
  <2>2. ServedWhole' BY <1>1, <2>1 DEF UploadInv, ServedWhole, link
  <2>3. QED BY <1>1, <1>2, <2>1, <2>2 DEF UploadInv, UploadTypes, Update, link
<1>4. ASSUME GenericPoll PROVE UploadInv'
  <2>1. PICK d \in PollAnswers : Driver(d) BY <1>4 DEF GenericPoll
  <2>2. d.pending \in BOOLEAN /\ d.chip = chip BY <2>1, DriverAnswers DEF PollAnswers, UploadInv
  <2>3. chip' = chip /\ flash' = flash /\ pending' \in BOOLEAN BY <2>1, <2>2 DEF Driver
  <2>4. ServedWhole' BY <1>1, <2>3 DEF UploadInv, ServedWhole, Readable, link
  <2>5. QED BY <1>1, <1>2, <2>3, <2>4 DEF UploadInv, UploadTypes, Update, link
<1>5. QED BY <1>3, <1>4

(* Power loss: the mount at boot looks at what the cut has left.           *)
LEMMA PowerLossKeeps == ASSUME UploadInv, PowerLoss PROVE UploadInv'
<1>1. /\ u' = FreshUpdate /\ configured' = FALSE /\ owned' = FALSE
      /\ pending' = FALSE /\ chip' = Idle
  BY DEF PowerLoss
<1>2. status' = "OK" => Readable' BY DEF PowerLoss, Readable
<1>3. ServedWhole' BY <1>1, <1>2 DEF ServedWhole, Idle
<1>4. WorkspaceAccounted' BY <1>1, FreshIsUpdate DEF WorkspaceAccounted
<1>5. QED BY <1>1, <1>3, <1>4, FreshIsUpdate DEF UploadInv, UploadTypes

LEMMA OthersKeep == ASSUME UploadInv, UNCHANGED <<device, link>> PROVE UploadInv'
<1>1. Readable' = Readable BY DEF Readable, device
<1>2. QED BY <1>1 DEF UploadInv, UploadTypes, Update, ServedWhole, WorkspaceAccounted, Busy,
                      device, link

LEMMA UploadNext == UploadInv /\ [Next]_vars => UploadInv'
<1> SUFFICES ASSUME UploadInv, [Next]_vars PROVE UploadInv' OBVIOUS
<1>1. CASE Step BY <1>1, StepKeeps
<1>2. CASE Process BY <1>2, ProcessKeeps
<1>3. CASE Damaged BY <1>3, StayKeeps DEF Damaged, Taken
<1>4. CASE ChipDone \/ GenericPoll BY <1>4, ChipKeeps
<1>5. CASE PowerLoss BY <1>5, PowerLossKeeps
<1>6. CASE Lost BY <1>6, OthersKeep DEF Lost, Taken
<1>7. CASE Product BY <1>7, OthersKeep DEF Product
<1>8. CASE ToolStarts \/ ToolReads \/ ToolGivesUp \/ Stray
  BY <1>8, OthersKeep DEF ToolStarts, ToolReads, ToolGivesUp, Stray
<1>9. CASE UNCHANGED vars BY <1>9, OthersKeep DEF vars
<1>10. QED BY <1>1, <1>2, <1>3, <1>4, <1>5, <1>6, <1>7, <1>8, <1>9 DEF Next

(* Whatever the display is served from is one pack: through failures,      *)
(* aborts and losses of power of an upload (product_mount_resource_pack).  *)
THEOREM UploadServesWhole == Spec => []ServedWhole
<1>1. UploadInv => ServedWhole BY DEF UploadInv
<1>2. QED BY <1>1, UploadInit, UploadNext, PTL DEF Spec

(* The workspace is lent exactly while a session is configured, and an     *)
(* update works within one only (g_resource_update_workspace_acquired).    *)
THEOREM UploadWorkspaceReturned == Spec => []WorkspaceAccounted
<1>1. UploadInv => WorkspaceAccounted BY DEF UploadInv
<1>2. QED BY <1>1, UploadInit, UploadNext, PTL DEF Spec

(***************************************************************************)
(* The layout of a pack.                                                   *)
(***************************************************************************)
Size == SectorEnds[Len(SectorEnds)]
LEMMA ChunkLayout ==
    /\ Len(ChunkEnds) \in Nat /\ DOMAIN ChunkEnds = Chunks
    /\ Size \in Nat /\ Cells = 1 .. Size
    /\ \A i \in Chunks : /\ ChunkEnds[i] \in Nat /\ Before(ChunkEnds, i) \in Nat
                         /\ Before(ChunkEnds, i) < ChunkEnds[i] /\ ChunkEnds[i] <= Size
    /\ \A i, j \in Chunks : i < j => ChunkEnds[i] <= Before(ChunkEnds, j)
    /\ \A i \in Chunks : Before(ChunkEnds, i + 1) = ChunkEnds[i]
<1>1. /\ ChunkEnds \in Seq(Nat \ {0}) /\ SectorEnds \in Seq(Nat \ {0}) /\ SectorEnds # <<>>
  BY LayoutAssumption DEF Ascending
<1>2. Len(ChunkEnds) \in Nat /\ DOMAIN ChunkEnds = Chunks /\ Len(SectorEnds) \in Nat
  BY <1>1 DEF Chunks
<1>3. Size \in Nat /\ Cells = 1 .. Size BY <1>1 DEF Size, Cells
<1>4. \A i \in Chunks : ChunkEnds[i] \in Nat /\ ChunkEnds[i] > 0 /\ ChunkEnds[i] <= Size
  <2>1. \A i \in DOMAIN ChunkEnds : ChunkEnds[i] \in Nat /\ ChunkEnds[i] > 0
    BY <1>1
  <2>2. QED BY <1>2, <2>1, LayoutAssumption DEF Size
<1>5. \A i, j \in Chunks : i < j => ChunkEnds[i] < ChunkEnds[j]
  BY <1>2, LayoutAssumption DEF Ascending
<1>6. \A i \in Chunks : i = 1 \/ (i - 1 \in Chunks /\ i - 1 < i) BY <1>2 DEF Chunks
<1>7. \A i \in Chunks : Before(ChunkEnds, i) \in Nat /\ Before(ChunkEnds, i) < ChunkEnds[i]
  BY <1>4, <1>5, <1>6 DEF Before
<1>8. \A i, j \in Chunks : i < j => ChunkEnds[i] <= Before(ChunkEnds, j)
  <2> SUFFICES ASSUME NEW i \in Chunks, NEW j \in Chunks, i < j
               PROVE  ChunkEnds[i] <= Before(ChunkEnds, j)
    OBVIOUS
  <2>1. j # 1 /\ j - 1 \in Chunks /\ (i = j - 1 \/ i < j - 1) BY <1>2 DEF Chunks
  <2>2. Before(ChunkEnds, j) = ChunkEnds[j - 1] BY <2>1 DEF Before
  <2>3. QED BY <1>4, <1>5, <2>1, <2>2
<1>9. \A i \in Chunks : Before(ChunkEnds, i + 1) = ChunkEnds[i]
  BY <1>2 DEF Before, Chunks
<1>10. QED BY <1>2, <1>3, <1>4, <1>7, <1>8, <1>9

LEMMA SectorLayout ==
    /\ Len(SectorEnds) \in Sectors /\ SectorEnds[Len(SectorEnds)] = Size
    /\ 1 \in Sectors
    /\ \A j \in Sectors : /\ SectorEnds[j] \in Nat /\ Before(SectorEnds, j) \in Nat
                          /\ j # Len(SectorEnds) => /\ j + 1 \in Sectors
                                                    /\ Before(SectorEnds, j + 1) = SectorEnds[j]
<1>1. SectorEnds \in Seq(Nat \ {0}) /\ SectorEnds # <<>>
  BY LayoutAssumption DEF Ascending
<1>2. /\ DOMAIN SectorEnds = Sectors /\ Len(SectorEnds) \in Nat /\ Len(SectorEnds) > 0
      /\ \A j \in Sectors : SectorEnds[j] \in Nat
  BY <1>1 DEF Sectors
<1>3. \A j \in Sectors : Before(SectorEnds, j) \in Nat
  <2>1. \A j \in Sectors : j = 1 \/ j - 1 \in Sectors BY <1>2 DEF Sectors
  <2>2. QED BY <1>2, <2>1 DEF Before
<1>4. \A j \in Sectors : j # Len(SectorEnds) =>
         j + 1 \in Sectors /\ Before(SectorEnds, j + 1) = SectorEnds[j]
  <2>1. \A j \in Sectors : j \in Nat /\ j > 0 /\ j <= Len(SectorEnds)
    BY <1>2 DEF Sectors
  <2>2. \A j \in Sectors : j + 1 # 1 /\ (j + 1) - 1 = j BY <2>1
  <2>3. \A j \in Sectors : Before(SectorEnds, j + 1) = SectorEnds[j] BY <2>2 DEF Before
  <2>4. \A j \in 1 .. Len(SectorEnds) : j # Len(SectorEnds) => j + 1 \in 1 .. Len(SectorEnds)
    BY <1>2
  <2>5. QED BY <2>3, <2>4 DEF Sectors
<1>5. Len(SectorEnds) \in Sectors /\ 1 \in Sectors BY <1>2 DEF Sectors
<1>6. QED BY <1>2, <1>3, <1>4, <1>5 DEF Size

(* The update, cell by cell: what is programmed lies in the chunk at hand. *)
Erases(r) == r.st \in {"ERASE_START", "ERASE_POLL"}
Programs(r) == r.st \in {"PROGRAM_START", "PROGRAM_POLL"}
NextChunk(r) == Len(r.applied) + 1
InBounds(r) ==
    Programs(r) => /\ NextChunk(r) \in Chunks /\ r.chunk \in Packs
                   /\ Before(ChunkEnds, NextChunk(r)) <= r.written
                   /\ r.written < ChunkEnds[NextChunk(r)]
States == BusyStates \cup {"IDLE", "READY", "COMPLETE", "ERROR"}
Applied == UNION {[1 .. n -> Packs] : n \in 0 .. Len(ChunkEnds)}

LEMMA AppliedIs ==
    /\ \A s \in Applied : s \in Seq(Packs) /\ Len(s) \in 0 .. Len(ChunkEnds)
    /\ \A s \in Seq(Packs) : Len(s) \in 0 .. Len(ChunkEnds) => s \in Applied
<1>1. ASSUME NEW s \in Applied PROVE s \in Seq(Packs) /\ Len(s) \in 0 .. Len(ChunkEnds)
  <2>1. PICK n \in 0 .. Len(ChunkEnds) : s \in [1 .. n -> Packs] BY DEF Applied
  <2>2. n \in Nat BY <2>1, ChunkLayout
  <2>3. s \in Seq(Packs) /\ Len(s) = n BY <2>1, <2>2
  <2>4. QED BY <2>1, <2>3
<1>2. ASSUME NEW s \in Seq(Packs), Len(s) \in 0 .. Len(ChunkEnds) PROVE s \in Applied
  <2>1. s \in [1 .. Len(s) -> Packs] OBVIOUS
  <2>2. QED BY <1>2, <2>1 DEF Applied
<1>3. QED BY <1>1, <1>2

LEMMA UpdateFields ==
    ASSUME NEW r \in Updates
    PROVE  /\ r = [st |-> r.st, pack |-> r.pack, applied |-> r.applied, sector |-> r.sector,
                   chunk |-> r.chunk, written |-> r.written]
           /\ r.st \in States /\ r.pack \in Packs \cup {"NONE"} /\ r.sector \in Sectors
           /\ r.chunk \in Packs \cup {"NONE"} /\ r.written \in {0} \cup Cells
           /\ r.written \in Nat /\ r.applied \in Applied /\ r.applied \in Seq(Packs)
           /\ Len(r.applied) \in 0 .. Len(ChunkEnds) /\ Len(r.applied) \in Nat
           /\ "st" \in DOMAIN r
<1>1. /\ r = [st |-> r.st, pack |-> r.pack, applied |-> r.applied, sector |-> r.sector,
              chunk |-> r.chunk, written |-> r.written]
      /\ r.st \in States /\ r.pack \in Packs \cup {"NONE"} /\ r.sector \in Sectors
      /\ r.chunk \in Packs \cup {"NONE"} /\ r.written \in {0} \cup Cells
      /\ r.applied \in Applied /\ "st" \in DOMAIN r
  BY DEF Updates, States, Applied
<1>2. r.written \in Nat BY <1>1, ChunkLayout
<1>3. r.applied \in Seq(Packs) /\ Len(r.applied) \in 0 .. Len(ChunkEnds) BY <1>1, AppliedIs
<1>4. Len(r.applied) \in Nat BY <1>3
<1>5. QED BY <1>1, <1>2, <1>3, <1>4

LEMMA UpdateMade ==
    ASSUME NEW s \in States, NEW p \in Packs \cup {"NONE"}, NEW a \in Applied,
           NEW j \in Sectors, NEW k \in Packs \cup {"NONE"}, NEW w \in {0} \cup Cells
    PROVE  [st |-> s, pack |-> p, applied |-> a, sector |-> j, chunk |-> k, written |-> w]
               \in Updates
BY DEF Updates, States, Applied

LEMMA UpdateStated ==
    ASSUME NEW r \in Updates, NEW s \in States
    PROVE  /\ [r EXCEPT !.st = s] \in Updates /\ [r EXCEPT !.st = s].st = s
           /\ [r EXCEPT !.st = s].applied = r.applied /\ [r EXCEPT !.st = s].chunk = r.chunk
           /\ [r EXCEPT !.st = s].written = r.written /\ [r EXCEPT !.st = s].sector = r.sector
           /\ [r EXCEPT !.st = s].pack = r.pack
BY DEF Updates, States

LEMMA FreshUpdated ==
    /\ FreshUpdate \in Updates /\ InBounds(FreshUpdate) /\ FreshUpdate.st = "IDLE"
    /\ ~Busy(FreshUpdate)
<1>1. <<>> \in Applied
  <2>1. <<>> \in Seq(Packs) /\ Len(<<>>) = 0 OBVIOUS
  <2>2. 0 \in 0 .. Len(ChunkEnds) BY ChunkLayout
  <2>3. QED BY <2>1, <2>2, AppliedIs
<1>2. "IDLE" \in States BY DEF States
<1>3. FreshUpdate \in Updates
  BY <1>1, <1>2, SectorLayout DEF FreshUpdate, Updates, States, Applied
<1>4. QED BY <1>3 DEF FreshUpdate, InBounds, Programs, Busy, BusyStates

(* The update that a first frame begins.                                   *)
LEMMA BegunUpdated ==
    ASSUME NEW f \in Frames, f # NoFrame
    PROVE  /\ Begun(f) \in Updates /\ InBounds(Begun(f))
           /\ Begun(f).st \in {"ERASE_START", "ERROR"}
           /\ f.type = "BEGIN" => /\ Begun(f).st = "ERASE_START" /\ Begun(f).sector = 1
                                  /\ f.seq = 1
           /\ f.type # "BEGIN" => Begun(f).st = "ERROR"
<1>1. FreshUpdate \in Updates BY FreshUpdated
<1>2. CASE f.type = "BEGIN"
  <2>1. f.pack \in Packs /\ f.seq = 1
    BY <1>2, UploadAssumption DEF Frames, FrameAt, NoFrame
  <2>2. Begun(f) = [FreshUpdate EXCEPT !.st = "ERASE_START", !.pack = f.pack]
    BY <1>2 DEF Begun
  <2>3. Begun(f) \in Updates BY <1>1, <2>1, <2>2 DEF Updates, BusyStates
  <2>4. Begun(f).st = "ERASE_START" /\ Begun(f).sector = 1 BY <2>2 DEF FreshUpdate
  <2>5. QED BY <1>2, <2>1, <2>3, <2>4 DEF InBounds, Programs
<1>3. CASE f.type # "BEGIN"
  <2>1. Begun(f) = [FreshUpdate EXCEPT !.st = "ERROR"] BY <1>3 DEF Begun
  <2>2. "ERROR" \in States BY DEF States
  <2>3. Begun(f) \in Updates /\ Begun(f).st = "ERROR" BY <1>1, <2>1, <2>2, UpdateStated
  <2>4. QED BY <1>3, <2>3 DEF InBounds, Programs
<1>4. QED BY <1>2, <1>3

(* A frame of the tool: its number tells what it is.                       *)
LEMMA FrameFields ==
    ASSUME NEW f \in Frames, f # NoFrame
    PROVE  /\ f.pack \in Packs /\ f.seq \in 1 .. LastFrame + 1
           /\ f.type = "BEGIN" => f.seq = 1
           /\ f.type = "CHUNK" => f.chunk \in Chunks /\ f.seq = f.chunk + 1
           /\ f.seq \in 2 .. LastFrame - 1 => f.type = "CHUNK"
<1>1. CASE \E p \in Packs, i \in 1 .. LastFrame : f = FrameAt(p, i)
  <2>1. PICK p \in Packs, i \in 1 .. LastFrame : f = FrameAt(p, i) BY <1>1
  <2>2. f.pack = p /\ f.seq = i BY <2>1 DEF FrameAt
  <2>3. i = 1 => f.type = "BEGIN" BY <2>1, ChunkLayout DEF FrameAt, LastFrame
  <2>4. i # 1 /\ i = LastFrame => f.type = "END" BY <2>1 DEF FrameAt
  <2>5. i # 1 /\ i # LastFrame => f.type = "CHUNK" /\ f.chunk = i - 1 BY <2>1 DEF FrameAt
  <2>6. i \in Int /\ 1 <= i /\ i <= Len(ChunkEnds) + 2 /\ LastFrame = Len(ChunkEnds) + 2
        /\ Len(ChunkEnds) \in Nat
    BY <2>1, ChunkLayout DEF LastFrame
  <2>7. i # 1 /\ i # LastFrame => i - 1 \in Chunks BY <2>6 DEF Chunks
  <2>8. QED BY <2>2, <2>3, <2>4, <2>5, <2>6, <2>7
<1>2. CASE f \in [type : Strays, pack : Packs, chunk : {0}, seq : {LastFrame + 1}]
  <2>1. f.pack \in Packs /\ f.seq = LastFrame + 1 /\ f.type \in {"ABORT", "BAD_BEGIN", "END"}
    BY <1>2, UploadAssumption
  <2>2. LastFrame \in Nat BY ChunkLayout DEF LastFrame
  <2>3. QED BY <2>1, <2>2
<1>3. QED BY <1>1, <1>2 DEF Frames

LEMMA AcceptedUpdated ==
    ASSUME NEW r \in Updates, NEW f \in Frames, f # NoFrame
    PROVE  /\ Accepted(r, f) \in Updates /\ InBounds(Accepted(r, f))
           /\ \/ Accepted(r, f).st \in {"COMPLETE", "ERROR"} /\ f.type # "ABORT"
              \/ Accepted(r, f).st = "IDLE" /\ f.type = "ABORT"
              \/ /\ Accepted(r, f).st = "PROGRAM_START" /\ f.type = "CHUNK"
                 /\ f.chunk = NextChunk(r) /\ Accepted(r, f).applied = r.applied
                 /\ Accepted(r, f).chunk = f.pack
                 /\ Accepted(r, f).written = Before(ChunkEnds, NextChunk(r))
<1>0. {"COMPLETE", "ERROR"} \subseteq States BY DEF States
<1>1. CASE f.type = "ABORT"
  BY <1>1, FreshUpdated DEF Accepted
<1>2. CASE f.type = "CHUNK" /\ f.chunk = NextChunk(r)
  <2>1. Accepted(r, f) = [r EXCEPT !.st = "PROGRAM_START", !.chunk = f.pack,
                                   !.written = Before(ChunkEnds, f.chunk)]
    BY <1>2 DEF Accepted, NextChunk
  <2>2. f.pack \in Packs /\ f.chunk \in Chunks BY <1>2, FrameFields
  <2>3. /\ Before(ChunkEnds, f.chunk) \in Nat
        /\ Before(ChunkEnds, f.chunk) < ChunkEnds[f.chunk] /\ ChunkEnds[f.chunk] <= Size
        /\ ChunkEnds[f.chunk] \in Nat /\ Size \in Nat /\ Cells = 1 .. Size
    BY <2>2, ChunkLayout
  <2>4. Before(ChunkEnds, f.chunk) \in {0} \cup Cells BY <2>3
  <2>5. Accepted(r, f) \in Updates BY <2>1, <2>2, <2>4 DEF Updates, BusyStates
  <2>6. /\ Accepted(r, f).st = "PROGRAM_START" /\ Accepted(r, f).applied = r.applied
        /\ Accepted(r, f).chunk = f.pack /\ Accepted(r, f).written = Before(ChunkEnds, f.chunk)
    BY <2>1 DEF Updates
  <2>7. NextChunk(Accepted(r, f)) = f.chunk BY <1>2, <2>6 DEF NextChunk
  <2>8. InBounds(Accepted(r, f)) BY <2>2, <2>3, <2>6, <2>7 DEF InBounds
  <2>9. QED BY <1>2, <2>5, <2>6, <2>8
<1>3. CASE f.type # "ABORT" /\ ~(f.type = "CHUNK" /\ f.chunk = NextChunk(r))
  <2>1. \E s \in {"COMPLETE", "ERROR"} : Accepted(r, f) = [r EXCEPT !.st = s]
    BY <1>3 DEF Accepted, NextChunk
  <2>2. PICK s \in {"COMPLETE", "ERROR"} : Accepted(r, f) = [r EXCEPT !.st = s] BY <2>1
  <2>3. s \in States BY <1>0, <2>2
  <2>4. Accepted(r, f) \in Updates /\ Accepted(r, f).st = s BY <2>2, <2>3, UpdateStated
  <2>5. QED BY <1>3, <2>2, <2>4 DEF InBounds, Programs
<1>4. QED BY <1>1, <1>2, <1>3

LEMMA NextSectorUpdated ==
    ASSUME NEW r \in Updates
    PROVE  /\ NextSector(r) \in Updates /\ InBounds(NextSector(r))
           /\ NextSector(r).applied = r.applied /\ NextSector(r).chunk = r.chunk
           /\ \/ r.sector = Len(SectorEnds) /\ NextSector(r).st = "READY"
              \/ /\ r.sector # Len(SectorEnds) /\ NextSector(r).st = "ERASE_START"
                 /\ NextSector(r).sector = r.sector + 1 /\ r.sector + 1 \in Sectors
<1>1. CASE r.sector = Len(SectorEnds)
  <2>1. NextSector(r) = [r EXCEPT !.st = "READY"] BY <1>1 DEF NextSector
  <2>2. "READY" \in States BY DEF States
  <2>3. /\ NextSector(r) \in Updates /\ NextSector(r).st = "READY"
        /\ NextSector(r).applied = r.applied /\ NextSector(r).chunk = r.chunk
    BY <2>1, <2>2, UpdateStated
  <2>4. QED BY <1>1, <2>3 DEF InBounds, Programs
<1>2. CASE r.sector # Len(SectorEnds)
  <2>1. NextSector(r) = [r EXCEPT !.st = "ERASE_START", !.sector = r.sector + 1]
    BY <1>2 DEF NextSector, Updates
  <2>2. r.sector + 1 \in Sectors BY <1>2, UpdateFields, SectorLayout
  <2>3. /\ NextSector(r) \in Updates /\ NextSector(r).st = "ERASE_START"
        /\ NextSector(r).applied = r.applied /\ NextSector(r).chunk = r.chunk
        /\ NextSector(r).sector = r.sector + 1
    BY <2>1, <2>2 DEF Updates, BusyStates
  <2>4. QED BY <1>2, <2>2, <2>3 DEF InBounds, Programs
<1>3. QED BY <1>1, <1>2

(* The next cell of the chunk, or the chunk counts as received.            *)
LEMMA NextCellUpdated ==
    ASSUME NEW r \in Updates, InBounds(r), Programs(r)
    PROVE  /\ NextCell(r) \in Updates /\ InBounds(NextCell(r))
           /\ \/ /\ NextCell(r).st = "PROGRAM_START" /\ NextCell(r).applied = r.applied
                 /\ NextCell(r).chunk = r.chunk /\ NextCell(r).written = r.written + 1
                 /\ r.written + 1 < ChunkEnds[NextChunk(r)]
              \/ /\ NextCell(r).st = "READY" /\ NextChunk(NextCell(r)) = NextChunk(r) + 1
                 /\ r.written + 1 = ChunkEnds[NextChunk(r)]
<1>1. /\ NextChunk(r) \in Chunks /\ r.chunk \in Packs /\ r.written \in Nat
      /\ Before(ChunkEnds, NextChunk(r)) <= r.written /\ r.written < ChunkEnds[NextChunk(r)]
  BY UpdateFields DEF InBounds
<1>2. /\ ChunkEnds[NextChunk(r)] \in Nat /\ ChunkEnds[NextChunk(r)] <= Size /\ Size \in Nat
      /\ Cells = 1 .. Size /\ Before(ChunkEnds, NextChunk(r)) \in Nat
  BY <1>1, ChunkLayout
<1>3. CASE r.written + 1 < ChunkEnds[NextChunk(r)]
  <2>1. NextCell(r) = [r EXCEPT !.st = "PROGRAM_START", !.written = r.written + 1]
    BY <1>3 DEF NextCell, NextChunk, Updates
  <2>2. r.written + 1 \in {0} \cup Cells BY <1>1, <1>2
  <2>3. /\ NextCell(r) \in Updates /\ NextCell(r).st = "PROGRAM_START"
        /\ NextCell(r).applied = r.applied /\ NextCell(r).chunk = r.chunk
        /\ NextCell(r).written = r.written + 1
    BY <2>1, <2>2 DEF Updates, BusyStates
  <2>4. NextChunk(NextCell(r)) = NextChunk(r) BY <2>3 DEF NextChunk
  <2>5. Before(ChunkEnds, NextChunk(r)) <= r.written + 1 BY <1>1, <1>2
  <2>6. InBounds(NextCell(r)) BY <1>1, <1>3, <2>3, <2>4, <2>5 DEF InBounds
  <2>7. QED BY <1>3, <2>3, <2>6
<1>4. CASE ~(r.written + 1 < ChunkEnds[NextChunk(r)])
  <2>1. NextCell(r) = [r EXCEPT !.st = "READY", !.written = 0, !.chunk = "NONE",
                                !.applied = Append(r.applied, r.chunk)]
    BY <1>4 DEF NextCell, NextChunk, Updates
  <2>2. /\ r.applied \in Seq(Packs) /\ Len(r.applied) \in Nat /\ Len(ChunkEnds) \in Nat
        /\ Len(r.applied) + 1 <= Len(ChunkEnds)
    BY <1>1, UpdateFields, ChunkLayout DEF NextChunk, Chunks
  <2>3. /\ Append(r.applied, r.chunk) \in Seq(Packs)
        /\ Len(Append(r.applied, r.chunk)) = Len(r.applied) + 1
    BY <1>1, <2>2
  <2>4. Len(Append(r.applied, r.chunk)) \in 0 .. Len(ChunkEnds) BY <2>2, <2>3
  <2>5. Append(r.applied, r.chunk) \in Applied BY <2>3, <2>4, AppliedIs
  <2>6. /\ NextCell(r) \in Updates /\ NextCell(r).st = "READY"
        /\ NextCell(r).applied = Append(r.applied, r.chunk)
    <3> DEFINE a == Append(r.applied, r.chunk)
    <3>1. a \in Applied /\ NextCell(r) = [r EXCEPT !.st = "READY", !.written = 0,
                                                  !.chunk = "NONE", !.applied = a]
      BY <2>1, <2>5
    <3> HIDE DEF a
    <3>2. NextCell(r) \in Updates /\ NextCell(r).st = "READY" /\ NextCell(r).applied = a
      BY <3>1 DEF Updates, Applied
    <3>3. QED BY <3>2 DEF a
  <2>7. NextChunk(NextCell(r)) = NextChunk(r) + 1
    BY <2>2, <2>3, <2>6 DEF NextChunk
  <2>8. r.written + 1 = ChunkEnds[NextChunk(r)] BY <1>1, <1>2, <1>4
  <2>9. QED BY <2>6, <2>7, <2>8 DEF InBounds, Programs
<1>5. QED BY <1>3, <1>4

(***************************************************************************)
(* Types, for every layout of the pack; with them, that the update works   *)
(* exactly while a reply is deferred, and within a session is READY else.  *)
(***************************************************************************)
Answers == [seq : 1 .. LastFrame + 1, outcome : {"OK", "COMPLETE", "REFUSED"}]
DeviceOK == /\ flash \in [Cells -> Contents] /\ chip \in Operations \cup {Idle}
            /\ pending \in BOOLEAN /\ tainted \in BOOLEAN
LinkOK == /\ u \in Updates /\ InBounds(u) /\ configured \in BOOLEAN /\ owned \in BOOLEAN
          /\ deferred \in 0 .. LastFrame + 1 /\ status \in Statuses
          /\ (Busy(u) <=> deferred # 0) /\ (configured /\ ~Busy(u) => u.st = "READY")
LineOK == /\ view \in Views /\ line \in Frames /\ tool \in Tools /\ replies \in Seq(Answers)
TypeInv == DeviceOK /\ LinkOK /\ LineOK

LEMMA LastFrameIs == LastFrame \in Nat /\ LastFrame >= 2 /\ LastFrame = Len(ChunkEnds) + 2
BY ChunkLayout DEF LastFrame

(* What an operation leaves in the flash.                                  *)
LEMMA DoneIs ==
    ASSUME flash \in [Cells -> Contents], NEW op \in Operations \cup {Idle}
    PROVE  /\ Done(op) \in [Cells -> Contents]
           /\ op = Idle => Done(op) = flash
           /\ op # Idle => op.kind \in {"ERASE", "PROGRAM"}
           /\ op.kind = "ERASE" => \A c \in Cells :
                 Done(op)[c] = IF c \in CellsOf(SectorEnds, op.at) THEN "ERASED" ELSE flash[c]
           /\ op.kind = "PROGRAM" => \A c \in Cells :
                 Done(op)[c] = IF c # op.at THEN flash[c]
                               ELSE IF flash[c] \in {"ERASED", op.pack} THEN op.pack ELSE "TORN"
<1>1. CASE op = Idle
  BY <1>1 DEF Idle, Done
<1>2. CASE op.kind = "ERASE"
  <2>1. Done(op) = [c \in Cells |-> IF c \in CellsOf(SectorEnds, op.at) THEN "ERASED"
                                    ELSE flash[c]]
    BY <1>2 DEF Done
  <2>2. Done(op) \in [Cells -> Contents] BY <2>1 DEF Contents
  <2>3. QED BY <1>2, <2>1, <2>2 DEF Idle
<1>3. CASE op.kind = "PROGRAM"
  <2>1. op.at \in Cells /\ op.pack \in Packs BY <1>3 DEF Operations, Idle
  <2>2. Done(op) = [flash EXCEPT ![op.at] = IF flash[op.at] \in {"ERASED", op.pack}
                                            THEN op.pack ELSE "TORN"]
    BY <1>3, <2>1 DEF Done
  <2>3. Done(op) \in [Cells -> Contents] BY <2>1, <2>2 DEF Contents
  <2>4. \A c \in Cells : Done(op)[c] = IF c # op.at THEN flash[c]
                               ELSE IF flash[c] \in {"ERASED", op.pack} THEN op.pack ELSE "TORN"
    BY <2>1, <2>2
  <2>5. QED BY <1>3, <2>3, <2>4 DEF Idle
<1>4. op = Idle \/ op.kind = "ERASE" \/ op.kind = "PROGRAM" BY DEF Operations
<1>5. QED BY <1>1, <1>2, <1>3, <1>4

(* The driver's answers; one that taints nothing says what is going on.    *)
DriverOK(d) == /\ d.chip \in Operations \cup {Idle} /\ d.pending \in BOOLEAN
               /\ d.tainted \in BOOLEAN
LEMMA StartAnswered ==
    ASSUME DeviceOK, NEW op \in Operations, NEW d \in StartAnswers(op)
    PROVE  /\ DriverOK(d) /\ d.answer \in {"BUSY", "ERROR"}
           /\ ~d.tainted => /\ tainted = FALSE /\ d.answer = "BUSY" /\ d.pending = TRUE
                            /\ ~pending /\ chip = Idle => d.chip = op
<1>1. CASE pending
  <2>1. d = [answer |-> "BUSY", chip |-> chip, pending |-> TRUE, tainted |-> tainted]
    BY <1>1 DEF StartAnswers
  <2>2. QED BY <1>1, <2>1 DEF DeviceOK, DriverOK
<1>2. CASE ~pending
  <2>1. CASE d = [answer |-> "BUSY", chip |-> IF chip = Idle THEN op ELSE chip,
                  pending |-> TRUE, tainted |-> tainted]
    BY <2>1 DEF DeviceOK, DriverOK
  <2>2. CASE \E c \in {chip, IF chip = Idle THEN op ELSE chip} :
               d = [answer |-> "ERROR", chip |-> c, pending |-> FALSE, tainted |-> TRUE]
    BY <2>2 DEF DeviceOK, DriverOK
  <2>3. QED BY <1>2, <2>1, <2>2 DEF StartAnswers
<1>3. QED BY <1>1, <1>2

LEMMA PollAnswered ==
    ASSUME DeviceOK, NEW d \in PollAnswers
    PROVE  /\ DriverOK(d) /\ d.chip = chip /\ d.answer \in {"OK", "BUSY", "ERROR"}
           /\ ~d.tainted => /\ tainted = FALSE
                            /\ \/ /\ d.answer = "OK" /\ d.pending = FALSE
                                  /\ pending => chip = Idle
                               \/ /\ d.answer = "BUSY" /\ d.pending = TRUE
                                  /\ pending = TRUE /\ chip # Idle
<1>1. CASE ~pending
  <2>1. d = [answer |-> "OK", chip |-> chip, pending |-> FALSE, tainted |-> tainted]
    BY <1>1 DEF PollAnswers
  <2>2. QED BY <1>1, <2>1 DEF DeviceOK, DriverOK
<1>2. CASE pending
  <2>0. pending = TRUE BY <1>2 DEF DeviceOK
  <2>1. CASE chip = Idle /\ d = [answer |-> "OK", chip |-> Idle, pending |-> FALSE,
                                 tainted |-> tainted]
    BY <2>1 DEF DeviceOK, DriverOK
  <2>2. CASE chip # Idle /\ d = [answer |-> "BUSY", chip |-> chip, pending |-> TRUE,
                                 tainted |-> tainted]
    BY <2>0, <2>2 DEF DeviceOK, DriverOK
  <2>3. CASE \E b \in BOOLEAN : d = [answer |-> "ERROR", chip |-> chip, pending |-> b,
                                     tainted |-> TRUE]
    BY <2>3 DEF DeviceOK, DriverOK
  <2>4. QED BY <1>2, <2>1, <2>2, <2>3 DEF PollAnswers
<1>3. QED BY <1>1, <1>2

LEMMA OperationMade ==
    /\ \A j \in Sectors : [kind |-> "ERASE", at |-> j, pack |-> "NONE"] \in Operations \ {Idle}
    /\ \A c \in Cells, p \in Packs : [kind |-> "PROGRAM", at |-> c, pack |-> p]
                                          \in Operations \ {Idle}
BY DEF Operations, Idle

LEMMA FinishTyped ==
    ASSUME NEW r \in Updates, InBounds(r), NEW noted, NEW conf \in BOOLEAN, NEW own \in BOOLEAN,
           NEW stat \in Statuses, FinishIfTerminal(r, noted, conf, own, stat)
    PROVE  /\ u' \in Updates /\ InBounds(u)' /\ configured' \in BOOLEAN /\ owned' \in BOOLEAN
           /\ status' \in Statuses
<1>1. u' = r BY DEF FinishIfTerminal
<1>2. \A m \in MountAnswers(noted) : m \in Statuses BY DEF MountAnswers, Statuses
<1>3. configured' \in BOOLEAN /\ owned' \in BOOLEAN /\ status' \in Statuses
  BY <1>2 DEF FinishIfTerminal, Statuses
<1>4. InBounds(u)' BY <1>1 DEF InBounds, Programs, NextChunk
<1>5. QED BY <1>1, <1>3, <1>4

LEMMA ReplyTyped ==
    ASSUME replies \in Seq(Answers), NEW n \in 1 .. LastFrame + 1,
           NEW o \in {"OK", "COMPLETE", "REFUSED"}, Reply(n, o)
    PROVE  replies' \in Seq(Answers)
<1>1. [seq |-> n, outcome |-> o] \in Answers BY DEF Answers
<1>2. QED BY <1>1 DEF Reply

LEMMA OutcomeTyped == ASSUME NEW r PROVE Outcome(r) \in {"OK", "COMPLETE", "REFUSED"}
BY DEF Outcome

LEMMA TypeInit == Init => TypeInv
<1> SUFFICES ASSUME Init PROVE TypeInv OBVIOUS
<1>1. flash \in [Cells -> Contents]
  <2>1. CASE flash \in [Cells -> {"ERASED"}] BY <2>1 DEF Contents
  <2>2. CASE \E p \in Packs : flash = [c \in Cells |-> p] BY <2>2 DEF Contents
  <2>3. QED BY <2>1, <2>2 DEF Init
<1>2. DeviceOK BY <1>1 DEF Init, DeviceOK
<1>3. LinkOK
  <2>1. 0 \in 0 .. LastFrame + 1 BY LastFrameIs
  <2>2. u \in Updates /\ InBounds(u) /\ ~Busy(u) BY FreshUpdated DEF Init
  <2>3. status \in Statuses BY DEF Init, Statuses
  <2>4. QED BY <2>1, <2>2, <2>3 DEF Init, LinkOK
<1>4. LineOK
  <2>1. NotRunning \in Tools BY LastFrameIs DEF NotRunning, Tools
  <2>2. QED BY <2>1 DEF Init, LineOK, Views, Frames
<1>5. QED BY <1>2, <1>3, <1>4 DEF TypeInv

LEMMA DeviceDriven ==
    ASSUME DeviceOK, NEW d, DriverOK(d), Driver(d) PROVE DeviceOK'
BY DEF DeviceOK, DriverOK, Driver

StepStates == BusyStates \cup {"READY", "ERROR"}
LEMMA SteppedTyped ==
    ASSUME TypeInv, Busy(u), NEW r \in Updates, InBounds(r), r.st \in StepStates,
           NEW d, DriverOK(d), Stepped(r, d)
    PROVE  TypeInv'
<1>1. DeviceOK' BY DeviceDriven DEF Stepped, TypeInv
<1>2. UNCHANGED <<view, line, tool>> BY DEF Stepped
<1>3. CASE ~Busy(r)
  <2>1. deferred \in 1 .. LastFrame + 1 BY LastFrameIs DEF TypeInv, LinkOK
  <2>2. /\ Reply(deferred, Outcome(r)) /\ deferred' = 0
        /\ FinishIfTerminal(r, d.pending, configured, owned, status)
    BY <1>3, <2>1 DEF Stepped
  <2>3. replies' \in Seq(Answers) BY <2>1, <2>2, ReplyTyped, OutcomeTyped DEF TypeInv, LineOK
  <2>4. /\ u' \in Updates /\ InBounds(u)' /\ configured' \in BOOLEAN /\ owned' \in BOOLEAN
        /\ status' \in Statuses
    BY <2>2, FinishTyped DEF TypeInv, LinkOK
  <2>5. u' = r /\ (configured' => r.st = "READY")
    BY <1>3, <2>2 DEF FinishIfTerminal, StepStates, Busy
  <2>6. LinkOK' BY <1>3, <2>2, <2>4, <2>5, LastFrameIs DEF LinkOK, Busy
  <2>7. QED BY <1>1, <1>2, <2>3, <2>6 DEF TypeInv, LineOK
<1>4. CASE Busy(r)
  <2>1. u' = r /\ UNCHANGED <<configured, owned, status, deferred, replies>>
    BY <1>4 DEF Stepped
  <2>2. InBounds(u)' /\ Busy(u)'  BY <1>4, <2>1 DEF InBounds, Programs, NextChunk, Busy
  <2>3. LinkOK' BY <2>1, <2>2 DEF TypeInv, LinkOK
  <2>4. QED BY <1>1, <1>2, <2>1, <2>3 DEF TypeInv, LineOK
<1>5. QED BY <1>3, <1>4

(* What a step of the update turns it into, and with which answer.         *)
StepMakes(r, d) ==
    \/ /\ u.st = "ERASE_START" /\ d \in StartAnswers([kind |-> "ERASE", at |-> u.sector, pack |-> "NONE"])
       /\ r = IF d.answer = "BUSY" THEN [u EXCEPT !.st = "ERASE_POLL"] ELSE Failed
    \/ /\ u.st = "ERASE_POLL" /\ d \in PollAnswers
       /\ r = CASE d.answer = "BUSY" -> u [] d.answer = "OK" -> NextSector(u) [] OTHER -> Failed
    \/ /\ u.st = "PROGRAM_START"
       /\ d \in StartAnswers([kind |-> "PROGRAM", at |-> u.written + 1, pack |-> u.chunk])
       /\ r = IF d.answer = "BUSY" THEN [u EXCEPT !.st = "PROGRAM_POLL"] ELSE Failed
    \/ /\ u.st = "PROGRAM_POLL" /\ d \in PollAnswers
       /\ r = CASE d.answer = "BUSY" -> u [] d.answer = "OK" -> NextCell(u) [] OTHER -> Failed

LEMMA StepIs ==
    ASSUME Step
    PROVE  configured /\ \E r, d : StepMakes(r, d) /\ Stepped(r, d)
<1>1. CASE EraseStart BY <1>1 DEF EraseStart, StepMakes
<1>2. CASE ErasePoll BY <1>2 DEF ErasePoll, StepMakes
<1>3. CASE ProgramStart BY <1>3 DEF ProgramStart, StepMakes
<1>4. CASE ProgramPoll BY <1>4 DEF ProgramPoll, StepMakes
<1>5. QED BY <1>1, <1>2, <1>3, <1>4 DEF Step

(* The operation a start commands.                                         *)
LEMMA CommandedIs ==
    ASSUME LinkOK
    PROVE  /\ [kind |-> "ERASE", at |-> u.sector, pack |-> "NONE"] \in Operations \ {Idle}
           /\ Programs(u) => /\ u.written + 1 \in Cells
                             /\ [kind |-> "PROGRAM", at |-> u.written + 1, pack |-> u.chunk]
                                    \in Operations \ {Idle}
<1>1. u.sector \in Sectors /\ u.written \in Nat BY UpdateFields DEF LinkOK
<1>2. ASSUME Programs(u) PROVE u.written + 1 \in Cells /\ u.chunk \in Packs
  <2>1. NextChunk(u) \in Chunks /\ u.chunk \in Packs /\ u.written < ChunkEnds[NextChunk(u)]
    BY <1>2 DEF LinkOK, InBounds
  <2>2. /\ ChunkEnds[NextChunk(u)] \in Nat /\ ChunkEnds[NextChunk(u)] <= Size /\ Size \in Nat
        /\ Cells = 1 .. Size
    BY <2>1, ChunkLayout
  <2>3. QED BY <1>1, <2>1, <2>2
<1>3. QED BY <1>1, <1>2, OperationMade

LEMMA StepMade ==
    ASSUME TypeInv, NEW r, NEW d, StepMakes(r, d)
    PROVE  /\ r \in Updates /\ InBounds(r) /\ r.st \in StepStates /\ DriverOK(d)
           /\ Busy(u)
<1>0. Busy(u) BY DEF StepMakes, Busy, BusyStates
<1>1. DeviceOK /\ u \in Updates /\ InBounds(u) BY DEF TypeInv, LinkOK
<1>2. "ERROR" \in States /\ "ERASE_POLL" \in States /\ "PROGRAM_POLL" \in States
  BY DEF States, BusyStates
<1>3. Failed \in Updates /\ InBounds(Failed) /\ Failed.st \in StepStates
  <2>1. Failed \in Updates /\ Failed.st = "ERROR" BY <1>1, <1>2, UpdateStated DEF Failed
  <2>2. QED BY <2>1 DEF InBounds, Programs, StepStates
<1>4. CASE u.st = "ERASE_START"
  <2>1. d \in StartAnswers([kind |-> "ERASE", at |-> u.sector, pack |-> "NONE"])
    BY <1>4 DEF StepMakes
  <2>2. DriverOK(d) BY <1>1, <2>1, CommandedIs, StartAnswered DEF TypeInv
  <2>3. r = [u EXCEPT !.st = "ERASE_POLL"] \/ r = Failed BY <1>4 DEF StepMakes
  <2>4. CASE r = [u EXCEPT !.st = "ERASE_POLL"]
    <3>1. r \in Updates /\ r.st = "ERASE_POLL" BY <1>1, <1>2, <2>4, UpdateStated
    <3>2. QED BY <1>0, <2>2, <3>1 DEF InBounds, Programs, StepStates, BusyStates
  <2>5. QED BY <1>0, <1>3, <2>2, <2>3, <2>4
<1>5. CASE u.st = "ERASE_POLL"
  <2>1. d \in PollAnswers BY <1>5 DEF StepMakes
  <2>2. DriverOK(d) BY <1>1, <2>1, PollAnswered
  <2>3. r = u \/ r = NextSector(u) \/ r = Failed BY <1>5 DEF StepMakes
  <2>4. QED BY <1>0, <1>1, <1>3, <1>5, <2>2, <2>3, NextSectorUpdated DEF StepStates, BusyStates
<1>6. CASE u.st = "PROGRAM_START"
  <2>0. Programs(u) BY <1>6 DEF Programs
  <2>1. d \in StartAnswers([kind |-> "PROGRAM", at |-> u.written + 1, pack |-> u.chunk])
    BY <1>6 DEF StepMakes
  <2>2. DriverOK(d) BY <1>1, <2>0, <2>1, CommandedIs, StartAnswered DEF TypeInv
  <2>3. r = [u EXCEPT !.st = "PROGRAM_POLL"] \/ r = Failed BY <1>6 DEF StepMakes
  <2>4. CASE r = [u EXCEPT !.st = "PROGRAM_POLL"]
    <3> DEFINE polling == [u EXCEPT !.st = "PROGRAM_POLL"]
    <3>1. /\ polling \in Updates /\ polling.st = "PROGRAM_POLL" /\ polling.applied = u.applied
          /\ polling.chunk = u.chunk /\ polling.written = u.written
      BY <1>1, <1>2, UpdateStated
    <3>2. r = polling BY <2>4
    <3> HIDE DEF polling
    <3>3. InBounds(r) BY <1>1, <2>0, <3>1, <3>2 DEF InBounds, Programs, NextChunk
    <3>4. QED BY <1>0, <2>2, <3>1, <3>2, <3>3 DEF StepStates, BusyStates
  <2>5. QED BY <1>0, <1>3, <2>2, <2>3, <2>4
<1>7. CASE u.st = "PROGRAM_POLL"
  <2>0. Programs(u) BY <1>7 DEF Programs
  <2>1. d \in PollAnswers BY <1>7 DEF StepMakes
  <2>2. DriverOK(d) BY <1>1, <2>1, PollAnswered
  <2>3. r = u \/ r = NextCell(u) \/ r = Failed BY <1>7 DEF StepMakes
  <2>4. QED BY <1>0, <1>1, <1>3, <1>7, <2>0, <2>2, <2>3, NextCellUpdated DEF StepStates, BusyStates
<1>8. QED BY <1>4, <1>5, <1>6, <1>7 DEF StepMakes

(* A frame is answered, or the update works on it and the answer waits.    *)
FrameAnswered ==
    /\ \E o \in {"OK", "COMPLETE", "REFUSED"} :
          Reply(line.seq, o) /\ (o = "OK" => line.type = "ABORT")
    /\ deferred' = 0 /\ (u' = u \/ u'.st \in {"IDLE", "COMPLETE", "ERROR"})
FrameWorked ==
    /\ UNCHANGED replies /\ deferred' = line.seq
    /\ \/ line.type = "BEGIN" /\ u' = Begun(line)
       \/ /\ line.type = "CHUNK" /\ u.st = "READY"
          /\ u' = Accepted(u, line) /\ u'.st = "PROGRAM_START"

LEMMA AnsweredIs ==
    ASSUME TypeInv, line # NoFrame, deferred = 0, NEW r \in Updates, InBounds(r),
           NEW conf \in BOOLEAN, NEW own \in BOOLEAN, NEW stat \in Statuses,
           conf /\ ~Busy(r) => r.st \in {"COMPLETE", "ERROR"},
           Answered(r, conf, own, stat)
    PROVE  /\ LinkOK' /\ u' = r
           /\ Busy(r) => UNCHANGED replies /\ deferred' = line.seq
           /\ ~Busy(r) => Reply(line.seq, Outcome(r)) /\ deferred' = 0
<1>1. line.seq \in 1 .. LastFrame + 1 BY FrameFields DEF TypeInv, LineOK
<1>2. CASE Busy(r)
  <2>1. /\ u' = r /\ configured' = conf /\ owned' = own /\ status' = stat
        /\ deferred' = line.seq /\ UNCHANGED replies
    BY <1>2 DEF Answered
  <2>2. InBounds(u)' /\ Busy(u)' BY <1>2, <2>1 DEF InBounds, Programs, NextChunk, Busy
  <2>3. deferred' \in 0 .. LastFrame + 1 /\ deferred' # 0 BY <1>1, <2>1, LastFrameIs
  <2>4. LinkOK' BY <2>1, <2>2, <2>3 DEF LinkOK
  <2>5. QED BY <1>2, <2>1, <2>4
<1>3. CASE ~Busy(r)
  <2>1. /\ Reply(line.seq, Outcome(r)) /\ deferred' = 0
        /\ FinishIfTerminal(r, pending, conf, own, stat)
    BY <1>3 DEF Answered
  <2>2. /\ u' \in Updates /\ InBounds(u)' /\ configured' \in BOOLEAN /\ owned' \in BOOLEAN
        /\ status' \in Statuses
    BY <2>1, FinishTyped
  <2>3. u' = r /\ configured' = FALSE BY <1>3, <2>1 DEF FinishIfTerminal
  <2>4. LinkOK' BY <1>3, <2>1, <2>2, <2>3, LastFrameIs DEF LinkOK, Busy
  <2>5. QED BY <1>3, <2>1, <2>3, <2>4
<1>4. QED BY <1>2, <1>3

LEMMA StayIs ==
    ASSUME TypeInv, deferred = 0, Stay, deferred' = 0 PROVE LinkOK' /\ u' = u
<1>1. /\ u' \in Updates /\ InBounds(u)' /\ configured' \in BOOLEAN /\ owned' \in BOOLEAN
      /\ status' \in Statuses
  BY FinishTyped DEF TypeInv, LinkOK, Stay
<1>2. u' = u /\ (configured' => configured) BY DEF Stay, FinishIfTerminal, TypeInv, LinkOK
<1>3. QED BY <1>1, <1>2, LastFrameIs DEF TypeInv, LinkOK, Busy

LEMMA ProcessIs ==
    ASSUME TypeInv, Process
    PROVE  /\ line # NoFrame /\ deferred = 0 /\ ~Busy(u) /\ line' = NoFrame
           /\ UNCHANGED <<device, tool>> /\ view' \in Views /\ LinkOK'
           /\ FrameAnswered \/ FrameWorked
<1>1. /\ line # NoFrame /\ deferred = 0 /\ line' = NoFrame /\ UNCHANGED <<device, tool>>
  BY DEF Process, Receiving, Taken
<1>2. /\ ~Busy(u) /\ line \in Frames /\ u \in Updates /\ configured \in BOOLEAN
      /\ owned \in BOOLEAN /\ status \in Statuses /\ (configured => u.st = "READY")
  BY <1>1 DEF TypeInv, LinkOK, LineOK
<1>3. view' \in Views BY DEF Process, ViewFor, TypeInv, LineOK, Views
<1>4. CASE Refuse
  <2>1. Reply(line.seq, "REFUSED") /\ deferred' = 0 /\ Stay BY <1>1, <1>4 DEF Refuse
  <2>2. LinkOK' /\ u' = u BY <1>1, <2>1, StayIs
  <2>3. FrameAnswered BY <2>1, <2>2 DEF FrameAnswered
  <2>4. QED BY <1>1, <1>2, <1>3, <2>2, <2>3
<1>5. CASE line.type \in {"BEGIN", "BAD_BEGIN"} /\ Begin
  <2>1. Answered(Begun(line), TRUE, TRUE, "DEFERRED") BY <1>5 DEF Begin
  <2>2. /\ Begun(line) \in Updates /\ InBounds(Begun(line))
        /\ Begun(line).st \in {"ERASE_START", "ERROR"}
        /\ line.type = "BEGIN" => Begun(line).st = "ERASE_START"
        /\ line.type # "BEGIN" => Begun(line).st = "ERROR"
    BY <1>1, <1>2, BegunUpdated
  <2>3. Busy(Begun(line)) <=> line.type = "BEGIN" BY <2>2 DEF Busy, BusyStates
  <2>4. TRUE /\ ~Busy(Begun(line)) => Begun(line).st \in {"COMPLETE", "ERROR"}
    BY <2>2, <2>3
  <2>5. /\ LinkOK' /\ u' = Begun(line)
        /\ Busy(Begun(line)) => UNCHANGED replies /\ deferred' = line.seq
        /\ ~Busy(Begun(line)) => Reply(line.seq, Outcome(Begun(line))) /\ deferred' = 0
    BY <1>1, <2>1, <2>2, <2>4, AnsweredIs DEF Statuses
  <2>6. CASE line.type = "BEGIN"
    BY <1>1, <1>2, <1>3, <2>3, <2>5, <2>6 DEF FrameWorked
  <2>7. CASE line.type # "BEGIN"
    <3>1. Outcome(Begun(line)) = "REFUSED" BY <2>2, <2>7 DEF Outcome
    <3>2. FrameAnswered BY <2>2, <2>3, <2>5, <2>7, <3>1 DEF FrameAnswered
    <3>3. QED BY <1>1, <1>2, <1>3, <2>5, <3>2
  <2>8. QED BY <2>6, <2>7
<1>6. CASE line.type = "ABORT" /\ Abort
  <2>1. /\ Reply(line.seq, "OK") /\ deferred' = 0 /\ u' = FreshUpdate
        /\ configured' = FALSE /\ owned' = FALSE /\ status' \in Statuses
    BY <1>1, <1>6 DEF Abort, MountAnswers, Statuses
  <2>2. InBounds(u)' /\ u' \in Updates /\ ~Busy(u)' /\ u'.st = "IDLE"
    <3>1. u' \in Updates /\ u'.st = "IDLE" BY <2>1, FreshUpdated
    <3>2. QED BY <3>1 DEF InBounds, Programs, Busy, BusyStates
  <2>3. LinkOK'
    <3>1. deferred' \in 0 .. LastFrame + 1 BY <2>1, LastFrameIs
    <3>2. QED BY <2>1, <2>2, <3>1 DEF LinkOK
  <2>4. FrameAnswered BY <1>6, <2>1, <2>2 DEF FrameAnswered
  <2>5. QED BY <1>1, <1>2, <1>3, <2>3, <2>4
<1>7. CASE /\ configured /\ line.type # "ABORT"
           /\ Answered(Accepted(u, line), configured, owned, status)
  <2> DEFINE r == Accepted(u, line)
  <2>1. /\ r \in Updates /\ InBounds(r)
        /\ r.st \in {"COMPLETE", "ERROR"} \/ (r.st = "PROGRAM_START" /\ line.type = "CHUNK")
    BY <1>1, <1>2, <1>7, AcceptedUpdated
  <2>2. Answered(r, configured, owned, status) BY <1>7
  <2>3. r = Accepted(u, line) OBVIOUS
  <2> HIDE DEF r
  <2>4. (r.st = "PROGRAM_START" => Busy(r)) /\ (r.st \in {"COMPLETE", "ERROR"} => ~Busy(r))
    BY DEF Busy, BusyStates
  <2>5. configured /\ ~Busy(r) => r.st \in {"COMPLETE", "ERROR"} BY <2>1, <2>4
  <2>6. /\ LinkOK' /\ u' = r
        /\ Busy(r) => UNCHANGED replies /\ deferred' = line.seq
        /\ ~Busy(r) => Reply(line.seq, Outcome(r)) /\ deferred' = 0
    BY <1>1, <1>2, <2>1, <2>2, <2>5, AnsweredIs
  <2>7. CASE r.st = "PROGRAM_START"
    <3>1. FrameWorked BY <1>2, <1>7, <2>1, <2>3, <2>4, <2>6, <2>7 DEF FrameWorked
    <3>2. QED BY <1>1, <1>2, <1>3, <2>6, <3>1
  <2>8. CASE r.st \in {"COMPLETE", "ERROR"}
    <3>1. Outcome(r) \in {"COMPLETE", "REFUSED"} BY <2>8 DEF Outcome
    <3>2. FrameAnswered BY <2>4, <2>6, <2>8, <3>1 DEF FrameAnswered
    <3>3. QED BY <1>1, <1>2, <1>3, <2>6, <3>2
  <2>9. QED BY <2>1, <2>7, <2>8
<1>8. QED BY <1>4, <1>5, <1>6, <1>7 DEF Process

LEMMA ProcessTyped == ASSUME TypeInv, Process PROVE TypeInv'
<1>1. /\ line # NoFrame /\ line' = NoFrame /\ UNCHANGED <<device, tool>> /\ view' \in Views
      /\ LinkOK' /\ (FrameAnswered \/ FrameWorked)
  BY ProcessIs
<1>2. line.seq \in 1 .. LastFrame + 1 BY <1>1, FrameFields DEF TypeInv, LineOK
<1>3. replies' \in Seq(Answers)
  <2>1. CASE FrameAnswered BY <1>2, <2>1, ReplyTyped DEF FrameAnswered, TypeInv, LineOK
  <2>2. CASE FrameWorked BY <2>2 DEF FrameWorked, TypeInv, LineOK
  <2>3. QED BY <1>1, <2>1, <2>2
<1>4. LineOK' BY <1>1, <1>3 DEF TypeInv, LineOK, Frames
<1>5. DeviceOK' BY <1>1 DEF TypeInv, DeviceOK, device
<1>6. QED BY <1>1, <1>4, <1>5 DEF TypeInv

LEMMA DamagedIs ==
    ASSUME TypeInv, Damaged
    PROVE  /\ line # NoFrame /\ deferred = 0 /\ ~Busy(u) /\ line' = NoFrame
           /\ UNCHANGED <<device, tool, view>> /\ LinkOK' /\ FrameAnswered
<1>1. /\ line # NoFrame /\ deferred = 0 /\ line' = NoFrame /\ UNCHANGED <<device, tool, view>>
      /\ deferred' = 0 /\ Reply(line.seq, "REFUSED") /\ Stay
  BY DEF Damaged, Receiving, Taken
<1>2. LinkOK' /\ u' = u BY <1>1, StayIs
<1>3. FrameAnswered BY <1>1, <1>2 DEF FrameAnswered
<1>4. ~Busy(u) BY <1>1 DEF TypeInv, LinkOK
<1>5. QED BY <1>1, <1>2, <1>3, <1>4

LEMMA PowerLossTyped ==
    ASSUME TypeInv, PowerLoss
    PROVE  TypeInv' /\ flash' \in Cut(chip)
<1>1. flash' \in Cut(chip) BY DEF PowerLoss
<1>2. DeviceOK' BY <1>1 DEF PowerLoss, Cut, TypeInv, DeviceOK
<1>3. LinkOK'
  <2>1. u' = FreshUpdate /\ configured' = FALSE /\ owned' = FALSE /\ deferred' = 0
        /\ status' \in Statuses
    BY DEF PowerLoss, Statuses
  <2>2. u' \in Updates /\ u'.st = "IDLE" BY <2>1, FreshUpdated
  <2>3. InBounds(u)' /\ ~Busy(u)' BY <2>2 DEF InBounds, Programs, Busy, BusyStates
  <2>4. deferred' \in 0 .. LastFrame + 1 BY <2>1, LastFrameIs
  <2>5. QED BY <2>1, <2>2, <2>3, <2>4 DEF LinkOK
<1>4. LineOK' BY DEF PowerLoss, TypeInv, LineOK, Views, Frames
<1>5. QED BY <1>1, <1>2, <1>3, <1>4 DEF TypeInv

LEMMA ToolStartsTyped == ASSUME TypeInv, ToolStarts PROVE LineOK'
<1>1. PICK p \in Packs : line' = FrameAt(p, 1) /\ tool' = [at |-> 1, pack |-> p]
                         /\ replies' = <<>> /\ view' = view
  BY DEF ToolStarts
<1>2. 1 \in 1 .. LastFrame /\ 1 \in 0 .. LastFrame BY LastFrameIs
<1>3. line' \in Frames BY <1>1, <1>2 DEF Frames
<1>4. tool' \in Tools BY <1>1, <1>2 DEF Tools
<1>5. QED BY <1>1, <1>3, <1>4 DEF TypeInv, LineOK

(* The tool goes on to the next frame, or it stops.                        *)
Good == [seq |-> tool.at, outcome |-> "OK"]
ToolAdvances ==
    /\ replies # <<>> /\ Head(replies) = Good /\ tool.at \in 1 .. LastFrame - 1
    /\ line = NoFrame /\ tool' = [at |-> tool.at + 1, pack |-> tool.pack]
    /\ tool.pack \in Packs
    /\ line' = FrameAt(tool.pack, tool.at + 1) /\ replies' = Tail(replies)

(* The tool that runs sends a pack.                                        *)
Sending == tool.at # 0 => tool.pack \in Packs

LEMMA ToolReadsIs ==
    ASSUME TypeInv, Sending, ToolReads
    PROVE  ToolAdvances \/ (tool' = NotRunning /\ line' = line /\ replies' = Tail(replies)
                            /\ replies # <<>>)
<1> DEFINE good == Head(replies) = [seq |-> tool.at,
                                    outcome |-> IF tool.at = LastFrame THEN "COMPLETE" ELSE "OK"]
<1>1. tool.at # 0 /\ replies # <<>> /\ replies' = Tail(replies) BY DEF ToolReads
<1>2. /\ tool \in Tools /\ tool.at \in 0 .. LastFrame /\ LastFrame \in Nat
      /\ tool = [at |-> tool.at, pack |-> tool.pack]
  BY LastFrameIs DEF TypeInv, LineOK, Tools
<1>3. CASE good /\ tool.at < LastFrame
  <2>1. line = NoFrame /\ tool' = [tool EXCEPT !.at = tool.at + 1]
        /\ line' = FrameAt(tool.pack, tool.at + 1)
    BY <1>2, <1>3 DEF ToolReads
  <2>2. tool' = [at |-> tool.at + 1, pack |-> tool.pack] BY <1>2, <2>1
  <2>3. tool.at \in 1 .. LastFrame - 1 BY <1>1, <1>2, <1>3
  <2>4. Head(replies) = Good BY <1>2, <1>3 DEF Good
  <2>5. QED BY <1>1, <2>1, <2>2, <2>3, <2>4 DEF ToolAdvances, Sending
<1>4. CASE ~(good /\ tool.at < LastFrame)
  BY <1>1, <1>4 DEF ToolReads
<1>5. QED BY <1>3, <1>4

LEMMA TailTyped == ASSUME replies \in Seq(Answers), replies # <<>>
                   PROVE  Tail(replies) \in Seq(Answers)
OBVIOUS

LEMMA ToolReadsTyped == ASSUME TypeInv, Sending, ToolReads PROVE LineOK' /\ Sending'
<1>1. replies' \in Seq(Answers) /\ view' = view
  BY TailTyped DEF ToolReads, TypeInv, LineOK
<1>2. CASE ToolAdvances
  <2>1. tool.at + 1 \in 1 .. LastFrame /\ tool.at + 1 \in 0 .. LastFrame
    BY <1>2, LastFrameIs DEF ToolAdvances
  <2>2. line' \in Frames BY <1>2, <2>1 DEF ToolAdvances, Frames
  <2>3. tool' \in Tools /\ Sending' BY <1>2, <2>1 DEF ToolAdvances, Tools, Sending
  <2>4. QED BY <1>1, <2>2, <2>3 DEF TypeInv, LineOK
<1>3. CASE tool' = NotRunning /\ line' = line
  <2>1. tool' \in Tools /\ Sending' BY <1>3, LastFrameIs DEF NotRunning, Tools, Sending
  <2>2. QED BY <1>1, <1>3, <2>1 DEF TypeInv, LineOK
<1>4. QED BY <1>2, <1>3, ToolReadsIs

LEMMA LinkStays == ASSUME LinkOK, UNCHANGED link PROVE LinkOK'
BY DEF LinkOK, link, InBounds, Programs, NextChunk, Busy

LEMMA TypeNext == ASSUME TypeInv, Sending, [Next]_vars PROVE TypeInv' /\ Sending'
<1>1. CASE Step
  <2>1. PICK r, d : StepMakes(r, d) /\ Stepped(r, d) BY <1>1, StepIs
  <2>2. TypeInv' BY <2>1, StepMade, SteppedTyped
  <2>3. QED BY <2>1, <2>2 DEF Stepped, Sending
<1>2. CASE Process BY <1>2, ProcessTyped, ProcessIs DEF Sending
<1>3. CASE Damaged
  <2>1. /\ line # NoFrame /\ line' = NoFrame /\ UNCHANGED <<device, tool, view>>
        /\ LinkOK' /\ FrameAnswered
    BY <1>3, DamagedIs
  <2>2. line.seq \in 1 .. LastFrame + 1 BY <2>1, FrameFields DEF TypeInv, LineOK
  <2>3. replies' \in Seq(Answers) BY <2>1, <2>2, ReplyTyped DEF FrameAnswered, TypeInv, LineOK
  <2>4. LineOK' BY <2>1, <2>3 DEF TypeInv, LineOK, Frames
  <2>5. QED BY <2>1, <2>4 DEF TypeInv, DeviceOK, device, Sending
<1>4. CASE ChipDone
  <2>1. DeviceOK' BY <1>4, DoneIs DEF ChipDone, TypeInv, DeviceOK
  <2>2. LinkOK' BY <1>4, LinkStays DEF ChipDone, TypeInv
  <2>3. QED BY <1>4, <2>1, <2>2 DEF ChipDone, TypeInv, LineOK, Sending
<1>5. CASE GenericPoll
  <2>1. PICK d \in PollAnswers : Driver(d) BY <1>5 DEF GenericPoll
  <2>2. DeviceOK' BY <2>1, PollAnswered, DeviceDriven DEF TypeInv
  <2>3. LinkOK' BY <1>5, LinkStays DEF GenericPoll, TypeInv
  <2>4. QED BY <1>5, <2>2, <2>3 DEF GenericPoll, TypeInv, LineOK, Sending
<1>6. CASE PowerLoss BY <1>6, PowerLossTyped DEF PowerLoss, Sending
<1>7. ASSUME UNCHANGED <<device, link>>, LineOK', Sending' PROVE TypeInv' /\ Sending'
  <2>1. DeviceOK' BY <1>7 DEF TypeInv, DeviceOK, device
  <2>2. LinkOK' BY <1>7, LinkStays DEF TypeInv
  <2>3. QED BY <1>7, <2>1, <2>2 DEF TypeInv
<1>8. CASE Lost BY <1>7, <1>8 DEF Lost, Taken, TypeInv, LineOK, Frames, Sending
<1>9. CASE Product
  <2>1. view' \in Views BY <1>9 DEF Product, Views
  <2>2. QED BY <1>7, <1>9, <2>1 DEF Product, TypeInv, LineOK, Sending
<1>10. CASE ToolStarts BY <1>7, <1>10, ToolStartsTyped DEF ToolStarts, Sending
<1>11. CASE ToolReads BY <1>7, <1>11, ToolReadsTyped DEF ToolReads
<1>12. CASE ToolGivesUp
  <2>1. tool' \in Tools /\ Sending' BY <1>12, LastFrameIs DEF ToolGivesUp, NotRunning, Tools, Sending
  <2>2. QED BY <1>7, <1>12, <2>1 DEF ToolGivesUp, TypeInv, LineOK
<1>13. CASE Stray
  <2>1. line' \in Frames /\ UNCHANGED <<device, link, view, replies, tool>>
    BY <1>13 DEF Stray, Frames
  <2>2. QED BY <1>7, <2>1 DEF TypeInv, LineOK, Sending
<1>14. CASE UNCHANGED vars BY <1>7, <1>14 DEF vars, TypeInv, LineOK, Sending
<1>15. QED BY <1>1, <1>2, <1>3, <1>4, <1>5, <1>6, <1>8, <1>9, <1>10, <1>11, <1>12, <1>13, <1>14
       DEF Next

(* Every variable has its type (app_resource_update_t, the reply deferred, *)
(* the frames and replies on the line): a chunk is never written past its  *)
(* end, nor a chunk beyond the last received.                              *)
THEOREM UploadTypeCorrect == Spec => []TypeOK
<1>1. Init => TypeInv /\ Sending
  BY TypeInit DEF Init, Sending, NotRunning
<1>2. TypeInv => TypeOK
  BY DEF TypeInv, DeviceOK, LinkOK, LineOK, Answers, TypeOK
<1>3. QED BY <1>1, <1>2, TypeNext, PTL DEF Spec

(***************************************************************************)
(* The talk with the tool.  While it has met nothing but what it hopes for *)
(* the replies on their way answer the frame it awaits, or a stray one; a  *)
(* reply that is deferred is the next it reads, and the update works for   *)
(* that frame or, after a give-up and a new start, for a later one.        *)
(***************************************************************************)
Mine == FrameAt(tool.pack, tool.at)
Hopeful == tool.at # 0 /\ (replies # <<>> => Head(replies) = Good)
AwaitedFrame == tool.at # 0 /\ line # NoFrame => line = Mine \/ line.seq = LastFrame + 1
DeferredFrame == /\ Erases(u) => deferred = 1
                 /\ Programs(u) => deferred = NextChunk(u) + 1
DeferredAlone == Hopeful /\ deferred # 0 /\ ~(tool.at = 1 /\ deferred = 1) => replies = <<>>
SentAlone == Hopeful /\ tool.at >= 2 /\ line = Mine => replies = <<>> /\ deferred # tool.at
RepliesAwaited == Hopeful => \A i \in DOMAIN replies : replies[i].seq \in {tool.at, LastFrame + 1}
WorkNotBehind == /\ Programs(u) /\ tool.at # 0 => deferred >= tool.at
                 /\ tool.at >= 3 => ~Erases(u)
WorkIsMine == Hopeful /\ tool.at >= 2 /\ deferred = tool.at => u.chunk = tool.pack
Talk == /\ AwaitedFrame /\ DeferredFrame /\ DeferredAlone /\ SentAlone /\ RepliesAwaited
        /\ WorkNotBehind /\ WorkIsMine

LEMMA MineIs == Mine # NoFrame /\ Mine.seq = tool.at /\ Mine.pack = tool.pack
<1>1. Mine.seq = tool.at /\ Mine.pack = tool.pack BY DEF Mine, FrameAt
<1>2. Mine.type # "NONE" BY DEF Mine, FrameAt
<1>3. QED BY <1>1, <1>2 DEF NoFrame

LEMMA BusyIs == \A r : Busy(r) <=> Erases(r) \/ Programs(r)
BY DEF Busy, BusyStates, Erases, Programs

LEMMA TalkTypes ==
    ASSUME TypeInv
    PROVE  /\ tool.at \in 0 .. LastFrame /\ LastFrame \in Nat /\ LastFrame >= 2
           /\ deferred \in 0 .. LastFrame + 1 /\ tool.at \in Nat /\ deferred \in Nat
           /\ NextChunk(u) \in Nat /\ NextChunk(u) >= 1 /\ (Busy(u) <=> deferred # 0)
           /\ replies \in Seq(Answers) /\ tool = [at |-> tool.at, pack |-> tool.pack]
<1>1. Len(u.applied) \in Nat BY UpdateFields DEF TypeInv, LinkOK
<1>2. NextChunk(u) \in Nat /\ NextChunk(u) >= 1 BY <1>1 DEF NextChunk
<1>3. tool.at \in 0 .. LastFrame /\ tool = [at |-> tool.at, pack |-> tool.pack]
  BY DEF TypeInv, LineOK, Tools
<1>4. /\ deferred \in 0 .. LastFrame + 1 /\ (Busy(u) <=> deferred # 0)
      /\ replies \in Seq(Answers)
  BY DEF TypeInv, LinkOK, LineOK
<1>5. QED BY <1>2, <1>3, <1>4, LastFrameIs

(* A reply more.                                                           *)
LEMMA Replied ==
    ASSUME replies \in Seq(Answers), NEW n, NEW o, Reply(n, o), UNCHANGED tool, Hopeful'
    PROVE  /\ Hopeful /\ replies' # <<>>
           /\ replies = <<>> => n = tool.at /\ o = "OK"
           /\ \A i \in DOMAIN replies' : \/ replies'[i].seq = n
                                         \/ i \in DOMAIN replies /\ replies'[i] = replies[i]
<1> DEFINE a == [seq |-> n, outcome |-> o]
<1>1. replies' = Append(replies, a) /\ a.seq = n /\ a.outcome = o BY DEF Reply
<1> HIDE DEF a
<1>2. replies' # <<>> BY <1>1
<1>3. \A i \in DOMAIN replies' : replies'[i] = a \/ (i \in DOMAIN replies /\ replies'[i] = replies[i])
  BY <1>1
<1>4. tool.at # 0 /\ Head(replies') = Good BY <1>2 DEF Hopeful, Good
<1>5. CASE replies = <<>>
  <2>1. Head(replies') = a BY <1>1, <1>5
  <2>2. a = Good /\ Good.seq = tool.at /\ Good.outcome = "OK" BY <1>4, <2>1 DEF Good
  <2>3. QED BY <1>1, <1>2, <1>3, <1>4, <1>5, <2>2 DEF Hopeful
<1>6. CASE replies # <<>>
  <2>1. Head(replies') = Head(replies) BY <1>1, <1>6
  <2>2. QED BY <1>1, <1>2, <1>3, <1>4, <1>6, <2>1 DEF Hopeful
<1>7. QED BY <1>5, <1>6

(* Nothing is said and nothing deferred; a frame may get lost.             *)
LEMMA TalkSilent ==
    ASSUME TypeInv, Talk, UNCHANGED <<tool, replies>>, line' = line \/ line' = NoFrame,
           \/ deferred' = 0 /\ ~Busy(u)'
           \/ /\ deferred' = deferred /\ u'.chunk = u.chunk /\ u'.applied = u.applied
              /\ Erases(u)' => Erases(u)
              /\ Programs(u)' => Programs(u)
    PROVE  Talk'
<1>1. Mine' = Mine /\ Hopeful' = Hopeful BY DEF Mine, Hopeful, Good, FrameAt
<1>2. AwaitedFrame' BY <1>1 DEF Talk, AwaitedFrame
<1>3. DeferredFrame' BY BusyIs DEF Talk, DeferredFrame, NextChunk
<1>4. DeferredAlone' BY <1>1 DEF Talk, DeferredAlone
<1>5. SentAlone'
  <2>1. tool.at \in Nat BY TalkTypes
  <2>2. line' = Mine => line = Mine BY MineIs
  <2>3. tool.at >= 2 => 0 # tool.at BY <2>1
  <2>4. QED BY <1>1, <2>2, <2>3 DEF Talk, SentAlone
<1>6. RepliesAwaited' BY <1>1 DEF Talk, RepliesAwaited
<1>7. WorkNotBehind' BY BusyIs DEF Talk, WorkNotBehind
<1>8. WorkIsMine'
  <2>1. tool.at \in Nat BY TalkTypes
  <2>2. tool.at >= 2 => 0 # tool.at BY <2>1
  <2>3. QED BY <1>1, <2>2 DEF Talk, WorkIsMine
<1>9. QED BY <1>2, <1>3, <1>4, <1>5, <1>6, <1>7, <1>8 DEF Talk

(* The update is done with the frame, and the reply goes out.              *)
LEMMA TalkResolved ==
    ASSUME TypeInv, Talk, NEW o, Reply(deferred, o), deferred # 0, deferred' = 0, ~Busy(u)',
           UNCHANGED <<tool, line>>
    PROVE  Talk'
<1>1. Mine' = Mine BY DEF Mine, FrameAt
<1>2. ASSUME Hopeful'
      PROVE  /\ Hopeful /\ (tool.at >= 2 => replies = <<>>)
             /\ replies = <<>> => deferred = tool.at
             /\ \A i \in DOMAIN replies' : replies'[i].seq \in {tool.at, LastFrame + 1}
  <2>1. /\ Hopeful /\ (replies = <<>> => deferred = tool.at)
        /\ \A i \in DOMAIN replies' : \/ replies'[i].seq = deferred
                                      \/ i \in DOMAIN replies /\ replies'[i] = replies[i]
    BY <1>2, Replied, TalkTypes
  <2>2. replies = <<>> \/ (tool.at = 1 /\ deferred = 1) BY <2>1 DEF Talk, DeferredAlone
  <2>3. \A i \in DOMAIN replies : replies[i].seq \in {tool.at, LastFrame + 1}
    BY <2>1 DEF Talk, RepliesAwaited
  <2>4. deferred = tool.at BY <2>1, <2>2
  <2>5. \A i \in DOMAIN replies' : replies'[i].seq \in {tool.at, LastFrame + 1}
    BY <2>1, <2>3, <2>4
  <2>6. tool.at >= 2 => replies = <<>> BY <2>2, TalkTypes
  <2>7. QED BY <2>1, <2>5, <2>6
<1>3. AwaitedFrame' BY <1>1 DEF Talk, AwaitedFrame
<1>4. DeferredFrame' BY BusyIs DEF DeferredFrame
<1>5. DeferredAlone' BY DEF DeferredAlone
<1>6. SentAlone'
  <2> SUFFICES ASSUME Hopeful', tool.at >= 2, line = Mine PROVE FALSE
    BY <1>1 DEF SentAlone
  <2>1. Hopeful /\ replies = <<>> /\ deferred = tool.at BY <1>2
  <2>2. deferred # tool.at BY <2>1 DEF Talk, SentAlone
  <2>3. QED BY <2>1, <2>2
<1>7. RepliesAwaited' BY <1>2 DEF RepliesAwaited
<1>8. WorkNotBehind' BY BusyIs DEF WorkNotBehind
<1>9. WorkIsMine'
  <2>1. tool.at >= 2 => 0 # tool.at BY TalkTypes
  <2>2. QED BY <2>1 DEF WorkIsMine
<1>10. QED BY <1>3, <1>4, <1>5, <1>6, <1>7, <1>8, <1>9 DEF Talk

(* A frame is taken from the line and answered at once.                    *)
LEMMA TalkAnswered ==
    ASSUME TypeInv, Talk, line # NoFrame, deferred = 0, ~Busy(u)', line' = NoFrame,
           UNCHANGED tool, FrameAnswered
    PROVE  Talk'
<1>1. Mine' = Mine BY DEF Mine, FrameAt
<1>2. PICK o : Reply(line.seq, o) /\ deferred' = 0 BY DEF FrameAnswered
<1>3. RepliesAwaited'
  <2> SUFFICES ASSUME Hopeful', NEW i \in DOMAIN replies'
               PROVE  replies'[i].seq \in {tool.at, LastFrame + 1}
    BY DEF RepliesAwaited
  <2>1. Hopeful /\ (replies'[i].seq = line.seq \/ (i \in DOMAIN replies /\ replies'[i] = replies[i]))
    BY <1>2, Replied, TalkTypes
  <2>2. line.seq \in {tool.at, LastFrame + 1} BY <2>1, MineIs DEF Talk, AwaitedFrame, Hopeful
  <2>3. QED BY <2>1, <2>2 DEF Talk, RepliesAwaited
<1>4. AwaitedFrame' BY DEF AwaitedFrame
<1>5. DeferredFrame' BY BusyIs DEF DeferredFrame
<1>6. DeferredAlone' BY <1>2 DEF DeferredAlone
<1>7. SentAlone' BY <1>1, MineIs DEF SentAlone
<1>8. WorkNotBehind' BY BusyIs DEF WorkNotBehind
<1>9. WorkIsMine'
  <2>1. tool.at >= 2 => 0 # tool.at BY TalkTypes
  <2>2. QED BY <1>2, <2>1 DEF WorkIsMine
<1>10. QED BY <1>3, <1>4, <1>5, <1>6, <1>7, <1>8, <1>9 DEF Talk

(* A frame is taken from the line, and the update works on it.             *)
LEMMA TalkWorked ==
    ASSUME TypeInv, Talk, line # NoFrame, deferred = 0, ~Busy(u), line' = NoFrame,
           UNCHANGED tool, FrameWorked
    PROVE  Talk'
<1>1. Mine' = Mine /\ Hopeful' = Hopeful /\ replies' = replies /\ deferred' = line.seq
  BY DEF Mine, FrameAt, Hopeful, Good, FrameWorked
<1>2. /\ line \in Frames /\ u \in Updates /\ line.seq \in 1 .. LastFrame + 1
      /\ line.type = "BEGIN" => line.seq = 1
      /\ line.type = "CHUNK" => line.chunk \in Chunks /\ line.seq = line.chunk + 1
  BY FrameFields DEF TypeInv, LineOK, LinkOK
<1>3. line.seq \in 1 .. LastFrame
  <2>1. LastFrame = Len(ChunkEnds) + 2 /\ Len(ChunkEnds) \in Nat BY LastFrameIs, ChunkLayout
  <2>2. line.type \in {"BEGIN", "CHUNK"} BY DEF FrameWorked
  <2>3. QED BY <1>2, <2>1, <2>2 DEF Chunks
<1>4. tool.at # 0 => line = Mine /\ line.seq = tool.at /\ line.pack = tool.pack
  <2>1. line.seq # LastFrame + 1 BY <1>3, LastFrameIs
  <2>2. QED BY <2>1, MineIs DEF Talk, AwaitedFrame
<1>5. AwaitedFrame' BY DEF AwaitedFrame
<1>6. DeferredAlone'
  <2>1. Hopeful /\ ~(tool.at = 1) => replies = <<>>
    <3>1. tool.at # 0 /\ tool.at # 1 => tool.at >= 2 BY TalkTypes
    <3>2. QED BY <1>4, <3>1 DEF Talk, SentAlone, Hopeful
  <2>2. Hopeful => line.seq = tool.at BY <1>4 DEF Hopeful
  <2>3. QED BY <1>1, <2>1, <2>2 DEF DeferredAlone
<1>7. SentAlone' BY <1>1, MineIs DEF SentAlone
<1>8. RepliesAwaited' BY <1>1 DEF Talk, RepliesAwaited
<1>9. CASE line.type = "BEGIN"
  <2>1. u' = Begun(line) /\ line.seq = 1 BY <1>2, <1>9 DEF FrameWorked
  <2>2. u'.st = "ERASE_START" BY <1>2, <1>9, <2>1, BegunUpdated
  <2>3. Erases(u)' /\ ~Programs(u)' BY <2>2 DEF Erases, Programs
  <2>4. DeferredFrame' BY <1>1, <2>1, <2>3 DEF DeferredFrame
  <2>5. ~(tool.at >= 2) /\ ~(tool.at >= 3) BY <1>4, <2>1, TalkTypes
  <2>6. WorkNotBehind' /\ WorkIsMine' BY <2>3, <2>5 DEF WorkNotBehind, WorkIsMine
  <2>7. QED BY <1>5, <1>6, <1>7, <1>8, <2>4, <2>6 DEF Talk
<1>10. CASE line.type = "CHUNK"
  <2>1. u' = Accepted(u, line) /\ u'.st = "PROGRAM_START" BY <1>10 DEF FrameWorked
  <2>2. line.chunk = NextChunk(u) /\ u'.applied = u.applied /\ u'.chunk = line.pack
    BY <1>2, <2>1, AcceptedUpdated
  <2>3. NextChunk(u)' = line.chunk BY <2>2 DEF NextChunk
  <2>4. ~Erases(u)' /\ Programs(u)' BY <2>1 DEF Erases, Programs
  <2>5. DeferredFrame' BY <1>1, <1>2, <1>10, <2>3, <2>4 DEF DeferredFrame
  <2>6. tool.at # 0 => line.seq >= tool.at BY <1>4, TalkTypes
  <2>7. WorkNotBehind' BY <1>1, <2>4, <2>6 DEF WorkNotBehind
  <2>8. WorkIsMine' BY <1>1, <1>4, <2>2 DEF WorkIsMine, Hopeful
  <2>9. QED BY <1>5, <1>6, <1>7, <1>8, <2>5, <2>7, <2>8 DEF Talk
<1>11. QED BY <1>9, <1>10 DEF FrameWorked

(* The tool that goes on leaves nothing behind that it could hope for.     *)
LEMMA AdvancesHopeful ==
    ASSUME TypeInv, Talk, ToolAdvances
    PROVE  /\ Hopeful /\ replies # <<>> /\ tool'.at = tool.at + 1 /\ tool.at \in Nat \ {0}
           /\ tool.at + 1 \in 0 .. LastFrame
           /\ deferred # 0 => tool.at = 1 /\ deferred = 1
           /\ Hopeful' => replies' = <<>>
<1>1. /\ replies # <<>> /\ Head(replies) = Good /\ tool.at \in 1 .. LastFrame - 1
      /\ tool'.at = tool.at + 1 /\ replies' = Tail(replies)
  BY DEF ToolAdvances
<1>2. tool.at \in Nat \ {0} /\ tool.at + 1 \in 0 .. LastFrame BY <1>1, TalkTypes
<1>3. Hopeful BY <1>1, <1>2 DEF Hopeful
<1>4. deferred # 0 => tool.at = 1 /\ deferred = 1 BY <1>1, <1>3 DEF Talk, DeferredAlone
<1>5. ASSUME Hopeful', replies' # <<>> PROVE FALSE
  <2>1. replies' # <<>> /\ Head(replies') = Good' /\ Good'.seq = tool.at + 1
    BY <1>1, <1>5 DEF Hopeful, Good
  <2>2. 2 \in DOMAIN replies /\ Head(replies') = replies[2] BY <1>1, <2>1, TalkTypes
  <2>3. replies[2].seq \in {tool.at, LastFrame + 1} BY <1>3, <2>2 DEF Talk, RepliesAwaited
  <2>4. tool.at + 1 \in {tool.at, LastFrame + 1} BY <2>1, <2>2, <2>3
  <2>5. QED BY <1>2, <2>4, LastFrameIs
<1>6. QED BY <1>1, <1>2, <1>3, <1>4, <1>5

LEMMA TalkRead ==
    ASSUME TypeInv, Sending, Talk, ToolReads PROVE Talk'
<1>1. UNCHANGED <<u, deferred>> BY DEF ToolReads, link
<1>2. DeferredFrame' BY <1>1 DEF Talk, DeferredFrame, Erases, Programs, NextChunk
<1>3. CASE ToolAdvances
  <2>1. /\ Hopeful /\ tool'.at = tool.at + 1 /\ tool.at \in Nat \ {0}
        /\ deferred # 0 => tool.at = 1 /\ deferred = 1
        /\ Hopeful' => replies' = <<>>
    BY <1>3, AdvancesHopeful
  <2>2. line' = Mine' BY <1>3 DEF ToolAdvances, Mine, FrameAt
  <2>3. deferred # tool.at + 1 /\ deferred \in Nat BY <2>1, TalkTypes
  <2>4. AwaitedFrame' BY <2>2 DEF AwaitedFrame
  <2>5. DeferredAlone' BY <2>1 DEF DeferredAlone
  <2>6. SentAlone' BY <1>1, <2>1, <2>3 DEF SentAlone
  <2>7. RepliesAwaited' BY <2>1 DEF RepliesAwaited
  <2>8. WorkNotBehind'
    <3>1. Programs(u) => deferred = NextChunk(u) + 1 /\ deferred >= 2
      BY TalkTypes DEF Talk, DeferredFrame
    <3>2. ~Programs(u) BY <2>1, <3>1, TalkTypes, BusyIs
    <3>3. Erases(u) => deferred # 0 BY TalkTypes, BusyIs
    <3>4. Erases(u) => ~(tool.at + 1 >= 3) BY <2>1, <3>3
    <3>5. QED BY <1>1, <2>1, <3>2, <3>4 DEF WorkNotBehind, Erases, Programs
  <2>9. WorkIsMine' BY <1>1, <2>1, <2>3 DEF WorkIsMine
  <2>10. QED BY <1>2, <2>4, <2>5, <2>6, <2>7, <2>8, <2>9 DEF Talk
<1>4. CASE tool' = NotRunning
  <2>1. tool'.at = 0 BY <1>4 DEF NotRunning
  <2>2. QED BY <1>2, <2>1 DEF Talk, AwaitedFrame, DeferredAlone, SentAlone, RepliesAwaited,
                              WorkNotBehind, WorkIsMine, Hopeful
<1>5. QED BY <1>3, <1>4, ToolReadsIs

LEMMA TalkStarts == ASSUME TypeInv, Talk, ToolStarts PROVE Talk'
<1>1. PICK p \in Packs : /\ line' = FrameAt(p, 1) /\ tool' = [at |-> 1, pack |-> p]
                         /\ replies' = <<>> /\ UNCHANGED <<u, deferred>>
  BY DEF ToolStarts, link
<1>2. line' = Mine' /\ tool'.at = 1 BY <1>1 DEF Mine, FrameAt
<1>3. Programs(u) => deferred >= 1 BY TalkTypes, BusyIs
<1>4. AwaitedFrame' BY <1>2 DEF AwaitedFrame
<1>5. DeferredFrame' BY <1>1 DEF Talk, DeferredFrame, Erases, Programs, NextChunk
<1>6. DeferredAlone' /\ SentAlone' /\ RepliesAwaited' /\ WorkIsMine'
  BY <1>1, <1>2 DEF DeferredAlone, SentAlone, RepliesAwaited, WorkIsMine
<1>7. WorkNotBehind' BY <1>1, <1>2, <1>3 DEF WorkNotBehind, Programs
<1>8. QED BY <1>4, <1>5, <1>6, <1>7 DEF Talk

LEMMA TalkStray == ASSUME TypeInv, Talk, Stray PROVE Talk'
<1>1. /\ line'.seq = LastFrame + 1 /\ UNCHANGED <<u, deferred, replies, tool>>
  BY DEF Stray, link
<1>2. Mine' = Mine /\ Hopeful' = Hopeful BY <1>1 DEF Mine, Hopeful, Good, FrameAt
<1>3. line' # Mine
  <2>1. tool.at # LastFrame + 1 BY TalkTypes
  <2>2. QED BY <1>1, <2>1, MineIs
<1>4. AwaitedFrame' BY <1>1 DEF AwaitedFrame
<1>5. SentAlone' BY <1>2, <1>3 DEF SentAlone
<1>6. QED BY <1>1, <1>2, <1>4, <1>5 DEF Talk, DeferredFrame, DeferredAlone, RepliesAwaited,
          WorkNotBehind, WorkIsMine, Erases, Programs, NextChunk

(***************************************************************************)
(* What the flash holds while the driver keeps track of the chip.          *)
(***************************************************************************)
Erasure == [kind |-> "ERASE", at |-> u.sector, pack |-> "NONE"]
Programming == [kind |-> "PROGRAM", at |-> u.written + 1, pack |-> u.chunk]
Tracked ==
    /\ pending = FALSE => chip = Idle
    /\ pending => u.st \in {"ERASE_POLL", "PROGRAM_POLL"}
    /\ chip # Idle /\ u.st = "ERASE_POLL" => chip = Erasure
    /\ chip # Idle /\ u.st = "PROGRAM_POLL" => chip = Programming

ErasedUpTo(n) == \A c \in Cells : c <= n => flash[c] = "ERASED"
BlankFrom(n) == \A c \in Cells : c >= n => flash[c] = "ERASED"
HoldsErasure ==
    /\ Erases(u) => ErasedUpTo(Before(SectorEnds, u.sector))
    /\ u.st = "ERASE_POLL" /\ chip = Idle => ErasedUpTo(SectorEnds[u.sector])
    /\ u.st = "READY" => BlankFrom(Before(ChunkEnds, NextChunk(u)) + 1)
HoldsChunk ==
    Programs(u) =>
        /\ \A c \in Cells : Before(ChunkEnds, NextChunk(u)) < c /\ c <= u.written
                               => flash[c] = u.chunk
        /\ BlankFrom(u.written + 2)
        /\ u.st = "PROGRAM_START" \/ chip # Idle => flash[u.written + 1] = "ERASED"
        /\ u.st = "PROGRAM_POLL" /\ chip = Idle => flash[u.written + 1] = u.chunk

(* A chunk is stored; it is, once its reply is the next that is read.      *)
Stored(i) == \A c \in CellsOf(ChunkEnds, i) : flash[c] = tool.pack
AckStored == Hopeful /\ tool.at \in 2 .. LastFrame - 1 /\ replies # <<>> => Stored(tool.at - 1)
Kept == Tracked /\ HoldsErasure /\ HoldsChunk /\ AckStored /\ AcknowledgedIsStored
StoredInv == Talk /\ (~tainted => Kept)

LEMMA AcknowledgedIs ==
    AcknowledgedIsStored <=>
        (~tainted => \A i \in 1 .. tool.at - 2 : i \in Chunks => Stored(i))
BY DEF AcknowledgedIsStored, Stored

LEMMA ChunkCells ==
    ASSUME NEW i \in Chunks, NEW c \in CellsOf(ChunkEnds, i)
    PROVE  c \in Cells /\ Before(ChunkEnds, i) < c /\ c <= ChunkEnds[i]
<1>1. /\ ChunkEnds[i] \in Nat /\ Before(ChunkEnds, i) \in Nat
      /\ ChunkEnds[i] <= Size /\ Size \in Nat /\ Cells = 1 .. Size
  BY ChunkLayout
<1>2. c \in Before(ChunkEnds, i) + 1 .. ChunkEnds[i] BY DEF CellsOf
<1>3. QED BY <1>1, <1>2

(* Nothing changes what is stored when flash and tool stay.                *)
LEMMA StoredStays ==
    ASSUME Kept, ~tainted, UNCHANGED <<flash, tool>>
    PROVE  /\ AcknowledgedIsStored'
           /\ UNCHANGED replies \/ ~Hopeful' \/ tool.at \notin 2 .. LastFrame - 1 => AckStored'
<1>1. \A i : Stored(i)' = Stored(i) BY DEF Stored
<1>2. AcknowledgedIsStored' BY DEF AcknowledgedIsStored, Kept
<1>3. UNCHANGED replies => Hopeful' = Hopeful BY DEF Hopeful, Good
<1>4. QED BY <1>1, <1>2, <1>3 DEF Kept, AckStored

(* An operation under way is none that a tool has been told of.            *)
LEMMA OperationSpares ==
    ASSUME TypeInv, Talk, Tracked, chip # Idle
    PROVE  /\ pending = TRUE /\ u.st \in {"ERASE_POLL", "PROGRAM_POLL"}
           /\ u.st = "ERASE_POLL" => chip = Erasure
           /\ u.st = "PROGRAM_POLL" => chip = Programming
           /\ ~(Hopeful /\ tool.at \in 2 .. LastFrame - 1 /\ replies # <<>>)
           /\ \A i \in 1 .. tool.at - 2 : i \in Chunks =>
                 \A c \in CellsOf(ChunkEnds, i) : c \in Cells /\ Done(chip)[c] = flash[c]
<1>1. pending = TRUE BY DEF Tracked, TypeInv, DeviceOK
<1>2. /\ u.st \in {"ERASE_POLL", "PROGRAM_POLL"}
      /\ u.st = "ERASE_POLL" => chip = Erasure
      /\ u.st = "PROGRAM_POLL" => chip = Programming
  BY <1>1 DEF Tracked
<1>3. Busy(u) /\ deferred # 0 BY <1>2, TalkTypes DEF Busy, BusyStates
<1>4. ~(Hopeful /\ tool.at \in 2 .. LastFrame - 1 /\ replies # <<>>)
  <2>1. tool.at \in 2 .. LastFrame - 1 => tool.at # 1 BY TalkTypes
  <2>2. QED BY <1>3, <2>1 DEF Talk, DeferredAlone
<1>5. ASSUME NEW i \in 1 .. tool.at - 2, i \in Chunks, NEW c \in CellsOf(ChunkEnds, i)
      PROVE  c \in Cells /\ Done(chip)[c] = flash[c]
  <2>1. c \in Cells /\ c <= ChunkEnds[i] BY <1>5, ChunkCells
  <2>2. tool.at >= 3 /\ i \in Nat /\ i >= 1 /\ i <= tool.at - 2 BY TalkTypes
  <2>3. u.st = "PROGRAM_POLL" BY <1>2, <2>2 DEF Talk, WorkNotBehind, Erases
  <2>4. Programs(u) BY <2>3 DEF Programs
  <2>5. NextChunk(u) >= tool.at - 1
    <3>1. deferred = NextChunk(u) + 1 BY <2>4 DEF Talk, DeferredFrame
    <3>2. deferred >= tool.at BY <2>2, <2>4, TalkTypes DEF Talk, WorkNotBehind
    <3>3. QED BY <3>1, <3>2, TalkTypes
  <2>6. NextChunk(u) \in Chunks /\ Before(ChunkEnds, NextChunk(u)) <= u.written /\ u.written \in Nat
    BY <2>4, UpdateFields DEF TypeInv, LinkOK, InBounds
  <2>7. i < NextChunk(u) BY <2>2, <2>5, TalkTypes
  <2>8. ChunkEnds[i] <= Before(ChunkEnds, NextChunk(u)) BY <1>5, <2>6, <2>7, ChunkLayout
  <2>9. c # u.written + 1
    <3>1. ChunkEnds[i] \in Nat /\ Before(ChunkEnds, NextChunk(u)) \in Nat /\ c \in Int
      BY <1>5, <2>1, <2>6, ChunkLayout
    <3>2. QED BY <2>1, <2>6, <2>8, <3>1
  <2>10. chip.kind = "PROGRAM" /\ chip.at = u.written + 1 BY <1>2, <2>3 DEF Programming
  <2>11. flash \in [Cells -> Contents] /\ chip \in Operations \cup {Idle}
    BY DEF TypeInv, DeviceOK
  <2>12. Done(chip)[c] = flash[c] BY <2>1, <2>9, <2>10, <2>11, DoneIs
  <2>13. QED BY <2>1, <2>12
<1>6. QED BY <1>1, <1>2, <1>4, <1>5

(***************************************************************************)
(* The steps of the update.                                                *)
(***************************************************************************)
LEMMA SteppedIs ==
    ASSUME TypeInv, Busy(u), NEW r, NEW d, Stepped(r, d)
    PROVE  /\ u' = r /\ flash' = flash /\ chip' = d.chip /\ pending' = d.pending
           /\ tainted' = d.tainted /\ UNCHANGED <<tool, line>>
           /\ Busy(r) => UNCHANGED <<replies, deferred>>
           /\ ~Busy(r) => Reply(deferred, Outcome(r)) /\ deferred' = 0
<1>1. deferred # 0 BY TalkTypes
<1>2. QED BY <1>1 DEF Stepped, Driver, FinishIfTerminal

LEMMA StepShape ==
    ASSUME TypeInv, NEW r, NEW d, StepMakes(r, d), Busy(r)
    PROVE  /\ r.chunk = u.chunk /\ r.applied = u.applied
           /\ (Erases(r) => Erases(u)) /\ (Programs(r) => Programs(u))
<1>1. u \in Updates /\ InBounds(u) BY DEF TypeInv, LinkOK
<1>2. Failed.st = "ERROR" BY <1>1, UpdateStated DEF Failed, States
<1>3. r # Failed BY <1>2 DEF Busy, BusyStates
<1>4. CASE u.st = "ERASE_START"
  <2>1. r = [u EXCEPT !.st = "ERASE_POLL"] BY <1>3, <1>4 DEF StepMakes
  <2>2. r.chunk = u.chunk /\ r.applied = u.applied /\ r.st = "ERASE_POLL"
    BY <1>1, <2>1, UpdateStated DEF States, BusyStates
  <2>3. QED BY <1>4, <2>2 DEF Erases, Programs
<1>5. CASE u.st = "ERASE_POLL"
  <2>1. r = u \/ r = NextSector(u) BY <1>3, <1>5 DEF StepMakes
  <2>2. CASE r = NextSector(u)
    <3>1. r.chunk = u.chunk /\ r.applied = u.applied /\ r.st \in {"READY", "ERASE_START"}
      BY <1>1, <2>2, NextSectorUpdated
    <3>2. QED BY <1>5, <3>1 DEF Erases, Programs
  <2>3. QED BY <2>1, <2>2
<1>6. CASE u.st = "PROGRAM_START"
  <2>1. r = [u EXCEPT !.st = "PROGRAM_POLL"] BY <1>3, <1>6 DEF StepMakes
  <2>2. r.chunk = u.chunk /\ r.applied = u.applied /\ r.st = "PROGRAM_POLL"
    BY <1>1, <2>1, UpdateStated DEF States, BusyStates
  <2>3. QED BY <1>6, <2>2 DEF Erases, Programs
<1>7. CASE u.st = "PROGRAM_POLL"
  <2>0. Programs(u) BY <1>7 DEF Programs
  <2>1. r = u \/ r = NextCell(u) BY <1>3, <1>7 DEF StepMakes
  <2>2. CASE r = NextCell(u)
    <3>1. r.st # "READY" BY DEF Busy, BusyStates
    <3>2. r.chunk = u.chunk /\ r.applied = u.applied /\ r.st = "PROGRAM_START"
      BY <1>1, <2>0, <2>2, <3>1, NextCellUpdated
    <3>3. QED BY <1>7, <3>2 DEF Erases, Programs
  <2>3. QED BY <2>1, <2>2
<1>8. QED BY <1>4, <1>5, <1>6, <1>7 DEF StepMakes

LEMMA TalkStep ==
    ASSUME TypeInv, Talk, NEW r, NEW d, StepMakes(r, d), Stepped(r, d)
    PROVE  Talk'
<1>1. Busy(u) BY StepMade
<1>2. /\ u' = r /\ UNCHANGED <<tool, line>>
      /\ Busy(r) => UNCHANGED <<replies, deferred>>
      /\ ~Busy(r) => Reply(deferred, Outcome(r)) /\ deferred' = 0
  BY <1>1, SteppedIs
<1>3. CASE Busy(r)
  <2>1. /\ r.chunk = u.chunk /\ r.applied = u.applied
        /\ (Erases(r) => Erases(u)) /\ (Programs(r) => Programs(u))
    BY <1>3, StepShape
  <2>2. (Erases(u)' => Erases(u)) /\ (Programs(u)' => Programs(u))
    BY <1>2, <2>1 DEF Erases, Programs
  <2>3. UNCHANGED <<tool, replies>> /\ deferred' = deferred /\ u'.chunk = u.chunk
        /\ u'.applied = u.applied /\ line' = line
    BY <1>2, <1>3, <2>1
  <2>4. QED BY <2>2, <2>3, TalkSilent
<1>4. CASE ~Busy(r)
  <2>1. ~Busy(u)' BY <1>2, <1>4 DEF Busy
  <2>2. deferred # 0 BY <1>1, TalkTypes
  <2>3. QED BY <1>2, <1>4, <2>1, <2>2, TalkResolved
<1>5. QED BY <1>3, <1>4

(* A start that taints nothing has sent its command to an idle chip.       *)
LEMMA KeptEraseStart ==
    ASSUME TypeInv, StoredInv, ~tainted, NEW r, NEW d, StepMakes(r, d), Stepped(r, d),
           u.st = "ERASE_START", ~d.tainted
    PROVE  Kept'
<1>1. Kept /\ u \in Updates /\ DeviceOK /\ LinkOK BY DEF StoredInv, TypeInv, LinkOK
<1>2. pending = FALSE /\ chip = Idle
  BY <1>1 DEF Kept, Tracked, TypeInv, DeviceOK
<1>3. d \in StartAnswers(Erasure) BY DEF StepMakes, Erasure
<1>4. Erasure \in Operations /\ Erasure # Idle BY <1>1, CommandedIs DEF Erasure
<1>5. d.answer = "BUSY" /\ d.pending = TRUE /\ d.chip = Erasure
  BY <1>1, <1>2, <1>3, <1>4, StartAnswered
<1>6. r = [u EXCEPT !.st = "ERASE_POLL"] BY <1>5 DEF StepMakes
<1>7. r.st = "ERASE_POLL" /\ r.sector = u.sector
  BY <1>1, <1>6, UpdateStated DEF States, BusyStates
<1>8. Busy(u) /\ Busy(r) BY <1>7 DEF Busy, BusyStates
<1>9. /\ u' = r /\ flash' = flash /\ chip' = d.chip /\ pending' = d.pending
      /\ UNCHANGED <<tool, replies>>
  BY <1>8, SteppedIs
<1>10. Tracked' BY <1>4, <1>5, <1>7, <1>9 DEF Tracked, Erasure
<1>11. HoldsErasure'
  <2>1. ErasedUpTo(Before(SectorEnds, u.sector)) BY <1>1 DEF Kept, HoldsErasure, Erases
  <2>2. ErasedUpTo(Before(SectorEnds, u.sector))' BY <1>7, <1>9, <2>1 DEF ErasedUpTo, Before
  <2>3. chip' # Idle BY <1>4, <1>5, <1>9
  <2>4. QED BY <1>7, <1>9, <2>2, <2>3 DEF HoldsErasure
<1>12. HoldsChunk' BY <1>7, <1>9 DEF HoldsChunk, Programs
<1>13. AckStored' /\ AcknowledgedIsStored' BY <1>1, <1>9, StoredStays
<1>14. QED BY <1>10, <1>11, <1>12, <1>13 DEF Kept

LEMMA KeptProgramStart ==
    ASSUME TypeInv, StoredInv, ~tainted, NEW r, NEW d, StepMakes(r, d), Stepped(r, d),
           u.st = "PROGRAM_START", ~d.tainted
    PROVE  Kept'
<1>0. Programs(u) BY DEF Programs
<1>1. Kept /\ u \in Updates /\ DeviceOK /\ LinkOK BY DEF StoredInv, TypeInv, LinkOK
<1>2. pending = FALSE /\ chip = Idle
  BY <1>1 DEF Kept, Tracked, TypeInv, DeviceOK
<1>3. d \in StartAnswers(Programming) BY DEF StepMakes, Programming
<1>4. Programming \in Operations /\ Programming # Idle
  BY <1>0, <1>1, CommandedIs DEF Programming
<1>5. d.answer = "BUSY" /\ d.pending = TRUE /\ d.chip = Programming
  BY <1>1, <1>2, <1>3, <1>4, StartAnswered
<1>6. r = [u EXCEPT !.st = "PROGRAM_POLL"] BY <1>5 DEF StepMakes
<1>7. /\ r.st = "PROGRAM_POLL" /\ r.written = u.written /\ r.chunk = u.chunk
      /\ r.applied = u.applied
  BY <1>1, <1>6, UpdateStated DEF States, BusyStates
<1>8. Busy(u) /\ Busy(r) BY <1>7 DEF Busy, BusyStates
<1>9. /\ u' = r /\ flash' = flash /\ chip' = d.chip /\ pending' = d.pending
      /\ UNCHANGED <<tool, replies>>
  BY <1>8, SteppedIs
<1>10. Tracked' BY <1>4, <1>5, <1>7, <1>9 DEF Tracked, Programming
<1>11. HoldsErasure' BY <1>7, <1>9 DEF HoldsErasure, Erases
<1>12. HoldsChunk'
  <2>1. chip' # Idle /\ NextChunk(u)' = NextChunk(u) /\ u'.written = u.written
        /\ u'.chunk = u.chunk
    BY <1>4, <1>5, <1>7, <1>9 DEF NextChunk
  <2>2. /\ \A c \in Cells : Before(ChunkEnds, NextChunk(u)) < c /\ c <= u.written
                               => flash[c] = u.chunk
        /\ BlankFrom(u.written + 2) /\ flash[u.written + 1] = "ERASED"
    BY <1>0, <1>1 DEF Kept, HoldsChunk
  <2>3. BlankFrom(u.written + 2)' BY <1>9, <2>1, <2>2 DEF BlankFrom
  <2>4. QED BY <1>9, <2>1, <2>2, <2>3 DEF HoldsChunk
<1>13. AckStored' /\ AcknowledgedIsStored' BY <1>1, <1>9, StoredStays
<1>14. QED BY <1>10, <1>11, <1>12, <1>13 DEF Kept

(* While the chip is busy a poll leaves everything as it is.               *)
LEMMA KeptBusyPoll ==
    ASSUME Kept, ~tainted, UNCHANGED <<u, flash, chip, pending, tool, replies>>
    PROVE  Kept'
<1>1. Tracked' BY DEF Kept, Tracked, Erasure, Programming
<1>2. HoldsErasure' BY DEF Kept, HoldsErasure, Erases, ErasedUpTo, BlankFrom, NextChunk, Before
<1>3. HoldsChunk' BY DEF Kept, HoldsChunk, Programs, BlankFrom, NextChunk, Before
<1>4. AckStored' /\ AcknowledgedIsStored' BY StoredStays
<1>5. QED BY <1>1, <1>2, <1>3, <1>4 DEF Kept

(* A poll that taints nothing: the chip is done, or it is still at it.     *)
LEMMA PollIs ==
    ASSUME TypeInv, Kept, ~tainted, NEW d \in PollAnswers, ~d.tainted
    PROVE  \/ d.answer = "OK" /\ d.pending = FALSE /\ chip = Idle /\ d.chip = Idle
           \/ d.answer = "BUSY" /\ d.pending = pending /\ d.chip = chip
<1>1. DeviceOK BY DEF TypeInv
<1>2. pending = FALSE => chip = Idle BY DEF Kept, Tracked
<1>3. QED BY <1>1, <1>2, PollAnswered DEF DeviceOK

LEMMA KeptErasePoll ==
    ASSUME TypeInv, StoredInv, ~tainted, NEW r, NEW d, StepMakes(r, d), Stepped(r, d),
           u.st = "ERASE_POLL", ~d.tainted
    PROVE  Kept'
<1>1. Kept /\ u \in Updates /\ Talk BY DEF StoredInv, TypeInv, LinkOK
<1>2. Busy(u) BY DEF Busy, BusyStates
<1>3. d \in PollAnswers
      /\ r = CASE d.answer = "BUSY" -> u [] d.answer = "OK" -> NextSector(u) [] OTHER -> Failed
  BY DEF StepMakes
<1>4. /\ u' = r /\ flash' = flash /\ chip' = d.chip /\ pending' = d.pending
      /\ UNCHANGED <<tool, line>>
      /\ Busy(r) => UNCHANGED <<replies, deferred>>
      /\ ~Busy(r) => Reply(deferred, Outcome(r)) /\ deferred' = 0
  BY <1>2, SteppedIs
<1>5. CASE d.answer = "BUSY"
  <2>1. d.pending = pending /\ d.chip = chip /\ r = u BY <1>1, <1>3, <1>5, PollIs
  <2>2. QED BY <1>1, <1>2, <1>4, <2>1, KeptBusyPoll
<1>6. CASE d.answer # "BUSY"
  <2>1. d.answer = "OK" /\ d.pending = FALSE /\ chip = Idle /\ d.chip = Idle
    BY <1>1, <1>3, <1>6, PollIs
  <2>2. u' = NextSector(u) BY <1>3, <1>4, <2>1
  <2>3. \/ u.sector = Len(SectorEnds) /\ u'.st = "READY"
        \/ /\ u'.st = "ERASE_START" /\ u'.sector = u.sector + 1
           /\ u.sector # Len(SectorEnds)
    BY <1>1, <2>2, NextSectorUpdated
  <2>4. ErasedUpTo(SectorEnds[u.sector]) BY <1>1, <2>1 DEF Kept, HoldsErasure
  <2>5. Tracked' BY <1>4, <2>1 DEF Tracked
  <2>6. HoldsChunk' BY <2>3 DEF HoldsChunk, Programs
  <2>7. HoldsErasure'
    <3>1. CASE u'.st = "READY"
      <4>1. \A c \in Cells : c <= SectorEnds[u.sector]
        BY <2>3, <3>1, SectorLayout, ChunkLayout
      <4>2. \A c \in Cells : flash'[c] = "ERASED" BY <1>4, <2>4, <4>1 DEF ErasedUpTo
      <4>3. QED BY <3>1, <4>2 DEF HoldsErasure, Erases, BlankFrom
    <3>2. CASE u'.st = "ERASE_START"
      <4>1. Before(SectorEnds, u'.sector) = SectorEnds[u.sector]
        BY <1>1, <2>3, <3>2, UpdateFields, SectorLayout
      <4>2. ErasedUpTo(Before(SectorEnds, u.sector))'
        BY <1>4, <2>4, <4>1 DEF ErasedUpTo, Before
      <4>3. QED BY <3>2, <4>2 DEF HoldsErasure
    <3>3. QED BY <2>3, <3>1, <3>2
  <2>8. UNCHANGED replies \/ ~Hopeful' \/ tool.at \notin 2 .. LastFrame - 1
    <3>1. CASE Busy(r) BY <1>4, <3>1
    <3>2. CASE ~Busy(r)
      <4>1. deferred = 1 BY <1>1 DEF Talk, DeferredFrame, Erases
      <4>2. ASSUME Hopeful' PROVE tool.at = 1
        <5>1. Hopeful /\ (replies = <<>> => deferred = tool.at)
          BY <1>4, <3>2, <4>2, Replied, TalkTypes
        <5>2. QED BY <1>1, <4>1, <5>1 DEF Talk, DeferredAlone
      <4>3. QED BY <4>2, TalkTypes
    <3>3. QED BY <3>1, <3>2
  <2>9. AckStored' /\ AcknowledgedIsStored' BY <1>1, <1>4, <2>8, StoredStays
  <2>10. QED BY <2>5, <2>6, <2>7, <2>9 DEF Kept
<1>7. QED BY <1>5, <1>6

LEMMA KeptProgramPoll ==
    ASSUME TypeInv, StoredInv, ~tainted, NEW r, NEW d, StepMakes(r, d), Stepped(r, d),
           u.st = "PROGRAM_POLL", ~d.tainted
    PROVE  Kept'
<1> DEFINE n == NextChunk(u)
           w == u.written
<1>1. Kept /\ u \in Updates /\ InBounds(u) /\ Talk BY DEF StoredInv, TypeInv, LinkOK
<1>2. Busy(u) /\ Programs(u) BY DEF Busy, BusyStates, Programs
<1>3. d \in PollAnswers
      /\ r = CASE d.answer = "BUSY" -> u [] d.answer = "OK" -> NextCell(u) [] OTHER -> Failed
  BY DEF StepMakes
<1>4. /\ u' = r /\ flash' = flash /\ chip' = d.chip /\ pending' = d.pending
      /\ UNCHANGED <<tool, line>>
      /\ Busy(r) => UNCHANGED <<replies, deferred>>
      /\ ~Busy(r) => Reply(deferred, Outcome(r)) /\ deferred' = 0
  BY <1>2, SteppedIs
<1>5. CASE d.answer = "BUSY"
  <2>1. d.pending = pending /\ d.chip = chip /\ r = u BY <1>1, <1>3, <1>5, PollIs
  <2>2. QED BY <1>1, <1>2, <1>4, <2>1, KeptBusyPoll
<1>6. CASE d.answer # "BUSY"
  <2>1. d.answer = "OK" /\ d.pending = FALSE /\ chip = Idle /\ d.chip = Idle
    BY <1>1, <1>3, <1>6, PollIs
  <2>2. u' = NextCell(u) BY <1>3, <1>4, <2>1
  <2>3. /\ n \in Chunks /\ w \in Nat /\ Before(ChunkEnds, n) <= w /\ w < ChunkEnds[n]
        /\ Before(ChunkEnds, n) \in Nat /\ ChunkEnds[n] \in Nat /\ ChunkEnds[n] <= Size
        /\ Size \in Nat /\ Cells = 1 .. Size /\ Before(ChunkEnds, n + 1) = ChunkEnds[n]
    BY <1>1, <1>2, UpdateFields, ChunkLayout DEF InBounds
  <2>4. /\ \A c \in Cells : Before(ChunkEnds, n) < c /\ c <= w => flash[c] = u.chunk
        /\ BlankFrom(w + 2) /\ flash[w + 1] = u.chunk
    BY <1>1, <1>2, <2>1 DEF Kept, HoldsChunk
  <2>5. \A c \in Cells : Before(ChunkEnds, n) < c /\ c <= w + 1 => flash[c] = u.chunk
    <3>1. \A c \in Cells : c <= w + 1 => c <= w \/ c = w + 1 BY <2>3
    <3>2. QED BY <2>4, <3>1
  <2>6. Tracked' BY <1>4, <2>1 DEF Tracked
  <2>7. CASE u'.st = "PROGRAM_START"
    <3>1. /\ u'.applied = u.applied /\ u'.chunk = u.chunk /\ u'.written = w + 1
          /\ w + 1 < ChunkEnds[n]
      BY <1>1, <1>2, <2>2, <2>7, NextCellUpdated
    <3>2. NextChunk(u)' = n BY <3>1 DEF NextChunk
    <3>3. /\ w + 2 \in Cells /\ (w + 1) + 1 = w + 2
          /\ \A c \in Cells : c >= (w + 1) + 2 => c >= w + 2
      BY <2>3, <3>1
    <3>4. flash[(w + 1) + 1] = "ERASED" BY <2>4, <3>3, <2>3 DEF BlankFrom
    <3>5. \A c \in Cells : c >= (w + 1) + 2 => flash'[c] = "ERASED"
      BY <1>4, <2>4, <3>3 DEF BlankFrom
    <3>6. HoldsChunk'
      <4> HIDE DEF n, w
      <4>1. \A c \in Cells : Before(ChunkEnds, NextChunk(u)') < c /\ c <= u'.written
                                 => flash'[c] = u'.chunk
        BY <1>4, <2>5, <3>1, <3>2 DEF NextChunk
      <4>2. BlankFrom(u.written + 2)' /\ flash'[u'.written + 1] = "ERASED"
        BY <1>4, <3>1, <3>4, <3>5 DEF BlankFrom
      <4>3. QED BY <2>7, <4>1, <4>2 DEF HoldsChunk, Before, NextChunk
    <3>7. HoldsErasure' BY <2>7 DEF HoldsErasure, Erases
    <3>8. Busy(r) BY <1>4, <2>7 DEF Busy, BusyStates
    <3>9. AckStored' /\ AcknowledgedIsStored' BY <1>1, <1>4, <3>8, StoredStays
    <3>10. QED BY <2>6, <3>6, <3>7, <3>9 DEF Kept
  <2>8. CASE u'.st = "READY"
    <3>1. NextChunk(u)' = n + 1 /\ w + 1 = ChunkEnds[n]
      <4>1. NextChunk(u') = NextChunk(u) + 1 /\ w + 1 = ChunkEnds[n]
        BY <1>1, <1>2, <2>2, <2>8, NextCellUpdated
      <4>2. QED BY <4>1 DEF NextChunk
    <3>2. HoldsErasure'
      <4>1. Before(ChunkEnds, NextChunk(u)') = w + 1 BY <2>3, <3>1
      <4>2. (w + 1) + 1 = w + 2 BY <2>3
      <4>3. BlankFrom(Before(ChunkEnds, NextChunk(u)) + 1)'
        BY <1>4, <2>4, <4>1, <4>2 DEF BlankFrom, Before
      <4>4. QED BY <2>8, <4>3 DEF HoldsErasure, Erases
    <3>3. HoldsChunk' BY <2>8 DEF HoldsChunk, Programs
    <3>4. ~Busy(r) /\ deferred = n + 1
      BY <1>1, <1>2, <1>4, <2>8 DEF Busy, BusyStates, Talk, DeferredFrame
    <3>5. ASSUME Hopeful', tool.at \in 2 .. LastFrame - 1
          PROVE  tool.at - 1 = n /\ u.chunk = tool.pack
      <4>1. Hopeful /\ (replies = <<>> => deferred = tool.at)
        BY <1>4, <3>4, <3>5, Replied, TalkTypes
      <4>2. tool.at >= 2 /\ tool.at # 1 /\ deferred # 0 BY <1>2, <3>5, TalkTypes
      <4>3. deferred = tool.at BY <1>1, <4>1, <4>2 DEF Talk, DeferredAlone
      <4>4. u.chunk = tool.pack BY <1>1, <4>1, <4>2, <4>3 DEF Talk, WorkIsMine
      <4>5. tool.at - 1 = n BY <3>4, <4>3, TalkTypes
      <4>6. QED BY <4>4, <4>5
    <3>6. \A c \in CellsOf(ChunkEnds, n) : flash[c] = u.chunk
      <4>1. \A c \in CellsOf(ChunkEnds, n) : c \in Cells /\ Before(ChunkEnds, n) < c
                                             /\ c <= ChunkEnds[n]
        BY <2>3, ChunkCells
      <4>2. QED BY <2>5, <3>1, <4>1
    <3>7. AckStored'
      <4> SUFFICES ASSUME Hopeful', tool.at \in 2 .. LastFrame - 1 PROVE Stored(tool.at - 1)'
        BY <1>4 DEF AckStored
      <4>1. tool.at - 1 = n /\ u.chunk = tool.pack BY <3>5
      <4>2. QED BY <1>4, <3>6, <4>1 DEF Stored
    <3>8. AcknowledgedIsStored' BY <1>1, <1>4, StoredStays
    <3>9. QED BY <2>6, <3>2, <3>3, <3>7, <3>8 DEF Kept
  <2>9. QED BY <1>1, <1>2, <2>2, <2>7, <2>8, NextCellUpdated
<1>7. QED BY <1>5, <1>6

(* A step that does not taint succeeds, or leaves the update as it is.     *)
LEMMA StepStored == ASSUME TypeInv, StoredInv, Step PROVE StoredInv'
<1>1. PICK r, d : StepMakes(r, d) /\ Stepped(r, d) BY StepIs
<1>2. Talk' BY <1>1, TalkStep DEF StoredInv
<1>3. DeviceOK /\ LinkOK /\ Busy(u) BY <1>1, StepMade DEF TypeInv
<1>4. tainted' = d.tainted BY <1>1, <1>3, SteppedIs
<1>5. ASSUME ~d.tainted PROVE ~tainted
  <2>1. CASE d \in PollAnswers BY <1>3, <1>5, <2>1, PollAnswered
  <2>2. CASE d \in StartAnswers(Erasure)
    <3>1. Erasure \in Operations BY <1>3, CommandedIs DEF Erasure
    <3>2. QED BY <1>3, <1>5, <2>2, <3>1, StartAnswered
  <2>3. CASE Programs(u) /\ d \in StartAnswers(Programming)
    <3>1. Programming \in Operations BY <1>3, <2>3, CommandedIs DEF Programming
    <3>2. QED BY <1>3, <1>5, <2>3, <3>1, StartAnswered
  <2>4. QED BY <1>1, <2>1, <2>2, <2>3 DEF StepMakes, Erasure, Programming, Programs
<1>6. ASSUME ~d.tainted PROVE Kept'
  <2>1. ~tainted BY <1>5, <1>6
  <2>2. QED BY <1>1, <1>6, <2>1, KeptEraseStart, KeptErasePoll, KeptProgramStart, KeptProgramPoll
          DEF StepMakes
<1>7. QED BY <1>2, <1>4, <1>6 DEF StoredInv

(***************************************************************************)
(* The other actions.                                                      *)
(***************************************************************************)
Resting(r) == r.st \in {"IDLE", "COMPLETE", "ERROR"}

LEMMA KeptResting ==
    ASSUME pending' = FALSE, chip' = Idle, Resting(u)'
    PROVE  Tracked' /\ HoldsErasure' /\ HoldsChunk'
<1>1. ~Erases(u)' /\ ~Programs(u)' /\ u'.st # "READY" /\ u'.st # "ERASE_POLL"
  BY DEF Resting, Erases, Programs
<1>2. QED BY <1>1 DEF Tracked, HoldsErasure, HoldsChunk

LEMMA KeptSame ==
    ASSUME Kept, UNCHANGED <<u, flash, chip, pending>>
    PROVE  Tracked' /\ HoldsErasure' /\ HoldsChunk'
<1>1. Tracked' BY DEF Kept, Tracked, Erasure, Programming
<1>2. HoldsErasure' BY DEF Kept, HoldsErasure, Erases, ErasedUpTo, BlankFrom, NextChunk, Before
<1>3. HoldsChunk' BY DEF Kept, HoldsChunk, Programs, BlankFrom, NextChunk, Before
<1>4. QED BY <1>1, <1>2, <1>3

(* An update that does not work has nothing under way.                     *)
LEMMA NothingUnderWay ==
    ASSUME TypeInv, Kept, ~Busy(u) PROVE pending = FALSE /\ chip = Idle
BY DEF TypeInv, DeviceOK, Kept, Tracked, Busy, BusyStates

(* No answer given at once acknowledges a chunk.                           *)
LEMMA KeptAnswered ==
    ASSUME TypeInv, StoredInv, ~tainted, line # NoFrame, ~Busy(u), UNCHANGED <<device, tool>>,
           FrameAnswered
    PROVE  Kept'
<1>1. Kept /\ Talk /\ UNCHANGED <<flash, chip, pending, tool>> BY DEF StoredInv, device
<1>2. pending = FALSE /\ chip = Idle BY <1>1, NothingUnderWay
<1>3. Tracked' /\ HoldsErasure' /\ HoldsChunk'
  <2>1. CASE u' = u BY <1>1, <2>1, KeptSame
  <2>2. CASE u' # u BY <1>1, <1>2, <2>2, KeptResting DEF FrameAnswered, Resting
  <2>3. QED BY <2>1, <2>2
<1>4. AckStored'
  <2> SUFFICES ASSUME Hopeful', tool.at \in 2 .. LastFrame - 1 PROVE Stored(tool.at - 1)'
    BY <1>1 DEF AckStored
  <2>1. PICK o : Reply(line.seq, o) /\ (o = "OK" => line.type = "ABORT") BY DEF FrameAnswered
  <2>2. Hopeful /\ (replies = <<>> => line.seq = tool.at /\ o = "OK")
    BY <1>1, <2>1, Replied, TalkTypes
  <2>3. replies # <<>>
    <3> SUFFICES ASSUME replies = <<>> PROVE FALSE OBVIOUS
    <3>1. line.seq = tool.at /\ line.type = "ABORT" BY <2>1, <2>2
    <3>2. line.type = "CHUNK" BY <3>1, FrameFields DEF TypeInv, LineOK
    <3>3. QED BY <3>1, <3>2
  <2>4. Stored(tool.at - 1) BY <1>1, <2>2, <2>3 DEF Kept, AckStored
  <2>5. QED BY <1>1, <2>4 DEF Stored
<1>5. AcknowledgedIsStored' BY <1>1, StoredStays
<1>6. QED BY <1>3, <1>4, <1>5 DEF Kept

LEMMA KeptWorked ==
    ASSUME TypeInv, StoredInv, ~tainted, line # NoFrame, ~Busy(u), UNCHANGED <<device, tool>>,
           FrameWorked
    PROVE  Kept'
<1>1. Kept /\ UNCHANGED <<flash, chip, pending, tool, replies>>
  BY DEF StoredInv, device, FrameWorked
<1>2. pending = FALSE /\ chip = Idle BY <1>1, NothingUnderWay
<1>3. AckStored' /\ AcknowledgedIsStored' BY <1>1, StoredStays
<1>4. Tracked' BY <1>1, <1>2 DEF Tracked
<1>5. u \in Updates /\ line \in Frames BY DEF TypeInv, LinkOK, LineOK
<1>6. CASE line.type = "BEGIN"
  <2>1. u'.st = "ERASE_START" /\ u'.sector = 1 BY <1>5, <1>6, BegunUpdated DEF FrameWorked
  <2>2. ErasedUpTo(Before(SectorEnds, u.sector))'
    <3>1. \A c \in Cells : ~(c <= 0) BY ChunkLayout
    <3>2. Before(SectorEnds, u'.sector) = 0 BY <2>1 DEF Before
    <3>3. QED BY <3>1, <3>2 DEF ErasedUpTo, Before
  <2>3. HoldsErasure' /\ HoldsChunk' BY <2>1, <2>2 DEF HoldsErasure, HoldsChunk, Programs
  <2>4. QED BY <1>3, <1>4, <2>3 DEF Kept
<1>7. CASE line.type = "CHUNK"
  <2>1. u.st = "READY" /\ u' = Accepted(u, line) /\ u'.st = "PROGRAM_START"
    BY <1>7 DEF FrameWorked
  <2>2. /\ u'.applied = u.applied /\ u'.written = Before(ChunkEnds, NextChunk(u))
        /\ line.chunk = NextChunk(u) /\ line.chunk \in Chunks
    BY <1>5, <1>7, <2>1, AcceptedUpdated, FrameFields
  <2>3. NextChunk(u)' = NextChunk(u) BY <2>2 DEF NextChunk
  <2> DEFINE b == Before(ChunkEnds, NextChunk(u))
  <2>4. BlankFrom(b + 1) BY <1>1, <2>1 DEF Kept, HoldsErasure
  <2>5. b \in Nat /\ b + 1 \in Cells /\ \A c \in Cells : c >= b + 2 => c >= b + 1
    BY <2>2, ChunkLayout
  <2>6. flash'[b + 1] = "ERASED" BY <1>1, <2>4, <2>5 DEF BlankFrom
  <2>7. \A c \in Cells : c >= b + 2 => flash'[c] = "ERASED"
    BY <1>1, <2>4, <2>5 DEF BlankFrom
  <2>8. \A c \in Cells : ~(b < c /\ c <= b)
    BY <2>5, ChunkLayout
  <2>9. u'.written = b BY <2>2
  <2>10. Before(ChunkEnds, NextChunk(u)') = b BY <2>3
  <2> HIDE DEF b
  <2>11. HoldsChunk'
    <3>1. BlankFrom(u.written + 2)' BY <2>7, <2>9 DEF BlankFrom
    <3>2. \A c \in Cells : Before(ChunkEnds, NextChunk(u)') < c /\ c <= u'.written
                              => flash'[c] = u'.chunk
      BY <2>8, <2>9, <2>10
    <3>3. QED BY <2>1, <2>6, <2>9, <3>1, <3>2 DEF HoldsChunk, Before, NextChunk
  <2>12. HoldsErasure' BY <2>1 DEF HoldsErasure, Erases
  <2>13. QED BY <1>3, <1>4, <2>11, <2>12 DEF Kept
<1>8. QED BY <1>6, <1>7 DEF FrameWorked

LEMMA ProcessStored == ASSUME TypeInv, StoredInv, Process PROVE StoredInv'
<1>1. /\ line # NoFrame /\ deferred = 0 /\ ~Busy(u) /\ line' = NoFrame
      /\ UNCHANGED <<device, tool>> /\ LinkOK' /\ (FrameAnswered \/ FrameWorked)
  BY ProcessIs
<1>2. tainted' = tainted BY <1>1 DEF device
<1>3. CASE FrameAnswered
  <2>1. ~Busy(u)' BY <1>1, <1>3 DEF FrameAnswered, LinkOK, Busy
  <2>2. Talk' BY <1>1, <1>3, <2>1, TalkAnswered DEF StoredInv
  <2>3. ~tainted => Kept' BY <1>1, <1>3, KeptAnswered
  <2>4. QED BY <1>2, <2>2, <2>3 DEF StoredInv
<1>4. CASE FrameWorked
  <2>1. Talk' BY <1>1, <1>4, TalkWorked DEF StoredInv
  <2>2. ~tainted => Kept' BY <1>1, <1>4, KeptWorked
  <2>3. QED BY <1>2, <2>1, <2>2 DEF StoredInv
<1>5. QED BY <1>1, <1>3, <1>4

LEMMA DamagedStored == ASSUME TypeInv, StoredInv, Damaged PROVE StoredInv'
<1>1. /\ line # NoFrame /\ deferred = 0 /\ ~Busy(u) /\ line' = NoFrame
      /\ UNCHANGED <<device, tool>> /\ LinkOK' /\ FrameAnswered
  BY DamagedIs
<1>2. tainted' = tainted BY <1>1 DEF device
<1>3. ~Busy(u)' BY <1>1 DEF FrameAnswered, LinkOK, Busy
<1>4. Talk' BY <1>1, <1>3, TalkAnswered DEF StoredInv
<1>5. ~tainted => Kept' BY <1>1, KeptAnswered
<1>6. QED BY <1>2, <1>4, <1>5 DEF StoredInv

(* The chip is done with an operation.                                     *)
LEMMA ChipDoneStored == ASSUME TypeInv, StoredInv, ChipDone PROVE StoredInv'
<1>1. /\ chip # Idle /\ flash' = Done(chip) /\ chip' = Idle
      /\ UNCHANGED <<pending, tainted, u, deferred, line, replies, tool>>
  BY DEF ChipDone, link
<1>2. Talk' BY <1>1, TalkSilent DEF StoredInv, Erases, Programs
<1>3. ASSUME ~tainted PROVE Kept'
  <2>1. Kept /\ Talk BY <1>3 DEF StoredInv
  <2>2. /\ pending = TRUE /\ u.st \in {"ERASE_POLL", "PROGRAM_POLL"}
        /\ u.st = "ERASE_POLL" => chip = Erasure
        /\ u.st = "PROGRAM_POLL" => chip = Programming
        /\ ~(Hopeful /\ tool.at \in 2 .. LastFrame - 1 /\ replies # <<>>)
        /\ \A i \in 1 .. tool.at - 2 : i \in Chunks =>
              \A c \in CellsOf(ChunkEnds, i) : c \in Cells /\ Done(chip)[c] = flash[c]
    BY <1>1, <2>1, OperationSpares DEF Kept
  <2>3. Tracked' BY <1>1, <2>2 DEF Tracked
  <2>4. AckStored'
    <3>1. Hopeful' = Hopeful BY <1>1 DEF Hopeful, Good
    <3>2. QED BY <1>1, <2>2, <3>1 DEF AckStored
  <2>5. AcknowledgedIsStored'
    <3> SUFFICES ASSUME NEW i \in 1 .. tool.at - 2, i \in Chunks, NEW c \in CellsOf(ChunkEnds, i)
                 PROVE  flash'[c] = tool.pack
      BY <1>1 DEF AcknowledgedIsStored
    <3>1. flash[c] = tool.pack BY <1>3, <2>1 DEF Kept, AcknowledgedIsStored
    <3>2. QED BY <1>1, <2>2, <3>1
  <2>6. flash \in [Cells -> Contents] /\ chip \in Operations \cup {Idle}
    BY DEF TypeInv, DeviceOK
  <2>7. CASE u.st = "ERASE_POLL"
    <3>1. chip.kind = "ERASE" /\ chip.at = u.sector BY <2>2, <2>7 DEF Erasure
    <3>2. \A c \in Cells : flash'[c] = IF c \in CellsOf(SectorEnds, u.sector) THEN "ERASED"
                                       ELSE flash[c]
      BY <1>1, <2>6, <3>1, DoneIs
    <3>3. ErasedUpTo(Before(SectorEnds, u.sector)) BY <2>1, <2>7 DEF Kept, HoldsErasure, Erases
    <3>4. /\ Before(SectorEnds, u.sector) \in Nat /\ SectorEnds[u.sector] \in Nat
          /\ Size \in Nat /\ Cells = 1 .. Size
      BY UpdateFields, SectorLayout, ChunkLayout DEF TypeInv, LinkOK
    <3>5. \A c \in Cells : c <= SectorEnds[u.sector] =>
             c <= Before(SectorEnds, u.sector) \/ c \in CellsOf(SectorEnds, u.sector)
      BY <3>4 DEF CellsOf
    <3>6. \A c \in Cells : c <= SectorEnds[u.sector] => flash'[c] = "ERASED"
      BY <3>2, <3>3, <3>5 DEF ErasedUpTo
    <3>7. \A c \in Cells : c <= Before(SectorEnds, u.sector) => flash'[c] = "ERASED"
      BY <3>2, <3>3 DEF ErasedUpTo
    <3>8. HoldsErasure'
      <4>1. ErasedUpTo(SectorEnds[u.sector])' BY <1>1, <3>6 DEF ErasedUpTo
      <4>2. ErasedUpTo(Before(SectorEnds, u.sector))' BY <1>1, <3>7 DEF ErasedUpTo, Before
      <4>3. QED BY <1>1, <2>7, <4>1, <4>2 DEF HoldsErasure
    <3>9. HoldsChunk' BY <1>1, <2>7 DEF HoldsChunk, Programs
    <3>10. QED BY <2>3, <2>4, <2>5, <3>8, <3>9 DEF Kept
  <2>8. CASE u.st = "PROGRAM_POLL"
    <3>0. Programs(u) BY <2>8 DEF Programs
    <3>1. chip.kind = "PROGRAM" /\ chip.at = u.written + 1 /\ chip.pack = u.chunk
      BY <2>2, <2>8 DEF Programming
    <3>2. /\ \A c \in Cells : Before(ChunkEnds, NextChunk(u)) < c /\ c <= u.written
                                 => flash[c] = u.chunk
          /\ BlankFrom(u.written + 2) /\ flash[u.written + 1] = "ERASED"
      BY <1>1, <2>1, <3>0 DEF Kept, HoldsChunk
    <3>3. u.written + 1 \in Cells /\ u.written \in Nat /\ Size \in Nat /\ Cells = 1 .. Size
      BY <3>0, CommandedIs, UpdateFields, ChunkLayout DEF TypeInv, LinkOK
    <3>4. /\ flash'[u.written + 1] = u.chunk
          /\ \A c \in Cells : c # u.written + 1 => flash'[c] = flash[c]
      BY <1>1, <2>6, <3>1, <3>2, <3>3, DoneIs
    <3>5. \A c \in Cells : c <= u.written \/ c >= u.written + 2 => c # u.written + 1
      BY <3>3
    <3>6. /\ \A c \in Cells : Before(ChunkEnds, NextChunk(u)) < c /\ c <= u.written
                                 => flash'[c] = u.chunk
          /\ \A c \in Cells : c >= u.written + 2 => flash'[c] = "ERASED"
      BY <3>2, <3>4, <3>5 DEF BlankFrom
    <3>7. HoldsChunk'
      <4>1. BlankFrom(u.written + 2)' BY <1>1, <3>6 DEF BlankFrom
      <4>2. QED BY <1>1, <2>8, <3>4, <3>6, <4>1 DEF HoldsChunk, Before, NextChunk
    <3>8. HoldsErasure' BY <1>1, <2>8 DEF HoldsErasure, Erases
    <3>9. QED BY <2>3, <2>4, <2>5, <3>7, <3>8 DEF Kept
  <2>9. QED BY <2>2, <2>7, <2>8
<1>4. QED BY <1>1, <1>2, <1>3 DEF StoredInv

(* Power goes: a cell that the operation under way does not change stays.  *)
LEMMA PowerLossStored == ASSUME TypeInv, StoredInv, PowerLoss PROVE StoredInv'
<1>1. /\ chip' = Idle /\ pending' = FALSE /\ tainted' = (tainted /\ tool.at # 0)
      /\ u' = FreshUpdate /\ deferred' = 0 /\ line' = NoFrame
      /\ UNCHANGED <<replies, tool>> /\ flash' \in Cut(chip)
  BY DEF PowerLoss
<1>2. u'.st = "IDLE" /\ ~Busy(u)' BY <1>1, FreshUpdated DEF Busy, BusyStates
<1>3. Talk' BY <1>1, <1>2, TalkSilent DEF StoredInv
<1>4. Tracked' /\ HoldsErasure' /\ HoldsChunk' BY <1>1, <1>2, KeptResting DEF Resting
<1>5. Hopeful' = Hopeful BY <1>1 DEF Hopeful, Good
<1>6. CASE tool.at = 0
  <2>1. AckStored' BY <1>5, <1>6 DEF AckStored, Hopeful
  <2>2. AcknowledgedIsStored' BY <1>1, <1>6 DEF AcknowledgedIsStored
  <2>3. QED BY <1>3, <1>4, <2>1, <2>2 DEF StoredInv, Kept
<1>7. CASE tool.at # 0 /\ ~tainted
  <2>1. Kept /\ Talk BY <1>7 DEF StoredInv
  <2>2. flash \in [Cells -> Contents] /\ chip \in Operations \cup {Idle}
    BY DEF TypeInv, DeviceOK
  <2>3. \A c \in Cells : Done(chip)[c] = flash[c] => flash'[c] = flash[c]
    BY <1>1 DEF Cut
  <2>4. \A i \in 1 .. tool.at - 2 : i \in Chunks =>
           \A c \in CellsOf(ChunkEnds, i) : c \in Cells /\ Done(chip)[c] = flash[c]
    <3>1. CASE chip = Idle
      <4>1. Done(chip) = flash BY <2>2, <3>1, DoneIs
      <4>2. QED BY <4>1, ChunkCells
    <3>2. CASE chip # Idle BY <2>1, <3>2, OperationSpares DEF Kept
    <3>3. QED BY <3>1, <3>2
  <2>5. AcknowledgedIsStored'
    <3> SUFFICES ASSUME NEW i \in 1 .. tool.at - 2, i \in Chunks, NEW c \in CellsOf(ChunkEnds, i)
                 PROVE  flash'[c] = tool.pack
      BY <1>1 DEF AcknowledgedIsStored
    <3>1. flash[c] = tool.pack BY <1>7, <2>1 DEF Kept, AcknowledgedIsStored
    <3>2. QED BY <2>3, <2>4, <3>1
  <2>6. AckStored'
    <3> SUFFICES ASSUME Hopeful, tool.at \in 2 .. LastFrame - 1, replies # <<>>
                 PROVE  Stored(tool.at - 1)'
      BY <1>1, <1>5 DEF AckStored
    <3>1. chip = Idle BY <2>1, OperationSpares DEF Kept
    <3>2. \A c \in Cells : flash'[c] = flash[c] BY <2>2, <2>3, <3>1, DoneIs
    <3>3. Stored(tool.at - 1) BY <2>1 DEF Kept, AckStored
    <3>4. tool.at - 1 \in Chunks BY LastFrameIs, ChunkLayout DEF Chunks
    <3>5. \A c \in CellsOf(ChunkEnds, tool.at - 1) : c \in Cells BY <3>4, ChunkCells
    <3>6. QED BY <1>1, <3>2, <3>3, <3>5 DEF Stored
  <2>7. QED BY <1>3, <1>4, <2>5, <2>6 DEF StoredInv, Kept
<1>8. CASE tool.at # 0 /\ tainted BY <1>1, <1>3, <1>8 DEF StoredInv
<1>9. QED BY <1>6, <1>7, <1>8

(* What the tool reads next it may rely on.                                *)
LEMMA ToolReadsStored == ASSUME TypeInv, Sending, StoredInv, ToolReads PROVE StoredInv'
<1>1. UNCHANGED <<device, u, deferred>> BY DEF ToolReads, link
<1>2. Talk' BY TalkRead DEF StoredInv
<1>3. ASSUME ~tainted PROVE Kept'
  <2>1. Kept /\ Talk /\ UNCHANGED <<flash, chip, pending, tainted>>
    BY <1>1, <1>3 DEF StoredInv, device
  <2>2. Tracked' /\ HoldsErasure' /\ HoldsChunk' BY <1>1, <2>1, KeptSame
  <2>3. CASE ToolAdvances
    <3>1. /\ Hopeful /\ replies # <<>> /\ tool'.at = tool.at + 1 /\ tool.at \in Nat \ {0}
          /\ Hopeful' => replies' = <<>>
      BY <2>1, <2>3, AdvancesHopeful
    <3>2. AckStored' BY <3>1 DEF AckStored
    <3>3. tool'.pack = tool.pack BY <2>3 DEF ToolAdvances
    <3>4. AcknowledgedIsStored'
      <4> SUFFICES ASSUME NEW i \in 1 .. tool'.at - 2, i \in Chunks PROVE Stored(i)'
        BY DEF AcknowledgedIsStored, Stored
      <4>1. i \in 1 .. tool.at - 2 \/ i = tool.at - 1 BY <3>1
      <4>2. CASE i \in 1 .. tool.at - 2
        BY <1>3, <2>1, <3>3, <4>2 DEF Kept, AcknowledgedIsStored, Stored
      <4>3. CASE i = tool.at - 1
        <5>1. tool.at \in 2 .. LastFrame - 1 BY <3>1, <4>3, LastFrameIs, ChunkLayout DEF Chunks
        <5>2. Stored(i) BY <2>1, <3>1, <4>3, <5>1 DEF Kept, AckStored
        <5>3. QED BY <2>1, <3>3, <5>2 DEF Stored
      <4>4. QED BY <4>1, <4>2, <4>3
    <3>5. QED BY <2>2, <3>2, <3>4 DEF Kept
  <2>4. CASE tool' = NotRunning
    <3>1. tool'.at = 0 BY <2>4 DEF NotRunning
    <3>2. AckStored' /\ AcknowledgedIsStored' BY <3>1 DEF AckStored, AcknowledgedIsStored, Hopeful
    <3>3. QED BY <2>2, <3>2 DEF Kept
  <2>5. QED BY <2>3, <2>4, ToolReadsIs
<1>4. tainted' = tainted BY <1>1 DEF device
<1>5. QED BY <1>2, <1>3, <1>4 DEF StoredInv

LEMMA ToolFreshStored ==
    ASSUME TypeInv, StoredInv, ToolStarts \/ ToolGivesUp PROVE StoredInv'
<1>1. UNCHANGED <<device, u, deferred>> BY DEF ToolStarts, ToolGivesUp, link
<1>2. tool'.at \in {0, 1} BY DEF ToolStarts, ToolGivesUp, NotRunning
<1>3. Talk'
  <2>1. CASE ToolStarts BY <2>1, TalkStarts DEF StoredInv
  <2>2. CASE ToolGivesUp
    <3>1. tool'.at = 0 BY <2>2 DEF ToolGivesUp, NotRunning
    <3>2. DeferredFrame' BY <1>1 DEF StoredInv, Talk, DeferredFrame, Erases, Programs, NextChunk
    <3>3. QED BY <3>1, <3>2 DEF Talk, AwaitedFrame, DeferredAlone, SentAlone, RepliesAwaited,
                                WorkNotBehind, WorkIsMine, Hopeful
  <2>3. QED BY <2>1, <2>2
<1>4. ASSUME ~tainted PROVE Kept'
  <2>1. Kept /\ UNCHANGED <<flash, chip, pending, tainted>> BY <1>1, <1>4 DEF StoredInv, device
  <2>2. Tracked' /\ HoldsErasure' /\ HoldsChunk' BY <1>1, <2>1, KeptSame
  <2>3. AckStored' /\ AcknowledgedIsStored' BY <1>2 DEF AckStored, AcknowledgedIsStored
  <2>4. QED BY <2>2, <2>3 DEF Kept
<1>5. tainted' = tainted BY <1>1 DEF device
<1>6. QED BY <1>3, <1>4, <1>5 DEF StoredInv

LEMMA StoredUnchanged ==
    ASSUME StoredInv, Talk', UNCHANGED <<device, u, tool, replies>> PROVE StoredInv'
<1>1. UNCHANGED <<flash, chip, pending, tainted>> BY DEF device
<1>2. ASSUME ~tainted PROVE Kept'
  <2>1. Kept BY <1>2 DEF StoredInv
  <2>2. Tracked' /\ HoldsErasure' /\ HoldsChunk' BY <1>1, <2>1, KeptSame
  <2>3. AckStored' /\ AcknowledgedIsStored' BY <1>1, <1>2, <2>1, StoredStays
  <2>4. QED BY <2>2, <2>3 DEF Kept
<1>3. QED BY <1>1, <1>2 DEF StoredInv

(* The poll nobody owns finds nothing noted, unless track was lost.        *)
LEMMA GenericPollStored == ASSUME TypeInv, StoredInv, GenericPoll PROVE StoredInv'
<1>1. PICK d \in PollAnswers : Driver(d) BY DEF GenericPoll
<1>2. UNCHANGED <<u, deferred, line, replies, tool>> /\ u.st \in {"IDLE", "COMPLETE", "ERROR"}
  BY DEF GenericPoll, link
<1>3. Talk' BY <1>2, TalkSilent DEF StoredInv, Erases, Programs
<1>4. ASSUME ~d.tainted PROVE Kept'
  <2>1. tainted = FALSE /\ d.chip = chip
    BY <1>1, <1>4, PollAnswered DEF TypeInv
  <2>2. Kept BY <2>1 DEF StoredInv
  <2>3. pending = FALSE /\ chip = Idle BY <1>2, <2>2, NothingUnderWay DEF Busy, BusyStates
  <2>4. d.pending = FALSE BY <1>1, <1>4, <2>3, PollAnswered DEF TypeInv
  <2>5. UNCHANGED <<flash, chip, pending>> BY <1>1, <2>1, <2>3, <2>4 DEF Driver
  <2>6. Tracked' /\ HoldsErasure' /\ HoldsChunk' BY <1>2, <2>2, <2>5, KeptSame
  <2>7. AckStored' /\ AcknowledgedIsStored' BY <1>2, <2>1, <2>2, <2>5, StoredStays
  <2>8. QED BY <2>6, <2>7 DEF Kept
<1>5. tainted' = d.tainted BY <1>1 DEF Driver
<1>6. QED BY <1>3, <1>4, <1>5 DEF StoredInv

LEMMA StoredNext == ASSUME TypeInv, Sending, StoredInv, [Next]_vars PROVE StoredInv'
<1>1. CASE Step BY <1>1, StepStored
<1>2. CASE Process BY <1>2, ProcessStored
<1>3. CASE Damaged BY <1>3, DamagedStored
<1>4. CASE ChipDone BY <1>4, ChipDoneStored
<1>5. CASE PowerLoss BY <1>5, PowerLossStored
<1>6. CASE GenericPoll BY <1>6, GenericPollStored
<1>7. CASE ToolReads BY <1>7, ToolReadsStored
<1>8. CASE ToolStarts \/ ToolGivesUp BY <1>8, ToolFreshStored
<1>9. CASE Stray
  <2>1. Talk' BY <1>9, TalkStray DEF StoredInv
  <2>2. UNCHANGED <<device, u, tool, replies>> BY <1>9 DEF Stray, link
  <2>3. QED BY <2>1, <2>2, StoredUnchanged
<1>10. CASE Lost \/ Product \/ UNCHANGED vars
  <2>1. /\ UNCHANGED <<device, u, deferred, tool, replies>>
        /\ line' = line \/ line' = NoFrame
    BY <1>10 DEF Lost, Product, Taken, vars, link
  <2>2. Talk' BY <2>1, TalkSilent DEF StoredInv, Erases, Programs
  <2>3. QED BY <2>1, <2>2, StoredUnchanged
<1>11. QED BY <1>1, <1>2, <1>3, <1>4, <1>5, <1>6, <1>7, <1>8, <1>9, <1>10 DEF Next

LEMMA StoredInit == Init => StoredInv
<1> SUFFICES ASSUME Init PROVE StoredInv OBVIOUS
<1>1. tool.at = 0 /\ u.st = "IDLE" /\ chip = Idle /\ pending = FALSE
  BY FreshUpdated DEF Init, NotRunning
<1>2. ~Erases(u) /\ ~Programs(u) BY <1>1 DEF Erases, Programs
<1>3. Talk BY <1>1, <1>2 DEF Talk, AwaitedFrame, DeferredFrame, DeferredAlone, SentAlone,
                             RepliesAwaited, WorkNotBehind, WorkIsMine, Hopeful
<1>4. Kept BY <1>1, <1>2 DEF Kept, Tracked, HoldsErasure, HoldsChunk, AckStored,
                             AcknowledgedIsStored, Hopeful
<1>5. QED BY <1>3, <1>4 DEF StoredInv

(* What the tool was told is stored is stored, whatever the layout of the  *)
(* pack and whatever frames, transfers and power get lost, unless the      *)
(* driver lost track of the chip (product_pc_link_step_update: the reply   *)
(* waits for the erasure or for the last cell of the chunk).               *)
THEOREM UploadAcknowledgedIsStored == Spec => []AcknowledgedIsStored
<1>1. Init => TypeInv /\ Sending /\ StoredInv
  BY TypeInit, StoredInit DEF Init, Sending, NotRunning
<1>2. TypeInv /\ Sending /\ StoredInv /\ [Next]_vars => (TypeInv /\ Sending /\ StoredInv)'
  BY TypeNext, StoredNext
<1>3. StoredInv => AcknowledgedIsStored
  BY DEF StoredInv, Kept, AcknowledgedIsStored
<1>4. QED BY <1>1, <1>2, <1>3, PTL DEF Spec
=============================================================================
