----------------------------- MODULE CalCapture -----------------------------
(***************************************************************************)
(* Captures for the calibration on a PC: the service of the BRINGUP_CAL    *)
(* firmware (app_cal_capture_service.c) in its shell                       *)
(* (app_cal_capture_shell.c), and the client that asks for them            *)
(* (tools/pc_cal_capture.py, and run and cancel_pending of                 *)
(* tools/pc_osl_campaign.py).                                              *)
(*                                                                         *)
(* A request has an id higher than any before, a reply echoes it, and the  *)
(* client drops the replies to requests it no longer waits for: of an id   *)
(* the model keeps only whether a reply is to the request waited for, and  *)
(* the number of a START, which names its capture.  The installation of    *)
(* the same service is CalInstall.                                         *)
(***************************************************************************)
EXTENDS CalSession, Sequences

CONSTANTS
    Blocks,         \* captures a sample is integrated from (16 or 96; else 1)
    Parts,          \* RESULT frames of an observation (3)
    Starts_         \* bound: captures asked for

VARIABLES ses, wf, lease, svc, line, host, ext
vars == <<att, ses, wf, lease, svc, line, host, ext>>

Captures == 0 .. Starts_
Errors == {"OK", "NOT_READY", "BUSY", "REFUSED", "BAD_PAYLOAD", "SAFETY_BLOCKED", "CANCELED", "TIMEOUT",
           "BAD_FRAME", "ACQUISITION_ERROR"}
(* What serialize_observation puts together, read only while it is valid.  *)
(* taken, calm: history.                                                   *)
Observations == [id : Captures, taken : 0 .. MaxAttempts, calm : BOOLEAN]
NoObservation == [id |-> 0, taken |-> 0, calm |-> FALSE]
Commands == {"START", "STATUS", "RESULT", "CANCEL", "QUERY", "STOP"}
Requests == [cmd : Commands, id : Captures]
NoRequest == [cmd |-> "STATUS", id |-> 0]
Answers ==
    [own : BOOLEAN, error : Errors, id : Captures, busy : BOOLEAN, valid : BOOLEAN, status : Errors,
     obs : Observations]
(* Nothing of a reply that comes too late is read. *)
Stale == [own |-> FALSE, error |-> "OK", id |-> 0, busy |-> FALSE, valid |-> FALSE, status |-> "OK",
          obs |-> NoObservation]

(* dead is history: the capture was aborted. *)
Services ==
    [id : Captures, status : Errors, valid : BOOLEAN, obs : Observations, cancel : BOOLEAN,
     pending : BOOLEAN, mean : 0 .. MaxAttempts, tx : Seq(Answers), dead : BOOLEAN]
(* cmd is what the client sends next, or waits for; last, its last START;  *)
(* capture, the one it asks about.                                         *)
Hosts ==
    [st : {"IDLE", "SEND", "WAIT"}, cmd : Commands, last : Captures, capture : Captures,
     parts : Seq(Observations), took : BOOLEAN]

Init ==
    /\ att = Untouched /\ ses = NoSession /\ wf = NoWorkflow /\ lease = "FREE"
    /\ svc = [id |-> 0, status |-> "NOT_READY", valid |-> FALSE, obs |-> NoObservation, cancel |-> FALSE,
              pending |-> FALSE, mean |-> 0, tx |-> <<>>, dead |-> FALSE]
    /\ line = NoRequest
    /\ host = [st |-> "IDLE", cmd |-> "START", last |-> 0, capture |-> 0, parts |-> <<>>, took |-> FALSE]
    /\ ext = [safety |-> "CLEAR", late |-> FALSE, again |-> FALSE]

Here == [ses |-> ses, wf |-> wf, att |-> att, lease |-> lease, svc |-> svc, host |-> host, ext |-> ext]
Becomes(x) ==
    /\ ses' = x.ses /\ wf' = x.wf /\ att' = x.att /\ lease' = x.lease /\ svc' = x.svc
    /\ host' = x.host /\ ext' = x.ext

(* service_snapshot: the range may be off, all else must be in order for   *)
(* factory_allowed; nothing is transferred while the front end is in use.  *)
FactoryAllowed(x) == x.ext.safety = "CLEAR"
TransferSafe(x) == ~AttemptActive(x.att)
Busy(x) == SessionActive(x) \/ x.svc.pending
-----------------------------------------------------------------------------
(* Seeded fault: an abort while the result waits for safety is forgotten. *)
AbortUnder(x, reason) ==
    LET y == IF SessionActive(x) THEN SessionCancel(x) ELSE x
    IN  [y EXCEPT !.svc.valid = FALSE, !.svc.obs = NoObservation,
                  !.svc.cancel = @ \/ Busy(x),
                  !.svc.status = IF Busy(x) THEN reason ELSE @,
                  !.svc.dead = @ \/ Busy(x),
                  !.ext.again = @ \/ x.ses.st = "CANCELING"]
(* abort_capture.  again is history: the drain of an abort was interrupted *)
(* by another one (CalWizard!CancelDrains).                                *)
AbortCaptureNow(x, reason) ==
    LET y == IF SessionActive(x) THEN SessionCancel(x) ELSE x
    IN  [y EXCEPT !.svc.valid = FALSE, !.svc.obs = NoObservation,
                  !.svc.cancel = @ \/ Busy(x),
                  !.svc.pending = FALSE,
                  !.svc.status = IF Busy(x) THEN reason ELSE @,
                  !.svc.dead = @ \/ Busy(x),
                  !.ext.again = @ \/ x.ses.st = "CANCELING"]

(* reply: there is room for two. *)
Answer(x, error) ==
    [own |-> TRUE, error |-> error, id |-> x.svc.id, busy |-> Busy(x), valid |-> x.svc.valid,
     status |-> x.svc.status, obs |-> x.svc.obs]
Reply(x, error) ==
    IF Len(x.svc.tx) = 2 THEN AbortCaptureNow(x, "BAD_FRAME")
    ELSE [x EXCEPT !.svc.tx = Append(@, Answer(x, error))]

(* start: blocks is what the condition asked for needs. *)
Started(x, id, blocks) ==
    [WorkflowStart(x) EXCEPT
         !.ses = [NoSession EXCEPT !.st = "START_CAPTURE", !.event = "BEGIN", !.blocks = blocks],
         !.svc.id = id, !.svc.status = "BUSY", !.svc.valid = FALSE, !.svc.cancel = FALSE,
         !.svc.obs = NoObservation, !.svc.pending = FALSE, !.svc.mean = 0, !.svc.dead = FALSE,
         !.ext.late = FALSE]
Start(x, id) ==
    CASE Busy(x) -> {Reply(x, "BUSY")}
      [] ~Busy(x) /\ ~(FactoryAllowed(x) /\ TransferSafe(x)) -> {Reply(x, "SAFETY_BLOCKED")}
      [] OTHER -> {Reply(x, "REFUSED")} \cup {Reply(Started(x, id, b), "OK") : b \in {1, Blocks}}
Result(x, id) ==
    CASE id # x.svc.id -> Reply(x, "BAD_PAYLOAD")
      [] id = x.svc.id /\ ~x.svc.valid -> Reply(x, "NOT_READY")
      [] OTHER -> Reply(x, "OK")
Cancel(x, id) ==
    IF id # x.svc.id \/ id = 0 THEN Reply(x, "BAD_PAYLOAD")
    ELSE LET y == AbortCaptureNow(x, "CANCELED")
         IN  Reply([y EXCEPT !.svc.status = IF SessionActive(y) THEN @ ELSE "CANCELED",
                             !.svc.dead = TRUE], "OK")
Dispatch(x, request) ==
    CASE request.cmd = "START" -> Start(x, request.id)
      [] request.cmd \in {"STATUS", "QUERY"} -> {Reply(x, "OK")}
      [] request.cmd = "RESULT" -> {Result(x, request.id)}
      [] OTHER -> {Cancel(x, request.id)}
-----------------------------------------------------------------------------
(* app_cal_capture_step: the session makes a step, once the answer to the  *)
(* START has left; ...                                                     *)
Expired(x) == IF SessionActive(x) /\ ~x.svc.cancel /\ x.ext.late THEN AbortCaptureNow(x, "TIMEOUT") ELSE x
Held(x) ==
    x.svc.tx # <<>> /\ ~x.ses.started /\ x.ses.st = "START_CAPTURE" /\ ~x.svc.cancel
Noted(x, event) ==
    CASE event = "ACCEPTED" -> [x EXCEPT !.svc.mean = @ + 1]
      [] event = "COMPLETE" -> IF x.svc.mean >= Required THEN [x EXCEPT !.svc.pending = TRUE]
                               ELSE [x EXCEPT !.svc.status = "ACQUISITION_ERROR"]
      [] event = "FAILED" -> [x EXCEPT !.svc.status = "ACQUISITION_ERROR"]
      [] event = "CANCELED" /\ ~x.svc.cancel -> [x EXCEPT !.svc.status = "CANCELED"]
      [] OTHER -> x
Capturing(x) ==
    IF ~SessionActive(x) THEN {x}
    ELSE LET y == Expired(x)
         IN  IF Held(y) THEN {y} ELSE {Noted(r.x, r.event) : r \in SessionStep(y)}

(* ... a complete result waits for the front end to be found safe again; . *)
Published(x) ==
    [x EXCEPT !.svc.pending = FALSE, !.svc.valid = TRUE, !.svc.status = "OK",
              !.svc.obs = [id |-> x.svc.id, taken |-> x.wf.taken,
                           calm |-> x.ext.safety = "CLEAR" /\ ~AttemptActive(x.att)]]
(* Seeded fault: it is published whatever the state of the terminals. *)
PublishAnyway(x) ==
    IF x.svc.pending /\ ~x.ext.late THEN Published(x) ELSE x
(* Seeded fault: a wait for safety has no deadline. *)
PublishLate(x) ==
    CASE x.svc.pending /\ x.ext.safety = "BLOCKED" -> AbortCaptureNow(x, "SAFETY_BLOCKED")
      [] x.svc.pending /\ TransferSafe(x) /\ FactoryAllowed(x) -> Published(x)
      [] OTHER -> x
Publish(x) ==
    CASE x.svc.pending /\ x.ext.late -> AbortCaptureNow(x, "TIMEOUT")
      [] x.svc.pending /\ ~x.ext.late /\ x.ext.safety = "BLOCKED" -> AbortCaptureNow(x, "SAFETY_BLOCKED")
      [] x.svc.pending /\ ~x.ext.late /\ TransferSafe(x) /\ FactoryAllowed(x) -> Published(x)
      [] OTHER -> x

(* ... and a reply leaves, over some passes, unless it might be answered   *)
(* into a capture.  It may be lost, and is of use only when waited for.    *)
(* Client.capture, Campaign.run and cancel_pending: what follows a reply. *)
Goes(h, cmd) == [h EXCEPT !.st = "SEND", !.cmd = cmd]
Rests(h) == [h EXCEPT !.st = "IDLE", !.parts = <<>>]
Failure(h) == Goes(h, IF h.cmd = "START" THEN "QUERY" ELSE "CANCEL")
HeardStatus(h, a) ==
    CASE a.id # h.capture -> Failure(h)
      [] a.id = h.capture /\ a.busy -> Goes(h, "STATUS")
      [] OTHER -> IF a.valid /\ a.status = "OK" THEN Goes(h, "RESULT") ELSE Failure(h)
HeardResult(h, a) ==
    LET parts == Append(h.parts, a.obs)
    IN  IF Len(parts) < Parts THEN [Goes(h, "RESULT") EXCEPT !.parts = parts]
        ELSE [h EXCEPT !.st = "IDLE", !.parts = parts, !.took = TRUE]
Heard(h, a) ==
    CASE h.cmd \in {"START", "RESULT"} /\ a.error # "OK" -> Failure(h)
      [] h.cmd = "START" /\ a.error = "OK" -> Goes(h, "STATUS")
      [] h.cmd = "STATUS" -> HeardStatus(h, a)
      [] h.cmd = "RESULT" /\ a.error = "OK" -> HeardResult(h, a)
      [] h.cmd = "CANCEL" -> Goes(h, "QUERY")
      [] h.cmd = "QUERY" /\ a.busy -> [Goes(h, "STOP") EXCEPT !.capture = a.id]
      [] OTHER -> Rests(h)
Transmit(x) ==
    IF x.svc.tx = <<>> \/ ~TransferSafe(x) \/ x.svc.pending \/ (SessionActive(x) /\ x.ses.started)
    THEN {x}
    ELSE LET a == Head(x.svc.tx)
             sent == [x EXCEPT !.svc.tx = Tail(@)]
         IN  {x, sent} \cup IF a.own THEN {[sent EXCEPT !.host = Heard(@, a)]} ELSE {}
-----------------------------------------------------------------------------
(* The main loop takes in a request, or part of one with an error, ... *)
Receive ==
    /\ line # NoRequest /\ line' = NoRequest
    /\ \/ \E y \in Dispatch(Here, line) : Becomes(y)
       \/ UNCHANGED <<att, ses, wf, lease, svc, host, ext>>
(* ... and makes a step. *)
DeviceStep ==
    /\ \E y \in Capturing(Here) : \E z \in Transmit(Publish(y)) : Becomes(z)
    /\ UNCHANGED line
(* The time of the capture is over.  What safety says comes and goes. *)
Expire ==
    /\ Busy(Here) /\ ~ext.late /\ ext' = [ext EXCEPT !.late = TRUE]
    /\ UNCHANGED <<att, ses, wf, lease, svc, line, host>>
Safety ==
    /\ \E s \in {"CLEAR", "REFRESH", "BLOCKED"} \ {ext.safety} : ext' = [ext EXCEPT !.safety = s]
    /\ UNCHANGED <<att, ses, wf, lease, svc, line, host>>

(* The client asks for a capture; sends what it has to; gives a reply up;  *)
(* is canceled between two requests; is ended by its operator.             *)
Device == <<att, ses, wf, lease, svc, ext>>
Ask ==
    /\ host.st = "IDLE" /\ host.last < Starts_
    /\ host' = [host EXCEPT !.st = "SEND", !.cmd = "START", !.last = @ + 1, !.capture = host.last + 1,
                            !.parts = <<>>, !.took = FALSE]
    /\ UNCHANGED <<Device, line>>
Disown(tx) == [k \in DOMAIN tx |-> Stale]
Send ==
    /\ host.st = "SEND" /\ line = NoRequest
    /\ line' = [cmd |-> host.cmd, id |-> host.capture]
    /\ host' = [host EXCEPT !.st = "WAIT"]
    /\ svc' = [svc EXCEPT !.tx = Disown(@)]
    /\ UNCHANGED <<att, ses, wf, lease, ext>>
TimeOut ==
    /\ host.st = "WAIT" /\ line = NoRequest
    /\ host' = CASE host.cmd \in {"START", "STATUS", "RESULT"} -> Failure(host)
                 [] host.cmd = "CANCEL" -> Goes(host, "QUERY")
                 [] OTHER -> Rests(host)
    /\ svc' = [svc EXCEPT !.tx = Disown(@)]
    /\ UNCHANGED <<att, ses, wf, lease, ext, line>>
GiveUp ==
    /\ host.st = "SEND" /\ host.cmd \in {"STATUS", "RESULT"}
    /\ host' \in {Failure(host), Rests(host)}
    /\ UNCHANGED <<Device, line>>

Next == Receive \/ DeviceStep \/ Expire \/ Safety \/ Ask \/ Send \/ TimeOut \/ GiveUp
Spec == Init /\ [][Next]_vars
(* The main loop passes for ever, and so does time. *)
FairSpec == Spec /\ WF_vars(DeviceStep) /\ WF_vars(Expire)
-----------------------------------------------------------------------------
TypeOK ==
    /\ att \in Attempts /\ ses \in Sessions /\ wf \in Workflows /\ lease \in {"FREE", "METROLOGY"}
    /\ svc \in Services /\ Len(svc.tx) <= 2 /\ line \in Requests /\ host \in Hosts
    /\ ext \in [safety : {"CLEAR", "REFRESH", "BLOCKED"}, late : BOOLEAN, again : BOOLEAN]

(* The observation the client has put together from its parts is that of   *)
(* the capture it asked for, rests on all the captures it needs, and was   *)
(* published with the front end at rest and safe - whatever was canceled,  *)
(* given up, lost or asked again on the way (start, serialize_observation, *)
(* Client.capture).                                                        *)
TakenIsEarned ==
    host.took => \A k \in DOMAIN host.parts :
        /\ host.parts[k] = host.parts[1] /\ host.parts[k].id = host.capture
        /\ host.parts[k].taken >= Required /\ host.parts[k].calm

(* A capture that was canceled, timed out or was blocked is never          *)
(* published, also when it was complete and only waited for safety         *)
(* (abort_capture, app_cal_capture_step).                                  *)
DeadStaysDead == svc.valid => svc.obs.id = svc.id /\ ~svc.dead

(* A capture ends, published or not, and then the replies that waited for  *)
(* it leave, unless it was aborted a second time while it drained          *)
(* (app_cal_capture_step).                                                 *)
Draining == (Busy(Here) \/ svc.tx # <<>>) /\ ~ext.again
CaptureDrains == Draining ~> ~Draining
=============================================================================
