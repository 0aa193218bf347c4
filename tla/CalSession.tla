----------------------------- MODULE CalSession -----------------------------
(***************************************************************************)
(* A calibration session (app_calibration_session.c) takes captures of one *)
(* standard, each a transaction of Attempt, until the workflow             *)
(* (app_calibration_workflow.c) has evidence enough.  The wizard of the    *)
(* product and the capture service for the PC both run it; its operators   *)
(* take and give records x with the fields ses, wf, att and lease.         *)
(***************************************************************************)
EXTENDS Integers, Attempt

CONSTANTS
    Required,       \* accepted captures a standard rests on (6)
    MaxAttempts     \* captures of a condition (10)

(* blocks, got: the captures one sample is integrated from, and has (the   *)
(* product takes one).  started: the session has begun a capture.          *)
Sessions ==
    [st : {"IDLE", "START_CAPTURE", "WAIT_CAPTURE", "CANCELING", "DONE"},
     event : {"NONE", "BEGIN", "CANCELED"}, started : BOOLEAN, blocks : Nat, got : Nat]
NoSession == [st |-> "IDLE", event |-> "NONE", started |-> FALSE, blocks |-> 1, got |-> 0]
(* taken is history: the captures accepted since this workflow began. *)
Workflows ==
    [st : {"IDLE", "REQUESTED", "WAIT", "CANCELING", "COMPLETE", "FAILED", "CANCELED"},
     accepted : 0 .. MaxAttempts, attempts : 0 .. MaxAttempts, taken : 0 .. MaxAttempts]
NoWorkflow == [st |-> "IDLE", accepted |-> 0, attempts |-> 0, taken |-> 0]

SessionActive(x) == x.ses.st \notin {"IDLE", "DONE"}
WorkflowActive(x) == x.wf.st \in {"REQUESTED", "WAIT", "CANCELING"}
Acknowledge(x) == [x EXCEPT !.att = Acknowledged(@), !.lease = LeaseAcknowledged(x.att, @)]
-----------------------------------------------------------------------------
(* The workflow: evidence for one standard of one condition. *)
(* Seeded fault: the evidence of the condition before is kept. *)
WorkflowOn(x) == [x EXCEPT !.wf.st = "REQUESTED", !.wf.attempts = 0, !.wf.taken = 0]
WorkflowStart(x) ==
    [x EXCEPT !.wf = [st |-> "REQUESTED", accepted |-> 0, attempts |-> 0, taken |-> 0]]
Attempted(x) == [x EXCEPT !.wf.attempts = @ + 1]
GoOn(x) == [x EXCEPT !.wf.st = IF x.wf.attempts >= MaxAttempts THEN "FAILED" ELSE "REQUESTED"]
(* Seeded fault: a capture that is turned down is not counted. *)
RejectFree(x) == [x EXCEPT !.wf.st = "REQUESTED"]
Reject(x) == GoOn(Attempted(x))
Accept(x, stable) ==
    LET y == [Attempted(x) EXCEPT !.wf.accepted = @ + 1, !.wf.taken = @ + 1]
    IN  IF y.wf.accepted >= Required /\ stable THEN [y EXCEPT !.wf.st = "COMPLETE"] ELSE GoOn(y)
(* What the flags of a sample, and the spread of the samples, may say. *)
Verdicts == {"REJECTED", "UNSTABLE", "STABLE"}
Judged(x, v) == IF v = "REJECTED" THEN Reject(x) ELSE Accept(x, v = "STABLE")
(* A capture that failed in the hardware, or was aborted, ends it. *)
Failed(x) == [Attempted(x) EXCEPT !.wf.st = "FAILED", !.ses.got = 0]
CancelComplete(x) == [x EXCEPT !.wf.st = "CANCELED"]
-----------------------------------------------------------------------------
(* The session: one call of it does one thing, and says so by an event.    *)
Quiet(x) == [x |-> x, event |-> "NONE"]
Terminal(x) ==
    [x |-> [x EXCEPT !.ses.st = "DONE"],
     event |-> CASE x.wf.st = "COMPLETE" -> "COMPLETE" [] x.wf.st = "CANCELED" -> "CANCELED"
                 [] OTHER -> "FAILED"]
TakeCapture(x) ==
    IF x.ses.got = 0 /\ x.wf.st # "REQUESTED" THEN {Terminal(x)}
    ELSE {LET y == [x EXCEPT !.att = call.att, !.lease = call.lease, !.wf.st = "WAIT"]
          IN  Quiet(IF call.ok THEN [y EXCEPT !.ses.st = "WAIT_CAPTURE", !.ses.started = TRUE]
                    ELSE Failed(y)) :
          call \in StartCalls(x.att, x.lease, FALSE)}
(* The block of a capture is one of those its sample needs, or the last,   *)
(* or useless and with it the ones before.                                 *)
Sampled(x) ==
    LET last == [x EXCEPT !.ses.got = 0]
        judged == {[x |-> Acknowledge(Judged(last, v)),
                    event |-> IF v = "REJECTED" THEN "REJECTED" ELSE "ACCEPTED"] : v \in Verdicts}
    IN  IF x.ses.got + 1 = x.ses.blocks THEN judged
        ELSE {Quiet(Acknowledge([x EXCEPT !.ses.got = @ + 1]))} \cup
             {r \in judged : r.event = "REJECTED"}
(* Seeded fault: a capture that failed is not acknowledged. *)
WaitNoAck(x) ==
    UNION {LET y == [x EXCEPT !.att = b, !.ses.st = "START_CAPTURE"]
           IN  CASE AttemptActive(b) -> {Quiet([x EXCEPT !.att = b])}
                 [] ~AttemptActive(b) /\ Ready(b) -> Sampled(y)
                 [] OTHER -> {Quiet(Failed(y))} :
           b \in Steps(x.att)}
WaitCapture(x) ==
    UNION {LET y == [x EXCEPT !.att = b, !.ses.st = "START_CAPTURE"]
           IN  CASE AttemptActive(b) -> {Quiet([x EXCEPT !.att = b])}
                 [] ~AttemptActive(b) /\ Ready(b) -> Sampled(y)
                 [] OTHER -> {Quiet(Acknowledge(Failed(y)))} :
           b \in Steps(x.att)}
Canceling(x) ==
    {LET y == [x EXCEPT !.att = b]
     IN  IF AttemptActive(b) THEN Quiet(y) ELSE Terminal(CancelComplete(Acknowledge(y))) :
     b \in Steps(x.att)}
SessionStep(x) ==
    CASE x.ses.event # "NONE" -> {[x |-> [x EXCEPT !.ses.event = "NONE"], event |-> x.ses.event]}
      [] x.ses.event = "NONE" /\ x.ses.st = "START_CAPTURE" -> TakeCapture(x)
      [] x.ses.event = "NONE" /\ x.ses.st = "WAIT_CAPTURE" -> WaitCapture(x)
      [] x.ses.event = "NONE" /\ x.ses.st = "CANCELING" -> Canceling(x)
      [] OTHER -> {Quiet(x)}
(* A workflow that waits for its capture is canceled by a later step, any  *)
(* other one at once: also one that is being canceled already.             *)
CanceledAtOnce(x) == 
    [CancelComplete(x) EXCEPT !.ses.st = "DONE", !.ses.event = "CANCELED", !.ses.got = 0]
SessionCancel(x) ==
    CASE ~SessionActive(x) -> x
      [] SessionActive(x) /\ x.wf.st # "WAIT" -> CanceledAtOnce(x)
      [] OTHER -> [x EXCEPT !.ses.st = "CANCELING", !.ses.got = 0, !.wf.st = "CANCELING",
                            !.att = IF AttemptActive(@) THEN AbortedAttempt(@) ELSE @]
=============================================================================
