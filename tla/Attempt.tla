------------------------------ MODULE Attempt ------------------------------
(***************************************************************************)
(* The metrology transaction as its owners see it: the product's wrappers  *)
(* product_auto_start_attempt, ..._step_attempt, ..._acknowledge, ..._abort *)
(* and ..._finish_session of app_shell.c around hw_metrology_measure.c.    *)
(* HwMeasure implements this specification; the measurement session and    *)
(* the lead calibration are built on its operators.                        *)
(*                                                                         *)
(*   RUN   a capture is prepared or taken      HOLD  connected, supervised  *)
(*   END   the orderly release                 ABORT the emergency cleanup  *)
(***************************************************************************)
VARIABLE att

(* hold: the capture under way keeps the session connected.  ready: the    *)
(* block of the last capture can be read.  begun: the cleanup has isolated *)
(* the terminals; a new abort starts it again.  lost: a transaction was    *)
(* forgotten before its end, and what it held is never given back.         *)
Attempts ==
    [st : {"IDLE", "DONE", "RUN", "HOLD", "END", "ABORT"},
     hold : BOOLEAN, failed : BOOLEAN, valid : BOOLEAN, begun : BOOLEAN, lost : BOOLEAN]
Untouched == [st |-> "IDLE", hold |-> FALSE, failed |-> FALSE, valid |-> FALSE,
              begun |-> FALSE, lost |-> FALSE]

AttemptActive(a) == a.st \notin {"IDLE", "DONE"}
Ready(a) == a.valid /\ a.st \in {"HOLD", "DONE"}

(* What a call may leave behind.  A start is accepted, or turned down:     *)
(* a rest stays a rest, a held session is aborted.                         *)
Running(a, hold) == [Untouched EXCEPT !.st = "RUN", !.hold = hold, !.lost = a.lost]
AbortedAttempt(a) ==
    CASE a.st = "IDLE" -> a
      [] a.st = "DONE" -> [a EXCEPT !.st = "IDLE", !.valid = FALSE]
      [] OTHER -> [Untouched EXCEPT !.st = "ABORT", !.failed = TRUE, !.lost = a.lost]
Starts(a, hold) ==
    IF a.st = "HOLD" THEN {Running(a, TRUE), AbortedAttempt(a)}
    ELSE {Running(a, hold)} \cup
         {[Untouched EXCEPT !.st = s, !.failed = TRUE, !.lost = a.lost] : s \in {a.st, "IDLE"}}

(* A step.  No wait lasts for ever, unless the owner keeps starting the    *)
(* cleanup over (HwMeasure!TransactionEnds).                               *)
Steps(a) ==
    {a} \cup
    CASE a.st = "RUN" /\ a.hold ->
            {[a EXCEPT !.st = "HOLD", !.hold = FALSE, !.valid = TRUE], AbortedAttempt(a)}
      [] a.st = "RUN" /\ ~a.hold ->
            {[a EXCEPT !.st = "END"], AbortedAttempt(a)}
      [] a.st = "HOLD" -> {AbortedAttempt(a)}
      [] a.st = "END" -> {[a EXCEPT !.st = "DONE", !.valid = v] : v \in BOOLEAN}
                         \cup {AbortedAttempt(a)}
      [] a.st = "ABORT" -> IF a.begun THEN {[a EXCEPT !.st = "IDLE", !.begun = FALSE]}
                           ELSE {[a EXCEPT !.begun = TRUE]}
      [] OTHER -> {}
(* A step says ERROR while the transaction is being aborted, the last step *)
(* of the cleanup included.                                                *)
StepFails(a, b) == "ABORT" \in {a.st, b.st}

(* hw_metrology_measure_acknowledge puts whatever it finds to rest, save a *)
(* held session: its owners must not call it in between.                   *)
Acknowledged(a) ==
    IF a.st = "HOLD" THEN [a EXCEPT !.valid = FALSE]
    ELSE [a EXCEPT !.st = "IDLE", !.hold = FALSE, !.begun = FALSE,
                   !.lost = @ \/ AttemptActive(a)]
Released(a) == IF a.st = "HOLD" THEN [a EXCEPT !.st = "END"] ELSE a

(* product_auto_start_attempt and ..._acknowledge, with the lease of the   *)
(* shared workspace: a fresh capture needs it free, a continued one needs  *)
(* to have it still, and the end of the transaction gives it back.         *)
StartCalls(a, lease, hold) ==
    CASE a.st = "HOLD" /\ lease # "METROLOGY" ->
            {[att |-> AbortedAttempt(a), lease |-> lease, ok |-> FALSE]}
      [] a.st # "HOLD" /\ lease # "FREE" -> {[att |-> a, lease |-> lease, ok |-> FALSE]}
      [] OTHER ->
            {[att |-> b, ok |-> b.st = "RUN",
              lease |-> IF AttemptActive(b) THEN "METROLOGY" ELSE "FREE"] : b \in Starts(a, hold)}
LeaseAcknowledged(a, lease) ==
    IF ~AttemptActive(Acknowledged(a)) /\ lease = "METROLOGY" THEN "FREE" ELSE lease
-----------------------------------------------------------------------------
StartCapture ==
    /\ ~AttemptActive(att) \/ att.st = "HOLD"
    /\ \E hold \in BOOLEAN : att' \in Starts(att, hold)
StepCapture == AttemptActive(att) /\ att' \in Steps(att)
AcknowledgeCapture == att.st \in {"IDLE", "DONE", "HOLD"} /\ att' = Acknowledged(att)
AbortCapture == att' = AbortedAttempt(att)
FinishCapture == att' = Released(att)

CaptureNext ==
    StartCapture \/ StepCapture \/ AcknowledgeCapture \/ AbortCapture \/ FinishCapture
CaptureSpec == att = Untouched /\ [][CaptureNext]_att
=============================================================================
