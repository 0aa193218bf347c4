------------------------- MODULE MeasurementSession -------------------------
(***************************************************************************)
(* app_measurement_session.c in the product build: a survey of captures    *)
(* under the policy of AutoRange, repeats of its best condition, and the   *)
(* release of the hardware before anything final is shown, over the        *)
(* transaction of Attempt and the lease of the shared workspace.           *)
(***************************************************************************)
EXTENDS AutoRange, Attempt

CONSTANTS
    TrimmedSamples,     \* MEASUREMENT_TRIMMED_SAMPLES
    MaxExtraCaptures    \* MEASUREMENT_TRIMMED_MAX_EXTRA_CAPTURES
(* The first of the repeats is the reading they repeat.                    *)
SessionAssumption ==
    TrimmedSamples \in Nat /\ TrimmedSamples > 1 /\ MaxExtraCaptures \in Nat \ {0}

VARIABLES
    state, policy,
    pending,    \* pending_event, when it outlives the call that raised it
    partial, final,     \* have_partial, have_final
    started,    \* attempt_started
    cancel,     \* cancel_requested
    late,       \* the survey's deadline has passed
    trim,       \* the repeats: requested, under way, what they showed, extra captures
    lease       \* g_io_workspace: "METROLOGY" while a capture may write to it
vars == <<att, state, policy, pending, partial, final, started, cancel, late, trim, lease>>

SessionStates == {"IDLE", "START_ATTEMPT", "WAIT_ATTEMPT", "PROCESS_DSP", "CANCELING",
                  "FINISHING", "DONE"}
SessionActive == state \notin {"IDLE", "DONE"}
NoTrim == [requested |-> FALSE, trimming |-> FALSE, applied |-> FALSE, seen |-> <<>>,
           mean |-> {}, extra |-> 0]

Init ==
    /\ att = Untouched /\ state = "IDLE" /\ policy = NoSession /\ pending = "NONE"
    /\ partial = FALSE /\ final = FALSE /\ started = FALSE /\ cancel = FALSE
    /\ late = FALSE /\ trim = NoTrim /\ lease = "FREE"

(* The product remembers the last good range, until something voids it.    *)
StartSession ==
    /\ ~SessionActive
    /\ \E range \in {Hint(policy), Unhinted} : policy' = Started(range)
    /\ state' = "START_ATTEMPT" /\ pending' = "AUTO_BEGIN"
    /\ partial' = FALSE /\ final' = FALSE /\ started' = FALSE /\ cancel' = FALSE
    /\ late' = FALSE /\ trim' = NoTrim
    /\ UNCHANGED <<att, lease>>

-----------------------------------------------------------------------------
(* trim_sample_usable; same: the repeat was taken through the channel and  *)
(* with the calibration of the first.                                      *)
Repeatable(r, same) == Point(r) /\ r.source /\ same

(* store_policy_event for a final result, begin_trimming included; a is    *)
(* the transaction at that moment, which stays with the caller.            *)
Repeats(p, tr) ==
    /\ p.result.status = "FINAL_OK" /\ ~tr.requested /\ p.result.primary # 0
    /\ Repeatable(p.history[p.result.primary].reading, TRUE)
Outcome(p, tr) ==
    IF p.result.status = "FINAL_OK" /\ ~tr.requested THEN Stopped(p, "FAILED") ELSE p
(* Seeded fault: the result is final before the hardware is released.      *)
PublishHeld(result, tr, a) ==
    /\ policy' = Outcome(result, tr) /\ pending' = "NONE" /\ UNCHANGED partial
    /\ trim' = [tr EXCEPT !.requested = TRUE]
    /\ state' = "DONE" /\ final' = TRUE
Publish(result, tr, a) ==
    \E p \in {result} :
        IF Repeats(p, tr)
        THEN /\ policy' = p /\ state' = "START_ATTEMPT" /\ pending' = "NONE"
             /\ trim' = [tr EXCEPT !.requested = TRUE, !.trimming = TRUE,
                                   !.seen = <<p.history[p.result.primary].reading>>]
             /\ partial' = FALSE /\ final' = FALSE
        ELSE /\ policy' = Outcome(p, tr) /\ pending' = "NONE"
             /\ trim' = [tr EXCEPT
                            !.requested = @ \/ p.result.status = "FINAL_OK",
                            !.applied = @ /\ policy'.result.status = "FINAL_OK"]
             /\ IF AttemptActive(a)
                THEN state' = "FINISHING" /\ partial' = FALSE /\ final' = FALSE
                ELSE state' = "DONE" /\ final' = TRUE /\ UNCHANGED partial
Acknowledge(a) == att' = Acknowledged(a) /\ lease' = LeaseAcknowledged(a, lease)

(* submit_phase05_failure: the capture gave no block.  A repeat that fails *)
(* aborts what is left of the transaction.                                 *)
Missing(kind) ==
    [kind |-> kind, ratio |-> "GOOD", x |-> 0, local |-> "MIXED", level |-> "WEAK",
     short |-> FALSE, source |-> FALSE, subohm |-> FALSE]
AfterMiss(a) == IF trim.trimming THEN AbortedAttempt(a) ELSE a
Miss(a) ==
    \E kind \in {"FAILED", "ABORTED"} :
        IF trim.trimming
        THEN Publish(Stopped(policy, IF kind = "ABORTED" THEN "SAFETY_ABORT" ELSE "FAILED"),
                     [trim EXCEPT !.trimming = FALSE], AfterMiss(a))
        ELSE \E p \in {Decided(Stored(policy, Missing(kind)))} : Publish(p, trim, a)

-----------------------------------------------------------------------------
(* app_measurement_session_step: one operator per state; a is the          *)
(* transaction as the head of the step leaves it.                          *)
GoTo(s) == state' = s /\ pending' = "NONE"
StartAttempt(a) ==
    IF cancel
    THEN Publish(Stopped(policy, "CANCELED"), trim, a) /\ att' = a /\ UNCHANGED <<started, lease>>
    ELSE \E call \in StartCalls(a, lease, TRUE) :
            /\ lease' = call.lease
            /\ IF call.ok
               THEN /\ att' = call.att /\ started' = TRUE /\ GoTo("WAIT_ATTEMPT")
                    /\ UNCHANGED <<policy, partial, final, trim>>
               ELSE Miss(call.att) /\ att' = AfterMiss(call.att) /\ UNCHANGED started

AbortAndCancel(a) ==
    /\ att' = AbortedAttempt(a) /\ GoTo("CANCELING")
    /\ UNCHANGED <<policy, partial, final, started, trim, lease>>
WaitAttempt(a) ==
    IF cancel THEN AbortAndCancel(a)
    ELSE \E b \in Steps(a) :
            CASE Ready(b) ->
                    /\ att' = b /\ GoTo("PROCESS_DSP")
                    /\ UNCHANGED <<policy, partial, final, started, trim, lease>>
              [] ~Ready(b) /\ StepFails(a, b) /\ ~AttemptActive(b) ->
                    Miss(b) /\ Acknowledge(AfterMiss(b)) /\ UNCHANGED started
              [] OTHER -> att' = b /\ UNCHANGED <<state, policy, pending, partial, final,
                                                  started, trim, lease>>

(* trim_submit.  The mean lies among the samples; when it belies what the  *)
(* survey says of the component, nothing is said.                          *)
Means(seen) ==
    {[seen[1] EXCEPT !.x = v, !.local = seen[i].local] :
        i \in DOMAIN seen,
        v \in {u \in -2 .. 2 : \E j, k \in DOMAIN seen : seen[j].x <= u /\ u <= seen[k].x}}
(* Seeded fault: the mean is not held against the survey. *)
BeliedNever(p, mean) == FALSE
Belied(p, mean) ==
    LET first == Local(p.history[p.result.primary].reading)
    IN  \/ Contradicts(p.result.class, mean)
        \/ Local(mean) # first /\ Local(mean) # "UNKNOWN"
Repeated(a, r, same) ==
    LET tr == [trim EXCEPT !.extra = @ + 1,
                           !.seen = IF Repeatable(r, same) THEN Append(@, r) ELSE @]
        over == [tr EXCEPT !.trimming = FALSE]
    IN  CASE Len(tr.seen) < TrimmedSamples /\ tr.extra < MaxExtraCaptures ->
                GoTo("START_ATTEMPT") /\ trim' = tr /\ UNCHANGED <<policy, partial, final>>
          [] Len(tr.seen) < TrimmedSamples /\ tr.extra >= MaxExtraCaptures ->
                Publish(Stopped(policy, "FAILED"), over, Acknowledged(a))
          [] OTHER ->
                \E mean \in Means(tr.seen) :
                    Publish(IF Belied(policy, mean)
                            THEN [policy EXCEPT !.result.class = "UNKNOWN"] ELSE policy,
                            [over EXCEPT !.applied = TRUE, !.mean = {mean}], Acknowledged(a))

ProcessDsp(a) ==
    CASE cancel -> AbortAndCancel(a)
      [] ~cancel /\ ~Ready(a) -> Miss(a) /\ Acknowledge(AfterMiss(a)) /\ UNCHANGED started
      [] OTHER ->
            /\ Acknowledge(a) /\ UNCHANGED started
            /\ \E r \in Readings, same \in BOOLEAN :
                 IF trim.trimming THEN Repeated(a, r, same)
                 ELSE \E stored \in {Stored(policy, r)} : \E p \in {Decided(stored)} :
                        IF p.next = {} THEN Publish(p, trim, Acknowledged(a))
                        ELSE /\ policy' = p /\ GoTo("START_ATTEMPT")
                             /\ partial' = (partial \/ PartialAfter(p))
                             /\ UNCHANGED <<trim, final>>

(* Seeded fault: every step of the cancel aborts again. *)
CancelingAgain(a, shown) ==
    \E b \in Steps(AbortedAttempt(a)) :
        IF AttemptActive(b)
        THEN /\ att' = b /\ GoTo("CANCELING") /\ partial' = shown
             /\ UNCHANGED <<policy, final, started, trim, lease>>
        ELSE /\ Acknowledge(b) /\ GoTo("DONE") /\ final' = TRUE
             /\ UNCHANGED <<policy, partial, started, trim>>
(* shown: the partial result, which an interruption takes back.            *)
Canceling(a, shown) ==
    \E b \in Steps(a) :
        IF AttemptActive(b)
        THEN /\ att' = b /\ GoTo("CANCELING") /\ partial' = shown
             /\ UNCHANGED <<policy, final, started, trim, lease>>
        ELSE /\ Acknowledge(b) /\ UNCHANGED started
             /\ policy' = Stopped(policy, IF cancel THEN "CANCELED" ELSE "SAFETY_ABORT")
             /\ state' = "DONE" /\ pending' = "NONE" /\ final' = TRUE /\ partial' = shown
             /\ trim' = [trim EXCEPT !.applied = FALSE]

Finishing(a) ==
    \E b \in Steps(Released(a)) :
        IF AttemptActive(b)
        THEN att' = b /\ UNCHANGED <<state, policy, pending, partial, final, started, trim, lease>>
        ELSE /\ Acknowledge(b) /\ UNCHANGED started
             /\ Publish(CASE cancel -> Stopped(policy, "CANCELED")
                          [] ~cancel /\ b.failed -> Stopped(policy, "SAFETY_ABORT")
                          [] OTHER -> policy, trim, b)

(* The head of the step: the deadline, and the supervision of a held       *)
(* session between two captures; then the event waiting, or the state.     *)
Supervised == state \in {"PROCESS_DSP", "START_ATTEMPT"} /\ started /\ AttemptActive(att)
InState(a) ==
    CASE state = "START_ATTEMPT" -> StartAttempt(a)
      [] state = "WAIT_ATTEMPT" -> WaitAttempt(a)
      [] state = "PROCESS_DSP" -> ProcessDsp(a)
      [] state = "CANCELING" -> Canceling(a, partial)
      [] state = "FINISHING" -> Finishing(a)
Taken(a) ==
    /\ att' = a /\ pending' = "NONE"
    /\ UNCHANGED <<state, policy, partial, final, started, trim, lease>>
Underway == SessionActive \/ pending # "NONE"
SessionStep ==
    /\ Underway
    /\ UNCHANGED <<cancel, late>>
    /\ CASE late /\ SessionActive /\ state \notin {"CANCELING", "FINISHING"} ->
              Canceling(AbortedAttempt(att), FALSE)
         [] ~(late /\ SessionActive) /\ Supervised ->
              \E a \in Steps(att) :
                 CASE StepFails(att, a) -> Canceling(a, FALSE)
                   [] ~StepFails(att, a) /\ pending # "NONE" -> Taken(a)
                   [] OTHER -> InState(a)
         [] OTHER -> IF pending # "NONE" THEN Taken(att) ELSE InState(att)

(* app_measurement_session_cancel                                          *)
CancelAtRest ==
    /\ SessionActive /\ cancel' = TRUE /\ UNCHANGED <<late, started>>
    /\ ~(started /\ AttemptActive(att))
    /\ IF Ready(att) THEN Acknowledge(att) ELSE UNCHANGED <<att, lease>>
    /\ policy' = Stopped(policy, "CANCELED") /\ state' = "DONE" /\ final' = TRUE
    /\ pending' = "FINAL_RESULT" /\ trim' = [trim EXCEPT !.applied = FALSE]
    /\ UNCHANGED partial
CancelRunning ==
    /\ SessionActive /\ started /\ AttemptActive(att) /\ ~cancel /\ cancel' = TRUE
    /\ UNCHANGED <<att, state, policy, pending, partial, final, started, late, trim, lease>>

DeadlinePasses ==
    /\ SessionActive /\ ~late /\ late' = TRUE
    /\ UNCHANGED <<att, state, policy, pending, partial, final, started, cancel, trim, lease>>
(* The workspace has other users; one may have it when a capture asks.     *)
OthersBorrow ==
    /\ lease' = CASE lease = "FREE" -> "OTHER" [] lease = "OTHER" -> "FREE" [] OTHER -> lease
    /\ UNCHANGED <<att, state, policy, pending, partial, final, started, cancel, late, trim>>

Next ==
    StartSession \/ SessionStep \/ CancelAtRest \/ CancelRunning \/ DeadlinePasses \/ OthersBorrow

(* The main loop steps a session that is active, and no wait of the        *)
(* transaction lasts for ever when its owner does not abort it again and   *)
(* again (HwMeasure!TransactionEnds), as the session does not              *)
(* (AbortAndCancel): a step that changes something is taken in the end.    *)
Spec == Init /\ [][Next]_vars
FairSpec == Spec /\ WF_vars(SessionStep)
-----------------------------------------------------------------------------
TypeOK ==
    /\ att \in Attempts /\ state \in SessionStates /\ lease \in {"FREE", "METROLOGY", "OTHER"}
    /\ pending \in {"NONE", "AUTO_BEGIN", "FINAL_RESULT"}
    /\ {partial, final, started, cancel, late} \subseteq BOOLEAN
    /\ policy.status \in Statuses /\ Len(policy.history) <= Capacity
    /\ Cardinality(policy.next) <= 1 /\ policy.primary \in 0 .. Capacity
    /\ trim.extra \in 0 .. MaxExtraCaptures /\ Len(trim.seen) <= TrimmedSamples

(* Whatever interrupts a survey (a cancel, the deadline, a failed capture, *)
(* a supervision that ends a held session between two captures), its       *)
(* transaction is never put to rest before it has ended, and when the      *)
(* session is over the hardware is at rest and the workspace is given back *)
(* (app_measurement_session_step, ..._cancel).                             *)
NothingLeftBehind ==
    /\ ~att.lost
    /\ ~SessionActive => ~AttemptActive(att) /\ lease # "METROLOGY"
    /\ final => ~SessionActive

(* No condition is captured twice in one survey, each is one the hardware  *)
(* allows, and a survey that goes on has one to go on with                 *)
(* (measurement_auto_submit_result, can_append).                           *)
EachConditionOnce ==
    /\ NoConditionTwice(policy)
    /\ (policy.status = "RUNNING") = (policy.next # {})

(* What is shown as final was seen: a canceled survey says so, every       *)
(* frequency was looked at before a verdict, and a value is shown only     *)
(* after the full number of repeats of one good reading, in a session      *)
(* whose hardware ended well, with a component whose sign the mean bears   *)
(* out (store_policy_event, trim_submit, classify_survey).                 *)
FinalIsEarned ==
    final =>
      LET shown == policy.result
      IN  /\ cancel => shown.status = "CANCELED"
          /\ VerdictBorneOut(policy)
          /\ shown.status = "FINAL_OK" =>
                /\ trim.applied /\ Len(trim.seen) = TrimmedSamples /\ ~att.failed
                /\ \A mean \in trim.mean : ~Contradicts(shown.class, mean)

(* A session that begins ends, whatever the captures show and however the  *)
(* hardware answers: the history, the repeats and the deadline bound it.   *)
SessionEnds == SessionActive ~> ~SessionActive
=============================================================================
