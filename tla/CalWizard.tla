----------------------------- MODULE CalWizard -----------------------------
(***************************************************************************)
(* The calibration of the instrument on its own page: the wizard           *)
(* (app_calibration_wizard.c) leads through every range with the terminals *)
(* open, shorted and on the load; for each condition a calibration session *)
(* (app_calibration_session.c) takes captures until the workflow           *)
(* (app_calibration_workflow.c) has evidence enough; the three standards   *)
(* of a condition are solved into a record of the candidate, and the       *)
(* complete candidate is committed (CalInstall has the writing).  The      *)
(* capture itself is the transaction of Attempt.                           *)
(***************************************************************************)
EXTENDS CalSession

CONSTANTS
    RangeCount,     \* APP_CAL_WIZARD_RANGE_COUNT (6)
    FirstCount,     \* the conditions of the first range (3)
    OtherCount      \* and of each other (6)

Ranges == 1 .. RangeCount
Conditions(range) == IF range = 1 THEN FirstCount ELSE OtherCount
Standards == {"OPEN", "SHORT", "LOAD"}
Keys == {key \in Ranges \X (1 .. OtherCount) : key[2] <= Conditions(key[1])}

VARIABLES
    wiz,        \* app_calibration_wizard_t
    ses,        \* app_calibration_session_t
    wf,         \* app_calibration_workflow_t
    cand,       \* the candidate of app_calibration_service_t and the calibration in force
    lease,      \* g_io_workspace
    ext         \* measuring allowed; a fault and the teardown it began; canceled twice
vars == <<att, wiz, ses, wf, cand, lease, ext>>

Active(w) == w.st \notin {"IDLE", "COMPLETE", "FAILED", "CANCELED"}
WizardStates == {"IDLE", "INTRO", "WAIT_FIXTURE", "CAPTURE", "SAFETY_BLOCKED", "RANGE_COMPLETE",
    "CONFIRM_SAVE", "COMMITTING", "CANCELING", "COMPLETE", "FAILED", "CANCELED"}
(* cache: the standards kept for the range, each with its key and with     *)
(* whether all the captures it needs were taken for it.                    *)
Caches == [std : {"OPEN", "SHORT"}, key : Keys, earned : BOOLEAN]
Wizards ==
    [st : WizardStates, std : Standards, range : Ranges \cup {0}, cond : 1 .. OtherCount,
     cache : SUBSET Caches, solved : Nat,
     err : {"NONE", "PHASE05", "SOLVER", "CONDITION", "COMMIT", "STORAGE", "CANDIDATE_BUSY",
            "CANDIDATE_INCOMPLETE", "CANCELED"}]
Candidates ==
    [st : {"NONE", "BUILDING", "PARTIAL", "COMPLETE", "COMMITTING", "ACTIVATED", "FAILED"},
     records : SUBSET [key : Keys, earned : BOOLEAN]]

NoWizard == [st |-> "IDLE", std |-> "OPEN", range |-> 0, cond |-> 1, cache |-> {}, solved |-> 0,
             err |-> "NONE"]
Init ==
    /\ att = Untouched /\ wiz = NoWizard /\ lease = "FREE" /\ ses = NoSession /\ wf = NoWorkflow
    /\ cand = [st |-> "NONE", records |-> {}]
    /\ ext = [allowed |-> TRUE, fault |-> FALSE, down |-> FALSE, again |-> FALSE]

Here == [wiz |-> wiz, ses |-> ses, wf |-> wf, cand |-> cand, att |-> att, lease |-> lease]
In(x, st) == [x EXCEPT !.wiz.st = st]
Failure(x, err) == [In(x, "FAILED") EXCEPT !.wiz.err = err]
Key(x) == <<x.wiz.range, x.wiz.cond>>
KeyValid(x) == Key(x) \in Keys
-----------------------------------------------------------------------------
(* The candidate, as the wizard calls it. *)
Dirty(x) == x.cand.st \in {"BUILDING", "PARTIAL", "COMPLETE", "COMMITTING"}
Insert(x, record) ==
    LET records == x.cand.records \cup {record}
    IN  [x EXCEPT !.cand = [records |-> records,
             st |-> IF {r.key : r \in records} = Keys THEN "COMPLETE" ELSE "PARTIAL"]]
(* A write that failed keeps the workspace until it is acknowledged. *)
StoreReleased(x) == IF x.lease = "STORE" THEN "FREE" ELSE x.lease
Discard(x) ==
    IF WorkflowActive(x) \/ x.cand.st = "COMMITTING" THEN [In(x, "CANCELING") EXCEPT !.wiz.err = "STORAGE"]
    ELSE [In(x, "CANCELED") EXCEPT !.wiz.err = "CANCELED",
                                   !.cand = [st |-> "NONE", records |-> {}],
                                   !.lease = StoreReleased(x)]
(* The store takes it, or turns it down.  A failed commit can be repeated. *)
Commit(x) ==
    IF StoreReleased(x) # "FREE" THEN {In(x, "COMMITTING")}
    ELSE {[In(x, "COMMITTING") EXCEPT !.cand.st = "COMMITTING", !.lease = "STORE"],
          [Failure(x, "COMMIT") EXCEPT !.cand.st = "FAILED", !.lease = "FREE"]}
-----------------------------------------------------------------------------
(* app_calibration_wizard_start, ..._confirm and ..._cancel.  The page     *)
(* initialises the wizard before it starts it.                             *)
Start(x) ==
    IF Dirty(x) THEN Failure(x, "CANDIDATE_BUSY")
    ELSE [x EXCEPT !.wiz = [NoWizard EXCEPT !.st = "INTRO"], !.ses = NoSession,
                   !.cand = [st |-> "BUILDING", records |-> {}]]
BeginRange(x, range) ==
    [x EXCEPT !.wiz = [@ EXCEPT !.st = "WAIT_FIXTURE", !.std = "OPEN", !.range = range, !.cond = 1,
                                !.cache = {}]]
Confirm(x) ==
    CASE x.wiz.st = "INTRO" -> {BeginRange(x, 1)}
      [] x.wiz.st = "WAIT_FIXTURE" -> {In(x, "CAPTURE")}
      [] x.wiz.st = "CONFIRM_SAVE" \/ (x.wiz.st = "FAILED" /\ x.wiz.err = "COMMIT") -> Commit(x)
      [] x.wiz.st = "FAILED" /\ x.wiz.err \in {"PHASE05", "SOLVER"} /\ KeyValid(x) ->
            {In(x, "CAPTURE")}
      [] x.wiz.st = "FAILED" /\ x.wiz.err \in {"STORAGE", "CANCELED"} -> {Discard(x)}
      [] OTHER -> {x}
Cancel(x) ==
    CASE x.wiz.st = "COMMITTING" -> x
      [] x.wiz.st # "COMMITTING" /\ SessionActive(x) -> In(SessionCancel(x), "CANCELING")
      [] OTHER -> Discard(x)

(* app_calibration_wizard_step *)
StartCondition(x) ==
    IF ~ext.allowed THEN In(x, "SAFETY_BLOCKED")
    ELSE IF WorkflowActive(x) \/ x.cand.st = "COMMITTING" THEN Failure(x, "PHASE05")
    ELSE [WorkflowStart(x) EXCEPT !.ses = [NoSession EXCEPT !.st = "START_CAPTURE", !.event = "BEGIN"],
                                  !.wiz.st = "CAPTURE"]
NextCondition(x) ==
    CASE x.wiz.cond < Conditions(x.wiz.range) -> [x EXCEPT !.wiz.cond = @ + 1]
      [] x.wiz.cond >= Conditions(x.wiz.range) /\ x.wiz.std = "LOAD" ->
            [In(x, "RANGE_COMPLETE") EXCEPT !.wiz.cond = 1]
      [] OTHER -> [In(x, "WAIT_FIXTURE") EXCEPT !.wiz.cond = 1,
                       !.wiz.std = IF @ = "OPEN" THEN "SHORT" ELSE "LOAD"]
Earned(x) == x.wf.taken >= Required
(* A standard of the condition is kept, or solved with the two kept ones;  *)
(* the solver, and the evidence it needs, may refuse.                      *)
Solved(x) ==
    LET kept == {k \in x.wiz.cache : k.key = Key(x)}
        y == Insert(x, [key |-> Key(x), earned |-> Earned(x) /\ \A k \in kept : k.earned])
    IN  IF {k.std : k \in kept} # {"OPEN", "SHORT"} THEN {Failure(x, "SOLVER")}
        ELSE {Failure(x, "SOLVER"), NextCondition([y EXCEPT !.wiz.solved = @ + 1])}
Completed(x) ==
    {Failure(x, "CONDITION")} \cup
    IF x.wiz.std = "LOAD" THEN Solved(x)
    ELSE {NextCondition([x EXCEPT !.wiz.cache = @ \cup
             {[std |-> x.wiz.std, key |-> Key(x), earned |-> Earned(x)]}])}
Capturing(x) ==
    IF ~SessionActive(x) THEN {StartCondition(x)}
    ELSE UNION {CASE r.event = "FAILED" -> {Failure(r.x, "PHASE05")}
                  [] r.event = "COMPLETE" -> Completed(r.x)
                  [] OTHER -> {r.x} : r \in SessionStep(x)}
RangeComplete(x) ==
    CASE x.wiz.range + 1 \in Ranges -> BeginRange(x, x.wiz.range + 1)
      [] x.wiz.range + 1 \notin Ranges /\ x.cand.st = "COMPLETE"
         /\ x.wiz.solved = FirstCount + (RangeCount - 1) * OtherCount ->
            In(x, "CONFIRM_SAVE")
      [] OTHER -> Failure(x, "CANDIDATE_INCOMPLETE")
Step(x) ==
    CASE x.wiz.st = "SAFETY_BLOCKED" -> IF ext.allowed THEN Capturing(In(x, "CAPTURE")) ELSE {x}
      [] x.wiz.st = "RANGE_COMPLETE" -> {RangeComplete(x)}
      [] x.wiz.st = "COMMITTING" -> {CASE x.cand.st = "ACTIVATED" -> In(x, "COMPLETE")
                                       [] x.cand.st = "FAILED" -> Failure(x, "COMMIT")
                                       [] OTHER -> x}
      [] x.wiz.st = "CANCELING" ->
            {IF r.event = "CANCELED" \/ ~SessionActive(r.x) THEN Discard(r.x) ELSE r.x :
             r \in SessionStep(x)}
      [] x.wiz.st = "CAPTURE" -> Capturing(x)
      [] OTHER -> {x}
-----------------------------------------------------------------------------
Becomes(x) ==
    /\ wiz' = x.wiz /\ ses' = x.ses /\ wf' = x.wf /\ cand' = x.cand /\ att' = x.att
    /\ lease' = x.lease
(* A pass of the product on the wizard's page, or while the fault's        *)
(* teardown drains it (app_product_step).                                  *)
Requests == {"NONE", "MENU", "CLICK"}
Requested(x, request) ==
    CASE request = "MENU" -> {Cancel(x)} [] request = "CLICK" -> Confirm(x) [] OTHER -> {x}
Pass ==
    /\ Active(wiz) \/ (wiz.st = "FAILED" /\ ~ext.fault)
    /\ \E request \in Requests :
         /\ ext.fault => request = "NONE"
         /\ LET cancel == IF ext.fault THEN ~ext.down ELSE request = "MENU"
            IN  /\ \E y \in IF ext.fault /\ cancel THEN {Cancel(Here)} ELSE Requested(Here, request) :
                      \E z \in Step(y) : Becomes(z)
                /\ ext' = [ext EXCEPT !.down = ext.fault,
                               !.again = @ \/ (cancel /\ ses.st = "CANCELING")]
Begin ==
    /\ wiz.st \in {"IDLE", "COMPLETE", "CANCELED"} /\ ~ext.fault
    /\ Becomes(Start(Here)) /\ UNCHANGED ext
(* app_calibration_service_step: the commit ends, verified or not. *)
StoreEnds ==
    /\ cand.st = "COMMITTING"
    /\ \E ok \in BOOLEAN :
          /\ cand' = [cand EXCEPT !.st = IF ok THEN "ACTIVATED" ELSE "FAILED"]
          /\ lease' = IF ok THEN "FREE" ELSE lease
    /\ UNCHANGED <<att, wiz, ses, wf, ext>>
Safety == ext' = [ext EXCEPT !.allowed = ~@] /\ UNCHANGED <<att, wiz, ses, wf, cand, lease>>
Fault ==
    /\ ~ext.fault /\ ext' = [ext EXCEPT !.fault = TRUE]
    /\ UNCHANGED <<att, wiz, ses, wf, cand, lease>>

Next == Pass \/ Begin \/ StoreEnds \/ Safety \/ Fault
Spec == Init /\ [][Next]_vars
(* The main loop makes passes and steps the store for ever. *)
FairSpec == Spec /\ WF_vars(Pass) /\ WF_vars(StoreEnds)
-----------------------------------------------------------------------------
TypeOK ==
    /\ att \in Attempts /\ wiz \in Wizards /\ ses \in Sessions /\ wf \in Workflows
    /\ cand \in Candidates /\ lease \in {"FREE", "METROLOGY", "STORE"}
    /\ ext \in [allowed : BOOLEAN, fault : BOOLEAN, down : BOOLEAN, again : BOOLEAN]

(* A calibration that is committed has a record for every condition, each  *)
(* solved from an open, a short and a load that all the required captures  *)
(* were taken for, however often the way there failed and was repeated     *)
(* (solve_load_condition, validate_complete_candidate).                    *)
SavedIsEarned ==
    wiz.st \in {"COMMITTING", "COMPLETE"} =>
        /\ {r.key : r \in cand.records} = Keys
        /\ \A r \in cand.records : r.earned

(* A wizard that is over has nothing running in the hardware, holds no     *)
(* workspace, and when it was canceled no candidate, unless a cancel was   *)
(* asked for again while it was being carried out: see CancelDrains        *)
(* (app_calibration_session_step, discard_candidate_for_cancel).           *)
OverIsOver ==
    /\ (~Active(wiz) /\ ~ext.again) => ~AttemptActive(att) /\ lease # "METROLOGY" /\ ~att.lost
    /\ wiz.st = "CANCELED" => cand = [st |-> "NONE", records |-> {}] /\ lease # "STORE"

(* The captures of a condition come to an end, a cancel too, and a commit  *)
(* (evaluate_completion, app_calibration_wizard_step).                     *)
Unsettled == SessionActive(Here) \/ wiz.st \in {"CANCELING", "COMMITTING"}
CaptureEnds == Unsettled ~> ~Unsettled

(* Wherever a cancel comes from, the capture is stepped until its cleanup  *)
(* is acknowledged (app_calibration_wizard_cancel).                        *)
CancelDrains == wiz.st = "CANCELED" => ~AttemptActive(att) /\ lease = "FREE"
=============================================================================
