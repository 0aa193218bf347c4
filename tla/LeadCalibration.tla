-------------------------- MODULE LeadCalibration --------------------------
(***************************************************************************)
(* The calibration of the test leads (app_lead_calibration.c) and the two  *)
(* pages that drive it (step_lead_ui of app_product.c): at each frequency  *)
(* a group of repeated captures with the leads open, then with the leads   *)
(* shorted, a review, and a save to the lead profile store (LeadStore).    *)
(* While one of these pages is shown nothing else of the product runs.     *)
(***************************************************************************)
EXTENDS Integers, Attempt

CONSTANTS
    Frequencies,    \* the number of frequencies (3)
    Ladder,         \* the ranges an open group may use, the highest first tried (3: 1M .. 10K)
    Samples,        \* repeats in a group, MEASUREMENT_TRIMMED_SAMPLES (7)
    MaxCaptures     \* captures in a group (9)
LeadAssumption ==
    /\ {Frequencies, Ladder, Samples, MaxCaptures} \subseteq Nat \ {0} /\ Samples <= MaxCaptures

VARIABLES
    lead,       \* app_lead_calibration_t
    lease,      \* g_io_workspace
    page,       \* the page shown
    blocked,    \* a latched safety or display fault
    taken       \* history: the groups whose repeats agreed since the start
vars == <<att, lead, lease, page, blocked, taken>>

Capturing == {"START", "WAIT", "DRAIN"}
BusyStates == Capturing \cup {"WAIT_OPEN", "WAIT_SHORT", "REVIEW", "CONFIRM_CLEAR", "SAVING",
                              "CANCELING"}
LeadStates == BusyStates \cup {"IDLE", "COMPLETE", "FAILED", "CANCELED"}
Leads ==
    [st : LeadStates, short : BOOLEAN, freq : 0 .. Frequencies, range : 1 .. Ladder,
     attempts : 0 .. MaxCaptures, samples : 0 .. Samples, retry : BOOLEAN, failed : BOOLEAN]
NoLead == [st |-> "IDLE", short |-> FALSE, freq |-> 0, range |-> Ladder, attempts |-> 0,
           samples |-> 0, retry |-> FALSE, failed |-> FALSE]

Init ==
    /\ att = Untouched /\ lead = NoLead /\ lease = "FREE" /\ page = "LEAD_MENU"
    /\ blocked = FALSE /\ taken = {}

(* The calls of a pass are made one after the other on what the pass works *)
(* on; one whose outcome depends on the hardware gives several.            *)
Here == [lead |-> lead, att |-> att, lease |-> lease, taken |-> taken]
In(x, st) == [x EXCEPT !.lead.st = st]
Busy(x) == x.lead.st \in BusyStates
-----------------------------------------------------------------------------
(* The calls of the pages: app_lead_begin, app_lead_set_enabled,           *)
(* app_lead_confirm and app_lead_cancel.                                   *)
Begin(x) ==
    IF Busy(x) \/ AttemptActive(x.att) THEN x
    ELSE [x EXCEPT !.lead = [NoLead EXCEPT !.st = "WAIT_OPEN"], !.taken = {}]
(* The profile in use is switched, or asked to be cleared. *)
SetEnabled(x) == IF Busy(x) THEN {x} ELSE {In(x, "SAVING"), In(x, "FAILED"), x}
Clear(x) == IF Busy(x) THEN {x} ELSE {In(x, "CONFIRM_CLEAR"), x}

BeginGroup(x) ==
    [x EXCEPT !.lead = [@ EXCEPT !.st = "START", !.attempts = 0, !.samples = 0, !.retry = FALSE]]
Confirm(x) ==
    CASE x.lead.st \in {"WAIT_OPEN", "WAIT_SHORT"} -> {BeginGroup(x)}
      [] x.lead.st \in {"REVIEW", "CONFIRM_CLEAR"} -> {In(x, "SAVING"), In(x, "FAILED")}
      [] OTHER -> {x}

Interrupted(x, st) ==
    IF AttemptActive(x.att) THEN [In(x, "CANCELING") EXCEPT !.att = AbortedAttempt(@)]
    ELSE In(x, st)
(* Seeded fault: the capture is left to itself. *)
CancelForgets(x) == IF ~Busy(x) \/ x.lead.st = "SAVING" THEN x ELSE In(x, "CANCELED")
(* Cleanup under way is interrupted like anything else: it begins again.   *)
Cancel(x) == IF ~Busy(x) \/ x.lead.st = "SAVING" THEN x ELSE Interrupted(x, "CANCELED")
StopError(x) == Interrupted([x EXCEPT !.lead.failed = TRUE], "FAILED")
-----------------------------------------------------------------------------
(* app_lead_step: one operator per state. *)
Acknowledge(x) ==
    [x EXCEPT !.att = Acknowledged(@), !.lease = LeaseAcknowledged(x.att, @)]
MoreRanges(x) == ~x.lead.short /\ x.lead.range > 1

Saving(x, allowed) ==
    IF allowed THEN {x, In(x, "COMPLETE"), In(x, "FAILED")} ELSE {x}

Canceling(x) ==
    {LET y == [x EXCEPT !.att = b]
     IN  IF AttemptActive(b) THEN y
         ELSE In(Acknowledge(y), IF x.lead.failed THEN "FAILED" ELSE "CANCELED") :
     b \in Steps(x.att)}

(* Seeded fault: a group has no end of captures. *)
StartOn(x) ==
    {LET y == [x EXCEPT !.att = call.att, !.lease = call.lease]
     IN  IF call.ok THEN In(y, "WAIT") ELSE StopError(y) : call \in StartCalls(x.att, x.lease, TRUE)}
Start(x) ==
    IF x.lead.attempts >= MaxCaptures
    THEN {IF MoreRanges(x) THEN [In(x, "DRAIN") EXCEPT !.lead.retry = TRUE] ELSE StopError(x)}
    ELSE {LET y == [x EXCEPT !.att = call.att, !.lease = call.lease]
          IN  IF call.ok THEN [In(y, "WAIT") EXCEPT !.lead.attempts = @ + 1] ELSE StopError(y) :
          call \in StartCalls(x.att, x.lease, TRUE)}

(* A block is usable or not; a full group agrees with itself or not, and   *)
(* the shorted one gives a plausible pair of coefficients or not.          *)
Sampled(x, usable, agrees) ==
    LET y == IF usable THEN [x EXCEPT !.lead.samples = @ + 1] ELSE x
    IN  CASE y.lead.samples < Samples -> In(y, "START")
          [] y.lead.samples >= Samples /\ agrees ->
                [In(y, "DRAIN") EXCEPT !.taken = @ \cup {<<y.lead.short, y.lead.freq>>}]
          [] OTHER -> IF MoreRanges(y) THEN [In(y, "DRAIN") EXCEPT !.lead.retry = TRUE]
                      ELSE StopError(y)
Wait(x) ==
    UNION {LET y == [x EXCEPT !.att = b]
           IN  CASE Ready(b) ->
                      {Sampled(Acknowledge(y), usable, agrees) : usable, agrees \in BOOLEAN}
                 [] ~Ready(b) /\ StepFails(x.att, b) -> {StopError(y)}
                 [] OTHER -> {y} :
           b \in Steps(x.att)}

NextGroup(x) ==
    LET y == [x EXCEPT !.lead.freq = @ + 1]
    IN  CASE x.lead.retry -> {BeginGroup([x EXCEPT !.lead.range = @ - 1])}
          [] ~x.lead.retry /\ y.lead.freq < Frequencies ->
                {BeginGroup(IF x.lead.short THEN y ELSE [y EXCEPT !.lead.range = Ladder])}
          [] ~x.lead.retry /\ y.lead.freq >= Frequencies /\ ~x.lead.short ->
                {[In(y, "WAIT_SHORT") EXCEPT !.lead.short = TRUE, !.lead.freq = 0]}
          [] OTHER -> {In(y, "REVIEW"), In(y, "FAILED")}
(* Seeded fault: a group that has to be taken again counts as taken. *)
DrainOn(x) ==
    UNION {LET y == [x EXCEPT !.att = b]
           IN  CASE AttemptActive(b) -> {y}
                 [] ~AttemptActive(b) /\ b.failed -> {StopError(y)}
                 [] OTHER -> NextGroup([Acknowledge(y) EXCEPT !.lead.retry = FALSE]) :
           b \in Steps(Released(x.att))}
Drain(x) ==
    UNION {LET y == [x EXCEPT !.att = b]
           IN  CASE AttemptActive(b) -> {y}
                 [] ~AttemptActive(b) /\ b.failed -> {StopError(y)}
                 [] OTHER -> NextGroup(Acknowledge(y)) :
           b \in Steps(Released(x.att))}

(* late: the group's 25 s are over; unbound: the factory calibration is no *)
(* longer the one the candidate is for.                                    *)
LeadStep(x, late, unbound, allowed) ==
    CASE ~Busy(x) -> {x}
      [] x.lead.st = "SAVING" -> Saving(x, allowed)
      [] x.lead.st = "CANCELING" -> Canceling(x)
      [] x.lead.st \notin {"SAVING", "CANCELING"} /\ Busy(x) /\ unbound -> {StopError(x)}
      [] x.lead.st \in Capturing /\ ~unbound /\ late -> {StopError(x)}
      [] x.lead.st = "START" /\ ~unbound /\ ~late -> Start(x)
      [] x.lead.st = "WAIT" /\ ~unbound /\ ~late -> Wait(x)
      [] x.lead.st = "DRAIN" /\ ~unbound /\ ~late -> Drain(x)
      [] OTHER -> {x}
-----------------------------------------------------------------------------
(* step_lead_ui.  A request is looked at only on a page that is not        *)
(* blocked; item: what the menu's cursor is on.                            *)
Items == {"CALIBRATE", "ENABLE", "CLEAR", "LEAVE"}
Requested(x, in) ==
    CASE ~blocked /\ page = "LEAD_MENU" /\ in.request = "CLICK" /\ in.free ->
            CASE in.item = "CALIBRATE" -> {IF in.charger THEN x ELSE Begin(x)}
              [] in.item = "ENABLE" -> SetEnabled(x)
              [] in.item = "CLEAR" -> Clear(x)
              [] OTHER -> {x}
      [] ~blocked /\ page = "LEAD_WIZARD" /\ in.request = "MENU" -> {Cancel(x)}
      [] ~blocked /\ page = "LEAD_WIZARD" /\ in.request = "CLICK"
         /\ (IF x.lead.st \in {"WAIT_OPEN", "WAIT_SHORT"} THEN ~in.charger ELSE in.allowed) ->
            Confirm(x)
      [] OTHER -> {x}
PageAfter(x, y, in) ==
    CASE ~blocked /\ page = "LEAD_MENU" /\ (in.request = "MENU" \/
            (in.request = "CLICK" /\ in.item = "LEAVE")) -> "ELSEWHERE"
      [] ~blocked /\ page = "LEAD_MENU" /\ y # x /\ Busy(y) -> "LEAD_WIZARD"
      [] ~blocked /\ page = "LEAD_WIZARD" /\ in.request # "NONE" /\ ~Busy(x) -> "LEAD_MENU"
      [] OTHER -> page
Unplugged(x, in) == IF in.charger /\ x.lead.st \in Capturing THEN Cancel(x) ELSE x
Inputs ==
    {in \in [request : {"NONE", "MENU", "CLICK"}, item : Items, free : BOOLEAN,
             charger : BOOLEAN, allowed : BOOLEAN, late : BOOLEAN, unbound : BOOLEAN] :
        in.free => in.allowed}

Pass ==
    /\ page \in {"LEAD_MENU", "LEAD_WIZARD"}
    /\ \E in \in Inputs :
         LET x == IF blocked THEN Cancel(Here) ELSE Here
         IN  \E y \in Requested(x, in) :
             \E z \in LeadStep(Unplugged(y, in), in.late, in.unbound, in.allowed) :
                /\ lead' = z.lead /\ att' = z.att /\ lease' = z.lease /\ taken' = z.taken
                /\ page' = IF blocked /\ ~Busy(z) THEN "ELSEWHERE" ELSE PageAfter(x, y, in)
    /\ UNCHANGED blocked

Return ==
    /\ page = "ELSEWHERE" /\ ~blocked /\ page' = "LEAD_MENU"
    /\ UNCHANGED <<att, lead, lease, blocked, taken>>
Fault == ~blocked /\ blocked' = TRUE /\ UNCHANGED <<att, lead, lease, page, taken>>
(* The other users of the workspace; calibration captures for the PC run   *)
(* beside these pages.                                                     *)
OthersBorrow ==
    /\ lease' = CASE lease = "FREE" -> "OTHER" [] lease = "OTHER" -> "FREE" [] OTHER -> lease
    /\ UNCHANGED <<att, lead, page, blocked, taken>>

Next == Pass \/ Return \/ Fault \/ OthersBorrow
Spec == Init /\ [][Next]_vars
(* The main loop makes passes for ever. *)
FairSpec == Spec /\ WF_vars(Pass)
-----------------------------------------------------------------------------
TypeOK ==
    /\ att \in Attempts /\ lead \in Leads /\ lease \in {"FREE", "METROLOGY", "OTHER"}
    /\ page \in {"LEAD_MENU", "LEAD_WIZARD", "ELSEWHERE"} /\ blocked \in BOOLEAN
    /\ taken \subseteq BOOLEAN \X (0 .. Frequencies - 1)

(* A calibration is under way only on its own page, the only one that      *)
(* steps it, and when it is over, however it was interrupted, no           *)
(* transaction goes on or was forgotten (step_lead_ui, app_lead_cancel,    *)
(* stop_error).                                                            *)
NothingLeftRunning ==
    /\ lead.st \in BusyStates => page = "LEAD_WIZARD"
    /\ lead.st \notin BusyStates => ~AttemptActive(att)
    /\ ~att.lost

(* A profile offered for review rests on a full group of repeats that      *)
(* agreed at every frequency, with the leads open and with them shorted,   *)
(* whatever ranges had to be tried (app_lead_step, complete_group).        *)
ReviewIsEarned == lead.st = "REVIEW" => taken = BOOLEAN \X (0 .. Frequencies - 1)

(* Captures come to an end: the calibration waits for its user, is over,   *)
(* or cleans up (app_lead_step).                                           *)
GroupsEnd == lead.st \in Capturing ~> lead.st \notin Capturing

(* A canceled calibration ends, also while a fault is shown                *)
(* (app_lead_cancel, app_lead_step).                                       *)
CancelEnds == (lead.st = "CANCELING" /\ blocked) ~> lead.st # "CANCELING"

(* A calibration that is over has given back the workspace                 *)
(* (app_lead_step, product_auto_attempt_acknowledge).                      *)
WorkspaceReturned == lead.st \notin BusyStates => lease # "METROLOGY"
=============================================================================
