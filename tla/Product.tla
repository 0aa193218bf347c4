------------------------------ MODULE Product ------------------------------
(***************************************************************************)
(* The product application (app_product.c): one pass of app_product_step   *)
(* decides which page is shown, which of the two runtimes that share one   *)
(* memory (the measurement session, the calibration wizard) runs, when it  *)
(* is taken down, and when settings are saved.  Beside it, between passes: *)
(* the PC link (uploads of resources, installations of a calibration), the *)
(* safety evaluation and the display (app_shell.c).                        *)
(*                                                                         *)
(* The runtimes are seen as their modules leave them: a session runs or    *)
(* ends (MeasurementSession), a wizard prompts, captures, commits or is    *)
(* being canceled (CalWizard), the lead calibration is busy or not         *)
(* (LeadCalibration).                                                      *)
(***************************************************************************)
EXTENDS Integers

VARIABLES
    p,          \* app_product_t, with the state of what it owns
    env         \* what app_shell.c hands in: app_product_inputs_t
vars == <<p, env>>

(* TURN: the up or the down button; ITEM pages differ only in what a click *)
(* on them does.                                                           *)
Requests == {"NONE", "CLICK", "MENU", "TURN"}
LeadPages == {"LEAD_MENU", "LEAD_WIZARD"}
Pages == LeadPages \cup {"STARTUP", "SELF_TEST", "CAL_CHECK", "CAL_REQUIRED", "READY", "MEASURING",
    "RESULT", "BLOCKED", "FAULT", "MENU", "SETTINGS", "EDIT", "MAINTENANCE", "INFO", "CAL_STATUS",
    "PC_LINK", "WIZARD"}
WizardBusy == {"PROMPT", "CAPTURE", "COMMITTING", "CANCELING"}
Products ==
    [page : Pages, kind : {"MEASUREMENT", "CALIBRATION"},
     session : {"IDLE", "RUN", "ENDING"}, bound : 0 .. 2,
     wizard : WizardBusy \cup {"IDLE", "COMPLETE", "CANCELED", "FAILED"},
     lead : {"IDLE", "BUSY", "SAVING"},
     down : {"NONE", "MEASUREMENT", "CALIBRATION"}, target : Pages,
     measure : BOOLEAN, calibrate : BOOLEAN,
     asked : BOOLEAN, edit : {"NONE", "UNSAVED", "NEWER"}, saving : BOOLEAN,
     shown : {"NONE", "PARTIAL", "FINAL"}, shownCal : 0 .. 2, cal : 0 .. 2, upload : BOOLEAN]
(* cal: the active calibration, 0 none.  writer: who else writes the chip. *)
(* schedule: app_product_schedule_allowed and, else, whether the charger   *)
(* is all that forbids it.                                                 *)
Environments ==
    [fault : BOOLEAN, resource : BOOLEAN, cal : 0 .. 2,
     schedule : {"ALLOWED", "CHARGING", "BLOCKED"}, writer : {"NONE", "UPLOAD", "INSTALL"}]

Init ==
    /\ p = [page |-> "STARTUP", kind |-> "MEASUREMENT", session |-> "IDLE", bound |-> 0,
            wizard |-> "IDLE", lead |-> "IDLE", down |-> "NONE", target |-> "STARTUP",
            measure |-> FALSE, calibrate |-> FALSE, asked |-> FALSE,
            edit |-> "NONE", saving |-> FALSE, shown |-> "NONE", shownCal |-> 0, cal |-> 0,
            upload |-> FALSE]
    /\ env \in {e \in Environments : e.writer = "NONE" /\ ~e.fault /\ e.cal # 2}

SessionActive(x) == x.session # "IDLE"
WizardActive(x) == x.wizard \in WizardBusy
RuntimeActive(x) == IF x.kind = "MEASUREMENT" THEN SessionActive(x) ELSE WizardActive(x)
Capturing(x) == SessionActive(x) \/ x.wizard \in {"CAPTURE", "CANCELING"} \/ x.lead = "BUSY"

(* app_flash_access_allowed, for the settings and the leads: the chip is   *)
(* left alone while a capture is quiet and while anyone else writes.       *)
Writers(x) ==
    {w \in {"UPLOAD", "INSTALL", "WIZARD", "LEAD", "SETTINGS"} :
        CASE w = "WIZARD" -> x.wizard = "COMMITTING" [] w = "LEAD" -> x.lead = "SAVING"
          [] w = "SETTINGS" -> x.saving [] OTHER -> env.writer = w}
StorageBusy(x, mine, in) == (in.quiet /\ Capturing(x)) \/ Writers(x) \ {mine} # {}
-----------------------------------------------------------------------------
At(x, page) == [x EXCEPT !.page = page]
Cleared(x) == [x EXCEPT !.measure = FALSE, !.calibrate = FALSE]
Invalidated(x) == [x EXCEPT !.shown = "NONE", !.shownCal = 0]
ResultOrReady(x) == At(x, IF x.shown = "FINAL" THEN "RESULT" ELSE "READY")

(* What a step or a cancel of the runtimes leaves.  A block of an old      *)
(* session or calibration is not shown (update_measurement_result).        *)
Published(x, kind) ==
    IF x.bound # x.cal THEN (IF kind = "PARTIAL" THEN Invalidated(x) ELSE
                             [x EXCEPT !.shown = "FINAL", !.shownCal = x.cal])
    ELSE [x EXCEPT !.shown = kind, !.shownCal = x.bound]
Over(x) == [x EXCEPT !.session = "IDLE", !.bound = 0]
SessionStep(x, in) ==
    IF x.session = "ENDING"
    THEN {Over(x)} \cup (IF in.progress THEN {} ELSE {x})
    ELSE {Over(Published(x, "FINAL")),
          [Invalidated(Over(x)) EXCEPT !.shown = "FINAL", !.shownCal = x.cal]}
         \cup (IF in.progress THEN {} ELSE {x, Published(x, "PARTIAL")})
SessionCancel(x) ==
    IF SessionActive(x) THEN {[x EXCEPT !.session = "ENDING"], Over(x)}
    ELSE {x}

WizardAt(x, states) == {[x EXCEPT !.wizard = w] : w \in states}
WizardStep(x, in) ==
    WizardAt(x, (IF in.progress THEN {} ELSE {x.wizard}) \cup
        CASE x.wizard = "CAPTURE" -> {"PROMPT", "FAILED"}
          [] x.wizard = "COMMITTING" -> {"COMPLETE", "FAILED"}
          [] x.wizard = "CANCELING" -> {"CANCELED", "FAILED"}
          [] OTHER -> {x.wizard})
(* A wizard commits after 99 captures: a save that had begun before it is  *)
(* over by then (SettingsStore!SaveEnds).                                  *)
WizardConfirm(x) ==
    CASE x.wizard = "PROMPT" -> WizardAt(x, {"PROMPT", "CAPTURE", "FAILED"}) \cup
            (IF x.saving \/ x.asked THEN {} ELSE WizardAt(x, {"COMMITTING"}))
      [] x.wizard = "FAILED" -> WizardAt(x, {"CAPTURE", "CANCELED", "FAILED"}) \cup
            (IF x.saving \/ x.asked THEN {} ELSE WizardAt(x, {"COMMITTING"}))
      [] OTHER -> {x}
WizardCancel(x) ==
    CASE x.wizard = "COMMITTING" -> {x}
      [] x.wizard \in {"CAPTURE", "CANCELING"} -> WizardAt(x, {"CANCELING"})
      [] OTHER -> WizardAt(x, {"CANCELED", "CANCELING", "FAILED"})

(* activate_measurement_runtime, activate_wizard_runtime: a runtime that   *)
(* is active keeps the memory.                                             *)
Measurement(x) ==
    IF x.kind = "CALIBRATION" /\ ~WizardActive(x)
    THEN [x EXCEPT !.kind = "MEASUREMENT", !.wizard = "IDLE"] ELSE x
Calibration(x) ==
    IF x.kind = "MEASUREMENT" /\ ~SessionActive(x)
    THEN [x EXCEPT !.kind = "CALIBRATION"] ELSE x
-----------------------------------------------------------------------------
(* Seeded fault: the runtime is asked to stop and nobody waits for it. *)
BeginAlone(x, target) == IF x.kind = "MEASUREMENT" THEN SessionCancel(x) ELSE WizardCancel(x)
(* begin_runtime_teardown and drain_runtime_teardown: the first target     *)
(* stands, and the page changes to it when the runtime has ended.          *)
Begin(x, target) ==
    IF x.down # "NONE" THEN {x}
    ELSE LET y == [x EXCEPT !.target = target, !.down = x.kind]
         IN  IF x.kind = "MEASUREMENT" THEN SessionCancel(y) ELSE WizardCancel(y)
Draining(x) ==
    \/ x.down = "MEASUREMENT" /\ SessionActive(x)
    \/ x.down = "CALIBRATION" /\ WizardActive(x)
Drained(x) ==
    IF x.down = "NONE" THEN x ELSE Measurement(At([x EXCEPT !.down = "NONE", !.target = "STARTUP"], x.target))
(* Seeded fault: the step of a teardown is left to the page. *)
DrainUnstepped(x, in) == IF Draining(x) THEN {x} ELSE {Drained(x)}
Drain(x, in) ==
    IF ~Draining(x) THEN {Drained(x)}
    ELSE IF x.down = "MEASUREMENT"
         THEN {IF SessionActive(y) THEN [x EXCEPT !.session = y.session] ELSE Over(x) : y \in SessionStep(x, in)}
         ELSE WizardStep(x, in)
TakenDown(x, target, in) == UNION {Drain(y, in) : y \in Begin(x, target)}

(* Seeded fault: the chip is taken while another writes. *)
ServiceAnyway(x, in) ==
    IF ~x.saving /\ x.asked /\ x.edit # "NONE" THEN {[x EXCEPT !.saving = TRUE]} ELSE {x}
(* service_pending_settings_save: a save under way is stepped, one asked   *)
(* for is started.  What is edited during a save is saved by another.      *)
Edited(x) == [x EXCEPT !.edit = IF x.saving THEN "NEWER" ELSE "UNSAVED"]
Asked(x) == [Edited(x) EXCEPT !.asked = TRUE]
Service(x, in) ==
    CASE x.saving /\ StorageBusy(x, "SETTINGS", in) -> {x}
      [] x.saving /\ ~StorageBusy(x, "SETTINGS", in) ->
            {[x EXCEPT !.saving = FALSE, !.edit = IF @ = "NEWER" THEN "UNSAVED" ELSE "NONE"],
             [x EXCEPT !.saving = FALSE, !.edit = "UNSAVED", !.asked = FALSE]}
            \cup (IF in.progress THEN {} ELSE {x})
      [] ~x.saving /\ x.asked /\ x.edit # "NONE" /\ ~StorageBusy(x, "SETTINGS", in) ->
            {[x EXCEPT !.saving = TRUE], [x EXCEPT !.asked = FALSE]}
      [] OTHER -> {[x EXCEPT !.asked = @ /\ x.edit # "NONE"]}
-----------------------------------------------------------------------------
(* The two pages of the leads (step_lead_ui); LeadCalibration has them in  *)
(* detail.                                                                 *)
LeadBlocked == env.fault \/ env.cal = 0 \/ ~env.resource
LeadMenu(x, in) ==
    CASE LeadBlocked -> {x}
      [] ~LeadBlocked /\ in.request = "MENU" -> {At(x, "MENU")}
      [] ~LeadBlocked /\ in.request = "CLICK" ->
            {At(x, "CAL_STATUS"), At(x, "MENU")} \cup
            (IF x.asked \/ x.saving \/ StorageBusy(x, "LEAD", in) THEN {x}
             ELSE {[Invalidated(At(x, "LEAD_WIZARD")) EXCEPT !.lead = l] : l \in {"BUSY", "SAVING"}})
      [] OTHER -> {x}
LeadWizard(x, in) ==
    CASE ~LeadBlocked /\ x.lead = "IDLE" /\ in.request \in {"MENU", "CLICK"} -> {At(x, "LEAD_MENU")}
      [] x.lead = "BUSY" -> {x, [x EXCEPT !.lead = "IDLE"]} \cup
            (IF LeadBlocked \/ in.request # "CLICK" \/ StorageBusy(x, "LEAD", in) THEN {}
             ELSE {[x EXCEPT !.lead = "SAVING"]})
      [] x.lead = "SAVING" -> {x, [x EXCEPT !.lead = "IDLE"]}
      [] OTHER -> {x}
LeadPass(x, in) ==
    LET serviced == IF x.page = "LEAD_MENU" /\ (~env.fault \/ x.saving) THEN Service(x, in) ELSE {x}
        Left(y) == IF LeadBlocked /\ y.lead = "IDLE"
                   THEN At(y, IF env.fault THEN "FAULT" ELSE "CAL_REQUIRED") ELSE y
    IN  {Cleared(Left(y)) : y \in
            UNION {IF s.page = "LEAD_MENU" THEN LeadMenu(s, in) ELSE LeadWizard(s, in) : s \in serviced}}
-----------------------------------------------------------------------------
(* The rest of the pass, one operator per kind of page. *)
FaultPass(x, in) ==
    {Cleared(z) : z \in UNION {IF y.saving THEN Service(y, in) ELSE {y} : y \in
        IF RuntimeActive(x) THEN TakenDown(At(x, "FAULT"), "FAULT", in) ELSE {At(x, "FAULT")}}}
ResourcePass(x, in) ==
    LET y == [At(x, "PC_LINK") EXCEPT !.upload = TRUE]
    IN  {Cleared(z) : z \in IF RuntimeActive(x) THEN TakenDown(y, "PC_LINK", in) ELSE {y}}

(* MENU, its submenus and the editors: they change, ask to save, or leave. *)
Menus(x, in) ==
    CASE x.page = "MENU" /\ in.request = "MENU" -> {ResultOrReady(x)}
      [] x.page = "MENU" /\ in.request = "CLICK" ->
            {At(x, IF x.cal # 0 THEN "LEAD_MENU" ELSE "CAL_STATUS"), ResultOrReady(x)}
            \cup {At(x, page) : page \in {"SETTINGS", "MAINTENANCE", "INFO"}}
      [] x.page = "SETTINGS" /\ in.request = "MENU" -> {At(x, "MENU")}
      [] x.page = "SETTINGS" /\ in.request = "CLICK" -> {At(x, "MENU"), At(x, "EDIT"), Asked(x)}
      [] x.page = "EDIT" /\ in.request = "TURN" -> {Edited(x)}
      [] x.page = "EDIT" /\ in.request = "MENU" -> {At(x, "SETTINGS"), At(Edited(x), "SETTINGS")}
      [] x.page = "EDIT" /\ in.request = "CLICK" -> {At([x EXCEPT !.asked = TRUE], "SETTINGS")}
      [] x.page = "MAINTENANCE" /\ in.request = "MENU" -> {At(x, "MENU")}
      [] x.page = "MAINTENANCE" /\ in.request = "CLICK" ->
            {At(x, page) : page \in {"PC_LINK", "INFO", "MENU"}}
      [] OTHER -> {x}
Information(x, in) ==
    CASE x.page = "PC_LINK" /\ x.upload -> {At([x EXCEPT !.upload = FALSE], "STARTUP")}
      [] x.page = "PC_LINK" /\ ~x.upload /\ in.request \in {"MENU", "CLICK"} -> {At(x, "MAINTENANCE")}
      [] x.page = "INFO" /\ in.request \in {"MENU", "CLICK"} -> {At(x, "MENU"), At(x, "MAINTENANCE")}
      [] OTHER -> {x}

(* try_start_calibration_wizard *)
TryWizard(x, in) ==
    IF x.saving \/ StorageBusy(x, "SETTINGS", in) THEN {[x EXCEPT !.calibrate = TRUE]}
    ELSE LET y == [Calibration(x) EXCEPT !.calibrate = FALSE]
         IN  CASE y.kind # "CALIBRATION" -> {x}
               [] y.kind = "CALIBRATION" /\ WizardActive(y) -> {y}
               [] OTHER -> {At([y EXCEPT !.wizard = "PROMPT"], "WIZARD"), [y EXCEPT !.wizard = "FAILED"]}
CalibrationStatus(x, in) ==
    CASE in.request = "MENU" -> {At(x, IF env.cal # 0 THEN "LEAD_MENU" ELSE "MENU")}
      [] in.request = "CLICK" /\ env.cal # 0 -> {At(x, "LEAD_MENU")}
      [] in.request = "TURN" -> {Asked(x)}
      [] x.calibrate /\ in.request = "NONE" /\ env.cal # 0 -> TryWizard(x, in)
      [] OTHER -> {x}
WizardOver(x) ==
    CASE x.wizard = "COMPLETE" -> At(Measurement(x), IF env.cal # 0 THEN "READY" ELSE "CAL_REQUIRED")
      [] x.wizard = "CANCELED" -> At(Measurement(x), IF env.cal # 0 THEN "CAL_STATUS" ELSE "CAL_REQUIRED")
      [] OTHER -> x
WizardPage(x, in) ==
    {WizardOver(z) : z \in UNION {WizardStep(y, in) : y \in
        CASE in.request = "MENU" -> WizardCancel(x)
          [] in.request = "CLICK" -> WizardConfirm(x)
          [] OTHER -> {x}}}
Uncalibrated(x, in) ==
    CASE x.kind = "MEASUREMENT" /\ SessionActive(x) -> TakenDown(x, "CAL_REQUIRED", in)
      [] ~(x.kind = "MEASUREMENT" /\ SessionActive(x)) /\ (in.request = "CLICK" \/ x.calibrate) ->
            TryWizard(x, in)
      [] OTHER -> {At(x, "CAL_REQUIRED")}
Measuring(x, in) ==
    IF in.request \in {"CLICK", "MENU"} THEN {Cleared(y) : y \in TakenDown(Invalidated(x), "READY", in)}
    ELSE {At(y, IF SessionActive(y) THEN "MEASURING" ELSE "RESULT") : y \in SessionStep(x, in)}

(* READY and RESULT: a click starts a measurement, or is kept until the    *)
(* settings are saved.                                                     *)
StartMeasurement(x) ==
    IF Measurement(x).kind # "MEASUREMENT" THEN {At(x, "FAULT")}
    ELSE LET y == [Measurement(x) EXCEPT !.measure = FALSE]
         IN  {y, [At(Invalidated(y), "MEASURING") EXCEPT !.session = "RUN", !.bound = env.cal]}
Idle(x, in) ==
    LET free == ~x.saving /\ ~StorageBusy(x, "SETTINGS", in)
        wanted == env.schedule = "ALLOWED" /\ (in.request = "CLICK" \/ x.measure)
                  /\ x.page \in {"READY", "RESULT"}
    IN  CASE in.request = "MENU" -> {At(x, "MENU")}
          [] in.request = "CLICK" /\ x.page = "RESULT" /\ in.details ->
                {Cleared(At(Invalidated(x), "READY")), Cleared(x)}
          [] wanted /\ free -> StartMeasurement(x)
          [] wanted /\ ~free -> {ResultOrReady([x EXCEPT !.measure = TRUE])}
          [] OTHER -> {ResultOrReady(x)}
-----------------------------------------------------------------------------
Page(x, in) ==
    CASE x.page = "STARTUP" -> {At(x, "SELF_TEST")}
       [] x.page = "SELF_TEST" -> {At(x, "CAL_CHECK")}
       [] x.page \in {"MENU", "SETTINGS", "EDIT", "MAINTENANCE"} -> Menus(x, in)
       [] x.page \in {"INFO", "PC_LINK"} -> {Cleared(y) : y \in Information(x, in)}
       [] x.page = "CAL_STATUS" -> CalibrationStatus(x, in)
       [] x.page = "WIZARD" -> WizardPage(x, in)
       [] x.page \in LeadPages -> {x}
       [] OTHER ->
            CASE env.cal = 0 -> Uncalibrated(x, in)
              [] env.cal # 0 /\ x.kind = "MEASUREMENT" /\ SessionActive(x) -> Measuring(x, in)
              [] env.cal # 0 /\ ~(x.kind = "MEASUREMENT" /\ SessionActive(x))
                 /\ env.schedule = "BLOCKED" -> {At(x, "BLOCKED")}
              [] OTHER -> Idle(x, in)

(* Seeded fault: a new calibration does not revoke what is shown. *)
ViewedStill(x) ==
    LET y == IF env.schedule = "BLOCKED" \/ env.fault \/ ~env.resource THEN Invalidated(x) ELSE x
    IN  [y EXCEPT !.cal = env.cal, !.measure = @ /\ env.schedule = "ALLOWED"]
(* What is shown is revoked before anything else is decided: by another    *)
(* calibration, by a fault, or when measuring is not allowed any more.     *)
Changed(x) == x.cal # 0 /\ env.cal # x.cal
Viewed(x) ==
    LET revoked == \/ Changed(x) \/ env.schedule = "BLOCKED" \/ env.fault \/ ~env.resource
                   \/ x.kind = "MEASUREMENT" /\ SessionActive(x) /\ env.schedule # "ALLOWED"
        y == IF revoked THEN [Invalidated(x) EXCEPT !.measure = FALSE] ELSE x
    IN  [y EXCEPT !.cal = env.cal, !.measure = @ /\ env.schedule = "ALLOWED"]
Revoked(x, in) ==
    LET target == CASE env.schedule = "CHARGING" -> "READY" [] env.schedule = "BLOCKED" -> "BLOCKED"
                    [] OTHER -> IF env.cal # 0 THEN "READY" ELSE "CAL_REQUIRED"
    IN  {Cleared(y) : y \in TakenDown(At(x, target), target, in)}
ProductPass(x, in) ==
    LET v == Viewed(x)
    IN  CASE env.fault -> FaultPass(v, in)
          [] ~env.fault /\ ~env.resource -> ResourcePass(v, in)
          [] OTHER -> UNION
               {CASE x.kind = "MEASUREMENT" /\ SessionActive(x) /\
                         (Changed(x) \/ env.schedule # "ALLOWED") -> Revoked(s, in)
                  [] Draining(s) -> {Cleared(y) : y \in Drain(s, in)}
                  [] OTHER -> Page(Drained(s), in) : s \in Service(v, in)}

(* A pass, with the button event of before it (one that finds a page of    *)
(* the start is kept by the code until READY: a later one).  quiet: a capture has the   *)
(* chip left alone; details: the result is shown on a page a click leaves. *)
Inputs == [request : Requests, quiet : BOOLEAN, details : BOOLEAN, progress : BOOLEAN]
PassWith(in) ==
    /\ p' \in IF p.page \in LeadPages THEN LeadPass(p, in) ELSE ProductPass(p, in)
    /\ IF p.wizard = "COMMITTING" /\ p'.wizard # p.wizard
       THEN \E cal \in {env.cal, IF env.cal = 1 THEN 2 ELSE 1} : env' = [env EXCEPT !.cal = cal]
       ELSE UNCHANGED env
Pass == \E in \in Inputs : PassWith(in)

(* app_product_serial_idle: while it is false the receiver is blocked.     *)
SerialIdle ==
    /\ ~RuntimeActive(p) /\ p.lead = "IDLE" /\ p.page \notin LeadPages /\ p.down = "NONE"
    /\ \/ p.page = "FAULT"
       \/ /\ ~p.asked /\ ~p.saving
          /\ p.page \notin {"STARTUP", "SELF_TEST", "CAL_CHECK", "MEASURING", "WIZARD"}

(* product_pc_link_process_frame, app_product_request_resource_upload, and *)
(* the end of an upload.                                                   *)
UploadBegin ==
    /\ SerialIdle /\ ~env.fault /\ Writers(p) = {}
    /\ p.page \in {"CAL_REQUIRED", "READY", "MAINTENANCE", "PC_LINK"}
    /\ p' = Cleared(At(p, "PC_LINK"))
    /\ env' = [env EXCEPT !.writer = "UPLOAD", !.resource = FALSE]
UploadEnd ==
    /\ env.writer = "UPLOAD" /\ UNCHANGED p
    /\ \E ok \in BOOLEAN : env' = [env EXCEPT !.writer = "NONE", !.resource = ok]
(* A calibration is installed from the PC (CalInstall). *)
InstallBegin ==
    /\ SerialIdle /\ Writers(p) = {} /\ UNCHANGED p
    /\ env' = [env EXCEPT !.writer = "INSTALL"]
InstallEnd ==
    /\ env.writer = "INSTALL" /\ UNCHANGED p
    /\ \E cal \in {env.cal, IF env.cal = 1 THEN 2 ELSE 1} :
          env' = [env EXCEPT !.writer = "NONE", !.cal = cal]
(* app_update_safety_state, and a text that cannot be read while drawing.  *)
Reschedule ==
    /\ ~env.fault
    /\ \E s \in {"ALLOWED", "CHARGING", "BLOCKED"} \ {env.schedule} :
          env' = [env EXCEPT !.schedule = s]
    /\ UNCHANGED p
Fault ==
    /\ ~env.fault /\ env' = [env EXCEPT !.fault = TRUE, !.schedule = "BLOCKED"] /\ UNCHANGED p
TextUnread ==
    /\ env.resource /\ Writers(p) = {} /\ env' = [env EXCEPT !.resource = FALSE] /\ UNCHANGED p

Next ==
    \/ Pass \/ UploadBegin \/ UploadEnd \/ InstallBegin \/ InstallEnd
    \/ Reschedule \/ Fault \/ TextUnread
Spec == Init /\ [][Next]_vars
(* The main loop makes passes for ever, what it steps comes to an end      *)
(* (SessionEnds, SaveEnds, InstallEnds, AckArrives of the other modules),  *)
(* and so does what the PC began.                                          *)
FairSpec ==
    /\ Spec /\ WF_vars(Pass) /\ WF_vars(UploadEnd) /\ WF_vars(InstallEnd)
    /\ WF_vars(\E in \in Inputs : in.progress /\ ~in.quiet /\ PassWith(in))
-----------------------------------------------------------------------------
TypeOK == p \in Products /\ env \in Environments

(* What is shown as a result was measured under the calibration the view   *)
(* names (invalidate_measurement, update_measurement_result).              *)
ResultCurrent == p.shown # "NONE" => p.shownCal = p.cal

(* Nobody is left behind: a runtime that is active is on its page or being *)
(* taken down, it is the one the shared memory belongs to, and on the      *)
(* pages of the leads, which step nothing else, there is none              *)
(* (begin_runtime_teardown, activate_*_runtime, step_lead_ui).             *)
NobodyStranded ==
    /\ SessionActive(p) => p.kind = "MEASUREMENT" /\ (p.page = "MEASURING" \/ p.down = p.kind)
    /\ WizardActive(p) => p.kind = "CALIBRATION" /\ (p.page = "WIZARD" \/ p.down = p.kind)
    /\ p.page \in LeadPages => ~SessionActive(p) /\ ~WizardActive(p) /\ p.down = "NONE"
    /\ p.lead # "IDLE" => p.page = "LEAD_WIZARD"

(* At most one writer of the chip at a time: two would wait for each other *)
(* for ever (app_flash_access_allowed).                                    *)
OneWriter == \A v, w \in Writers(p) : v = w

(* What was asked to stop stops, and a save that was begun is carried out  *)
(* or given up, unless the resources fail meanwhile: their branch of the   *)
(* pass does not step it (drain_runtime_teardown,                          *)
(* service_pending_settings_save).                                         *)
Accepted == (RuntimeActive(p) /\ p.down # "NONE") \/ (p.saving /\ env.resource)
AcceptedEnds == Accepted ~> ~Accepted

(* After a fault the PC can still ask for diagnostics                      *)
(* (app_product_serial_idle).                                              *)
LinkReachable == env.fault ~> SerialIdle
=============================================================================
