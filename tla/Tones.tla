------------------------------- MODULE Tones -------------------------------
(***************************************************************************)
(* What the product lets the user hear.  It leaves the last event in a     *)
(* mailbox (feedback_event, app_product.c); the shell moves it into a      *)
(* queue of QueueCapacity whose events are melodies of one to three notes  *)
(* (product_apply_outputs, app_shell.c; app_feedback.c); each note asks    *)
(* the policy of the buzzer, which starts the timer that sounds            *)
(* (hw_buzzer_policy.c, hw_buzzer.c, bsp_timers.c).  The transaction asks  *)
(* for quiet between any two of these, and the user turns the sound off.   *)
(***************************************************************************)
EXTENDS Integers, Sequences

CONSTANTS
    Raised,         \* the events raised: numbers of app_feedback_event_t, priorities
    QueueCapacity,  \* sizeof(feedback->queue) (4)
    NoteTime,       \* a note
    GapTime,        \* the pause after it (30 ms)
    RetryTime       \* the patience with a buzzer that is busy (250 ms)

VARIABLES
    view,       \* view.state
    mail,       \* tone_event; new is tone_sequence # output_tone_sequence
    sound,      \* the setting sound_enabled
    output,     \* g_product_output_sound_enabled and _valid
    quiet,      \* bsp_quiet_requested
    feedback,   \* app_feedback_t
    policy,     \* hw_buzzer_policy_t
    timer       \* TIM4 sounds (g_buzzer_armed)
vars == <<view, mail, sound, output, quiet, feedback, policy, timer>>

(* app_feedback_event_t: NAVIGATE 1, BACK 2, SAVED 5 and these.            *)
NONE == 0
CONFIRM == 3
COMPLETE == 4
ERROR == 6
FAULT == 7
Events == 1 .. FAULT
TonesAssumption ==
    /\ Raised \subseteq Events /\ QueueCapacity \in Nat \ {0}
    /\ NoteTime \in Nat /\ GapTime \in Nat /\ RetryTime \in Nat
(* patterns: the notes before the first of frequency 0, at most three.     *)
Notes(e) == CASE e < COMPLETE -> 1 [] e = FAULT -> 3 [] OTHER -> 2

Views == {"OTHER", "RESULT", "SAFETY_BLOCKED", "FAULT"}
Feedback ==
    [queue : UNION {[1 .. n -> Events] : n \in 0 .. QueueCapacity}, phase : 0 .. 3,
     active : BOOLEAN, due : 0 .. NoteTime + GapTime, retrying : BOOLEAN, retry : 0 .. RetryTime]
Policy == [enabled : BOOLEAN, active : BOOLEAN, quiet : BOOLEAN, stop : 0 .. NoteTime]

Init ==
    /\ view = "OTHER" /\ mail = [event |-> NONE, new |-> FALSE] /\ sound \in BOOLEAN
    /\ output = [enabled |-> TRUE, valid |-> FALSE] /\ quiet = FALSE
    /\ feedback = [queue |-> <<>>, phase |-> 0, active |-> FALSE, due |-> 0,
                   retrying |-> FALSE, retry |-> 0]
    /\ policy = [enabled |-> TRUE, active |-> FALSE, quiet |-> FALSE, stop |-> 0]
    /\ timer = FALSE
-----------------------------------------------------------------------------
(* The product, the settings, the transaction.                             *)

(* feedback_event: the last event counts; in an alarm only an alarm does.  *)
Posted(m, e) ==
    IF view \in {"FAULT", "SAFETY_BLOCKED"} /\ e < ERROR THEN m ELSE [event |-> e, new |-> TRUE]
Notify(e) == mail' = Posted(mail, e) /\ UNCHANGED <<view, sound, output, quiet, feedback, policy, timer>>

(* set_state: the event is filtered by the state that is left.  A fault is *)
(* latched until the reboot, and its state entered first in every pass: it *)
(* is not left.                                                            *)
SetState(v, derived_valid) ==
    /\ view \notin {v, "FAULT"} /\ view' = v
    /\ mail' = CASE v = "FAULT" -> Posted(mail, FAULT)
                 [] v = "SAFETY_BLOCKED" -> Posted(mail, ERROR)
                 [] v = "RESULT" -> Posted(mail, IF derived_valid THEN COMPLETE ELSE ERROR)
                 [] OTHER -> mail
    /\ UNCHANGED <<sound, output, quiet, feedback, policy, timer>>

(* The sound menu's toggle, and settings loaded at boot.                   *)
SetSound ==
    /\ sound' = ~sound
    /\ mail' = IF sound' THEN Posted(mail, CONFIRM) ELSE mail
    /\ UNCHANGED <<view, output, quiet, feedback, policy, timer>>

(* hw_peripherals_request_quiet, called by the transaction: the flag and   *)
(* the policy together.  None is begun under a fault.                      *)
MayRequest(requested) == requested => view # "FAULT"
(* Seeded fault: the policy is told, a tone that sounds goes on. *)
RequestQuietLater(requested) ==
    /\ MayRequest(requested)
    /\ quiet' = requested
    /\ policy' = [policy EXCEPT !.quiet = requested]
    /\ UNCHANGED <<view, mail, sound, output, feedback, timer>>
RequestQuiet(requested) ==
    /\ MayRequest(requested)
    /\ quiet' = requested
    /\ policy' = [policy EXCEPT !.quiet = requested, !.active = @ /\ ~requested]
    /\ timer' = (timer /\ ~(requested /\ policy.active))
    /\ UNCHANGED <<view, mail, sound, output, feedback>>
-----------------------------------------------------------------------------
(* The shell's pass.  x is [f, p, on]: feedback, policy, timer.            *)

(* hw_buzzer_set_enabled, when the setting differs from what was put out.  *)
Enabled(x) ==
    IF output.valid /\ output.enabled = sound THEN x
    ELSE LET p == [x.p EXCEPT !.enabled = sound, !.active = @ /\ sound]
         IN  [x EXCEPT !.p = p, !.on = @ /\ p.active]

(* app_feedback_request: an event that waits already is not queued twice;  *)
(* with the queue full it takes the place of the oldest lower one, but for *)
(* the one that plays.                                                     *)
Waits(f, e) == \E i \in DOMAIN f.queue : f.queue[i] = e
(* Seeded fault: the one that plays may be replaced. *)
LowerPlaying(f, e) == {i \in DOMAIN f.queue : f.queue[i] < e}
Lower(f, e) == {i \in DOMAIN f.queue : f.queue[i] < e /\ (f.active => i > 1)}
Replaced(f, e, i) ==
    [f EXCEPT !.queue[i] = e, !.phase = IF i = 1 THEN 0 ELSE @, !.retrying = @ /\ i # 1]
Requested(f, e) ==
    IF Waits(f, e) THEN f
    ELSE IF Len(f.queue) < QueueCapacity THEN [f EXCEPT !.queue = Append(@, e)]
    ELSE IF Lower(f, e) = {} THEN f
    ELSE Replaced(f, e, CHOOSE i \in Lower(f, e) : \A j \in Lower(f, e) : i <= j)

(* product_apply_outputs: while quiet is asked for, an event the user must *)
(* hear stays in the mailbox; the others are let go.                       *)
(* Seeded fault: the mailbox is emptied while quiet is asked for. *)
TakenAlways == mail.new

Taken == mail.new /\ (~quiet \/ mail.event < COMPLETE \/ ~sound)
Received(x) ==
    IF Taken /\ sound /\ ~quiet THEN [x EXCEPT !.f = Requested(@, mail.event)] ELSE x
(* hw_buzzer_mute *)
Muted(x) == [x EXCEPT !.p.active = FALSE, !.on = FALSE]
Popped(f) ==
    [f EXCEPT !.queue = Tail(@), !.phase = 0, !.active = FALSE, !.retrying = FALSE]
Flushed(x) ==
    LET y == IF x.f.active THEN Muted(x) ELSE x
    IN  [y EXCEPT !.f.queue = <<>>, !.f.phase = 0, !.f.active = FALSE, !.f.retrying = FALSE]

(* hw_buzzer_play_tone: BUSY while quiet; silent but OK when disabled.  A  *)
(* frequency of the patterns never fails the timer.                        *)
Plays(x) ==
    LET on == x.p.enabled /\ ~x.p.quiet
    IN  [x EXCEPT !.p.active = on, !.p.stop = IF on THEN NoteTime ELSE @, !.on = on]
Started(f) ==
    [f EXCEPT !.retrying = FALSE, !.active = TRUE, !.due = NoteTime + GapTime, !.phase = @ + 1]
Retried(f) ==
    LET g == IF f.retrying THEN f ELSE [f EXCEPT !.retrying = TRUE, !.retry = RetryTime]
    IN  IF g.retry > 0 THEN g ELSE Popped(g)
Sounded(x) ==
    IF x.f.phase >= Notes(Head(x.f.queue)) THEN [x EXCEPT !.f = Popped(@)]
    ELSE LET y == Plays(x) IN [y EXCEPT !.f = IF x.p.quiet THEN Retried(@) ELSE Started(@)]

(* app_feedback_step *)
Stepped(x) ==
    IF ~sound \/ quiet THEN Flushed(x)
    ELSE IF x.f.queue = <<>> \/ (x.f.active /\ x.f.due > 0) THEN x
    ELSE Sounded(IF x.f.active THEN [Muted(x) EXCEPT !.f.active = FALSE] ELSE x)

ApplyOutputs ==
    /\ LET x == Stepped(Received(Enabled([f |-> feedback, p |-> policy, on |-> timer])))
       IN  feedback' = x.f /\ policy' = x.p /\ timer' = x.on
    /\ output' = [enabled |-> sound, valid |-> TRUE]
    /\ mail' = [mail EXCEPT !.new = @ /\ ~Taken]
    /\ UNCHANGED <<view, sound, quiet>>

(* hw_buzzer_step, at the end of the pass.                                 *)
BuzzerStep ==
    /\ policy.active /\ policy.stop = 0
    /\ policy' = [policy EXCEPT !.active = FALSE] /\ timer' = FALSE
    /\ UNCHANGED <<view, mail, sound, output, quiet, feedback>>

Down(n) == IF n > 0 THEN n - 1 ELSE 0
Tick ==
    /\ feedback' = [feedback EXCEPT !.due = Down(@), !.retry = Down(@)]
    /\ policy' = [policy EXCEPT !.stop = Down(@)]
    /\ UNCHANGED <<view, mail, sound, output, quiet, timer>>

Next ==
    \/ \E e \in Raised : Notify(e)
    \/ \E v \in Views, derived_valid \in BOOLEAN : SetState(v, derived_valid)
    \/ SetSound
    \/ \E requested \in BOOLEAN : RequestQuiet(requested)
    \/ ApplyOutputs \/ BuzzerStep \/ Tick
Spec == Init /\ [][Next]_vars
(* The super-loop keeps passing, the clock runs, and a transaction gives   *)
(* back the quiet it asked for when it ends, as it does unless it is       *)
(* aborted again and again (HwMeasure!TransactionEnds).                    *)
FairSpec ==
    Spec /\ WF_vars(ApplyOutputs) /\ WF_vars(Tick) /\ WF_vars(quiet /\ RequestQuiet(FALSE))
-----------------------------------------------------------------------------
TypeOK ==
    /\ view \in Views /\ mail \in [event : Events \cup {NONE}, new : BOOLEAN]
    /\ sound \in BOOLEAN /\ output \in [enabled : BOOLEAN, valid : BOOLEAN]
    /\ quiet \in BOOLEAN /\ feedback \in Feedback /\ policy \in Policy /\ timer \in BOOLEAN

(* The timer sounds only while its policy says so - hw_buzzer_step will    *)
(* then end it -, never while quiet is asked for nor once the sound was    *)
(* put out as disabled; and the two checks of quiet, of the queue and of   *)
(* the policy, agree: a note is never refused.                             *)
QuietIsSilent ==
    /\ timer => policy.active /\ ~quiet /\ policy.enabled
    /\ ~feedback.retrying

(* "Never replace the event whose tone is currently playing": a melody     *)
(* that was begun is played to its last note, but for quiet and the sound  *)
(* turned off (app_feedback.c).                                            *)
Playing(f) == f.queue # <<>> /\ f.phase > 0
MelodyWhole ==
    [][Playing(feedback) /\ (feedback'.queue = <<>> \/ Head(feedback'.queue) # Head(feedback.queue))
         => feedback.phase = Notes(Head(feedback.queue)) \/ quiet \/ ~sound]_vars

(* A fault is heard: raised while the terminals are measured in quiet, or  *)
(* waiting in the queue behind whatever else, it comes to sound, unless    *)
(* the user turned the sound off or another alarm is in its place          *)
(* (product_apply_outputs, app_feedback_request).                          *)
FaultOwed ==
    \/ mail.new /\ mail.event = FAULT
    \/ \E i \in DOMAIN feedback.queue : feedback.queue[i] = FAULT /\ (i > 1 \/ feedback.phase = 0)
FaultSounds == feedback.queue # <<>> /\ Head(feedback.queue) = FAULT /\ timer
FaultHeard == FaultOwed ~> FaultSounds \/ ~sound \/ (mail.new /\ mail.event = ERROR)
=============================================================================
