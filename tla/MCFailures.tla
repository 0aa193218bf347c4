----------------------------- MODULE MCFailures -----------------------------
(***************************************************************************)
(* What the hardware is left to do, for TLC: by the transaction of the     *)
(* product, whose writes to the pins may fail; by the bench of the         *)
(* bring-up console, where every call may; by the panel, its buttons and   *)
(* its tones.  A behaviour chooses one of these, whose steps it takes; the *)
(* others keep still where they start, so that what holds of the whole is  *)
(* what holds of each.                                                     *)
(***************************************************************************)
EXTENDS MCHwMeasure

CONSTANTS
    Order, EventCapacity, DebounceTime, LongTime, RepeatDelay, RepeatPeriod, SleepTime,
    MaxStall,                                                   \* of the buttons
    Raised, QueueCapacity, NoteTime, GapTime, RetryTime         \* of the tones
TwoButtons == <<"UP", "OK">>

VARIABLES which, cap, hw, job, test, contacts, keys, user, stall, heard,
          alarm, mail, sound, output, hush, feedback, policy, timer
bench == <<cap, hw, job, test>>
buttons == <<contacts, keys, user, stall, heard>>
tones == <<alarm, mail, sound, output, hush, feedback, policy, timer>>
B == INSTANCE Bench
K == INSTANCE Buttons WITH buttons <- keys
T == INSTANCE Tones WITH view <- alarm, quiet <- hush
ASSUME PanelAssumption == K!ButtonsAssumption /\ T!TonesAssumption

FailuresInit ==
    /\ which \in {"product", "bench", "buttons", "tones"}
    /\ Init /\ B!Init /\ K!Init /\ T!Init
    /\ which # "buttons" => contacts = {}
    /\ which # "tones" => sound
OfProduct == which = "product" /\ Next /\ UNCHANGED <<which, bench, buttons, tones>>
OfBench == which = "bench" /\ B!Next /\ UNCHANGED <<which, vars, buttons, tones>>
OfButtons == which = "buttons" /\ K!Next /\ UNCHANGED <<which, vars, bench, tones>>
OfTones == which = "tones" /\ T!Next /\ UNCHANGED <<which, vars, bench, buttons>>
FailuresNext == OfProduct \/ OfBench \/ OfButtons \/ OfTones
(* Only the tones need fairness here: as their module justifies it.        *)
FailuresSpec ==
    /\ FailuresInit /\ [][FailuresNext]_<<which, vars, bench, buttons, tones>>
    /\ WF_tones(which = "tones" /\ T!ApplyOutputs) /\ WF_tones(which = "tones" /\ T!Tick)
    /\ WF_tones(which = "tones" /\ hush /\ T!RequestQuiet(FALSE))
-----------------------------------------------------------------------------
(* Whatever failed, and wherever: when no capture of the bench is under    *)
(* way the source is off, the sensors have the converter back, or the      *)
(* fault is latched, and neither the bus nor the workspace is still held;  *)
(* what is sent of the workspace is still whole; and the self-test of the  *)
(* flash says PASS only when this test saw its sector erased and its       *)
(* pattern read back (app_bringup_console.c, hw_metrology_session.c).      *)
BenchHonest == B!LeftSafe /\ B!SentIsWhole /\ B!PassIsHonest

(* What is pressed and what is heard: no event of a button is lost or out  *)
(* of order and a press of OK acts once, or not at all when it woke the    *)
(* display; nothing sounds while quiet is asked for and a melody is not    *)
(* cut short by another (buttons.c, app_product.c, app_feedback.c,         *)
(* hw_buzzer_policy.c).                                                    *)
PanelSafe == []K!EventsFaithful /\ []K!PressActsOnce /\ []T!QuietIsSilent /\ T!MelodyWhole

(* A fault is heard in the end, whatever tone and quiet it meets, unless   *)
(* the sound is off or an error took its place (app_shell.c).              *)
FaultHeard == T!FaultHeard
=============================================================================
