------------------------------ MODULE Buttons ------------------------------
(***************************************************************************)
(* The buttons of the product: their contacts bounce, and are sampled once *)
(* in a pass of the super-loop (buttons.c); the events of the pass go      *)
(* through a queue of EventCapacity to the product, which wakes the        *)
(* display, pages, clicks or opens the menu (app_product.c); then the      *)
(* product puts the display to sleep or keeps it awake.  The PC may click  *)
(* OK over the serial line (app_serial_ui.c).                              *)
(***************************************************************************)
EXTENDS Integers, Sequences

CONSTANTS
    Order,          \* the buttons as buttons_update visits them: UP, OK, DOWN
    EventCapacity,  \* BUTTONS_EVENT_QUEUE_CAPACITY (8)
    DebounceTime, LongTime, RepeatDelay, RepeatPeriod,    \* g_default_config
    SleepTime,      \* the shortest app_backlight_timeout_t (15 s)
    MaxStall        \* longest pass: the watchdog resets a longer one (2 s)
ButtonsAssumption ==
    /\ Order \in Seq(STRING) /\ \A i, j \in DOMAIN Order : Order[i] = Order[j] => i = j
    /\ "OK" \in {Order[i] : i \in DOMAIN Order} /\ "NONE" \notin {Order[i] : i \in DOMAIN Order}
    /\ {DebounceTime, RepeatPeriod, SleepTime, MaxStall} \subseteq Nat
    /\ {LongTime, RepeatDelay} \subseteq Nat \ {0}
    /\ EventCapacity \in Nat /\ EventCapacity >= 2 * Len(Order)
    /\ LongTime + DebounceTime + MaxStall < SleepTime

VARIABLES
    contacts,   \* the buttons whose contact is closed now
    buttons,    \* button_state_t of each
    user,       \* what app_product_t keeps of the buttons and the backlight
    stall,      \* time since the last pass
    heard       \* history: what the events handled say of each button
vars == <<contacts, buttons, user, stall, heard>>

Names == {Order[i] : i \in DOMAIN Order}
(* Times are since: raw_changed_ms, press_started_ms; to: next_repeat_ms,  *)
(* negative when repeats are owed.                                         *)
Button ==
    [raw : BOOLEAN, pressed : BOOLEAN, long_sent : BOOLEAN, age : 0 .. DebounceTime,
     held : 0 .. LongTime, repeat : (-RepeatPeriod) .. RepeatDelay]
User ==
    [sleeping : BOOLEAN, consumes : Names \cup {"NONE"}, armed : BOOLEAN, long_seen : BOOLEAN,
     idle : 0 .. SleepTime]
(* believed: what the events make of the button; spent, acts: that its     *)
(* last press was consumed, and the clicks and menus it gave.              *)
Heard == [believed : {"UP", "DOWN", "HELD", "WRONG"}, spent : BOOLEAN, acts : 0 .. 2]

Init ==
    /\ contacts \in SUBSET Names
    /\ buttons = [b \in Names |-> [raw |-> FALSE, pressed |-> FALSE, long_sent |-> FALSE,
                                   age |-> DebounceTime, held |-> 0, repeat |-> 0]]
    /\ user = [sleeping |-> FALSE, consumes |-> "NONE", armed |-> FALSE, long_seen |-> FALSE,
               idle |-> 0]
    /\ stall = 0
    /\ heard = [b \in Names |-> [believed |-> "UP", spent |-> TRUE, acts |-> 0]]
-----------------------------------------------------------------------------
(* buttons_update, for one button: the contact as sampled; the press or    *)
(* the release it amounts to; while pressed, the long press and repeats.   *)
(* The times of a button that is not pressed are read by nobody: 0.        *)
Sampled(s, raw) == IF raw = s.raw THEN s ELSE [s EXCEPT !.raw = raw, !.age = 0]
Changes(s) == s.raw # s.pressed /\ s.age >= DebounceTime
Changed(s) ==
    IF ~Changes(s) THEN s
    ELSE IF s.raw THEN [s EXCEPT !.pressed = TRUE, !.long_sent = FALSE, !.held = 0,
                                 !.repeat = RepeatDelay]
    ELSE [s EXCEPT !.pressed = FALSE, !.long_sent = FALSE, !.held = 0, !.repeat = 0]
(* Seeded fault: a long press is not noted. *)
LongUnnoted(s) == s.pressed /\ s.raw /\ s.held >= LongTime
GoesLong(s) == s.pressed /\ s.raw /\ ~s.long_sent /\ s.held >= LongTime
Repeats(s) == s.pressed /\ s.raw /\ s.repeat <= 0
Updated(s) ==
    [s EXCEPT !.long_sent = @ \/ GoesLong(s),
              !.repeat = IF Repeats(s) THEN @ + RepeatPeriod ELSE @]

At(b) == Sampled(buttons[b], b \in contacts)
-----------------------------------------------------------------------------
(* app_product_handle_button_event: a press that finds the display dark    *)
(* wakes it and is consumed with all that follows up to its release.       *)
Wakes(u, e) == u.sleeping /\ e.type = "PRESS"
Awoken(u, e) == [u EXCEPT !.sleeping = FALSE, !.consumes = e.button, !.idle = 0]
Consumed(u, e) ==
    IF e.button = u.consumes /\ e.type = "RELEASE"
    THEN [u EXCEPT !.consumes = "NONE", !.armed = FALSE, !.long_seen = FALSE] ELSE u
(* Seeded fault: the release of a long press clicks, too. *)
ClicksAnyway(u, e) == e.type = "RELEASE" /\ u.armed
Clicks(u, e) == e.type = "RELEASE" /\ u.armed /\ ~u.long_seen
OpensMenu(u, e) == e.type = "LONG_PRESS" /\ u.armed
Handled(u, e) ==
    IF Wakes(u, e) THEN Awoken(u, e)
    ELSE IF u.consumes # "NONE" THEN Consumed(u, e)
    ELSE [u EXCEPT
            !.idle = IF e.type = "PRESS" THEN 0 ELSE @,
            !.armed = IF e.button # "OK" THEN @ ELSE e.type = "PRESS" \/ (@ /\ e.type # "RELEASE"),
            !.long_seen = IF e.button # "OK" THEN @
                          ELSE e.type \notin {"PRESS", "RELEASE"} /\ (@ \/ OpensMenu(u, e))]
ActsOn(u, e) ==
    /\ e.button = "OK" /\ ~Wakes(u, e) /\ u.consumes = "NONE"
    /\ Clicks(u, e) \/ OpensMenu(u, e)

(* What the event says of its button, and does (history).                  *)
Believed(h, t) ==
    CASE t = "PRESS" /\ h.believed = "UP" -> "DOWN"
      [] t = "LONG_PRESS" /\ h.believed = "DOWN" -> "HELD"
      [] t = "REPEAT" /\ h.believed \in {"DOWN", "HELD"} -> h.believed
      [] t = "RELEASE" /\ h.believed \in {"DOWN", "HELD"} -> "UP"
      [] OTHER -> "WRONG"
Noted(h, u, e) ==
    [h EXCEPT ![e.button] =
        [believed |-> Believed(@, e.type),
         spent |-> IF e.type = "PRESS" THEN Wakes(u, e) \/ u.consumes # "NONE" ELSE @.spent,
         acts |-> IF e.type = "PRESS" THEN 0
                  ELSE IF ActsOn(u, e) /\ @.acts < 2 THEN @.acts + 1 ELSE @.acts]]

(* update_backlight_idle, in app_product_step: kept awake, or put to sleep *)
(* when the time set in the settings, if any, is over.                     *)
Lit(u, mode) ==
    CASE mode = "FORCED" -> [u EXCEPT !.sleeping = FALSE, !.idle = 0]
      [] mode = "NEVER" -> u
      [] mode = "TIMED" -> [u EXCEPT !.sleeping = @ \/ u.idle >= SleepTime]

(* An event goes into the queue behind those of its pass, or is dropped if *)
(* that is full; the product handles what is queued in its order (x).      *)
Told(x, b, t, says) ==
    IF ~says \/ x.queued = EventCapacity THEN x
    ELSE LET e == [button |-> b, type |-> t]
         IN  [u |-> Handled(x.u, e), h |-> Noted(x.h, x.u, e), queued |-> x.queued + 1]
ToldOf(x, b) ==
    LET s == Changed(At(b))
        y == Told(x, b, IF s.pressed THEN "PRESS" ELSE "RELEASE", Changes(At(b)))
    IN  Told(Told(y, b, "LONG_PRESS", GoesLong(s)), b, "REPEAT", Repeats(s))
Visited[i \in 0 .. Len(Order)] ==
    IF i = 0 THEN [u |-> user, h |-> heard, queued |-> 0] ELSE ToldOf(Visited[i - 1], Order[i])

(* One pass: the buttons sampled, the queue emptied into the product, and  *)
(* the product stepped.                                                    *)
Pass ==
    /\ buttons' = [b \in Names |-> Updated(Changed(At(b)))]
    /\ LET x == Visited[Len(Order)]
       IN  /\ \E mode \in {"FORCED", "NEVER", "TIMED"} : user' = Lit(x.u, mode)
           /\ heard' = x.h
    /\ stall' = 0
    /\ UNCHANGED contacts

(* app_serial_ui_handle: a click of OK from the PC, a press and a release  *)
(* at once, refused while the button itself is pressed.                    *)
SerialClick ==
    /\ ~user.armed
    /\ LET click(t) == [button |-> "OK", type |-> t]
       IN  user' = Handled(Handled(user, click("PRESS")), click("RELEASE"))
    /\ UNCHANGED <<contacts, buttons, stall, heard>>

Contact == \E b \in Names :
    /\ contacts' = IF b \in contacts THEN contacts \ {b} ELSE contacts \cup {b}
    /\ UNCHANGED <<buttons, user, stall, heard>>

Least(a, b) == IF a < b THEN a ELSE b
Tick ==
    /\ stall < MaxStall
    /\ stall' = stall + 1
    /\ buttons' = [b \in Names |->
         LET s == buttons[b]
         IN  [s EXCEPT !.age = Least(@ + 1, DebounceTime),
                       !.held = IF s.pressed THEN Least(@ + 1, LongTime) ELSE @,
                       !.repeat = IF s.pressed /\ @ > -RepeatPeriod THEN @ - 1 ELSE @]]
    /\ user' = [user EXCEPT !.idle = Least(@ + 1, SleepTime)]
    /\ UNCHANGED <<contacts, heard>>

Next == Pass \/ SerialClick \/ Contact \/ Tick
Spec == Init /\ [][Next]_vars
-----------------------------------------------------------------------------
TypeOK ==
    /\ contacts \subseteq Names
    /\ buttons \in [Names -> Button] /\ user \in User
    /\ stall \in 0 .. MaxStall /\ heard \in [Names -> Heard]

(* No event is lost, repeated or out of order, however slow the passes and *)
(* whatever several buttons do at once: what the product was told of a     *)
(* button is what the debouncer holds of it (buttons.c).                   *)
EventsFaithful ==
    \A b \in Names :
        heard[b].believed = IF ~buttons[b].pressed THEN "UP"
                            ELSE IF buttons[b].long_sent THEN "HELD" ELSE "DOWN"

(* A press of OK that woke the display, or came while such a press was     *)
(* held, does nothing; any other has done one thing by its release, a      *)
(* click or the menu, and never both (app_product.c), whatever the other   *)
(* button, the sleep of the display and the PC do meanwhile.               *)
PressActsOnce ==
    /\ heard["OK"].spent => heard["OK"].acts = 0
    /\ ~heard["OK"].spent => heard["OK"].acts < 2
    /\ ~heard["OK"].spent /\ ~buttons["OK"].pressed => heard["OK"].acts = 1
=============================================================================
