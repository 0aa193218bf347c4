---------------------------- MODULE MCHwMeasure ----------------------------
(* Requests of the instances TLC checks. *)
EXTENDS HwMeasure

Ask(range, drive, hold, cont, stat) ==
    [range |-> range, drive |-> drive, hold |-> hold, cont |-> cont,
     stat |-> stat, refusal |-> "NONE"]
Refused(why) == [Ask("10R", "1KHZ", TRUE, FALSE, FALSE) EXCEPT !.refusal = why]

(* One unheld capture, a held session over two ranges with statistics. *)
LegacyRequests ==
    {Ask("10R", "10HZ", FALSE, FALSE, FALSE), Ask("10R", "1KHZ", TRUE, FALSE, FALSE),
     Ask("100R", "1KHZ", TRUE, FALSE, FALSE),
     Ask("10R", "1KHZ", TRUE, FALSE, TRUE), Ask("100R", "1KHZ", TRUE, FALSE, TRUE)}

(* A continuous survey over two drives. *)
SurveyRequests ==
    {Ask("10R", "10HZ", TRUE, TRUE, FALSE), Ask("10R", "1KHZ", TRUE, TRUE, FALSE),
     Ask("10R", "1KHZ", TRUE, TRUE, TRUE)}

(* An unheld capture, which no session limit protects, and a survey. *)
EndRequests ==
    {Ask("10R", "1KHZ", FALSE, FALSE, FALSE), Ask("10R", "1KHZ", TRUE, TRUE, FALSE)}

(* Single captures, and every way of being turned down. *)
SingleRequests ==
    {Ask("10R", "1KHZ", FALSE, FALSE, FALSE), Ask("10R", "1KHZ", FALSE, TRUE, FALSE),
     Refused("CLOCK"), Refused("AMPLITUDE"), Refused("PROFILE")}
=============================================================================
