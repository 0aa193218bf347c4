------------------------------ MODULE MCPages ------------------------------
(***************************************************************************)
(* What the user and the PC start, for TLC: the pages of the product, the  *)
(* calibration of the leads, the wizard of the calibration image and its   *)
(* captures for the PC.  A behaviour chooses one of them, whose steps it   *)
(* takes; the others keep still where they start, so that what holds of    *)
(* the whole is what holds of each.                                        *)
(***************************************************************************)
EXTENDS Product

CONSTANTS
    Frequencies, Ladder, Samples, MaxCaptures, RangeCount, FirstCount, OtherCount, Required,
    MaxAttempts, Blocks, Parts, Starts_
VARIABLES which, lead, page, blocked, taken, leadatt, leadlease, wiz, ses, wf, cand, ext, att, lease,
          svc, line, host, capses, capwf, capext, capatt, caplease
leads == <<lead, page, blocked, taken, leadatt, leadlease>>
wizard == <<wiz, ses, wf, cand, ext, att, lease>>
capture == <<svc, line, host, capses, capwf, capext, capatt, caplease>>

L == INSTANCE LeadCalibration WITH att <- leadatt, lease <- leadlease
W == INSTANCE CalWizard
C == INSTANCE CalCapture WITH
        ses <- capses, wf <- capwf, ext <- capext, att <- capatt, lease <- caplease
ASSUME LeadsAssumption == L!LeadAssumption

PagesInit ==
    /\ which \in {"product", "leads", "wizard", "capture"}
    /\ Init /\ L!Init /\ W!Init /\ C!Init
    /\ which # "product" => env = CHOOSE e \in Environments : e.writer = "NONE" /\ ~e.fault /\ e.cal # 2
OfProduct == which = "product" /\ Next /\ UNCHANGED <<which, leads, wizard, capture>>
OfLeads == which = "leads" /\ L!Next /\ UNCHANGED <<which, vars, wizard, capture>>
OfWizard == which = "wizard" /\ W!Next /\ UNCHANGED <<which, vars, leads, capture>>
OfCapture == which = "capture" /\ C!Next /\ UNCHANGED <<which, vars, leads, wizard>>
PagesNext == OfProduct \/ OfLeads \/ OfWizard \/ OfCapture
(* The fairness of each, as its module justifies it.                       *)
PagesSpec ==
    /\ PagesInit /\ [][PagesNext]_<<which, vars, leads, wizard, capture>>
    /\ WF_vars(which = "product" /\ Pass)
    /\ WF_vars(which = "product" /\ UploadEnd) /\ WF_vars(which = "product" /\ InstallEnd)
    /\ WF_vars(which = "product" /\ \E in \in Inputs : in.progress /\ ~in.quiet /\ PassWith(in))
    /\ WF_leads(which = "leads" /\ L!Pass)
    /\ WF_wizard(which = "wizard" /\ W!Pass)
    /\ WF_wizard(which = "wizard" /\ W!StoreEnds)
    /\ WF_capture(which = "capture" /\ C!DeviceStep)
    /\ WF_capture(which = "capture" /\ C!Expire)
-----------------------------------------------------------------------------
(* What is offered to be kept was earned: a profile for review rests on a  *)
(* full group of repeats at every frequency, open and shorted; a           *)
(* calibration that is committed has for every condition a record solved   *)
(* from all the captures it needs; an observation the client has put       *)
(* together is that of the capture it asked for, whole, and was published  *)
(* with the front end at rest.                                             *)
KeptIsEarned == L!ReviewIsEarned /\ W!SavedIsEarned /\ C!TakenIsEarned

(* What is over is over: a calibration of the leads, a wizard that ended   *)
(* leaves nothing running; a capture that was canceled, timed out or was   *)
(* blocked is never published.                                             *)
OverIsOver == L!NothingLeftRunning /\ W!OverIsOver /\ C!DeadStaysDead

(* What was asked to stop stops and a save that was begun ends; captures   *)
(* come to an end, for the leads, the wizard, the PC; so do a cancel, a    *)
(* commit, and the replies that waited (AcceptedEnds, L!GroupsEnd,         *)
(* W!CaptureEnds, C!CaptureDrains, of which only one has anything to do in *)
(* a behaviour).                                                           *)
Underway == Accepted \/ lead.st \in L!Capturing \/ W!Unsettled \/ C!Draining
PagesEnd == Underway ~> ~Underway
=============================================================================
