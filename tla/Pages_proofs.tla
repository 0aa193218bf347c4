--------------------------- MODULE Pages_proofs -----------------------------
(***************************************************************************)
(* What the pages may never leave behind, for any inputs, any progress of  *)
(* what they own, and any number of frequencies, conditions and captures:  *)
(* in the product, a result of another calibration, a runtime without its  *)
(* page, two writers of the flash; in the calibrations, a profile, a       *)
(* record or an observation that was not earned, or an end that is none.   *)
(*                                                                         *)
(* A pass is a composition of operators that return the records they may   *)
(* leave; there is one lemma for each, from what it is given to what it    *)
(* gives.  In the product a runtime may be off its page between them       *)
(* (Kinds without Placed): begin_runtime_teardown is called after the page *)
(* has changed.  The leads have the transaction to themselves; the wizard  *)
(* and the captures share the calibration session, whose lemmas are stated *)
(* for the one and carried over to the other (SessionsAgree).              *)
(***************************************************************************)
EXTENDS MCPages, Sequences, SequenceTheorems, TLAPS

Fields == {"page", "kind", "session", "bound", "wizard", "lead", "down", "target", "measure",
    "calibrate", "asked", "edit", "saving", "shown", "shownCal", "cal", "upload"}
Record(x) == Fields \subseteq DOMAIN x
EnvRecord ==
    /\ {"fault", "resource", "cal", "schedule", "writer"} \subseteq DOMAIN env
    /\ env.writer \in {"NONE", "UPLOAD", "INSTALL"}

(* A result is shown under a calibration only.                             *)
Current(x) == x.shown # "NONE" => x.shownCal = x.cal /\ x.cal # 0

(* The memory the runtimes share belongs to the one that is active, and to *)
(* the one being taken down, on the way to a page that has none.           *)
Plain(pg) == pg \notin LeadPages \cup {"WIZARD"}
Kinds(x) ==
    /\ x.down \in {"NONE", x.kind} /\ Plain(x.target)
    /\ SessionActive(x) => x.kind = "MEASUREMENT"
    /\ WizardActive(x) => x.kind = "CALIBRATION"
Placed(x) ==
    /\ SessionActive(x) => x.page = "MEASURING" \/ x.down = x.kind
    /\ WizardActive(x) => x.page = "WIZARD" \/ x.down = x.kind
    /\ x.page = "WIZARD" => x.kind = "CALIBRATION"
    /\ x.page \in LeadPages => ~SessionActive(x) /\ ~WizardActive(x) /\ x.down = "NONE"
    /\ x.lead # "IDLE" => x.page = "LEAD_WIZARD"

(* One writer; the wizard, which writes at its end, keeps the link away as *)
(* long as it is on.                                                       *)
Single(x) ==
    /\ x.saving => x.wizard # "COMMITTING" /\ x.lead # "SAVING" /\ env.writer = "NONE"
    /\ x.lead = "SAVING" => x.wizard # "COMMITTING" /\ env.writer = "NONE"
    /\ WizardActive(x) \/ x.page = "WIZARD" => env.writer = "NONE"

Between(x) == Record(x) /\ Current(x) /\ Kinds(x) /\ Single(x)
Good(x) == Between(x) /\ Placed(x)
ProductInv == EnvRecord /\ Good(p)

(* Nothing is active, and nobody waited for.                               *)
Resting(x) ==
    ~SessionActive(x) /\ ~WizardActive(x) /\ x.down = "NONE" /\ x.lead = "IDLE"

(* y is x but for the page, what is asked for, and the runtimes; a result  *)
(* may have been revoked, a save ended.                                    *)
Outside(x, y) ==
    /\ Record(y) /\ y.lead = x.lead /\ y.down = x.down /\ y.target = x.target /\ y.cal = x.cal
    /\ y.shown = "NONE" \/ (y.shown = x.shown /\ y.shownCal = x.shownCal)
    /\ y.saving => x.saving
Kept(x, y) ==
    Outside(x, y) /\ y.kind = x.kind /\ y.session = x.session /\ y.wizard = x.wizard

(* On the same page, what is good stays good; ...                          *)
LEMMA KeptGood ==
    ASSUME NEW x, NEW y, Good(x), Kept(x, y), y.page = x.page
    PROVE  Good(y) /\ (Resting(x) => Resting(y))
BY DEF Good, Between, Placed, Kept, Outside, Current, Kinds, Single, Resting, SessionActive,
       WizardActive

(* ... at rest, on any other page too but that of the wizard; ...          *)
LEMMA KeptResting ==
    ASSUME NEW x, NEW y, Good(x), Resting(x), Kept(x, y), y.page # "WIZARD"
    PROVE  Good(y) /\ Resting(y)
BY DEF Good, Between, Placed, Kept, Outside, Current, Kinds, Single, Resting, SessionActive,
       WizardActive

(* ... the same in the middle of a pass.                                   *)
LEMMA KeptBetween ==
    ASSUME NEW x, NEW y, Between(x), Kept(x, y), y.page # "WIZARD"
    PROVE  Between(y)
BY DEF Between, Kept, Outside, Current, Kinds, Single, SessionActive, WizardActive

(* The small changes.                                                      *)
LEMMA SmallKept ==
    ASSUME NEW x, Record(x)
    PROVE  /\ \A pg : Kept(x, At(x, pg)) /\ At(x, pg).page = pg
           /\ Kept(x, Cleared(x)) /\ Cleared(x).page = x.page
           /\ Kept(x, Invalidated(x)) /\ Invalidated(x).page = x.page
           /\ Invalidated(x).shown = "NONE"
           /\ Kept(x, Edited(x)) /\ Edited(x).page = x.page
           /\ Kept(x, Asked(x)) /\ Asked(x).page = x.page
           /\ Kept(x, ResultOrReady(x)) /\ ResultOrReady(x).page \in {"RESULT", "READY"}
<1>1. \A pg : Kept(x, At(x, pg)) /\ At(x, pg).page = pg
  BY DEF Kept, Outside, Record, Fields, At
<1>2. Kept(x, Cleared(x)) /\ Cleared(x).page = x.page
  BY DEF Kept, Outside, Record, Fields, Cleared
<1>3. Kept(x, Invalidated(x)) /\ Invalidated(x).page = x.page /\ Invalidated(x).shown = "NONE"
  BY DEF Kept, Outside, Record, Fields, Invalidated
<1>4. Kept(x, Edited(x)) /\ Edited(x).page = x.page
  BY DEF Kept, Outside, Record, Fields, Edited
<1>5. Kept(x, Asked(x)) /\ Asked(x).page = x.page
  BY DEF Kept, Outside, Record, Fields, Edited, Asked
<1>6. Kept(x, ResultOrReady(x)) /\ ResultOrReady(x).page \in {"RESULT", "READY"}
  BY <1>1 DEF ResultOrReady
<1>7. QED BY <1>1, <1>2, <1>3, <1>4, <1>5, <1>6

(* Two such steps are one.                                                 *)
LEMMA KeptTwice ==
    ASSUME NEW x, NEW y, NEW z, Kept(x, y), Kept(y, z) PROVE Kept(x, z)
BY DEF Kept, Outside

-----------------------------------------------------------------------------
(* Who may have the chip: with nobody else writing, nobody does.           *)
LEMMA NoWriters ==
    ASSUME EnvRecord, NEW x, NEW mine, Writers(x) \ {mine} = {}
    PROVE  /\ mine # "WIZARD" => x.wizard # "COMMITTING"
           /\ mine # "LEAD" => x.lead # "SAVING"
           /\ mine # "SETTINGS" => ~x.saving
           /\ mine \notin {"UPLOAD", "INSTALL"} => env.writer = "NONE"
<1>1. \A w \in {"UPLOAD", "INSTALL", "WIZARD", "LEAD", "SETTINGS"} : w # mine => w \notin Writers(x)
  OBVIOUS
<1>2. mine # "WIZARD" => x.wizard # "COMMITTING"
  <2>1. x.wizard = "COMMITTING" => "WIZARD" \in Writers(x)
    BY DEF Writers
  <2>2. QED BY <1>1, <2>1
<1>3. mine # "LEAD" => x.lead # "SAVING"
  <2>1. x.lead = "SAVING" => "LEAD" \in Writers(x)
    BY DEF Writers
  <2>2. QED BY <1>1, <2>1
<1>4. mine # "SETTINGS" => ~x.saving
  <2>1. x.saving => "SETTINGS" \in Writers(x)
    BY DEF Writers
  <2>2. QED BY <1>1, <2>1
<1>5. mine \notin {"UPLOAD", "INSTALL"} => env.writer = "NONE"
  <2>1. env.writer = "UPLOAD" => "UPLOAD" \in Writers(x)
    BY DEF Writers
  <2>2. env.writer = "INSTALL" => "INSTALL" \in Writers(x)
    BY DEF Writers
  <2>3. QED BY <1>1, <2>1, <2>2 DEF EnvRecord
<1>6. QED BY <1>2, <1>3, <1>4, <1>5

(* A pass begins a save of the settings only where nobody else writes.     *)
Serviced(x, y) ==
    /\ Record(y) /\ y.page = x.page /\ y.kind = x.kind /\ y.session = x.session
    /\ y.wizard = x.wizard /\ y.lead = x.lead /\ y.down = x.down /\ y.target = x.target
    /\ y.shown = x.shown /\ y.shownCal = x.shownCal /\ y.cal = x.cal

(* The service of the settings, in any state.                              *)
LEMMA ServiceGood ==
    ASSUME EnvRecord, NEW in, NEW x, Between(x), NEW y \in Service(x, in)
    PROVE  /\ Serviced(x, y) /\ Between(y)
           /\ Good(x) => Good(y)
           /\ x.saving => (y.saving => x.saving)
<1>1. Record(x) BY DEF Between
<1>2. /\ Serviced(x, y)
      /\ y.saving => x.saving \/ ~StorageBusy(x, "SETTINGS", in)
  <2>1. CASE x.saving /\ StorageBusy(x, "SETTINGS", in)
    BY <1>1, <2>1 DEF Service, Serviced
  <2>2. CASE x.saving /\ ~StorageBusy(x, "SETTINGS", in)
    BY <1>1, <2>2 DEF Service, Serviced, Record, Fields
  <2>3. CASE ~x.saving /\ x.asked /\ x.edit # "NONE" /\ ~StorageBusy(x, "SETTINGS", in)
    BY <1>1, <2>3 DEF Service, Serviced, Record, Fields
  <2>4. CASE ~x.saving /\ ~(x.asked /\ x.edit # "NONE" /\ ~StorageBusy(x, "SETTINGS", in))
    BY <1>1, <2>4 DEF Service, Serviced, Record, Fields
  <2>5. QED BY <2>1, <2>2, <2>3, <2>4
<1>3. ~StorageBusy(x, "SETTINGS", in) =>
        x.wizard # "COMMITTING" /\ x.lead # "SAVING" /\ env.writer = "NONE"
  BY NoWriters DEF StorageBusy
<1>4. Single(y)
  BY <1>2, <1>3 DEF Between, Single, Serviced, WizardActive
<1>5. Between(y)
  BY <1>2, <1>4 DEF Between, Serviced, Current, Kinds, SessionActive, WizardActive
<1>6. Good(x) => Good(y)
  BY <1>2, <1>5 DEF Good, Placed, Serviced, SessionActive, WizardActive
<1>7. QED BY <1>2, <1>5, <1>6

(* What is shown is revoked with the calibration it was measured under.    *)
LEMMA ViewedGood ==
    ASSUME NEW x, Good(x)
    PROVE  LET v == Viewed(x)
           IN  /\ Good(v) /\ v.page = x.page /\ v.kind = x.kind /\ v.session = x.session
               /\ v.lead = x.lead /\ v.cal = env.cal
<1> DEFINE v == Viewed(x)
<1>1. /\ Record(v) /\ v.page = x.page /\ v.kind = x.kind /\ v.session = x.session
      /\ v.wizard = x.wizard /\ v.lead = x.lead /\ v.down = x.down /\ v.target = x.target
      /\ v.saving = x.saving /\ v.cal = env.cal
      /\ v.shown = "NONE" \/ (v.shown = x.shown /\ v.shownCal = x.shownCal /\ ~Changed(x))
  BY DEF Viewed, Invalidated, Good, Between, Record, Fields
<1>2. Current(v)
  BY <1>1 DEF Current, Changed, Good, Between
<1>3. QED
  BY <1>1, <1>2 DEF Good, Between, Placed, Kinds, Single, SessionActive, WizardActive

-----------------------------------------------------------------------------
(* The end of a runtime.  What is begun is waited for ...                  *)
LEMMA BeginBetween ==
    ASSUME NEW x, NEW target, Between(x), RuntimeActive(x), Plain(target),
           NEW y \in Begin(x, target)
    PROVE  /\ Between(y) /\ y.down # "NONE" /\ y.lead = x.lead /\ y.page = x.page
           /\ y.cal = x.cal /\ y.saving = x.saving
<1>1. CASE x.down # "NONE"
  BY <1>1 DEF Begin
<1>2. CASE x.down = "NONE"
  <2> DEFINE u == [x EXCEPT !.target = target, !.down = x.kind]
  <2>1. /\ Record(u) /\ u.page = x.page /\ u.kind = x.kind /\ u.session = x.session
        /\ u.wizard = x.wizard /\ u.lead = x.lead /\ u.down = x.kind /\ u.target = target
        /\ u.cal = x.cal /\ u.saving = x.saving /\ u.shown = x.shown /\ u.shownCal = x.shownCal
    BY DEF Between, Record, Fields
  <2> HIDE DEF u
  <2>2. u.kind \in {"MEASUREMENT", "CALIBRATION"} => u.down # "NONE"
    BY <2>1
  <2>3. CASE x.kind = "MEASUREMENT"
    <3>1. y \in SessionCancel(u)
      BY <1>2, <2>3 DEF Begin, u
    <3>2. y = u \/ y = [u EXCEPT !.session = "ENDING"] \/ y = Over(u)
      BY <3>1 DEF SessionCancel
    <3>3. /\ Record(y) /\ y.page = x.page /\ y.kind = x.kind
          /\ y.wizard = x.wizard /\ y.lead = x.lead /\ y.down = x.kind /\ y.target = target
          /\ y.cal = x.cal /\ y.saving = x.saving /\ y.shown = x.shown /\ y.shownCal = x.shownCal
      BY <2>1, <3>2 DEF Over, Record, Fields
    <3>4. QED
      BY <2>3, <3>3 DEF Between, Current, Kinds, Single, WizardActive
  <2>4. CASE x.kind # "MEASUREMENT"
    <3>1. y \in WizardCancel(u)
      BY <1>2, <2>4 DEF Begin, u
    <3>2. WizardActive(x) /\ x.kind = "CALIBRATION" /\ ~SessionActive(x)
      BY <2>4 DEF RuntimeActive, Between, Kinds
    <3>3. y = u \/ \E w : w # "COMMITTING" /\ y = [u EXCEPT !.wizard = w]
      BY <3>1 DEF WizardCancel, WizardAt
    <3>4. /\ Record(y) /\ y.page = x.page /\ y.kind = x.kind /\ y.session = x.session
          /\ y.lead = x.lead /\ y.down = x.kind /\ y.target = target
          /\ y.cal = x.cal /\ y.saving = x.saving /\ y.shown = x.shown /\ y.shownCal = x.shownCal
          /\ y.wizard = "COMMITTING" => x.wizard = "COMMITTING"
      BY <2>1, <3>3 DEF Record, Fields
    <3>5. QED
      BY <3>2, <3>4 DEF Between, Current, Kinds, Single, SessionActive
  <2>5. QED BY <2>3, <2>4
<1>3. QED BY <1>1, <1>2

(* ... and the page changes when it has ended, so that nothing is active   *)
(* on the page it changes to.                                              *)
LEMMA DrainedGood ==
    ASSUME NEW x, Between(x), x.lead = "IDLE", ~Draining(x), x.down # "NONE"
    PROVE  /\ Good(Drained(x)) /\ Resting(Drained(x))
           /\ Drained(x).cal = x.cal /\ Drained(x).saving = x.saving
           /\ Plain(Drained(x).page)
<1> DEFINE u == At([x EXCEPT !.down = "NONE", !.target = "STARTUP"], x.target)
           z == Drained(x)
<1>1. /\ Record(u) /\ u.page = x.target /\ u.kind = x.kind /\ u.session = x.session
      /\ u.wizard = x.wizard /\ u.lead = x.lead /\ u.down = "NONE" /\ u.target = "STARTUP"
      /\ u.cal = x.cal /\ u.saving = x.saving /\ u.shown = x.shown /\ u.shownCal = x.shownCal
  BY DEF At, Between, Record, Fields
<1>2. z = Measurement(u)
  BY DEF Drained
<1> HIDE DEF u, z
<1>3. ~SessionActive(x) /\ ~WizardActive(x)
  BY DEF Draining, Between, Kinds
<1>4. /\ Record(z) /\ z.page = x.target /\ z.session = x.session
      /\ z.lead = x.lead /\ z.down = "NONE" /\ z.target = "STARTUP"
      /\ z.cal = x.cal /\ z.saving = x.saving /\ z.shown = x.shown /\ z.shownCal = x.shownCal
      /\ z.wizard \in {x.wizard, "IDLE"}
  BY <1>1, <1>2 DEF Measurement, Record, Fields
<1>5. ~SessionActive(z) /\ ~WizardActive(z) /\ z.page = x.target /\ Plain(x.target)
  BY <1>3, <1>4 DEF SessionActive, WizardActive, WizardBusy, Between, Kinds
<1>6. Good(z) /\ Resting(z)
  BY <1>4, <1>5 DEF Good, Between, Placed, Current, Kinds, Single, Resting, Plain, WizardActive,
     WizardBusy, LeadPages
<1>7. QED BY <1>4, <1>5, <1>6 DEF z

(* What is being taken down makes a step.                                  *)
LEMMA DrainGood ==
    ASSUME NEW in, NEW x, Between(x), x.lead = "IDLE", x.down # "NONE",
           x.page \notin LeadPages, x.page = "WIZARD" => x.kind = "CALIBRATION",
           NEW z \in Drain(x, in)
    PROVE  Good(z) /\ z.cal = x.cal /\ (z.saving => x.saving)
<1>1. CASE ~Draining(x)
  BY <1>1, DrainedGood DEF Drain
<1>2. CASE x.down = "MEASUREMENT" /\ SessionActive(x)
  <2>1. \/ z = Over(x)
        \/ \E session : session # "IDLE" /\ z = [x EXCEPT !.session = session]
    BY <1>2 DEF Drain, Draining, SessionActive
  <2>2. /\ Record(z) /\ z.page = x.page /\ z.kind = x.kind
        /\ z.wizard = x.wizard /\ z.lead = x.lead /\ z.down = x.down /\ z.target = x.target
        /\ z.cal = x.cal /\ z.saving = x.saving /\ z.shown = x.shown /\ z.shownCal = x.shownCal
    BY <2>1 DEF Over, Between, Record, Fields
  <2>3. ~WizardActive(x) /\ x.kind = "MEASUREMENT"
    BY <1>2 DEF Between, Kinds
  <2>4. QED
    BY <1>2, <2>2, <2>3 DEF Good, Between, Placed, Current, Kinds, Single, WizardActive
<1>3. CASE x.down = "CALIBRATION" /\ WizardActive(x)
  <2>1. z \in WizardStep(x, in)
    BY <1>3 DEF Drain, Draining
  <2>2. PICK w : z = [x EXCEPT !.wizard = w] /\ (w = "COMMITTING" => x.wizard = "COMMITTING")
    BY <2>1 DEF WizardStep, WizardAt
  <2>3. /\ Record(z) /\ z.page = x.page /\ z.kind = x.kind /\ z.session = x.session
        /\ z.wizard = w /\ z.lead = x.lead /\ z.down = x.down /\ z.target = x.target
        /\ z.cal = x.cal /\ z.saving = x.saving /\ z.shown = x.shown /\ z.shownCal = x.shownCal
    BY <2>2 DEF Between, Record, Fields
  <2>4. ~SessionActive(x) /\ x.kind = "CALIBRATION"
    BY <1>3 DEF Between, Kinds
  <2>5. QED
    BY <1>3, <2>2, <2>3, <2>4 DEF Good, Between, Placed, Current, Kinds, Single, SessionActive
<1>4. QED BY <1>1, <1>2, <1>3 DEF Draining

(* Something is asked to end, and makes its first step.                    *)
LEMMA TakenDownGood ==
    ASSUME NEW in, NEW x, NEW target, Between(x), RuntimeActive(x), x.lead = "IDLE",
           Plain(target), Plain(x.page), NEW z \in TakenDown(x, target, in)
    PROVE  Good(z) /\ z.cal = x.cal /\ (z.saving => x.saving)
<1>1. PICK y \in Begin(x, target) : z \in Drain(y, in)
  BY DEF TakenDown
<1>2. /\ Between(y) /\ y.down # "NONE" /\ y.lead = x.lead /\ y.page = x.page
      /\ y.cal = x.cal /\ y.saving = x.saving
  BY BeginBetween
<1>3. y.page \notin LeadPages /\ y.page # "WIZARD"
  BY <1>2 DEF Plain
<1>4. QED BY <1>1, <1>2, <1>3, DrainGood

(* What is asked for is forgotten, and nothing else.                       *)
LEMMA ClearedGood ==
    ASSUME NEW x, Good(x) PROVE Good(Cleared(x))
BY SmallKept, KeptGood DEF Good, Between

-----------------------------------------------------------------------------
(* The branches of a pass.                                                 *)
LEMMA FaultGood ==
    ASSUME EnvRecord, NEW in, NEW x, Good(x), x.lead = "IDLE", NEW z \in FaultPass(x, in)
    PROVE  Good(z)
<1> DEFINE f == At(x, "FAULT")
           Ys == IF RuntimeActive(x) THEN TakenDown(f, "FAULT", in) ELSE {f}
<1>1. Record(x) /\ Between(x)
  BY DEF Good, Between
<1>2. Kept(x, f) /\ f.page = "FAULT"
  BY <1>1, SmallKept
<1>3. Between(f) /\ f.lead = "IDLE" /\ (RuntimeActive(x) => RuntimeActive(f))
  <2>1. Between(f)
    BY <1>1, <1>2, KeptBetween
  <2>2. QED
    BY <1>2, <2>1 DEF Kept, Outside, RuntimeActive, SessionActive, WizardActive
<1>4. \A y \in Ys : Good(y)
  <2>1. CASE RuntimeActive(x)
    <3>1. Plain("FAULT")
      BY DEF Plain, LeadPages
    <3> HIDE DEF f
    <3>2. QED BY <1>2, <1>3, <2>1, <3>1, TakenDownGood
  <2>2. CASE ~RuntimeActive(x)
    <3>1. ~SessionActive(x) /\ ~WizardActive(x)
      BY <1>1, <2>2 DEF Between, Kinds, RuntimeActive
    <3>2. ~SessionActive(f) /\ ~WizardActive(f)
      BY <1>2, <3>1 DEF Kept, SessionActive, WizardActive
    <3>3. Placed(f)
      BY <1>2, <1>3, <3>2 DEF Placed, LeadPages
    <3>4. QED BY <1>3, <2>2, <3>3 DEF Good
  <2>3. QED BY <2>1, <2>2
<1>5. PICK y \in Ys : \E u \in (IF y.saving THEN Service(y, in) ELSE {y}) : z = Cleared(u)
  BY DEF FaultPass
<1> HIDE DEF Ys
<1>6. PICK u \in (IF y.saving THEN Service(y, in) ELSE {y}) : z = Cleared(u)
  BY <1>5
<1>7. Good(u)
  BY <1>4, <1>6, ServiceGood DEF Good
<1>8. QED BY <1>6, <1>7, ClearedGood

(* An upload takes the page of the link, and takes down what runs.         *)
LEMMA ResourceGood ==
    ASSUME NEW in, NEW x, Good(x), x.lead = "IDLE", NEW z \in ResourcePass(x, in)
    PROVE  Good(z)
<1> DEFINE f == [At(x, "PC_LINK") EXCEPT !.upload = TRUE]
<1>1. Record(x) /\ Between(x)
  BY DEF Good, Between
<1>2. Kept(x, f) /\ f.page = "PC_LINK"
  BY <1>1 DEF Kept, Outside, Record, Fields, At
<1>3. PICK u \in (IF RuntimeActive(x) THEN TakenDown(f, "PC_LINK", in) ELSE {f}) : z = Cleared(u)
  BY DEF ResourcePass
<1> HIDE DEF f
<1>4. Between(f) /\ f.lead = "IDLE" /\ (RuntimeActive(x) => RuntimeActive(f))
  <2>1. Between(f)
    BY <1>1, <1>2, KeptBetween
  <2>2. QED
    BY <1>2, <2>1 DEF Kept, Outside, RuntimeActive, SessionActive, WizardActive
<1>5. Good(u)
  <2>1. CASE RuntimeActive(x)
    <3>1. Plain("PC_LINK")
      BY DEF Plain, LeadPages
    <3>2. QED BY <1>2, <1>3, <1>4, <2>1, <3>1, TakenDownGood
  <2>2. CASE ~RuntimeActive(x)
    <3>1. ~SessionActive(x) /\ ~WizardActive(x)
      BY <1>1, <2>2 DEF Between, Kinds, RuntimeActive
    <3>2. ~SessionActive(f) /\ ~WizardActive(f)
      BY <1>2, <3>1 DEF Kept, SessionActive, WizardActive
    <3>3. Placed(f)
      BY <1>2, <1>4, <3>2 DEF Placed, LeadPages
    <3>4. QED BY <1>3, <1>4, <2>2, <3>3 DEF Good
  <2>3. QED BY <2>1, <2>2
<1>6. QED BY <1>3, <1>5, ClearedGood

(* Off the pages of the runtimes, with nobody waited for, nothing is       *)
(* active: the pages that only show and edit keep it so.                   *)
LEMMA OffPage ==
    ASSUME NEW x, Good(x), x.down = "NONE", x.page \notin LeadPages \cup {"MEASURING", "WIZARD"}
    PROVE  Resting(x)
BY DEF Good, Between, Placed, Kinds, Resting, LeadPages

(* The menus, ...                                                          *)
LEMMA MenusKept ==
    ASSUME NEW in, NEW x, Record(x), x.page # "WIZARD", NEW z \in Menus(x, in)
    PROVE  Kept(x, z) /\ z.page # "WIZARD"
<1>1. Kept(x, x)
  BY DEF Kept, Outside
<1>2. Kept(x, Edited(x)) /\ Edited(x).page = x.page /\ Record(Edited(x))
  BY SmallKept DEF Kept, Outside
<1>3. Kept(x, At(Edited(x), "SETTINGS")) /\ At(Edited(x), "SETTINGS").page = "SETTINGS"
  BY <1>2, SmallKept, KeptTwice
<1>4. /\ Kept(x, At([x EXCEPT !.asked = TRUE], "SETTINGS"))
      /\ At([x EXCEPT !.asked = TRUE], "SETTINGS").page = "SETTINGS"
  BY DEF Kept, Outside, Record, Fields, At
<1>5. \/ \E pg : pg # "WIZARD" /\ z = At(x, pg)
      \/ z \in {x, ResultOrReady(x), Asked(x), Edited(x), At(Edited(x), "SETTINGS"),
                At([x EXCEPT !.asked = TRUE], "SETTINGS")}
  BY DEF Menus
<1>6. QED BY <1>1, <1>2, <1>3, <1>4, <1>5, SmallKept

(* ... and the pages of information, change the page only.                 *)
LEMMA InformationKept ==
    ASSUME NEW in, NEW x, Record(x), x.page # "WIZARD", NEW z \in Information(x, in)
    PROVE  Kept(x, z) /\ z.page # "WIZARD"
<1>1. Kept(x, x)
  BY DEF Kept, Outside
<1>2. /\ Kept(x, At([x EXCEPT !.upload = FALSE], "STARTUP"))
      /\ At([x EXCEPT !.upload = FALSE], "STARTUP").page = "STARTUP"
  BY DEF Kept, Outside, Record, Fields, At
<1>3. \/ \E pg : pg # "WIZARD" /\ z = At(x, pg)
      \/ z \in {x, At([x EXCEPT !.upload = FALSE], "STARTUP")}
  BY DEF Information
<1>4. QED BY <1>1, <1>2, <1>3, SmallKept

(* A wizard starts where nothing else is active and nobody writes.         *)
LEMMA TryWizardGood ==
    ASSUME EnvRecord, NEW in, NEW x, Good(x), Resting(x), x.page # "WIZARD",
           NEW z \in TryWizard(x, in)
    PROVE  Good(z)
<1>1. Record(x)
  BY DEF Good, Between
<1>2. CASE x.saving \/ StorageBusy(x, "SETTINGS", in)
  <2>1. z = [x EXCEPT !.calibrate = TRUE]
    BY <1>2 DEF TryWizard
  <2>2. Kept(x, z) /\ z.page = x.page
    BY <1>1, <2>1 DEF Kept, Outside, Record, Fields
  <2>3. QED BY <2>2, KeptGood
<1>3. CASE ~x.saving /\ ~StorageBusy(x, "SETTINGS", in)
  <2>1. env.writer = "NONE"
    BY <1>3, NoWriters DEF StorageBusy
  <2> DEFINE y == [Calibration(x) EXCEPT !.calibrate = FALSE]
  <2>2. Outside(x, y) /\ y.page = x.page /\ y.session = x.session /\ y.wizard = x.wizard
    BY <1>1 DEF Calibration, Outside, Record, Fields
  <2>3. ~SessionActive(y) /\ ~WizardActive(y)
    BY <2>2 DEF Resting, SessionActive, WizardActive
  <2>4. \/ z = x
        \/ y.kind = "CALIBRATION" /\ z = At([y EXCEPT !.wizard = "PROMPT"], "WIZARD")
        \/ z = [y EXCEPT !.wizard = "FAILED"]
    BY <1>3, <2>3 DEF TryWizard
  <2> HIDE DEF y
  <2>5. CASE y.kind = "CALIBRATION" /\ z = At([y EXCEPT !.wizard = "PROMPT"], "WIZARD")
    <3>1. /\ Record(z) /\ z.page = "WIZARD" /\ z.kind = "CALIBRATION" /\ z.session = y.session
          /\ z.wizard = "PROMPT" /\ z.lead = y.lead /\ z.down = y.down /\ z.target = y.target
          /\ z.cal = y.cal /\ z.saving = y.saving /\ z.shown = y.shown /\ z.shownCal = y.shownCal
      BY <2>2, <2>5 DEF At, Outside, Record, Fields
    <3>2. z.down = "NONE" /\ z.lead = "IDLE" /\ ~z.saving /\ Plain(z.target) /\ Current(z)
      BY <1>3, <2>2, <3>1 DEF Resting, Outside, Good, Between, Kinds, Current
    <3>3. ~SessionActive(z)
      BY <2>3, <3>1 DEF SessionActive
    <3>4. QED
      BY <2>1, <3>1, <3>2, <3>3 DEF Good, Between, Placed, Kinds, Single, LeadPages
  <2>6. CASE z = [y EXCEPT !.wizard = "FAILED"]
    <3>1. Outside(x, z) /\ z.page = x.page /\ z.session = x.session /\ z.wizard = "FAILED"
      BY <2>2, <2>6 DEF Outside, Record, Fields
    <3>2. ~SessionActive(z) /\ ~WizardActive(z)
      BY <2>3, <3>1, <2>2 DEF SessionActive, WizardActive, WizardBusy
    <3>3. QED
      BY <1>3, <2>1, <3>1, <3>2 DEF Good, Between, Placed, Kinds, Single, Current, Outside, Resting
  <2>7. QED BY <2>4, <2>5, <2>6
<1>4. QED BY <1>2, <1>3

(* From the status of the calibration the wizard is entered, at rest.      *)
LEMMA CalibrationStatusGood ==
    ASSUME EnvRecord, NEW in, NEW x, Good(x), Resting(x), x.page # "WIZARD",
           NEW z \in CalibrationStatus(x, in)
    PROVE  Good(z)
<1>1. Record(x)
  BY DEF Good, Between
<1>2. \/ \E pg : pg # "WIZARD" /\ z = At(x, pg)
      \/ z \in {x, Asked(x)}
      \/ z \in TryWizard(x, in)
  BY DEF CalibrationStatus
<1>3. QED BY <1>1, <1>2, SmallKept, KeptResting, KeptGood, TryWizardGood

-----------------------------------------------------------------------------
(* The page of the wizard: it commits only where it did, or no save is     *)
(* under way.                                                              *)
LEMMA WizardMoved ==
    ASSUME NEW x, Good(x), x.page = "WIZARD", NEW w, NEW y, y = [x EXCEPT !.wizard = w],
           w = "COMMITTING" => x.wizard = "COMMITTING" \/ ~x.saving
    PROVE  Good(y) /\ y.page = "WIZARD" /\ y.down = x.down
<1>1. /\ Record(y) /\ y.page = x.page /\ y.kind = x.kind /\ y.session = x.session
      /\ y.wizard = w /\ y.lead = x.lead /\ y.down = x.down /\ y.target = x.target
      /\ y.cal = x.cal /\ y.saving = x.saving /\ y.shown = x.shown /\ y.shownCal = x.shownCal
  BY DEF Good, Between, Record, Fields
<1>2. x.lead = "IDLE" /\ x.kind = "CALIBRATION" /\ ~SessionActive(x) /\ env.writer = "NONE"
  BY DEF Good, Between, Placed, Kinds, Single
<1>3. Between(y)
  BY <1>1, <1>2 DEF Good, Between, Current, Kinds, Single, SessionActive
<1>4. Placed(y)
  BY <1>1, <1>2 DEF Placed, SessionActive, LeadPages
<1>5. QED BY <1>1, <1>3, <1>4 DEF Good

(* A wizard that is over leaves its page; ...                              *)
LEMMA WizardOverGood ==
    ASSUME NEW x, Good(x), x.page = "WIZARD", x.down = "NONE" PROVE Good(WizardOver(x))
<1> DEFINE z == WizardOver(x)
<1>1. CASE x.wizard \notin {"COMPLETE", "CANCELED"}
  BY <1>1 DEF WizardOver
<1>2. CASE x.wizard \in {"COMPLETE", "CANCELED"}
  <2>1. /\ ~WizardActive(x) /\ x.kind = "CALIBRATION" /\ x.lead = "IDLE" /\ ~SessionActive(x)
        /\ env.writer = "NONE"
    BY <1>2 DEF Good, Between, Placed, Kinds, Single, WizardActive, WizardBusy
  <2>2. PICK pg \in {"READY", "CAL_REQUIRED", "CAL_STATUS"} : z = At(Measurement(x), pg)
    BY <1>2 DEF WizardOver
  <2>3. /\ Record(z) /\ z.page = pg /\ z.kind = "MEASUREMENT" /\ z.session = x.session
        /\ z.wizard = "IDLE" /\ z.lead = x.lead /\ z.down = x.down /\ z.target = x.target
        /\ z.cal = x.cal /\ z.saving = x.saving /\ z.shown = x.shown /\ z.shownCal = x.shownCal
    BY <2>1, <2>2 DEF Measurement, At, Good, Between, Record, Fields
  <2> HIDE DEF z
  <2>4. ~SessionActive(z) /\ ~WizardActive(z)
    BY <2>1, <2>3 DEF SessionActive, WizardActive, WizardBusy
  <2>5. QED
    BY <2>1, <2>3, <2>4 DEF Good, Between, Placed, Current, Kinds, Single, LeadPages, z
<1>3. QED BY <1>1, <1>2

(* ... on its page it goes on, or is asked to end.                         *)
LEMMA WizardPageGood ==
    ASSUME NEW in, NEW x, Good(x), x.page = "WIZARD", x.down = "NONE",
           NEW z \in WizardPage(x, in)
    PROVE  Good(z)
<1> DEFINE Ys == CASE in.request = "MENU" -> WizardCancel(x)
                   [] in.request = "CLICK" -> WizardConfirm(x)
                   [] OTHER -> {x}
<1>1. PICK y \in Ys : \E u \in WizardStep(y, in) : z = WizardOver(u)
  BY DEF WizardPage
<1>2. \/ y = x
      \/ \E w : y = [x EXCEPT !.wizard = w] /\ (w = "COMMITTING" => ~x.saving)
  <2>1. y = x \/ y \in WizardCancel(x) \/ y \in WizardConfirm(x)
    BY <1>1
  <2>2. y \in WizardCancel(x) => y = x \/ \E w : w # "COMMITTING" /\ y = [x EXCEPT !.wizard = w]
    BY DEF WizardCancel, WizardAt
  <2>3. ASSUME y \in WizardConfirm(x)
        PROVE  y = x \/ \E w : y = [x EXCEPT !.wizard = w] /\ (w = "COMMITTING" => ~x.saving)
    <3>1. CASE x.saving \/ x.asked
      <4>1. y = x \/ \E w \in {"PROMPT", "CAPTURE", "FAILED", "CANCELED"} : y = [x EXCEPT !.wizard = w]
        BY <2>3, <3>1 DEF WizardConfirm, WizardAt
      <4>2. QED BY <4>1
    <3>2. CASE ~(x.saving \/ x.asked)
      <4>1. y = x \/ \E w : y = [x EXCEPT !.wizard = w]
        BY <2>3, <3>2 DEF WizardConfirm, WizardAt
      <4>2. QED BY <3>2, <4>1
    <3>3. QED BY <3>1, <3>2
  <2>4. QED BY <2>1, <2>2, <2>3
<1> HIDE DEF Ys
<1>3. Good(y) /\ y.page = "WIZARD" /\ y.down = "NONE"
  <2>1. CASE \E w : y = [x EXCEPT !.wizard = w] /\ (w = "COMMITTING" => ~x.saving)
    BY <2>1, WizardMoved
  <2>2. QED BY <1>2, <2>1
<1>4. PICK u \in WizardStep(y, in) : z = WizardOver(u)
  BY <1>1
<1>5. PICK w : u = [y EXCEPT !.wizard = w] /\ (w = "COMMITTING" => y.wizard = "COMMITTING")
  <2> DEFINE Ws == (IF in.progress THEN {} ELSE {y.wizard}) \cup
                      CASE y.wizard = "CAPTURE" -> {"PROMPT", "FAILED"}
                        [] y.wizard = "COMMITTING" -> {"COMPLETE", "FAILED"}
                        [] y.wizard = "CANCELING" -> {"CANCELED", "FAILED"}
                        [] OTHER -> {y.wizard}
  <2>1. "COMMITTING" \in Ws => y.wizard = "COMMITTING"
    OBVIOUS
  <2>2. \E w \in Ws : u = [y EXCEPT !.wizard = w]
    BY <1>4 DEF WizardStep, WizardAt
  <2> HIDE DEF Ws
  <2>3. QED BY <2>1, <2>2
<1>6. Good(u) /\ u.page = "WIZARD" /\ u.down = "NONE"
  BY <1>3, <1>5, WizardMoved
<1>7. QED BY <1>4, <1>6, WizardOverGood

(* A session publishes under the calibration the view has just named.      *)
LEMMA SessionStepGood ==
    ASSUME NEW in, NEW x, Good(x), x.down = "NONE", SessionActive(x), x.cal # 0,
           NEW y \in SessionStep(x, in)
    PROVE  Good(At(y, IF SessionActive(y) THEN "MEASURING" ELSE "RESULT"))
<1> DEFINE pg == IF SessionActive(y) THEN "MEASURING" ELSE "RESULT"
           z == At(y, pg)
<1>1. Record(x) /\ Between(x) /\ x.kind = "MEASUREMENT" /\ x.page = "MEASURING"
  BY DEF Good, Between, Kinds, Placed
<1>2. ~WizardActive(x) /\ x.lead = "IDLE"
  BY <1>1 DEF Good, Between, Kinds, Placed
<1> DEFINE Same(u) == /\ Record(u) /\ u.kind = x.kind /\ u.wizard = x.wizard /\ u.lead = x.lead
                      /\ u.down = x.down /\ u.target = x.target /\ u.cal = x.cal
                      /\ u.saving = x.saving /\ u.bound = x.bound
           Shows(u) == /\ Record(u) /\ u.kind = x.kind /\ u.wizard = x.wizard /\ u.lead = x.lead
                       /\ u.down = x.down /\ u.target = x.target /\ u.cal = x.cal
                       /\ u.saving = x.saving /\ Current(u)
<1>3. \A kind : Same(Published(x, kind)) /\ Current(Published(x, kind))
  <2> TAKE kind
  <2>1. CASE x.bound # x.cal
    BY <1>1, <2>1 DEF Published, Invalidated, Current, Record, Fields
  <2>2. CASE x.bound = x.cal
    BY <1>1, <2>2 DEF Published, Current, Record, Fields
  <2>3. QED BY <2>1, <2>2
<1>4. \A u : Same(u) /\ Current(u) => Shows(u) /\ Shows(Over(u))
  BY DEF Over, Current, Record, Fields
<1>5. Shows(x)
  BY <1>1 DEF Between
<1>6. Shows([Invalidated(Over(x)) EXCEPT !.shown = "FINAL", !.shownCal = x.cal])
  BY <1>1 DEF Over, Invalidated, Current, Record, Fields
<1>7. Shows(y)
  <2>1. y \in {x, Over(x), Over(Published(x, "FINAL")), Published(x, "PARTIAL"),
               [Invalidated(Over(x)) EXCEPT !.shown = "FINAL", !.shownCal = x.cal]}
    BY DEF SessionStep
  <2>2. Shows(Over(x))
    BY <1>1, <1>4 DEF Between
  <2>3. Shows(Over(Published(x, "FINAL"))) /\ Shows(Published(x, "PARTIAL"))
    BY <1>3, <1>4
  <2> HIDE DEF Shows
  <2>4. QED BY <1>5, <1>6, <2>1, <2>2, <2>3
<1>8. /\ Record(z) /\ z.page = pg /\ z.session = y.session /\ z.kind = x.kind
      /\ z.wizard = x.wizard /\ z.lead = x.lead /\ z.down = x.down /\ z.target = x.target
      /\ z.cal = x.cal /\ z.saving = x.saving /\ z.shown = y.shown /\ z.shownCal = y.shownCal
  BY <1>7 DEF At, Record, Fields
<1>9. Current(z)
  BY <1>7, <1>8 DEF Current
<1> HIDE DEF z
<1>10. SessionActive(z) => z.page = "MEASURING"
  BY <1>8 DEF SessionActive
<1>11. z.page \in {"MEASURING", "RESULT"} /\ ~WizardActive(z)
  BY <1>2, <1>8 DEF WizardActive
<1>12. QED
  BY <1>1, <1>2, <1>8, <1>9, <1>10, <1>11
     DEF Good, Between, Placed, Kinds, Single, WizardActive, LeadPages, z

(* The session is started, at rest.                                        *)
LEMMA StartGood ==
    ASSUME NEW x, Good(x), Resting(x), x.page # "WIZARD", NEW z \in StartMeasurement(x)
    PROVE  Good(z)
<1>1. Record(x)
  BY DEF Good, Between
<1>2. CASE Measurement(x).kind # "MEASUREMENT"
  <2>1. z = At(x, "FAULT")
    BY <1>2 DEF StartMeasurement
  <2>2. QED BY <1>1, <2>1, SmallKept, KeptResting
<1>3. CASE Measurement(x).kind = "MEASUREMENT"
  <2> DEFINE y == [Measurement(x) EXCEPT !.measure = FALSE]
  <2>1. Outside(x, y) /\ y.page = x.page /\ y.kind = "MEASUREMENT" /\ y.session = x.session
        /\ y.wizard \in {x.wizard, "IDLE"}
    BY <1>1, <1>3 DEF Measurement, Outside, Record, Fields
  <2>2. z = y \/ z = [At(Invalidated(y), "MEASURING") EXCEPT !.session = "RUN", !.bound = env.cal]
    BY <1>3 DEF StartMeasurement
  <2> HIDE DEF y
  <2>3. ~SessionActive(y) /\ ~WizardActive(y) /\ y.lead = "IDLE" /\ y.down = "NONE"
    BY <2>1 DEF Resting, SessionActive, WizardActive, WizardBusy, Outside
  <2>4. Good(y)
    BY <2>1, <2>3 DEF Good, Between, Placed, Kinds, Single, Current, Outside, WizardActive,
       WizardBusy
  <2>5. CASE z = [At(Invalidated(y), "MEASURING") EXCEPT !.session = "RUN", !.bound = env.cal]
    <3>1. /\ Record(z) /\ z.page = "MEASURING" /\ z.kind = "MEASUREMENT" /\ z.session = "RUN"
          /\ z.wizard = y.wizard /\ z.lead = y.lead /\ z.down = y.down /\ z.target = y.target
          /\ z.cal = y.cal /\ z.saving = y.saving /\ z.shown = "NONE"
      BY <2>1, <2>5 DEF At, Invalidated, Outside, Record, Fields
    <3>2. ~WizardActive(z)
      BY <2>3, <3>1 DEF WizardActive
    <3>3. QED
      BY <2>3, <2>4, <3>1, <3>2 DEF Good, Between, Placed, Kinds, Single, Current, WizardActive,
         LeadPages
  <2>6. QED BY <2>2, <2>4, <2>5
<1>4. QED BY <1>2, <1>3

(* The page that waits for a measurement, ...                              *)
LEMMA IdleGood ==
    ASSUME NEW in, NEW x, Good(x), Resting(x), x.page # "WIZARD", NEW z \in Idle(x, in)
    PROVE  Good(z)
<1>1. Record(x)
  BY DEF Good, Between
<1> DEFINE i == At(Invalidated(x), "READY")
           m == [x EXCEPT !.measure = TRUE]
<1>2. \/ z \in {At(x, "MENU"), Cleared(i), Cleared(x), ResultOrReady(m), ResultOrReady(x)}
      \/ z \in StartMeasurement(x)
  BY DEF Idle
<1>3. Good(i)
  <2>1. Kept(x, Invalidated(x)) /\ Record(Invalidated(x))
    BY <1>1, SmallKept DEF Kept, Outside
  <2>2. Kept(x, i) /\ i.page = "READY"
    BY <2>1, SmallKept, KeptTwice
  <2>3. QED BY <2>2, KeptResting
<1>4. Good(ResultOrReady(m))
  <2>1. Kept(x, m) /\ Record(m)
    BY <1>1 DEF Kept, Outside, Record, Fields
  <2>2. Kept(x, ResultOrReady(m)) /\ ResultOrReady(m).page \in {"RESULT", "READY"}
    BY <2>1, SmallKept, KeptTwice
  <2>3. QED BY <2>2, KeptResting
<1> HIDE DEF i, m
<1>5. Good(At(x, "MENU")) /\ Good(ResultOrReady(x)) /\ Good(Cleared(x)) /\ Good(Cleared(i))
  BY <1>1, <1>3, SmallKept, KeptResting, ClearedGood
<1>6. QED BY <1>2, <1>4, <1>5, StartGood

(* ... what comes instead without a calibration, ...                       *)
LEMMA UncalibratedGood ==
    ASSUME EnvRecord, NEW in, NEW x, Good(x), x.down = "NONE",
           x.page \notin LeadPages \cup {"WIZARD"}, NEW z \in Uncalibrated(x, in)
    PROVE  Good(z)
<1>1. Between(x) /\ Record(x) /\ x.lead = "IDLE"
  BY DEF Good, Between, Placed, LeadPages
<1>2. CASE x.kind = "MEASUREMENT" /\ SessionActive(x)
  <2>1. z \in TakenDown(x, "CAL_REQUIRED", in)
    BY <1>2 DEF Uncalibrated
  <2>2. RuntimeActive(x) /\ Plain("CAL_REQUIRED") /\ Plain(x.page)
    BY <1>2 DEF RuntimeActive, Plain, LeadPages
  <2>3. QED BY <1>1, <2>1, <2>2, TakenDownGood
<1>3. CASE ~(x.kind = "MEASUREMENT" /\ SessionActive(x))
  <2>1. Resting(x)
    BY <1>1, <1>3 DEF Resting, Good, Between, Kinds, Placed
  <2>2. z = At(x, "CAL_REQUIRED") \/ z \in TryWizard(x, in)
    BY <1>3 DEF Uncalibrated
  <2>3. QED BY <1>1, <2>1, <2>2, SmallKept, KeptResting, TryWizardGood
<1>4. QED BY <1>2, <1>3

(* ... and the page on which it runs.                                      *)
LEMMA MeasuringGood ==
    ASSUME NEW in, NEW x, Good(x), x.down = "NONE", SessionActive(x), x.cal # 0,
           NEW z \in Measuring(x, in)
    PROVE  Good(z)
<1>1. Record(x) /\ Between(x) /\ x.kind = "MEASUREMENT" /\ x.page = "MEASURING" /\ x.lead = "IDLE"
  BY DEF Good, Between, Kinds, Placed
<1>2. CASE in.request \in {"CLICK", "MENU"}
  <2> DEFINE i == Invalidated(x)
  <2>1. PICK y \in TakenDown(i, "READY", in) : z = Cleared(y)
    BY <1>2 DEF Measuring
  <2>2. Kept(x, i) /\ i.page = "MEASURING"
    BY <1>1, SmallKept
  <2> HIDE DEF i
  <2>3. Between(i) /\ i.lead = "IDLE" /\ RuntimeActive(i)
    BY <1>1, <2>2, KeptBetween DEF Kept, Outside, RuntimeActive, SessionActive
  <2>4. Plain("READY") /\ Plain(i.page)
    BY <2>2 DEF Plain, LeadPages
  <2>5. Good(y)
    BY <2>1, <2>3, <2>4, TakenDownGood
  <2>6. QED BY <2>1, <2>5, ClearedGood
<1>3. CASE in.request \notin {"CLICK", "MENU"}
  <2>1. PICK y \in SessionStep(x, in) :
            z = At(y, IF SessionActive(y) THEN "MEASURING" ELSE "RESULT")
    BY <1>3 DEF Measuring
  <2>2. QED BY <2>1, SessionStepGood
<1>4. QED BY <1>2, <1>3

(* So of every page.                                                       *)
LEMMA PageGood ==
    ASSUME EnvRecord, NEW in, NEW x, Good(x), x.down = "NONE", x.page \notin LeadPages,
           x.cal = env.cal, NEW z \in Page(x, in)
    PROVE  Good(z)
<1>1. Record(x)
  BY DEF Good, Between
<1>2. CASE x.page \in {"STARTUP", "SELF_TEST"}
  <2>1. z \in {At(x, "SELF_TEST"), At(x, "CAL_CHECK")}
    BY <1>2 DEF Page
  <2>2. Resting(x)
    BY <1>2, OffPage DEF LeadPages
  <2>3. QED BY <1>1, <2>1, <2>2, SmallKept, KeptResting
<1>3. CASE x.page \in {"MENU", "SETTINGS", "EDIT", "MAINTENANCE"}
  <2>1. z \in Menus(x, in)
    BY <1>3 DEF Page
  <2>2. Resting(x) /\ x.page # "WIZARD"
    BY <1>3, OffPage DEF LeadPages
  <2>3. QED BY <1>1, <2>1, <2>2, MenusKept, KeptResting
<1>4. CASE x.page \in {"INFO", "PC_LINK"}
  <2>1. PICK y \in Information(x, in) : z = Cleared(y)
    BY <1>4 DEF Page
  <2>2. Resting(x) /\ x.page # "WIZARD"
    BY <1>4, OffPage DEF LeadPages
  <2>3. QED BY <1>1, <2>1, <2>2, InformationKept, KeptResting, ClearedGood
<1>5. CASE x.page = "CAL_STATUS"
  <2>1. z \in CalibrationStatus(x, in)
    BY <1>5 DEF Page
  <2>2. Resting(x)
    BY <1>5, OffPage DEF LeadPages
  <2>3. QED BY <1>5, <2>1, <2>2, CalibrationStatusGood
<1>6. CASE x.page = "WIZARD"
  <2>1. z \in WizardPage(x, in)
    BY <1>6 DEF Page
  <2>2. QED BY <1>6, <2>1, WizardPageGood
<1>7. CASE x.page \notin {"STARTUP", "SELF_TEST", "MENU", "SETTINGS", "EDIT", "MAINTENANCE",
                          "INFO", "PC_LINK", "CAL_STATUS", "WIZARD"}
  <2>1. (x.kind = "MEASUREMENT" /\ SessionActive(x)) \/ Resting(x)
    BY <1>7 DEF Good, Between, Kinds, Placed, Resting, LeadPages
  <2>2. CASE env.cal = 0
    <3>1. z \in Uncalibrated(x, in)
      BY <1>7, <2>2 DEF Page
    <3>2. QED BY <1>7, <3>1, UncalibratedGood
  <2>3. CASE env.cal # 0 /\ x.kind = "MEASUREMENT" /\ SessionActive(x)
    <3>1. z \in Measuring(x, in)
      BY <1>7, <2>3 DEF Page
    <3>2. QED BY <2>3, <3>1, MeasuringGood
  <2>4. CASE env.cal # 0 /\ ~(x.kind = "MEASUREMENT" /\ SessionActive(x))
    <3>1. z = At(x, "BLOCKED") \/ z \in Idle(x, in)
      BY <1>7, <2>4 DEF Page
    <3>2. QED BY <1>1, <1>7, <2>1, <2>4, <3>1, SmallKept, KeptResting, IdleGood
  <2>5. QED BY <2>2, <2>3, <2>4
<1>8. QED BY <1>2, <1>3, <1>4, <1>5, <1>6, <1>7

(* A measurement that is not allowed any more is taken down.               *)
LEMMA RevokedGood ==
    ASSUME NEW in, NEW x, Good(x), x.page \notin LeadPages,
           x.kind = "MEASUREMENT", SessionActive(x), NEW z \in Revoked(x, in)
    PROVE  Good(z)
<1>1. PICK target \in {"READY", "BLOCKED", "CAL_REQUIRED"} :
        \E y \in TakenDown(At(x, target), target, in) : z = Cleared(y)
  BY DEF Revoked
<1> DEFINE t == At(x, target)
<1>2. PICK y \in TakenDown(t, target, in) : z = Cleared(y)
  BY <1>1
<1>3. Record(x) /\ Between(x) /\ x.lead = "IDLE"
  BY DEF Good, Between, Placed, LeadPages
<1>4. Kept(x, t) /\ t.page = target
  BY <1>3, SmallKept
<1> HIDE DEF t
<1>5. Plain(target)
  BY <1>1 DEF Plain, LeadPages
<1>6. Between(t) /\ t.lead = "IDLE" /\ RuntimeActive(t)
  <2>1. Between(t)
    BY <1>3, <1>4, <1>5, KeptBetween DEF Plain
  <2>2. QED BY <1>3, <1>4, <2>1 DEF Kept, Outside, RuntimeActive, SessionActive
<1>7. Good(y)
  BY <1>2, <1>4, <1>5, <1>6, TakenDownGood
<1>8. QED BY <1>2, <1>7, ClearedGood

(* The pass, off the pages of the leads ...                                *)
LEMMA ProductPassGood ==
    ASSUME EnvRecord, NEW in, NEW x, Good(x), x.page \notin LeadPages,
           NEW z \in ProductPass(x, in)
    PROVE  Good(z)
<1> DEFINE v == Viewed(x)
<1>1. /\ Good(v) /\ v.page = x.page /\ v.kind = x.kind /\ v.session = x.session
      /\ v.lead = x.lead /\ v.cal = env.cal
  BY ViewedGood
<1>2. v.lead = "IDLE"
  BY <1>1 DEF Good, Placed, LeadPages
<1> HIDE DEF v
<1>3. CASE env.fault
  BY <1>1, <1>2, <1>3, FaultGood DEF ProductPass, v
<1>4. CASE ~env.fault /\ ~env.resource
  BY <1>1, <1>2, <1>4, ResourceGood DEF ProductPass, v
<1>5. CASE ~env.fault /\ env.resource
  <2> DEFINE Branch(s) ==
        CASE x.kind = "MEASUREMENT" /\ SessionActive(x) /\
                (Changed(x) \/ env.schedule # "ALLOWED") -> Revoked(s, in)
          [] Draining(s) -> {Cleared(y) : y \in Drain(s, in)}
          [] OTHER -> Page(Drained(s), in)
  <2>1. ProductPass(x, in) = UNION {Branch(s) : s \in Service(v, in)}
    BY <1>5 DEF ProductPass, v
  <2>2. PICK s \in Service(v, in) : z \in Branch(s)
    BY <2>1
  <2>3. Serviced(v, s) /\ Good(s)
    BY <1>1, <2>2, ServiceGood DEF Good
  <2>4. /\ s.page = x.page /\ s.kind = x.kind /\ SessionActive(s) = SessionActive(x)
        /\ s.lead = "IDLE" /\ s.cal = env.cal /\ Between(s)
    BY <1>1, <1>2, <2>3 DEF Serviced, SessionActive, Good
  <2>5. CASE x.kind = "MEASUREMENT" /\ SessionActive(x) /\ z \in Revoked(s, in)
    BY <2>3, <2>4, <2>5, RevokedGood
  <2>6. CASE Draining(s) /\ \E y \in Drain(s, in) : z = Cleared(y)
    <3>1. PICK y \in Drain(s, in) : z = Cleared(y)
      BY <2>6
    <3>2. s.down # "NONE"
      BY <2>6 DEF Draining
    <3>3. s.page \notin LeadPages /\ (s.page = "WIZARD" => s.kind = "CALIBRATION")
      BY <2>3, <2>4 DEF Good, Placed
    <3>4. Good(y)
      BY <2>4, <3>1, <3>2, <3>3, DrainGood
    <3>5. QED BY <3>1, <3>4, ClearedGood
  <2>7. CASE ~Draining(s) /\ z \in Page(Drained(s), in)
    <3> DEFINE d == Drained(s)
    <3>1. /\ Good(d) /\ d.down = "NONE" /\ d.page \notin LeadPages /\ d.cal = env.cal
      <4>1. CASE s.down = "NONE"
        BY <2>3, <2>4, <4>1 DEF Drained
      <4>2. CASE s.down # "NONE"
        BY <2>4, <2>7, <4>2, DrainedGood DEF Resting, Plain
      <4>3. QED BY <4>1, <4>2
    <3> HIDE DEF d
    <3>2. QED BY <2>7, <3>1, PageGood DEF d
  <2>8. \/ x.kind = "MEASUREMENT" /\ SessionActive(x) /\ z \in Revoked(s, in)
        \/ Draining(s) /\ \E y \in Drain(s, in) : z = Cleared(y)
        \/ ~Draining(s) /\ z \in Page(Drained(s), in)
    BY <2>2
  <2>9. QED BY <2>5, <2>6, <2>7, <2>8
<1>6. QED BY <1>3, <1>4, <1>5

(* ... and on them, where no runtime is active.                            *)
LEMMA LeadPassGood ==
    ASSUME EnvRecord, NEW in, NEW x, Good(x), x.page \in LeadPages, NEW z \in LeadPass(x, in)
    PROVE  Good(z)
<1> DEFINE Ss == IF x.page = "LEAD_MENU" /\ (~env.fault \/ x.saving) THEN Service(x, in) ELSE {x}
           Step(s) == IF s.page = "LEAD_MENU" THEN LeadMenu(s, in) ELSE LeadWizard(s, in)
           Left(y) == IF LeadBlocked /\ y.lead = "IDLE"
                      THEN At(y, IF env.fault THEN "FAULT" ELSE "CAL_REQUIRED") ELSE y
<1>1. LeadPass(x, in) = {Cleared(Left(y)) : y \in UNION {Step(s) : s \in Ss}}
  BY DEF LeadPass
<1>2. PICK s \in Ss : \E y \in Step(s) : z = Cleared(Left(y))
  BY <1>1
<1>3. Good(s) /\ s.page = x.page
  BY <1>2, ServiceGood DEF Good, Serviced
<1> HIDE DEF Ss
<1>10. PICK y \in Step(s) : z = Cleared(Left(y))
  BY <1>2
<1>4. /\ Record(s) /\ Between(s) /\ ~SessionActive(s) /\ ~WizardActive(s) /\ s.down = "NONE"
      /\ s.wizard # "COMMITTING"
  BY <1>3 DEF Good, Between, Placed, WizardActive, WizardBusy
<1>5. \A u : Kept(s, u) /\ u.page # "WIZARD" /\ s.lead = "IDLE" => Good(u)
  BY <1>3, <1>4, KeptResting DEF Resting
(* The lead calibration is all that changes. *)
<1> DEFINE Leads(u) ==
        /\ Record(u) /\ u.page = "LEAD_WIZARD" /\ u.kind = s.kind /\ u.session = s.session
        /\ u.wizard = s.wizard /\ u.down = s.down /\ u.target = s.target /\ u.cal = s.cal
        /\ u.saving = s.saving /\ Current(u)
<1>6. \A u : /\ Leads(u)
             /\ u.lead = "SAVING" => ~StorageBusy(s, "LEAD", in)
             => Good(u)
  <2> SUFFICES ASSUME NEW u, Leads(u), u.lead = "SAVING" => ~StorageBusy(s, "LEAD", in)
               PROVE  Good(u)
    OBVIOUS
  <2>1. ~SessionActive(u) /\ ~WizardActive(u) /\ u.down = "NONE" /\ u.wizard # "COMMITTING"
    BY <1>4 DEF SessionActive, WizardActive
  <2>2. u.lead = "SAVING" => ~u.saving /\ env.writer = "NONE"
    BY NoWriters DEF StorageBusy
  <2>3. u.saving => env.writer = "NONE" /\ u.lead # "SAVING"
    BY <1>4, <2>2 DEF Between, Single
  <2>4. Single(u)
    BY <2>1, <2>2, <2>3 DEF Single
  <2>5. Kinds(u) /\ Placed(u)
    BY <1>4, <2>1 DEF Between, Kinds, Placed, LeadPages
  <2>6. QED BY <2>4, <2>5 DEF Good, Between
<1>7. Good(y)
  <2>1. CASE s.page = "LEAD_MENU"
    <3>1. s.lead = "IDLE"
      BY <1>3, <2>1 DEF Good, Placed
    <3>2. y \in LeadMenu(s, in)
      BY <1>10, <2>1
    <3>3. \/ y = s
          \/ \E pg \in {"MENU", "CAL_STATUS"} : y = At(s, pg)
          \/ ~StorageBusy(s, "LEAD", in) /\
             \E l : y = [Invalidated(At(s, "LEAD_WIZARD")) EXCEPT !.lead = l]
      BY <3>2 DEF LeadMenu
    <3>4. CASE \E pg \in {"MENU", "CAL_STATUS"} : y = At(s, pg)
      BY <1>4, <1>5, <3>1, <3>4, SmallKept
    <3>5. CASE ~StorageBusy(s, "LEAD", in) /\
               \E l : y = [Invalidated(At(s, "LEAD_WIZARD")) EXCEPT !.lead = l]
      <4>1. Leads(y)
        BY <1>4, <3>5 DEF At, Invalidated, Current, Record, Fields
      <4> HIDE DEF Leads
      <4>2. QED BY <1>6, <3>5, <4>1
    <3>6. QED BY <1>3, <3>3, <3>4, <3>5
  <2>2. CASE s.page # "LEAD_MENU"
    <3>1. s.page = "LEAD_WIZARD"
      BY <1>3, <2>2 DEF LeadPages
    <3>2. y \in LeadWizard(s, in)
      BY <1>10, <2>2
    <3>3. \/ y = s
          \/ s.lead = "IDLE" /\ y = At(s, "LEAD_MENU")
          \/ y = [s EXCEPT !.lead = "IDLE"]
          \/ ~StorageBusy(s, "LEAD", in) /\ y = [s EXCEPT !.lead = "SAVING"]
      BY <3>2 DEF LeadWizard
    <3>4. CASE s.lead = "IDLE" /\ y = At(s, "LEAD_MENU")
      BY <1>4, <1>5, <3>4, SmallKept
    <3>5. CASE y = [s EXCEPT !.lead = "IDLE"]
      <4>1. Leads(y) /\ y.lead = "IDLE"
        BY <1>4, <3>1, <3>5 DEF Between, Current, Record, Fields
      <4> HIDE DEF Leads
      <4>2. QED BY <1>6, <4>1
    <3>6. CASE ~StorageBusy(s, "LEAD", in) /\ y = [s EXCEPT !.lead = "SAVING"]
      <4>1. Leads(y)
        BY <1>4, <3>1, <3>6 DEF Between, Current, Record, Fields
      <4> HIDE DEF Leads
      <4>2. QED BY <1>6, <3>6, <4>1
    <3>7. QED BY <1>3, <3>3, <3>4, <3>5, <3>6
  <2>3. QED BY <2>1, <2>2
<1>8. Good(Left(y))
  <2>1. CASE LeadBlocked /\ y.lead = "IDLE"
    <3>1. PICK pg \in {"FAULT", "CAL_REQUIRED"} : Left(y) = At(y, pg)
      BY <2>1
    <3>2. Kept(y, At(y, pg)) /\ At(y, pg).page = pg
      BY <1>7, SmallKept DEF Good, Between
    <3>3. y.session = s.session /\ y.wizard = s.wizard /\ y.down = "NONE"
      <4>1. y.session = s.session /\ y.wizard = s.wizard /\ y.down = s.down
        BY <1>4, <1>10 DEF LeadMenu, LeadWizard, At, Invalidated, Record, Fields
      <4>2. QED BY <1>4, <4>1
    <3>4. Resting(y)
      BY <1>4, <2>1, <3>3 DEF Resting, SessionActive, WizardActive
    <3>5. QED BY <1>7, <3>1, <3>2, <3>4, KeptResting
  <2>2. CASE ~(LeadBlocked /\ y.lead = "IDLE")
    BY <1>7, <2>2
  <2>3. QED BY <2>1, <2>2
<1> HIDE DEF Left
<1>9. QED BY <1>8, <1>10, ClearedGood

-----------------------------------------------------------------------------
(* From a pass to every step.  Of the inputs the invariant tells apart     *)
(* only who writes.                                                        *)
LEMMA GoodKept ==
    ASSUME NEW x, Good(x), p' = x, EnvRecord, DOMAIN env' = DOMAIN env,
           env'.writer \in {env.writer, "NONE"}
    PROVE  ProductInv'
<1>1. EnvRecord'
  BY DEF EnvRecord
<1>2. (Record(p) /\ Current(p) /\ Kinds(p) /\ Placed(p))'
  BY DEF Good, Between, Record, Current, Kinds, Placed, SessionActive, WizardActive
<1>3. Single(p)'
  BY DEF Good, Between, Single, WizardActive
<1>4. QED BY <1>1, <1>2, <1>3 DEF ProductInv, Good, Between

(* The product starts so.                                                  *)
LEMMA ProductInitially == Init => ProductInv
<1> SUFFICES ASSUME Init PROVE ProductInv
  OBVIOUS
<1>1. EnvRecord /\ env.writer = "NONE"
  BY DEF Init, Environments, EnvRecord
<1>2. /\ Record(p) /\ p.page = "STARTUP" /\ p.kind = "MEASUREMENT" /\ p.session = "IDLE"
      /\ p.wizard = "IDLE" /\ p.lead = "IDLE" /\ p.down = "NONE" /\ p.target = "STARTUP"
      /\ p.shown = "NONE" /\ p.saving = FALSE
  BY DEF Init, Record, Fields
<1>3. Current(p) /\ Kinds(p) /\ Placed(p) /\ Single(p)
  BY <1>1, <1>2 DEF Current, Kinds, Placed, Single, Plain, SessionActive, WizardActive, WizardBusy,
     LeadPages
<1>4. QED BY <1>1, <1>2, <1>3 DEF ProductInv, Good, Between

(* A pass keeps it so, ...                                                 *)
LEMMA PassGood ==
    ASSUME ProductInv, Pass PROVE ProductInv'
<1>1. PICK in \in Inputs : PassWith(in)
  BY DEF Pass
<1>2. PICK z : /\ z \in (IF p.page \in LeadPages THEN LeadPass(p, in) ELSE ProductPass(p, in))
               /\ p' = z
  BY <1>1 DEF PassWith
<1>3. Good(z)
  BY <1>2, LeadPassGood, ProductPassGood DEF ProductInv
<1>4. DOMAIN env' = DOMAIN env /\ env'.writer = env.writer
  <2>1. env' = env \/ \E cal : env' = [env EXCEPT !.cal = cal]
    BY <1>1 DEF PassWith
  <2>2. QED BY <2>1 DEF ProductInv, EnvRecord
<1>5. QED BY <1>2, <1>3, <1>4, GoodKept DEF ProductInv

(* The PC may begin only where no runtime is active and nobody writes.     *)
LEMMA IdleForLink ==
    ASSUME ProductInv, SerialIdle, Writers(p) = {}
    PROVE  Resting(p) /\ ~p.saving /\ p.page \notin LeadPages \cup {"WIZARD"}
<1>1. ~SessionActive(p) /\ ~WizardActive(p)
  BY DEF ProductInv, Good, Between, Kinds, SerialIdle, RuntimeActive
<1>2. ~p.saving
  BY NoWriters DEF ProductInv
<1>3. QED BY <1>1, <1>2 DEF SerialIdle, Resting

(* ... and so does all that goes on between two passes.                    *)
LEMMA ProductKept == ProductInv /\ [Next]_vars => ProductInv'
<1> SUFFICES ASSUME ProductInv, [Next]_vars PROVE ProductInv'
  OBVIOUS
<1>0. EnvRecord /\ Good(p) /\ Record(p)
  BY DEF ProductInv, Good, Between
<1>1. CASE Pass
  BY <1>1, PassGood
<1>2. CASE UploadBegin
  <2> DEFINE z == Cleared(At(p, "PC_LINK"))
  <2>1. Resting(p) /\ ~p.saving
    BY <1>2, IdleForLink DEF UploadBegin
  <2>2. Kept(p, z) /\ z.page = "PC_LINK"
    BY <1>0 DEF Kept, Outside, Record, Fields, Cleared, At
  <2>3. p' = z /\ EnvRecord'
    BY <1>0, <1>2 DEF UploadBegin, EnvRecord
  <2> HIDE DEF z
  <2>4. Good(z) /\ Resting(z) /\ ~z.saving
    BY <1>0, <2>1, <2>2, KeptResting DEF Kept, Outside
  <2>5. (Record(p) /\ Current(p) /\ Kinds(p) /\ Placed(p))'
    BY <2>3, <2>4
       DEF Good, Between, Record, Current, Kinds, Placed, SessionActive, WizardActive
  <2>6. Single(p)'
    BY <2>2, <2>3, <2>4 DEF Single, Resting, WizardActive, WizardBusy
  <2>7. QED BY <2>3, <2>5, <2>6 DEF ProductInv, Good, Between
<1>3. CASE UploadEnd
  <2>1. p' = p /\ DOMAIN env' = DOMAIN env /\ env'.writer = "NONE"
    BY <1>0, <1>3 DEF UploadEnd, EnvRecord
  <2>2. QED BY <1>0, <2>1, GoodKept
<1>4. CASE InstallBegin
  <2>1. Resting(p) /\ ~p.saving /\ p.page # "WIZARD"
    BY <1>4, IdleForLink DEF InstallBegin
  <2>2. p' = p /\ EnvRecord'
    BY <1>0, <1>4 DEF InstallBegin, EnvRecord
  <2>3. (Record(p) /\ Current(p) /\ Kinds(p) /\ Placed(p))'
    BY <1>0, <2>2
       DEF Good, Between, Record, Current, Kinds, Placed, SessionActive, WizardActive
  <2>4. Single(p)'
    BY <2>1, <2>2 DEF Single, Resting, WizardActive, WizardBusy
  <2>5. QED BY <2>2, <2>3, <2>4 DEF ProductInv, Good, Between
<1>5. CASE InstallEnd
  <2>1. p' = p /\ DOMAIN env' = DOMAIN env /\ env'.writer = "NONE"
    BY <1>0, <1>5 DEF InstallEnd, EnvRecord
  <2>2. QED BY <1>0, <2>1, GoodKept
<1>6. CASE Reschedule \/ Fault \/ TextUnread
  <2>1. p' = p /\ DOMAIN env' = DOMAIN env /\ env'.writer = env.writer
    BY <1>0, <1>6 DEF Reschedule, Fault, TextUnread, EnvRecord
  <2>2. QED BY <1>0, <2>1, GoodKept
<1>7. CASE UNCHANGED vars
  BY <1>0, <1>7, GoodKept DEF vars, EnvRecord
<1>8. QED BY <1>1, <1>2, <1>3, <1>4, <1>5, <1>6, <1>7 DEF Next

(* In every reachable state, between any two passes: the product's record  *)
(* is well formed, the result is current, runtimes, memory and pages fit   *)
(* one another and at most one writer is at the flash or waits for it.     *)
THEOREM ProductInvariant == Spec => []ProductInv
<1>1. QED BY ProductInitially, ProductKept, PTL DEF Spec

(* A result that is shown was measured under the calibration in force,     *)
(* whatever was installed or calibrated meanwhile.                         *)
THEOREM ProductResultCurrent == Spec => []ResultCurrent
<1>1. ProductInv => ResultCurrent
  BY DEF ProductInv, Good, Between, Current, ResultCurrent
<1>2. QED BY <1>1, ProductInvariant, PTL

(* A runtime that is active is on its page or being taken down, it has the *)
(* memory the two share, and none is active on the pages of the leads.     *)
THEOREM ProductNobodyStranded == Spec => []NobodyStranded
<1>1. ProductInv => NobodyStranded
  BY DEF ProductInv, Good, Between, Placed, Kinds, NobodyStranded
<1>2. QED BY <1>1, ProductInvariant, PTL

(* The flash never has two writers that would wait for each other.         *)
THEOREM ProductOneWriter == Spec => []OneWriter
<1>1. ProductInv => OneWriter
  <2> SUFFICES ASSUME ProductInv, NEW v \in Writers(p), NEW w \in Writers(p) PROVE v = w
    BY DEF OneWriter
  <2>1. Single(p)
    BY DEF ProductInv, Good, Between
  <2>2. /\ v \in {"UPLOAD", "INSTALL", "WIZARD", "LEAD", "SETTINGS"}
        /\ w \in {"UPLOAD", "INSTALL", "WIZARD", "LEAD", "SETTINGS"}
    BY DEF Writers
  <2>3. \A u \in Writers(p) :
          /\ u \in {"UPLOAD", "INSTALL"} => env.writer = u
          /\ u = "WIZARD" => p.wizard = "COMMITTING"
          /\ u = "LEAD" => p.lead = "SAVING"
          /\ u = "SETTINGS" => p.saving
    BY DEF Writers
  <2>4. p.wizard = "COMMITTING" => WizardActive(p)
    BY DEF WizardActive, WizardBusy
  <2>5. QED BY <2>1, <2>2, <2>3, <2>4 DEF Single
<1>2. QED BY <1>1, ProductInvariant, PTL
-----------------------------------------------------------------------------
(***************************************************************************)
(* The transaction, as the leads, the wizard and the captures use it.  It  *)
(* is never forgotten before its end, ...                                  *)
(***************************************************************************)
Sound(a) == a \in L!Attempts /\ ~a.lost

(* ... whether it is aborted, ...                                          *)
LEMMA AbortedEffect ==
    ASSUME NEW a, Sound(a)
    PROVE  LET b == L!AbortedAttempt(a)
           IN  Sound(b) /\ (L!AttemptActive(b) <=> L!AttemptActive(a))
BY DEF Sound, L!Attempts, L!AbortedAttempt, L!Untouched, L!AttemptActive

(* ... makes a step, ...                                                   *)
LEMMA StepsEffect ==
    ASSUME NEW a, Sound(a), NEW b \in L!Steps(a)
    PROVE  Sound(b) /\ (L!AttemptActive(b) => L!AttemptActive(a))
<1> DEFINE q == L!AbortedAttempt(a)
<1>1. Sound(q) /\ (L!AttemptActive(q) <=> L!AttemptActive(a)) BY AbortedEffect
<1> HIDE DEF q
<1>2. CASE a.st = "RUN"
  <2>1. \/ b = a \/ b = q
        \/ b = [a EXCEPT !.st = "HOLD", !.hold = FALSE, !.valid = TRUE]
        \/ b = [a EXCEPT !.st = "END"]
    BY <1>2 DEF L!Steps, q
  <2> QED BY <1>1, <1>2, <2>1 DEF Sound, L!Attempts, L!AttemptActive
<1>3. CASE a.st = "HOLD"
  <2>1. b = a \/ b = q BY <1>3 DEF L!Steps, q
  <2> QED BY <1>1, <2>1
<1>4. CASE a.st = "END"
  <2>1. b = a \/ b = q \/ \E v \in BOOLEAN : b = [a EXCEPT !.st = "DONE", !.valid = v]
    BY <1>4 DEF L!Steps, q
  <2> QED BY <1>1, <1>4, <2>1 DEF Sound, L!Attempts, L!AttemptActive
<1>5. CASE a.st = "ABORT"
  <2>1. b = a \/ b = [a EXCEPT !.st = "IDLE", !.begun = FALSE] \/ b = [a EXCEPT !.begun = TRUE]
    BY <1>5 DEF L!Steps
  <2> QED BY <1>5, <2>1 DEF Sound, L!Attempts, L!AttemptActive
<1>6. CASE a.st \in {"IDLE", "DONE"}
  <2>1. b = a BY <1>6 DEF L!Steps
  <2> QED BY <2>1
<1> QED BY <1>2, <1>3, <1>4, <1>5, <1>6 DEF Sound, L!Attempts

(* ... is acknowledged when it has ended or is held, ...                   *)
LEMMA AcknowledgedEffect ==
    ASSUME NEW a, Sound(a), ~L!AttemptActive(a) \/ a.st = "HOLD"
    PROVE  LET b == L!Acknowledged(a)
           IN  Sound(b) /\ (L!AttemptActive(b) <=> L!AttemptActive(a))
BY DEF Sound, L!Attempts, L!Acknowledged, L!AttemptActive

(* ... which gives back the workspace once it has ended, ...               *)
LEMMA LeaseAcknowledgedEffect ==
    ASSUME NEW a, Sound(a), ~L!AttemptActive(a), NEW l
    PROVE  L!LeaseAcknowledged(a, l) # "METROLOGY"
BY AcknowledgedEffect DEF L!LeaseAcknowledged

(* ... is released, ...                                                    *)
LEMMA ReleasedEffect ==
    ASSUME NEW a, Sound(a) PROVE Sound(L!Released(a))
BY DEF Sound, L!Attempts, L!Released

(* ... or is started: one that is turned down leaves a rest a rest.        *)
LEMMA StartCallsEffect ==
    ASSUME NEW a, Sound(a), NEW l, NEW hold \in BOOLEAN, NEW call \in L!StartCalls(a, l, hold)
    PROVE  /\ Sound(call.att) /\ call.ok \in BOOLEAN
           /\ ~L!AttemptActive(a) /\ l # "METROLOGY" /\ ~call.ok =>
                 ~L!AttemptActive(call.att) /\ call.lease # "METROLOGY"
<1> DEFINE q == L!AbortedAttempt(a)
           run(h) == L!Running(a, h)
           refused(s) == [L!Untouched EXCEPT !.st = s, !.failed = TRUE, !.lost = a.lost]
<1>1. Sound(q) /\ (L!AttemptActive(q) <=> L!AttemptActive(a)) BY AbortedEffect
<1>2. \A h \in BOOLEAN : Sound(run(h)) /\ run(h).st = "RUN"
  BY DEF L!Running, L!Untouched, L!Attempts, Sound
<1>3. \A s \in {a.st, "IDLE"} : Sound(refused(s)) /\ refused(s).st = s
  BY DEF L!Untouched, L!Attempts, Sound
<1>4. \A b \in L!Starts(a, hold) :
         Sound(b) /\ (~L!AttemptActive(a) /\ b.st # "RUN" => ~L!AttemptActive(b))
  <2> SUFFICES ASSUME NEW b \in L!Starts(a, hold)
               PROVE  Sound(b) /\ (~L!AttemptActive(a) /\ b.st # "RUN" => ~L!AttemptActive(b))
    OBVIOUS
  <2>1. (\E h \in BOOLEAN : b = run(h)) \/ b = q \/ (\E s \in {a.st, "IDLE"} : b = refused(s))
    BY DEF L!Starts
  <2> HIDE DEF run, q, refused
  <2> QED BY <1>1, <1>2, <1>3, <2>1 DEF L!AttemptActive
<1> HIDE DEF run, refused
<1>5. CASE a.st = "HOLD" /\ l # "METROLOGY"
  <2>1. call = [att |-> q, lease |-> l, ok |-> FALSE] BY <1>5 DEF L!StartCalls, q
  <2> QED BY <1>1, <1>5, <2>1 DEF L!AttemptActive
<1>6. CASE a.st # "HOLD" /\ l # "FREE"
  <2>1. call = [att |-> a, lease |-> l, ok |-> FALSE] BY <1>6 DEF L!StartCalls
  <2> QED BY <2>1
<1>7. CASE ~(a.st = "HOLD" /\ l # "METROLOGY") /\ ~(a.st # "HOLD" /\ l # "FREE")
  <2>1. PICK b \in L!Starts(a, hold) :
           call = [att |-> b, ok |-> b.st = "RUN",
                   lease |-> IF L!AttemptActive(b) THEN "METROLOGY" ELSE "FREE"]
    BY <1>7 DEF L!StartCalls
  <2> QED BY <1>4, <2>1
<1> QED BY <1>5, <1>6, <1>7
-----------------------------------------------------------------------------
(***************************************************************************)
(* The leads.                                                              *)
(***************************************************************************)
LeadFields == {"st", "short", "freq", "range", "attempts", "samples", "retry", "failed"}
LeadShape(x) ==
    {"lead", "att", "lease", "taken"} \subseteq DOMAIN x /\ LeadFields \subseteq DOMAIN x.lead

Steps == 0 .. Frequencies - 1
(* What was taken so far is all that lies before the group at hand, and    *)
(* the group that is being released, unless it is to be taken again.       *)
Grouped(x) ==
    /\ x.lead.freq \in Steps
    /\ \A f \in 0 .. x.lead.freq - 1 : <<x.lead.short, f>> \in x.taken
    /\ x.lead.short => \A f \in Steps : <<FALSE, f>> \in x.taken
LeadProgress(x) ==
    /\ x.taken \subseteq BOOLEAN \X Steps /\ x.lead.short \in BOOLEAN
    /\ x.lead.st \in L!Capturing \cup {"WAIT_OPEN", "WAIT_SHORT"} => Grouped(x)
    /\ x.lead.st = "DRAIN" /\ ~x.lead.retry => <<x.lead.short, x.lead.freq>> \in x.taken
    /\ x.lead.st = "WAIT_OPEN" => ~x.lead.short
    /\ x.lead.st = "REVIEW" => x.taken = BOOLEAN \X Steps
(* Only captures and their cleanup have a transaction.                     *)
LeadRight(x) ==
    /\ LeadShape(x) /\ LeadProgress(x) /\ x.lead.st \in L!LeadStates /\ Sound(x.att)
    /\ x.lead.st \notin L!Capturing \cup {"CANCELING"} => ~L!AttemptActive(x.att)
LeadInv == LeadRight(L!Here) /\ (lead.st \in L!BusyStates => page = "LEAD_WIZARD")

(* y stands where x does.                                                  *)
LeadSame(x, y) ==
    LeadShape(y) /\ y.lead.short = x.lead.short /\ y.lead.freq = x.lead.freq /\ y.taken = x.taken
(* Where nothing is taken any more.                                        *)
Elsewhere == {"CONFIRM_CLEAR", "SAVING", "CANCELING", "IDLE", "COMPLETE", "FAILED", "CANCELED"}

(* The leads start so.                                                     *)
LEMMA LeadInitRight == L!Init => LeadInv
<1> SUFFICES ASSUME L!Init PROVE LeadInv OBVIOUS
<1>1. LeadShape(L!Here) BY DEF L!Init, L!Here, LeadShape, LeadFields, L!NoLead
<1>2. lead.st = "IDLE" /\ lead.short = FALSE /\ taken = {} BY DEF L!Init, L!NoLead
<1>3. LeadProgress(L!Here) BY <1>2 DEF L!Here, LeadProgress, L!Capturing
<1>4. Sound(leadatt) /\ ~L!AttemptActive(leadatt)
  BY DEF L!Init, Sound, L!Attempts, L!Untouched, L!AttemptActive
<1> QED
  BY <1>1, <1>2, <1>3, <1>4
     DEF LeadInv, LeadRight, L!Here, L!LeadStates, L!BusyStates, L!Capturing

(* The end of taking.                                                      *)
LEMMA LeadMoved ==
    ASSUME NEW x, LeadRight(x), NEW y, LeadSame(x, y), y.lead.st \in Elsewhere, Sound(y.att),
           L!AttemptActive(y.att) => y.lead.st = "CANCELING"
    PROVE  LeadRight(y)
BY DEF LeadRight, LeadProgress, LeadSame, Elsewhere, L!LeadStates, L!BusyStates, L!Capturing

(* The state alone.                                                        *)
LEMMA LeadInEffect ==
    ASSUME NEW x, LeadShape(x), NEW st
    PROVE  LET y == L!In(x, st)
           IN  /\ LeadSame(x, y) /\ y.lead.st = st /\ y.lead.retry = x.lead.retry /\ y.att = x.att
               /\ y.lease = x.lease
BY DEF LeadShape, LeadFields, LeadSame, L!In

(* The transaction alone.                                                  *)
LEMMA LeadAttEffect ==
    ASSUME NEW x, LeadShape(x), NEW a
    PROVE  LET y == [x EXCEPT !.att = a]
           IN  LeadSame(x, y) /\ y.lead = x.lead /\ y.att = a /\ y.lease = x.lease
BY DEF LeadShape, LeadFields, LeadSame

(* What a cancel finds running is aborted, and the page waits for its end. *)
LEMMA LeadInterrupted ==
    ASSUME NEW x, LeadRight(x), NEW w, LeadSame(x, w), Sound(w.att), NEW st \in Elsewhere
    PROVE  LeadRight(L!Interrupted(w, st))
<1> DEFINE u == L!In(w, "CANCELING")
           a == L!AbortedAttempt(u.att)
           y == [u EXCEPT !.att = a]
<1>0. LeadShape(w) BY DEF LeadSame
<1>1. LeadSame(w, u) /\ u.lead.st = "CANCELING" /\ u.att = w.att BY <1>0, LeadInEffect
<1>2. CASE L!AttemptActive(w.att)
  <2>1. L!Interrupted(w, st) = y BY <1>2 DEF L!Interrupted
  <2>2. Sound(a) BY <1>1, AbortedEffect
  <2> HIDE DEF u, a
  <2>3. LeadSame(u, y) /\ y.lead = u.lead /\ y.att = a BY <1>1, LeadAttEffect DEF LeadSame
  <2>4. LeadSame(x, y) BY <1>1, <2>3 DEF LeadSame
  <2> HIDE DEF y
  <2> QED BY <1>1, <2>1, <2>2, <2>3, <2>4, LeadMoved DEF Elsewhere
<1>3. CASE ~L!AttemptActive(w.att)
  <2> DEFINE z == L!In(w, st)
  <2>1. L!Interrupted(w, st) = z BY <1>3 DEF L!Interrupted
  <2>2. LeadSame(w, z) /\ z.lead.st = st /\ z.att = w.att BY <1>0, LeadInEffect
  <2> HIDE DEF z
  <2>3. LeadSame(x, z) BY <2>2 DEF LeadSame
  <2> QED BY <1>3, <2>1, <2>2, <2>3, LeadMoved
<1> QED BY <1>2, <1>3

(* What stops it.                                                          *)
LEMMA StopErrorRight ==
    ASSUME NEW x, LeadRight(x), NEW w, LeadSame(x, w), Sound(w.att)
    PROVE  LeadRight(L!StopError(w))
<1> DEFINE u == [w EXCEPT !.lead.failed = TRUE]
<1>1. LeadSame(w, u) /\ u.att = w.att BY DEF LeadSame, LeadShape, LeadFields
<1>2. LeadSame(x, u) BY <1>1 DEF LeadSame
<1> HIDE DEF u
<1>3. LeadRight(L!Interrupted(u, "FAILED")) BY <1>1, <1>2, LeadInterrupted DEF Elsewhere
<1> QED BY <1>3 DEF L!StopError, u

(* A cancel keeps it right, whatever it interrupts.                        *)
LEMMA LeadCancelRight ==
    ASSUME NEW x, LeadRight(x) PROVE LeadRight(L!Cancel(x))
<1>1. LeadSame(x, x) /\ Sound(x.att) BY DEF LeadSame, LeadRight
<1> QED BY <1>1, LeadInterrupted DEF L!Cancel, Elsewhere

-----------------------------------------------------------------------------
(* The calls of the pages.                                                 *)
LEMMA LeadBeginRight ==
    ASSUME NEW x, LeadRight(x) PROVE LeadRight(L!Begin(x))
<1>1. CASE ~(L!Busy(x) \/ L!AttemptActive(x.att))
  <2> DEFINE first == [L!NoLead EXCEPT !.st = "WAIT_OPEN"]
             y == [x EXCEPT !.lead = first, !.taken = {}]
  <2>1. /\ LeadFields \subseteq DOMAIN first /\ first.st = "WAIT_OPEN" /\ first.short = FALSE
        /\ first.freq = 0
    BY DEF L!NoLead, LeadFields
  <2> HIDE DEF first
  <2>2. LeadShape(y) /\ y.lead = first /\ y.taken = {} /\ y.att = x.att
    BY <2>1 DEF LeadRight, LeadShape
  <2>3. L!Begin(x) = y BY <1>1 DEF L!Begin, first
  <2> HIDE DEF y
  <2>4. Grouped(y)
    BY <2>1, <2>2, LeadsAssumption DEF Grouped, Steps, L!LeadAssumption
  <2>5. LeadProgress(y) BY <2>1, <2>2, <2>4 DEF LeadProgress
  <2> QED
    BY <1>1, <2>1, <2>2, <2>3, <2>5
       DEF LeadRight, L!LeadStates, L!BusyStates, L!Capturing
<1>2. CASE L!Busy(x) \/ L!AttemptActive(x.att) BY <1>2 DEF L!Begin
<1> QED BY <1>1, <1>2

(* From one state to one where nothing is taken.                           *)
LEMMA LeadInRight ==
    ASSUME NEW x, LeadRight(x), NEW st \in Elsewhere, ~L!AttemptActive(x.att)
    PROVE  LeadRight(L!In(x, st))
<1> DEFINE y == L!In(x, st)
<1>1. LeadSame(x, y) /\ y.lead.st = st /\ y.att = x.att BY LeadInEffect DEF LeadRight
<1> HIDE DEF y
<1>2. LeadRight(y) BY <1>1, LeadMoved DEF LeadRight
<1> QED BY <1>2 DEF y

(* Nothing runs but in a capture or its cleanup.                           *)
LEMMA LeadQuiet ==
    ASSUME NEW x, LeadRight(x), x.lead.st \notin L!Capturing \cup {"CANCELING"}
    PROVE  ~L!AttemptActive(x.att)
BY DEF LeadRight

(* A group begins with no measurement of its own.                          *)
LEMMA BeginGroupRight ==
    ASSUME NEW x, LeadShape(x), Sound(x.att), Grouped(x), x.taken \subseteq BOOLEAN \X Steps,
           x.lead.short \in BOOLEAN
    PROVE  LeadRight(L!BeginGroup(x))
<1> DEFINE l == [x.lead EXCEPT !.st = "START", !.attempts = 0, !.samples = 0, !.retry = FALSE]
           y == [x EXCEPT !.lead = l]
<1>1. /\ LeadFields \subseteq DOMAIN l /\ l.st = "START" /\ l.short = x.lead.short
      /\ l.freq = x.lead.freq
  BY DEF LeadShape, LeadFields
<1> HIDE DEF l
<1>2. LeadShape(y) /\ y.lead = l /\ y.taken = x.taken /\ y.att = x.att
  BY <1>1 DEF LeadShape
<1>3. L!BeginGroup(x) = y BY DEF L!BeginGroup, l
<1> HIDE DEF y
<1>4. Grouped(y) BY <1>1, <1>2 DEF Grouped
<1>5. LeadProgress(y) BY <1>1, <1>2, <1>4 DEF LeadProgress
<1> QED BY <1>1, <1>2, <1>3, <1>5 DEF LeadRight, L!LeadStates, L!BusyStates, L!Capturing

(* The user confirms what is connected, ...                                *)
LEMMA LeadConfirmRight ==
    ASSUME NEW x, LeadRight(x), NEW y \in L!Confirm(x) PROVE LeadRight(y)
<1>1. CASE x.lead.st \in {"WAIT_OPEN", "WAIT_SHORT"}
  <2>1. y = L!BeginGroup(x) BY <1>1 DEF L!Confirm
  <2> QED BY <1>1, <2>1, BeginGroupRight DEF LeadRight, LeadProgress
<1>2. CASE x.lead.st \in {"REVIEW", "CONFIRM_CLEAR"}
  <2>1. y \in {L!In(x, "SAVING"), L!In(x, "FAILED")} BY <1>2 DEF L!Confirm
  <2>2. ~L!AttemptActive(x.att) BY <1>2, LeadQuiet DEF L!Capturing
  <2> QED BY <2>1, <2>2, LeadInRight DEF Elsewhere
<1>3. CASE x.lead.st \notin {"WAIT_OPEN", "WAIT_SHORT", "REVIEW", "CONFIRM_CLEAR"}
  BY <1>3 DEF L!Confirm
<1> QED BY <1>1, <1>2, <1>3

(* ... starts, leaves, saves or cancels.                                   *)
LEMMA LeadRequestedRight ==
    ASSUME NEW x, LeadRight(x), NEW in, NEW y \in L!Requested(x, in) PROVE LeadRight(y)
<1>1. \/ y = x \/ y = L!Begin(x) \/ y = L!Cancel(x) \/ y \in L!Confirm(x)
      \/ y \in L!SetEnabled(x) \/ y \in L!Clear(x)
  BY DEF L!Requested
<1>2. CASE y \in L!SetEnabled(x) \/ y \in L!Clear(x)
  <2>1. CASE L!Busy(x) BY <1>2, <2>1 DEF L!SetEnabled, L!Clear
  <2>2. CASE ~L!Busy(x)
    <3>1. y = x \/ \E st \in Elsewhere : y = L!In(x, st)
      BY <1>2, <2>2 DEF L!SetEnabled, L!Clear, Elsewhere
    <3>2. ~L!AttemptActive(x.att) BY <2>2, LeadQuiet DEF L!Busy, L!BusyStates
    <3> QED BY <3>1, <3>2, LeadInRight
  <2> QED BY <2>1, <2>2
<1> QED BY <1>1, <1>2, LeadBeginRight, LeadCancelRight, LeadConfirmRight

-----------------------------------------------------------------------------
(* The steps of a capture.  Its transaction alone moves, ...               *)
LEMMA LeadCarried ==
    ASSUME NEW x, LeadRight(x), x.lead.st \in L!Capturing \cup {"CANCELING"}, NEW y,
           LeadSame(x, y), y.lead = x.lead, Sound(y.att)
    PROVE  LeadRight(y)
BY DEF LeadRight, LeadSame, LeadProgress, Grouped

(* The acknowledgement of a capture changes the transaction only.          *)
LEMMA LeadAcknowledgeEffect ==
    ASSUME NEW x, LeadShape(x), Sound(x.att), ~L!AttemptActive(x.att) \/ x.att.st = "HOLD"
    PROVE  LET y == L!Acknowledge(x)
           IN  /\ LeadSame(x, y) /\ y.lead = x.lead /\ Sound(y.att)
               /\ L!AttemptActive(y.att) <=> L!AttemptActive(x.att)
<1> DEFINE a == L!Acknowledged(x.att)
           l == L!LeaseAcknowledged(x.att, x.lease)
           y == [x EXCEPT !.att = a, !.lease = l]
<1>1. Sound(a) /\ (L!AttemptActive(a) <=> L!AttemptActive(x.att)) BY AcknowledgedEffect
<1>2. L!Acknowledge(x) = y BY DEF L!Acknowledge
<1> HIDE DEF a, l
<1>3. LeadSame(x, y) /\ y.lead = x.lead /\ y.att = a BY DEF LeadSame, LeadShape
<1> QED BY <1>1, <1>2, <1>3

(* ... it is started, ...                                                  *)
LEMMA LeadStartRight ==
    ASSUME NEW x, LeadRight(x), x.lead.st = "START", NEW z \in L!Start(x)
    PROVE  LeadRight(z)
<1>0. /\ LeadShape(x) /\ LeadSame(x, x) /\ Sound(x.att)
      /\ LeadProgress(x) /\ Grouped(x)
  BY DEF LeadRight, LeadSame, LeadProgress, L!Capturing
<1>1. CASE x.lead.attempts >= MaxCaptures /\ L!MoreRanges(x)
  <2> DEFINE u == L!In(x, "DRAIN")
             y == [u EXCEPT !.lead.retry = TRUE]
  <2>1. LeadSame(x, u) /\ u.lead.st = "DRAIN" /\ u.att = x.att BY <1>0, LeadInEffect
  <2>2. z = y BY <1>1 DEF L!Start
  <2> HIDE DEF u
  <2>3. /\ LeadSame(u, y) /\ y.lead.st = "DRAIN" /\ y.att = x.att /\ y.lead.retry = TRUE
    BY <2>1 DEF LeadSame, LeadShape, LeadFields
  <2> HIDE DEF y
  <2>4. LeadProgress(y) BY <1>0, <2>1, <2>3 DEF LeadProgress, LeadSame, Grouped
  <2> QED
    BY <1>0, <2>2, <2>3, <2>4 DEF LeadRight, LeadSame, L!LeadStates, L!BusyStates, L!Capturing
<1>2. CASE x.lead.attempts >= MaxCaptures /\ ~L!MoreRanges(x)
  BY <1>0, <1>2, StopErrorRight DEF L!Start
<1>3. CASE ~(x.lead.attempts >= MaxCaptures)
  <2> DEFINE y(call) == [x EXCEPT !.att = call.att, !.lease = call.lease]
  <2>1. PICK call \in L!StartCalls(x.att, x.lease, TRUE) :
           z = IF call.ok THEN [L!In(y(call), "WAIT") EXCEPT !.lead.attempts = @ + 1]
               ELSE L!StopError(y(call))
    BY <1>3 DEF L!Start
  <2> DEFINE w == y(call)
             u == L!In(w, "WAIT")
             v == [u EXCEPT !.lead.attempts = @ + 1]
  <2>2. Sound(call.att) BY <1>0, StartCallsEffect
  <2>3. LeadSame(x, w) /\ w.lead = x.lead /\ w.att = call.att BY <1>0 DEF LeadSame, LeadShape
  <2>4. z = IF call.ok THEN v ELSE L!StopError(w) BY <2>1
  <2> HIDE DEF w
  <2>5. CASE ~call.ok BY <2>2, <2>3, <2>4, <2>5, StopErrorRight
  <2>6. CASE call.ok
    <3>1. LeadSame(w, u) /\ u.lead.st = "WAIT" /\ u.att = w.att
      BY <2>3, LeadInEffect DEF LeadSame
    <3> HIDE DEF u
    <3>2. LeadSame(u, v) /\ v.lead.st = "WAIT" /\ v.att = u.att
      BY <3>1 DEF LeadSame, LeadShape, LeadFields
    <3> HIDE DEF v
    <3>3. LeadProgress(v) BY <1>0, <2>3, <3>1, <3>2 DEF LeadProgress, LeadSame, Grouped
    <3> QED
      BY <2>2, <2>3, <2>4, <2>6, <3>1, <3>2, <3>3
         DEF LeadRight, LeadSame, L!LeadStates, L!BusyStates, L!Capturing
  <2> QED BY <2>5, <2>6
<1> QED BY <1>1, <1>2, <1>3

(* ... a block is judged, ...                                              *)
LEMMA LeadSampledRight ==
    ASSUME NEW x, LeadRight(x), x.lead.st \in L!Capturing, NEW usable \in BOOLEAN,
           NEW agrees \in BOOLEAN
    PROVE  LeadRight(L!Sampled(x, usable, agrees))
<1> DEFINE y == IF usable THEN [x EXCEPT !.lead.samples = @ + 1] ELSE x
           z == L!Sampled(x, usable, agrees)
<1>1. LeadSame(x, y) /\ y.att = x.att /\ y.lead.st = x.lead.st
  BY DEF LeadRight, LeadSame, LeadShape, LeadFields
<1>2. \/ z = L!In(y, "START") \/ z = [L!In(y, "DRAIN") EXCEPT !.lead.retry = TRUE]
      \/ z = [L!In(y, "DRAIN") EXCEPT !.taken = @ \cup {<<y.lead.short, y.lead.freq>>}]
      \/ z = L!StopError(y)
  BY DEF L!Sampled
<1> HIDE DEF y, z
<1>3. Sound(y.att) /\ LeadShape(y) /\ LeadProgress(x) /\ Grouped(x)
  BY <1>1 DEF LeadRight, LeadSame, LeadProgress
<1>4. CASE z = L!StopError(y) BY <1>1, <1>3, <1>4, StopErrorRight DEF z
<1>5. CASE z = L!In(y, "START")
  <2>1. LeadSame(y, z) /\ z.lead.st = "START" /\ z.att = y.att BY <1>3, <1>5, LeadInEffect
  <2>2. LeadProgress(z) BY <1>1, <1>3, <2>1 DEF LeadProgress, LeadSame, Grouped
  <2>3. LeadRight(z)
    BY <1>3, <2>1, <2>2 DEF LeadRight, LeadSame, L!LeadStates, L!BusyStates, L!Capturing
  <2> QED BY <2>3 DEF z
<1> DEFINE u == L!In(y, "DRAIN")
<1>6. LeadSame(y, u) /\ u.lead.st = "DRAIN" /\ u.att = y.att BY <1>3, LeadInEffect
<1>7. CASE z = [u EXCEPT !.lead.retry = TRUE]
  <2> HIDE DEF u
  <2>1. LeadSame(u, z) /\ z.lead.st = "DRAIN" /\ z.att = y.att /\ z.lead.retry = TRUE
    BY <1>6, <1>7 DEF LeadSame, LeadShape, LeadFields
  <2>2. LeadProgress(z) BY <1>1, <1>3, <1>6, <2>1 DEF LeadProgress, LeadSame, Grouped
  <2>3. LeadRight(z)
    BY <1>3, <2>1, <2>2 DEF LeadRight, LeadSame, L!LeadStates, L!BusyStates, L!Capturing
  <2> QED BY <2>3 DEF z
<1>8. CASE z = [u EXCEPT !.taken = @ \cup {<<y.lead.short, y.lead.freq>>}]
  <2> HIDE DEF u
  <2>1. /\ LeadShape(z) /\ z.lead = u.lead /\ z.att = y.att
        /\ z.taken = x.taken \cup {<<x.lead.short, x.lead.freq>>}
    BY <1>1, <1>6, <1>8 DEF LeadSame, LeadShape
  <2>2. z.lead.short = x.lead.short /\ z.lead.freq = x.lead.freq /\ z.lead.st = "DRAIN"
    BY <1>1, <1>6, <2>1 DEF LeadSame
  <2>3. <<x.lead.short, x.lead.freq>> \in BOOLEAN \X Steps
    BY <1>3 DEF LeadProgress, Grouped
  <2>4. LeadProgress(z)
    BY <1>3, <2>1, <2>2, <2>3 DEF LeadProgress, Grouped
  <2>5. LeadRight(z)
    BY <1>3, <2>1, <2>2, <2>4 DEF LeadRight, L!LeadStates, L!BusyStates, L!Capturing
  <2> QED BY <2>5 DEF z
<1> QED BY <1>2, <1>4, <1>5, <1>7, <1>8

(* A capture that has come counts once, and the last of a group closes it. *)
LEMMA LeadWaitRight ==
    ASSUME NEW x, LeadRight(x), x.lead.st = "WAIT", NEW z \in L!Wait(x)
    PROVE  LeadRight(z)
<1> DEFINE y(b) == [x EXCEPT !.att = b]
           Judged(b) == {L!Sampled(L!Acknowledge(y(b)), usable, agrees) :
                         usable, agrees \in BOOLEAN}
<1>0. LeadShape(x) /\ Sound(x.att) /\ "WAIT" \in L!Capturing BY DEF LeadRight, L!Capturing
<1>1. PICK b \in L!Steps(x.att) :
         \/ z = y(b) \/ z = L!StopError(y(b)) \/ (L!Ready(b) /\ z \in Judged(b))
  BY DEF L!Wait
<1> DEFINE w == y(b)
<1>2. Sound(b) BY <1>0, StepsEffect
<1>3. LeadSame(x, w) /\ w.lead = x.lead /\ w.att = b BY <1>0, LeadAttEffect
<1>4. z = w \/ z = L!StopError(w)
      \/ (L!Ready(b) /\ z \in {L!Sampled(L!Acknowledge(w), usable, agrees) :
                               usable, agrees \in BOOLEAN})
  BY <1>1
<1> HIDE DEF w
<1>5. LeadRight(w) BY <1>0, <1>2, <1>3, LeadCarried
<1>6. CASE z = w BY <1>5, <1>6
<1>7. CASE z = L!StopError(w) BY <1>2, <1>3, <1>7, StopErrorRight
<1>8. CASE L!Ready(b) /\ z \in {L!Sampled(L!Acknowledge(w), usable, agrees) :
                               usable, agrees \in BOOLEAN}
  <2> DEFINE k == L!Acknowledge(w)
  <2>1. ~L!AttemptActive(b) \/ b.st = "HOLD" BY <1>8 DEF L!Ready, L!AttemptActive
  <2>2. LeadSame(w, k) /\ k.lead = w.lead /\ Sound(k.att)
    BY <1>2, <1>3, <2>1, LeadAcknowledgeEffect DEF LeadSame
  <2>3. PICK usable \in BOOLEAN, agrees \in BOOLEAN : z = L!Sampled(k, usable, agrees)
    BY <1>8
  <2> HIDE DEF k
  <2>4. LeadRight(k) BY <1>0, <1>3, <1>5, <2>2, LeadCarried
  <2> QED BY <1>0, <1>3, <2>2, <2>3, <2>4, LeadSampledRight
<1> QED BY <1>4, <1>6, <1>7, <1>8

(* ... and a group is left for the next.                                   *)
LEMMA NextGroupRight ==
    ASSUME NEW x, LeadRight(x), x.lead.st = "DRAIN", ~L!AttemptActive(x.att),
           NEW z \in L!NextGroup(x)
    PROVE  LeadRight(z)
<1> DEFINE y == [x EXCEPT !.lead.freq = @ + 1]
           r == [x EXCEPT !.lead.range = @ - 1]
<1>0. /\ LeadShape(x) /\ Sound(x.att) /\ LeadProgress(x) /\ Grouped(x)
      /\ x.lead.freq \in Steps /\ Frequencies \in Nat
      /\ x.taken \subseteq BOOLEAN \X Steps /\ x.lead.short \in BOOLEAN
  BY LeadsAssumption DEF LeadRight, LeadProgress, Grouped, L!Capturing, L!LeadAssumption
<1>1. /\ LeadShape(y) /\ y.lead.freq = x.lead.freq + 1 /\ y.lead.short = x.lead.short
      /\ y.taken = x.taken /\ y.att = x.att
  BY <1>0 DEF LeadShape, LeadFields
<1>2. LeadSame(x, r) /\ r.att = x.att BY <1>0 DEF LeadSame, LeadShape, LeadFields
<1>3. ~x.lead.retry => \A f \in 0 .. x.lead.freq : <<x.lead.short, f>> \in x.taken
  <2> SUFFICES ASSUME ~x.lead.retry, NEW f \in 0 .. x.lead.freq
               PROVE  <<x.lead.short, f>> \in x.taken
    OBVIOUS
  <2>1. f \in 0 .. x.lead.freq - 1 \/ f = x.lead.freq BY <1>0 DEF Steps
  <2> QED BY <1>0, <2>1 DEF LeadProgress, Grouped
<1>4. CASE x.lead.retry
  <2>1. z = L!BeginGroup(r) BY <1>4 DEF L!NextGroup
  <2> HIDE DEF r
  <2>2. Grouped(r) BY <1>0, <1>2 DEF Grouped, LeadSame
  <2> QED BY <1>0, <1>2, <2>1, <2>2, BeginGroupRight DEF LeadSame
<1>5. CASE ~x.lead.retry /\ x.lead.freq + 1 < Frequencies
  <2> DEFINE w == IF x.lead.short THEN y ELSE [y EXCEPT !.lead.range = Ladder]
  <2>1. z = L!BeginGroup(w)
    <3>1. /\ ~x.lead.retry /\ y.lead.freq < Frequencies /\ y.lead.freq \in Nat
          /\ Frequencies \in Nat
      BY <1>0, <1>1, <1>5 DEF Steps
    <3> QED BY <3>1 DEF L!NextGroup
  <2> HIDE DEF y
  <2>2. /\ LeadShape(w) /\ w.lead.freq = x.lead.freq + 1 /\ w.lead.short = x.lead.short
        /\ w.taken = x.taken /\ w.att = x.att
    BY <1>1 DEF LeadShape, LeadFields
  <2> HIDE DEF w
  <2>3. w.lead.freq \in Steps /\ w.lead.freq - 1 = x.lead.freq BY <1>0, <1>5, <2>2 DEF Steps
  <2>4. Grouped(w) BY <1>0, <1>3, <1>5, <2>2, <2>3 DEF Grouped
  <2> QED BY <1>0, <2>1, <2>2, <2>4, BeginGroupRight
<1>6. CASE ~x.lead.retry /\ ~(x.lead.freq + 1 < Frequencies) /\ ~x.lead.short
  <2> DEFINE u == L!In(y, "WAIT_SHORT")
             w == [u EXCEPT !.lead.short = TRUE, !.lead.freq = 0]
  <2>1. z = w
    <3>1. y.lead.freq >= Frequencies BY <1>0, <1>1, <1>6 DEF Steps
    <3> QED BY <1>1, <1>6, <3>1 DEF L!NextGroup
  <2> HIDE DEF y
  <2>2. LeadSame(y, u) /\ u.lead.st = "WAIT_SHORT" /\ u.att = y.att BY <1>1, LeadInEffect
  <2> HIDE DEF u
  <2>3. /\ LeadShape(w) /\ w.lead.st = "WAIT_SHORT" /\ w.lead.short = TRUE /\ w.lead.freq = 0
        /\ w.taken = x.taken /\ w.att = x.att
    BY <1>1, <2>2 DEF LeadSame, LeadShape, LeadFields
  <2> HIDE DEF w
  <2>4. \A f \in Steps : <<FALSE, f>> \in x.taken
    <3> SUFFICES ASSUME NEW f \in Steps PROVE <<FALSE, f>> \in x.taken OBVIOUS
    <3>1. f \in 0 .. x.lead.freq BY <1>0, <1>6 DEF Steps
    <3> QED BY <1>0, <1>3, <1>6, <3>1
  <2>5. Grouped(w)
    <3>1. 0 \in Steps /\ 0 .. 0 - 1 = {} BY <1>0 DEF Steps
    <3> QED BY <2>3, <2>4, <3>1 DEF Grouped
  <2>6. LeadProgress(w) BY <1>0, <2>3, <2>5 DEF LeadProgress
  <2> QED
    BY <1>0, <2>1, <2>3, <2>6 DEF LeadRight, L!LeadStates, L!BusyStates, L!Capturing
<1>7. CASE ~x.lead.retry /\ ~(x.lead.freq + 1 < Frequencies) /\ x.lead.short
  <2>1. z \in {L!In(y, "REVIEW"), L!In(y, "FAILED")}
    BY <1>1, <1>7 DEF L!NextGroup
  <2> HIDE DEF y
  <2>2. PICK st \in {"REVIEW", "FAILED"} : z = L!In(y, st) BY <2>1
  <2>3. LeadSame(y, z) /\ z.lead.st = st /\ z.att = y.att BY <1>1, <2>2, LeadInEffect
  <2>4. BOOLEAN \X Steps \subseteq x.taken
    <3> SUFFICES ASSUME NEW s \in BOOLEAN, NEW f \in Steps PROVE <<s, f>> \in x.taken OBVIOUS
    <3>1. CASE s = FALSE BY <1>0, <1>7, <3>1 DEF Grouped
    <3>2. CASE s = TRUE
      <4>1. f \in 0 .. x.lead.freq BY <1>0, <1>7 DEF Steps
      <4> QED BY <1>0, <1>3, <1>7, <3>2, <4>1
    <3> QED BY <3>1, <3>2
  <2>5. z.taken = BOOLEAN \X Steps BY <1>0, <1>1, <2>3, <2>4 DEF LeadSame
  <2>6. LeadProgress(z) BY <1>0, <1>1, <2>3, <2>5 DEF LeadProgress, LeadSame, L!Capturing
  <2> QED
    BY <1>0, <1>1, <2>3, <2>6 DEF LeadRight, LeadSame, L!LeadStates, L!BusyStates, L!Capturing
<1> QED BY <1>4, <1>5, <1>6, <1>7

(* What was canceled is waited for.                                        *)
LEMMA LeadDrainRight ==
    ASSUME NEW x, LeadRight(x), x.lead.st = "DRAIN", NEW z \in L!Drain(x)
    PROVE  LeadRight(z)
<1> DEFINE y(b) == [x EXCEPT !.att = b]
<1>0. LeadShape(x) /\ Sound(x.att) /\ Sound(L!Released(x.att)) /\ "DRAIN" \in L!Capturing
  BY ReleasedEffect DEF LeadRight, L!Capturing
<1>1. PICK b \in L!Steps(L!Released(x.att)) :
         \/ z = y(b) \/ z = L!StopError(y(b))
         \/ ~L!AttemptActive(b) /\ z \in L!NextGroup(L!Acknowledge(y(b)))
  BY DEF L!Drain
<1> DEFINE w == y(b)
<1>2. Sound(b) BY <1>0, StepsEffect
<1>3. LeadSame(x, w) /\ w.lead = x.lead /\ w.att = b BY <1>0, LeadAttEffect
<1>4. \/ z = w \/ z = L!StopError(w)
      \/ ~L!AttemptActive(b) /\ z \in L!NextGroup(L!Acknowledge(w))
  BY <1>1
<1> HIDE DEF w
<1>5. LeadRight(w) BY <1>0, <1>2, <1>3, LeadCarried
<1>6. CASE z = w BY <1>5, <1>6
<1>7. CASE z = L!StopError(w) BY <1>2, <1>3, <1>7, StopErrorRight
<1>8. CASE ~L!AttemptActive(b) /\ z \in L!NextGroup(L!Acknowledge(w))
  <2> DEFINE k == L!Acknowledge(w)
  <2>1. LeadSame(w, k) /\ k.lead = w.lead /\ Sound(k.att) /\ ~L!AttemptActive(k.att)
    BY <1>2, <1>3, <1>8, LeadAcknowledgeEffect DEF LeadSame
  <2>2. z \in L!NextGroup(k) BY <1>8
  <2> HIDE DEF k
  <2>3. LeadRight(k) BY <1>0, <1>3, <1>5, <2>1, LeadCarried
  <2> QED BY <1>3, <2>1, <2>2, <2>3, NextGroupRight
<1> QED BY <1>4, <1>6, <1>7, <1>8

(* A cleanup is over when it is acknowledged.                              *)
LEMMA LeadCancelingRight ==
    ASSUME NEW x, LeadRight(x), x.lead.st = "CANCELING", NEW z \in L!Canceling(x)
    PROVE  LeadRight(z)
<1> DEFINE y(b) == [x EXCEPT !.att = b]
<1>0. LeadShape(x) /\ Sound(x.att) BY DEF LeadRight
<1>1. PICK b \in L!Steps(x.att) :
         z = IF L!AttemptActive(b) THEN y(b)
             ELSE L!In(L!Acknowledge(y(b)), IF x.lead.failed THEN "FAILED" ELSE "CANCELED")
  BY DEF L!Canceling
<1> DEFINE w == y(b)
           k == L!Acknowledge(w)
<1>2. Sound(b) BY <1>0, StepsEffect
<1>3. LeadSame(x, w) /\ w.lead = x.lead /\ w.att = b BY <1>0, LeadAttEffect
<1>4. z = IF L!AttemptActive(b) THEN w
          ELSE L!In(k, IF x.lead.failed THEN "FAILED" ELSE "CANCELED")
  BY <1>1
<1> HIDE DEF w
<1>5. LeadRight(w) BY <1>2, <1>3, LeadCarried
<1>6. CASE L!AttemptActive(b) BY <1>4, <1>5, <1>6
<1>7. CASE ~L!AttemptActive(b)
  <2>1. LeadSame(w, k) /\ k.lead = w.lead /\ Sound(k.att) /\ ~L!AttemptActive(k.att)
    BY <1>2, <1>3, <1>7, LeadAcknowledgeEffect DEF LeadSame
  <2>2. PICK st \in {"FAILED", "CANCELED"} : z = L!In(k, st) BY <1>4, <1>7
  <2> HIDE DEF k
  <2>3. LeadRight(k) BY <1>3, <1>5, <2>1, LeadCarried
  <2> QED BY <2>1, <2>2, <2>3, LeadInRight DEF Elsewhere
<1> QED BY <1>6, <1>7

(* So of every step of the leads, ...                                      *)
LEMMA LeadStepRight ==
    ASSUME NEW x, LeadRight(x), NEW late, NEW unbound, NEW allowed,
           NEW z \in L!LeadStep(x, late, unbound, allowed)
    PROVE  LeadRight(z)
<1>0. LeadSame(x, x) /\ Sound(x.att) BY DEF LeadRight, LeadSame
<1>1. \/ z = x \/ z = L!StopError(x)
      \/ x.lead.st = "SAVING" /\ z \in L!Saving(x, allowed)
      \/ x.lead.st = "CANCELING" /\ z \in L!Canceling(x)
      \/ x.lead.st = "START" /\ z \in L!Start(x)
      \/ x.lead.st = "WAIT" /\ z \in L!Wait(x)
      \/ x.lead.st = "DRAIN" /\ z \in L!Drain(x)
  BY DEF L!LeadStep
<1>2. CASE x.lead.st = "SAVING" /\ z \in L!Saving(x, allowed)
  <2>1. z = x \/ \E st \in {"COMPLETE", "FAILED"} : z = L!In(x, st) BY <1>2 DEF L!Saving
  <2>2. ~L!AttemptActive(x.att) BY <1>2, LeadQuiet DEF L!Capturing
  <2> QED BY <2>1, <2>2, LeadInRight DEF Elsewhere
<1> QED
  BY <1>0, <1>1, <1>2, StopErrorRight, LeadCancelingRight, LeadStartRight, LeadWaitRight,
     LeadDrainRight

-----------------------------------------------------------------------------
(* Where nothing is under way nothing happens to it.                       *)
LEMMA NotBusyStays ==
    ASSUME NEW x, ~L!Busy(x)
    PROVE  /\ L!Cancel(x) = x /\ L!Confirm(x) = {x}
           /\ \A in : L!Unplugged(x, in) = x
           /\ \A late, unbound, allowed : L!LeadStep(x, late, unbound, allowed) = {x}
<1>1. x.lead.st \notin L!BusyStates BY DEF L!Busy
<1>2. L!Cancel(x) = x BY DEF L!Cancel
<1>3. L!Confirm(x) = {x} BY <1>1 DEF L!Confirm, L!BusyStates
<1>4. \A in : L!Unplugged(x, in) = x BY <1>1 DEF L!Unplugged, L!BusyStates
<1>5. \A late, unbound, allowed : L!LeadStep(x, late, unbound, allowed) = {x}
  <2> SUFFICES ASSUME NEW late, NEW unbound, NEW allowed
               PROVE  L!LeadStep(x, late, unbound, allowed) = {x}
    OBVIOUS
  <2> QED BY <1>1 DEF L!LeadStep, L!Busy, L!BusyStates, L!Capturing
<1> QED BY <1>2, <1>3, <1>4, <1>5

(* ... of a pass of the page with them, ...                                *)
LEMMA LeadPassRight ==
    ASSUME LeadInv, L!Pass PROVE LeadInv'
<1>1. PICK in \in L!Inputs :
         LET x == IF blocked THEN L!Cancel(L!Here) ELSE L!Here
         IN  \E y \in L!Requested(x, in) :
             \E z \in L!LeadStep(L!Unplugged(y, in), in.late, in.unbound, in.allowed) :
                /\ lead' = z.lead /\ leadatt' = z.att /\ leadlease' = z.lease /\ taken' = z.taken
                /\ page' = IF blocked /\ ~L!Busy(z) THEN "ELSEWHERE" ELSE L!PageAfter(x, y, in)
  BY DEF L!Pass
<1> DEFINE x == IF blocked THEN L!Cancel(L!Here) ELSE L!Here
<1>2. PICK y \in L!Requested(x, in) :
         \E z \in L!LeadStep(L!Unplugged(y, in), in.late, in.unbound, in.allowed) :
            /\ lead' = z.lead /\ leadatt' = z.att /\ leadlease' = z.lease /\ taken' = z.taken
            /\ page' = IF blocked /\ ~L!Busy(z) THEN "ELSEWHERE" ELSE L!PageAfter(x, y, in)
  BY <1>1
<1>3. PICK z \in L!LeadStep(L!Unplugged(y, in), in.late, in.unbound, in.allowed) :
         /\ lead' = z.lead /\ leadatt' = z.att /\ leadlease' = z.lease /\ taken' = z.taken
         /\ page' = IF blocked /\ ~L!Busy(z) THEN "ELSEWHERE" ELSE L!PageAfter(x, y, in)
  BY <1>2
<1>4. LeadRight(L!Here) /\ (L!Busy(L!Here) => page = "LEAD_WIZARD")
  BY DEF LeadInv, L!Busy, L!Here
<1>5. page \in {"LEAD_MENU", "LEAD_WIZARD"} BY DEF L!Pass
<1>6. LeadRight(x) /\ (~L!Busy(L!Here) => x = L!Here) BY <1>4, LeadCancelRight, NotBusyStays
<1> HIDE DEF x
<1>7. LeadRight(y) BY <1>2, <1>6, LeadRequestedRight
<1>8. LeadRight(L!Unplugged(y, in)) BY <1>7, LeadCancelRight DEF L!Unplugged
<1>9. LeadRight(z) BY <1>3, <1>8, LeadStepRight
<1>10. (LeadRight(L!Here))'
  BY <1>3, <1>9
     DEF LeadRight, LeadShape, LeadFields, LeadProgress, Grouped, L!Here
<1>11. ~L!Busy(y) => z = y BY <1>3, NotBusyStays
<1>12. L!Busy(z) => page' = "LEAD_WIZARD"
  <2> SUFFICES ASSUME L!Busy(z) PROVE page' = "LEAD_WIZARD" OBVIOUS
  <2>1. L!Busy(y) BY <1>11
  <2>2. page' = L!PageAfter(x, y, in) BY <1>3
  <2>3. CASE page = "LEAD_MENU"
    <3>1. ~L!Busy(x) BY <1>4, <1>6, <2>3
    <3>2. y # x BY <2>1, <3>1
    <3>3. ~blocked /\ in.request = "CLICK" /\ in.item # "LEAVE" /\ in.request # "MENU"
      <4>1. ~blocked BY <2>3, <3>2, <1>2 DEF L!Requested
      <4>2. in.request = "CLICK" BY <2>3, <3>2, <1>2 DEF L!Requested
      <4>3. in.item # "LEAVE" BY <2>3, <3>2, <1>2 DEF L!Requested
      <4> QED BY <4>1, <4>2, <4>3
    <3> QED BY <2>1, <2>2, <2>3, <3>2, <3>3 DEF L!PageAfter
  <2>4. CASE page = "LEAD_WIZARD"
    <3>1. L!Busy(x)
      <4> SUFFICES ASSUME ~L!Busy(x) PROVE FALSE OBVIOUS
      <4>1. L!Requested(x, in) = {x} BY <2>4, NotBusyStays DEF L!Requested
      <4> QED BY <1>2, <2>1, <4>1
    <3> QED BY <2>2, <2>4, <3>1 DEF L!PageAfter
  <2> QED BY <1>5, <2>3, <2>4
<1> QED BY <1>3, <1>10, <1>12 DEF LeadInv, L!Busy

(* ... and of all that goes on around them.                                *)
LEMMA LeadNextRight ==
    ASSUME LeadInv, [L!Next]_leads PROVE LeadInv'
<1>1. CASE L!Pass BY <1>1, LeadPassRight
<1>2. CASE L!Return \/ L!Fault \/ L!OthersBorrow \/ UNCHANGED leads
  <2>1. /\ lead' = lead /\ leadatt' = leadatt /\ taken' = taken
        /\ page' = page \/ page = "ELSEWHERE"
    BY <1>2 DEF L!Return, L!Fault, L!OthersBorrow, leads
  <2> QED BY <2>1
     DEF LeadInv, LeadRight, LeadShape, LeadFields, LeadProgress, Grouped, L!Here
<1> QED BY <1>1, <1>2 DEF L!Next

(* Which is what is promised of the leads.                                 *)
LEMMA LeadInvHonest == LeadInv => L!ReviewIsEarned /\ L!NothingLeftRunning
BY DEF LeadInv, LeadRight, LeadProgress, L!Here, Sound, L!ReviewIsEarned, L!NothingLeftRunning,
       L!BusyStates, Steps
-----------------------------------------------------------------------------
(***************************************************************************)
(* The calibration session, which the wizard and the captures for the PC   *)
(* both run over the transaction of the leads.                             *)
(***************************************************************************)
LEMMA AttemptsAgree ==
    /\ W!Attempts = L!Attempts /\ W!Untouched = L!Untouched
    /\ \A a : /\ W!AttemptActive(a) <=> L!AttemptActive(a)
              /\ W!AbortedAttempt(a) = L!AbortedAttempt(a) /\ W!Steps(a) = L!Steps(a)
              /\ W!Acknowledged(a) = L!Acknowledged(a) /\ (W!Ready(a) <=> L!Ready(a))
    /\ \A a, l : W!LeaseAcknowledged(a, l) = L!LeaseAcknowledged(a, l)
    /\ \A a, l, h : W!StartCalls(a, l, h) = L!StartCalls(a, l, h)
<1>1. W!Attempts = L!Attempts BY DEF W!Attempts, L!Attempts
<1>2. W!Untouched = L!Untouched BY DEF W!Untouched, L!Untouched
<1>3. \A a : W!AttemptActive(a) <=> L!AttemptActive(a) BY DEF W!AttemptActive, L!AttemptActive
<1>4. \A a : W!AbortedAttempt(a) = L!AbortedAttempt(a)
  BY DEF W!AbortedAttempt, L!AbortedAttempt, W!Untouched, L!Untouched
<1>5. \A a : W!Steps(a) = L!Steps(a)
  BY DEF W!Steps, L!Steps, W!AbortedAttempt, L!AbortedAttempt, W!Untouched, L!Untouched
<1>6. \A a : W!Acknowledged(a) = L!Acknowledged(a)
  BY DEF W!Acknowledged, L!Acknowledged, W!AttemptActive, L!AttemptActive
<1>7. \A a : W!Ready(a) <=> L!Ready(a) BY DEF W!Ready, L!Ready
<1>8. \A a, l : W!LeaseAcknowledged(a, l) = L!LeaseAcknowledged(a, l)
  BY DEF W!LeaseAcknowledged, L!LeaseAcknowledged, W!Acknowledged, L!Acknowledged,
     W!AttemptActive, L!AttemptActive
<1>9. \A a, l, h : W!StartCalls(a, l, h) = L!StartCalls(a, l, h)
  BY DEF W!StartCalls, L!StartCalls, W!Starts, L!Starts, W!Running, L!Running,
     W!AbortedAttempt, L!AbortedAttempt, W!Untouched, L!Untouched, W!AttemptActive,
     L!AttemptActive
<1> QED BY <1>1, <1>2, <1>3, <1>4, <1>5, <1>6, <1>7, <1>8, <1>9

SesFields == {"st", "event", "started", "blocks", "got"}
WfFields == {"st", "accepted", "attempts", "taken"}
SessionShape(x) ==
    {"ses", "wf", "att", "lease"} \subseteq DOMAIN x /\ SesFields \subseteq DOMAIN x.ses
    /\ WfFields \subseteq DOMAIN x.wf

(* The evidence of a workflow is what it took; where the session is says   *)
(* where its workflow is.                                                  *)
Evidence(x) ==
    /\ SessionShape(x) /\ Sound(x.att)
    /\ x.ses.event \in {"NONE", "BEGIN", "CANCELED"} /\ x.ses.got \in Nat
    /\ x.ses.event = "CANCELED" => x.ses.st = "DONE"
    /\ x.wf.accepted = x.wf.taken /\ x.wf.taken \in Nat
    /\ x.wf.st = "COMPLETE" => x.wf.taken >= Required
    /\ \/ x.ses.st \in {"IDLE", "DONE"} /\ x.wf.st \notin {"REQUESTED", "WAIT", "CANCELING"}
       \/ x.ses.st = "START_CAPTURE" /\ x.ses.got = 0
          /\ x.wf.st \in {"REQUESTED", "COMPLETE", "FAILED"}
       \/ x.ses.st = "START_CAPTURE" /\ x.ses.got # 0 /\ x.wf.st = "WAIT"
       \/ x.ses.st = "WAIT_CAPTURE" /\ x.wf.st = "WAIT"
       \/ x.ses.st = "CANCELING" /\ x.wf.st = "CANCELING"
(* Only a capture and its cleanup have the front end and the workspace.    *)
AtRest(x) ==
    x.ses.st \notin {"WAIT_CAPTURE", "CANCELING"} =>
        ~L!AttemptActive(x.att) /\ x.lease # "METROLOGY"

(* What a session does not touch.                                          *)
Beside(x, y) ==
    /\ SessionShape(y) /\ DOMAIN y = DOMAIN x
    /\ \A f \in DOMAIN x \ {"ses", "wf", "att", "lease"} : y[f] = x[f]
SameTransaction(x, y) == y.att = x.att /\ y.lease = x.lease
SameEvidence(x, y) == y.wf.accepted = x.wf.accepted /\ y.wf.taken = x.wf.taken

(* Two steps beside the same are one.                                      *)
LEMMA BesideTwice ==
    ASSUME NEW x, NEW y, NEW z, Beside(x, y), Beside(y, z) PROVE Beside(x, z)
BY DEF Beside

(* The workflow: an attempt is counted, ...                                *)
LEMMA AttemptedEffect ==
    ASSUME NEW x, SessionShape(x)
    PROVE  LET y == W!Attempted(x)
           IN  /\ Beside(x, y) /\ SameTransaction(x, y) /\ SameEvidence(x, y) /\ y.ses = x.ses
               /\ y.wf.st = x.wf.st
BY DEF W!Attempted, SessionShape, WfFields, Beside, SameTransaction, SameEvidence

(* ... goes on or has come to an end, ...                                  *)
LEMMA WorkflowAtEffect ==
    ASSUME NEW x, SessionShape(x), NEW st
    PROVE  LET y == [x EXCEPT !.wf.st = st]
           IN  /\ Beside(x, y) /\ SameTransaction(x, y) /\ SameEvidence(x, y) /\ y.ses = x.ses
               /\ y.wf.st = st
BY DEF SessionShape, WfFields, Beside, SameTransaction, SameEvidence

(* ... a sample is taken.                                                  *)
LEMMA CountedEffect ==
    ASSUME NEW x, SessionShape(x)
    PROVE  LET y == [x EXCEPT !.wf.accepted = @ + 1, !.wf.taken = @ + 1]
           IN  /\ Beside(x, y) /\ SameTransaction(x, y) /\ y.ses = x.ses
               /\ y.wf.accepted = x.wf.accepted + 1 /\ y.wf.taken = x.wf.taken + 1
BY DEF SessionShape, WfFields, Beside, SameTransaction

(* The workflow goes on, or gives up at its last attempt.                  *)
LEMMA GoOnEffect ==
    ASSUME NEW x, SessionShape(x)
    PROVE  LET y == W!GoOn(x)
           IN  /\ Beside(x, y) /\ SameTransaction(x, y) /\ SameEvidence(x, y) /\ y.ses = x.ses
               /\ y.wf.st \in {"REQUESTED", "FAILED"}
<1> DEFINE st == IF x.wf.attempts >= MaxAttempts THEN "FAILED" ELSE "REQUESTED"
           y == [x EXCEPT !.wf.st = st]
<1>1. W!GoOn(x) = y BY DEF W!GoOn
<1>2. st \in {"REQUESTED", "FAILED"} OBVIOUS
<1> HIDE DEF st
<1>3. /\ Beside(x, y) /\ SameTransaction(x, y) /\ SameEvidence(x, y) /\ y.ses = x.ses
      /\ y.wf.st = st
  BY WorkflowAtEffect
<1> QED BY <1>1, <1>2, <1>3

(* What a verdict does to the evidence: only a capture accepted adds to    *)
(* it.                                                                     *)
LEMMA JudgedEffect ==
    ASSUME NEW x, SessionShape(x), x.wf.accepted = x.wf.taken, x.wf.taken \in Nat,
           NEW v \in W!Verdicts
    PROVE  LET y == W!Judged(x, v)
           IN  /\ Beside(x, y) /\ SameTransaction(x, y) /\ y.ses = x.ses
               /\ y.wf.accepted = y.wf.taken /\ y.wf.taken \in Nat
               /\ y.wf.st \in {"REQUESTED", "COMPLETE", "FAILED"}
               /\ y.wf.st = "COMPLETE" => y.wf.taken >= Required
<1> DEFINE u == W!Attempted(x)
           w == [u EXCEPT !.wf.accepted = @ + 1, !.wf.taken = @ + 1]
           z == W!Judged(x, v)
<1>1. Beside(x, u) /\ SameTransaction(x, u) /\ SameEvidence(x, u) /\ u.ses = x.ses
  BY AttemptedEffect
<1>2. \/ z = W!GoOn(u) \/ z = W!GoOn(w)
      \/ w.wf.accepted >= Required /\ z = [w EXCEPT !.wf.st = "COMPLETE"]
  BY DEF W!Judged, W!Reject, W!Accept
<1> HIDE DEF u, z
<1>3. /\ Beside(u, w) /\ SameTransaction(u, w) /\ w.ses = u.ses
      /\ w.wf.accepted = u.wf.accepted + 1 /\ w.wf.taken = u.wf.taken + 1
  BY <1>1, CountedEffect DEF Beside
<1> HIDE DEF w
<1>4. Beside(x, w) BY <1>1, <1>3, BesideTwice
<1>5. CASE z = W!GoOn(u)
  <2>1. /\ Beside(u, z) /\ SameTransaction(u, z) /\ SameEvidence(u, z) /\ z.ses = u.ses
        /\ z.wf.st \in {"REQUESTED", "FAILED"}
    BY <1>1, <1>5, GoOnEffect DEF Beside
  <2>2. Beside(x, z) BY <1>1, <2>1, BesideTwice
  <2> QED BY <1>1, <2>1, <2>2 DEF z, SameTransaction, SameEvidence
<1>6. CASE z = W!GoOn(w)
  <2>1. /\ Beside(w, z) /\ SameTransaction(w, z) /\ SameEvidence(w, z) /\ z.ses = w.ses
        /\ z.wf.st \in {"REQUESTED", "FAILED"}
    BY <1>4, <1>6, GoOnEffect DEF Beside
  <2>2. Beside(x, z) BY <1>4, <2>1, BesideTwice
  <2> QED BY <1>1, <1>3, <2>1, <2>2 DEF z, SameTransaction, SameEvidence
<1>7. CASE w.wf.accepted >= Required /\ z = [w EXCEPT !.wf.st = "COMPLETE"]
  <2>1. /\ Beside(w, z) /\ SameTransaction(w, z) /\ SameEvidence(w, z) /\ z.ses = w.ses
        /\ z.wf.st = "COMPLETE"
    BY <1>4, <1>7, WorkflowAtEffect DEF Beside
  <2>2. Beside(x, z) BY <1>4, <2>1, BesideTwice
  <2> QED BY <1>1, <1>3, <1>7, <2>1, <2>2 DEF z, SameTransaction, SameEvidence
<1> QED BY <1>2, <1>5, <1>6, <1>7

(* A capture that failed adds nothing.                                     *)
LEMMA FailedEffect ==
    ASSUME NEW x, SessionShape(x)
    PROVE  LET y == W!Failed(x)
           IN  /\ Beside(x, y) /\ SameTransaction(x, y) /\ SameEvidence(x, y)
               /\ y.wf.st = "FAILED" /\ y.ses.got = 0 /\ y.ses.st = x.ses.st
               /\ y.ses.event = x.ses.event
<1> DEFINE u == W!Attempted(x)
           w == [u EXCEPT !.wf.st = "FAILED"]
           y == [w EXCEPT !.ses.got = 0]
<1>1. Beside(x, u) /\ SameTransaction(x, u) /\ SameEvidence(x, u) /\ u.ses = x.ses
  BY AttemptedEffect
<1>2. W!Failed(x) = y BY DEF W!Failed
<1> HIDE DEF u
<1>3. /\ Beside(u, w) /\ SameTransaction(u, w) /\ SameEvidence(u, w) /\ w.ses = u.ses
      /\ w.wf.st = "FAILED"
  BY <1>1, WorkflowAtEffect DEF Beside
<1> HIDE DEF w
<1>4. /\ Beside(w, y) /\ SameTransaction(w, y) /\ y.wf = w.wf /\ y.ses.got = 0
      /\ y.ses.st = w.ses.st /\ y.ses.event = w.ses.event
  BY <1>3 DEF Beside, SessionShape, SesFields, SameTransaction
<1> HIDE DEF y
<1>5. Beside(x, y) BY <1>1, <1>3, <1>4, BesideTwice
<1> QED BY <1>1, <1>2, <1>3, <1>4, <1>5 DEF SameTransaction, SameEvidence

(* The transaction and the workspace.                                      *)
LEMMA AcknowledgeEffect ==
    ASSUME NEW x, SessionShape(x), Sound(x.att), ~L!AttemptActive(x.att)
    PROVE  LET y == W!Acknowledge(x)
           IN  /\ Beside(x, y) /\ y.wf = x.wf /\ y.ses = x.ses /\ Sound(y.att)
               /\ ~L!AttemptActive(y.att) /\ y.lease # "METROLOGY"
<1> DEFINE a == L!Acknowledged(x.att)
           l == L!LeaseAcknowledged(x.att, x.lease)
           y == [x EXCEPT !.att = a, !.lease = l]
<1>1. Sound(a) /\ ~L!AttemptActive(a) BY AcknowledgedEffect
<1>2. l # "METROLOGY" BY LeaseAcknowledgedEffect
<1>3. W!Acknowledge(x) = y
  BY DEF W!Acknowledge, W!Acknowledged, W!LeaseAcknowledged, W!AttemptActive, L!Acknowledged,
     L!LeaseAcknowledged, L!AttemptActive
<1> HIDE DEF a, l
<1>4. Beside(x, y) /\ y.att = a /\ y.lease = l /\ y.wf = x.wf /\ y.ses = x.ses
  BY DEF SessionShape, Beside
<1> QED BY <1>1, <1>2, <1>3, <1>4

(* The session alone.                                                      *)
LEMMA SessionAtEffect ==
    ASSUME NEW x, SessionShape(x), NEW st
    PROVE  LET y == [x EXCEPT !.ses.st = st]
           IN  /\ Beside(x, y) /\ SameTransaction(x, y) /\ y.wf = x.wf /\ y.ses.st = st
               /\ y.ses.got = x.ses.got /\ y.ses.event = x.ses.event
BY DEF SessionShape, SesFields, Beside, SameTransaction
-----------------------------------------------------------------------------
(* What a call of the session leaves behind and says.                      *)
Events == {"NONE", "BEGIN", "CANCELED", "COMPLETE", "FAILED", "ACCEPTED", "REJECTED"}
SessionSays(x, r) ==
    /\ Beside(x, r.x) /\ Evidence(r.x) /\ r.event \in Events
    /\ AtRest(x) => AtRest(r.x)
    /\ r.event = "COMPLETE" => r.x.ses.st = "DONE" /\ r.x.wf.st = "COMPLETE"
    /\ r.event \in {"CANCELED", "FAILED"} => r.x.ses.st = "DONE"
    /\ x.ses.st = "CANCELING" => r.x.ses.st \in {"CANCELING", "DONE"} /\ r.event # "COMPLETE"
    /\ x.ses.st \in {"IDLE", "DONE"} => r.x.ses.st = x.ses.st /\ r.event # "COMPLETE"

(* The session ends with what its workflow ended with.                     *)
LEMMA TerminalSays ==
    ASSUME NEW x, NEW w, Evidence(w), Beside(x, w), AtRest(x) => AtRest(w),
           AtRest(x) => ~L!AttemptActive(w.att) /\ w.lease # "METROLOGY",
           w.wf.st \in {"COMPLETE", "FAILED", "CANCELED"}, w.ses.event = "NONE",
           x.ses.st = "CANCELING" => w.wf.st = "CANCELED", x.ses.st \notin {"IDLE", "DONE"}
    PROVE  SessionSays(x, W!Terminal(w))
<1> DEFINE y == [w EXCEPT !.ses.st = "DONE"]
           e == CASE w.wf.st = "COMPLETE" -> "COMPLETE" [] w.wf.st = "CANCELED" -> "CANCELED"
                  [] OTHER -> "FAILED"
           r == W!Terminal(w)
<1>1. r = [x |-> y, event |-> e] BY DEF W!Terminal
<1>2. /\ e \in {"COMPLETE", "CANCELED", "FAILED"}
      /\ e = "COMPLETE" => w.wf.st = "COMPLETE"
  OBVIOUS
<1>3. /\ Beside(w, y) /\ SameTransaction(w, y) /\ y.wf = w.wf /\ y.ses.st = "DONE"
      /\ y.ses.got = w.ses.got /\ y.ses.event = w.ses.event
  BY SessionAtEffect DEF Evidence
<1> HIDE DEF y, e
<1>4. Beside(x, y) BY <1>3, BesideTwice
<1>5. Evidence(y) BY <1>3 DEF Evidence, SameTransaction, Beside
<1>6. r.x = y /\ r.event = e BY <1>1
<1> HIDE DEF r
<1>7. AtRest(x) => AtRest(y) BY <1>3 DEF AtRest, SameTransaction
<1>8. SessionSays(x, r) BY <1>2, <1>3, <1>4, <1>5, <1>6, <1>7 DEF SessionSays, Events
<1> QED BY <1>8 DEF r

(* Without a word.                                                         *)
LEMMA QuietSays ==
    ASSUME NEW x, NEW y, Evidence(y), Beside(x, y), AtRest(x) => AtRest(y),
           x.ses.st = "CANCELING" => y.ses.st \in {"CANCELING", "DONE"},
           x.ses.st \in {"IDLE", "DONE"} => y.ses.st = x.ses.st
    PROVE  SessionSays(x, W!Quiet(y))
BY DEF SessionSays, W!Quiet, Events

(* A capture is started, ...                                               *)
LEMMA TakeCaptureSays ==
    ASSUME NEW x, Evidence(x), x.ses.st = "START_CAPTURE", x.ses.event = "NONE",
           NEW r \in W!TakeCapture(x)
    PROVE  SessionSays(x, r)
<1>0. SessionShape(x) /\ Sound(x.att) BY DEF Evidence
<1>1. CASE x.ses.got = 0 /\ x.wf.st # "REQUESTED"
  <2>1. r = W!Terminal(x) BY <1>1 DEF W!TakeCapture
  <2>2. Beside(x, x) BY <1>0 DEF Beside
  <2>3. x.wf.st \in {"COMPLETE", "FAILED"} BY <1>1 DEF Evidence
  <2> QED BY <2>1, <2>2, <2>3, TerminalSays DEF AtRest
<1>2. CASE ~(x.ses.got = 0 /\ x.wf.st # "REQUESTED")
  <2> DEFINE u(call) == [x EXCEPT !.att = call.att, !.lease = call.lease, !.wf.st = "WAIT"]
  <2> DEFINE started(call) == [u(call) EXCEPT !.ses.st = "WAIT_CAPTURE", !.ses.started = TRUE]
  <2>1. PICK call \in W!StartCalls(x.att, x.lease, FALSE) :
           r = W!Quiet(IF call.ok THEN started(call) ELSE W!Failed(u(call)))
    BY <1>2 DEF W!TakeCapture
  <2> DEFINE w == u(call)
             v == [w EXCEPT !.ses.st = "WAIT_CAPTURE", !.ses.started = TRUE]
  <2>2. r = W!Quiet(IF call.ok THEN v ELSE W!Failed(w)) BY <2>1
  <2>3. /\ Sound(call.att)
        /\ ~L!AttemptActive(x.att) /\ x.lease # "METROLOGY" /\ ~call.ok =>
              ~L!AttemptActive(call.att) /\ call.lease # "METROLOGY"
    <3>1. call \in L!StartCalls(x.att, x.lease, FALSE) BY AttemptsAgree
    <3>2. ASSUME NEW h \in BOOLEAN, call \in L!StartCalls(x.att, x.lease, h)
          PROVE  /\ Sound(call.att)
                 /\ ~L!AttemptActive(x.att) /\ x.lease # "METROLOGY" /\ ~call.ok =>
                       ~L!AttemptActive(call.att) /\ call.lease # "METROLOGY"
      BY <1>0, <3>2, StartCallsEffect
    <3> QED BY <3>1, <3>2
  <2>4. /\ Beside(x, w) /\ w.att = call.att /\ w.lease = call.lease /\ w.ses = x.ses
        /\ SameEvidence(x, w) /\ w.wf.st = "WAIT"
    BY <1>0 DEF SessionShape, WfFields, Beside, SameEvidence
  <2> HIDE DEF w
  <2>5. CASE call.ok
    <3>1. /\ Beside(w, v) /\ SameTransaction(w, v) /\ v.wf = w.wf /\ v.ses.st = "WAIT_CAPTURE"
          /\ v.ses.got = w.ses.got /\ v.ses.event = w.ses.event
      BY <2>4 DEF Beside, SessionShape, SesFields, SameTransaction
    <3> HIDE DEF v
    <3>2. Beside(x, v) BY <2>4, <3>1, BesideTwice
    <3>3. Evidence(v) BY <2>3, <2>4, <3>1 DEF Evidence, SameTransaction, SameEvidence, Beside
    <3>4. AtRest(v) BY <3>1 DEF AtRest
    <3>5. r = W!Quiet(v) BY <2>2, <2>5
    <3> QED BY <3>2, <3>3, <3>4, <3>5, QuietSays
  <2>6. CASE ~call.ok
    <3> DEFINE f == W!Failed(w)
    <3>1. /\ Beside(w, f) /\ SameTransaction(w, f) /\ SameEvidence(w, f)
          /\ f.wf.st = "FAILED" /\ f.ses.got = 0 /\ f.ses.st = w.ses.st
          /\ f.ses.event = w.ses.event
      BY <2>4, FailedEffect DEF Beside
    <3>2. r = W!Quiet(f) BY <2>2, <2>6
    <3> HIDE DEF f
    <3>3. Beside(x, f) BY <2>4, <3>1, BesideTwice
    <3>4. Evidence(f) BY <2>3, <2>4, <3>1 DEF Evidence, SameTransaction, SameEvidence, Beside
    <3>5. AtRest(x) => AtRest(f) BY <2>3, <2>4, <2>6, <3>1 DEF AtRest, SameTransaction
    <3> QED BY <3>2, <3>3, <3>4, <3>5, QuietSays
  <2> QED BY <2>5, <2>6
<1> QED BY <1>1, <1>2

(* x is where a capture has just ended.                                    *)
LEMMA SampledSays ==
    ASSUME NEW x, Evidence(x), x.ses.st = "WAIT_CAPTURE", x.ses.event = "NONE",
           NEW y, Beside(x, y), Sound(y.att), ~L!AttemptActive(y.att), SameEvidence(x, y),
           y.wf.st = "WAIT", y.ses.st = "START_CAPTURE", y.ses.event = "NONE",
           y.ses.got = x.ses.got,
           NEW r \in W!Sampled(y)
    PROVE  SessionSays(x, r)
<1> DEFINE last == [y EXCEPT !.ses.got = 0]
           part == [y EXCEPT !.ses.got = @ + 1]
<1>0. SessionShape(y) BY DEF Beside
<1>1. \/ r = W!Quiet(W!Acknowledge(part))
      \/ \E v \in W!Verdicts :
            r = [x |-> W!Acknowledge(W!Judged(last, v)),
                 event |-> IF v = "REJECTED" THEN "REJECTED" ELSE "ACCEPTED"]
  BY DEF W!Sampled
<1>2. /\ Beside(y, last) /\ SameTransaction(y, last) /\ last.wf = y.wf /\ last.ses.got = 0
      /\ last.ses.st = y.ses.st /\ last.ses.event = y.ses.event
  BY <1>0 DEF Beside, SessionShape, SesFields, SameTransaction
<1>3. /\ Beside(y, part) /\ SameTransaction(y, part) /\ part.wf = y.wf
      /\ part.ses.got = y.ses.got + 1
      /\ part.ses.st = y.ses.st /\ part.ses.event = y.ses.event
  BY <1>0 DEF Beside, SessionShape, SesFields, SameTransaction
<1> HIDE DEF last, part
<1>4. CASE r = W!Quiet(W!Acknowledge(part))
  <2> DEFINE k == W!Acknowledge(part)
  <2>1. /\ Beside(part, k) /\ k.wf = part.wf /\ k.ses = part.ses /\ Sound(k.att)
        /\ ~L!AttemptActive(k.att) /\ k.lease # "METROLOGY"
    BY <1>3, AcknowledgeEffect DEF Beside, SameTransaction
  <2> HIDE DEF k
  <2>2. Beside(x, k) BY <1>3, <2>1, BesideTwice
  <2>3. x.ses.got \in Nat BY DEF Evidence
  <2>4. k.ses.got # 0 /\ k.ses.got \in Nat BY <1>3, <2>1, <2>3
  <2>5. Evidence(k) BY <1>3, <2>1, <2>4 DEF Evidence, SameEvidence, Beside
  <2>6. AtRest(k) BY <2>1 DEF AtRest
  <2> QED BY <1>4, <2>2, <2>5, <2>6, QuietSays DEF k
<1>5. ASSUME NEW v \in W!Verdicts,
             r = [x |-> W!Acknowledge(W!Judged(last, v)),
                  event |-> IF v = "REJECTED" THEN "REJECTED" ELSE "ACCEPTED"]
      PROVE  SessionSays(x, r)
  <2> DEFINE j == W!Judged(last, v)
             k == W!Acknowledge(j)
  <2>1. last.wf.accepted = last.wf.taken /\ last.wf.taken \in Nat
    BY <1>2 DEF Evidence, SameEvidence
  <2>2. /\ Beside(last, j) /\ SameTransaction(last, j) /\ j.ses = last.ses
        /\ j.wf.accepted = j.wf.taken /\ j.wf.taken \in Nat
        /\ j.wf.st \in {"REQUESTED", "COMPLETE", "FAILED"}
        /\ j.wf.st = "COMPLETE" => j.wf.taken >= Required
    BY <1>2, <2>1, JudgedEffect DEF Beside
  <2>3. r.x = k /\ r.event \in {"REJECTED", "ACCEPTED"} BY <1>5
  <2> HIDE DEF j
  <2>4. /\ Beside(j, k) /\ k.wf = j.wf /\ k.ses = j.ses /\ Sound(k.att)
        /\ ~L!AttemptActive(k.att) /\ k.lease # "METROLOGY"
    BY <1>2, <2>2, AcknowledgeEffect DEF Beside, SameTransaction
  <2> HIDE DEF k
  <2>5. Beside(x, k) BY <1>2, <2>2, <2>4, BesideTwice
  <2>6. Evidence(k) BY <1>2, <2>2, <2>4 DEF Evidence, Beside
  <2>7. AtRest(k) BY <2>4 DEF AtRest
  <2> QED BY <2>3, <2>5, <2>6, <2>7 DEF SessionSays, Events
<1> QED BY <1>1, <1>4, <1>5

(* ... waited for and judged, ...                                          *)
LEMMA WaitCaptureSays ==
    ASSUME NEW x, Evidence(x), x.ses.st = "WAIT_CAPTURE", x.ses.event = "NONE",
           NEW r \in W!WaitCapture(x)
    PROVE  SessionSays(x, r)
<1> DEFINE u(b) == [x EXCEPT !.att = b, !.ses.st = "START_CAPTURE"]
           v(b) == [x EXCEPT !.att = b]
<1>0. SessionShape(x) /\ Sound(x.att) /\ x.wf.st = "WAIT" BY DEF Evidence
<1> DEFINE after(b) == CASE W!AttemptActive(b) -> {W!Quiet(v(b))}
                          [] ~W!AttemptActive(b) /\ W!Ready(b) -> W!Sampled(u(b))
                          [] OTHER -> {W!Quiet(W!Acknowledge(W!Failed(u(b))))}
<1>a. PICK b \in W!Steps(x.att) : r \in after(b)
  <2>1. r \in UNION {after(b) : b \in W!Steps(x.att)} BY DEF W!WaitCapture
  <2> HIDE DEF after
  <2> QED BY <2>1
<1> HIDE DEF u, v
<1>1. \/ L!AttemptActive(b) /\ r = W!Quiet(v(b))
      \/ ~L!AttemptActive(b) /\ r \in W!Sampled(u(b))
      \/ ~L!AttemptActive(b) /\ r = W!Quiet(W!Acknowledge(W!Failed(u(b))))
  <2>1. CASE W!AttemptActive(b) BY <2>1, <1>a, AttemptsAgree
  <2>2. CASE ~W!AttemptActive(b) /\ W!Ready(b) BY <2>2, <1>a, AttemptsAgree
  <2>3. CASE ~W!AttemptActive(b) /\ ~W!Ready(b) BY <2>3, <1>a, AttemptsAgree
  <2> QED BY <2>1, <2>2, <2>3
<1> USE DEF u, v
<1>2. Sound(b) BY <1>0, AttemptsAgree, StepsEffect
<1>3. CASE L!AttemptActive(b) /\ r = W!Quiet(v(b))
  <2> DEFINE y == v(b)
  <2>1. Beside(x, y) /\ y.att = b /\ y.lease = x.lease /\ y.wf = x.wf /\ y.ses = x.ses
    BY <1>0 DEF SessionShape, Beside
  <2>2. r = W!Quiet(y) BY <1>3
  <2> HIDE DEF y
  <2>3. Evidence(y) BY <1>2, <2>1 DEF Evidence, Beside
  <2>4. AtRest(y) BY <2>1 DEF AtRest
  <2> QED BY <2>1, <2>2, <2>3, <2>4, QuietSays
<1> DEFINE y == u(b)
<1>4. /\ Beside(x, y) /\ y.att = b /\ y.wf = x.wf /\ y.ses.st = "START_CAPTURE"
      /\ y.ses.event = "NONE" /\ y.ses.got = x.ses.got
  BY <1>0 DEF SessionShape, SesFields, Beside
<1>5. CASE ~L!AttemptActive(b) /\ r \in W!Sampled(y)
  <2> HIDE DEF y
  <2> QED BY <1>0, <1>2, <1>4, <1>5, SampledSays DEF SameEvidence
<1>6. CASE ~L!AttemptActive(b) /\ r = W!Quiet(W!Acknowledge(W!Failed(y)))
  <2> HIDE DEF y
  <2> DEFINE f == W!Failed(y)
             k == W!Acknowledge(f)
  <2>1. /\ Beside(y, f) /\ SameTransaction(y, f) /\ SameEvidence(y, f)
        /\ f.wf.st = "FAILED" /\ f.ses.got = 0 /\ f.ses.st = y.ses.st
        /\ f.ses.event = y.ses.event
    BY <1>4, FailedEffect DEF Beside
  <2> HIDE DEF f
  <2>2. /\ Beside(f, k) /\ k.wf = f.wf /\ k.ses = f.ses /\ Sound(k.att)
        /\ ~L!AttemptActive(k.att) /\ k.lease # "METROLOGY"
    BY <1>2, <1>4, <1>6, <2>1, AcknowledgeEffect DEF Beside, SameTransaction
  <2>3. r = W!Quiet(k) BY <1>6 DEF f
  <2> HIDE DEF k
  <2>4. Beside(x, k) BY <1>4, <2>1, <2>2, BesideTwice
  <2>5. Evidence(k) BY <1>4, <2>1, <2>2 DEF Evidence, SameEvidence, Beside
  <2>6. AtRest(k) BY <2>2 DEF AtRest
  <2> QED BY <2>3, <2>4, <2>5, <2>6, QuietSays
<1> QED BY <1>1, <1>3, <1>5, <1>6

(* ... or drained, after which nothing was completed.                      *)
LEMMA CancelingSays ==
    ASSUME NEW x, Evidence(x), x.ses.st = "CANCELING", x.ses.event = "NONE",
           NEW r \in W!Canceling(x)
    PROVE  SessionSays(x, r)
<1> DEFINE v(b) == [x EXCEPT !.att = b]
<1>0. SessionShape(x) /\ Sound(x.att) /\ x.wf.st = "CANCELING" BY DEF Evidence
<1>1. PICK b \in W!Steps(x.att) :
         r = IF L!AttemptActive(b) THEN W!Quiet(v(b))
             ELSE W!Terminal(W!CancelComplete(W!Acknowledge(v(b))))
  BY AttemptsAgree DEF W!Canceling
<1>2. Sound(b) BY <1>0, AttemptsAgree, StepsEffect
<1> DEFINE y == v(b)
<1>3. Beside(x, y) /\ y.att = b /\ y.lease = x.lease /\ y.wf = x.wf /\ y.ses = x.ses
  BY <1>0 DEF SessionShape, Beside
<1>4. r = IF L!AttemptActive(b) THEN W!Quiet(y)
          ELSE W!Terminal(W!CancelComplete(W!Acknowledge(y)))
  BY <1>1
<1> HIDE DEF y
<1>5. CASE L!AttemptActive(b)
  <2>1. Evidence(y) BY <1>2, <1>3 DEF Evidence, Beside
  <2>2. AtRest(y) BY <1>3 DEF AtRest
  <2> QED BY <1>3, <1>4, <1>5, <2>1, <2>2, QuietSays
<1>6. CASE ~L!AttemptActive(b)
  <2> DEFINE k == W!Acknowledge(y)
             c == [k EXCEPT !.wf.st = "CANCELED"]
  <2>1. /\ Beside(y, k) /\ k.wf = y.wf /\ k.ses = y.ses /\ Sound(k.att)
        /\ ~L!AttemptActive(k.att) /\ k.lease # "METROLOGY"
    BY <1>2, <1>3, <1>6, AcknowledgeEffect DEF Beside
  <2>2. r = W!Terminal(c) BY <1>4, <1>6 DEF W!CancelComplete
  <2> HIDE DEF k
  <2>3. /\ Beside(k, c) /\ SameTransaction(k, c) /\ SameEvidence(k, c) /\ c.ses = k.ses
        /\ c.wf.st = "CANCELED"
    BY <2>1, WorkflowAtEffect DEF Beside
  <2> HIDE DEF c
  <2>4. Beside(x, c) BY <1>3, <2>1, <2>3, BesideTwice
  <2> DEFINE y1 == [c EXCEPT !.ses.st = "DONE"]
  <2>5. /\ Beside(c, y1) /\ SameTransaction(c, y1) /\ y1.wf = c.wf /\ y1.ses.st = "DONE"
        /\ y1.ses.got = c.ses.got /\ y1.ses.event = c.ses.event
    BY <2>3, SessionAtEffect DEF Beside
  <2>6. r = [x |-> y1, event |-> "CANCELED"] BY <2>2, <2>3 DEF W!Terminal
  <2>7. r.x = y1 /\ r.event = "CANCELED" BY <2>6
  <2> HIDE DEF y1
  <2>8. Beside(x, y1) BY <2>4, <2>5, BesideTwice
  <2>9. Evidence(y1)
    BY <1>3, <2>1, <2>3, <2>5 DEF Evidence, SameEvidence, SameTransaction, Beside
  <2>10. AtRest(y1) BY <2>1, <2>3, <2>5 DEF AtRest, SameTransaction
  <2> QED BY <2>5, <2>7, <2>8, <2>9, <2>10 DEF SessionSays, Events
<1> QED BY <1>5, <1>6

(* So a session that says it is complete has all its captures, and one     *)
(* that is canceled never says so.                                         *)
LEMMA SessionStepSays ==
    ASSUME NEW x, Evidence(x), NEW r \in W!SessionStep(x)
    PROVE  SessionSays(x, r)
<1>0. SessionShape(x) /\ Beside(x, x) BY DEF Evidence, Beside
<1>1. CASE x.ses.event # "NONE"
  <2> DEFINE y == [x EXCEPT !.ses.event = "NONE"]
  <2>1. r = [x |-> y, event |-> x.ses.event] BY <1>1 DEF W!SessionStep
  <2>2. /\ Beside(x, y) /\ SameTransaction(x, y) /\ y.wf = x.wf /\ y.ses.st = x.ses.st
        /\ y.ses.got = x.ses.got /\ y.ses.event = "NONE"
    BY <1>0 DEF SessionShape, SesFields, Beside, SameTransaction
  <2>3. r.x = y /\ r.event = x.ses.event BY <2>1
  <2> HIDE DEF y
  <2>4. Evidence(y) BY <2>2 DEF Evidence, SameTransaction, Beside
  <2>5. AtRest(x) => AtRest(y) BY <2>2 DEF AtRest, SameTransaction
  <2>6. x.ses.event \in {"BEGIN", "CANCELED"} /\ (x.ses.event = "CANCELED" => x.ses.st = "DONE")
    BY <1>1 DEF Evidence
  <2> QED BY <2>2, <2>3, <2>4, <2>5, <2>6 DEF SessionSays, Events
<1>2. CASE x.ses.event = "NONE" /\ x.ses.st \in {"START_CAPTURE", "WAIT_CAPTURE", "CANCELING"}
  <2>1. \/ x.ses.st = "START_CAPTURE" /\ r \in W!TakeCapture(x)
        \/ x.ses.st = "WAIT_CAPTURE" /\ r \in W!WaitCapture(x)
        \/ x.ses.st = "CANCELING" /\ r \in W!Canceling(x)
    BY <1>2 DEF W!SessionStep
  <2> QED BY <1>2, <2>1, TakeCaptureSays, WaitCaptureSays, CancelingSays
<1>3. CASE x.ses.event = "NONE" /\ x.ses.st \notin {"START_CAPTURE", "WAIT_CAPTURE", "CANCELING"}
  <2>1. r = W!Quiet(x) BY <1>3 DEF W!SessionStep
  <2> QED BY <1>0, <1>3, <2>1, QuietSays
<1> QED BY <1>1, <1>2, <1>3

(* A session that is canceled is over, or sees to the end of its capture;  *)
(* one that saw to it already does so no more.                             *)
LEMMA SessionCancelEffect ==
    ASSUME NEW x, Evidence(x)
    PROVE  LET y == W!SessionCancel(x)
           IN  /\ Beside(x, y) /\ Evidence(y) /\ (~W!SessionActive(x) => y = x)
               /\ W!SessionActive(x) => y.ses.st \in {"DONE", "CANCELING"}
               /\ x.ses.st # "CANCELING" /\ AtRest(x) => AtRest(y)
<1> DEFINE y == W!SessionCancel(x)
<1>0. SessionShape(x) /\ Sound(x.att) /\ Beside(x, x) BY DEF Evidence, Beside
<1>1. CASE ~W!SessionActive(x) BY <1>0, <1>1 DEF W!SessionCancel
<1>2. CASE W!SessionActive(x) /\ x.wf.st # "WAIT"
  <2> DEFINE c == [x EXCEPT !.wf.st = "CANCELED"]
             z == [c EXCEPT !.ses.st = "DONE", !.ses.event = "CANCELED", !.ses.got = 0]
  <2>1. y = z BY <1>2 DEF W!SessionCancel, W!CanceledAtOnce, W!CancelComplete
  <2>2. /\ Beside(x, c) /\ SameTransaction(x, c) /\ SameEvidence(x, c) /\ c.ses = x.ses
        /\ c.wf.st = "CANCELED"
    BY <1>0, WorkflowAtEffect
  <2> HIDE DEF c
  <2>3. /\ Beside(c, z) /\ SameTransaction(c, z) /\ z.wf = c.wf /\ z.ses.st = "DONE"
        /\ z.ses.event = "CANCELED" /\ z.ses.got = 0
    BY <2>2 DEF Beside, SessionShape, SesFields, SameTransaction
  <2> HIDE DEF z
  <2>4. Beside(x, z) BY <2>2, <2>3, BesideTwice
  <2>5. Evidence(z) BY <2>2, <2>3, <2>4 DEF Evidence, SameEvidence, SameTransaction, Beside
  <2>6. x.ses.st # "CANCELING" /\ AtRest(x) => AtRest(z)
    BY <1>2, <2>2, <2>3 DEF AtRest, SameTransaction, Evidence
  <2>7. Beside(x, y) /\ Evidence(y) /\ y.ses.st = "DONE"
        /\ (x.ses.st # "CANCELING" /\ AtRest(x) => AtRest(y))
    BY <2>1, <2>3, <2>4, <2>5, <2>6
  <2> HIDE DEF y
  <2> QED BY <1>2, <2>7 DEF y
<1>3. CASE W!SessionActive(x) /\ x.wf.st = "WAIT"
  <2> DEFINE a == IF W!AttemptActive(x.att) THEN W!AbortedAttempt(x.att) ELSE x.att
             z == [x EXCEPT !.ses.st = "CANCELING", !.ses.got = 0, !.wf.st = "CANCELING",
                            !.att = a]
  <2>1. y = z BY <1>3 DEF W!SessionCancel
  <2>2. Sound(a) BY <1>0, AttemptsAgree, AbortedEffect
  <2> HIDE DEF a
  <2>3. /\ Beside(x, z) /\ SameEvidence(x, z) /\ z.ses.st = "CANCELING" /\ z.ses.got = 0
        /\ z.wf.st = "CANCELING" /\ z.att = a /\ z.ses.event = x.ses.event
    BY <1>0 DEF Beside, SessionShape, SesFields, WfFields, SameEvidence
  <2> HIDE DEF z
  <2>4. Evidence(z) BY <1>3, <2>2, <2>3 DEF Evidence, SameEvidence, Beside
  <2>5. AtRest(z) BY <2>3 DEF AtRest
  <2>6. Beside(x, y) /\ Evidence(y) /\ y.ses.st = "CANCELING" /\ AtRest(y)
    BY <2>1, <2>3, <2>4, <2>5
  <2> HIDE DEF y
  <2> QED BY <1>3, <2>6 DEF y
<1> QED BY <1>1, <1>2, <1>3
-----------------------------------------------------------------------------
(***************************************************************************)
(* The wizard.  Whatever is kept or solved was earned; what may be         *)
(* committed is whole; ...                                                 *)
(***************************************************************************)
WizFields == {"st", "std", "range", "cond", "cache", "solved", "err"}
WizardShape(x) ==
    /\ {"wiz", "cand"} \subseteq DOMAIN x /\ WizFields \subseteq DOMAIN x.wiz
    /\ {"st", "records"} \subseteq DOMAIN x.cand
Full(x) == {r.key : r \in x.cand.records} = W!Keys
AllEarned(x) == (\A r \in x.cand.records : r.earned) /\ (\A k \in x.wiz.cache : k.earned)
Whole(x) ==
    /\ x.wiz.err = "COMMIT" => x.wiz.st \in {"FAILED", "COMMITTING", "COMPLETE"} /\ Full(x)
    /\ x.wiz.st \in {"CONFIRM_SAVE", "COMMITTING", "COMPLETE"} => Full(x)
    /\ x.cand.st = "COMPLETE" => Full(x)
(* ... only on the way through a capture does a session run; and nothing   *)
(* is left of what was canceled.                                           *)
Settled(x) == x.wiz.st \notin {"CAPTURE", "CANCELING"} => ~W!SessionActive(x)
Gone(x) ==
    x.wiz.st = "CANCELED" => x.cand = [st |-> "NONE", records |-> {}] /\ x.lease # "STORE"
WizardRight(x) ==
    Evidence(x) /\ WizardShape(x) /\ AllEarned(x) /\ Whole(x) /\ Settled(x) /\ Gone(x)
(* What a call of the wizard keeps.                                        *)
Keeps(x, y) == WizardRight(y) /\ (AtRest(x) => AtRest(y))

(* What is done on the wizard alone, ...                                   *)
OnWizard(x, y) ==
    /\ DOMAIN y = DOMAIN x /\ \A f \in DOMAIN x \ {"wiz"} : y[f] = x[f]
    /\ WizFields \subseteq DOMAIN y.wiz
(* What changes neither the session nor the candidate.                     *)
LEMMA OnWizardKeeps ==
    ASSUME NEW x, NEW y, WizardRight(x), OnWizard(x, y),
           \A k \in y.wiz.cache : k.earned,
           y.wiz.err = "COMMIT" => y.wiz.st \in {"FAILED", "COMMITTING", "COMPLETE"} /\ Full(x),
           y.wiz.st \in {"CONFIRM_SAVE", "COMMITTING", "COMPLETE"} => Full(x),
           y.wiz.st \notin {"CAPTURE", "CANCELING"} => ~W!SessionActive(x),
           y.wiz.st # "CANCELED"
    PROVE  Keeps(x, y)
<1>1. /\ y.ses = x.ses /\ y.wf = x.wf /\ y.att = x.att /\ y.lease = x.lease /\ y.cand = x.cand
      /\ SessionShape(x)
  BY DEF WizardRight, Evidence, SessionShape, WizardShape, OnWizard
<1>2. SessionShape(y) /\ WizardShape(y)
  BY <1>1 DEF WizardRight, SessionShape, WizardShape, OnWizard
<1>3. Evidence(y) BY <1>1, <1>2 DEF WizardRight, Evidence
<1>4. AllEarned(y) BY <1>1 DEF WizardRight, AllEarned
<1>5. Full(y) <=> Full(x) BY <1>1 DEF Full
<1>6. Whole(y) BY <1>1, <1>5 DEF WizardRight, Whole
<1>7. Settled(y) BY <1>1 DEF Settled, W!SessionActive
<1>8. Gone(y) BY DEF Gone
<1>9. AtRest(x) => AtRest(y) BY <1>1 DEF AtRest
<1> QED BY <1>2, <1>3, <1>4, <1>6, <1>7, <1>8, <1>9 DEF Keeps, WizardRight

(* ... or beside it.                                                       *)
LEMMA BesideKeeps ==
    ASSUME NEW x, NEW y, WizardRight(x), Beside(x, y), Evidence(y),
           x.wiz.st \notin {"CAPTURE", "CANCELING"} => ~W!SessionActive(y),
           x.wiz.st # "CANCELED"
    PROVE  WizardRight(y) /\ y.wiz = x.wiz /\ y.cand = x.cand
<1>1. y.wiz = x.wiz /\ y.cand = x.cand BY DEF WizardRight, WizardShape, Beside
<1>2. WizardShape(y) BY <1>1 DEF WizardRight, WizardShape, Beside
<1>3. Full(y) <=> Full(x) BY <1>1 DEF Full
<1>4. AllEarned(y) BY <1>1 DEF WizardRight, AllEarned
<1>5. Whole(y) BY <1>1, <1>3 DEF WizardRight, Whole
<1>6. Settled(y) /\ Gone(y) BY <1>1 DEF Settled, Gone
<1> QED BY <1>1, <1>2, <1>4, <1>5, <1>6 DEF WizardRight

(* The wizard moves on.                                                    *)
LEMMA InEffect ==
    ASSUME NEW x, WizardShape(x), NEW st
    PROVE  LET y == W!In(x, st)
           IN  /\ OnWizard(x, y) /\ y.wiz.st = st /\ y.wiz.cache = x.wiz.cache
               /\ y.wiz.err = x.wiz.err
BY DEF W!In, WizardShape, WizFields, OnWizard

(* The wizard has failed.                                                  *)
LEMMA FailureEffect ==
    ASSUME NEW x, WizardShape(x), NEW err
    PROVE  LET y == W!Failure(x, err)
           IN  /\ OnWizard(x, y) /\ y.wiz.st = "FAILED" /\ y.wiz.cache = x.wiz.cache
               /\ y.wiz.err = err
<1> DEFINE u == W!In(x, "FAILED")
           y == [u EXCEPT !.wiz.err = err]
<1>1. OnWizard(x, u) /\ u.wiz.st = "FAILED" /\ u.wiz.cache = x.wiz.cache BY InEffect
<1>2. W!Failure(x, err) = y BY DEF W!Failure
<1> HIDE DEF u
<1>3. /\ OnWizard(u, y) /\ y.wiz.st = u.wiz.st /\ y.wiz.cache = u.wiz.cache
      /\ y.wiz.err = err
  BY <1>1 DEF OnWizard, WizFields, WizardShape
<1> HIDE DEF y
<1>4. OnWizard(x, y) BY <1>1, <1>3 DEF OnWizard
<1> QED BY <1>1, <1>2, <1>3, <1>4

(* A step that fails, when nothing runs.                                   *)
LEMMA FailureKeeps ==
    ASSUME NEW x, WizardRight(x), ~W!SessionActive(x), NEW err, err = "COMMIT" => Full(x)
    PROVE  Keeps(x, W!Failure(x, err))
<1> DEFINE y == W!Failure(x, err)
<1>1. /\ OnWizard(x, y) /\ y.wiz.st = "FAILED" /\ y.wiz.cache = x.wiz.cache
      /\ y.wiz.err = err
  BY FailureEffect DEF WizardRight
<1> HIDE DEF y
<1>2. Keeps(x, y) BY <1>1, OnWizardKeeps DEF WizardRight, AllEarned
<1> QED BY <1>2 DEF y

(* The step is only another.                                               *)
LEMMA InKeeps ==
    ASSUME NEW x, WizardRight(x), NEW st,
           x.wiz.err = "COMMIT" => st \in {"FAILED", "COMMITTING", "COMPLETE"},
           st \in {"CONFIRM_SAVE", "COMMITTING", "COMPLETE"} => Full(x),
           st \notin {"CAPTURE", "CANCELING"} => ~W!SessionActive(x),
           st # "CANCELED"
    PROVE  Keeps(x, W!In(x, st)) /\ W!In(x, st).wiz.st = st
           /\ W!In(x, st).ses = x.ses /\ W!In(x, st).wiz.err = x.wiz.err
<1> DEFINE y == W!In(x, st)
<1>1. OnWizard(x, y) /\ y.wiz.st = st /\ y.wiz.cache = x.wiz.cache /\ y.wiz.err = x.wiz.err
  BY InEffect DEF WizardRight
<1> HIDE DEF y
<1>2. Keeps(x, y) BY <1>1, OnWizardKeeps DEF WizardRight, AllEarned, Whole
<1>3. y.ses = x.ses BY <1>1 DEF OnWizard, WizardRight, Evidence, SessionShape
<1> QED BY <1>1, <1>2, <1>3 DEF y

(* A range begins with its first condition; ...                            *)
LEMMA BeginRangeKeeps ==
    ASSUME NEW x, WizardRight(x), ~W!SessionActive(x), x.wiz.err # "COMMIT", NEW range
    PROVE  Keeps(x, W!BeginRange(x, range))
<1> DEFINE w == [x.wiz EXCEPT !.st = "WAIT_FIXTURE", !.std = "OPEN", !.range = range,
                              !.cond = 1, !.cache = {}]
           y == [x EXCEPT !.wiz = w]
<1>1. W!BeginRange(x, range) = y BY DEF W!BeginRange
<1>2. WizFields \subseteq DOMAIN w /\ w.st = "WAIT_FIXTURE" /\ w.cache = {} /\ w.err = x.wiz.err
  BY DEF WizardRight, WizardShape, WizFields
<1> HIDE DEF w
<1>3. OnWizard(x, y) /\ y.wiz = w BY <1>2 DEF WizardRight, WizardShape, OnWizard
<1> HIDE DEF y
<1> QED BY <1>1, <1>2, <1>3, OnWizardKeeps

(* ... the next one follows a record that was solved.                      *)
LEMMA NextConditionKeeps ==
    ASSUME NEW x, WizardRight(x), ~W!SessionActive(x), x.wiz.err # "COMMIT",
           x.wiz.st \in {"CAPTURE"}
    PROVE  Keeps(x, W!NextCondition(x))
<1> DEFINE y == W!NextCondition(x)
           c == [x EXCEPT !.wiz.cond = @ + 1]
           std == IF x.wiz.std = "OPEN" THEN "SHORT" ELSE "LOAD"
           u == W!In(x, "RANGE_COMPLETE")
           d == [u EXCEPT !.wiz.cond = 1]
           v == W!In(x, "WAIT_FIXTURE")
           e(s) == [v EXCEPT !.wiz.cond = 1, !.wiz.std = s]
<1>0. WizardShape(x) BY DEF WizardRight
<1>1. y \in {c, d} \/ \E s : y = e(s)
  BY <1>0 DEF W!NextCondition
<1>2. /\ OnWizard(x, c) /\ c.wiz.st = x.wiz.st /\ c.wiz.cache = x.wiz.cache
      /\ c.wiz.err = x.wiz.err
  BY <1>0 DEF OnWizard, WizardShape, WizFields
<1>3. /\ OnWizard(x, d) /\ d.wiz.st = "RANGE_COMPLETE" /\ d.wiz.cache = x.wiz.cache
      /\ d.wiz.err = x.wiz.err
  <2>1. /\ OnWizard(x, u) /\ u.wiz.st = "RANGE_COMPLETE" /\ u.wiz.cache = x.wiz.cache
        /\ u.wiz.err = x.wiz.err
    BY <1>0, InEffect
  <2> HIDE DEF u
  <2>2. /\ OnWizard(u, d) /\ d.wiz.st = u.wiz.st /\ d.wiz.cache = u.wiz.cache
        /\ d.wiz.err = u.wiz.err
    BY <1>0, <2>1 DEF OnWizard, WizardShape, WizFields
  <2> QED BY <2>1, <2>2 DEF OnWizard
<1>4. \A s : /\ OnWizard(x, e(s)) /\ e(s).wiz.st = "WAIT_FIXTURE" /\ e(s).wiz.cache = x.wiz.cache
             /\ e(s).wiz.err = x.wiz.err
  <2> SUFFICES ASSUME NEW s
               PROVE  /\ OnWizard(x, e(s)) /\ e(s).wiz.st = "WAIT_FIXTURE"
                      /\ e(s).wiz.cache = x.wiz.cache /\ e(s).wiz.err = x.wiz.err
    OBVIOUS
  <2> DEFINE z == e(s)
  <2>1. /\ OnWizard(x, v) /\ v.wiz.st = "WAIT_FIXTURE" /\ v.wiz.cache = x.wiz.cache
        /\ v.wiz.err = x.wiz.err
    BY <1>0, InEffect
  <2> HIDE DEF v
  <2>2. /\ OnWizard(v, z) /\ z.wiz.st = v.wiz.st /\ z.wiz.cache = v.wiz.cache
        /\ z.wiz.err = v.wiz.err
    BY <1>0, <2>1 DEF OnWizard, WizardShape, WizFields
  <2> HIDE DEF z
  <2>3. /\ OnWizard(x, z) /\ z.wiz.st = "WAIT_FIXTURE" /\ z.wiz.cache = x.wiz.cache
        /\ z.wiz.err = x.wiz.err
    BY <2>1, <2>2 DEF OnWizard
  <2> QED BY <2>3 DEF z
<1> HIDE DEF c, d, e, y
<1>5. /\ OnWizard(x, y) /\ y.wiz.st \in {"CAPTURE", "RANGE_COMPLETE", "WAIT_FIXTURE"}
      /\ y.wiz.cache = x.wiz.cache /\ y.wiz.err = x.wiz.err
  BY <1>1, <1>2, <1>3, <1>4
<1>6. Keeps(x, y) BY <1>5, OnWizardKeeps DEF WizardRight, AllEarned
<1> QED BY <1>6 DEF y

(* A standard is kept for the load, ...                                    *)
LEMMA CachedKeeps ==
    ASSUME NEW x, WizardRight(x), ~W!SessionActive(x), NEW k, k.earned, x.wiz.st # "CANCELED"
    PROVE  LET y == [x EXCEPT !.wiz.cache = @ \cup {k}]
           IN  Keeps(x, y) /\ y.wiz.st = x.wiz.st /\ y.wiz.err = x.wiz.err /\ y.ses = x.ses
<1> DEFINE y == [x EXCEPT !.wiz.cache = @ \cup {k}]
<1>1. /\ OnWizard(x, y) /\ y.wiz.st = x.wiz.st /\ y.wiz.cache = x.wiz.cache \cup {k}
      /\ y.wiz.err = x.wiz.err
  BY DEF OnWizard, WizardRight, WizardShape, WizFields
<1> HIDE DEF y
<1>2. \A q \in y.wiz.cache : q.earned BY <1>1 DEF WizardRight, AllEarned
<1>3. Keeps(x, y) BY <1>1, <1>2, OnWizardKeeps DEF WizardRight, Whole
<1>4. y.ses = x.ses BY <1>1 DEF OnWizard, WizardRight, Evidence, SessionShape
<1> QED BY <1>1, <1>3, <1>4 DEF y

(* ... and a condition is solved.                                          *)
LEMMA InsertKeeps ==
    ASSUME NEW x, WizardRight(x), NEW r, r.earned, x.wiz.st = "CAPTURE"
    PROVE  LET y == W!Insert(x, r)
           IN  Keeps(x, y) /\ y.wiz = x.wiz /\ y.ses = x.ses
<1> DEFINE rs == x.cand.records \cup {r}
           st == IF {q.key : q \in rs} = W!Keys THEN "COMPLETE" ELSE "PARTIAL"
           c == [records |-> rs, st |-> st]
           y == [x EXCEPT !.cand = c]
<1>0. Evidence(x) /\ SessionShape(x) /\ WizardShape(x) BY DEF WizardRight, Evidence
<1>1. W!Insert(x, r) = y BY DEF W!Insert
<1>2. /\ {"st", "records"} \subseteq DOMAIN c /\ c.records = rs
      /\ c.st = "COMPLETE" => {q.key : q \in c.records} = W!Keys
  OBVIOUS
<1>3. \A q \in rs : q.earned BY DEF WizardRight, AllEarned
<1> HIDE DEF rs, c
<1>4. /\ DOMAIN y = DOMAIN x /\ y.cand = c /\ \A f \in DOMAIN x \ {"cand"} : y[f] = x[f]
  BY <1>0 DEF WizardShape
<1> HIDE DEF y
<1>5. /\ y.ses = x.ses /\ y.wf = x.wf /\ y.att = x.att /\ y.lease = x.lease /\ y.wiz = x.wiz
      /\ SessionShape(y) /\ WizardShape(y)
  BY <1>0, <1>2, <1>4 DEF SessionShape, WizardShape
<1>6. Evidence(y) BY <1>0, <1>5 DEF Evidence
<1>7. AllEarned(y) BY <1>2, <1>3, <1>4, <1>5 DEF WizardRight, AllEarned
<1>8. Whole(y) BY <1>2, <1>4, <1>5 DEF WizardRight, Whole, Full
<1>9. Settled(y) /\ Gone(y) BY <1>5 DEF Settled, Gone
<1>10. AtRest(x) => AtRest(y) BY <1>5 DEF AtRest
<1> QED BY <1>1, <1>5, <1>6, <1>7, <1>8, <1>9, <1>10 DEF Keeps, WizardRight

(* Two steps of the wizard are one.                                        *)
LEMMA KeepsTwice ==
    ASSUME NEW x, NEW y, NEW z, Keeps(x, y), Keeps(y, z) PROVE Keeps(x, z)
BY DEF Keeps

(* What is canceled is forgotten, when nothing runs and nothing is         *)
(* written; ...                                                            *)
LEMMA DiscardKeeps ==
    ASSUME NEW x, WizardRight(x), ~W!SessionActive(x)
    PROVE  Keeps(x, W!Discard(x))
<1> DEFINE y == W!Discard(x)
<1>0. Evidence(x) /\ SessionShape(x) /\ WizardShape(x) BY DEF WizardRight, Evidence
<1>1. CASE W!WorkflowActive(x) \/ x.cand.st = "COMMITTING"
  <2> DEFINE u == W!In(x, "CANCELING")
             z == [u EXCEPT !.wiz.err = "STORAGE"]
  <2>1. y = z BY <1>1 DEF W!Discard
  <2>2. OnWizard(x, u) /\ u.wiz.st = "CANCELING" /\ u.wiz.cache = x.wiz.cache
    BY <1>0, InEffect
  <2> HIDE DEF u
  <2>3. /\ OnWizard(u, z) /\ z.wiz.st = "CANCELING" /\ z.wiz.cache = u.wiz.cache
        /\ z.wiz.err = "STORAGE"
    BY <1>0, <2>2 DEF OnWizard, WizardShape, WizFields
  <2> HIDE DEF z
  <2>4. OnWizard(x, z) BY <2>2, <2>3 DEF OnWizard
  <2>5. Keeps(x, z) BY <2>2, <2>3, <2>4, OnWizardKeeps DEF WizardRight, AllEarned
  <2> QED BY <2>1, <2>5
<1>2. CASE ~(W!WorkflowActive(x) \/ x.cand.st = "COMMITTING")
  <2> DEFINE u == W!In(x, "CANCELED")
             v == [u EXCEPT !.wiz.err = "CANCELED"]
             c == [st |-> "NONE", records |-> {}]
             l == W!StoreReleased(x)
             z == [v EXCEPT !.cand = c, !.lease = l]
  <2>1. y = z BY <1>2 DEF W!Discard
  <2>2. OnWizard(x, u) /\ u.wiz.st = "CANCELED" /\ u.wiz.cache = x.wiz.cache
    BY <1>0, InEffect
  <2> HIDE DEF u
  <2>3. /\ OnWizard(u, v) /\ v.wiz.st = "CANCELED" /\ v.wiz.cache = u.wiz.cache
        /\ v.wiz.err = "CANCELED"
    BY <1>0, <2>2 DEF OnWizard, WizardShape, WizFields
  <2> HIDE DEF v
  <2>4. OnWizard(x, v) BY <2>2, <2>3 DEF OnWizard
  <2>5. l # "STORE" /\ (x.lease # "METROLOGY" => l # "METROLOGY") BY DEF W!StoreReleased
  <2>6. {"st", "records"} \subseteq DOMAIN c /\ c.records = {} /\ c.st = "NONE" OBVIOUS
  <2>7. c = [st |-> "NONE", records |-> {}] OBVIOUS
  <2> HIDE DEF l, c
  <2>8. /\ DOMAIN z = DOMAIN x /\ z.cand = c /\ z.lease = l
        /\ \A f \in DOMAIN x \ {"wiz", "cand", "lease"} : z[f] = x[f]
        /\ z.wiz = v.wiz
    BY <1>0, <2>4 DEF OnWizard, WizardShape, SessionShape
  <2> HIDE DEF z
  <2>9. z.ses = x.ses /\ z.wf = x.wf /\ z.att = x.att /\ SessionShape(z) /\ WizardShape(z)
    BY <1>0, <2>4, <2>6, <2>8 DEF OnWizard, WizardShape, SessionShape
  <2>10. Evidence(z) BY <1>0, <2>9 DEF Evidence
  <2>11. AllEarned(z) BY <2>2, <2>3, <2>6, <2>8 DEF WizardRight, AllEarned
  <2>12. Whole(z) BY <2>3, <2>6, <2>8 DEF Whole
  <2>13. Settled(z) BY <2>9 DEF Settled, W!SessionActive
  <2>14. Gone(z) BY <2>5, <2>7, <2>8 DEF Gone
  <2>15. AtRest(x) => AtRest(z) BY <2>5, <2>8, <2>9 DEF AtRest
  <2> QED BY <2>1, <2>9, <2>10, <2>11, <2>12, <2>13, <2>14, <2>15 DEF Keeps, WizardRight
<1> QED BY <1>1, <1>2

(* ... what is whole is committed, and given to the store or turned down.  *)
LEMMA CommitKeeps ==
    ASSUME NEW x, WizardRight(x), ~W!SessionActive(x), Full(x), NEW y \in W!Commit(x)
    PROVE  Keeps(x, y)
<1> DEFINE u == W!In(x, "COMMITTING")
           v == W!Failure(x, "COMMIT")
           a == [u EXCEPT !.cand.st = "COMMITTING", !.lease = "STORE"]
           b == [v EXCEPT !.cand.st = "FAILED", !.lease = "FREE"]
<1>0. Evidence(x) /\ SessionShape(x) /\ WizardShape(x) BY DEF WizardRight, Evidence
<1>1. y \in {u, a, b} BY DEF W!Commit
<1>2. /\ OnWizard(x, u) /\ u.wiz.st = "COMMITTING" /\ u.wiz.cache = x.wiz.cache
      /\ u.wiz.err = x.wiz.err
  BY <1>0, InEffect
<1>3. Keeps(x, u) BY InKeeps
<1>4. /\ OnWizard(x, v) /\ v.wiz.st = "FAILED" /\ v.wiz.cache = x.wiz.cache
  BY <1>0, FailureEffect
<1>5. ASSUME NEW w, OnWizard(x, w), w.wiz.st \in {"COMMITTING", "FAILED"},
             w.wiz.cache = x.wiz.cache, NEW st \in {"COMMITTING", "FAILED"},
             NEW l \in {"STORE", "FREE"}
      PROVE  Keeps(x, [w EXCEPT !.cand.st = st, !.lease = l])
  <2> DEFINE z == [w EXCEPT !.cand.st = st, !.lease = l]
  <2>1. /\ DOMAIN z = DOMAIN x /\ z.cand.st = st /\ z.cand.records = x.cand.records
        /\ z.lease = l /\ z.ses = x.ses /\ z.wf = x.wf /\ z.att = x.att /\ z.wiz = w.wiz
        /\ DOMAIN z.cand = DOMAIN x.cand
    BY <1>0, <1>5 DEF OnWizard, WizardShape, SessionShape
  <2> HIDE DEF z
  <2>2. SessionShape(z) /\ WizardShape(z)
    BY <1>0, <1>5, <2>1 DEF OnWizard, WizardShape, SessionShape
  <2>3. Evidence(z) BY <1>0, <2>1, <2>2 DEF Evidence
  <2>4. AllEarned(z) BY <1>5, <2>1 DEF WizardRight, AllEarned
  <2>5. Full(z) BY <2>1 DEF Full
  <2>6. Whole(z) BY <1>5, <2>1, <2>5 DEF Whole
  <2>7. Settled(z) /\ Gone(z) BY <1>5, <2>1 DEF Settled, Gone, W!SessionActive
  <2>8. AtRest(x) => AtRest(z) BY <2>1 DEF AtRest
  <2>9. Keeps(x, z) BY <2>2, <2>3, <2>4, <2>6, <2>7, <2>8 DEF Keeps, WizardRight
  <2> QED BY <2>9 DEF z
<1> HIDE DEF u, v
<1>6. Keeps(x, a) BY <1>2, <1>5
<1>7. Keeps(x, b) BY <1>4, <1>5
<1> QED BY <1>1, <1>3, <1>6, <1>7

(* The page begins the wizard, ...                                         *)
LEMMA StartKeeps ==
    ASSUME NEW x, WizardRight(x), ~W!SessionActive(x)
    PROVE  Keeps(x, W!Start(x))
<1> DEFINE y == W!Start(x)
<1>0. Evidence(x) /\ SessionShape(x) /\ WizardShape(x) BY DEF WizardRight, Evidence
<1>1. CASE W!Dirty(x) BY <1>1, FailureKeeps DEF W!Start
<1>2. CASE ~W!Dirty(x)
  <2> DEFINE w == [W!NoWizard EXCEPT !.st = "INTRO"]
             s == W!NoSession
             c == [st |-> "BUILDING", records |-> {}]
             z == [x EXCEPT !.wiz = w, !.ses = s, !.cand = c]
  <2>1. y = z BY <1>2 DEF W!Start
  <2>2. /\ WizFields \subseteq DOMAIN w /\ w.st = "INTRO" /\ w.cache = {} /\ w.err = "NONE"
        /\ SesFields \subseteq DOMAIN s /\ s.st = "IDLE" /\ s.event = "NONE" /\ s.got = 0
        /\ {"st", "records"} \subseteq DOMAIN c /\ c.st = "BUILDING" /\ c.records = {}
    BY DEF W!NoWizard, W!NoSession, WizFields, SesFields
  <2> HIDE DEF w, s, c
  <2>3. /\ DOMAIN z = DOMAIN x /\ z.wiz = w /\ z.ses = s /\ z.cand = c /\ z.wf = x.wf
        /\ z.att = x.att /\ z.lease = x.lease
    BY <1>0 DEF WizardShape, SessionShape
  <2> HIDE DEF z
  <2>4. SessionShape(z) /\ WizardShape(z) BY <1>0, <2>2, <2>3 DEF WizardShape, SessionShape
  <2>5. x.wf.st \notin {"REQUESTED", "WAIT", "CANCELING"} BY <1>0 DEF Evidence, W!SessionActive
  <2>6. Evidence(z) BY <1>0, <2>2, <2>3, <2>4, <2>5 DEF Evidence
  <2>7. AllEarned(z) /\ Whole(z) /\ Settled(z) /\ Gone(z)
    BY <2>2, <2>3 DEF AllEarned, Whole, Settled, Gone, W!SessionActive
  <2>8. AtRest(x) => AtRest(z) BY <2>3 DEF AtRest, W!SessionActive
  <2> QED BY <2>1, <2>4, <2>6, <2>7, <2>8 DEF Keeps, WizardRight
<1> QED BY <1>1, <1>2

(* ... and the wizard a condition.                                         *)
LEMMA WorkflowStartEffect ==
    ASSUME NEW x, SessionShape(x)
    PROVE  LET y == W!WorkflowStart(x)
           IN  /\ Beside(x, y) /\ SameTransaction(x, y) /\ y.ses = x.ses
               /\ y.wf.st = "REQUESTED" /\ y.wf.accepted = 0 /\ y.wf.taken = 0
BY DEF W!WorkflowStart, SessionShape, WfFields, Beside, SameTransaction

(* The session of a condition is started with no capture of another one.   *)
LEMMA StartConditionKeeps ==
    ASSUME NEW x, WizardRight(x), ~W!SessionActive(x), x.wiz.st = "CAPTURE"
    PROVE  Keeps(x, W!StartCondition(x))
<1> DEFINE y == W!StartCondition(x)
<1>0. Evidence(x) /\ SessionShape(x) /\ WizardShape(x) /\ x.wiz.err # "COMMIT"
  BY DEF WizardRight, Evidence, Whole
<1>1. CASE ~ext.allowed
  <2>1. y = W!In(x, "SAFETY_BLOCKED") BY <1>1 DEF W!StartCondition
  <2> QED BY <1>0, <2>1, InKeeps
<1>2. CASE ext.allowed /\ (W!WorkflowActive(x) \/ x.cand.st = "COMMITTING")
  <2>1. y = W!Failure(x, "PHASE05") BY <1>2 DEF W!StartCondition
  <2> QED BY <2>1, FailureKeeps
<1>3. CASE ext.allowed /\ ~(W!WorkflowActive(x) \/ x.cand.st = "COMMITTING")
  <2> DEFINE u == W!WorkflowStart(x)
             s == [W!NoSession EXCEPT !.st = "START_CAPTURE", !.event = "BEGIN"]
             v == [u EXCEPT !.ses = s]
             z == [v EXCEPT !.wiz.st = "CAPTURE"]
  <2>1. y = z BY <1>3 DEF W!StartCondition
  <2>2. /\ Beside(x, u) /\ SameTransaction(x, u) /\ u.ses = x.ses
        /\ u.wf.st = "REQUESTED" /\ u.wf.accepted = 0 /\ u.wf.taken = 0
    BY <1>0, WorkflowStartEffect
  <2>3. /\ SesFields \subseteq DOMAIN s /\ s.st = "START_CAPTURE" /\ s.event = "BEGIN"
        /\ s.got = 0
    BY DEF W!NoSession, SesFields
  <2> HIDE DEF u, s
  <2>4. Beside(u, v) /\ SameTransaction(u, v) /\ v.wf = u.wf /\ v.ses = s
    BY <2>2, <2>3 DEF Beside, SessionShape, SameTransaction
  <2> HIDE DEF v
  <2>5. Beside(x, v) BY <2>2, <2>4, BesideTwice
  <2>6. Evidence(v) BY <1>0, <2>2, <2>3, <2>4, <2>5 DEF Evidence, SameTransaction, Beside
  <2>7. AtRest(x) => AtRest(v) BY <2>2, <2>3, <2>4 DEF AtRest, SameTransaction, W!SessionActive
  <2>8. WizardRight(v) /\ v.wiz = x.wiz BY <2>5, <2>6, BesideKeeps
  <2>9. /\ OnWizard(v, z) /\ z.wiz.st = "CAPTURE" /\ z.wiz.cache = v.wiz.cache
        /\ z.wiz.err = v.wiz.err
    BY <2>8 DEF OnWizard, WizardRight, WizardShape, WizFields
  <2> HIDE DEF z
  <2>10. Keeps(v, z) BY <1>0, <2>8, <2>9, OnWizardKeeps DEF WizardRight, AllEarned
  <2> QED BY <2>1, <2>7, <2>8, <2>10 DEF Keeps
<1> QED BY <1>1, <1>2, <1>3

(* The user confirms, ...                                                  *)
LEMMA ConfirmKeeps ==
    ASSUME NEW x, WizardRight(x), NEW y \in W!Confirm(x)
    PROVE  Keeps(x, y)
<1>0. Settled(x) /\ Whole(x) BY DEF WizardRight
<1>1. CASE x.wiz.st = "INTRO"
  <2>1. y = W!BeginRange(x, 1) BY <1>1 DEF W!Confirm
  <2> QED BY <1>0, <1>1, <2>1, BeginRangeKeeps DEF Settled, Whole
<1>2. CASE x.wiz.st = "WAIT_FIXTURE"
  <2>1. y = W!In(x, "CAPTURE") BY <1>2 DEF W!Confirm
  <2>2. x.wiz.err # "COMMIT" BY <1>0, <1>2 DEF Whole
  <2> QED BY <2>1, <2>2, InKeeps
<1>3. CASE x.wiz.st = "CONFIRM_SAVE" \/ (x.wiz.st = "FAILED" /\ x.wiz.err = "COMMIT")
  <2>1. y \in W!Commit(x) BY <1>3 DEF W!Confirm
  <2> QED BY <1>0, <1>3, <2>1, CommitKeeps DEF Settled, Whole
<1>4. CASE x.wiz.st = "FAILED" /\ x.wiz.err \in {"PHASE05", "SOLVER"} /\ W!KeyValid(x)
  <2>1. y = W!In(x, "CAPTURE") BY <1>4 DEF W!Confirm
  <2> QED BY <1>4, <2>1, InKeeps
<1>5. CASE x.wiz.st = "FAILED" /\ x.wiz.err \in {"STORAGE", "CANCELED"}
  <2>1. y = W!Discard(x) BY <1>5 DEF W!Confirm
  <2> QED BY <1>0, <1>5, <2>1, DiscardKeeps DEF Settled
<1>6. CASE /\ x.wiz.st \notin {"INTRO", "WAIT_FIXTURE", "CONFIRM_SAVE"}
           /\ ~(x.wiz.st = "FAILED" /\ x.wiz.err = "COMMIT")
           /\ ~(x.wiz.st = "FAILED" /\ x.wiz.err \in {"PHASE05", "SOLVER"} /\ W!KeyValid(x))
           /\ ~(x.wiz.st = "FAILED" /\ x.wiz.err \in {"STORAGE", "CANCELED"})
  <2>1. y = x BY <1>6 DEF W!Confirm
  <2> QED BY <2>1 DEF Keeps
<1> QED BY <1>1, <1>2, <1>3, <1>4, <1>5, <1>6

(* ... or cancels: over, unless it was canceled before.                    *)
LEMMA CancelKeeps ==
    ASSUME NEW x, WizardRight(x)
    PROVE  LET y == W!Cancel(x)
           IN  WizardRight(y) /\ (x.ses.st # "CANCELING" /\ AtRest(x) => AtRest(y))
<1> DEFINE y == W!Cancel(x)
<1>0. Evidence(x) /\ WizardShape(x) /\ Settled(x) /\ Whole(x) BY DEF WizardRight
<1>1. CASE x.wiz.st = "COMMITTING" BY <1>1 DEF W!Cancel
<1>2. CASE x.wiz.st # "COMMITTING" /\ W!SessionActive(x)
  <2> DEFINE s == W!SessionCancel(x)
             z == W!In(s, "CANCELING")
  <2>1. /\ Beside(x, s) /\ Evidence(s)
        /\ x.ses.st # "CANCELING" /\ AtRest(x) => AtRest(s)
    BY <1>0, SessionCancelEffect
  <2>2. y = z BY <1>2 DEF W!Cancel
  <2>3. x.wiz.st \in {"CAPTURE", "CANCELING"} BY <1>0, <1>2 DEF Settled
  <2> HIDE DEF s
  <2>4. WizardRight(s) /\ s.wiz = x.wiz BY <2>1, <2>3, BesideKeeps
  <2>5. s.wiz.err # "COMMIT" BY <1>0, <2>3, <2>4 DEF Whole
  <2>6. Keeps(s, z) BY <2>4, <2>5, InKeeps
  <2> QED BY <2>1, <2>2, <2>6 DEF Keeps
<1>3. CASE x.wiz.st # "COMMITTING" /\ ~W!SessionActive(x)
  <2>1. y = W!Discard(x) BY <1>3 DEF W!Cancel
  <2>2. Keeps(x, W!Discard(x)) BY <1>3, DiscardKeeps
  <2> QED BY <2>1, <2>2 DEF Keeps
<1> QED BY <1>1, <1>2, <1>3

(* The three standards of a condition.                                     *)
LEMMA SolvedKeeps ==
    ASSUME NEW x, WizardRight(x), ~W!SessionActive(x), x.wiz.st = "CAPTURE", W!Earned(x),
           NEW z \in W!Solved(x)
    PROVE  Keeps(x, z)
<1> DEFINE kept == {k \in x.wiz.cache : k.key = W!Key(x)}
           r == [key |-> W!Key(x), earned |-> W!Earned(x) /\ \A k \in kept : k.earned]
           u == W!Insert(x, r)
           v == [u EXCEPT !.wiz.solved = @ + 1]
           n == W!NextCondition(v)
           f == W!Failure(x, "SOLVER")
<1>1. z = f \/ z = n BY DEF W!Solved
<1>2. Keeps(x, f) BY FailureKeeps
<1>3. r.earned BY DEF WizardRight, AllEarned
<1> HIDE DEF r, f
<1>4. Keeps(x, u) /\ u.wiz = x.wiz /\ u.ses = x.ses BY <1>3, InsertKeeps
<1>5. x.wiz.err # "COMMIT" BY DEF WizardRight, Whole
<1> HIDE DEF u
<1>6. /\ OnWizard(u, v) /\ v.wiz.st = u.wiz.st /\ v.wiz.cache = u.wiz.cache
      /\ v.wiz.err = u.wiz.err
  BY <1>4 DEF OnWizard, Keeps, WizardRight, WizardShape, WizFields
<1> HIDE DEF v
<1>7. ~W!SessionActive(u) BY <1>4 DEF W!SessionActive
<1>8. Keeps(u, v) BY <1>4, <1>5, <1>6, <1>7, OnWizardKeeps DEF Keeps, WizardRight, AllEarned
<1>9. v.ses = u.ses
  BY <1>4, <1>6 DEF OnWizard, Keeps, WizardRight, Evidence, SessionShape
<1>10. Keeps(v, n)
  BY <1>4, <1>5, <1>6, <1>7, <1>8, <1>9, NextConditionKeeps DEF Keeps, W!SessionActive
<1> HIDE DEF n
<1> QED BY <1>1, <1>2, <1>4, <1>8, <1>10, KeepsTwice

(* A condition completed is a record earned.                               *)
LEMMA CompletedKeeps ==
    ASSUME NEW x, WizardRight(x), ~W!SessionActive(x), x.wiz.st = "CAPTURE", W!Earned(x),
           NEW z \in W!Completed(x)
    PROVE  Keeps(x, z)
<1> DEFINE k == [std |-> x.wiz.std, key |-> W!Key(x), earned |-> W!Earned(x)]
           u == [x EXCEPT !.wiz.cache = @ \cup {k}]
           n == W!NextCondition(u)
           f == W!Failure(x, "CONDITION")
<1>1. z = f \/ z \in W!Solved(x) \/ z = n BY DEF W!Completed
<1>2. Keeps(x, f) BY FailureKeeps
<1>3. k.earned OBVIOUS
<1> HIDE DEF k, f
<1>4. Keeps(x, u) /\ u.wiz.st = x.wiz.st /\ u.wiz.err = x.wiz.err /\ u.ses = x.ses
  BY <1>3, CachedKeeps
<1>5. x.wiz.err # "COMMIT" BY DEF WizardRight, Whole
<1> HIDE DEF u
<1>6. Keeps(u, n) BY <1>4, <1>5, NextConditionKeeps DEF Keeps, W!SessionActive
<1> HIDE DEF n
<1> QED BY <1>1, <1>2, <1>4, <1>6, KeepsTwice, SolvedKeeps

(* The session makes a step under the wizard.                              *)
LEMMA CapturingKeeps ==
    ASSUME NEW x, WizardRight(x), x.wiz.st = "CAPTURE", NEW z \in W!Capturing(x)
    PROVE  Keeps(x, z)
<1>1. CASE ~W!SessionActive(x)
  <2>1. z = W!StartCondition(x) BY <1>1 DEF W!Capturing
  <2> QED BY <1>1, <2>1, StartConditionKeeps
<1>2. CASE W!SessionActive(x)
  <2> DEFINE after(r) == CASE r.event = "FAILED" -> {W!Failure(r.x, "PHASE05")}
                           [] r.event = "COMPLETE" -> W!Completed(r.x)
                           [] OTHER -> {r.x}
  <2>1. PICK r \in W!SessionStep(x) : z \in after(r)
    <3>1. z \in UNION {after(r) : r \in W!SessionStep(x)} BY <1>2 DEF W!Capturing
    <3> HIDE DEF after
    <3> QED BY <3>1
  <2>2. SessionSays(x, r) BY SessionStepSays DEF WizardRight
  <2> DEFINE y == r.x
  <2>3. /\ Beside(x, y) /\ Evidence(y) /\ (AtRest(x) => AtRest(y))
        /\ r.event = "COMPLETE" => y.ses.st = "DONE" /\ y.wf.st = "COMPLETE"
        /\ r.event \in {"CANCELED", "FAILED"} => y.ses.st = "DONE"
    BY <2>2 DEF SessionSays
  <2>4. \/ r.event = "FAILED" /\ z = W!Failure(y, "PHASE05")
        \/ r.event = "COMPLETE" /\ z \in W!Completed(y)
        \/ z = y
    BY <2>1
  <2> HIDE DEF y
  <2>5. WizardRight(y) /\ y.wiz = x.wiz BY <2>3, BesideKeeps
  <2>6. r.event = "FAILED" => Keeps(y, W!Failure(y, "PHASE05"))
    BY <2>3, <2>5, FailureKeeps DEF W!SessionActive
  <2>7. r.event = "COMPLETE" /\ z \in W!Completed(y) => Keeps(y, z)
    BY <2>3, <2>5, CompletedKeeps DEF W!SessionActive, W!Earned, Evidence
  <2> QED BY <2>3, <2>4, <2>5, <2>6, <2>7 DEF Keeps
<1> QED BY <1>1, <1>2

(* A range, or all, are done.                                              *)
LEMMA RangeCompleteKeeps ==
    ASSUME NEW x, WizardRight(x), x.wiz.st = "RANGE_COMPLETE"
    PROVE  Keeps(x, W!RangeComplete(x))
<1>0. ~W!SessionActive(x) /\ x.wiz.err # "COMMIT" /\ (x.cand.st = "COMPLETE" => Full(x))
  BY DEF WizardRight, Settled, Whole
<1>1. \/ W!RangeComplete(x) = W!BeginRange(x, x.wiz.range + 1)
      \/ x.cand.st = "COMPLETE" /\ W!RangeComplete(x) = W!In(x, "CONFIRM_SAVE")
      \/ W!RangeComplete(x) = W!Failure(x, "CANDIDATE_INCOMPLETE")
  BY DEF W!RangeComplete
<1>2. Keeps(x, W!BeginRange(x, x.wiz.range + 1)) BY <1>0, BeginRangeKeeps
<1>3. x.cand.st = "COMPLETE" => Keeps(x, W!In(x, "CONFIRM_SAVE")) BY <1>0, InKeeps
<1>4. Keeps(x, W!Failure(x, "CANDIDATE_INCOMPLETE")) BY <1>0, FailureKeeps
<1> QED BY <1>1, <1>2, <1>3, <1>4

(* A step of the wizard.                                                   *)
LEMMA WizardStepKeeps ==
    ASSUME NEW x, WizardRight(x), NEW z \in W!Step(x)
    PROVE  Keeps(x, z)
<1>0. Evidence(x) /\ Settled(x) /\ Whole(x) /\ Keeps(x, x) BY DEF WizardRight, Keeps
<1>1. CASE x.wiz.st = "SAFETY_BLOCKED"
  <2> DEFINE y == W!In(x, "CAPTURE")
  <2>1. z = x \/ z \in W!Capturing(y) BY <1>1 DEF W!Step
  <2>2. Keeps(x, y) /\ y.wiz.st = "CAPTURE" BY <1>0, <1>1, InKeeps DEF Whole
  <2> HIDE DEF y
  <2>3. z \in W!Capturing(y) => Keeps(y, z) BY <2>2, CapturingKeeps DEF Keeps
  <2> QED BY <1>0, <2>1, <2>2, <2>3, KeepsTwice
<1>2. CASE x.wiz.st = "RANGE_COMPLETE"
  <2>1. z = W!RangeComplete(x) BY <1>2 DEF W!Step
  <2> QED BY <1>2, <2>1, RangeCompleteKeeps
<1>3. CASE x.wiz.st = "COMMITTING"
  <2>1. z \in {W!In(x, "COMPLETE"), W!Failure(x, "COMMIT"), x} BY <1>3 DEF W!Step
  <2>2. Full(x) /\ ~W!SessionActive(x) BY <1>0, <1>3 DEF Whole, Settled
  <2>3. Keeps(x, W!In(x, "COMPLETE")) BY <2>2, InKeeps
  <2>4. Keeps(x, W!Failure(x, "COMMIT")) BY <2>2, FailureKeeps
  <2> QED BY <1>0, <2>1, <2>3, <2>4
<1>4. CASE x.wiz.st = "CANCELING"
  <2>1. PICK r \in W!SessionStep(x) :
           z = IF r.event = "CANCELED" \/ ~W!SessionActive(r.x) THEN W!Discard(r.x) ELSE r.x
    BY <1>4 DEF W!Step
  <2>2. SessionSays(x, r) BY <1>0, SessionStepSays
  <2> DEFINE y == r.x
  <2>3. /\ Beside(x, y) /\ Evidence(y) /\ (AtRest(x) => AtRest(y))
        /\ r.event = "CANCELED" => ~W!SessionActive(y)
    BY <2>2 DEF SessionSays, W!SessionActive
  <2>4. z = y \/ (~W!SessionActive(y) /\ z = W!Discard(y)) BY <2>1, <2>3
  <2> HIDE DEF y
  <2>5. WizardRight(y) BY <1>4, <2>3, BesideKeeps
  <2>6. Keeps(x, y) BY <2>3, <2>5 DEF Keeps
  <2> QED BY <2>4, <2>5, <2>6, DiscardKeeps, KeepsTwice
<1>5. CASE x.wiz.st = "CAPTURE"
  <2>1. z \in W!Capturing(x) BY <1>5 DEF W!Step
  <2> QED BY <1>5, <2>1, CapturingKeeps
<1>6. CASE x.wiz.st \notin {"SAFETY_BLOCKED", "RANGE_COMPLETE", "COMMITTING", "CANCELING",
                            "CAPTURE"}
  <2>1. z = x BY <1>6 DEF W!Step
  <2> QED BY <1>0, <2>1
<1> QED BY <1>1, <1>2, <1>3, <1>4, <1>5, <1>6

WizardInv ==
    /\ WizardRight(W!Here) /\ (~ext.again => AtRest(W!Here))
    /\ {"allowed", "fault", "down", "again"} \subseteq DOMAIN ext

(* What the records say holds of the variables that take their values.     *)
LEMMA BecomesRight ==
    ASSUME NEW z, WizardRight(z), W!Becomes(z)
    PROVE  WizardRight(W!Here)' /\ (AtRest(z) => AtRest(W!Here)')
<1>1. /\ W!Here'.wiz = z.wiz /\ W!Here'.ses = z.ses /\ W!Here'.wf = z.wf /\ W!Here'.cand = z.cand
      /\ W!Here'.att = z.att /\ W!Here'.lease = z.lease
      /\ DOMAIN W!Here' = {"wiz", "ses", "wf", "cand", "att", "lease"}
  BY DEF W!Becomes, W!Here
<1> DEFINE h == W!Here'
<1> HIDE DEF h
<1>2. /\ h.wiz = z.wiz /\ h.ses = z.ses /\ h.wf = z.wf /\ h.cand = z.cand
      /\ h.att = z.att /\ h.lease = z.lease
      /\ DOMAIN h = {"wiz", "ses", "wf", "cand", "att", "lease"}
  BY <1>1 DEF h
<1>3. SessionShape(h) /\ WizardShape(h)
  BY <1>2 DEF WizardRight, Evidence, SessionShape, WizardShape
<1>4. Evidence(h) BY <1>2, <1>3 DEF WizardRight, Evidence
<1>5. AllEarned(h) /\ Whole(h) /\ Settled(h) /\ Gone(h)
  BY <1>2 DEF WizardRight, AllEarned, Whole, Full, Settled, Gone, W!SessionActive
<1>6. AtRest(z) => AtRest(h) BY <1>2 DEF AtRest
<1>7. WizardRight(h) BY <1>3, <1>4, <1>5 DEF WizardRight
<1> QED BY <1>6, <1>7 DEF h

(* So of a pass of the wizard, ...                                         *)
LEMMA WizardPassRight ==
    ASSUME WizardInv, W!Pass PROVE WizardInv'
<1>0. WizardRight(W!Here) /\ W!Here.ses = ses BY DEF WizardInv, W!Here
<1> DEFINE h == W!Here
           cancel(q) == IF ext.fault THEN ~ext.down ELSE q = "MENU"
<1>1. PICK request \in W!Requests :
         /\ ext.fault => request = "NONE"
         /\ \E y \in IF ext.fault /\ cancel(request) THEN {W!Cancel(h)}
                    ELSE W!Requested(h, request) :
               \E z \in W!Step(y) : W!Becomes(z)
         /\ ext' = [ext EXCEPT !.down = ext.fault,
                               !.again = @ \/ (cancel(request) /\ ses.st = "CANCELING")]
  BY DEF W!Pass
<1>2. PICK y \in IF ext.fault /\ cancel(request) THEN {W!Cancel(h)} ELSE W!Requested(h, request) :
         \E z \in W!Step(y) : W!Becomes(z)
  BY <1>1
<1>3. PICK z \in W!Step(y) : W!Becomes(z) BY <1>2
<1> DEFINE c == cancel(request)
<1>4. (c /\ y = W!Cancel(h)) \/ y \in W!Confirm(h) \/ y = h
  BY <1>1, <1>2 DEF W!Requested
<1>5. /\ ext'.again <=> (ext.again \/ (c /\ h.ses.st = "CANCELING"))
      /\ {"allowed", "fault", "down", "again"} \subseteq DOMAIN ext'
  BY <1>0, <1>1 DEF WizardInv
<1>6. WizardRight(h) /\ (~ext.again => AtRest(h)) BY DEF WizardInv
<1> HIDE DEF h, cancel, c
<1>7. WizardRight(y) /\ (~ext'.again => AtRest(y))
  BY <1>4, <1>5, <1>6, CancelKeeps, ConfirmKeeps DEF Keeps
<1>8. WizardRight(z) /\ (~ext'.again => AtRest(z)) BY <1>3, <1>7, WizardStepKeeps DEF Keeps
<1> QED BY <1>3, <1>5, <1>8, BecomesRight DEF WizardInv

(* ... and of all that goes on around it.                                  *)
LEMMA WizardNextRight ==
    ASSUME WizardInv, [W!Next]_wizard PROVE WizardInv'
<1> DEFINE h == W!Here
<1>1. CASE W!Pass BY <1>1, WizardPassRight
<1>2. CASE W!Begin
  <2> DEFINE z == W!Start(h)
  <2>1. W!Becomes(z) /\ ext' = ext /\ wiz.st \in {"IDLE", "COMPLETE", "CANCELED"}
    BY <1>2 DEF W!Begin
  <2>2. WizardRight(h) /\ ~W!SessionActive(h) /\ (~ext.again => AtRest(h))
    BY <2>1 DEF WizardInv, WizardRight, Settled, W!Here
  <2> HIDE DEF h
  <2>3. Keeps(h, z) BY <2>2, StartKeeps
  <2> HIDE DEF z
  <2>4. WizardRight(z) /\ (~ext.again => AtRest(z)) BY <2>2, <2>3 DEF Keeps
  <2> QED BY <2>1, <2>4, BecomesRight DEF WizardInv
<1>3. CASE W!StoreEnds
  <2>1. PICK ok \in BOOLEAN :
           /\ cand' = [cand EXCEPT !.st = IF ok THEN "ACTIVATED" ELSE "FAILED"]
           /\ lease' = IF ok THEN "FREE" ELSE lease
    BY <1>3 DEF W!StoreEnds
  <2> DEFINE st == IF ok THEN "ACTIVATED" ELSE "FAILED"
             c == [cand EXCEPT !.st = st]
             l == IF ok THEN "FREE" ELSE lease
             z == [h EXCEPT !.cand = c, !.lease = l]
  <2>2. /\ W!Becomes(z) /\ ext' = ext /\ z.cand = c /\ z.lease = l /\ z.wiz = h.wiz
        /\ z.ses = h.ses /\ z.wf = h.wf /\ z.att = h.att /\ DOMAIN z = DOMAIN h
        /\ h.cand = cand /\ h.lease = lease /\ h.cand.st = "COMMITTING"
    BY <1>3, <2>1 DEF W!StoreEnds, W!Becomes, W!Here
  <2>3. WizardRight(h) /\ (~ext.again => AtRest(h)) BY DEF WizardInv
  <2>4. /\ {"st", "records"} \subseteq DOMAIN c /\ c.records = cand.records
        /\ c.st \in {"ACTIVATED", "FAILED"}
    BY <2>2, <2>3 DEF WizardRight, WizardShape
  <2>5. l = "FREE" \/ l = lease OBVIOUS
  <2> HIDE DEF h, z, c, l
  <2>6. SessionShape(z) /\ WizardShape(z)
    BY <2>2, <2>3, <2>4 DEF WizardRight, Evidence, SessionShape, WizardShape
  <2>7. Evidence(z) BY <2>2, <2>3, <2>6 DEF WizardRight, Evidence
  <2>8. AllEarned(z) BY <2>2, <2>3, <2>4 DEF WizardRight, AllEarned
  <2>9. Full(z) <=> Full(h) BY <2>2, <2>4 DEF Full
  <2>10. Whole(z) BY <2>2, <2>3, <2>4, <2>9 DEF WizardRight, Whole
  <2>11. Settled(z) BY <2>2, <2>3 DEF WizardRight, Settled, W!SessionActive
  <2>12. h.cand.st # "NONE" BY <2>2
  <2>13. h.wiz.st # "CANCELED" BY <2>3, <2>12 DEF WizardRight, Gone
  <2>14. Gone(z) BY <2>2, <2>13 DEF Gone
  <2>15. ~ext.again => AtRest(z) BY <2>2, <2>3, <2>5 DEF AtRest
  <2> QED BY <2>2, <2>6, <2>7, <2>8, <2>10, <2>11, <2>14, <2>15, BecomesRight
          DEF WizardInv, WizardRight
<1>4. CASE W!Safety \/ W!Fault \/ UNCHANGED wizard
  <2>1. /\ ext'.again = ext.again /\ {"allowed", "fault", "down", "again"} \subseteq DOMAIN ext'
        /\ W!Becomes(h)
    BY <1>4 DEF W!Safety, W!Fault, wizard, WizardInv, W!Becomes, W!Here
  <2>2. WizardRight(h) /\ (~ext.again => AtRest(h)) BY DEF WizardInv
  <2> HIDE DEF h
  <2> QED BY <2>1, <2>2, BecomesRight DEF WizardInv
<1> QED BY <1>1, <1>2, <1>3, <1>4 DEF W!Next

(* Which is what is promised of the wizard.                                *)
LEMMA WizardInvHonest == WizardInv => W!SavedIsEarned /\ W!OverIsOver
<1> SUFFICES ASSUME WizardInv PROVE W!SavedIsEarned /\ W!OverIsOver OBVIOUS
<1>1. WizardRight(W!Here) /\ (~ext.again => AtRest(W!Here)) BY DEF WizardInv
<1>2. W!SavedIsEarned
  BY <1>1 DEF WizardRight, W!Here, Whole, Full, AllEarned, W!SavedIsEarned
<1>3. ~W!Active(wiz) => ses.st \notin {"WAIT_CAPTURE", "CANCELING"}
  BY <1>1 DEF WizardRight, Settled, W!Here, W!SessionActive, W!Active
<1>4. ~W!Active(wiz) /\ ~ext.again => ~L!AttemptActive(att) /\ lease # "METROLOGY"
  BY <1>1, <1>3 DEF AtRest, W!Here
<1>5. ~att.lost BY <1>1 DEF WizardRight, Evidence, Sound, W!Here
<1>6. wiz.st = "CANCELED" => cand = [st |-> "NONE", records |-> {}] /\ lease # "STORE"
  BY <1>1 DEF WizardRight, Gone, W!Here
<1> QED BY <1>2, <1>4, <1>5, <1>6, AttemptsAgree DEF W!OverIsOver

(* The wizard starts so.                                                   *)
LEMMA WizardInitRight == W!Init => WizardInv
<1> SUFFICES ASSUME W!Init PROVE WizardInv OBVIOUS
<1> DEFINE h == W!Here
<1>1. /\ h.wiz = W!NoWizard /\ h.ses = W!NoSession /\ h.wf = W!NoWorkflow
      /\ h.cand = [st |-> "NONE", records |-> {}] /\ h.att = L!Untouched /\ h.lease = "FREE"
      /\ DOMAIN h = {"wiz", "ses", "wf", "cand", "att", "lease"}
      /\ {"allowed", "fault", "down", "again"} \subseteq DOMAIN ext
  BY AttemptsAgree DEF W!Init, W!Here
<1> HIDE DEF h
<1>2. SessionShape(h) /\ WizardShape(h)
  BY <1>1 DEF SessionShape, SesFields, WfFields, WizardShape, WizFields, W!NoWizard,
              W!NoSession, W!NoWorkflow
<1>3. Sound(h.att) /\ ~L!AttemptActive(h.att)
  BY <1>1 DEF Sound, L!Attempts, L!Untouched, L!AttemptActive
<1>4. Evidence(h) BY <1>1, <1>2, <1>3 DEF Evidence, W!NoSession, W!NoWorkflow
<1>5. AllEarned(h) /\ Whole(h) /\ Settled(h) /\ Gone(h)
  BY <1>1 DEF AllEarned, Whole, Settled, Gone, W!NoWizard, W!NoSession, W!SessionActive
<1>6. AtRest(h) BY <1>1, <1>3 DEF AtRest
<1> QED BY <1>1, <1>2, <1>4, <1>5, <1>6 DEF WizardInv, WizardRight, h
-----------------------------------------------------------------------------
(***************************************************************************)
(* The captures for the PC.  The service publishes what was earned, while  *)
(* the front end is at rest, and never what was aborted: an aborted        *)
(* session sees to nothing but its end.                                    *)
(***************************************************************************)
SvcFields == {"id", "status", "valid", "obs", "cancel", "pending", "mean", "tx", "dead"}
HostFields == {"st", "cmd", "last", "capture", "parts", "took"}
Observed == [id : Nat, taken : Nat, calm : BOOLEAN]
Replies ==
    [own : BOOLEAN, error : C!Errors, id : Nat, busy : BOOLEAN, valid : BOOLEAN,
     status : C!Errors, obs : Observed]
ServiceShape(x) ==
    /\ {"svc", "host", "ext"} \subseteq DOMAIN x
    /\ SvcFields \subseteq DOMAIN x.svc /\ HostFields \subseteq DOMAIN x.host
    /\ {"safety", "late", "again"} \subseteq DOMAIN x.ext
    /\ x.svc.id \in Nat /\ x.svc.status \in C!Errors /\ x.svc.valid \in BOOLEAN
    /\ x.svc.obs \in Observed /\ x.svc.tx \in Seq(Replies)
    /\ x.host.last \in Nat /\ x.host.capture \in Nat /\ x.host.parts \in Seq(Observed)
Served(x) ==
    /\ x.svc.pending => ~W!SessionActive(x) /\ ~x.svc.dead /\ ~x.svc.valid
                        /\ x.wf.st = "COMPLETE"
    /\ x.svc.valid => /\ ~W!SessionActive(x) /\ ~x.svc.dead
                      /\ x.svc.obs.id = x.svc.id /\ x.svc.obs.taken >= Required /\ x.svc.obs.calm
    /\ W!SessionActive(x) /\ x.svc.dead => x.ses.st = "CANCELING"
Device(x) == Evidence(x) /\ ServiceShape(x) /\ Served(x)

(* An observation is that of the capture asked for, and while this is the  *)
(* capture of the service no other one is published.                       *)
Fits(x, o) ==
    /\ o.id = x.host.capture /\ o.taken >= Required /\ o.calm
    /\ x.svc.id = x.host.capture => ~C!Busy(x) /\ (x.svc.valid => x.svc.obs = o)
(* The client waits for one reply at a time; the parts it has fit.         *)
Waiting(x) == x.host.st = "WAIT" /\ \A k \in DOMAIN x.svc.tx : ~x.svc.tx[k].own
HeardRight(x) ==
    \A k \in DOMAIN x.svc.tx :
        x.svc.tx[k].own =>
            /\ x.host.st = "WAIT" /\ \A j \in DOMAIN x.svc.tx : x.svc.tx[j].own => j = k
            /\ x.host.cmd = "RESULT" /\ x.svc.tx[k].error = "OK" =>
                  /\ Fits(x, x.svc.tx[k].obs)
                  /\ x.host.parts # <<>> => x.svc.tx[k].obs = x.host.parts[1]
PartsRight(x) ==
    /\ x.host.cmd \in {"START", "STATUS"} => x.host.parts = <<>>
    /\ x.host.cmd = "RESULT" =>
          \A k \in DOMAIN x.host.parts :
              Fits(x, x.host.parts[k]) /\ x.host.parts[k] = x.host.parts[1]
    /\ x.host.took => x.host.cmd = "RESULT" /\ x.host.st = "IDLE"
LineRight(x, l) ==
    l # C!NoRequest => Waiting(x) /\ l = [cmd |-> x.host.cmd, id |-> x.host.capture]
CaptureInv ==
    Device(C!Here) /\ HeardRight(C!Here) /\ PartsRight(C!Here) /\ LineRight(C!Here, line)
-----------------------------------------------------------------------------
(* The session is the one of the wizard.                                   *)
LEMMA SessionsAgree ==
    /\ C!Untouched = W!Untouched /\ C!NoSession = W!NoSession /\ C!NoWorkflow = W!NoWorkflow
    /\ \A a : C!AttemptActive(a) <=> W!AttemptActive(a)
    /\ \A x : /\ C!SessionActive(x) <=> W!SessionActive(x)
              /\ C!WorkflowStart(x) = W!WorkflowStart(x)
              /\ C!SessionCancel(x) = W!SessionCancel(x)
              /\ C!SessionStep(x) = W!SessionStep(x)
<1>1. C!Untouched = W!Untouched BY DEF C!Untouched, W!Untouched
<1>2. C!NoSession = W!NoSession BY DEF C!NoSession, W!NoSession
<1>3. C!NoWorkflow = W!NoWorkflow BY DEF C!NoWorkflow, W!NoWorkflow
<1>4. \A a : C!AttemptActive(a) <=> W!AttemptActive(a)
  BY DEF C!AttemptActive, W!AttemptActive
<1>5. \A x : C!SessionActive(x) <=> W!SessionActive(x)
  BY DEF C!SessionActive, W!SessionActive
<1>6. \A x : C!WorkflowStart(x) = W!WorkflowStart(x) BY DEF C!WorkflowStart, W!WorkflowStart
<1>7. \A x : C!SessionCancel(x) = W!SessionCancel(x)
  BY Zenon DEF C!SessionCancel, W!SessionCancel, C!SessionActive, W!SessionActive,
     C!CanceledAtOnce, W!CanceledAtOnce, C!CancelComplete, W!CancelComplete,
     C!AttemptActive, W!AttemptActive, C!AbortedAttempt, W!AbortedAttempt,
     C!Untouched, W!Untouched
<1>8. \A x : C!TakeCapture(x) = W!TakeCapture(x)
  BY DEF C!Untouched, W!Untouched, C!AttemptActive, W!AttemptActive,
     C!AbortedAttempt, W!AbortedAttempt, C!Running, W!Running, C!Starts,
     W!Starts, C!StartCalls, W!StartCalls, C!Attempted, W!Attempted,
     C!Failed, W!Failed, C!Quiet, W!Quiet, C!Terminal, W!Terminal,
     C!TakeCapture, W!TakeCapture
<1>9. \A x : C!WaitCapture(x) = W!WaitCapture(x)
  <2>2. \A x : C!Acknowledge(x) = W!Acknowledge(x)
    BY DEF C!AttemptActive, W!AttemptActive, C!Acknowledged,
       W!Acknowledged, C!LeaseAcknowledged, W!LeaseAcknowledged,
       C!Acknowledge, W!Acknowledge
  <2>3. \A x : C!Failed(x) = W!Failed(x) /\ C!Quiet(x) = W!Quiet(x)
    BY DEF C!Failed, W!Failed, C!Attempted, W!Attempted, C!Quiet, W!Quiet
  <2>1. \A x : C!Sampled(x) = W!Sampled(x)
    <3>1. \A x, ok : C!Accept(x, ok) = W!Accept(x, ok) /\ C!Reject(x) = W!Reject(x)
      BY DEF C!Accept, W!Accept, C!Reject, W!Reject, C!GoOn, W!GoOn, C!Attempted, W!Attempted
    <3>2. \A x, v : C!Judged(x, v) = W!Judged(x, v) BY <3>1 DEF C!Judged, W!Judged
    <3>3. C!Verdicts = W!Verdicts BY DEF C!Verdicts, W!Verdicts
    <3> SUFFICES ASSUME NEW x PROVE C!Sampled(x) = W!Sampled(x) OBVIOUS
    <3> DEFINE last == [x EXCEPT !.ses.got = 0]
               part == [x EXCEPT !.ses.got = @ + 1]
               said(v) == IF v = "REJECTED" THEN "REJECTED" ELSE "ACCEPTED"
               one(v) == [x |-> C!Acknowledge(C!Judged(last, v)), event |-> said(v)]
               other(v) == [x |-> W!Acknowledge(W!Judged(last, v)), event |-> said(v)]
               sampled(judged, q) ==
                   IF x.ses.got + 1 = x.ses.blocks THEN judged
                   ELSE {q} \cup {r \in judged : r.event = "REJECTED"}
    <3>4. /\ C!Sampled(x) = sampled({one(v) : v \in C!Verdicts}, C!Quiet(C!Acknowledge(part)))
          /\ W!Sampled(x) = sampled({other(v) : v \in W!Verdicts}, W!Quiet(W!Acknowledge(part)))
      BY DEF C!Sampled, W!Sampled
    <3>5. \A v : one(v) = other(v)
      <4> HIDE DEF last, said
      <4> QED BY <2>2, <3>2
    <3> HIDE DEF one, other, sampled, part
    <3>6. C!Quiet(C!Acknowledge(part)) = W!Quiet(W!Acknowledge(part)) BY <2>2, <2>3
    <3>7. {one(v) : v \in C!Verdicts} = {other(v) : v \in W!Verdicts} BY <3>3, <3>5
    <3> QED BY <3>4, <3>6, <3>7
  <2>4. \A a : C!Steps(a) = W!Steps(a)
    BY DEF C!Steps, W!Steps, C!AbortedAttempt, W!AbortedAttempt,
       C!Untouched, W!Untouched
  <2>5. \A a : C!Ready(a) <=> W!Ready(a) BY DEF C!Ready, W!Ready
  <2> SUFFICES ASSUME NEW x PROVE C!WaitCapture(x) = W!WaitCapture(x) OBVIOUS
  <2> DEFINE u(b) == [x EXCEPT !.att = b, !.ses.st = "START_CAPTURE"]
             v(b) == [x EXCEPT !.att = b]
             one(b) == CASE C!AttemptActive(b) -> {C!Quiet(v(b))}
                         [] ~C!AttemptActive(b) /\ C!Ready(b) -> C!Sampled(u(b))
                         [] OTHER -> {C!Quiet(C!Acknowledge(C!Failed(u(b))))}
             other(b) == CASE W!AttemptActive(b) -> {W!Quiet(v(b))}
                           [] ~W!AttemptActive(b) /\ W!Ready(b) -> W!Sampled(u(b))
                           [] OTHER -> {W!Quiet(W!Acknowledge(W!Failed(u(b))))}
  <2>6. /\ C!WaitCapture(x) = UNION {one(b) : b \in C!Steps(x.att)}
        /\ W!WaitCapture(x) = UNION {other(b) : b \in W!Steps(x.att)}
    BY DEF C!WaitCapture, W!WaitCapture
  <2>7. \A b : one(b) = other(b)
    <3> SUFFICES ASSUME NEW b PROVE one(b) = other(b) OBVIOUS
    <3> HIDE DEF u, v
    <3>1. CASE W!AttemptActive(b) BY <1>4, <2>3, <3>1
    <3>2. CASE ~W!AttemptActive(b) /\ W!Ready(b) BY <1>4, <2>1, <2>5, <3>2
    <3>3. CASE ~W!AttemptActive(b) /\ ~W!Ready(b) BY <1>4, <2>2, <2>3, <2>5, <3>3
    <3> QED BY <3>1, <3>2, <3>3
  <2> HIDE DEF one, other
  <2> QED BY <2>4, <2>6, <2>7
<1>10. \A x : C!Canceling(x) = W!Canceling(x)
  BY DEF C!Untouched, W!Untouched, C!AbortedAttempt, W!AbortedAttempt,
     C!Steps, W!Steps, C!AttemptActive, W!AttemptActive, C!Acknowledged,
     W!Acknowledged, C!LeaseAcknowledged, W!LeaseAcknowledged, C!Acknowledge,
     W!Acknowledge, C!Quiet, W!Quiet, C!Terminal, W!Terminal,
     C!CancelComplete, W!CancelComplete, C!Canceling, W!Canceling
<1>11. \A x : C!Quiet(x) = W!Quiet(x) BY DEF C!Quiet, W!Quiet
<1>12. \A x : C!SessionStep(x) = W!SessionStep(x)
  BY <1>8, <1>9, <1>10, <1>11 DEF C!SessionStep, W!SessionStep
<1> QED BY <1>1, <1>2, <1>3, <1>4, <1>5, <1>6, <1>7, <1>12
-----------------------------------------------------------------------------
(* What moves the device: the host, and what it will hear, are not         *)
(* touched, and nothing else is published for the capture.                 *)
Stays(x, y) ==
    /\ y.svc.id = x.svc.id
    /\ ~C!Busy(x) => ~C!Busy(y) /\ (y.svc.valid => x.svc.valid /\ y.svc.obs = x.svc.obs)
Moves(x, y) == Device(y) /\ y.host = x.host /\ y.svc.tx = x.svc.tx /\ Stays(x, y)

(* Two moves of the device are one.                                        *)
LEMMA MovesTwice ==
    ASSUME NEW x, NEW y, NEW z, Moves(x, y), Moves(y, z) PROVE Moves(x, z)
BY DEF Moves, Stays

(* The service is busy with a session, or with a result that waits.        *)
LEMMA BusyMeans == \A x : C!Busy(x) <=> W!SessionActive(x) \/ x.svc.pending
BY SessionsAgree DEF C!Busy

(* What is published is put together anew.                                 *)
OnService(x, y) ==
    /\ DOMAIN y = DOMAIN x /\ \A f \in DOMAIN x \ {"svc", "ext"} : y[f] = x[f]
    /\ SvcFields \subseteq DOMAIN y.svc /\ {"safety", "late", "again"} \subseteq DOMAIN y.ext
    /\ y.svc.id \in Nat /\ y.svc.status \in C!Errors /\ y.svc.valid \in BOOLEAN
    /\ y.svc.obs \in Observed /\ y.svc.tx \in Seq(Replies)
(* What changes in the service only leaves the session as it was.          *)
LEMMA OnServiceDevice ==
    ASSUME NEW x, NEW y, Evidence(x), ServiceShape(x), OnService(x, y), Served(y)
    PROVE  Device(y)
<1>1. /\ y.ses = x.ses /\ y.wf = x.wf /\ y.att = x.att /\ y.lease = x.lease /\ y.host = x.host
      /\ SessionShape(y)
  BY DEF Evidence, SessionShape, OnService, ServiceShape
<1>2. Evidence(y) BY <1>1 DEF Evidence
<1>3. ServiceShape(y) BY <1>1 DEF OnService, ServiceShape
<1> QED BY <1>2, <1>3 DEF Device

(* An abort publishes nothing, and leaves a session that drains or none.   *)
LEMMA AbortMoves ==
    ASSUME NEW x, Device(x), NEW reason \in C!Errors
    PROVE  LET y == C!AbortCaptureNow(x, reason)
           IN  /\ Moves(x, y) /\ ~y.svc.valid /\ ~y.svc.pending
               /\ W!SessionActive(y) => y.ses.st = "CANCELING"
<1> DEFINE s == W!SessionCancel(x)
           busy == C!Busy(x)
           status == IF busy THEN reason ELSE s.svc.status
           y == [s EXCEPT !.svc.valid = FALSE, !.svc.obs = C!NoObservation,
                          !.svc.cancel = @ \/ busy, !.svc.pending = FALSE,
                          !.svc.status = IF busy THEN reason ELSE @,
                          !.svc.dead = @ \/ busy,
                          !.ext.again = @ \/ x.ses.st = "CANCELING"]
<1>0. Evidence(x) /\ ServiceShape(x) /\ Served(x) BY DEF Device
<1>1. /\ Beside(x, s) /\ Evidence(s) /\ (~W!SessionActive(x) => s = x)
      /\ W!SessionActive(x) => s.ses.st \in {"DONE", "CANCELING"}
  BY <1>0, SessionCancelEffect
<1>2. C!AbortCaptureNow(x, reason) = y
  <2>1. s = IF C!SessionActive(x) THEN C!SessionCancel(x) ELSE x BY <1>1, SessionsAgree
  <2> HIDE DEF s, busy
  <2> QED BY <2>1 DEF C!AbortCaptureNow, busy
<1> HIDE DEF s, busy
<1>3. /\ s.svc = x.svc /\ s.host = x.host /\ s.ext = x.ext /\ ServiceShape(s)
  BY <1>0, <1>1 DEF Beside, ServiceShape
<1>4. /\ DOMAIN y = DOMAIN s /\ \A f \in DOMAIN s \ {"svc", "ext"} : y[f] = s[f]
      /\ SvcFields \subseteq DOMAIN y.svc /\ {"safety", "late", "again"} \subseteq DOMAIN y.ext
  BY <1>3 DEF ServiceShape, SvcFields
<1>5. /\ y.svc.valid = FALSE /\ y.svc.obs = C!NoObservation /\ y.svc.pending = FALSE
      /\ y.svc.id = s.svc.id /\ y.svc.tx = s.svc.tx
      /\ y.svc.status = (IF busy THEN reason ELSE s.svc.status)
  BY <1>3 DEF ServiceShape, SvcFields
<1>6. C!NoObservation \in Observed BY DEF C!NoObservation, Observed
<1>7. y.svc.status \in C!Errors BY <1>3, <1>5 DEF ServiceShape
<1> HIDE DEF y
<1>8. OnService(s, y) BY <1>3, <1>4, <1>5, <1>6, <1>7 DEF OnService, ServiceShape
<1>9. y.ses = s.ses /\ y.host = s.host BY <1>1, <1>3, <1>4 DEF Evidence, SessionShape, ServiceShape
<1>10. W!SessionActive(y) => y.ses.st = "CANCELING"
  BY <1>1, <1>9 DEF W!SessionActive
<1>11. Served(y) BY <1>5, <1>10 DEF Served
<1>12. Device(y) BY <1>1, <1>3, <1>8, <1>11, OnServiceDevice
<1>13. ~C!Busy(x) => ~C!Busy(y)
  BY <1>1, <1>5, <1>9, BusyMeans DEF W!SessionActive
<1>14. Moves(x, y) BY <1>3, <1>5, <1>9, <1>12, <1>13 DEF Moves, Stays
<1> QED BY <1>2, <1>5, <1>10, <1>14

(* To do nothing is a move.                                                *)
LEMMA StaysStill == \A x : Device(x) => Moves(x, x)
BY DEF Moves, Stays

(* A capture whose time is over is aborted, ...                            *)
LEMMA ExpiredMoves ==
    ASSUME NEW x, Device(x)
    PROVE  LET y == C!Expired(x)
           IN  Moves(x, y) /\ (W!SessionActive(x) => ~y.svc.valid /\ ~y.svc.pending)
<1>1. "TIMEOUT" \in C!Errors BY DEF C!Errors
<1>2. C!Expired(x) = x \/ C!Expired(x) = C!AbortCaptureNow(x, "TIMEOUT") BY DEF C!Expired
<1>3. W!SessionActive(x) => ~x.svc.valid /\ ~x.svc.pending BY DEF Device, Served
<1> QED BY <1>1, <1>2, <1>3, AbortMoves, StaysStill

(* What the session said is noted.                                         *)
LEMMA NotedMoves ==
    ASSUME NEW x, Device(x), ~x.svc.valid, ~x.svc.pending, NEW r \in C!SessionStep(x)
    PROVE  LET z == C!Noted(r.x, r.event)
           IN  Device(z) /\ z.host = x.host /\ z.svc.tx = x.svc.tx /\ z.svc.id = x.svc.id
<1> DEFINE u == r.x
           e == r.event
           z == C!Noted(u, e)
           a == [u EXCEPT !.svc.mean = @ + 1]
           b == [u EXCEPT !.svc.pending = TRUE]
           c(st) == [u EXCEPT !.svc.status = st]
<1>0. Evidence(x) /\ ServiceShape(x) /\ Served(x) BY DEF Device
<1>1. SessionSays(x, r) BY <1>0, SessionsAgree, SessionStepSays
<1>2. /\ Beside(x, u) /\ Evidence(u)
      /\ e = "COMPLETE" => u.ses.st = "DONE" /\ u.wf.st = "COMPLETE"
      /\ x.ses.st = "CANCELING" => u.ses.st \in {"CANCELING", "DONE"} /\ e # "COMPLETE"
      /\ x.ses.st \in {"IDLE", "DONE"} => u.ses.st = x.ses.st /\ e # "COMPLETE"
  BY <1>1 DEF SessionSays
<1>3. z = u \/ z = a \/ (e = "COMPLETE" /\ z = b)
      \/ \E st \in {"ACQUISITION_ERROR", "CANCELED"} : z = c(st)
  BY DEF C!Noted
<1> HIDE DEF u, e, z
<1>4. u.svc = x.svc /\ u.host = x.host /\ u.ext = x.ext /\ ServiceShape(u)
  BY <1>0, <1>2 DEF Beside, ServiceShape
<1>5. z = u => /\ OnService(u, z) /\ z.svc.id = u.svc.id /\ z.svc.tx = u.svc.tx
               /\ z.svc.valid = u.svc.valid /\ z.svc.pending = u.svc.pending
               /\ z.svc.dead = u.svc.dead /\ z.ses = u.ses /\ z.wf = u.wf /\ z.host = u.host
  BY <1>4 DEF OnService, ServiceShape
<1>6. z = a => /\ OnService(u, z) /\ z.svc.id = u.svc.id /\ z.svc.tx = u.svc.tx
               /\ z.svc.valid = u.svc.valid /\ z.svc.pending = u.svc.pending
               /\ z.svc.dead = u.svc.dead /\ z.ses = u.ses /\ z.wf = u.wf /\ z.host = u.host
  <2> SUFFICES ASSUME z = a
               PROVE  /\ OnService(u, z) /\ z.svc.id = u.svc.id /\ z.svc.tx = u.svc.tx
                      /\ z.svc.valid = u.svc.valid /\ z.svc.pending = u.svc.pending
                      /\ z.svc.dead = u.svc.dead /\ z.ses = u.ses /\ z.wf = u.wf
                      /\ z.host = u.host
    OBVIOUS
  <2> QED BY <1>2, <1>4 DEF OnService, ServiceShape, SvcFields, Evidence, SessionShape
<1>7. z = b => /\ OnService(u, z) /\ z.svc.id = u.svc.id /\ z.svc.tx = u.svc.tx
               /\ z.svc.valid = u.svc.valid
               /\ z.svc.dead = u.svc.dead /\ z.ses = u.ses /\ z.wf = u.wf /\ z.host = u.host
  BY <1>2, <1>4 DEF OnService, ServiceShape, SvcFields, Evidence, SessionShape
<1>8. ASSUME NEW st \in {"ACQUISITION_ERROR", "CANCELED"}, z = c(st)
      PROVE  /\ OnService(u, z) /\ z.svc.id = u.svc.id /\ z.svc.tx = u.svc.tx
             /\ z.svc.valid = u.svc.valid /\ z.svc.pending = u.svc.pending
             /\ z.svc.dead = u.svc.dead /\ z.ses = u.ses /\ z.wf = u.wf /\ z.host = u.host
  <2>1. st \in C!Errors BY DEF C!Errors
  <2> QED BY <1>2, <1>4, <1>8, <2>1 DEF OnService, ServiceShape, SvcFields, Evidence, SessionShape
<1> HIDE DEF a, b, c
<1>9. /\ OnService(u, z) /\ z.svc.id = x.svc.id /\ z.svc.tx = x.svc.tx
      /\ ~z.svc.valid /\ z.svc.dead = x.svc.dead /\ z.ses = u.ses /\ z.wf = u.wf
      /\ z.host = x.host /\ (z.svc.pending => e = "COMPLETE")
  BY <1>3, <1>4, <1>5, <1>6, <1>7, <1>8
<1>10. x.svc.dead => x.ses.st \in {"CANCELING", "IDLE", "DONE"}
  BY <1>0 DEF Served, W!SessionActive
<1>11. Served(z) BY <1>2, <1>9, <1>10 DEF Served, W!SessionActive
<1>12. Device(z) BY <1>2, <1>4, <1>9, <1>11, OnServiceDevice
<1> QED BY <1>9, <1>12 DEF z, u, e

(* ... and else its session makes a step.                                  *)
LEMMA CapturingMoves ==
    ASSUME NEW x, Device(x), NEW z \in C!Capturing(x) PROVE Moves(x, z)
<1>1. CASE ~W!SessionActive(x)
  <2>1. z = x BY <1>1, SessionsAgree DEF C!Capturing
  <2> QED BY <2>1, StaysStill
<1>2. CASE W!SessionActive(x)
  <2> DEFINE y == C!Expired(x)
  <2>1. z = y \/ \E r \in C!SessionStep(y) : z = C!Noted(r.x, r.event)
    BY <1>2, SessionsAgree DEF C!Capturing
  <2>2. Moves(x, y) /\ ~y.svc.valid /\ ~y.svc.pending BY <1>2, ExpiredMoves
  <2> HIDE DEF y
  <2>3. Device(y) BY <2>2 DEF Moves
  <2>4. CASE z = y BY <2>2, <2>4
  <2>5. ASSUME NEW r \in C!SessionStep(y), z = C!Noted(r.x, r.event) PROVE Moves(x, z)
    <3>1. Device(z) /\ z.host = y.host /\ z.svc.tx = y.svc.tx /\ z.svc.id = y.svc.id
      BY <2>2, <2>3, <2>5, NotedMoves
    <3>2. C!Busy(x) BY <1>2, BusyMeans
    <3> QED BY <2>2, <3>1, <3>2 DEF Moves, Stays
  <2> QED BY <2>1, <2>4, <2>5
<1> QED BY <1>1, <1>2

(* A result that waited is published, or given up.                         *)
LEMMA PublishMoves ==
    ASSUME NEW x, Device(x) PROVE Moves(x, C!Publish(x))
<1> DEFINE z == C!Published(x)
<1>0. Evidence(x) /\ ServiceShape(x) /\ Served(x) BY DEF Device
<1>1. \/ C!Publish(x) = x
      \/ \E reason \in {"TIMEOUT", "SAFETY_BLOCKED"} : C!Publish(x) = C!AbortCaptureNow(x, reason)
      \/ /\ x.svc.pending /\ ~L!AttemptActive(x.att) /\ x.ext.safety = "CLEAR"
         /\ C!Publish(x) = z
  BY SessionsAgree, AttemptsAgree DEF C!Publish, C!TransferSafe, C!FactoryAllowed
<1>2. {"TIMEOUT", "SAFETY_BLOCKED"} \subseteq C!Errors BY DEF C!Errors
<1>3. ASSUME x.svc.pending, ~L!AttemptActive(x.att), x.ext.safety = "CLEAR" PROVE Moves(x, z)
  <2> DEFINE o == [id |-> x.svc.id, taken |-> x.wf.taken,
                   calm |-> x.ext.safety = "CLEAR" /\ ~C!AttemptActive(x.att)]
             y == [x EXCEPT !.svc.pending = FALSE, !.svc.valid = TRUE, !.svc.status = "OK",
                            !.svc.obs = o]
  <2>1. z = y BY DEF C!Published
  <2>2. /\ o.id = x.svc.id /\ o.taken = x.wf.taken /\ o.calm /\ o \in Observed
    BY <1>0, <1>3, SessionsAgree, AttemptsAgree DEF Observed, Evidence, ServiceShape
  <2>3. "OK" \in C!Errors BY DEF C!Errors
  <2> HIDE DEF o, z
  <2>4. /\ DOMAIN y = DOMAIN x /\ \A f \in DOMAIN x \ {"svc"} : y[f] = x[f]
        /\ y.svc.pending = FALSE /\ y.svc.valid = TRUE /\ y.svc.status = "OK" /\ y.svc.obs = o
        /\ y.svc.id = x.svc.id /\ y.svc.tx = x.svc.tx /\ y.svc.dead = x.svc.dead
        /\ SvcFields \subseteq DOMAIN y.svc
    BY <1>0 DEF ServiceShape, SvcFields
  <2> HIDE DEF y
  <2>5. OnService(x, y) BY <1>0, <2>2, <2>3, <2>4 DEF OnService, ServiceShape
  <2>6. y.ses = x.ses /\ y.wf = x.wf /\ y.host = x.host
    BY <1>0, <2>4 DEF Evidence, SessionShape, ServiceShape
  <2>7. ~W!SessionActive(x) /\ ~x.svc.dead /\ x.wf.taken >= Required
    BY <1>0, <1>3 DEF Served, Evidence
  <2>8. Served(y) BY <2>2, <2>4, <2>6, <2>7 DEF Served, W!SessionActive
  <2>9. Device(y) BY <1>0, <2>5, <2>8, OnServiceDevice
  <2>10. C!Busy(x) BY <1>3, BusyMeans
  <2>11. Moves(x, y) BY <2>4, <2>6, <2>9, <2>10 DEF Moves, Stays
  <2> QED BY <2>1, <2>11
<1> HIDE DEF z
<1> QED BY <1>1, <1>2, <1>3, AbortMoves, StaysStill
-----------------------------------------------------------------------------
(* What the host hears is still so when the device has moved.              *)
LEMMA FitsStays ==
    ASSUME NEW x, NEW y, NEW o, Fits(x, o), Stays(x, y), y.host = x.host PROVE Fits(y, o)
BY DEF Fits, Stays

(* A move of the device leaves what the client will hear as true as it     *)
(* was.                                                                    *)
LEMMA HeardStays ==
    ASSUME NEW x, NEW y, HeardRight(x), PartsRight(x), y.host = x.host, y.svc.tx = x.svc.tx,
           x.host.cmd = "RESULT" => Stays(x, y)
    PROVE  HeardRight(y) /\ PartsRight(y)
<1>1. x.host.cmd = "RESULT" => \A o : Fits(x, o) => Fits(y, o) BY FitsStays
<1> QED BY <1>1 DEF HeardRight, PartsRight

(* An answer to the request waited for.                                    *)
LEMMA AnswerRight ==
    ASSUME NEW x, Device(x), Waiting(x), PartsRight(x), NEW error \in C!Errors,
           x.host.cmd = "RESULT" /\ error = "OK" => x.svc.valid /\ x.svc.id = x.host.capture
    PROVE  LET y == [x EXCEPT !.svc.tx = Append(@, C!Answer(x, error))]
           IN  Device(y) /\ HeardRight(y) /\ PartsRight(y)
<1> DEFINE a == C!Answer(x, error)
           y == [x EXCEPT !.svc.tx = Append(@, a)]
<1>0. Evidence(x) /\ ServiceShape(x) /\ Served(x) BY DEF Device
<1>1. /\ a \in Replies /\ a.own /\ a.error = error /\ a.obs = x.svc.obs
  BY <1>0 DEF C!Answer, C!Busy, Replies, ServiceShape
<1> HIDE DEF a
<1> DEFINE t == x.svc.tx
           q == Append(t, a)
<1>2. t \in Seq(Replies) BY <1>0 DEF ServiceShape
<1>3. /\ DOMAIN y = DOMAIN x /\ \A f \in DOMAIN x \ {"svc"} : y[f] = x[f]
      /\ y.svc.tx = q /\ DOMAIN y.svc = DOMAIN x.svc
      /\ \A f \in DOMAIN x.svc \ {"tx"} : y.svc[f] = x.svc[f]
  BY <1>0 DEF ServiceShape, SvcFields
<1> HIDE DEF y, t
<1>4. /\ q \in Seq(Replies) /\ Len(q) = Len(t) + 1 /\ \A i \in 1 .. Len(t) : q[i] = t[i]
      /\ q[Len(t) + 1] = a
  BY <1>1, <1>2, AppendProperties
<1>5. /\ Len(t) \in Nat /\ DOMAIN t = 1 .. Len(t) /\ DOMAIN q = 1 .. Len(t) + 1
  BY <1>2, <1>4, LenProperties
<1> HIDE DEF q
<1>6. /\ y.svc.id = x.svc.id /\ y.svc.valid = x.svc.valid /\ y.svc.pending = x.svc.pending
      /\ y.svc.obs = x.svc.obs /\ y.svc.dead = x.svc.dead /\ y.svc.status = x.svc.status
  BY <1>0, <1>3 DEF ServiceShape, SvcFields
<1>7. y.ses = x.ses /\ y.wf = x.wf /\ y.host = x.host
  BY <1>0, <1>3 DEF Evidence, SessionShape, ServiceShape
<1>8. OnService(x, y) BY <1>0, <1>3, <1>4, <1>6 DEF OnService, ServiceShape
<1>9. Served(y) BY <1>0, <1>6, <1>7 DEF Served, W!SessionActive
<1>10. Device(y) BY <1>0, <1>8, <1>9, OnServiceDevice
<1>11. Stays(x, y) BY <1>6, <1>7, BusyMeans DEF Stays, W!SessionActive
<1>12. PartsRight(y) BY <1>7, <1>11, FitsStays DEF PartsRight
<1>13. \A k \in 1 .. Len(t) + 1 : q[k].own => k = Len(t) + 1
  <2> SUFFICES ASSUME NEW k \in 1 .. Len(t) + 1, q[k].own, k # Len(t) + 1 PROVE FALSE
    OBVIOUS
  <2>1. k \in 1 .. Len(t) BY <1>5
  <2> QED BY <1>4, <1>5, <2>1 DEF Waiting, t
<1>14. HeardRight(y)
  <2> SUFFICES ASSUME NEW k \in DOMAIN y.svc.tx, y.svc.tx[k].own
               PROVE  /\ y.host.st = "WAIT" /\ \A j \in DOMAIN y.svc.tx : y.svc.tx[j].own => j = k
                      /\ y.host.cmd = "RESULT" /\ y.svc.tx[k].error = "OK" =>
                            /\ Fits(y, y.svc.tx[k].obs)
                            /\ y.host.parts # <<>> => y.svc.tx[k].obs = y.host.parts[1]
    BY DEF HeardRight
  <2>1. k = Len(t) + 1 /\ y.svc.tx[k] = a BY <1>3, <1>4, <1>5, <1>13
  <2>2. y.host.st = "WAIT" BY <1>7 DEF Waiting
  <2>3. \A j \in DOMAIN y.svc.tx : y.svc.tx[j].own => j = k BY <1>3, <1>5, <1>13, <2>1
  <2>4. ASSUME y.host.cmd = "RESULT", a.error = "OK"
        PROVE  Fits(y, a.obs) /\ (y.host.parts # <<>> => a.obs = y.host.parts[1])
    <3>1. x.host.cmd = "RESULT" /\ x.svc.valid /\ x.svc.id = x.host.capture
      BY <1>1, <1>7, <2>4
    <3>2. ~C!Busy(x) BY <1>0, <3>1, BusyMeans DEF Served
    <3>3. Fits(x, a.obs) BY <1>0, <1>1, <3>1, <3>2 DEF Fits, Served
    <3>4. Fits(y, a.obs) BY <1>7, <1>11, <3>3, FitsStays
    <3>5. ASSUME x.host.parts # <<>> PROVE a.obs = x.host.parts[1]
      <4>1. x.host.parts \in Seq(Observed) BY <1>0 DEF ServiceShape
      <4>2. 1 \in DOMAIN x.host.parts BY <3>5, <4>1, EmptySeq, LenProperties
      <4>3. Fits(x, x.host.parts[1]) BY <3>1, <4>2 DEF PartsRight
      <4> QED BY <1>1, <3>1, <4>3 DEF Fits
    <3> QED BY <1>7, <3>4, <3>5
  <2> QED BY <2>1, <2>2, <2>3, <2>4
<1> QED BY <1>10, <1>12, <1>14 DEF y, a

(* A reply that tells the client of no observation, or of the one it asked *)
(* for.                                                                    *)
LEMMA ReplyRight ==
    ASSUME NEW x, Device(x), Waiting(x), PartsRight(x), NEW error \in C!Errors,
           x.host.cmd = "RESULT" /\ error = "OK" => x.svc.valid /\ x.svc.id = x.host.capture
    PROVE  LET y == C!Reply(x, error) IN Device(y) /\ HeardRight(y) /\ PartsRight(y)
<1> DEFINE y == C!Reply(x, error)
           u == C!AbortCaptureNow(x, "BAD_FRAME")
           v == [x EXCEPT !.svc.tx = Append(@, C!Answer(x, error))]
<1>1. y = u \/ y = v BY DEF C!Reply
<1>2. Device(v) /\ HeardRight(v) /\ PartsRight(v) BY AnswerRight
<1>3. "BAD_FRAME" \in C!Errors BY DEF C!Errors
<1>4. Moves(x, u) BY <1>3, AbortMoves
<1>5. HeardRight(x) BY DEF Waiting, HeardRight
<1> HIDE DEF u, v, y
<1>6. Device(u) /\ HeardRight(u) /\ PartsRight(u) BY <1>4, <1>5, HeardStays DEF Moves
<1> QED BY <1>1, <1>2, <1>6 DEF y

(* The requests.                                                           *)
LEMMA StartedRight ==
    ASSUME NEW x, Device(x), ~C!Busy(x), NEW id \in Nat, NEW blocks
    PROVE  LET y == C!Started(x, id, blocks)
           IN  Device(y) /\ y.host = x.host /\ y.svc.tx = x.svc.tx
<1> DEFINE u == W!WorkflowStart(x)
           s == [C!NoSession EXCEPT !.st = "START_CAPTURE", !.event = "BEGIN",
                                    !.blocks = blocks]
           v == [u EXCEPT !.ses = s]
           y == [v EXCEPT !.svc.id = id, !.svc.status = "BUSY", !.svc.valid = FALSE,
                          !.svc.cancel = FALSE, !.svc.obs = C!NoObservation,
                          !.svc.pending = FALSE, !.svc.mean = 0, !.svc.dead = FALSE,
                          !.ext.late = FALSE]
<1>0. Evidence(x) /\ SessionShape(x) /\ ServiceShape(x) /\ Served(x) BY DEF Device, Evidence
<1>1. C!Started(x, id, blocks) = y
  <2>1. C!WorkflowStart(x) = u BY SessionsAgree
  <2> HIDE DEF u
  <2>2. C!Started(x, id, blocks) =
          [u EXCEPT !.ses = s, !.svc.id = id, !.svc.status = "BUSY", !.svc.valid = FALSE,
                    !.svc.cancel = FALSE, !.svc.obs = C!NoObservation,
                    !.svc.pending = FALSE, !.svc.mean = 0, !.svc.dead = FALSE,
                    !.ext.late = FALSE]
    BY <2>1 DEF C!Started
  <2> QED BY <2>2
<1>2. /\ Beside(x, u) /\ SameTransaction(x, u) /\ u.ses = x.ses
      /\ u.wf.st = "REQUESTED" /\ u.wf.accepted = 0 /\ u.wf.taken = 0
  BY <1>0, WorkflowStartEffect
<1>3. /\ SesFields \subseteq DOMAIN s /\ s.st = "START_CAPTURE" /\ s.event = "BEGIN"
      /\ s.got = 0
  BY DEF C!NoSession, SesFields
<1> HIDE DEF u, s
<1>4. Beside(u, v) /\ SameTransaction(u, v) /\ v.wf = u.wf /\ v.ses = s
  BY <1>2, <1>3 DEF Beside, SessionShape, SameTransaction
<1> HIDE DEF v
<1>5. Beside(x, v) BY <1>2, <1>4, BesideTwice
<1>6. Evidence(v) BY <1>0, <1>2, <1>3, <1>4, <1>5 DEF Evidence, SameTransaction, Beside
<1>7. v.svc = x.svc /\ v.host = x.host /\ v.ext = x.ext /\ ServiceShape(v)
  BY <1>0, <1>5 DEF Beside, ServiceShape
<1>8. /\ DOMAIN y = DOMAIN v /\ \A f \in DOMAIN v \ {"svc", "ext"} : y[f] = v[f]
      /\ SvcFields \subseteq DOMAIN y.svc /\ {"safety", "late", "again"} \subseteq DOMAIN y.ext
  BY <1>7 DEF ServiceShape, SvcFields
<1>9. /\ y.svc.id = id /\ y.svc.status = "BUSY" /\ y.svc.valid = FALSE
      /\ y.svc.obs = C!NoObservation /\ y.svc.pending = FALSE /\ y.svc.dead = FALSE
      /\ y.svc.tx = v.svc.tx
  BY <1>7 DEF ServiceShape, SvcFields
<1>10. C!NoObservation \in Observed /\ "BUSY" \in C!Errors
  BY DEF C!NoObservation, Observed, C!Errors
<1> HIDE DEF y
<1>11. OnService(v, y) BY <1>7, <1>8, <1>9, <1>10 DEF OnService, ServiceShape
<1>12. Served(y) BY <1>9 DEF Served
<1>13. Device(y) BY <1>6, <1>7, <1>11, <1>12, OnServiceDevice
<1>14. y.host = v.host BY <1>7, <1>8 DEF ServiceShape
<1> QED BY <1>1, <1>7, <1>9, <1>13, <1>14

(* A request is answered, and there is nothing else to hear.               *)
Replied(y) == Device(y) /\ HeardRight(y) /\ PartsRight(y)
AtRequest(x) == Device(x) /\ Waiting(x) /\ PartsRight(x)

(* A START is answered before anything is heard of its capture; ...        *)
LEMMA StartAnswered ==
    ASSUME NEW x, AtRequest(x), x.host.cmd = "START", NEW id \in Nat, NEW y \in C!Start(x, id)
    PROVE  Replied(y)
<1>0. {"BUSY", "SAFETY_BLOCKED", "REFUSED", "OK"} \subseteq C!Errors BY DEF C!Errors
<1>1. ASSUME NEW error \in {"BUSY", "SAFETY_BLOCKED", "REFUSED"}, y = C!Reply(x, error)
      PROVE  Replied(y)
  BY <1>0, <1>1, ReplyRight DEF AtRequest, Replied
<1>2. ASSUME ~C!Busy(x), NEW b \in {1, Blocks}, y = C!Reply(C!Started(x, id, b), "OK")
      PROVE  Replied(y)
  <2> DEFINE u == C!Started(x, id, b)
  <2>1. Device(u) /\ u.host = x.host /\ u.svc.tx = x.svc.tx BY <1>2, StartedRight DEF AtRequest
  <2>2. y = C!Reply(u, "OK") BY <1>2
  <2> HIDE DEF u
  <2>3. HeardRight(x) BY DEF AtRequest, Waiting, HeardRight
  <2>4. PartsRight(u) BY <2>1, <2>3, HeardStays DEF AtRequest
  <2>5. Waiting(u) BY <2>1 DEF AtRequest, Waiting
  <2> QED BY <1>0, <2>1, <2>2, <2>4, <2>5, ReplyRight DEF Replied
<1>3. \/ \E error \in {"BUSY", "SAFETY_BLOCKED", "REFUSED"} : y = C!Reply(x, error)
      \/ ~C!Busy(x) /\ \E b \in {1, Blocks} : y = C!Reply(C!Started(x, id, b), "OK")
  BY DEF C!Start
<1> QED BY <1>1, <1>2, <1>3

(* ... a RESULT with what is published; ...                                *)
LEMMA ResultAnswered ==
    ASSUME NEW x, AtRequest(x) PROVE Replied(C!Result(x, x.host.capture))
<1>0. {"BAD_PAYLOAD", "NOT_READY", "OK"} \subseteq C!Errors BY DEF C!Errors
<1> DEFINE y == C!Result(x, x.host.capture)
<1>1. \/ y = C!Reply(x, "BAD_PAYLOAD") \/ y = C!Reply(x, "NOT_READY")
      \/ x.svc.id = x.host.capture /\ x.svc.valid /\ y = C!Reply(x, "OK")
  BY DEF C!Result
<1> HIDE DEF y
<1>2. Replied(y) BY <1>0, <1>1, ReplyRight DEF AtRequest, Replied
<1> QED BY <1>2 DEF y

(* ... a CANCEL when nothing more can be.                                  *)
LEMMA CancelAnswered ==
    ASSUME NEW x, AtRequest(x), x.host.cmd # "RESULT", NEW id PROVE Replied(C!Cancel(x, id))
<1>0. {"BAD_PAYLOAD", "CANCELED", "OK"} \subseteq C!Errors BY DEF C!Errors
<1> DEFINE a == C!AbortCaptureNow(x, "CANCELED")
           st == IF C!SessionActive(a) THEN a.svc.status ELSE "CANCELED"
           d == [a EXCEPT !.svc.status = st, !.svc.dead = TRUE]
           y == C!Cancel(x, id)
<1>1. y = C!Reply(x, "BAD_PAYLOAD") \/ y = C!Reply(d, "OK")
  <2> HIDE DEF a
  <2>1. d = [a EXCEPT !.svc.status = IF C!SessionActive(a) THEN @ ELSE "CANCELED",
                      !.svc.dead = TRUE]
    OBVIOUS
  <2> HIDE DEF d
  <2> QED BY <2>1 DEF C!Cancel, a
<1>2. /\ Moves(x, a) /\ ~a.svc.valid /\ ~a.svc.pending
      /\ W!SessionActive(a) => a.ses.st = "CANCELING"
  BY <1>0, AbortMoves DEF AtRequest
<1> HIDE DEF a, y
<1>3. Evidence(a) /\ ServiceShape(a) BY <1>2 DEF Moves, Device
<1>4. st \in C!Errors BY <1>0, <1>3 DEF ServiceShape
<1> HIDE DEF st
<1>5. /\ DOMAIN d = DOMAIN a /\ \A f \in DOMAIN a \ {"svc"} : d[f] = a[f]
      /\ d.svc.status = st /\ d.svc.id = a.svc.id /\ d.svc.valid = a.svc.valid
      /\ d.svc.obs = a.svc.obs /\ d.svc.tx = a.svc.tx /\ d.svc.pending = a.svc.pending
      /\ SvcFields \subseteq DOMAIN d.svc
  BY <1>3 DEF ServiceShape, SvcFields
<1> HIDE DEF d
<1>6. OnService(a, d) BY <1>3, <1>4, <1>5 DEF OnService, ServiceShape
<1>7. d.ses = a.ses /\ d.host = a.host BY <1>3, <1>5 DEF Evidence, SessionShape, ServiceShape
<1>8. Served(d) BY <1>2, <1>5, <1>7 DEF Served, W!SessionActive
<1>9. Device(d) BY <1>3, <1>6, <1>8, OnServiceDevice
<1>10. d.host = x.host /\ d.svc.tx = x.svc.tx BY <1>2, <1>5, <1>7 DEF Moves
<1>11. HeardRight(x) BY DEF AtRequest, Waiting, HeardRight
<1>12. PartsRight(d) BY <1>10, <1>11, HeardStays DEF AtRequest
<1>13. Waiting(d) BY <1>10 DEF AtRequest, Waiting
<1>14. Replied(C!Reply(d, "OK")) BY <1>0, <1>9, <1>10, <1>12, <1>13, ReplyRight DEF Replied
<1>15. Replied(C!Reply(x, "BAD_PAYLOAD")) BY <1>0, ReplyRight DEF AtRequest, Replied
<1> QED BY <1>1, <1>14, <1>15 DEF y

(* So of every request.                                                    *)
LEMMA DispatchAnswered ==
    ASSUME NEW x, AtRequest(x), NEW l, l = [cmd |-> x.host.cmd, id |-> x.host.capture],
           NEW y \in C!Dispatch(x, l)
    PROVE  Replied(y)
<1>0. l.cmd = x.host.cmd /\ l.id = x.host.capture /\ x.host.capture \in Nat
  BY DEF AtRequest, Device, ServiceShape
<1>1. CASE l.cmd = "START"
  <2>1. y \in C!Start(x, l.id) BY <1>1 DEF C!Dispatch
  <2> QED BY <1>0, <1>1, <2>1, StartAnswered
<1>2. CASE l.cmd \in {"STATUS", "QUERY"}
  <2>1. y = C!Reply(x, "OK") BY <1>2 DEF C!Dispatch
  <2>2. "OK" \in C!Errors BY DEF C!Errors
  <2> QED BY <1>0, <1>2, <2>1, <2>2, ReplyRight DEF AtRequest, Replied
<1>3. CASE l.cmd = "RESULT"
  <2>1. y = C!Result(x, x.host.capture) BY <1>0, <1>3 DEF C!Dispatch
  <2> QED BY <2>1, ResultAnswered
<1>4. CASE l.cmd \notin {"START", "STATUS", "QUERY", "RESULT"}
  <2>1. y = C!Cancel(x, l.id) BY <1>4 DEF C!Dispatch
  <2> QED BY <1>0, <1>4, <2>1, CancelAnswered
<1> QED BY <1>1, <1>2, <1>3, <1>4
-----------------------------------------------------------------------------
(* The client, when it has heard a reply, or goes on without one.          *)
LEMMA GoesEffect ==
    ASSUME NEW h, HostFields \subseteq DOMAIN h, NEW cmd
    PROVE  LET g == C!Goes(h, cmd)
           IN  /\ HostFields \subseteq DOMAIN g /\ g.st = "SEND" /\ g.cmd = cmd
               /\ g.capture = h.capture /\ g.parts = h.parts /\ g.took = h.took /\ g.last = h.last
BY DEF C!Goes, HostFields

(* It rests.                                                               *)
LEMMA RestsEffect ==
    ASSUME NEW h, HostFields \subseteq DOMAIN h
    PROVE  LET g == C!Rests(h)
           IN  /\ HostFields \subseteq DOMAIN g /\ g.st = "IDLE" /\ g.cmd = h.cmd
               /\ g.capture = h.capture /\ g.parts = <<>> /\ g.took = h.took /\ g.last = h.last
BY DEF C!Rests, HostFields

(* What a client is that is told nothing and has taken nothing.            *)
HostShape(h) ==
    /\ HostFields \subseteq DOMAIN h
    /\ h.last \in Nat /\ h.capture \in Nat /\ h.parts \in Seq(Observed)
Idles(h) ==
    /\ h.cmd \in {"START", "STATUS"} => h.parts = <<>>
    /\ h.cmd = "RESULT" => h.parts = <<>>
    /\ ~h.took
(* After a failure, ...                                                    *)
LEMMA FailureIdles ==
    ASSUME NEW h, HostShape(h), ~h.took PROVE HostShape(C!Failure(h)) /\ Idles(C!Failure(h))
<1> DEFINE cmd == IF h.cmd = "START" THEN "QUERY" ELSE "CANCEL"
           g == C!Goes(h, cmd)
<1>1. C!Failure(h) = g BY DEF C!Failure
<1>2. cmd \in {"QUERY", "CANCEL"} OBVIOUS
<1> HIDE DEF cmd
<1>3. /\ HostFields \subseteq DOMAIN g /\ g.st = "SEND" /\ g.cmd = cmd
      /\ g.capture = h.capture /\ g.parts = h.parts /\ g.took = h.took /\ g.last = h.last
  BY GoesEffect DEF HostShape
<1> HIDE DEF g
<1> QED BY <1>1, <1>2, <1>3 DEF HostShape, Idles

(* ... with another request, ...                                           *)
LEMMA GoesIdles ==
    ASSUME NEW h, HostShape(h), ~h.took, NEW cmd,
           cmd \in {"START", "STATUS", "RESULT"} => h.parts = <<>>
    PROVE  HostShape(C!Goes(h, cmd)) /\ Idles(C!Goes(h, cmd))
<1> DEFINE g == C!Goes(h, cmd)
<1>1. /\ HostFields \subseteq DOMAIN g /\ g.st = "SEND" /\ g.cmd = cmd
      /\ g.capture = h.capture /\ g.parts = h.parts /\ g.took = h.took /\ g.last = h.last
  BY GoesEffect DEF HostShape
<1> HIDE DEF g
<1>2. HostShape(g) /\ Idles(g) BY <1>1 DEF HostShape, Idles
<1> QED BY <1>2 DEF g

(* ... or at rest, it has taken nothing.                                   *)
LEMMA RestsIdles ==
    ASSUME NEW h, HostShape(h), ~h.took PROVE HostShape(C!Rests(h)) /\ Idles(C!Rests(h))
<1> DEFINE g == C!Rests(h)
<1>1. /\ HostFields \subseteq DOMAIN g /\ g.capture = h.capture /\ g.parts = <<>>
      /\ g.took = h.took /\ g.last = h.last
  BY RestsEffect DEF HostShape
<1> HIDE DEF g
<1>2. HostShape(g) /\ Idles(g) BY <1>1, EmptySeq DEF HostShape, Idles
<1> QED BY <1>2 DEF g

(* A reply it waited for.                                                  *)
LEMMA HeardIdles ==
    ASSUME NEW h, HostShape(h), ~h.took, NEW a \in Replies,
           h.cmd \in {"START", "STATUS"} => h.parts = <<>>,
           ~(h.cmd = "RESULT" /\ a.error = "OK")
    PROVE  HostShape(C!Heard(h, a)) /\ Idles(C!Heard(h, a))
<1> DEFINE g == C!Heard(h, a)
           stop == [C!Goes(h, "STOP") EXCEPT !.capture = a.id]
<1>1. \/ g = C!Failure(h) \/ g = C!Rests(h)
      \/ h.cmd = "START" /\ g = C!Goes(h, "STATUS")
      \/ h.cmd = "STATUS" /\ (g = C!Goes(h, "STATUS") \/ g = C!Goes(h, "RESULT"))
      \/ g = C!Goes(h, "QUERY") \/ g = stop
  BY DEF C!Heard, C!HeardStatus
<1>2. HostShape(stop) /\ Idles(stop)
  <2> DEFINE w == C!Goes(h, "STOP")
  <2>1. /\ HostFields \subseteq DOMAIN w /\ w.cmd = "STOP" /\ w.parts = h.parts
        /\ w.took = h.took /\ w.last = h.last
    BY GoesEffect DEF HostShape
  <2>2. a.id \in Nat BY DEF Replies
  <2> HIDE DEF w
  <2>3. stop = [w EXCEPT !.capture = a.id] BY DEF w
  <2>4. /\ HostFields \subseteq DOMAIN stop /\ stop.cmd = "STOP" /\ stop.parts = h.parts
        /\ stop.took = h.took /\ stop.last = h.last /\ stop.capture = a.id
    BY <2>1, <2>3 DEF HostFields
  <2> HIDE DEF stop
  <2> QED BY <2>2, <2>4 DEF HostShape, Idles
<1> HIDE DEF g, stop
<1>3. HostShape(g) /\ Idles(g) BY <1>1, <1>2, FailureIdles, RestsIdles, GoesIdles
<1> QED BY <1>3 DEF g

Unanswered(x) == \A k \in DOMAIN x.svc.tx : ~x.svc.tx[k].own
(* While no reply of its own is underway, the client may change its mind.  *)
LEMMA HostEffect ==
    ASSUME NEW x, Device(x), Unanswered(x), NEW g, HostShape(g)
    PROVE  LET y == [x EXCEPT !.host = g]
           IN  /\ Device(y) /\ y.host = g /\ y.svc = x.svc /\ HeardRight(y)
               /\ y.ses = x.ses /\ y.wf = x.wf /\ y.att = x.att /\ y.lease = x.lease
               /\ y.ext = x.ext
               /\ g.capture = x.host.capture => \A o : Fits(x, o) => Fits(y, o)
               /\ Idles(g) => PartsRight(y)
<1> DEFINE y == [x EXCEPT !.host = g]
<1>0. Evidence(x) /\ ServiceShape(x) /\ Served(x) BY DEF Device
<1>1. DOMAIN y = DOMAIN x /\ y.host = g /\ \A f \in DOMAIN x \ {"host"} : y[f] = x[f]
  BY <1>0 DEF ServiceShape
<1> HIDE DEF y
<1>2. /\ y.ses = x.ses /\ y.wf = x.wf /\ y.att = x.att /\ y.lease = x.lease /\ y.svc = x.svc
      /\ y.ext = x.ext /\ SessionShape(y)
  BY <1>0, <1>1 DEF Evidence, SessionShape, ServiceShape
<1>3. Evidence(y) BY <1>0, <1>2 DEF Evidence
<1>4. ServiceShape(y) BY <1>0, <1>1, <1>2 DEF ServiceShape, HostShape
<1>5. Served(y) BY <1>0, <1>2 DEF Served, W!SessionActive
<1>6. HeardRight(y) BY <1>2 DEF Unanswered, HeardRight
<1>7. C!Busy(y) <=> C!Busy(x) BY <1>2, BusyMeans DEF W!SessionActive
<1>8. g.capture = x.host.capture => \A o : Fits(x, o) => Fits(y, o)
  BY <1>1, <1>2, <1>7 DEF Fits
<1>9. Idles(g) => PartsRight(y) BY <1>1, EmptySeq DEF Idles, PartsRight
<1> QED BY <1>1, <1>2, <1>3, <1>4, <1>5, <1>6, <1>8, <1>9 DEF y, Device

(* One more part of the observation.                                       *)
LEMMA HeardResultRight ==
    ASSUME NEW x, Device(x), Unanswered(x), PartsRight(x), x.host.cmd = "RESULT",
           NEW o \in Observed, Fits(x, o), x.host.parts # <<>> => o = x.host.parts[1],
           NEW g, HostFields \subseteq DOMAIN g, g.cmd = "RESULT",
           g.capture = x.host.capture, g.last = x.host.last,
           g.parts = Append(x.host.parts, o), g.took => g.st = "IDLE"
    PROVE  LET y == [x EXCEPT !.host = g] IN Device(y) /\ HeardRight(y) /\ PartsRight(y)
<1> DEFINE t == x.host.parts
           q == Append(t, o)
           y == [x EXCEPT !.host = g]
<1>1. t \in Seq(Observed) /\ x.host.last \in Nat /\ x.host.capture \in Nat
  BY DEF Device, ServiceShape
<1>2. g.parts = q OBVIOUS
<1> HIDE DEF t
<1>3. /\ q \in Seq(Observed) /\ Len(q) = Len(t) + 1 /\ \A i \in 1 .. Len(t) : q[i] = t[i]
      /\ q[Len(t) + 1] = o
  BY <1>1, AppendProperties
<1>4. /\ Len(t) \in Nat /\ DOMAIN t = 1 .. Len(t) /\ DOMAIN q = 1 .. Len(t) + 1
  BY <1>1, <1>3, LenProperties
<1> HIDE DEF q
<1>5. HostShape(g) BY <1>1, <1>2, <1>3 DEF HostShape
<1>6. /\ Device(y) /\ y.host = g /\ HeardRight(y) /\ \A a : Fits(x, a) => Fits(y, a)
  BY <1>5, HostEffect
<1> HIDE DEF y
<1>7. \A i \in 1 .. Len(t) : Fits(x, t[i]) /\ t[i] = t[1] BY <1>4 DEF PartsRight, t
<1>8. \A k \in 1 .. Len(t) + 1 : q[k] = o
  <2> SUFFICES ASSUME NEW k \in 1 .. Len(t) + 1 PROVE q[k] = o OBVIOUS
  <2>1. CASE k = Len(t) + 1 BY <1>3, <2>1
  <2>2. CASE k # Len(t) + 1
    <3>1. k \in 1 .. Len(t) BY <1>4, <2>2
    <3>2. t # <<>> BY <1>1, <1>4, <3>1, EmptySeq
    <3>3. o = t[1] BY <3>2 DEF t
    <3> QED BY <1>3, <1>7, <3>1, <3>3
  <2> QED BY <2>1, <2>2
<1>9. 1 \in 1 .. Len(t) + 1 BY <1>4
<1>10. PartsRight(y) BY <1>2, <1>4, <1>6, <1>8, <1>9 DEF PartsRight
<1> QED BY <1>6, <1>10 DEF y

(* A reply leaves, is lost, or is heard by the client that waits for it.   *)
LEMMA TransmitRight ==
    ASSUME NEW x, Device(x), HeardRight(x), PartsRight(x), NEW l, LineRight(x, l),
           NEW z \in C!Transmit(x)
    PROVE  Device(z) /\ HeardRight(z) /\ PartsRight(z) /\ LineRight(z, l)
<1> DEFINE t == x.svc.tx
           a == Head(t)
           sent == [x EXCEPT !.svc.tx = Tail(@)]
           h == x.host
           g == C!Heard(h, a)
           y == [sent EXCEPT !.host = g]
<1>0. Evidence(x) /\ ServiceShape(x) /\ Served(x) BY DEF Device
<1>1. CASE z = x BY <1>1
<1>2. CASE z # x
  <2>1. t # <<>> /\ (z = sent \/ (a.own /\ z = [sent EXCEPT !.host = C!Heard(@, a)]))
    BY <1>2 DEF C!Transmit
  <2> DEFINE q == Tail(t)
  <2>2. t \in Seq(Replies) BY <1>0 DEF ServiceShape
  <2>3. /\ DOMAIN sent = DOMAIN x /\ sent.svc.tx = q
        /\ \A f \in DOMAIN x \ {"svc"} : sent[f] = x[f]
        /\ DOMAIN sent.svc = DOMAIN x.svc
        /\ \A f \in DOMAIN x.svc \ {"tx"} : sent.svc[f] = x.svc[f]
    BY <1>0 DEF ServiceShape, SvcFields
  <2>4. sent.host = h BY <1>0, <2>3 DEF ServiceShape
  <2>5. z = sent \/ (a.own /\ z = y) BY <2>1, <2>3, <2>4
  <2>6. a = t[1] BY <2>1, <2>2
  <2> HIDE DEF t, sent, g
  <2>7. /\ q \in Seq(Replies) /\ Len(q) = Len(t) - 1 /\ \A i \in 1 .. Len(q) : q[i] = t[i + 1]
        /\ a \in Replies
    BY <2>1, <2>2, HeadTailProperties
  <2>8. /\ Len(t) \in Nat /\ Len(t) # 0 /\ DOMAIN t = 1 .. Len(t) /\ DOMAIN q = 1 .. Len(q)
    BY <2>1, <2>2, <2>7, LenProperties, EmptySeq
  <2>9. \A k \in DOMAIN q : k + 1 \in DOMAIN t /\ q[k] = t[k + 1] BY <2>7, <2>8
  <2>10. 1 \in DOMAIN t /\ \A k \in DOMAIN q : k \in Nat /\ k # 0 BY <2>7, <2>8
  <2> HIDE DEF q, a
  <2>11. /\ sent.svc.id = x.svc.id /\ sent.svc.valid = x.svc.valid
         /\ sent.svc.pending = x.svc.pending /\ sent.svc.obs = x.svc.obs
         /\ sent.svc.dead = x.svc.dead /\ sent.svc.status = x.svc.status
    BY <1>0, <2>3 DEF ServiceShape, SvcFields
  <2>12. sent.ses = x.ses /\ sent.wf = x.wf BY <1>0, <2>3 DEF Evidence, SessionShape
  <2>13. OnService(x, sent) BY <1>0, <2>3, <2>7, <2>11 DEF OnService, ServiceShape
  <2>14. Served(sent) BY <1>0, <2>11, <2>12 DEF Served, W!SessionActive
  <2>15. Device(sent) BY <1>0, <2>13, <2>14, OnServiceDevice
  <2>16. Stays(x, sent) BY <2>11, <2>12, BusyMeans DEF Stays, W!SessionActive
  <2>17. \A o : Fits(x, o) => Fits(sent, o) BY <2>4, <2>16, FitsStays
  <2>18. PartsRight(sent) BY <2>4, <2>17 DEF PartsRight
  <2>19. HeardRight(sent)
    <3> SUFFICES ASSUME NEW k \in DOMAIN q, q[k].own
                 PROVE  /\ h.st = "WAIT" /\ \A j \in DOMAIN q : q[j].own => j = k
                        /\ h.cmd = "RESULT" /\ q[k].error = "OK" =>
                              /\ Fits(sent, q[k].obs)
                              /\ h.parts # <<>> => q[k].obs = h.parts[1]
      BY <2>3, <2>4 DEF HeardRight
    <3>1. k + 1 \in DOMAIN t /\ q[k] = t[k + 1] BY <2>9
    <3>2. \A j \in DOMAIN q : q[j].own => j + 1 = k + 1 BY <2>9, <3>1 DEF HeardRight, t
    <3>3. \A j \in DOMAIN q : q[j].own => j = k BY <2>10, <3>2
    <3>4. h.st = "WAIT" BY <3>1 DEF HeardRight, t
    <3>5. h.cmd = "RESULT" /\ q[k].error = "OK" =>
             Fits(x, q[k].obs) /\ (h.parts # <<>> => q[k].obs = h.parts[1])
      BY <3>1 DEF HeardRight, t
    <3> QED BY <2>17, <3>3, <3>4, <3>5
  <2>20. LineRight(sent, l)
    <3> SUFFICES ASSUME l # C!NoRequest
                 PROVE  Waiting(sent) /\ l = [cmd |-> h.cmd, id |-> h.capture]
      BY <2>4 DEF LineRight
    <3>1. Waiting(x) /\ l = [cmd |-> h.cmd, id |-> h.capture] BY DEF LineRight
    <3>2. \A k \in DOMAIN q : ~q[k].own BY <2>9, <3>1 DEF Waiting, t
    <3> QED BY <2>3, <2>4, <3>1, <3>2 DEF Waiting
  <2>21. CASE a.own /\ z = y
    <3>1. h.st = "WAIT" /\ \A j \in DOMAIN t : t[j].own => j = 1
      BY <2>6, <2>10, <2>21 DEF HeardRight, t
    <3>2. Unanswered(sent)
      <4> SUFFICES ASSUME NEW k \in DOMAIN q PROVE ~q[k].own BY <2>3 DEF Unanswered
      <4> QED BY <2>9, <2>10, <3>1
    <3>3. l = C!NoRequest BY <2>6, <2>10, <2>21 DEF LineRight, Waiting, t
    <3>4. HostShape(h) /\ ~h.took
      BY <1>0, <3>1 DEF ServiceShape, HostShape, PartsRight
    <3>5. CASE h.cmd = "RESULT" /\ a.error = "OK"
      <4> DEFINE parts == Append(h.parts, a.obs)
                 w == C!Goes(h, "RESULT")
                 g1 == [w EXCEPT !.parts = parts]
                 g2 == [h EXCEPT !.st = "IDLE", !.parts = parts, !.took = TRUE]
      <4>1. g \in {g1, g2} BY <3>5 DEF g, C!Heard, C!HeardResult
      <4>2. /\ HostFields \subseteq DOMAIN w /\ w.st = "SEND" /\ w.cmd = "RESULT"
            /\ w.capture = h.capture /\ w.took = h.took /\ w.last = h.last
        BY <3>4, GoesEffect DEF HostShape
      <4> HIDE DEF w, parts
      <4>3. /\ HostFields \subseteq DOMAIN g1 /\ g1.cmd = "RESULT" /\ g1.capture = h.capture
            /\ g1.last = h.last /\ g1.parts = parts /\ ~g1.took
        BY <3>4, <4>2 DEF HostFields
      <4>4. /\ HostFields \subseteq DOMAIN g2 /\ g2.cmd = "RESULT" /\ g2.capture = h.capture
            /\ g2.last = h.last /\ g2.parts = parts /\ g2.st = "IDLE"
        BY <3>4, <3>5 DEF HostFields, HostShape
      <4> HIDE DEF g1, g2
      <4>5. /\ HostFields \subseteq DOMAIN g /\ g.cmd = "RESULT" /\ g.capture = h.capture
            /\ g.last = h.last /\ g.parts = parts /\ (g.took => g.st = "IDLE")
        BY <4>1, <4>3, <4>4
      <4>6. Fits(x, a.obs) /\ (h.parts # <<>> => a.obs = h.parts[1])
        BY <2>6, <2>10, <2>21, <3>5 DEF HeardRight, t
      <4>7. Fits(sent, a.obs) BY <2>17, <4>6
      <4>8. a.obs \in Observed BY <2>7 DEF Replies
      <4>9. g.parts = Append(sent.host.parts, a.obs) BY <2>4, <4>5 DEF parts
      <4>10. Device(y) /\ HeardRight(y) /\ PartsRight(y)
        BY <2>4, <2>15, <2>18, <3>2, <3>5, <4>5, <4>6, <4>7, <4>8, <4>9, HeardResultRight
      <4> QED BY <2>21, <3>3, <4>10 DEF LineRight
    <3>6. CASE ~(h.cmd = "RESULT" /\ a.error = "OK")
      <4>1. HostShape(g) /\ Idles(g)
        <5>1. h.cmd \in {"START", "STATUS"} => h.parts = <<>> BY DEF PartsRight
        <5> QED BY <2>7, <3>4, <3>6, <5>1, HeardIdles DEF g
      <4>2. Device(y) /\ HeardRight(y) /\ PartsRight(y) BY <2>15, <3>2, <4>1, HostEffect
      <4> QED BY <2>21, <3>3, <4>2 DEF LineRight
    <3> QED BY <3>5, <3>6
  <2> QED BY <2>5, <2>15, <2>18, <2>19, <2>20, <2>21
<1> QED BY <1>1, <1>2
-----------------------------------------------------------------------------
(* The steps.                                                              *)
LEMMA CaptureBecomes ==
    ASSUME NEW z, Device(z), HeardRight(z), PartsRight(z), LineRight(z, line'), C!Becomes(z)
    PROVE  CaptureInv'
<1> DEFINE h == C!Here'
<1>1. /\ h.ses = z.ses /\ h.wf = z.wf /\ h.att = z.att /\ h.lease = z.lease /\ h.svc = z.svc
      /\ h.host = z.host /\ h.ext = z.ext
      /\ DOMAIN h = {"ses", "wf", "att", "lease", "svc", "host", "ext"}
  BY DEF C!Becomes, C!Here
<1> HIDE DEF h
<1>2. SessionShape(h) /\ ServiceShape(h)
  BY <1>1 DEF Device, Evidence, SessionShape, ServiceShape
<1>3. Evidence(h) BY <1>1, <1>2 DEF Device, Evidence
<1>4. Served(h) BY <1>1 DEF Device, Served, W!SessionActive
<1>5. C!Busy(h) <=> C!Busy(z) BY <1>1, BusyMeans DEF W!SessionActive
<1>6. \A o : Fits(h, o) <=> Fits(z, o) BY <1>1, <1>5 DEF Fits
<1>7. HeardRight(h) BY <1>1, <1>6 DEF HeardRight
<1>8. PartsRight(h) BY <1>1, <1>6 DEF PartsRight
<1>9. LineRight(h, line') BY <1>1 DEF LineRight, Waiting
<1>10. Device(h) BY <1>2, <1>3, <1>4 DEF Device
<1> QED BY <1>7, <1>8, <1>9, <1>10 DEF CaptureInv, h

(* A request is received, or an error in its place.                        *)
LEMMA ReceiveRight ==
    ASSUME CaptureInv, C!Receive PROVE CaptureInv'
<1> DEFINE x == C!Here
<1>1. Device(x) /\ HeardRight(x) /\ PartsRight(x) /\ LineRight(x, line) BY DEF CaptureInv
<1>2. line # C!NoRequest /\ line' = C!NoRequest BY DEF C!Receive
<1>3. \/ \E y \in C!Dispatch(x, line) : C!Becomes(y)
      \/ C!Becomes(x)
  BY DEF C!Receive, C!Becomes, C!Here
<1> HIDE DEF x
<1>4. AtRequest(x) /\ line = [cmd |-> x.host.cmd, id |-> x.host.capture]
  BY <1>1, <1>2 DEF LineRight, AtRequest
<1>5. \A y : LineRight(y, line') BY <1>2 DEF LineRight
<1>6. CASE C!Becomes(x) BY <1>1, <1>5, <1>6, CaptureBecomes
<1>7. ASSUME NEW y \in C!Dispatch(x, line), C!Becomes(y) PROVE CaptureInv'
  BY <1>4, <1>5, <1>7, DispatchAnswered, CaptureBecomes DEF Replied
<1> QED BY <1>3, <1>6, <1>7

(* The device makes its step.                                              *)
LEMMA DeviceStepRight ==
    ASSUME CaptureInv, C!DeviceStep PROVE CaptureInv'
<1> DEFINE x == C!Here
<1>1. Device(x) /\ HeardRight(x) /\ PartsRight(x) /\ LineRight(x, line) BY DEF CaptureInv
<1>2. PICK y \in C!Capturing(x) : \E z \in C!Transmit(C!Publish(y)) : C!Becomes(z)
  BY DEF C!DeviceStep
<1>3. PICK z \in C!Transmit(C!Publish(y)) : C!Becomes(z) BY <1>2
<1>4. line' = line BY DEF C!DeviceStep
<1> HIDE DEF x
<1>5. Moves(x, y) BY <1>1, CapturingMoves
<1> DEFINE u == C!Publish(y)
<1>6. Moves(y, u) BY <1>5, PublishMoves DEF Moves
<1> HIDE DEF u
<1>7. Moves(x, u) BY <1>5, <1>6, MovesTwice
<1>8. Device(u) /\ HeardRight(u) /\ PartsRight(u) BY <1>1, <1>7, HeardStays DEF Moves
<1>9. LineRight(u, line) BY <1>1, <1>7 DEF LineRight, Waiting, Moves
<1>10. Device(z) /\ HeardRight(z) /\ PartsRight(z) /\ LineRight(z, line)
  BY <1>3, <1>8, <1>9, TransmitRight DEF u
<1> QED BY <1>3, <1>4, <1>10, CaptureBecomes

(* Only the clock, or what safety says.                                    *)
LEMMA OutsideRight ==
    ASSUME CaptureInv, C!Expire \/ C!Safety \/ UNCHANGED capture PROVE CaptureInv'
<1> DEFINE x == C!Here
           z == [x EXCEPT !.ext = capext']
<1>1. Device(x) /\ HeardRight(x) /\ PartsRight(x) /\ LineRight(x, line) BY DEF CaptureInv
<1>2. /\ line' = line /\ C!Becomes(z) /\ x.ext = capext
      /\ {"safety", "late", "again"} \subseteq DOMAIN capext'
  <2>1. {"safety", "late", "again"} \subseteq DOMAIN capext
    BY DEF CaptureInv, Device, ServiceShape, C!Here
  <2>2. CASE C!Expire BY <2>1, <2>2 DEF C!Expire, C!Becomes, C!Here
  <2>3. CASE C!Safety BY <2>1, <2>3 DEF C!Safety, C!Becomes, C!Here
  <2>4. CASE UNCHANGED capture BY <2>1, <2>4 DEF capture, C!Becomes, C!Here
  <2> QED BY <2>2, <2>3, <2>4
<1>3. DOMAIN z = DOMAIN x /\ \A f \in DOMAIN x \ {"ext"} : z[f] = x[f] /\ z.ext = capext'
  BY <1>1 DEF Device, ServiceShape
<1> HIDE DEF x, z
<1>4. /\ z.ses = x.ses /\ z.wf = x.wf /\ z.att = x.att /\ z.lease = x.lease /\ z.svc = x.svc
      /\ z.host = x.host /\ z.ext = capext'
  BY <1>1, <1>3 DEF Device, Evidence, SessionShape, ServiceShape
<1>5. SessionShape(z) /\ ServiceShape(z)
  BY <1>1, <1>2, <1>3, <1>4 DEF Device, Evidence, SessionShape, ServiceShape
<1>6. Evidence(z) BY <1>1, <1>4, <1>5 DEF Device, Evidence
<1>7. Served(z) BY <1>1, <1>4 DEF Device, Served, W!SessionActive
<1>8. Stays(x, z) BY <1>4, BusyMeans DEF Stays, W!SessionActive
<1>9. HeardRight(z) /\ PartsRight(z) BY <1>1, <1>4, <1>8, HeardStays
<1>10. LineRight(z, line) BY <1>1, <1>4 DEF LineRight, Waiting
<1> QED BY <1>2, <1>5, <1>6, <1>7, <1>9, <1>10, CaptureBecomes DEF Device

(* What comes too late is not heard.                                       *)
LEMMA DisownEffect ==
    ASSUME NEW x, Device(x), PartsRight(x)
    PROVE  LET s == [x.svc EXCEPT !.tx = C!Disown(x.svc.tx)]
               y == [x EXCEPT !.svc = s]
           IN  /\ Device(y) /\ PartsRight(y) /\ Unanswered(y) /\ y.host = x.host /\ y.svc = s
               /\ y.ses = x.ses /\ y.wf = x.wf /\ y.att = x.att /\ y.lease = x.lease
               /\ y.ext = x.ext
<1> DEFINE t == x.svc.tx
           q == C!Disown(t)
           s == [x.svc EXCEPT !.tx = q]
           y == [x EXCEPT !.svc = s]
<1>0. Evidence(x) /\ ServiceShape(x) /\ Served(x) BY DEF Device
<1>1. t \in Seq(Replies) BY <1>0 DEF ServiceShape
<1>2. C!Stale \in Replies /\ ~C!Stale.own
  BY DEF C!Stale, Replies, C!Errors, C!NoObservation, Observed
<1> HIDE DEF t
<1>3. Len(t) \in Nat /\ DOMAIN t = 1 .. Len(t) BY <1>1, LenProperties
<1>4. q \in Seq(Replies) /\ \A k \in DOMAIN q : ~q[k].own
  <2>1. q = [k \in 1 .. Len(t) |-> C!Stale] BY <1>3 DEF C!Disown
  <2>2. q \in [1 .. Len(t) -> Replies] BY <1>2, <2>1
  <2>3. q \in Seq(Replies) BY <1>3, <2>2
  <2> QED BY <1>2, <2>1, <2>3
<1> HIDE DEF q
<1>5. /\ SvcFields \subseteq DOMAIN s /\ s.tx = q /\ s.id = x.svc.id /\ s.valid = x.svc.valid
      /\ s.pending = x.svc.pending /\ s.obs = x.svc.obs /\ s.dead = x.svc.dead
      /\ s.status = x.svc.status
  BY <1>0 DEF ServiceShape, SvcFields
<1> HIDE DEF s
<1>6. DOMAIN y = DOMAIN x /\ y.svc = s /\ \A f \in DOMAIN x \ {"svc"} : y[f] = x[f]
  BY <1>0 DEF ServiceShape
<1> HIDE DEF y
<1>7. /\ y.ses = x.ses /\ y.wf = x.wf /\ y.att = x.att /\ y.lease = x.lease
      /\ y.host = x.host /\ y.ext = x.ext
  BY <1>0, <1>6 DEF Evidence, SessionShape, ServiceShape
<1>8. OnService(x, y) BY <1>0, <1>4, <1>5, <1>6 DEF OnService, ServiceShape
<1>9. Served(y) BY <1>0, <1>5, <1>6, <1>7 DEF Served, W!SessionActive
<1>10. Device(y) BY <1>0, <1>8, <1>9, OnServiceDevice
<1>11. Stays(x, y) BY <1>5, <1>6, <1>7, BusyMeans DEF Stays, W!SessionActive
<1>12. PartsRight(y) BY <1>7, <1>11, FitsStays DEF PartsRight
<1>13. Unanswered(y) BY <1>4, <1>5, <1>6 DEF Unanswered
<1> QED BY <1>6, <1>7, <1>10, <1>12, <1>13 DEF y, s, q, t

(* A request is asked for, given up.                                       *)
LEMMA HostMoves ==
    ASSUME CaptureInv, line = C!NoRequest, Unanswered(C!Here), HostShape(host'),
           Idles(host'),
           UNCHANGED <<svc, line, capses, capwf, capext, capatt, caplease>>
    PROVE  CaptureInv'
<1> DEFINE x == C!Here
           g == host'
           z == [x EXCEPT !.host = g]
<1>1. Device(x) /\ x.ses = capses /\ x.wf = capwf /\ x.att = capatt /\ x.lease = caplease
      /\ x.svc = svc /\ x.ext = capext
  BY DEF CaptureInv, C!Here
<1> HIDE DEF x, g
<1>2. HostShape(g) /\ Idles(g) /\ Unanswered(x) BY DEF x, g
<1>3. /\ Device(z) /\ z.host = g /\ z.svc = x.svc /\ HeardRight(z) /\ PartsRight(z)
      /\ z.ses = x.ses /\ z.wf = x.wf /\ z.att = x.att /\ z.lease = x.lease /\ z.ext = x.ext
  BY <1>1, <1>2, HostEffect
<1> HIDE DEF z
<1>4. C!Becomes(z) BY <1>1, <1>3 DEF C!Becomes, g
<1>5. LineRight(z, line') BY DEF LineRight
<1> QED BY <1>3, <1>4, <1>5, CaptureBecomes

(* What the client is between two requests.                                *)
LEMMA HostIs ==
    ASSUME CaptureInv
    PROVE  /\ HostShape(host)
           /\ host.took => host.cmd = "RESULT" /\ host.st = "IDLE"
           /\ host.cmd \in {"START", "STATUS"} => host.parts = <<>>
           /\ host.st # "WAIT" => Unanswered(C!Here) /\ line = C!NoRequest
BY DEF CaptureInv, Device, ServiceShape, HostShape, PartsRight, HeardRight, LineRight, Waiting,
       Unanswered, C!Here

(* A new capture begins with no part of another one; ...                   *)
LEMMA AskRight ==
    ASSUME CaptureInv, C!Ask PROVE CaptureInv'
<1> DEFINE h == host
           g == [h EXCEPT !.st = "SEND", !.cmd = "START", !.last = @ + 1, !.capture = h.last + 1,
                          !.parts = <<>>, !.took = FALSE]
<1>1. HostShape(h) /\ Unanswered(C!Here) /\ line = C!NoRequest BY HostIs DEF C!Ask
<1>2. host' = g /\ UNCHANGED <<svc, line, capses, capwf, capext, capatt, caplease>>
  BY DEF C!Ask, C!Device
<1> HIDE DEF h
<1>3. /\ HostFields \subseteq DOMAIN g /\ g.last = h.last + 1 /\ g.capture = h.last + 1
      /\ g.parts = <<>> /\ ~g.took
  BY <1>1 DEF HostShape, HostFields
<1> HIDE DEF g
<1>4. HostShape(g) /\ Idles(g) BY <1>1, <1>3, EmptySeq DEF HostShape, Idles
<1>5. HostShape(host') /\ Idles(host') BY <1>2, <1>4
<1> QED BY <1>1, <1>2, <1>5, HostMoves

(* ... one that is given up leaves none.                                   *)
LEMMA GiveUpRight ==
    ASSUME CaptureInv, C!GiveUp PROVE CaptureInv'
<1>1. /\ HostShape(host) /\ ~host.took /\ Unanswered(C!Here) /\ line = C!NoRequest
  BY HostIs DEF C!GiveUp
<1>2. /\ host' = C!Failure(host) \/ host' = C!Rests(host)
      /\ UNCHANGED <<svc, line, capses, capwf, capext, capatt, caplease>>
  BY DEF C!GiveUp, C!Device
<1>3. HostShape(host') /\ Idles(host') BY <1>1, <1>2, FailureIdles, RestsIdles
<1> QED BY <1>1, <1>2, <1>3, HostMoves

(* A request is sent, or its reply is not waited for any longer.           *)
LEMMA DisownMoves ==
    ASSUME CaptureInv, HostShape(host'),
           svc' = [svc EXCEPT !.tx = C!Disown(@)],
           UNCHANGED <<capses, capwf, capext, capatt, caplease>>,
           Idles(host') \/ (/\ host'.cmd = host.cmd /\ host'.capture = host.capture
                            /\ host'.parts = host.parts /\ ~host'.took),
           line' = C!NoRequest
              \/ (host'.st = "WAIT" /\ line' = [cmd |-> host'.cmd, id |-> host'.capture])
    PROVE  CaptureInv'
<1> DEFINE x == C!Here
           g == host'
           s == [x.svc EXCEPT !.tx = C!Disown(x.svc.tx)]
           y == [x EXCEPT !.svc = s]
           z == [y EXCEPT !.host = g]
<1>1. /\ Device(x) /\ PartsRight(x) /\ x.ses = capses /\ x.wf = capwf /\ x.att = capatt
      /\ x.lease = caplease /\ x.svc = svc /\ x.ext = capext /\ x.host = host
  BY DEF CaptureInv, C!Here
<1>2. svc' = s BY <1>1
<1> HIDE DEF x, g
<1>3. /\ Device(y) /\ PartsRight(y) /\ Unanswered(y) /\ y.host = x.host /\ y.svc = s
      /\ y.ses = x.ses /\ y.wf = x.wf /\ y.att = x.att /\ y.lease = x.lease /\ y.ext = x.ext
  BY <1>1, DisownEffect
<1> HIDE DEF s, y
<1>4. HostShape(g) BY DEF g
<1>5. /\ Device(z) /\ z.host = g /\ z.svc = y.svc /\ HeardRight(z)
      /\ z.ses = y.ses /\ z.wf = y.wf /\ z.att = y.att /\ z.lease = y.lease /\ z.ext = y.ext
      /\ g.capture = y.host.capture => \A o : Fits(y, o) => Fits(z, o)
      /\ Idles(g) => PartsRight(z)
  BY <1>3, <1>4, HostEffect
<1> HIDE DEF z
<1>6. C!Becomes(z) BY <1>1, <1>2, <1>3, <1>5 DEF C!Becomes, g
<1>7. PartsRight(z)
  <2>1. CASE Idles(g) BY <1>5, <2>1
  <2>2. CASE ~Idles(g)
    <3>1. /\ g.cmd = y.host.cmd /\ g.capture = y.host.capture /\ g.parts = y.host.parts /\ ~g.took
      BY <1>1, <1>3, <2>2 DEF g
    <3> QED BY <1>3, <1>5, <3>1 DEF PartsRight
  <2> QED BY <2>1, <2>2
<1>8. Unanswered(z) BY <1>3, <1>5 DEF Unanswered
<1>9. LineRight(z, line')
  <2>1. \/ line' = C!NoRequest
        \/ g.st = "WAIT" /\ line' = [cmd |-> g.cmd, id |-> g.capture]
    BY DEF g
  <2> QED BY <1>5, <1>8, <2>1 DEF LineRight, Waiting, Unanswered
<1> QED BY <1>5, <1>6, <1>7, <1>9, CaptureBecomes

(* It is sent; ...                                                         *)
LEMMA SendRight ==
    ASSUME CaptureInv, C!Send PROVE CaptureInv'
<1> DEFINE h == host
           g == [h EXCEPT !.st = "WAIT"]
<1>1. HostShape(h) /\ ~h.took BY HostIs DEF C!Send
<1>2. /\ host' = g /\ line' = [cmd |-> h.cmd, id |-> h.capture]
      /\ svc' = [svc EXCEPT !.tx = C!Disown(@)]
      /\ UNCHANGED <<capses, capwf, capext, capatt, caplease>>
  BY DEF C!Send
<1>3. /\ HostFields \subseteq DOMAIN g /\ g.st = "WAIT" /\ g.cmd = h.cmd
      /\ g.capture = h.capture /\ g.parts = h.parts /\ ~g.took /\ g.last = h.last
  BY <1>1 DEF HostShape, HostFields
<1> HIDE DEF g
<1>4. HostShape(g) BY <1>1, <1>3 DEF HostShape
<1>5. HostShape(host') BY <1>2, <1>4
<1>6. /\ host'.cmd = host.cmd /\ host'.capture = host.capture
      /\ host'.parts = host.parts /\ ~host'.took
  BY <1>2, <1>3
<1>7. host'.st = "WAIT" /\ line' = [cmd |-> host'.cmd, id |-> host'.capture] BY <1>2, <1>3
<1> QED BY <1>2, <1>5, <1>6, <1>7, DisownMoves

(* ... no reply comes in time.                                             *)
LEMMA TimeOutRight ==
    ASSUME CaptureInv, C!TimeOut PROVE CaptureInv'
<1>1. HostShape(host) /\ ~host.took BY HostIs DEF C!TimeOut
<1>2. /\ line' = C!NoRequest /\ svc' = [svc EXCEPT !.tx = C!Disown(@)]
      /\ UNCHANGED <<capses, capwf, capext, capatt, caplease>>
      /\ host' = C!Failure(host) \/ host' = C!Goes(host, "QUERY") \/ host' = C!Rests(host)
  BY DEF C!TimeOut
<1>3. HostShape(host') /\ Idles(host') BY <1>1, <1>2, FailureIdles, RestsIdles, GoesIdles
<1> QED BY <1>2, <1>3, DisownMoves

(* So of every step of the captures.                                       *)
LEMMA CaptureNextRight ==
    ASSUME CaptureInv, [C!Next]_capture PROVE CaptureInv'
BY ReceiveRight, DeviceStepRight, OutsideRight, AskRight, SendRight, TimeOutRight,
   GiveUpRight DEF C!Next

(* The captures start so.                                                  *)
LEMMA CaptureInitRight == C!Init => CaptureInv
<1> SUFFICES ASSUME C!Init PROVE CaptureInv OBVIOUS
<1> DEFINE x == C!Here
<1>1. /\ x.ses = C!NoSession /\ x.wf = C!NoWorkflow /\ x.att = C!Untouched /\ x.lease = "FREE"
      /\ x.svc = [id |-> 0, status |-> "NOT_READY", valid |-> FALSE, obs |-> C!NoObservation,
                  cancel |-> FALSE, pending |-> FALSE, mean |-> 0, tx |-> <<>>, dead |-> FALSE]
      /\ x.host = [st |-> "IDLE", cmd |-> "START", last |-> 0, capture |-> 0, parts |-> <<>>,
                   took |-> FALSE]
      /\ x.ext = [safety |-> "CLEAR", late |-> FALSE, again |-> FALSE]
      /\ DOMAIN x = {"ses", "wf", "att", "lease", "svc", "host", "ext"}
      /\ line = C!NoRequest
  BY DEF C!Init, C!Here
<1> HIDE DEF x
<1>2. Evidence(x)
  <2>1. x.att = L!Untouched BY <1>1, SessionsAgree, AttemptsAgree
  <2>2. Sound(x.att) BY <2>1 DEF Sound, L!Attempts, L!Untouched, L!AttemptActive
  <2>3. SessionShape(x)
    BY <1>1 DEF SessionShape, SesFields, WfFields, C!NoSession, C!NoWorkflow
  <2>4. /\ x.ses.event = "NONE" /\ x.ses.got = 0 /\ x.ses.st = "IDLE"
        /\ x.wf.accepted = 0 /\ x.wf.taken = 0 /\ x.wf.st = "IDLE"
    BY <1>1 DEF C!NoSession, C!NoWorkflow
  <2> QED BY <2>2, <2>3, <2>4 DEF Evidence
<1>3. ServiceShape(x)
  BY <1>1, EmptySeq DEF ServiceShape, SvcFields, HostFields, C!Errors, Observed, C!NoObservation
<1>4. Served(x)
  BY <1>1 DEF Served, W!SessionActive, C!NoSession
<1>5. HeardRight(x) /\ PartsRight(x) /\ LineRight(x, line)
  BY <1>1 DEF HeardRight, PartsRight, LineRight
<1> QED BY <1>2, <1>3, <1>4, <1>5 DEF CaptureInv, Device, x

(* Which is what is promised of the captures.                              *)
LEMMA CaptureInvHonest == CaptureInv => C!TakenIsEarned /\ C!DeadStaysDead
<1> SUFFICES ASSUME CaptureInv PROVE C!TakenIsEarned /\ C!DeadStaysDead OBVIOUS
<1>1. host.took => \A k \in DOMAIN host.parts :
          /\ host.parts[k] = host.parts[1] /\ host.parts[k].id = host.capture
          /\ host.parts[k].taken >= Required /\ host.parts[k].calm
  BY DEF CaptureInv, PartsRight, Fits, C!Here
<1>2. svc.valid => svc.obs.id = svc.id /\ ~svc.dead
  BY DEF CaptureInv, Device, Served, C!Here
<1> QED BY <1>1, <1>2 DEF C!TakenIsEarned, C!DeadStaysDead
-----------------------------------------------------------------------------
(***************************************************************************)
(* The pages together.  Each step is one of one of them, and a stutter of  *)
(* the others.                                                             *)
(***************************************************************************)
PagesInv == ProductInv /\ LeadInv /\ WizardInv /\ CaptureInv

(* What each starts with.                                                  *)
LEMMA PagesInitially == PagesInit => PagesInv
BY ProductInitially, LeadInitRight, WizardInitRight, CaptureInitRight DEF PagesInit, PagesInv

(* What a step of one of them keeps.                                       *)
LEMMA PagesKept ==
    PagesInv /\ [PagesNext]_<<which, vars, leads, wizard, capture>> => PagesInv'
<1> SUFFICES ASSUME PagesInv, [PagesNext]_<<which, vars, leads, wizard, capture>>
             PROVE  PagesInv'
  OBVIOUS
<1>1. [Next]_vars /\ [L!Next]_leads /\ [W!Next]_wizard /\ [C!Next]_capture
  BY DEF PagesNext, OfProduct, OfLeads, OfWizard, OfCapture
<1>2. ProductInv' BY <1>1, ProductKept DEF PagesInv
<1>3. LeadInv' BY <1>1, LeadNextRight DEF PagesInv
<1>4. WizardInv' BY <1>1, WizardNextRight DEF PagesInv
<1>5. CaptureInv' BY <1>1, CaptureNextRight DEF PagesInv
<1> QED BY <1>2, <1>3, <1>4, <1>5 DEF PagesInv

(* In every reachable state of the pages: the product's record is whole,   *)
(* every profile, record and observation rests on the captures that were   *)
(* accepted for it, and a session that was aborted sees to its end only.   *)
THEOREM PagesInvariant == PagesSpec => []PagesInv
<1>1. QED BY PagesInitially, PagesKept, PTL DEF PagesSpec

(* What is offered to be kept was earned: a profile for review has every   *)
(* frequency measured in full, open and shorted; a calibration that is     *)
(* committed has a record for every condition, from all its captures; the  *)
(* observation a client took is that of the capture it asked for, whole,   *)
(* published at rest - whatever was canceled, refused, lost or repeated.   *)
THEOREM PagesKeepTheEarned == PagesSpec => []KeptIsEarned
<1>1. PagesInv => KeptIsEarned
  BY LeadInvHonest, WizardInvHonest, CaptureInvHonest DEF PagesInv, KeptIsEarned
<1>2. QED BY <1>1, PagesInvariant, PTL

(* What is over is over: leads, or a wizard, that ended leave nothing      *)
(* running and no candidate; a capture that was canceled, timed out or was *)
(* blocked is never published.                                             *)
THEOREM PagesLeaveNothing == PagesSpec => []OverIsOver
<1>1. PagesInv => OverIsOver
  BY LeadInvHonest, WizardInvHonest, CaptureInvHonest DEF PagesInv, OverIsOver
<1>2. QED BY <1>1, PagesInvariant, PTL
=============================================================================
