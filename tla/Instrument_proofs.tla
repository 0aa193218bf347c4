-------------------------- MODULE Instrument_proofs --------------------------
(***************************************************************************)
(* What a measurement is made with, for every value of the constants: the  *)
(* range driver and the clock it waits by, the sampler of the auxiliary    *)
(* sensors, the session that surveys the conditions.  Each part has an     *)
(* inductive invariant of its own, which no step of another part touches.  *)
(***************************************************************************)
EXTENDS MCInstrument, HwRangeOps_proofs, WellFoundedInduction

(***************************************************************************)
(* The range driver, for every clock width, every dead and settle time,    *)
(* and every pattern of failing GPIO writes: a range reported ready is     *)
(* really selected and settled, and the multiplexer is never switched live.*)
(* First the clock it counts its waits with: the wrap-around comparison    *)
(* measures elapsed time exactly, for every even modulus.                  *)
(***************************************************************************)

(* A deadline is a clock value. *)
LEMMA AfterType ==
    ASSUME NEW at \in Clock, NEW ms \in Clock
    PROVE  After(at, ms) \in Clock
BY HalfTurnAssumption DEF Clock, ClockModulus, After

(* The time to go until a deadline just set is the delay asked for. *)
LEMMA ToGoWhenSet ==
    ASSUME NEW at \in Clock, NEW ms \in Clock
    PROVE  Since(After(at, ms), at) = ms
BY HalfTurnAssumption DEF Clock, ClockModulus, After, Since

(* One millisecond takes one from the time to go, wrap or not. *)
LEMMA ToGoAfterTick ==
    ASSUME NEW at \in Clock, NEW due \in Clock, Since(due, at) > 0
    PROVE  Since(due, After(at, 1)) = Since(due, at) - 1
BY HalfTurnAssumption DEF Clock, ClockModulus, After, Since

(* A deadline with time to go, at most half a turn of it, is not reached. *)
LEMMA NotReachedEarly ==
    ASSUME NEW at \in Clock, NEW due \in Clock,
           Since(due, at) \in 1 .. HalfTurn
    PROVE  ~DeadlineReached(at, due)
BY HalfTurnAssumption DEF Clock, ClockModulus, Since, DeadlineReached

(* deadline_reached() is exact: for a delay of at most half a turn, and an *)
(* elapsed time that does not run half a turn past it, the comparison says *)
(* "reached" exactly when the delay has passed, wherever the clock wraps.  *)
THEOREM DeadlineExact ==
    ASSUME NEW at \in Clock, NEW ms \in 0 .. HalfTurn,
           NEW elapsed \in Clock, elapsed < ms + HalfTurn
    PROVE  DeadlineReached(After(at, elapsed), After(at, ms)) <=> elapsed >= ms
BY HalfTurnAssumption DEF Clock, ClockModulus, After, Since, DeadlineReached
-----------------------------------------------------------------------------
(* Outside INVALID the driver believes the truth of the enable line; of    *)
(* the address lines it knows it from a request to the next failure only.  *)
BeliefIsTruth ==
    /\ rg.fsm # "INVALID" => rg.enabled = rg.line
    /\ rg.fsm \in {"DEAD_TIME", "SETTLING", "READY"} => rg.pins = rg.address

(* What each state of the driver says of the lines. *)
LinesOfState ==
    /\ rg.fsm \in {"DISABLED", "DEAD_TIME"} => ~rg.line
    /\ rg.fsm \in {"SETTLING", "READY"} => rg.line
    /\ rg.fsm \in {"DEAD_TIME", "SETTLING", "READY"} =>
          rg.requested \in RangeIds /\ rg.address = AddressOf[rg.requested]
    /\ rg.fsm = "READY" => rg.current = rg.requested /\ lineAge = SettleTime

(* A wait still too young has at least its missing time to go. *)
TimeToGo ==
    /\ rg.fsm = "DEAD_TIME" /\ pinsAge < DeadTime =>
          Since(deadline, now) \in (DeadTime - pinsAge) .. DeadTime
    /\ rg.fsm = "SETTLING" /\ lineAge < SettleTime =>
          Since(deadline, now) \in (SettleTime - lineAge) .. SettleTime

IInv == TypeOK /\ BeliefIsTruth /\ LinesOfState /\ TimeToGo

LEMMA ConstantsInClock ==
    DeadTime \in Clock /\ SettleTime \in Clock /\ 0 \in Clock
BY RangeConstantsAssumption, HalfTurnAssumption DEF Clock, ClockModulus

LEMMA InitIInv == Init => IInv
<1> SUFFICES ASSUME Init PROVE IInv OBVIOUS
<1>1. PICK e, a \in Outcomes : rg = RangeBoot(e, a) BY DEF Init
<1>2. rg \in RangeRecord /\ rg.fsm \in {"DISABLED", "INVALID"}
      /\ ~rg.line /\ ~rg.enabled
  BY <1>1, BootPost
<1> QED
  BY <1>2, ConstantsInClock, RangeConstantsAssumption
  DEF RangeRecord, Init, IInv, TypeOK, BeliefIsTruth, LinesOfState, TimeToGo

LEMMA ObserveType ==
    ASSUME TypeOK, NEW r \in RangeRecord, Observe(r)
    PROVE  /\ rg' \in RangeRecord
           /\ pinsAge' \in 0 .. DeadTime /\ lineAge' \in 0 .. SettleTime
BY RangeConstantsAssumption DEF TypeOK, Observe

LEMMA NextIInv == IInv /\ [Next]_vars => IInv'
<1> SUFFICES ASSUME IInv, [Next]_vars PROVE IInv' OBVIOUS
<1> USE RangeConstantsAssumption, ConstantsInClock
<1>1. CASE Step
  <2>1. PICK e \in Outcomes :
          Observe(IF DeadlineReached(now, deadline) THEN RangeElapsed(rg, e) ELSE rg)
    BY <1>1 DEF Step
  <2>2. rg \in RangeRecord /\ now \in Clock /\ deadline \in Clock
    BY DEF IInv, TypeOK
  <2>3. CASE ~DeadlineReached(now, deadline)
    <3>1. rg' = rg /\ UNCHANGED <<deadline, now, pinsAge>> /\ lag' = 0
          /\ (rg.line => lineAge' = lineAge) /\ lineAge' \in 0 .. SettleTime
      BY <1>1, <2>1, <2>3 DEF Step, Observe, IInv, TypeOK
    <3>2. TimeToGo' BY <3>1 DEF TimeToGo, IInv, LinesOfState
    <3> QED BY <3>1, <3>2 DEF IInv, TypeOK, BeliefIsTruth, LinesOfState
  <2>4. CASE DeadlineReached(now, deadline)
    <3> DEFINE q == RangeElapsed(rg, e)
    <3>1. Observe(q) BY <2>1, <2>4
    <3>2. /\ q \in RangeRecord
          /\ q.pins = rg.pins /\ q.address = rg.address
          /\ q.requested = rg.requested
          /\ rg.fsm = "DEAD_TIME" =>
               /\ q.fsm \in {"SETTLING", "INVALID"}
               /\ q.fsm = "SETTLING" => q.line /\ q.enabled
          /\ rg.fsm = "SETTLING" =>
               /\ q.fsm = "READY" /\ q.current = rg.requested
               /\ q.line = rg.line /\ q.enabled = rg.enabled
          /\ rg.fsm \notin {"DEAD_TIME", "SETTLING"} => q = rg
      BY <2>2, ElapsedPost
    <3> HIDE DEF q
    <3>3. pinsAge' \in 0 .. DeadTime /\ lineAge' \in 0 .. SettleTime /\ rg' = q
      BY <3>1, <3>2, ObserveType DEF IInv, Observe
    <3>4. lag' = 0 /\ now' = now
          /\ deadline' = (IF rg.fsm = "DEAD_TIME" /\ q.fsm = "SETTLING"
                          THEN After(now, SettleTime) ELSE deadline)
      BY <1>1, <3>3 DEF Step
    <3>5. deadline' \in Clock BY <2>2, <3>4, AfterType
    <3>6. TypeOK' BY <3>2, <3>3, <3>4, <3>5 DEF TypeOK, IInv
    <3>7. CASE rg.fsm = "DEAD_TIME"
      <4>1. q.fsm = "SETTLING" => lineAge' = 0
        BY <3>1, <3>7 DEF Observe, IInv, LinesOfState
      <4>2. q.fsm = "SETTLING" => Since(deadline', now') = SettleTime
        BY <2>2, <3>4, <3>7, ToGoWhenSet
      <4> QED BY <3>2, <3>3, <3>6, <3>7, <4>1, <4>2
              DEF IInv, BeliefIsTruth, LinesOfState, TimeToGo, RangeRecord
    <3>8. CASE rg.fsm = "SETTLING"
      <4>1. lineAge = SettleTime
        <5> SUFFICES ASSUME lineAge < SettleTime PROVE FALSE
          BY DEF IInv, TypeOK
        <5>1. Since(deadline, now) \in (SettleTime - lineAge) .. SettleTime
          BY <3>8 DEF IInv, TimeToGo
        <5>2. Since(deadline, now) \in 1 .. HalfTurn
          BY <5>1, HalfTurnAssumption DEF IInv, TypeOK
        <5> QED BY <2>2, <2>4, <5>2, NotReachedEarly
      <4>2. lineAge' = SettleTime
        BY <3>1, <3>2, <3>8, <4>1 DEF Observe, IInv, LinesOfState
      <4> QED BY <3>2, <3>3, <3>6, <3>8, <4>2
              DEF IInv, BeliefIsTruth, LinesOfState, TimeToGo, RangeRecord
    <3>9. CASE rg.fsm \notin {"DEAD_TIME", "SETTLING"}
      <4>1. rg' = rg BY <3>2, <3>3, <3>9
      <4>2. rg.line => lineAge' = lineAge BY <3>1, <3>2, <3>9 DEF Observe
      <4> QED BY <3>6, <3>9, <4>1, <4>2
              DEF IInv, BeliefIsTruth, LinesOfState, TimeToGo, RangeRecord
    <3> QED BY <3>7, <3>8, <3>9
  <2> QED BY <2>3, <2>4
<1>2. CASE Tick
  <2>1. /\ UNCHANGED <<rg, deadline>>
        /\ now' = After(now, 1)
        /\ lag' \in 0 .. LoopMax
        /\ pinsAge' = Saturated(pinsAge, DeadTime)
        /\ lineAge' = IF rg.line THEN Saturated(lineAge, SettleTime) ELSE 0
    BY <1>2 DEF Tick, IInv, TypeOK
  <2>2. now \in Clock /\ deadline \in Clock /\ 1 \in Clock
    BY HalfTurnAssumption DEF IInv, TypeOK, Clock, ClockModulus
  <2>3. now' \in Clock BY <2>1, <2>2, AfterType
  <2>4. TypeOK' BY <2>1, <2>2, <2>3 DEF TypeOK, IInv, Saturated
  <2>5. BeliefIsTruth' /\ LinesOfState'
    BY <2>1 DEF IInv, TypeOK, BeliefIsTruth, LinesOfState, Saturated
  <2>6. Since(deadline, now) > 0 =>
          Since(deadline, now') = Since(deadline, now) - 1
    BY <2>1, <2>2, ToGoAfterTick
  <2>7. ASSUME rg.fsm = "DEAD_TIME", pinsAge' < DeadTime
        PROVE  Since(deadline, now') \in (DeadTime - pinsAge') .. DeadTime
    <3>1. pinsAge \in 0 .. DeadTime /\ pinsAge < DeadTime /\ pinsAge' = pinsAge + 1
      BY <2>1, <2>7 DEF IInv, TypeOK, Saturated
    <3>2. Since(deadline, now) \in (DeadTime - pinsAge) .. DeadTime
      BY <2>7, <3>1 DEF IInv, TimeToGo
    <3> HIDE DEF Since
    <3> QED BY <2>6, <3>1, <3>2
  <2>8. ASSUME rg.fsm = "SETTLING", lineAge' < SettleTime
        PROVE  Since(deadline, now') \in (SettleTime - lineAge') .. SettleTime
    <3>a. lineAge \in 0 .. SettleTime BY DEF IInv, TypeOK
    <3>b. rg.line BY <2>8 DEF IInv, LinesOfState
    <3>c. lineAge' = IF lineAge < SettleTime THEN lineAge + 1 ELSE SettleTime
      BY <2>1, <3>b DEF Saturated
    <3>1. lineAge < SettleTime /\ lineAge' = lineAge + 1
      BY <2>8, <3>a, <3>c, RangeConstantsAssumption
    <3>2. Since(deadline, now) \in (SettleTime - lineAge) .. SettleTime
      BY <2>8, <3>1 DEF IInv, TimeToGo
    <3> HIDE DEF Since
    <3> QED BY <2>6, <3>a, <3>1, <3>2
  <2>9. TimeToGo' BY <2>1, <2>7, <2>8 DEF TimeToGo
  <2> QED BY <2>4, <2>5, <2>9 DEF IInv
<1>3. CASE ForceDisabled
  <2>1. PICK e \in Outcomes : Observe(RangeForceDisabled(rg, e))
    BY <1>3 DEF ForceDisabled
  <2> DEFINE q == RangeForceDisabled(rg, e)
  <2>2. /\ q \in RangeRecord
        /\ q.fsm \in {"DISABLED", "INVALID"}
        /\ q.fsm = "DISABLED" => ~q.line /\ ~q.enabled
        /\ q.pins = rg.pins /\ q.address = rg.address
    BY DisablePost DEF IInv, TypeOK
  <2> HIDE DEF q
  <2>3. rg' = q /\ pinsAge' \in 0 .. DeadTime /\ lineAge' \in 0 .. SettleTime
    BY <2>1, <2>2, ObserveType DEF IInv, Observe, q
  <2>4. TypeOK' BY <1>3, <2>2, <2>3 DEF TypeOK, IInv, ForceDisabled
  <2>5. BeliefIsTruth' BY <2>2, <2>3 DEF BeliefIsTruth, RangeRecord
  <2> QED BY <2>2, <2>3, <2>4, <2>5 DEF IInv, LinesOfState, TimeToGo
<1>4. ASSUME NEW id \in Requests, Request(id) PROVE IInv'
  <2>1. PICK e, a \in Outcomes : Observe(RangeRequest(rg, id, e, a))
    BY <1>4 DEF Request
  <2> DEFINE q == RangeRequest(rg, id, e, a)
  <2>2. /\ q \in RangeRecord
        /\ q.fsm \in {"DEAD_TIME", "INVALID"}
        /\ q.fsm = "DEAD_TIME" =>
             /\ ~q.line /\ ~q.enabled /\ q.pins = q.address
             /\ q.requested \in RangeIds /\ q.address = AddressOf[q.requested]
    BY RequestPost DEF IInv, TypeOK
  <2> HIDE DEF q
  <2>3. rg' = q /\ pinsAge' \in 0 .. DeadTime /\ lineAge' \in 0 .. SettleTime
    BY <2>1, <2>2, ObserveType DEF IInv, Observe, q
  <2>4. UNCHANGED <<now, lag>> /\ deadline' =
          (IF q.fsm = "DEAD_TIME" THEN After(now, DeadTime) ELSE deadline)
    BY <1>4, <2>3 DEF Request
  <2>5. now \in Clock /\ deadline \in Clock BY DEF IInv, TypeOK
  <2>6. deadline' \in Clock BY <2>4, <2>5, AfterType
  <2>7. q.fsm = "DEAD_TIME" => Since(deadline', now') = DeadTime
    BY <2>4, <2>5, ToGoWhenSet
  <2>8. TypeOK' BY <2>2, <2>3, <2>4, <2>6 DEF TypeOK, IInv
  <2>9. TimeToGo' BY <2>2, <2>3, <2>7 DEF TimeToGo
  <2>10. BeliefIsTruth' BY <2>2, <2>3 DEF BeliefIsTruth, RangeRecord
  <2>11. LinesOfState' BY <2>2, <2>3 DEF LinesOfState
  <2> QED BY <2>8, <2>9, <2>10, <2>11 DEF IInv
<1>5. CASE UNCHANGED vars
  BY <1>5 DEF vars, IInv, TypeOK, BeliefIsTruth, LinesOfState, TimeToGo
<1> QED BY <1>1, <1>2, <1>3, <1>4, <1>5 DEF Next

LEMMA Inductive == Spec => []IInv
BY InitIInv, NextIInv, PTL DEF Spec

(* The state of the driver and of the lines stays well-formed. *)
THEOREM RangeTypeCorrect == Spec => []TypeOK
<1>1. IInv => TypeOK BY DEF IInv
<1> QED BY Inductive, <1>1, PTL

(* hw_range_is_ready() tells the truth: the multiplexer is electrically    *)
(* enabled on the range reported, and both waits have really passed.       *)
THEOREM RangeReadyIsSettled == Spec => []ReadyIsSettled
<1>1. IInv => ReadyIsSettled
  BY DEF IInv, BeliefIsTruth, LinesOfState, ReadyIsSettled, RangeIsReady
<1> QED BY Inductive, <1>1, PTL

(* Break before make, whatever writes failed before. *)
THEOREM RangeAddressMovesOffline == Spec => AddressMovesOffline
<1>1. IInv /\ [Next]_vars => [rg'.pins # rg.pins => ~rg'.line]_vars
  <2> SUFFICES ASSUME IInv, Next, rg'.pins # rg.pins PROVE ~rg'.line
    BY DEF vars
  <2>1. rg \in RangeRecord BY DEF IInv, TypeOK
  <2>2. CASE Step BY <2>1, <2>2, ElapsedPost DEF Step, Observe
  <2>3. CASE Tick BY <2>3 DEF Tick
  <2>4. CASE ForceDisabled
    BY <2>1, <2>4, DisablePost DEF ForceDisabled, Observe
  <2>5. ASSUME NEW id \in Requests, Request(id) PROVE ~rg'.line
    BY <2>1, <2>5, RequestPost DEF Request, Observe
  <2> QED BY <2>2, <2>3, <2>4, <2>5 DEF Next
<1> QED BY Inductive, <1>1, PTL DEF Spec, AddressMovesOffline

(* The multiplexer is switched on only after the full dead time, although  *)
(* the clock wraps.                                                        *)
THEOREM RangeDeadTimeHonoured == Spec => DeadTimeHonoured
<1>1. IInv /\ [Next]_vars => [~rg.line /\ rg'.line => pinsAge = DeadTime]_vars
  <2> SUFFICES ASSUME IInv, Next, ~rg.line, rg'.line PROVE pinsAge = DeadTime
    BY DEF vars
  <2>1. /\ rg \in RangeRecord /\ now \in Clock /\ deadline \in Clock
        /\ pinsAge \in 0 .. DeadTime
    BY DEF IInv, TypeOK
  <2>2. CASE Step
    <3>1. PICK e \in Outcomes :
            rg' = IF DeadlineReached(now, deadline) THEN RangeElapsed(rg, e) ELSE rg
      BY <2>2 DEF Step, Observe
    <3>2. DeadlineReached(now, deadline) BY <3>1
    <3>3. rg.fsm = "DEAD_TIME" BY <2>1, <3>1, <3>2, ElapsedPost DEF IInv, LinesOfState
    <3> SUFFICES ASSUME pinsAge < DeadTime PROVE FALSE
      BY <2>1, RangeConstantsAssumption
    <3>4. Since(deadline, now) \in (DeadTime - pinsAge) .. DeadTime
      BY <3>3 DEF IInv, TimeToGo
    <3>5. Since(deadline, now) \in 1 .. HalfTurn
      BY <2>1, <3>4, RangeConstantsAssumption, HalfTurnAssumption
    <3> QED BY <2>1, <3>2, <3>5, NotReachedEarly
  <2>3. CASE Tick BY <2>3 DEF Tick
  <2>4. CASE ForceDisabled
    BY <2>1, <2>4, DisablePost DEF ForceDisabled, Observe
  <2>5. ASSUME NEW id \in Requests, Request(id) PROVE FALSE
    BY <2>1, <2>5, RequestPost DEF Request, Observe
  <2> QED BY <2>2, <2>3, <2>4, <2>5 DEF Next
<1> QED BY Inductive, <1>1, PTL DEF Spec, DeadTimeHonoured

(* Both: the multiplexer breaks before it makes.                           *)
THEOREM RangeBreaksBeforeMakes == Spec => BreaksBeforeMakes
BY RangeAddressMovesOffline, RangeDeadTimeHonoured DEF BreaksBeforeMakes

-----------------------------------------------------------------------------
(***************************************************************************)
(* The sampler of the auxiliary sensors.                                   *)
(***************************************************************************)

(* What the sampler keeps, as a shape: which fields there are.             *)
SensorFields == {"st", "phase", "sample", "saturated", "old", "paused", "refreshing", "ready",
    "fault", "residual", "safe_count", "battery", "due", "pub"}
SensorShape(s) == SensorFields \subseteq DOMAIN s /\ A!Aged \subseteq DOMAIN s.pub
SensorsShape(x) ==
    /\ {"s", "adc", "proof"} \subseteq DOMAIN x /\ SensorShape(x.s)
    /\ {"busy", "late", "initialized"} \subseteq DOMAIN x.adc
    /\ {"row", "safe", "fresh"} \subseteq DOMAIN x.proof
(* What the evidence rests on, kept from s to t.                           *)
Evidence(s, t) ==
    /\ SensorShape(t) /\ t.residual = s.residual /\ t.safe_count = s.safe_count
    /\ t.pub["RESIDUAL"] = s.pub["RESIDUAL"]
(* Where the sweep is and to whom the converter is lent, kept from s to    *)
(* t.                                                                      *)
Course(s, t) ==
    t.st = s.st /\ t.phase = s.phase /\ t.paused = s.paused /\ t.refreshing = s.refreshing
    /\ t.ready = s.ready
(* A verdict rests on that many sweeps in a row, all since the last        *)
(* loan; a refresh that is ready rests on a sample.                        *)
Backed(x) ==
    /\ x.proof.row \in 0 .. RequiredSafe
    /\ x.s.residual = "SAFE" => x.proof.safe
    /\ x.s.residual # "SAFE" => x.s.safe_count = x.proof.row /\ x.proof.row < RequiredSafe
    /\ x.s.ready => x.proof.fresh
(* While the converter is lent nothing is known of the terminals, and      *)
(* only a refresh samples.                                                 *)
Lent(x) ==
    /\ x.s.refreshing => x.s.paused /\ x.s.phase \in {"VMID", "BAT"} /\ x.s.st \in {"START", "POLL"}
    /\ x.s.paused /\ ~x.s.refreshing => x.s.st = "PAUSED"
    /\ x.s.st = "IDLE" => ~x.s.paused
    /\ x.s.paused => x.s.residual = "UNKNOWN" /\ x.s.pub["RESIDUAL"] = "NONE"
    /\ x.adc.busy => x.s.st = "POLL"
SensorsRight(x) == SensorsShape(x) /\ Backed(x) /\ Lent(x)

(* The averages and the sweeps asked for are at least one.                 *)
LEMMA SensorsSizes == Average \in Nat \ {0} /\ RequiredSafe \in Nat \ {0}
BY InstrumentAssumption DEF InstrumentAssumption, A!SensorsAssumption

(* The sampler starts with nothing found and nothing lent.                 *)
LEMMA InitSensorsRight == A!Init => SensorsRight(A!Here)
<1> SUFFICES ASSUME A!Init PROVE SensorsRight(A!Here)
  OBVIOUS
<1>1. SensorShape(sensors)
  BY DEF A!Init, A!Aged, SensorFields, SensorShape
<1>2. SensorsShape(A!Here)
  BY <1>1 DEF A!Init, A!Here, A!NoProof, SensorsShape
<1>3. Backed(A!Here)
  BY SensorsSizes DEF A!Init, A!Here, A!NoProof, Backed
<1>4. Lent(A!Here)
  BY DEF A!Init, A!Here, Lent
<1> QED BY <1>2, <1>3, <1>4 DEF SensorsRight

(* A group that starts over keeps the verdict and where the sweep is.      *)
LEMMA ResetEffect ==
    ASSUME NEW s, SensorShape(s)
    PROVE  Evidence(s, A!ResetGroup(s)) /\ Course(s, A!ResetGroup(s))
BY DEF SensorShape, SensorFields, A!ResetGroup, Evidence, Course

(* A sweep that ends puts the sampler to rest, or back to what it was      *)
(* lent to.                                                                *)
LEMMA RestEffect ==
    ASSUME NEW s, SensorShape(s)
    PROVE  LET r == A!Rest(s)
           IN  /\ Evidence(s, r) /\ r.st = (IF s.paused THEN "PAUSED" ELSE "IDLE")
               /\ r.phase = "NONE"
               /\ r.paused = s.paused /\ r.refreshing = s.refreshing /\ r.ready = s.ready
BY DEF SensorShape, SensorFields, A!Rest, Evidence, Course

(* To invalidate the evidence forgets the verdict and the count.           *)
LEMMA DisprovedEffect ==
    ASSUME NEW s, SensorShape(s)
    PROVE  LET d == A!Disproved(s)
           IN  /\ SensorShape(d) /\ d.residual = "UNKNOWN" /\ d.safe_count = 0
               /\ d.pub["RESIDUAL"] = "NONE" /\ Course(s, d)
BY DEF SensorShape, SensorFields, A!Disproved, Course, A!Aged

(* A group that failed: the sampler rests, and no verdict survives that    *)
(* was not there.                                                          *)
LEMMA InvalidatedEffect ==
    ASSUME NEW s, SensorShape(s)
    PROVE  LET r == A!Invalidated(s)
           IN  /\ Evidence(s, r) /\ r.st = (IF s.paused THEN "PAUSED" ELSE "IDLE")
               /\ r.phase = "NONE"
               /\ r.paused = s.paused /\ ~r.refreshing /\ ~r.ready
<1> DEFINE f == [s EXCEPT !.refreshing = FALSE, !.ready = FALSE, !.fault = TRUE]
<1>1. SensorShape(f) /\ Evidence(s, f) /\ f.paused = s.paused /\ ~f.refreshing /\ ~f.ready
  BY DEF SensorShape, SensorFields, Evidence
<1> HIDE DEF f
<1>2. SensorShape(A!ResetGroup(f)) /\ Evidence(f, A!ResetGroup(f)) /\ Course(f, A!ResetGroup(f))
  BY <1>1, ResetEffect DEF Evidence
<1>3. A!Invalidated(s) = A!Rest(A!ResetGroup(f)) BY DEF A!Invalidated, f
<1> QED BY <1>1, <1>2, <1>3, RestEffect DEF Evidence, Course

(* What is too old to be shown is forgotten, the verdict with it.          *)
LEMMA ForgottenEffect ==
    ASSUME NEW s, SensorShape(s)
    PROVE  LET r == A!Forgotten(s)
           IN  /\ SensorShape(r) /\ Course(s, r)
               /\ s.pub["RESIDUAL"] # "OLD" => Evidence(s, r)
               /\ s.pub["RESIDUAL"] = "OLD" => r.residual = "UNKNOWN" /\ r.safe_count = 0 /\ r.pub["RESIDUAL"] = "NONE"
<1> DEFINE d == IF s.pub["RESIDUAL"] = "OLD" THEN A!Disproved(s) ELSE s
<1>1. SensorShape(d) /\ Course(s, d) /\ (s.pub["RESIDUAL"] # "OLD" => d = s)
      /\ (s.pub["RESIDUAL"] = "OLD" => d.residual = "UNKNOWN" /\ d.safe_count = 0)
  BY DisprovedEffect DEF Course
<1> HIDE DEF d
<1> DEFINE b == IF s.pub["BATTERY"] = "OLD" THEN "UNKNOWN" ELSE s.battery
           q == [g \in A!Aged |-> IF s.pub[g] = "OLD" THEN "NONE" ELSE s.pub[g]]
<1>2. A!Aged \subseteq DOMAIN q /\ q["RESIDUAL"] = IF s.pub["RESIDUAL"] = "OLD" THEN "NONE" ELSE s.pub["RESIDUAL"]
  BY DEF A!Aged
<1>3. A!Forgotten(s) = [d EXCEPT !.battery = b, !.pub = q]
  BY DEF A!Forgotten, d
<1> HIDE DEF b, q
<1> QED BY <1>1, <1>2, <1>3 DEF SensorShape, SensorFields, Course, Evidence

(* Old publications are dropped in every step.                             *)
LEMMA StaleRight == ASSUME NEW x, SensorsRight(x) PROVE SensorsRight(A!Stale(x)) 
<1> DEFINE y == A!Stale(x)
           q == IF x.s.pub["RESIDUAL"] = "OLD" THEN [x.proof EXCEPT !.row = 0, !.safe = FALSE]
                        ELSE x.proof
<1>1. /\ y.s = A!Forgotten(x.s) /\ y.adc = x.adc /\ y.proof = q /\ {"s", "adc", "proof"} \subseteq DOMAIN y
  BY DEF A!Stale, SensorsRight, SensorsShape
<1>2. /\ x.s.pub["RESIDUAL"] # "OLD" => q = x.proof
      /\ x.s.pub["RESIDUAL"] = "OLD" => q.row = 0 /\ ~q.safe /\ q.fresh = x.proof.fresh
      /\ {"row", "safe", "fresh"} \subseteq DOMAIN q
  BY DEF SensorsRight, SensorsShape
<1> HIDE DEF y, q
<1>3. SensorsShape(y) BY <1>1, <1>2, ForgottenEffect DEF SensorsRight, SensorsShape
<1>4. Backed(y) BY <1>1, <1>2, ForgottenEffect, SensorsSizes
    DEF SensorsRight, SensorsShape, Backed, Evidence, Course
<1>5. Lent(y) BY <1>1, <1>2, ForgottenEffect DEF SensorsRight, SensorsShape, Lent, Evidence, Course
<1> QED BY <1>3, <1>4, <1>5 DEF SensorsRight, y

(* With nothing under way, the sampler looks for a group that is due.      *)
LEMMA IdledRight ==
    ASSUME NEW x, SensorsRight(x), x.s.paused, ~x.s.refreshing PROVE SensorsRight(A!Idled(x))
<1> DEFINE p == [x.s EXCEPT !.st = "PAUSED"]
           a == IF x.s.st = "POLL" THEN A!Canceled(x.adc) ELSE x.adc
           y == A!Idled(x)
<1>1. SensorShape(p) /\ Evidence(x.s, p) /\ p.st = "PAUSED" /\ p.paused = x.s.paused
      /\ p.refreshing = x.s.refreshing /\ p.ready = x.s.ready
  BY DEF SensorsRight, SensorsShape, SensorShape, SensorFields, Evidence
<1>2. {"busy", "late", "initialized"} \subseteq DOMAIN a /\ (a.busy => x.s.st # "POLL" /\ x.adc.busy)
  BY DEF SensorsRight, SensorsShape, A!Canceled
<1>3. y.s = A!ResetGroup(p) /\ y.adc = a /\ y.proof = x.proof
      /\ {"s", "adc", "proof"} \subseteq DOMAIN y
  BY DEF SensorsRight, SensorsShape, A!Idled
<1> HIDE DEF p, a, y
<1>4. Evidence(p, y.s) /\ Course(p, y.s) BY <1>1, <1>3, ResetEffect
<1> QED BY <1>1, <1>2, <1>3, <1>4 DEF SensorsRight, SensorsShape, Backed, Lent, Evidence, Course, y

(* A conversion is begun, or fails the group.                              *)
LEMMA ConvertedRight ==
    ASSUME NEW x, SensorsShape(x), Backed(x), ~x.adc.busy,
           x.s.refreshing => x.s.paused /\ x.s.phase \in {"VMID", "BAT"},
           x.s.paused => x.s.refreshing /\ x.s.residual = "UNKNOWN" /\ x.s.pub["RESIDUAL"] = "NONE",
           NEW y \in A!Converted(x)
    PROVE  SensorsRight(y)
<1>1. CASE y = [x EXCEPT !.s = A!Invalidated(@)]
  <2>1. y.s = A!Invalidated(x.s) /\ y.adc = x.adc /\ y.proof = x.proof
        /\ {"s", "adc", "proof"} \subseteq DOMAIN y
    BY <1>1 DEF SensorsShape
  <2> QED BY <2>1, InvalidatedEffect DEF SensorsRight, SensorsShape, Backed, Lent, Evidence
<1>2. CASE y = [x EXCEPT !.s.st = "POLL", !.adc.busy = TRUE, !.adc.late = FALSE]
  <2>1. /\ Evidence(x.s, y.s) /\ y.s.st = "POLL" /\ y.s.phase = x.s.phase
        /\ y.s.paused = x.s.paused /\ y.s.refreshing = x.s.refreshing /\ y.s.ready = x.s.ready
    BY <1>2 DEF SensorsShape, SensorShape, SensorFields, Evidence
  <2>2. /\ y.proof = x.proof /\ {"busy", "late", "initialized"} \subseteq DOMAIN y.adc
        /\ {"s", "adc", "proof"} \subseteq DOMAIN y
    BY <1>2 DEF SensorsShape
  <2> QED BY <2>1, <2>2 DEF SensorsRight, SensorsShape, Backed, Lent, Evidence
<1> QED BY <1>1, <1>2 DEF A!Converted

(* A group is begun, at its first phase.                                   *)
LEMMA BegunRight ==
    ASSUME NEW x, SensorsRight(x), x.s.st = "IDLE", NEW y \in A!Begun(x)
    PROVE  SensorsRight(y)
<1>1. CASE x.s.due = {} BY <1>1 DEF A!Begun
<1>2. CASE x.s.due # {}
  <2> DEFINE r == [A!ResetGroup(x.s) EXCEPT !.phase = A!FirstPhase(x.s), !.st = "START"]
             z == [x EXCEPT !.s = r]
  <2>1. Evidence(x.s, A!ResetGroup(x.s)) /\ Course(x.s, A!ResetGroup(x.s))
    BY ResetEffect DEF SensorsRight, SensorsShape
  <2>2. /\ Evidence(x.s, r) /\ r.paused = x.s.paused /\ r.refreshing = x.s.refreshing
        /\ r.ready = x.s.ready
    BY <2>1 DEF Evidence, Course, SensorShape, SensorFields
  <2> HIDE DEF r
  <2>3. z.s = r /\ z.adc = x.adc /\ z.proof = x.proof /\ {"s", "adc", "proof"} \subseteq DOMAIN z
    BY DEF SensorsRight, SensorsShape
  <2>4. y \in A!Converted(z) BY <1>2 DEF A!Begun, r
  <2> HIDE DEF z
  <2>5. SensorsShape(z) /\ Backed(z) /\ ~z.adc.busy /\ ~z.s.paused /\ ~z.s.refreshing
    BY <2>2, <2>3 DEF SensorsRight, SensorsShape, Backed, Lent, Evidence
  <2> QED BY <2>4, <2>5, ConvertedRight
<1> QED BY <1>1, <1>2

(* What a sweep finds, and its proof, go together.                         *)
LEMMA JudgedEffect ==
    ASSUME NEW s, SensorShape(s), NEW verdict, NEW count
    PROVE  LET r == A!Judged(s, verdict, count)
           IN  /\ SensorShape(r) /\ r.residual = verdict /\ r.safe_count = count
               /\ r.pub = s.pub /\ Course(s, r)
BY DEF SensorShape, SensorFields, A!Judged, Course

(* To publish a residual changes the verdict, the count and nothing else   *)
(* of the course.                                                          *)
LEMMA PublishedEffect ==
    ASSUME NEW s, SensorShape(s), NEW group
    PROVE  LET r == A!Published(s, group)
           IN  /\ SensorShape(r) /\ r.residual = s.residual /\ r.safe_count = s.safe_count
               /\ group # "RESIDUAL" => r.pub["RESIDUAL"] = s.pub["RESIDUAL"]
               /\ Course(s, r)
<1> DEFINE q == [g \in A!Aged |-> IF g # group THEN s.pub[g] ELSE IF s.old THEN "OLD" ELSE "FRESH"]
           d == s.due \ {group}
<1>1. A!Published(s, group) = [s EXCEPT !.due = d, !.pub = q]
  BY DEF A!Published
<1>2. A!Aged \subseteq DOMAIN q /\ (group # "RESIDUAL" => q["RESIDUAL"] = s.pub["RESIDUAL"])
  BY DEF A!Aged
<1> HIDE DEF q, d
<1> QED BY <1>1, <1>2 DEF SensorShape, SensorFields, Course

(* The policy and the count it keeps: a verdict SAFE is one the sweeps     *)
(* in a row back.                                                          *)
LEMMA EvaluateBacked ==
    ASSUME NEW x, SensorsShape(x), Backed(x), NEW f \in {"SATURATED", "LOW", "BETWEEN", "HIGH", "INVALID"}
    PROVE  LET s == A!Evaluate(x.s, f)  p == A!Proven(x.proof, f)
           IN  /\ SensorShape(s) /\ Course(x.s, s)
               /\ {"row", "safe", "fresh"} \subseteq DOMAIN p /\ p.fresh = x.proof.fresh
               /\ p.row \in 0 .. RequiredSafe
               /\ s.residual = "SAFE" => p.safe
               /\ s.residual # "SAFE" => s.safe_count = p.row /\ p.row < RequiredSafe
<1> DEFINE row == IF f # "LOW" THEN 0
                  ELSE IF x.proof.row < RequiredSafe THEN x.proof.row + 1 ELSE x.proof.row
           safe == row = RequiredSafe \/ (x.proof.safe /\ f \in {"LOW", "BETWEEN"})
           p == A!Proven(x.proof, f)
           s == A!Evaluate(x.s, f)
<1>1. /\ p.row = row /\ p.safe = safe /\ p.fresh = x.proof.fresh
      /\ {"row", "safe", "fresh"} \subseteq DOMAIN p
  BY DEF A!Proven, SensorsShape
<1>2. PICK verdict, count : s = A!Judged(x.s, verdict, count)
      /\ \/ verdict \notin {"SAFE"} /\ count = 0 /\ f # "LOW"
         \/ verdict = "SAFE" /\ x.s.residual = "SAFE" /\ f \in {"LOW", "BETWEEN"}
         \/ /\ f = "LOW" /\ x.s.residual # "SAFE" /\ count = x.s.safe_count + 1
            /\ verdict = IF count >= RequiredSafe THEN "SAFE" ELSE "UNKNOWN"
  <2>1. CASE f \in {"SATURATED", "INVALID", "HIGH"} BY <2>1 DEF A!Evaluate
  <2>2. CASE f \in {"LOW", "BETWEEN"} /\ x.s.residual = "SAFE" BY <2>2 DEF A!Evaluate
  <2>3. CASE f = "LOW" /\ x.s.residual # "SAFE" BY <2>3 DEF A!Evaluate, A!Counted
  <2>4. CASE f = "BETWEEN" /\ x.s.residual # "SAFE" BY <2>4 DEF A!Evaluate
  <2> QED BY <2>1, <2>2, <2>3, <2>4
<1> HIDE DEF p, s
<1>3. SensorShape(s) /\ s.residual = verdict /\ s.safe_count = count /\ Course(x.s, s)
  BY <1>2, JudgedEffect DEF SensorsShape
<1>4. /\ row \in 0 .. RequiredSafe
      /\ verdict = "SAFE" => safe
      /\ verdict # "SAFE" => count = row /\ row < RequiredSafe
  BY <1>2, SensorsSizes DEF Backed
<1> HIDE DEF row, safe
<1> QED BY <1>1, <1>3, <1>4 DEF p, s


(* A sweep that has ended: nothing is lent any more, or a refresh ended.   *)
Able(x) == SensorsRight(x) /\ ~x.adc.busy /\ (x.s.paused => x.s.refreshing)

(* The residual sweep ends with a verdict the evidence backs.              *)
LEMMA SweptResidualRight ==
    ASSUME NEW x, Able(x), x.s.phase = "LO", NEW y \in A!SweptResidual(x)
    PROVE  SensorsRight(y)
<1>1. PICK f \in A!Findings(x.s) :
         y = [x EXCEPT !.s = A!Rest(A!Published(A!Evaluate(x.s, f), "RESIDUAL")),
                       !.proof = A!Proven(x.proof, f)]
  BY DEF A!SweptResidual
<1> DEFINE e == A!Evaluate(x.s, f)
           q == A!Published(e, "RESIDUAL")
           r == A!Rest(q)
           p == A!Proven(x.proof, f)
<1>2. f \in {"SATURATED", "LOW", "BETWEEN", "HIGH", "INVALID"} BY DEF A!Findings
<1>3. /\ SensorShape(e) /\ Course(x.s, e)
      /\ {"row", "safe", "fresh"} \subseteq DOMAIN p /\ p.fresh = x.proof.fresh
      /\ p.row \in 0 .. RequiredSafe
      /\ e.residual = "SAFE" => p.safe
      /\ e.residual # "SAFE" => e.safe_count = p.row /\ p.row < RequiredSafe
  BY <1>2, EvaluateBacked DEF Able, SensorsRight
<1>4. y.s = r /\ y.adc = x.adc /\ y.proof = p /\ {"s", "adc", "proof"} \subseteq DOMAIN y
  BY <1>1 DEF Able, SensorsRight, SensorsShape
<1> HIDE DEF e, p
<1>5. SensorShape(q) /\ q.residual = e.residual /\ q.safe_count = e.safe_count /\ Course(e, q)
  BY <1>3, PublishedEffect
<1> HIDE DEF q
<1>6. /\ Evidence(q, r) /\ r.st = (IF q.paused THEN "PAUSED" ELSE "IDLE")
      /\ r.paused = q.paused /\ r.refreshing = q.refreshing /\ r.ready = q.ready
  BY <1>5, RestEffect
<1> HIDE DEF r
<1>7. ~x.s.paused /\ ~x.s.refreshing /\ ~x.adc.busy BY DEF Able, SensorsRight, Lent
<1> QED BY <1>3, <1>4, <1>5, <1>6, <1>7
    DEF SensorsRight, Able, SensorsShape, Backed, Lent, Evidence, Course

(* The battery sweep says nothing of the terminals.                        *)
LEMMA SweptBatteryEffect ==
    ASSUME NEW s, SensorShape(s), NEW t \in A!SweptBattery(s)
    PROVE  Evidence(s, t) /\ Course(s, t)
<1>1. PICK b : t = [A!Published(s, "BATTERY") EXCEPT !.battery = b] BY DEF A!SweptBattery
<1> DEFINE p == A!Published(s, "BATTERY")
<1>2. /\ SensorShape(p) /\ p.residual = s.residual /\ p.safe_count = s.safe_count
      /\ p.pub["RESIDUAL"] = s.pub["RESIDUAL"] /\ Course(s, p)
  BY PublishedEffect
<1> HIDE DEF p
<1>3. t = [p EXCEPT !.battery = b] BY <1>1 DEF p
<1> QED BY <1>2, <1>3 DEF SensorShape, SensorFields, Evidence, Course

(* Any other group ends with what it is about alone.                       *)
LEMMA RestedRight ==
    ASSUME NEW x, Able(x), ~x.s.refreshing, NEW t, Evidence(x.s, t), Course(x.s, t)
    PROVE  SensorsRight([x EXCEPT !.s = A!Rest(t)])
<1> DEFINE r == A!Rest(t)
           y == [x EXCEPT !.s = r]
<1>1. /\ Evidence(t, r) /\ r.st = (IF t.paused THEN "PAUSED" ELSE "IDLE")
      /\ r.paused = t.paused /\ r.refreshing = t.refreshing /\ r.ready = t.ready
  BY RestEffect DEF Evidence
<1> HIDE DEF r
<1>2. y.s = r /\ y.adc = x.adc /\ y.proof = x.proof /\ {"s", "adc", "proof"} \subseteq DOMAIN y
  BY DEF Able, SensorsRight, SensorsShape
<1> HIDE DEF y
<1>3. SensorsRight(y)
  BY <1>1, <1>2 DEF SensorsRight, Able, SensorsShape, Backed, Lent, Evidence, Course
<1> QED BY <1>3 DEF y, r

(* A refresh ends with the battery sampled since it was asked for.         *)
LEMMA RefreshedBatteryRight ==
    ASSUME NEW x, Able(x), x.s.refreshing, NEW y \in A!RefreshedBattery(x)
    PROVE  SensorsRight(y)
<1>1. PICK t \in A!SweptBattery(x.s) :
         y = [x EXCEPT !.s = A!Rest([t EXCEPT !.refreshing = FALSE, !.ready = TRUE]),
                       !.proof.fresh = TRUE]
  BY DEF A!RefreshedBattery
<1> DEFINE u == [t EXCEPT !.refreshing = FALSE, !.ready = TRUE]
           r == A!Rest(u)
<1>2. Evidence(x.s, t) /\ Course(x.s, t) BY SweptBatteryEffect DEF Able, SensorsRight, SensorsShape
<1>3. Evidence(x.s, u) /\ u.paused = x.s.paused /\ ~u.refreshing
  BY <1>2 DEF Evidence, Course, SensorShape, SensorFields
<1> HIDE DEF u
<1>4. /\ Evidence(u, r) /\ r.st = (IF u.paused THEN "PAUSED" ELSE "IDLE")
      /\ r.paused = u.paused /\ r.refreshing = u.refreshing
  BY <1>3, RestEffect DEF Evidence
<1>5. y = [x EXCEPT !.s = r, !.proof.fresh = TRUE] BY <1>1 DEF u
<1> HIDE DEF r
<1>6. /\ y.s = r /\ y.adc = x.adc /\ y.proof = [x.proof EXCEPT !.fresh = TRUE]
      /\ {"s", "adc", "proof"} \subseteq DOMAIN y
  BY <1>5 DEF Able, SensorsRight, SensorsShape
<1> DEFINE p == y.proof
<1>7. /\ p.row = x.proof.row /\ p.safe = x.proof.safe /\ p.fresh
      /\ {"row", "safe", "fresh"} \subseteq DOMAIN p
  BY <1>6 DEF Able, SensorsRight, SensorsShape
<1> HIDE DEF p
<1>8. Backed(y) BY <1>3, <1>4, <1>6, <1>7 DEF SensorsRight, Able, SensorsShape, Backed, Evidence, p
<1>9. Lent(y) BY <1>3, <1>4, <1>6, <1>7 DEF SensorsRight, Able, SensorsShape, Lent, Evidence, p
<1> QED BY <1>3, <1>4, <1>6, <1>7, <1>8, <1>9 DEF SensorsRight, Able, SensorsShape, Evidence, p

(* Whatever group ends, what it leaves is right.                           *)
LEMMA GroupEndsRight ==
    ASSUME NEW x, Able(x), x.s.refreshing => x.s.phase = "BAT", NEW y \in A!GroupEnds(x)
    PROVE  SensorsRight(y)
<1>0. SensorShape(x.s) BY DEF Able, SensorsRight, SensorsShape
<1>1. CASE x.s.phase = "LO"
  BY <1>1, SweptResidualRight DEF A!GroupEnds
<1>2. CASE x.s.phase = "BAT" /\ x.s.refreshing
  BY <1>2, RefreshedBatteryRight DEF A!GroupEnds
<1>3. CASE x.s.phase = "BAT" /\ ~x.s.refreshing
  <2>1. PICK t \in A!SweptBattery(x.s) : y = [x EXCEPT !.s = A!Rest(t)]
    BY <1>3 DEF A!GroupEnds
  <2> QED BY <2>1, <1>0, <1>3, SweptBatteryEffect, RestedRight
<1>4. CASE x.s.phase \notin {"LO", "BAT"}
  <2>1. y = [x EXCEPT !.s = A!Rest(A!Published(x.s, "NTC"))] BY <1>4 DEF A!GroupEnds
  <2> DEFINE t == A!Published(x.s, "NTC")
  <2>2. Evidence(x.s, t) /\ Course(x.s, t) BY <1>0, PublishedEffect DEF Evidence
  <2> HIDE DEF t
  <2> QED BY <2>1, <2>2, <1>4, RestedRight DEF t
<1> QED BY <1>1, <1>2, <1>3, <1>4

(* A conversion that came back: the next sample, the next phase, or the    *)
(* end.                                                                    *)
LEMMA SampledRight ==
    ASSUME NEW x, Able(x), x.s.st = "POLL", NEW y \in A!Sampled(x)
    PROVE  SensorsRight(y)
<1>0. /\ SensorsShape(x) /\ SensorShape(x.s) /\ Backed(x) /\ Lent(x) /\ ~x.adc.busy
      /\ (x.s.paused => x.s.refreshing)
  BY DEF Able, SensorsRight, SensorsShape
<1>1. CASE x.s.sample + 1 < Average
  <2>1. y = [x EXCEPT !.s.sample = x.s.sample + 1, !.s.st = "START"]
    BY <1>1 DEF A!Sampled
  <2>2. /\ Evidence(x.s, y.s) /\ y.s.phase = x.s.phase /\ y.s.paused = x.s.paused
        /\ y.s.refreshing = x.s.refreshing /\ y.s.ready = x.s.ready /\ y.s.st = "START"
    BY <2>1, <1>0 DEF SensorsShape, SensorShape, SensorFields, Evidence
  <2>3. y.adc = x.adc /\ y.proof = x.proof /\ {"s", "adc", "proof"} \subseteq DOMAIN y
    BY <2>1, <1>0 DEF SensorsShape
  <2> QED BY <1>0, <2>2, <2>3 DEF SensorsRight, SensorsShape, Backed, Lent, Evidence
<1>2. CASE ~(x.s.sample + 1 < Average) /\ A!NextPhase(x.s) # "NONE"
  <2> DEFINE n == A!NextPhase(x.s)
  <2>0. x.s.refreshing => n \in {"VMID", "BAT"} BY <1>0, <1>2 DEF A!NextPhase, Lent
  <2> HIDE DEF n
  <2>1. PICK sat : y = [x EXCEPT !.s.sample = 0, !.s.st = "START", !.s.phase = n,
                       !.s.saturated = sat]
    BY <1>2, SensorsSizes DEF A!Sampled, n
  <2>2. /\ Evidence(x.s, y.s) /\ y.s.phase = n /\ y.s.paused = x.s.paused
        /\ y.s.refreshing = x.s.refreshing /\ y.s.ready = x.s.ready /\ y.s.st = "START"
    BY <2>1, <1>0 DEF SensorsShape, SensorShape, SensorFields, Evidence
  <2>3. y.adc = x.adc /\ y.proof = x.proof /\ {"s", "adc", "proof"} \subseteq DOMAIN y
    BY <2>1, <1>0 DEF SensorsShape
  <2> QED BY <1>0, <2>0, <2>2, <2>3 DEF SensorsRight, SensorsShape, Backed, Lent, Evidence
<1>3. CASE ~(x.s.sample + 1 < Average) /\ A!NextPhase(x.s) = "NONE"
  <2> DEFINE z == [x EXCEPT !.s.sample = 0]
  <2>1. PICK w \in A!GroupEnds(z) : y = [w EXCEPT !.s.saturated = FALSE]
    BY <1>3 DEF A!Sampled
  <2>2. Evidence(x.s, z.s) /\ Course(x.s, z.s)
    BY <1>0 DEF SensorsShape, SensorShape, SensorFields, Evidence, Course
  <2>3. z.adc = x.adc /\ z.proof = x.proof /\ {"s", "adc", "proof"} \subseteq DOMAIN z
    BY <1>0 DEF SensorsShape
  <2>4. x.s.refreshing => x.s.phase = "BAT"
    BY <1>0, <1>3 DEF A!NextPhase, Lent
  <2> HIDE DEF z
  <2>5. Able(z)
    BY <1>0, <2>2, <2>3 DEF Able, SensorsRight, SensorsShape, Backed, Lent, Evidence, Course
  <2>6. SensorsRight(w) BY <2>2, <2>4, <2>5, GroupEndsRight DEF Course
  <2>7. /\ Evidence(w.s, y.s) /\ Course(w.s, y.s)
        /\ y.adc = w.adc /\ y.proof = w.proof /\ {"s", "adc", "proof"} \subseteq DOMAIN y
    BY <2>1, <2>6 DEF SensorsRight, SensorsShape, SensorShape, SensorFields, Evidence, Course
  <2> QED BY <2>6, <2>7 DEF SensorsRight, SensorsShape, Backed, Lent, Evidence, Course
<1> QED BY <1>1, <1>2, <1>3

(* Waiting for the converter: done, late, or not yet.                      *)
LEMMA PolledRight ==
    ASSUME NEW x, SensorsRight(x), x.s.st = "POLL", x.s.paused => x.s.refreshing, NEW y \in A!Polled(x)
    PROVE  SensorsRight(y)
<1>0. SensorsShape(x) /\ SensorShape(x.s) /\ Backed(x) /\ Lent(x) BY DEF SensorsRight, SensorsShape
<1> DEFINE a == A!Canceled(x.adc)
<1>1. {"busy", "late", "initialized"} \subseteq DOMAIN a /\ ~a.busy
  BY <1>0 DEF SensorsShape, A!Canceled
<1>2. CASE y = x BY <1>2
<1>3. CASE y \in A!Complete(x)
  <2>1. PICK sat \in BOOLEAN : y \in A!Sampled([x EXCEPT !.adc = a, !.s.saturated = x.s.saturated \/ sat])
    BY <1>3 DEF A!Complete
  <2> DEFINE v == x.s.saturated \/ sat
             z == [x EXCEPT !.adc = a, !.s.saturated = v]
  <2> HIDE DEF a, v
  <2>2. Evidence(x.s, z.s) /\ Course(x.s, z.s)
    BY <1>0 DEF SensorsShape, SensorShape, SensorFields, Evidence, Course
  <2>3. z.adc = a /\ z.proof = x.proof /\ {"s", "adc", "proof"} \subseteq DOMAIN z
    BY <1>0 DEF SensorsShape
  <2>4. y \in A!Sampled(z) BY <2>1 DEF v
  <2> HIDE DEF z
  <2>5. Able(z)
    BY <1>0, <1>1, <2>2, <2>3 DEF Able, SensorsRight, SensorsShape, Backed, Lent, Evidence, Course
  <2> QED BY <2>2, <2>4, <2>5, SampledRight DEF Course
<1>4. CASE y = [x EXCEPT !.adc = a, !.s = A!Invalidated(x.s)]
  <2> HIDE DEF a
  <2>1. y.s = A!Invalidated(x.s) /\ y.adc = a /\ y.proof = x.proof
        /\ {"s", "adc", "proof"} \subseteq DOMAIN y
    BY <1>0, <1>4 DEF SensorsShape
  <2> QED BY <1>0, <1>1, <2>1, InvalidatedEffect
      DEF SensorsRight, SensorsShape, Backed, Lent, Evidence
<1> QED BY <1>2, <1>3, <1>4 DEF A!Polled

(* A step of hw_aux_sensors_step.                                          *)
LEMMA StepOfRight ==
    ASSUME NEW x, SensorsRight(x), NEW y \in A!StepOf(x)
    PROVE  SensorsRight(y)
<1>1. CASE x.s.paused /\ ~x.s.refreshing BY <1>1, IdledRight DEF A!StepOf
<1>2. CASE ~(x.s.paused /\ ~x.s.refreshing)
  <2> DEFINE z == A!Stale(x)
  <2>1. SensorsRight(z) BY StaleRight
  <2>2. y \in A!Worked(z) BY <1>2 DEF A!StepOf
  <2>3. z.s.paused = x.s.paused /\ z.s.refreshing = x.s.refreshing
    <3>1. z.s = A!Forgotten(x.s) BY DEF A!Stale, SensorsRight, SensorsShape
    <3> QED BY <3>1, ForgottenEffect DEF SensorsRight, SensorsShape, Course
  <2> HIDE DEF z
  <2>4. z.s.paused => z.s.refreshing BY <1>2, <2>3
  <2>5. CASE z.s.st = "IDLE" BY <2>1, <2>2, <2>5, BegunRight DEF A!Worked
  <2>6. CASE z.s.st = "START"
    <3>1. y \in A!Converted(z) BY <2>2, <2>6 DEF A!Worked
    <3>2. ~z.adc.busy BY <2>1, <2>6 DEF SensorsRight, Lent
    <3> QED BY <2>1, <2>4, <3>1, <3>2, ConvertedRight DEF SensorsRight, Lent
  <2>7. CASE z.s.st = "POLL" BY <2>1, <2>2, <2>4, <2>7, PolledRight DEF A!Worked
  <2>8. CASE z.s.st \notin {"IDLE", "START", "POLL"} BY <2>1, <2>2, <2>8 DEF A!Worked
  <2> QED BY <2>5, <2>6, <2>7, <2>8
<1> QED BY <1>1, <1>2
-----------------------------------------------------------------------------
(* The steps: the loop's own, time, and the transaction's calls.           *)
LEMMA BecomesHere == ASSUME NEW y, SensorsRight(y), A!Becomes(y) PROVE SensorsRight(A!Here)'
<1> DEFINE h == A!Here'
<1>1. h.s = y.s /\ h.adc = y.adc /\ h.proof = y.proof /\ {"s", "adc", "proof"} \subseteq DOMAIN h
  BY DEF A!Becomes, A!Here
<1> HIDE DEF h
<1>2. SensorsRight(h) BY <1>1 DEF SensorsRight, SensorsShape, Backed, Lent
<1> QED BY <1>2 DEF h, SensorsRight, SensorsShape, SensorShape, Backed, Lent


(* The record the operators work on is the variables.                      *)
LEMMA HereIs ==
    /\ A!Here.s = sensors /\ A!Here.adc = adc /\ A!Here.proof = proof
    /\ {"s", "adc", "proof"} \subseteq DOMAIN A!Here
BY DEF A!Here

(* What is right of the record is right of the variables.                  *)
LEMMA RightOfHere ==
    ASSUME SensorShape(sensors'), {"busy", "late", "initialized"} \subseteq DOMAIN adc',
           {"row", "safe", "fresh"} \subseteq DOMAIN proof',
           Backed([s |-> sensors', adc |-> adc', proof |-> proof']),
           Lent([s |-> sensors', adc |-> adc', proof |-> proof'])
    PROVE  SensorsRight(A!Here)'
BY DEF A!Here, SensorsRight, SensorsShape, SensorShape, Backed, Lent

(* Time passes over a conversion.                                          *)
LEMMA LateRight == SensorsRight(A!Here) /\ A!Late => SensorsRight(A!Here)'
<1> SUFFICES ASSUME SensorsRight(A!Here), A!Late PROVE SensorsRight(A!Here)' OBVIOUS
<1>1. /\ adc' = [adc EXCEPT !.late = TRUE] /\ sensors' = sensors /\ proof' = proof
  BY DEF A!Late
<1>2. {"busy", "late", "initialized"} \subseteq DOMAIN adc' /\ adc'.busy = adc.busy
  BY <1>1, HereIs DEF SensorsRight, SensorsShape
<1> QED BY <1>1, <1>2, HereIs, RightOfHere DEF SensorsRight, SensorsShape, Backed, Lent

(* Time passes over what was published.                                    *)
LEMMA GrowsOldRight == SensorsRight(A!Here) /\ A!GrowsOld => SensorsRight(A!Here)'
<1> SUFFICES ASSUME SensorsRight(A!Here), A!GrowsOld PROVE SensorsRight(A!Here)' OBVIOUS
<1>0. SensorsShape(A!Here) /\ SensorShape(sensors) /\ Backed(A!Here) /\ Lent(A!Here)
  BY HereIs DEF SensorsRight, SensorsShape
<1>1. adc' = adc /\ proof' = proof BY DEF A!GrowsOld
<1>2. /\ SensorShape(sensors') /\ Course(sensors, sensors')
      /\ sensors'.residual = sensors.residual /\ sensors'.safe_count = sensors.safe_count
      /\ sensors.pub["RESIDUAL"] = "NONE" => sensors'.pub["RESIDUAL"] = "NONE"
  <2>1. CASE \E g \in A!Groups \ sensors.due : sensors' = [sensors EXCEPT !.due = @ \cup {g}]
    BY <1>0, <2>1 DEF SensorShape, SensorFields, Course
  <2>2. CASE \E g \in A!Aged : sensors.pub[g] = "FRESH" /\ sensors' = [sensors EXCEPT !.pub[g] = "OLD"]
    BY <1>0, <2>2 DEF SensorShape, SensorFields, Course, A!Aged
  <2>3. CASE sensors' = [sensors EXCEPT !.old = TRUE]
    BY <1>0, <2>3 DEF SensorShape, SensorFields, Course
  <2> QED BY <2>1, <2>2, <2>3 DEF A!GrowsOld
<1> QED BY <1>0, <1>1, <1>2, HereIs, RightOfHere DEF SensorsShape, Backed, Lent, Course

(* A sampler that is parked has no group under way.                        *)
LEMMA ParkedEffect ==
    ASSUME NEW s, SensorShape(s)
    PROVE  LET r == A!Parked(s)
           IN  SensorShape(r) /\ r.st = "PAUSED" /\ r.paused /\ ~r.refreshing /\ ~r.ready
BY DEF SensorShape, SensorFields, A!Parked, A!ResetGroup

(* The loan of the converter: what was known of the terminals is           *)
(* forgotten.                                                              *)
LEMMA PauseRight == SensorsRight(A!Here) /\ A!Pause => SensorsRight(A!Here)'
<1> SUFFICES ASSUME SensorsRight(A!Here), A!Pause PROVE SensorsRight(A!Here)' OBVIOUS
<1>0. SensorsShape(A!Here) /\ SensorShape(sensors) /\ Lent(A!Here)
  BY HereIs DEF SensorsRight, SensorsShape
<1>1. /\ SensorShape(sensors') /\ sensors'.st = "PAUSED" /\ sensors'.paused
      /\ ~sensors'.refreshing /\ ~sensors'.ready /\ sensors'.residual = "UNKNOWN"
      /\ sensors'.safe_count = 0 /\ sensors'.pub["RESIDUAL"] = "NONE"
  <2> DEFINE k == A!Parked(sensors)
  <2>1. sensors' = A!Disproved(k) BY DEF A!Pause, A!Paused
  <2>2. SensorShape(k) /\ k.st = "PAUSED" /\ k.paused /\ ~k.refreshing /\ ~k.ready
    BY <1>0, ParkedEffect
  <2> HIDE DEF k
  <2> QED BY <2>1, <2>2, DisprovedEffect DEF Course
<1>2. /\ {"busy", "late", "initialized"} \subseteq DOMAIN adc' /\ ~adc'.busy
  BY <1>0, HereIs DEF A!Pause, A!Canceled, SensorsShape, Lent
<1>3. proof'.row = 0 /\ {"row", "safe", "fresh"} \subseteq DOMAIN proof'
  BY DEF A!Pause, A!NoProof
<1> QED BY <1>1, <1>2, <1>3, SensorsSizes, RightOfHere DEF Backed, Lent

(* The converter comes back.                                               *)
LEMMA ResumeRight == SensorsRight(A!Here) /\ A!Resume => SensorsRight(A!Here)'
<1> SUFFICES ASSUME SensorsRight(A!Here), A!Resume PROVE SensorsRight(A!Here)' OBVIOUS
<1>0. SensorsShape(A!Here) /\ SensorShape(sensors) /\ Backed(A!Here) /\ Lent(A!Here)
  BY HereIs DEF SensorsRight, SensorsShape
<1> DEFINE t == [sensors EXCEPT !.paused = FALSE, !.refreshing = FALSE, !.ready = FALSE,
                                !.st = "IDLE", !.due = A!Groups]
<1>1. Evidence(sensors, t) /\ ~t.paused /\ ~t.refreshing /\ ~t.ready /\ t.st = "IDLE"
  BY <1>0 DEF SensorShape, SensorFields, Evidence
<1>2. sensors' = A!ResetGroup(t) BY DEF A!Resume
<1> HIDE DEF t
<1>3. /\ Evidence(sensors, sensors') /\ ~sensors'.paused /\ ~sensors'.refreshing
      /\ ~sensors'.ready /\ sensors'.st = "IDLE"
  BY <1>1, <1>2, ResetEffect DEF Evidence, Course
<1>4. {"busy", "late", "initialized"} \subseteq DOMAIN adc' /\ ~adc'.busy
  BY <1>0, HereIs DEF A!Resume, A!Canceled, SensorsShape
<1>5. proof' = proof BY DEF A!Resume
<1> QED BY <1>0, <1>3, <1>4, <1>5, HereIs, RightOfHere DEF SensorsShape, Backed, Lent, Evidence

(* A refresh of the battery is asked for during a loan.                    *)
LEMMA PowerBeginRight == SensorsRight(A!Here) /\ A!PowerBegin => SensorsRight(A!Here)'
<1> SUFFICES ASSUME SensorsRight(A!Here), A!PowerBegin PROVE SensorsRight(A!Here)' OBVIOUS
<1>0. SensorsShape(A!Here) /\ SensorShape(sensors) /\ Lent(A!Here)
  BY HereIs DEF SensorsRight, SensorsShape
<1> DEFINE t == [sensors EXCEPT !.refreshing = TRUE, !.ready = FALSE, !.phase = "VMID", !.st = "START"]
           d == A!Disproved(t)
<1>1. SensorShape(t) /\ t.paused = sensors.paused /\ t.refreshing /\ ~t.ready /\ t.phase = "VMID"
      /\ t.st = "START"
  BY <1>0 DEF SensorShape, SensorFields
<1>2. sensors' = A!ResetGroup(d) BY DEF A!PowerBegin, A!Refreshed
<1> HIDE DEF t
<1>3. /\ SensorShape(d) /\ d.residual = "UNKNOWN" /\ d.safe_count = 0
      /\ d.pub["RESIDUAL"] = "NONE" /\ Course(t, d)
  BY <1>1, DisprovedEffect
<1> HIDE DEF d
<1>4. SensorShape(sensors') /\ Evidence(d, sensors') /\ Course(d, sensors')
  BY <1>2, <1>3, ResetEffect DEF Evidence
<1>5. /\ {"busy", "late", "initialized"} \subseteq DOMAIN adc' /\ adc'.busy = adc.busy
      /\ ~adc.busy /\ sensors.paused
  BY <1>0, HereIs DEF A!PowerBegin, SensorsShape, Lent
<1>6. proof'.row = 0 /\ {"row", "safe", "fresh"} \subseteq DOMAIN proof'
  BY DEF A!PowerBegin, A!NoProof
<1>7. /\ SensorShape(sensors') /\ sensors'.paused /\ sensors'.refreshing /\ ~sensors'.ready
      /\ sensors'.phase = "VMID" /\ sensors'.st = "START" /\ sensors'.residual = "UNKNOWN"
      /\ sensors'.safe_count = 0 /\ sensors'.pub["RESIDUAL"] = "NONE"
  BY <1>1, <1>3, <1>4, <1>5 DEF Evidence, Course
<1>8. ~adc'.busy BY <1>5
<1> QED BY <1>5, <1>6, <1>7, <1>8, SensorsSizes, RightOfHere DEF Backed, Lent

(* No step of the sampler or of its owner loses it.                        *)
LEMMA SensorsNext == SensorsRight(A!Here) /\ [A!Next]_sampler => SensorsRight(A!Here)'
<1> SUFFICES ASSUME SensorsRight(A!Here), [A!Next]_sampler PROVE SensorsRight(A!Here)' OBVIOUS
<1>1. CASE A!Step
  <2>1. PICK y \in A!StepOf(A!Here) : A!Becomes(y) BY <1>1 DEF A!Step
  <2> QED BY <2>1, StepOfRight, BecomesHere
<1>2. CASE A!Elapse BY <1>2, LateRight, GrowsOldRight DEF A!Elapse
<1>3. CASE UNCHANGED sampler
  <2>1. A!Here' = A!Here BY <1>3 DEF A!Here, sampler
  <2> QED BY <2>1, HereIs, RightOfHere, <1>3
      DEF sampler, SensorsRight, SensorsShape, SensorShape, Backed, Lent
<1> QED BY <1>1, <1>2, <1>3, PauseRight, ResumeRight, PowerBeginRight DEF A!Next

(* What is right says what was asked.                                      *)
LEMMA SensorsRightMeans == SensorsRight(A!Here) => SensorsHonest
<1> SUFFICES ASSUME SensorsRight(A!Here) PROVE SensorsHonest OBVIOUS
<1>1. SensorsShape(A!Here) /\ Backed(A!Here) /\ Lent(A!Here) BY DEF SensorsRight
<1>2. A!SafeIsBacked BY <1>1, HereIs DEF A!SafeIsBacked, A!Residual, Backed, Lent
<1>3. A!RefreshIsFresh
  <2>1. A!PowerStatus(sensors) = "OK" => sensors.ready BY DEF A!PowerStatus
  <2> QED BY <1>1, <2>1, HereIs DEF A!RefreshIsFresh, Backed, Lent
<1> QED BY <1>2, <1>3 DEF SensorsHonest

(* The terminals are called SAFE only on sweeps all taken since the        *)
(* converter was last lent, and a refresh that says OK has sampled the     *)
(* battery since it was asked for (hw_aux_sensors.c, hw_residual.c): for   *)
(* any number of samples to an average and of sweeps in a row, whatever    *)
(* the converter does.                                                     *)
THEOREM SensorsAreHonest == InstrumentSpec => []SensorsHonest
<1>1. InstrumentInit => SensorsRight(A!Here) BY InitSensorsRight DEF InstrumentInit
<1>2. SensorsRight(A!Here) /\ [InstrumentNext]_<<which, vars, session, sampler>> => SensorsRight(A!Here)'
  BY SensorsNext DEF InstrumentNext, OfRange, OfSession, OfSensors
<1> QED BY <1>1, <1>2, SensorsRightMeans, PTL DEF InstrumentSpec

-----------------------------------------------------------------------------
(***************************************************************************)
(* The session.  Its policy first: what a survey has tried, what it tries  *)
(* next, what it says in the end.                                          *)
(***************************************************************************)

(* What a policy is made of, and what is right about it.                   *)
Entry == [cond : M!Condition, reading : M!Reading]
PolicyShape(p) ==
    /\ {"status", "history", "next", "transitions", "primary", "result"} \subseteq DOMAIN p
    /\ {"status", "primary", "class"} \subseteq DOMAIN p.result
    /\ p.history \in Seq(Entry)
PolicyRight(p) ==
    /\ PolicyShape(p)
    /\ p.next = {} \/ \E n \in M!Condition : p.next = {n}
    /\ M!NoConditionTwice(p)
    /\ (p.status = "RUNNING") <=> (p.next # {})
    /\ M!VerdictBorneOut(p)
    /\ p.result.status = IF p.status = "RUNNING" THEN "IDLE" ELSE p.status
    /\ p.status # "RUNNING" => p.result.primary \in {0} \cup DOMAIN p.history
    /\ p.status = "FINAL_OK" => p.result.primary \in DOMAIN p.history

(* A set of naturals has a least element.                                  *)
LEMMA Least ==
    ASSUME NEW T, T \subseteq Nat, T # {}
    PROVE  \E m \in T : \A n \in T : m <= n
<1>1. PICK m \in T : \A n \in T : ~ (<<n, m>> \in OpToRel(<, Nat))
  BY NatLessThanWellFounded, WFMin
<1>2. ASSUME NEW n \in T PROVE m <= n
  <2>1. n \in Nat /\ m \in Nat OBVIOUS
  <2>2. SUFFICES ASSUME n < m PROVE FALSE BY <2>1
  <2>3. <<n, m>> \in OpToRel(<, Nat) BY <2>1, <2>2 DEF OpToRel
  <2> QED BY <1>1, <2>3
<1> QED BY <1>2

(* A score is one of eight.                                                *)
LEMMA ScoreType == ASSUME NEW e PROVE M!Score(e) \in 0 .. 7
BY DEF M!Score

(* The best of some entries is one of them.                                *)
LEMMA BestIsOne ==
    ASSUME NEW p, NEW I, I \subseteq Nat, I # {}
    PROVE  M!Best(p, I) \in I
<1> DEFINE Lag(i) == 7 - M!Score(p.history[i])
           T == {Lag(i) : i \in I}
<1>1. \A i \in I : Lag(i) \in Nat
  <2> SUFFICES ASSUME NEW i \in I PROVE Lag(i) \in Nat OBVIOUS
  <2>1. M!Score(p.history[i]) \in 0 .. 7 BY ScoreType
  <2> QED BY <2>1
<1>2. PICK m \in T : \A n \in T : m <= n BY <1>1, Least
<1> DEFINE J == {i \in I : Lag(i) = m}
<1>3. PICK k \in J : \A j \in J : k <= j
  <2>1. J \subseteq Nat /\ J # {} OBVIOUS
  <2> HIDE DEF J
  <2> QED BY <2>1, Least
<1>4. \A j \in I : \/ M!Score(p.history[k]) > M!Score(p.history[j])
                   \/ M!Score(p.history[k]) = M!Score(p.history[j]) /\ k <= j
  <2> SUFFICES ASSUME NEW j \in I
               PROVE  \/ M!Score(p.history[k]) > M!Score(p.history[j])
                      \/ M!Score(p.history[k]) = M!Score(p.history[j]) /\ k <= j
    OBVIOUS
  <2>1. M!Score(p.history[k]) \in 0 .. 7 /\ M!Score(p.history[j]) \in 0 .. 7 BY ScoreType
  <2>2. Lag(k) <= Lag(j) BY <1>2
  <2>3. Lag(k) = Lag(j) => k <= j BY <1>3
  <2> QED BY <2>1, <2>2, <2>3
<1> QED BY <1>4 DEF M!Best

(* A component is said to be what some good reading says.                  *)
LEMMA ClassIsSeen ==
    ASSUME NEW p, NEW kind \in {"CAPACITIVE", "INDUCTIVE"}, M!Classify(p) = kind
    PROVE  \E i \in M!Entries(p, M!Point) : M!Local(p.history[i].reading) = kind
<1> DEFINE points == M!Entries(p, M!Point)
           locals == {M!Local(p.history[i].reading) : i \in points}
           reactive == locals \cap {"CAPACITIVE", "INDUCTIVE"}
<1>1. kind \in reactive
  <2> DEFINE class == CASE reactive = {"CAPACITIVE"} -> "CAPACITIVE"
                        [] reactive = {"INDUCTIVE"} -> "INDUCTIVE"
                        [] /\ M!At(p, points) = M!Frequencies /\ locals = {"RESISTIVE"}
                           /\ \A i \in points : ~p.history[i].reading.subohm -> "RESISTIVE"
                        [] OTHER -> "UNKNOWN"
  <2>1. class = kind BY DEF M!Classify
  <2> HIDE DEF locals, points
  <2> QED BY <2>1
<1> QED BY <1>1

(* The history is made of entries.                                         *)
LEMMA EntriesAre ==
    ASSUME NEW p, PolicyShape(p)
    PROVE  /\ DOMAIN p.history \subseteq Nat \ {0}
           /\ \A i \in DOMAIN p.history : p.history[i] \in Entry
BY DEF PolicyShape

(* With a good reading in the survey, the one shown is good and bears out  *)
(* what the component is said to be.                                       *)
LEMMA PrimaryBorneOut ==
    ASSUME NEW p, PolicyShape(p), M!Entries(p, M!Point) # {}
    PROVE  LET i == M!Primary(p)
           IN  /\ i \in DOMAIN p.history /\ i # 0
               /\ M!Point(p.history[i].reading)
               /\ ~M!Contradicts(M!Classify(p), p.history[i].reading)
<1> DEFINE class == M!Classify(p)
           agreeing == {i \in M!Entries(p, M!Point) : ~M!Contradicts(class, p.history[i].reading)}
<1>1. M!Entries(p, M!Point) \subseteq DOMAIN p.history BY DEF M!Entries
<1>2. agreeing # {}
  <2>1. CASE class \in {"CAPACITIVE", "INDUCTIVE"}
    <3>1. PICK i \in M!Entries(p, M!Point) : M!Local(p.history[i].reading) = class
      BY <2>1, ClassIsSeen
    <3> DEFINE r == p.history[i].reading
    <3>2. r \in M!Reading BY <1>1, EntriesAre DEF Entry
    <3> HIDE DEF r
    <3>3. M!Local(r) = class BY <3>1 DEF r
    <3>4. r.local = "X" /\ r.x \in Int /\ r.x # 0 /\ (r.x < 0 <=> class = "CAPACITIVE")
      BY <2>1, <3>2, <3>3 DEF M!Local, M!Reading
    <3>5. ~M!Contradicts(class, r) BY <2>1, <3>4 DEF M!Contradicts
    <3> QED BY <3>5 DEF r
  <2>2. CASE class \notin {"CAPACITIVE", "INDUCTIVE"}
    <3>1. \A r : ~M!Contradicts(class, r) BY <2>2 DEF M!Contradicts
    <3> HIDE DEF class
    <3> QED BY <3>1
  <2> QED BY <2>1, <2>2
<1>3. agreeing \subseteq Nat BY <1>1, EntriesAre
<1>4. M!Primary(p) = M!Best(p, agreeing) BY <1>2 DEF M!Primary
<1>5. M!Primary(p) \in agreeing
  <2> HIDE DEF agreeing
  <2> QED BY <1>2, <1>3, <1>4, BestIsOne
<1> QED BY <1>1, <1>5, EntriesAre DEF M!Entries

(* What is shown is an entry of the survey, if there is one to show.       *)
LEMMA PrimaryIsEntry ==
    ASSUME NEW p, PolicyShape(p)
    PROVE  M!Primary(p) \in {0} \cup DOMAIN p.history
<1> DEFINE agreeing == {i \in M!Entries(p, M!Point) :
                          ~M!Contradicts(M!Classify(p), p.history[i].reading)}
           I == IF agreeing # {} THEN agreeing ELSE M!Entries(p, M!MathOk)
<1>1. I \subseteq DOMAIN p.history BY DEF M!Entries
<1>2. M!Primary(p) = M!Best(p, I) BY DEF M!Primary
<1> HIDE DEF I
<1>3. I \subseteq Nat BY <1>1, EntriesAre
<1>4. CASE I = {} BY <1>2, <1>4 DEF M!Best
<1>5. CASE I # {} BY <1>1, <1>2, <1>3, <1>5, BestIsOne
<1> QED BY <1>4, <1>5

(* What finalize_result leaves.                                            *)
LEMMA FinalizedEffect ==
    ASSUME NEW p, PolicyShape(p), NEW status
    PROVE  LET f == M!Finalized(p, status)
           IN  /\ PolicyShape(f) /\ f.history = p.history /\ f.status = status /\ f.next = {}
               /\ f.result = [status |-> status, primary |-> M!Primary(p), class |-> M!Classify(p)]
<1> DEFINE q == [status |-> status, primary |-> M!Primary(p), class |-> M!Classify(p)]
<1>1. M!Finalized(p, status) = [p EXCEPT !.status = status, !.next = {}, !.result = q]
  BY DEF M!Finalized
<1>2. {"status", "primary", "class"} \subseteq DOMAIN q OBVIOUS
<1> HIDE DEF q
<1>3. LET f == M!Finalized(p, status)
      IN  /\ PolicyShape(f) /\ f.history = p.history /\ f.status = status /\ f.next = {}
          /\ f.result = q
  BY <1>1, <1>2 DEF PolicyShape
<1> QED BY <1>3 DEF q

Tries(p) == \A i, j \in DOMAIN p.history : p.history[i].cond = p.history[j].cond => i = j
Verdicts == {"FINAL_OK", "OPEN_LIKE", "SHORT_LIKE"}
(* A survey is over with a verdict it has earned, or with none.            *)
LEMMA FinalizedRight ==
    ASSUME NEW p, PolicyShape(p), Tries(p), NEW status, status # "RUNNING",
           status \in Verdicts => status = M!SurveyStatus(p)
    PROVE  PolicyRight(M!Finalized(p, status))
<1> DEFINE f == M!Finalized(p, status)
<1>1. /\ PolicyShape(f) /\ f.history = p.history /\ f.status = status /\ f.next = {}
      /\ f.result = [status |-> status, primary |-> M!Primary(p), class |-> M!Classify(p)]
  BY FinalizedEffect
<1> HIDE DEF f
<1>2. M!NoConditionTwice(f) BY <1>1 DEF M!NoConditionTwice, Tries
<1>3. M!At(f, DOMAIN f.history) = M!At(p, DOMAIN p.history)
      /\ M!Entries(f, M!Point) = M!Entries(p, M!Point)
  BY <1>1 DEF M!At, M!Entries
<1>4. /\ status \in Verdicts => M!At(p, DOMAIN p.history) = M!Frequencies
      /\ status = "FINAL_OK" => M!Entries(p, M!Point) # {}
      /\ status \in {"OPEN_LIKE", "SHORT_LIKE"} => M!Entries(p, M!Point) = {}
  BY DEF M!SurveyStatus, Verdicts
<1>5. status = "FINAL_OK" =>
        LET i == f.result.primary
        IN  i \in DOMAIN f.history /\ i # 0 /\ M!Point(f.history[i].reading)
            /\ ~M!Contradicts(f.result.class, f.history[i].reading)
  <2> SUFFICES ASSUME status = "FINAL_OK"
               PROVE  LET i == f.result.primary
                      IN  i \in DOMAIN f.history /\ i # 0 /\ M!Point(f.history[i].reading)
                          /\ ~M!Contradicts(f.result.class, f.history[i].reading)
    OBVIOUS
  <2>1. f.result.primary = M!Primary(p) /\ f.result.class = M!Classify(p) BY <1>1
  <2>2. M!Entries(p, M!Point) # {} BY <1>4
  <2> QED BY <1>1, <2>1, <2>2, PrimaryBorneOut
<1>6. M!VerdictBorneOut(f)
  <2>1. f.status \in Verdicts => M!At(f, DOMAIN f.history) = M!Frequencies
    BY <1>1, <1>3, <1>4
  <2>2. f.status \in {"OPEN_LIKE", "SHORT_LIKE"} => M!Entries(f, M!Point) = {}
    BY <1>1, <1>3, <1>4
  <2>3. f.status = "FINAL_OK" => f.result.primary # 0 /\ M!Point(f.history[f.result.primary].reading)
        /\ ~M!Contradicts(f.result.class, f.history[f.result.primary].reading)
    BY <1>1, <1>5
  <2> QED BY <2>1, <2>2, <2>3 DEF M!VerdictBorneOut, Verdicts
<1>7. f.result.primary \in {0} \cup DOMAIN f.history BY <1>1, PrimaryIsEntry
<1> QED BY <1>1, <1>2, <1>5, <1>6, <1>7 DEF PolicyRight, f

(* A survey that is stopped has no verdict, and is otherwise right.        *)
LEMMA StoppedRight ==
    ASSUME NEW p, PolicyRight(p), NEW status \in {"CANCELED", "SAFETY_ABORT", "FAILED"}
    PROVE  /\ PolicyRight(M!Stopped(p, status))
           /\ p.status # "IDLE" => M!Stopped(p, status).status = status
<1>1. PolicyShape(p) /\ Tries(p) BY DEF PolicyRight, Tries, M!NoConditionTwice
<1> QED BY <1>1, FinalizedRight, FinalizedEffect DEF M!Stopped, Verdicts

(* What the policy tries next: nothing, or one condition not tried yet.    *)
Offered(p, next) ==
    next = {} \/ \E n \in M!Condition : next = {n} /\ M!Allowed(n) /\ n \notin M!Tried(p)

(* A condition is offered only if it can be tried.                         *)
LEMMA AppendableOffered ==
    ASSUME NEW p, NEW n, n.range \in M!Ranges => n \in M!Condition
    PROVE  Offered(p, M!Appendable(p, n))
BY DEF Offered, M!Appendable, M!CanAppend, M!Allowed

(* The next range.                                                         *)
LEMMA RangedOffered ==
    ASSUME NEW p, NEW c \in M!Condition, NEW d PROVE Offered(p, M!Ranged(p, c, d))
<1>1. Offered(p, M!Appendable(p, [c EXCEPT !.range = c.range + d]))
  BY AppendableOffered DEF M!Condition
<1> QED BY <1>1 DEF M!Ranged, Offered

(* The larger drive.                                                       *)
LEMMA LouderOffered ==
    ASSUME NEW p, NEW c \in M!Condition PROVE Offered(p, M!Louder(p, c))
<1>1. Offered(p, M!Appendable(p, [c EXCEPT !.amp = 500]))
  BY AppendableOffered DEF M!Condition
<1> QED BY <1>1 DEF M!Louder, Offered

(* One or else the other.                                                  *)
LEMMA FirstOfOffered ==
    ASSUME NEW p, NEW a, NEW b, Offered(p, a), Offered(p, b)
    PROVE  Offered(p, M!FirstOf(a, b))
BY DEF M!FirstOf

(* What comes next at one frequency.                                       *)
LEMMA WithinOffered ==
    ASSUME NEW p, NEW c \in M!Condition, NEW r PROVE Offered(p, M!Within(p, c, r))
<1>0. Offered(p, {}) BY DEF Offered
<1> DEFINE up == M!Ranged(p, c, 1)
           down == M!Ranged(p, c, -1)
           weak == IF r.level = "WEAK" THEN M!Louder(p, c) ELSE {}
           source == IF r.source THEN down ELSE {}
           near == CASE r.ratio \in {"TINY", "SMALL"} -> down
                     [] r.ratio \in {"LARGE", "HUGE"} -> up
                     [] OTHER -> {}
<1>1. Offered(p, up) /\ Offered(p, down) BY RangedOffered
<1>2. Offered(p, M!Louder(p, c)) /\ Offered(p, weak) BY <1>0, LouderOffered
<1> HIDE DEF up, down
<1>3. Offered(p, source) /\ Offered(p, near) BY <1>0, <1>1
<1>4. M!Within(p, c, r) \in {up, down, {}, M!FirstOf(source, M!Louder(p, c)), M!FirstOf(near, weak)}
  <2> HIDE DEF weak, source, near
  <2> QED BY DEF M!Within, up, down, weak, source, near
<1> HIDE DEF weak, source, near
<1> QED BY <1>0, <1>1, <1>2, <1>3, <1>4, FirstOfOffered

(* What comes next at the next frequency.                                  *)
LEMMA NextStageOffered ==
    ASSUME NEW p, NEW c \in M!Condition PROVE Offered(p, M!NextStage(p, c))
<1> DEFINE n == [range |-> c.range, amp |-> 100, freq |-> IF c.freq = "1KHZ" THEN "10KHZ" ELSE "10HZ"]
<1>1. n \in M!Condition BY DEF M!Condition, M!Frequencies
<1>2. Offered(p, M!Appendable(p, n)) BY <1>1, AppendableOffered
<1> QED BY <1>2 DEF M!NextStage, Offered

(* A capture is entered under the condition that was to be tried.          *)
LEMMA StoredEffect ==
    ASSUME NEW p, PolicyRight(p), p.status = "RUNNING", NEW r \in M!Reading
    PROVE  LET s == M!Stored(p, r)
               n == Len(s.history)
           IN  /\ PolicyShape(s) /\ Tries(s) /\ n \in DOMAIN s.history
               /\ s.history[n].cond \in M!Condition /\ s.history[n].reading = r
               /\ s.result = p.result /\ s.status = p.status
<1> DEFINE c == CHOOSE n \in p.next : TRUE
           e == [cond |-> c, reading |-> r]
           h == Append(p.history, e)
           s == M!Stored(p, r)
<1>0. PolicyShape(p) /\ M!NoConditionTwice(p) BY DEF PolicyRight
<1>1. c \in p.next /\ c \in M!Condition /\ c \notin M!Tried(p)
  BY <1>0 DEF PolicyRight, M!NoConditionTwice
<1> HIDE DEF c
<1>2. e \in Entry BY <1>1 DEF Entry
<1>3. e.cond = c /\ e.reading = r OBVIOUS
<1> HIDE DEF e
<1>4. /\ h \in Seq(Entry) /\ Len(h) = Len(p.history) + 1 /\ DOMAIN h = 1 .. Len(h)
      /\ DOMAIN p.history = 1 .. Len(p.history) /\ Len(p.history) \in Nat
      /\ h[Len(h)] = e /\ \A i \in 1 .. Len(p.history) : h[i] = p.history[i]
  BY <1>0, <1>2 DEF PolicyShape
<1>5. s.history = h /\ s.result = p.result /\ s.status = p.status /\ PolicyShape(s)
  <2> HIDE DEF h
  <2>1. s = [p EXCEPT !.history = h, !.next = {}] BY DEF M!Stored, h, e, c
  <2> QED BY <2>1, <1>0, <1>4 DEF PolicyShape
<1> HIDE DEF h, s
<1>6. \A i \in 1 .. Len(p.history) : h[i].cond # c
  BY <1>1, <1>4 DEF M!Tried
<1>7. Tries(s)
  <2> SUFFICES ASSUME NEW i \in DOMAIN h, NEW j \in DOMAIN h, h[i].cond = h[j].cond PROVE i = j
    BY <1>5 DEF Tries
  <2>1. CASE i \in DOMAIN p.history /\ j \in DOMAIN p.history
    BY <1>0, <1>4, <2>1 DEF M!NoConditionTwice
  <2>2. CASE i \notin DOMAIN p.history \/ j \notin DOMAIN p.history
    <3>1. i = Len(h) \/ j = Len(h) BY <1>4, <2>2
    <3>2. h[Len(h)].cond = c BY <1>3, <1>4
    <3> QED BY <1>4, <1>6, <3>1, <3>2
  <2> QED BY <2>1, <2>2
<1> QED BY <1>1, <1>3, <1>4, <1>5, <1>7 DEF s

(* A survey that goes on has one condition to go on with.                  *)
LEMMA GoOnRight ==
    ASSUME NEW s, PolicyShape(s), Tries(s), s.status = "RUNNING", s.result.status = "IDLE",
           NEW next, next # {}, Offered(s, next), NEW c
    PROVE  PolicyRight(M!GoOn(s, next, c)) /\ M!GoOn(s, next, c).status = "RUNNING"
<1> DEFINE g == M!GoOn(s, next, c)
           k == IF \E n \in next : n.range # c.range THEN s.transitions + 1 ELSE s.transitions
<1>1. g = [s EXCEPT !.next = next, !.transitions = k] BY DEF M!GoOn
<1> HIDE DEF g, k
<1>2. /\ PolicyShape(g) /\ g.history = s.history /\ g.status = "RUNNING" /\ g.next = next
      /\ g.result = s.result
  BY <1>1 DEF PolicyShape
<1>3. M!Tried(g) = M!Tried(s) BY <1>2 DEF M!Tried
<1>4. M!NoConditionTwice(g) BY <1>2, <1>3 DEF M!NoConditionTwice, Tries, Offered
<1>5. M!VerdictBorneOut(g) BY <1>2 DEF M!VerdictBorneOut
<1> QED BY <1>2, <1>4, <1>5 DEF PolicyRight, Offered, g

(* What a capture showed is entered, and the survey goes on or is over.    *)
LEMMA DecidedRight ==
    ASSUME NEW p, PolicyRight(p), p.status = "RUNNING", NEW r \in M!Reading
    PROVE  LET d == M!Decided(M!Stored(p, r))
           IN  /\ PolicyRight(d) /\ d.status # "IDLE"
               /\ M!NoBlock(r) => d.status \in {"SAFETY_ABORT", "FAILED"}
<1> DEFINE s == M!Stored(p, r)
           n == Len(s.history)
           c == s.history[n].cond
           q == s.history[n].reading
           d == M!Decided(s)
           within == M!Within(s, c, q)
           across == M!NextStage(s, c)
           k == IF M!MathOk(q) /\ s.primary = 0 THEN n ELSE s.primary
           first == [s EXCEPT !.primary = k]
<1>1. /\ PolicyShape(s) /\ Tries(s) /\ n \in DOMAIN s.history
      /\ c \in M!Condition /\ q = r
      /\ s.status = "RUNNING" /\ s.result.status = "IDLE"
  BY StoredEffect DEF PolicyRight
<1> HIDE DEF s
<1>2. Offered(s, within) /\ Offered(s, across) BY <1>1, WithinOffered, NextStageOffered
<1>3. d = CASE M!NoBlock(q) -> M!Finalized(s, IF q.kind = "ABORTED" THEN "SAFETY_ABORT" ELSE "FAILED")
            [] ~M!NoBlock(q) /\ M!StageCount(s, c.freq) < StageMax /\ within # {} -> M!GoOn(s, within, c)
            [] OTHER -> IF across # {} THEN M!GoOn(first, across, c)
                        ELSE M!Finalized(s, M!SurveyStatus(s))
  BY DEF M!Decided
<1> HIDE DEF d, within, across
<1> SUFFICES /\ PolicyRight(d) /\ d.status # "IDLE"
             /\ M!NoBlock(q) => d.status \in {"SAFETY_ABORT", "FAILED"}
  BY <1>1 DEF s, d
<1>4. CASE M!NoBlock(q)
  <2>1. PICK status \in {"SAFETY_ABORT", "FAILED"} : d = M!Finalized(s, status) BY <1>3, <1>4
  <2>2. status # "RUNNING" /\ status # "IDLE" /\ status \notin Verdicts BY DEF Verdicts
  <2>3. PolicyShape(s) /\ Tries(s) BY <1>1
  <2>4. PolicyRight(M!Finalized(s, status)) BY <2>2, <2>3, FinalizedRight
  <2>5. M!Finalized(s, status).status = status BY <2>3, FinalizedEffect
  <2> QED BY <2>1, <2>2, <2>4, <2>5
<1>5. CASE ~M!NoBlock(q)
  <2>1. CASE M!StageCount(s, c.freq) < StageMax /\ within # {}
    <3>1. d = M!GoOn(s, within, c) BY <1>3, <1>5, <2>1
    <3> QED BY <1>1, <1>2, <1>5, <2>1, <3>1, GoOnRight
  <2>2. CASE ~(M!StageCount(s, c.freq) < StageMax /\ within # {}) /\ across # {}
    <3>1. d = M!GoOn(first, across, c) BY <1>3, <1>5, <2>2
    <3> HIDE DEF k
    <3>2. /\ PolicyShape(first) /\ first.history = s.history /\ first.status = "RUNNING"
          /\ first.result = s.result
      BY <1>1 DEF PolicyShape
    <3> HIDE DEF first
    <3>3. Tries(first) /\ Offered(first, across) BY <1>1, <1>2, <3>2 DEF Tries, Offered, M!Tried
    <3> QED BY <1>1, <1>5, <2>2, <3>1, <3>2, <3>3, GoOnRight
  <2>3. CASE ~(M!StageCount(s, c.freq) < StageMax /\ within # {}) /\ across = {}
    <3>1. d = M!Finalized(s, M!SurveyStatus(s)) BY <1>3, <1>5, <2>3
    <3>2. M!SurveyStatus(s) \notin {"RUNNING", "IDLE"} BY DEF M!SurveyStatus
    <3>3. PolicyShape(s) /\ Tries(s) BY <1>1
    <3>4. PolicyRight(M!Finalized(s, M!SurveyStatus(s))) BY <3>2, <3>3, FinalizedRight
    <3>5. M!Finalized(s, M!SurveyStatus(s)).status = M!SurveyStatus(s) BY <3>3, FinalizedEffect
    <3> QED BY <1>5, <3>1, <3>2, <3>4, <3>5
  <2> QED BY <2>1, <2>2, <2>3
<1> QED BY <1>4, <1>5

-----------------------------------------------------------------------------
(* The transaction of the session.                                         *)
Sound(a) == a \in M!Attempts /\ ~a.lost

(* The transaction is aborted, or already was at rest.                     *)
LEMMA AbortedEffect ==
    ASSUME NEW a, Sound(a)
    PROVE  LET b == M!AbortedAttempt(a)
           IN  /\ Sound(b) /\ (a.st = "IDLE" => b = a) /\ (a.st = "DONE" => b.st = "IDLE")
               /\ M!AttemptActive(a) => b.st = "ABORT"
BY DEF Sound, M!Attempts, M!AbortedAttempt, M!Untouched, M!AttemptActive

(* The steps a transaction takes, by the state it is in.                   *)
LEMMA StepsEffect ==
    ASSUME NEW a, Sound(a), NEW b \in M!Steps(a)
    PROVE  /\ Sound(b)
           /\ a.st \in {"IDLE", "DONE"} => b = a
           /\ a.st = "RUN" /\ a.hold => b = a \/ b.st = "ABORT" \/ (b.st = "HOLD" /\ b.valid)
           /\ a.st = "HOLD" => b = a \/ b.st = "ABORT"
           /\ a.st = "END" => b.st \in {"END", "DONE", "ABORT"}
           /\ a.st = "ABORT" => b.st \in {"ABORT", "IDLE"}
<1> DEFINE q == M!AbortedAttempt(a)
<1>1. Sound(q) /\ (M!AttemptActive(a) => q.st = "ABORT") BY AbortedEffect
<1> HIDE DEF q
<1>2. CASE a.st = "RUN" /\ a.hold
  <2>1. b = a \/ b = [a EXCEPT !.st = "HOLD", !.hold = FALSE, !.valid = TRUE] \/ b = q
    BY <1>2 DEF M!Steps, q
  <2> QED BY <1>1, <1>2, <2>1 DEF Sound, M!Attempts, M!AttemptActive
<1>3. CASE a.st = "RUN" /\ ~a.hold
  <2>1. b = a \/ b = [a EXCEPT !.st = "END"] \/ b = q BY <1>3 DEF M!Steps, q
  <2> QED BY <1>1, <1>3, <2>1 DEF Sound, M!Attempts, M!AttemptActive
<1>4. CASE a.st = "HOLD"
  <2>1. b = a \/ b = q BY <1>4 DEF M!Steps, q
  <2> QED BY <1>1, <1>4, <2>1 DEF Sound, M!Attempts, M!AttemptActive
<1>5. CASE a.st = "END"
  <2>1. b = a \/ (\E v \in BOOLEAN : b = [a EXCEPT !.st = "DONE", !.valid = v]) \/ b = q
    BY <1>5 DEF M!Steps, q
  <2> QED BY <1>1, <1>5, <2>1 DEF Sound, M!Attempts, M!AttemptActive
<1>6. CASE a.st = "ABORT"
  <2>1. b = a \/ b = [a EXCEPT !.st = "IDLE", !.begun = FALSE] \/ b = [a EXCEPT !.begun = TRUE]
    BY <1>6 DEF M!Steps
  <2> QED BY <1>6, <2>1 DEF Sound, M!Attempts
<1>7. CASE a.st \in {"IDLE", "DONE"} BY <1>7 DEF M!Steps, Sound
<1> QED BY <1>2, <1>3, <1>4, <1>5, <1>6, <1>7 DEF Sound, M!Attempts

(* To acknowledge puts to rest what has ended and leaves what is held.     *)
LEMMA AcknowledgedEffect ==
    ASSUME NEW a, Sound(a), a.st \in {"IDLE", "DONE", "HOLD"}
    PROVE  LET b == M!Acknowledged(a)
           IN  /\ Sound(b) /\ b.failed = a.failed
               /\ b.st = IF a.st = "HOLD" THEN "HOLD" ELSE "IDLE"
BY DEF Sound, M!Attempts, M!Acknowledged, M!AttemptActive

TrimShape(tr) ==
    /\ {"requested", "trimming", "applied", "seen", "mean", "extra"} \subseteq DOMAIN tr
    /\ {tr.requested, tr.trimming, tr.applied} \subseteq BOOLEAN
    /\ tr.seen \in Seq(M!Reading) /\ tr.extra \in Nat
Earned(tr, p) ==
    /\ tr.requested /\ tr.applied /\ Len(tr.seen) = TrimmedSamples
    /\ \A mean \in tr.mean : ~M!Contradicts(p.result.class, mean)
(* The repeats of a survey's best condition are under way.                 *)
Repeating(tr, p) ==
    /\ tr.trimming /\ tr.requested /\ p.status = "FINAL_OK"
    /\ Len(tr.seen) < TrimmedSamples

(* The number of repeats is at least two.                                  *)
LEMMA SessionSizes == TrimmedSamples \in Nat /\ TrimmedSamples > 1 /\ MaxExtraCaptures \in Nat
BY InstrumentAssumption DEF InstrumentAssumption, M!SessionAssumption

(* A result of the policy becomes repeats, or final, or final once the     *)
(* hardware is released.                                                   *)
LEMMA PublishEffect ==
    ASSUME NEW p, PolicyRight(p), p.status \notin {"RUNNING", "IDLE"}, NEW tr, TrimShape(tr),
           NEW a, M!Publish(p, tr, a),
           p.status = "FINAL_OK" => ~tr.requested \/ Earned(tr, p)
    PROVE  /\ PolicyRight(policy') /\ policy'.status \notin {"RUNNING", "IDLE"}
           /\ TrimShape(trim') /\ (p.status # "FINAL_OK" => policy' = p)
           /\ \/ /\ state' = "START_ATTEMPT" /\ final' = FALSE /\ p.status = "FINAL_OK"
                 /\ ~tr.requested /\ Repeating(trim', policy')
              \/ /\ state' = IF M!AttemptActive(a) THEN "FINISHING" ELSE "DONE"
                 /\ final' = ~M!AttemptActive(a)
                 /\ policy'.status = "FINAL_OK" => Earned(trim', policy') /\ policy' = p
<1>1. CASE M!Repeats(p, tr)
  <2> DEFINE r == p.history[p.result.primary].reading
  <2>1. /\ p.status = "FINAL_OK" /\ ~tr.requested
        /\ policy' = p /\ state' = "START_ATTEMPT" /\ final' = FALSE
        /\ trim' = [tr EXCEPT !.requested = TRUE, !.trimming = TRUE, !.seen = <<r>>]
    BY <1>1 DEF M!Publish, M!Repeats, PolicyRight
  <2>2. r \in M!Reading BY <2>1, EntriesAre DEF PolicyRight, Entry
  <2> HIDE DEF r
  <2>3. <<r>> \in Seq(M!Reading) /\ Len(<<r>>) = 1 BY <2>2
  <2>4. TrimShape(trim') /\ trim'.requested /\ trim'.trimming /\ trim'.seen = <<r>>
    BY <2>1, <2>3 DEF TrimShape
  <2> QED BY <2>1, <2>3, <2>4, SessionSizes DEF Repeating
<1>2. CASE ~M!Repeats(p, tr)
  <2> DEFINE q == M!Outcome(p, tr)
             ok == tr.applied /\ policy'.result.status = "FINAL_OK"
             requested == tr.requested \/ p.result.status = "FINAL_OK"
  <2>1. /\ policy' = q
        /\ trim' = [tr EXCEPT !.requested = requested, !.applied = ok]
        /\ state' = IF M!AttemptActive(a) THEN "FINISHING" ELSE "DONE"
        /\ final' = ~M!AttemptActive(a)
    BY <1>2 DEF M!Publish
  <2>2. p.result.status = p.status BY DEF PolicyRight
  <2>3. PolicyRight(q) /\ (q.status = "FAILED" \/ q = p) /\ (q.status = "FINAL_OK" => tr.requested)
    BY <2>2, StoppedRight DEF M!Outcome
  <2>4. q.result.status = IF q.status = "RUNNING" THEN "IDLE" ELSE q.status
    BY <2>3 DEF PolicyRight
  <2>5. /\ ok \in BOOLEAN /\ requested \in BOOLEAN
        /\ trim'.requested = requested /\ trim'.applied = ok /\ trim'.seen = tr.seen
        /\ trim'.mean = tr.mean /\ trim'.extra = tr.extra /\ trim'.trimming = tr.trimming
        /\ {"requested", "trimming", "applied", "seen", "mean", "extra"} \subseteq DOMAIN trim'
    BY <2>1 DEF TrimShape
  <2>6. TrimShape(trim') BY <2>5 DEF TrimShape
  <2>7. p.status # "FINAL_OK" => q = p BY <2>2 DEF M!Outcome
  <2>8. q.status = "FINAL_OK" => Earned(trim', q) /\ q = p
    BY <2>1, <2>2, <2>3, <2>4, <2>5 DEF Earned
  <2> HIDE DEF q
  <2> QED BY <2>1, <2>3, <2>6, <2>7, <2>8
<1> QED BY <1>1, <1>2

Leased(l, a) == (l = "METROLOGY") <=> M!AttemptActive(a)
Captures == {"START_ATTEMPT", "WAIT_ATTEMPT", "PROCESS_DSP"}
(* What a session state says of the transaction.                           *)
Place(s, a) ==
    /\ s \in M!SessionStates
    /\ s = "START_ATTEMPT" => a.st \in {"IDLE", "HOLD"}
    /\ s = "WAIT_ATTEMPT" => (a.st = "RUN" /\ a.hold) \/ a.st = "ABORT"
    /\ s = "PROCESS_DSP" => a.st = "HOLD" /\ a.valid
    /\ s = "CANCELING" => a.st = "ABORT"
    /\ s = "FINISHING" => a.st \in {"HOLD", "END", "ABORT"}
    /\ s \in {"IDLE", "DONE"} => a.st = "IDLE"
(* A survey, or the repeats after it, goes on.                             *)
Surveying ==
    IF trim.trimming THEN Repeating(trim, policy) ELSE policy.status = "RUNNING" /\ ~trim.requested
SessionRight ==
    /\ Sound(att) /\ Leased(lease, att) /\ (M!AttemptActive(att) => started)
    /\ Place(state, att) /\ (final => state \in {"IDLE", "DONE"})
    /\ PolicyRight(policy) /\ TrimShape(trim)
    /\ state \notin {"IDLE", "DONE"} => policy.status # "IDLE"
    /\ state \in Captures => Surveying
    /\ state = "FINISHING" =>
          policy.status # "RUNNING" /\ (policy.status = "FINAL_OK" => Earned(trim, policy))
    /\ final => /\ cancel => policy.status = "CANCELED"
                /\ policy.status = "FINAL_OK" => Earned(trim, policy) /\ ~att.failed

(* A session that has not begun is right.                                  *)
LEMMA InitSessionRight == M!Init => SessionRight
<1> SUFFICES ASSUME M!Init PROVE SessionRight OBVIOUS
<1>1. Sound(att) /\ ~M!AttemptActive(att) /\ att.st = "IDLE"
  BY DEF M!Init, M!Untouched, M!Attempts, Sound, M!AttemptActive
<1>2. PolicyRight(policy)
  <2>1. PolicyShape(policy) /\ policy.history = <<>> /\ policy.next = {} /\ policy.status = "IDLE"
        /\ policy.result.status = "IDLE" /\ policy.result.primary = 0
    BY DEF M!Init, M!NoSession, M!NoResult, PolicyShape
  <2> QED BY <2>1 DEF PolicyRight, M!NoConditionTwice, M!VerdictBorneOut
<1>3. TrimShape(trim) BY DEF M!Init, M!NoTrim, TrimShape
<1>4. state = "IDLE" /\ final = FALSE /\ lease = "FREE" BY DEF M!Init
<1> QED BY <1>1, <1>2, <1>3, <1>4 DEF SessionRight, Leased, Place, M!SessionStates, Captures

(* The survey is over; a is the transaction then.                          *)
Ended(a) ==
    /\ PolicyRight(policy') /\ TrimShape(trim') /\ policy'.status \notin {"RUNNING", "IDLE"}
    /\ state' = IF M!AttemptActive(a) THEN "FINISHING" ELSE "DONE"
    /\ final' = ~M!AttemptActive(a)
    /\ policy'.status = "FINAL_OK" => Earned(trim', policy')

(* A survey that is over is final if the hardware is at rest, and is       *)
(* finishing if not.                                                       *)
LEMMA EndedRight ==
    ASSUME NEW a, Ended(a), Sound(att'), Leased(lease', att'), M!AttemptActive(att') => started',
           M!AttemptActive(att') <=> M!AttemptActive(a),
           M!AttemptActive(att') => att'.st \in {"HOLD", "END", "ABORT"},
           ~M!AttemptActive(att') => /\ att'.st = "IDLE" /\ (cancel' => policy'.status = "CANCELED")
                                     /\ policy'.status = "FINAL_OK" => ~att'.failed
    PROVE  SessionRight'
<1>1. CASE M!AttemptActive(a)
  <2>1. state' = "FINISHING" /\ final' = FALSE BY <1>1 DEF Ended
  <2> QED BY <1>1, <2>1 DEF Ended, SessionRight, Place, M!SessionStates, Captures
<1>2. CASE ~M!AttemptActive(a)
  <2>1. state' = "DONE" /\ final' = TRUE BY <1>2 DEF Ended
  <2> QED BY <1>2, <2>1 DEF Ended, SessionRight, Place, M!SessionStates, Captures
<1> QED BY <1>1, <1>2

(* A miss leaves the transaction as it was, or under abort.                *)
LEMMA AfterMissEffect ==
    ASSUME NEW a, Sound(a), a.st # "DONE"
    PROVE  LET b == M!AfterMiss(a)
           IN  /\ Sound(b) /\ (M!AttemptActive(b) <=> M!AttemptActive(a))
               /\ b.st \in {a.st, "ABORT"} /\ (a.st = "IDLE" => b.st = "IDLE")
BY AbortedEffect DEF M!AfterMiss, Sound, M!Attempts, M!AttemptActive
(* A capture without a block ends the survey, or the repeats.              *)
LEMMA MissEffect ==
    ASSUME PolicyRight(policy), TrimShape(trim), Surveying, NEW a, M!Miss(a)
    PROVE  Ended(M!AfterMiss(a)) /\ policy'.status # "FINAL_OK"
<1>1. PICK kind \in {"FAILED", "ABORTED"} :
        IF trim.trimming
        THEN M!Publish(M!Stopped(policy, IF kind = "ABORTED" THEN "SAFETY_ABORT" ELSE "FAILED"),
                       [trim EXCEPT !.trimming = FALSE], M!AfterMiss(a))
        ELSE M!Publish(M!Decided(M!Stored(policy, M!Missing(kind))), trim, a)
  BY DEF M!Miss
<1>2. CASE trim.trimming
  <2> DEFINE status == IF kind = "ABORTED" THEN "SAFETY_ABORT" ELSE "FAILED"
             p == M!Stopped(policy, status)
             tr == [trim EXCEPT !.trimming = FALSE]
  <2>1. status \in {"SAFETY_ABORT", "FAILED"} OBVIOUS
  <2>2. PolicyRight(p) /\ p.status \in {"SAFETY_ABORT", "FAILED"}
    BY <1>2, <2>1, StoppedRight DEF Surveying, Repeating
  <2>3. TrimShape(tr) BY DEF TrimShape
  <2>4. M!Publish(p, tr, M!AfterMiss(a)) BY <1>1, <1>2
  <2> HIDE DEF p, tr
  <2> QED BY <2>2, <2>3, <2>4, PublishEffect DEF Ended
<1>3. CASE ~trim.trimming
  <2> DEFINE p == M!Decided(M!Stored(policy, M!Missing(kind)))
  <2>1. M!Missing(kind) \in M!Reading /\ M!NoBlock(M!Missing(kind))
    BY DEF M!Missing, M!Reading, M!NoBlock
  <2>2. PolicyRight(p) /\ p.status \in {"SAFETY_ABORT", "FAILED"}
    BY <1>3, <2>1, DecidedRight DEF Surveying
  <2>3. M!Publish(p, trim, a) /\ M!AfterMiss(a) = a BY <1>1, <1>3 DEF M!AfterMiss
  <2> HIDE DEF p
  <2> QED BY <2>2, <2>3, PublishEffect DEF Ended
<1> QED BY <1>2, <1>3

(* A capture that is started has the transaction and the workspace; one    *)
(* that is refused has left neither changed unless it aborts.              *)
LEMMA StartCallsEffect ==
    ASSUME NEW a, Sound(a), a.st \in {"IDLE", "HOLD"}, NEW l, Leased(l, a),
           NEW call \in M!StartCalls(a, l, TRUE)
    PROVE  /\ Sound(call.att) /\ Leased(call.lease, call.att)
           /\ call.ok => call.att.st = "RUN" /\ call.att.hold
           /\ ~call.ok => /\ call.att.st \in {"IDLE", "ABORT"}
                          /\ call.att.st = "ABORT" => a.st = "HOLD"
<1> DEFINE q == M!AbortedAttempt(a)
           run == M!Running(a, TRUE)
           rest == {[M!Untouched EXCEPT !.st = s, !.failed = TRUE, !.lost = a.lost] : s \in {a.st, "IDLE"}}
<1>1. Sound(q) /\ (a.st = "HOLD" => q.st = "ABORT") BY AbortedEffect DEF M!AttemptActive
<1>2. Sound(run) /\ run.st = "RUN" /\ run.hold = TRUE
  BY DEF M!Running, M!Untouched, M!Attempts, Sound
<1>3. a.st = "IDLE" => \A b \in rest : Sound(b) /\ b.st = "IDLE"
  BY DEF M!Untouched, M!Attempts, Sound
<1> HIDE DEF q, run, rest
<1>4. M!Starts(a, TRUE) = IF a.st = "HOLD" THEN {run, q} ELSE {run} \cup rest
  BY DEF M!Starts, run, q, rest
<1>5. CASE a.st = "HOLD"
  <2>1. l = "METROLOGY" BY <1>5 DEF Leased, M!AttemptActive
  <2>2. PICK b \in {run, q} :
          call = [att |-> b, ok |-> b.st = "RUN",
                  lease |-> IF M!AttemptActive(b) THEN "METROLOGY" ELSE "FREE"]
    BY <1>4, <1>5, <2>1 DEF M!StartCalls
  <2> QED BY <1>1, <1>2, <1>5, <2>2 DEF Leased, M!AttemptActive
<1>6. CASE a.st = "IDLE" /\ l # "FREE"
  <2>1. call = [att |-> a, lease |-> l, ok |-> FALSE] BY <1>6 DEF M!StartCalls
  <2> QED BY <1>6, <2>1
<1>7. CASE a.st = "IDLE" /\ l = "FREE"
  <2>1. PICK b \in {run} \cup rest :
          call = [att |-> b, ok |-> b.st = "RUN",
                  lease |-> IF M!AttemptActive(b) THEN "METROLOGY" ELSE "FREE"]
    BY <1>4, <1>7 DEF M!StartCalls
  <2> QED BY <1>2, <1>3, <1>7, <2>1 DEF Leased, M!AttemptActive
<1> QED BY <1>5, <1>6, <1>7

(* To acknowledge gives the workspace back with the hardware at rest.      *)
LEMMA AcknowledgeEffect ==
    ASSUME NEW a, Sound(a), a.st \in {"IDLE", "DONE", "HOLD"}, M!Acknowledge(a),
           a.st = "HOLD" => lease = "METROLOGY"
    PROVE  /\ Sound(att') /\ Leased(lease', att') /\ att'.failed = a.failed
           /\ att'.st = IF a.st = "HOLD" THEN "HOLD" ELSE "IDLE"
<1>1. att' = M!Acknowledged(a) /\ lease' = M!LeaseAcknowledged(a, lease) BY DEF M!Acknowledge
<1> QED BY <1>1, AcknowledgedEffect DEF M!LeaseAcknowledged, Leased, M!AttemptActive

(* The states of a session, each with what it leaves.                      *)
LEMMA StartAttemptRight ==
    ASSUME SessionRight, state = "START_ATTEMPT", M!StartAttempt(att), UNCHANGED cancel
    PROVE  SessionRight'
<1>0. /\ Sound(att) /\ att.st \in {"IDLE", "HOLD"} /\ Leased(lease, att)
      /\ (M!AttemptActive(att) => started) /\ PolicyRight(policy) /\ TrimShape(trim)
      /\ policy.status # "IDLE" /\ Surveying /\ ~final
  BY DEF SessionRight, Place, Captures
<1>1. CASE cancel
  <2> DEFINE p == M!Stopped(policy, "CANCELED")
  <2>1. PolicyRight(p) /\ p.status = "CANCELED" BY <1>0, StoppedRight
  <2>2. M!Publish(p, trim, att) /\ att' = att /\ lease' = lease /\ started' = started
    BY <1>1 DEF M!StartAttempt
  <2> HIDE DEF p
  <2>3. Ended(att) /\ policy'.status = "CANCELED" BY <1>0, <2>1, <2>2, PublishEffect DEF Ended
  <2> QED BY <1>0, <2>2, <2>3, EndedRight DEF M!AttemptActive
<1>2. CASE ~cancel
  <2>1. PICK call \in M!StartCalls(att, lease, TRUE) :
          /\ lease' = call.lease
          /\ IF call.ok
             THEN /\ att' = call.att /\ started' = TRUE /\ M!GoTo("WAIT_ATTEMPT")
                  /\ UNCHANGED <<policy, partial, final, trim>>
             ELSE M!Miss(call.att) /\ att' = M!AfterMiss(call.att) /\ UNCHANGED started
    BY <1>2 DEF M!StartAttempt
  <2>2. /\ Sound(call.att) /\ Leased(call.lease, call.att)
        /\ call.ok => call.att.st = "RUN" /\ call.att.hold
        /\ ~call.ok => /\ call.att.st \in {"IDLE", "ABORT"}
                       /\ call.att.st = "ABORT" => att.st = "HOLD"
    BY <1>0, StartCallsEffect
  <2>3. CASE call.ok
    <3>1. /\ att' = call.att /\ started' = TRUE /\ state' = "WAIT_ATTEMPT"
          /\ policy' = policy /\ final' = final /\ trim' = trim
      BY <2>1, <2>3 DEF M!GoTo
    <3>2. Surveying' BY <1>0, <3>1 DEF Surveying
    <3> QED BY <1>0, <2>1, <2>2, <2>3, <3>1, <3>2 DEF SessionRight, Place, M!SessionStates
  <2>4. CASE ~call.ok
    <3> DEFINE b == M!AfterMiss(call.att)
    <3>1. M!Miss(call.att) /\ att' = b /\ started' = started BY <2>1, <2>4
    <3>2. /\ Sound(b) /\ (M!AttemptActive(b) <=> M!AttemptActive(call.att))
          /\ b.st \in {"IDLE", "ABORT"}
      BY <2>2, <2>4, AfterMissEffect
    <3>3. Ended(b) /\ policy'.status # "FINAL_OK" BY <1>0, <3>1, MissEffect
    <3> HIDE DEF b
    <3>4. Leased(lease', att') BY <2>1, <2>2, <3>1, <3>2 DEF Leased
    <3>5. M!AttemptActive(att') => started' BY <1>0, <2>2, <2>4, <3>1, <3>2 DEF M!AttemptActive
    <3> QED BY <1>2, <3>1, <3>2, <3>3, <3>4, <3>5, EndedRight DEF M!AttemptActive
  <2> QED BY <2>3, <2>4
<1> QED BY <1>1, <1>2

(* The transaction is aborted, for a cancel.                               *)
LEMMA AbortAndCancelRight ==
    ASSUME SessionRight, state \in {"WAIT_ATTEMPT", "PROCESS_DSP"}, M!AbortAndCancel(att),
           UNCHANGED cancel
    PROVE  SessionRight'
<1>1. /\ att' = M!AbortedAttempt(att) /\ state' = "CANCELING" /\ policy' = policy /\ final' = final
      /\ started' = started /\ trim' = trim /\ lease' = lease
  BY DEF M!AbortAndCancel, M!GoTo
<1>2. M!AttemptActive(att) BY DEF SessionRight, Place, M!AttemptActive
<1>3. Sound(att') /\ att'.st = "ABORT" BY <1>1, <1>2, AbortedEffect DEF SessionRight
<1> QED BY <1>1, <1>2, <1>3
    DEF SessionRight, Place, M!SessionStates, Captures, Leased, M!AttemptActive

(* A capture under way.                                                    *)
LEMMA WaitAttemptRight ==
    ASSUME SessionRight, state = "WAIT_ATTEMPT", M!WaitAttempt(att), UNCHANGED cancel
    PROVE  SessionRight'
<1>0. /\ Sound(att) /\ M!AttemptActive(att) /\ lease = "METROLOGY" /\ started
      /\ (att.st = "RUN" /\ att.hold) \/ att.st = "ABORT"
      /\ PolicyRight(policy) /\ TrimShape(trim) /\ policy.status # "IDLE" /\ Surveying /\ ~final
  BY DEF SessionRight, Place, Captures, Leased, M!AttemptActive
<1>1. CASE cancel BY <1>1, AbortAndCancelRight DEF M!WaitAttempt
<1>2. CASE ~cancel
  <2>1. PICK b \in M!Steps(att) :
          CASE M!Ready(b) ->
                  /\ att' = b /\ M!GoTo("PROCESS_DSP")
                  /\ UNCHANGED <<policy, partial, final, started, trim, lease>>
            [] ~M!Ready(b) /\ M!StepFails(att, b) /\ ~M!AttemptActive(b) ->
                  M!Miss(b) /\ M!Acknowledge(M!AfterMiss(b)) /\ UNCHANGED started
            [] OTHER -> att' = b /\ UNCHANGED <<state, policy, pending, partial, final,
                                                started, trim, lease>>
    BY <1>2 DEF M!WaitAttempt
  <2>2. /\ Sound(b) /\ b.st \in {"RUN", "HOLD", "ABORT", "IDLE"}
        /\ b.st = "RUN" => b.hold
        /\ b.st = "HOLD" => b.valid
        /\ b.st = "IDLE" => att.st = "ABORT"
    BY <1>0, StepsEffect
  <2>3. CASE M!Ready(b)
    <3>1. /\ att' = b /\ state' = "PROCESS_DSP" /\ policy' = policy /\ final' = final
          /\ started' = started /\ trim' = trim /\ lease' = lease
      BY <2>1, <2>3 DEF M!GoTo
    <3>2. att'.st = "HOLD" /\ att'.valid BY <2>2, <2>3, <3>1 DEF M!Ready
    <3>3. Surveying' BY <1>0, <3>1 DEF Surveying
    <3> QED BY <1>0, <2>2, <3>1, <3>2, <3>3
            DEF SessionRight, Place, M!SessionStates, Leased, M!AttemptActive
  <2>4. CASE ~M!Ready(b) /\ M!StepFails(att, b) /\ ~M!AttemptActive(b)
    <3> DEFINE c == M!AfterMiss(b)
    <3>1. M!Miss(b) /\ M!Acknowledge(c) /\ started' = started BY <2>1, <2>4
    <3>2. Sound(c) /\ c.st = "IDLE" BY <2>2, <2>4, AfterMissEffect DEF M!AttemptActive
    <3>3. Ended(c) /\ policy'.status # "FINAL_OK" BY <1>0, <3>1, MissEffect
    <3> HIDE DEF c
    <3>4. Sound(att') /\ Leased(lease', att') /\ att'.st = "IDLE"
      BY <3>1, <3>2, AcknowledgeEffect
    <3> QED BY <1>2, <3>1, <3>2, <3>3, <3>4, EndedRight DEF M!AttemptActive
  <2>5. CASE ~M!Ready(b) /\ ~(M!StepFails(att, b) /\ ~M!AttemptActive(b))
    <3>1. /\ att' = b /\ state' = state /\ policy' = policy /\ final' = final
          /\ started' = started /\ trim' = trim /\ lease' = lease
      BY <2>1, <2>5
    <3>2. b.st \in {"RUN", "ABORT"} BY <2>2, <2>5 DEF M!Ready, M!StepFails, M!AttemptActive
    <3>3. Surveying' BY <1>0, <3>1 DEF Surveying
    <3> QED BY <1>0, <2>2, <3>1, <3>2, <3>3
            DEF SessionRight, Place, M!SessionStates, Leased, M!AttemptActive
  <2> QED BY <2>3, <2>4, <2>5
<1> QED BY <1>1, <1>2

(* A repeat: one more, too many, or the last, whose mean is held against   *)
(* what the survey says of the component.                                  *)
LEMMA BelieEffect ==
    ASSUME NEW p, PolicyRight(p), p.status = "FINAL_OK", NEW mean
    PROVE  LET q == IF M!Belied(p, mean) THEN [p EXCEPT !.result.class = "UNKNOWN"] ELSE p
           IN  PolicyRight(q) /\ q.status = "FINAL_OK" /\ ~M!Contradicts(q.result.class, mean)
<1>1. CASE M!Belied(p, mean)
  <2> DEFINE q == [p EXCEPT !.result.class = "UNKNOWN"]
  <2>1. /\ PolicyShape(q) /\ q.history = p.history /\ q.next = p.next /\ q.status = p.status
        /\ q.result.status = p.result.status /\ q.result.primary = p.result.primary
        /\ q.result.class = "UNKNOWN"
    BY DEF PolicyRight, PolicyShape
  <2> HIDE DEF q
  <2>2. \A r : ~M!Contradicts(q.result.class, r) BY <2>1 DEF M!Contradicts
  <2>3. M!NoConditionTwice(q) BY <2>1 DEF PolicyRight, M!NoConditionTwice, M!Tried
  <2>4. M!At(q, DOMAIN q.history) = M!At(p, DOMAIN p.history) BY <2>1 DEF M!At
  <2>5. M!VerdictBorneOut(q) BY <2>1, <2>2, <2>4 DEF PolicyRight, M!VerdictBorneOut
  <2>6. PolicyRight(q) BY <2>1, <2>3, <2>5 DEF PolicyRight
  <2> QED BY <1>1, <2>1, <2>2, <2>6 DEF q
<1>2. CASE ~M!Belied(p, mean) BY <1>2 DEF M!Belied
<1> QED BY <1>1, <1>2

(* A repeat is counted, or the repeats are over.                           *)
LEMMA RepeatedEffect ==
    ASSUME PolicyRight(policy), TrimShape(trim), Repeating(trim, policy), ~final,
           NEW a, Sound(a), a.st = "HOLD", NEW r \in M!Reading, NEW same, M!Repeated(a, r, same)
    PROVE  \/ Ended(M!Acknowledged(a))
           \/ /\ state' = "START_ATTEMPT" /\ policy' = policy /\ ~final' /\ TrimShape(trim')
              /\ Repeating(trim', policy')
<1> DEFINE seen == IF M!Repeatable(r, same) THEN Append(trim.seen, r) ELSE trim.seen
           tr == [trim EXCEPT !.extra = trim.extra + 1, !.seen = seen]
           over == [tr EXCEPT !.trimming = FALSE]
           b == M!Acknowledged(a)
<1>1. seen \in Seq(M!Reading) /\ (Len(seen) = Len(trim.seen) \/ Len(seen) = Len(trim.seen) + 1)
      /\ Len(trim.seen) \in Nat
  BY DEF TrimShape
<1>2. /\ TrimShape(tr) /\ tr.seen = seen /\ tr.requested = trim.requested
      /\ tr.trimming = trim.trimming
  BY <1>1 DEF TrimShape
<1>3. /\ Len(tr.seen) < TrimmedSamples /\ tr.extra < MaxExtraCaptures =>
            state' = "START_ATTEMPT" /\ trim' = tr /\ policy' = policy /\ final' = final
      /\ Len(tr.seen) < TrimmedSamples /\ ~(tr.extra < MaxExtraCaptures) /\ tr.extra >= MaxExtraCaptures =>
            M!Publish(M!Stopped(policy, "FAILED"), over, b)
      /\ ~(Len(tr.seen) < TrimmedSamples) =>
            \E mean \in M!Means(tr.seen) :
               M!Publish(IF M!Belied(policy, mean)
                         THEN [policy EXCEPT !.result.class = "UNKNOWN"] ELSE policy,
                         [over EXCEPT !.applied = TRUE, !.mean = {mean}], b)
  <2>1. tr.extra \in Nat /\ Len(tr.seen) \in Nat /\ TrimmedSamples \in Nat /\ MaxExtraCaptures \in Nat
    BY <1>1, <1>2, SessionSizes DEF TrimShape
  <2>2. tr.extra < MaxExtraCaptures <=> ~(tr.extra >= MaxExtraCaptures)
    <3> HIDE DEF tr
    <3> QED BY <2>1
  <2> QED BY <2>2 DEF M!Repeated, M!GoTo
<1> HIDE DEF seen, tr, b
<1>4. /\ TrimShape(over) /\ over.seen = seen /\ over.requested = trim.requested
  BY <1>2 DEF TrimShape
<1> HIDE DEF over
<1>5. CASE Len(tr.seen) < TrimmedSamples /\ tr.extra < MaxExtraCaptures
  <2>1. state' = "START_ATTEMPT" /\ trim' = tr /\ UNCHANGED <<policy, final>>
    BY <1>3, <1>5
  <2>2. Repeating(tr, policy) BY <1>2, <1>5 DEF Repeating
  <2> QED BY <1>2, <2>1, <2>2
<1>6. CASE Len(tr.seen) < TrimmedSamples /\ ~(tr.extra < MaxExtraCaptures)
  <2>1. tr.extra >= MaxExtraCaptures BY <1>2, <1>6, SessionSizes DEF TrimShape
  <2>2. M!Publish(M!Stopped(policy, "FAILED"), over, b) BY <1>3, <1>6, <2>1
  <2>3. PolicyRight(M!Stopped(policy, "FAILED")) /\ M!Stopped(policy, "FAILED").status = "FAILED"
    BY StoppedRight DEF Repeating
  <2>4. Ended(b) BY <1>4, <2>2, <2>3, PublishEffect DEF Ended
  <2> QED BY <2>4 DEF b
<1>7. CASE ~(Len(tr.seen) < TrimmedSamples)
  <2>1. PICK mean :
          M!Publish(IF M!Belied(policy, mean)
                    THEN [policy EXCEPT !.result.class = "UNKNOWN"] ELSE policy,
                    [over EXCEPT !.applied = TRUE, !.mean = {mean}], b)
    BY <1>3, <1>7
  <2> DEFINE q == IF M!Belied(policy, mean)
                  THEN [policy EXCEPT !.result.class = "UNKNOWN"] ELSE policy
             last == [over EXCEPT !.applied = TRUE, !.mean = {mean}]
  <2>2. PolicyRight(q) /\ q.status = "FINAL_OK" /\ ~M!Contradicts(q.result.class, mean)
    BY BelieEffect DEF Repeating
  <2>3. M!Publish(q, last, b) BY <2>1
  <2>4. /\ TrimShape(last) /\ last.seen = seen /\ last.requested = trim.requested
        /\ last.applied = TRUE /\ last.mean = {mean}
    BY <1>4 DEF TrimShape
  <2>5. Len(seen) = TrimmedSamples BY <1>1, <1>2, <1>7, SessionSizes DEF Repeating
  <2> HIDE DEF q, last
  <2>6. Earned(last, q) /\ last.requested BY <2>2, <2>4, <2>5 DEF Earned, Repeating
  <2>7. Ended(b) BY <2>2, <2>3, <2>4, <2>6, PublishEffect DEF Ended
  <2> QED BY <2>7 DEF b
<1> QED BY <1>5, <1>6, <1>7

(* A capture is read: the survey goes on, repeats, or is over.             *)
LEMMA ProcessDspRight ==
    ASSUME SessionRight, state = "PROCESS_DSP", M!ProcessDsp(att), UNCHANGED cancel
    PROVE  SessionRight'
<1>0. /\ Sound(att) /\ att.st = "HOLD" /\ M!AttemptActive(att) /\ lease = "METROLOGY" /\ started
      /\ M!Ready(att) /\ PolicyRight(policy) /\ TrimShape(trim) /\ policy.status # "IDLE"
      /\ Surveying /\ ~final
  BY DEF SessionRight, Place, Captures, Leased, M!AttemptActive, M!Ready
<1>1. CASE cancel BY <1>1, AbortAndCancelRight DEF M!ProcessDsp
<1>2. CASE ~cancel
  <2> DEFINE b == M!Acknowledged(att)
  <2>1. /\ M!Acknowledge(att) /\ started' = started
        /\ \E r \in Readings, same \in BOOLEAN :
             IF trim.trimming THEN M!Repeated(att, r, same)
             ELSE \E p \in {M!Decided(M!Stored(policy, r))} :
                    IF p.next = {} THEN M!Publish(p, trim, b)
                    ELSE /\ policy' = p /\ M!GoTo("START_ATTEMPT")
                         /\ UNCHANGED <<trim, final>>
    BY <1>0, <1>2 DEF M!ProcessDsp
  <2>2. Sound(b) /\ b.st = "HOLD" BY <1>0, AcknowledgedEffect
  <2>3. Sound(att') /\ Leased(lease', att') /\ att'.st = "HOLD"
    BY <1>0, <2>1, AcknowledgeEffect
  <2> HIDE DEF b
  <2>4. PICK r \in Readings, same \in BOOLEAN :
             IF trim.trimming THEN M!Repeated(att, r, same)
             ELSE \E p \in {M!Decided(M!Stored(policy, r))} :
                    IF p.next = {} THEN M!Publish(p, trim, b)
                    ELSE /\ policy' = p /\ M!GoTo("START_ATTEMPT")
                         /\ UNCHANGED <<trim, final>>
    BY <2>1
  <2>5. r \in M!Reading
    BY InstrumentAssumption DEF InstrumentAssumption, M!AutoRangeAssumption
  <2>6. \/ Ended(b)
        \/ /\ state' = "START_ATTEMPT" /\ ~final' /\ TrimShape(trim') /\ PolicyRight(policy')
           /\ policy'.status # "IDLE" /\ Surveying'
    <3>1. CASE trim.trimming
      <4>1. Repeating(trim, policy) BY <1>0, <3>1 DEF Surveying
      <4>2. M!Repeated(att, r, same) BY <2>4, <3>1
      <4> QED BY <1>0, <2>5, <4>1, <4>2, RepeatedEffect DEF b, Surveying, Repeating
    <3>2. CASE ~trim.trimming
      <4> DEFINE p == M!Decided(M!Stored(policy, r))
      <4>1. policy.status = "RUNNING" /\ ~trim.requested BY <1>0, <3>2 DEF Surveying
      <4>2. PolicyRight(p) /\ p.status # "IDLE" BY <1>0, <2>5, <4>1, DecidedRight
      <4>3. IF p.next = {} THEN M!Publish(p, trim, b)
            ELSE policy' = p /\ M!GoTo("START_ATTEMPT") /\ UNCHANGED <<trim, final>>
        BY <2>4, <3>2
      <4> HIDE DEF p
      <4>4. CASE p.next = {}
        <5>1. p.status # "RUNNING" BY <4>2, <4>4 DEF PolicyRight
        <5>2. M!Publish(p, trim, b) BY <4>3, <4>4
        <5> QED BY <1>0, <4>1, <4>2, <5>1, <5>2, PublishEffect DEF Ended, Surveying, Repeating
      <4>5. CASE p.next # {}
        <5>1. p.status = "RUNNING" BY <4>2, <4>5 DEF PolicyRight
        <5>2. /\ policy' = p /\ state' = "START_ATTEMPT" /\ trim' = trim /\ final' = final
          BY <4>3, <4>5 DEF M!GoTo
        <5> QED BY <1>0, <3>2, <4>1, <4>2, <5>1, <5>2 DEF Surveying
      <4> QED BY <4>4, <4>5
    <3> QED BY <3>1, <3>2
  <2>7. CASE Ended(b)
    BY <1>0, <2>1, <2>2, <2>3, <2>7, EndedRight DEF M!AttemptActive
  <2>8. CASE /\ state' = "START_ATTEMPT" /\ ~final' /\ TrimShape(trim') /\ PolicyRight(policy')
             /\ policy'.status # "IDLE" /\ Surveying'
    BY <1>0, <2>1, <2>3, <2>8 DEF SessionRight, Place, M!SessionStates, Captures
  <2> QED BY <2>6, <2>7, <2>8
<1> QED BY <1>1, <1>2

(* The cleanup of the transaction, to its end.                             *)
LEMMA CancelingRight ==
    ASSUME SessionRight, state \notin {"IDLE", "DONE"}, NEW a, Sound(a), a.st \in {"IDLE", "ABORT"},
           a.st = "ABORT" => M!AttemptActive(att), NEW shown, M!Canceling(a, shown), UNCHANGED cancel
    PROVE  SessionRight'
<1>1. PICK b \in M!Steps(a) :
        IF M!AttemptActive(b)
        THEN /\ att' = b /\ M!GoTo("CANCELING") /\ partial' = shown
             /\ UNCHANGED <<policy, final, started, trim, lease>>
        ELSE /\ M!Acknowledge(b) /\ UNCHANGED started
             /\ policy' = M!Stopped(policy, IF cancel THEN "CANCELED" ELSE "SAFETY_ABORT")
             /\ state' = "DONE" /\ pending' = "NONE" /\ final' = TRUE /\ partial' = shown
             /\ trim' = [trim EXCEPT !.applied = FALSE]
  BY DEF M!Canceling
<1>2. Sound(b) /\ b.st \in {"ABORT", "IDLE"} /\ (b.st = "ABORT" => M!AttemptActive(att))
  BY StepsEffect
<1>3. CASE M!AttemptActive(b)
  <2>1. /\ att' = b /\ state' = "CANCELING" /\ policy' = policy /\ final' = final
        /\ started' = started /\ trim' = trim /\ lease' = lease
    BY <1>1, <1>3 DEF M!GoTo
  <2>2. b.st = "ABORT" BY <1>2, <1>3 DEF M!AttemptActive
  <2> QED BY <1>2, <1>3, <2>1, <2>2
          DEF SessionRight, Place, M!SessionStates, Captures, Leased
<1>4. CASE ~M!AttemptActive(b)
  <2> DEFINE status == IF cancel THEN "CANCELED" ELSE "SAFETY_ABORT"
             p == M!Stopped(policy, status)
  <2>1. /\ M!Acknowledge(b) /\ policy' = p /\ state' = "DONE" /\ final' = TRUE
        /\ started' = started /\ trim' = [trim EXCEPT !.applied = FALSE]
    BY <1>1, <1>4
  <2>2. PolicyRight(p) /\ p.status = status /\ status \in {"CANCELED", "SAFETY_ABORT"}
    BY StoppedRight DEF SessionRight
  <2>3. b.st = "IDLE" BY <1>2, <1>4 DEF M!AttemptActive
  <2>4. Sound(att') /\ Leased(lease', att') /\ att'.st = "IDLE"
    BY <1>2, <2>1, <2>3, AcknowledgeEffect
  <2>5. TrimShape(trim') BY <2>1 DEF SessionRight, TrimShape
  <2> HIDE DEF p
  <2> QED BY <2>1, <2>2, <2>4, <2>5
          DEF SessionRight, Place, M!SessionStates, Captures, M!AttemptActive
<1> QED BY <1>3, <1>4

(* The hardware is released before anything is final.                      *)
LEMMA FinishingRight ==
    ASSUME SessionRight, state = "FINISHING", M!Finishing(att), UNCHANGED cancel
    PROVE  SessionRight'
<1>0. /\ Sound(att) /\ att.st \in {"HOLD", "END", "ABORT"} /\ lease = "METROLOGY" /\ started
      /\ PolicyRight(policy) /\ TrimShape(trim) /\ policy.status \notin {"RUNNING", "IDLE"}
      /\ (policy.status = "FINAL_OK" => Earned(trim, policy)) /\ ~final
  BY DEF SessionRight, Place, Leased, M!AttemptActive
<1> DEFINE a == M!Released(att)
<1>1. Sound(a) /\ a.st \in {"END", "ABORT"}
  BY <1>0 DEF M!Released, Sound, M!Attempts
<1>2. PICK b \in M!Steps(a) :
        IF M!AttemptActive(b)
        THEN att' = b /\ UNCHANGED <<state, policy, pending, partial, final, started, trim, lease>>
        ELSE /\ M!Acknowledge(b) /\ UNCHANGED started
             /\ M!Publish(CASE cancel -> M!Stopped(policy, "CANCELED")
                          [] ~cancel /\ b.failed -> M!Stopped(policy, "SAFETY_ABORT")
                          [] OTHER -> policy, trim, b)
  BY DEF M!Finishing
<1> HIDE DEF a
<1>3. Sound(b) /\ b.st \in {"END", "DONE", "ABORT", "IDLE"} BY <1>1, StepsEffect
<1>4. CASE M!AttemptActive(b)
  <2>1. /\ att' = b /\ state' = state /\ policy' = policy /\ final' = final
        /\ started' = started /\ trim' = trim /\ lease' = lease
    BY <1>2, <1>4
  <2>2. b.st \in {"END", "ABORT"} BY <1>3, <1>4 DEF M!AttemptActive
  <2> QED BY <1>0, <1>3, <1>4, <2>1, <2>2
          DEF SessionRight, Place, M!SessionStates, Captures, Leased
<1>5. CASE ~M!AttemptActive(b)
  <2> DEFINE p == CASE cancel -> M!Stopped(policy, "CANCELED")
                    [] ~cancel /\ b.failed -> M!Stopped(policy, "SAFETY_ABORT")
                    [] OTHER -> policy
  <2>1. M!Acknowledge(b) /\ started' = started /\ M!Publish(p, trim, b) BY <1>2, <1>5
  <2>2. b.st \in {"DONE", "IDLE"} BY <1>3, <1>5 DEF M!AttemptActive
  <2>3. Sound(att') /\ Leased(lease', att') /\ att'.failed = b.failed /\ att'.st = "IDLE"
    BY <1>3, <2>1, <2>2, AcknowledgeEffect
  <2>4. /\ PolicyRight(p) /\ p.status \notin {"RUNNING", "IDLE"}
        /\ cancel => p.status = "CANCELED"
        /\ p.status = "FINAL_OK" => p = policy /\ ~b.failed
    <3>1. CASE cancel
      <4>1. p = M!Stopped(policy, "CANCELED") BY <3>1
      <4> HIDE DEF p
      <4> QED BY <1>0, <4>1, StoppedRight
    <3>2. CASE ~cancel /\ b.failed
      <4>1. p = M!Stopped(policy, "SAFETY_ABORT") BY <3>2
      <4> HIDE DEF p
      <4> QED BY <1>0, <3>2, <4>1, StoppedRight
    <3>3. CASE ~cancel /\ ~b.failed
      <4>1. p = policy BY <3>3
      <4> HIDE DEF p
      <4> QED BY <1>0, <3>3, <4>1
    <3> QED BY <3>1, <3>2, <3>3
  <2> HIDE DEF p
  <2>5. p.status = "FINAL_OK" => Earned(trim, p) /\ trim.requested BY <1>0, <2>4 DEF Earned
  <2>6. /\ PolicyRight(policy') /\ policy'.status \notin {"RUNNING", "IDLE"}
        /\ TrimShape(trim') /\ (p.status # "FINAL_OK" => policy' = p)
        /\ state' = IF M!AttemptActive(b) THEN "FINISHING" ELSE "DONE"
        /\ final' = ~M!AttemptActive(b)
        /\ policy'.status = "FINAL_OK" => Earned(trim', policy') /\ policy' = p
    BY <1>0, <2>1, <2>4, <2>5, PublishEffect
  <2>7. Ended(b) BY <2>6 DEF Ended
  <2>8. cancel => policy'.status = "CANCELED" BY <2>4, <2>6
  <2>9. policy'.status = "FINAL_OK" => ~b.failed BY <2>4, <2>6
  <2> QED BY <1>5, <2>1, <2>3, <2>7, <2>8, <2>9, EndedRight DEF M!AttemptActive
<1> QED BY <1>4, <1>5

(* A state of the session machine.                                         *)
LEMMA InStateRight ==
    ASSUME SessionRight, state \notin {"IDLE", "DONE"}, M!InState(att), UNCHANGED cancel
    PROVE  SessionRight'
<1>1. CASE state = "START_ATTEMPT" BY <1>1, StartAttemptRight DEF M!InState
<1>2. CASE state = "WAIT_ATTEMPT" BY <1>2, WaitAttemptRight DEF M!InState
<1>3. CASE state = "PROCESS_DSP" BY <1>3, ProcessDspRight DEF M!InState
<1>4. CASE state = "CANCELING"
  <2>1. M!Canceling(att, partial) BY <1>4 DEF M!InState
  <2>2. Sound(att) /\ att.st = "ABORT" /\ M!AttemptActive(att)
    BY <1>4 DEF SessionRight, Place, M!AttemptActive
  <2> QED BY <1>4, <2>1, <2>2, CancelingRight
<1>5. CASE state = "FINISHING" BY <1>5, FinishingRight DEF M!InState
<1> QED BY <1>1, <1>2, <1>3, <1>4, <1>5 DEF SessionRight, Place, M!SessionStates

(* Nothing changes that the invariant is about.                            *)
LEMMA SameRight ==
    ASSUME SessionRight, att' = att, state' = state, policy' = policy, final' = final,
           started' = started, trim' = trim, Leased(lease', att),
           ~final \/ cancel' = cancel
    PROVE  SessionRight'
<1>1. Surveying' = Surveying BY DEF Surveying
<1> QED BY <1>1 DEF SessionRight

(* A step: the deadline, the supervision of a held session, the event      *)
(* waiting, the state.                                                     *)
LEMMA SessionStepRight == ASSUME SessionRight, M!SessionStep PROVE SessionRight'
<1>0. UNCHANGED cancel BY DEF M!SessionStep
<1>1. \/ \E a \in {M!AbortedAttempt(att)} \cup {a \in M!Steps(att) : M!StepFails(att, a)} :
            state \notin {"IDLE", "DONE", "CANCELING", "FINISHING"} /\ M!Canceling(a, FALSE)
      \/ M!Taken(att)
      \/ state \notin {"IDLE", "DONE"} /\ M!InState(att)
  <2>1. CASE late /\ M!SessionActive /\ state \notin {"CANCELING", "FINISHING"}
    <3>1. M!Canceling(M!AbortedAttempt(att), FALSE) BY <2>1 DEF M!SessionStep
    <3> QED BY <2>1, <3>1 DEF M!SessionActive
  <2>2. CASE ~(late /\ M!SessionActive) /\ M!Supervised
    <3>1. PICK a \in M!Steps(att) :
            CASE M!StepFails(att, a) -> M!Canceling(a, FALSE)
              [] ~M!StepFails(att, a) /\ pending # "NONE" -> M!Taken(a)
              [] OTHER -> M!InState(a)
      BY <2>2 DEF M!SessionStep
    <3>2. Sound(att) /\ att.st = "HOLD" /\ state \in {"PROCESS_DSP", "START_ATTEMPT"}
      BY <2>2 DEF M!Supervised, SessionRight, Place, M!AttemptActive
    <3>3. M!StepFails(att, a) \/ a = att BY <3>2, StepsEffect DEF M!StepFails
    <3>4. CASE M!StepFails(att, a)
      <4>1. M!Canceling(a, FALSE) BY <3>1, <3>4
      <4> QED BY <3>2, <3>4, <4>1
    <3>5. CASE ~M!StepFails(att, a) BY <3>1, <3>2, <3>3, <3>5
    <3> QED BY <3>4, <3>5
  <2>3. CASE /\ ~(late /\ M!SessionActive /\ state \notin {"CANCELING", "FINISHING"})
             /\ ~(~(late /\ M!SessionActive) /\ M!Supervised)
    <3>1. IF pending # "NONE" THEN M!Taken(att) ELSE M!InState(att)
      BY <2>3 DEF M!SessionStep
    <3>2. M!SessionActive \/ pending # "NONE" BY DEF M!SessionStep, M!Underway
    <3> QED BY <3>1, <3>2 DEF M!SessionActive
  <2> QED BY <2>1, <2>2, <2>3
<1>2. ASSUME NEW a \in {M!AbortedAttempt(att)} \cup {a \in M!Steps(att) : M!StepFails(att, a)},
             state \notin {"IDLE", "DONE", "CANCELING", "FINISHING"}, M!Canceling(a, FALSE)
      PROVE  SessionRight'
  <2>1. Sound(att) /\ (M!AttemptActive(att) \/ att.st = "IDLE")
        /\ (M!AttemptActive(att) => att.st \in {"HOLD", "RUN", "ABORT"})
        /\ (att.st = "RUN" => att.hold)
    BY <1>2 DEF SessionRight, Place, M!SessionStates, M!AttemptActive
  <2>2. Sound(a) /\ a.st \in {"IDLE", "ABORT"} /\ (a.st = "ABORT" => M!AttemptActive(att))
    <3>1. CASE a = M!AbortedAttempt(att) BY <2>1, <3>1, AbortedEffect DEF M!AttemptActive
    <3>2. CASE a \in M!Steps(att) /\ M!StepFails(att, a)
      BY <2>1, <3>2, StepsEffect DEF M!AttemptActive, M!StepFails
    <3> QED BY <1>2, <3>1, <3>2
  <2> QED BY <1>0, <1>2, <2>2, CancelingRight
<1>3. CASE M!Taken(att) BY <1>0, <1>3, SameRight DEF M!Taken, SessionRight
<1>4. CASE state \notin {"IDLE", "DONE"} /\ M!InState(att) BY <1>0, <1>4, InStateRight
<1> QED BY <1>1, <1>2, <1>3, <1>4

(* A new session starts over, on a range it knows.                         *)
LEMMA StartSessionRight == ASSUME SessionRight, M!StartSession PROVE SessionRight'
<1>0. Sound(att) /\ att.st = "IDLE" /\ Leased(lease, att)
  BY DEF M!StartSession, M!SessionActive, SessionRight, Place
<1>1. /\ state' = "START_ATTEMPT" /\ final' = FALSE /\ trim' = M!NoTrim /\ att' = att
      /\ lease' = lease
      /\ \E range \in {M!Hint(policy), M!Unhinted} : policy' = M!Started(range)
  BY DEF M!StartSession
<1>2. TrimShape(trim') /\ ~trim'.trimming /\ ~trim'.requested BY <1>1 DEF M!NoTrim, TrimShape
<1>3. PICK range \in M!Ranges : policy' = M!Started(range)
  <2>1. M!Unhinted \in M!Ranges
    BY InstrumentAssumption DEF InstrumentAssumption, M!AutoRangeAssumption, M!Unhinted, M!Ranges
  <2>2. M!Hint(policy) \in M!Ranges
    <3>1. CASE /\ policy.result.status \in {"FINAL_OK", "OPEN_LIKE", "SHORT_LIKE"}
               /\ policy.result.primary # 0
      <4>1. PolicyRight(policy) /\ PolicyShape(policy) BY DEF SessionRight, PolicyRight
      <4>2. policy.status # "RUNNING" BY <3>1, <4>1 DEF PolicyRight
      <4>3. policy.result.primary \in DOMAIN policy.history BY <3>1, <4>1, <4>2 DEF PolicyRight
      <4>4. policy.history[policy.result.primary].cond \in M!Condition
        BY <4>1, <4>3, EntriesAre DEF Entry
      <4> QED BY <3>1, <4>4 DEF M!Hint, M!Condition
    <3>2. CASE ~(/\ policy.result.status \in {"FINAL_OK", "OPEN_LIKE", "SHORT_LIKE"}
                 /\ policy.result.primary # 0)
      BY <2>1, <3>2 DEF M!Hint
    <3> QED BY <3>1, <3>2
  <2> QED BY <1>1, <2>1, <2>2
<1> DEFINE p == M!Started(range)
           n == M!Opening(range)
<1>4. n \in M!Condition /\ M!Allowed(n)
  BY DEF M!Opening, M!Condition, M!Frequencies, M!Allowed
<1> HIDE DEF n
<1>5. /\ PolicyShape(p) /\ p.history = <<>> /\ p.next = {n} /\ p.status = "RUNNING"
      /\ p.result.status = "IDLE"
  BY DEF M!Started, M!NoSession, M!NoResult, PolicyShape, n
<1> HIDE DEF p
<1>6. PolicyRight(p)
  <2>1. M!Tried(p) = {} BY <1>5 DEF M!Tried
  <2> QED BY <1>4, <1>5, <2>1 DEF PolicyRight, M!NoConditionTwice, M!VerdictBorneOut
<1>7. policy' = p BY <1>3 DEF p
<1> QED BY <1>0, <1>1, <1>2, <1>5, <1>6, <1>7
        DEF SessionRight, Place, M!SessionStates, Captures, Surveying, M!AttemptActive

(* A cancel with the hardware at rest is final at once.                    *)
LEMMA CancelAtRestRight == ASSUME SessionRight, M!CancelAtRest PROVE SessionRight'
<1>0. /\ Sound(att) /\ Leased(lease, att) /\ PolicyRight(policy) /\ policy.status # "IDLE"
      /\ TrimShape(trim) /\ att.st = "IDLE"
  BY DEF SessionRight, Place, M!CancelAtRest, M!SessionActive, M!SessionStates, M!AttemptActive
<1>1. /\ policy' = M!Stopped(policy, "CANCELED") /\ state' = "DONE" /\ final' = TRUE
      /\ trim' = [trim EXCEPT !.applied = FALSE] /\ started' = started
      /\ IF M!Ready(att) THEN M!Acknowledge(att) ELSE UNCHANGED <<att, lease>>
  BY DEF M!CancelAtRest
<1>2. Sound(att') /\ Leased(lease', att') /\ att'.st = "IDLE"
  BY <1>0, <1>1, AcknowledgeEffect
<1>3. TrimShape(trim') BY <1>0, <1>1 DEF TrimShape
<1>4. PolicyRight(policy') /\ policy'.status = "CANCELED" BY <1>0, <1>1, StoppedRight
<1> QED BY <1>1, <1>2, <1>3, <1>4
        DEF SessionRight, Place, M!SessionStates, Captures, M!AttemptActive

(* No step of the session or of its surroundings loses it.                 *)
LEMMA SessionNext == SessionRight /\ [M!Next]_session => SessionRight'
<1> SUFFICES ASSUME SessionRight, [M!Next]_session PROVE SessionRight' OBVIOUS
<1>0. Leased(lease, att) /\ (final => ~M!SessionActive) BY DEF SessionRight, M!SessionActive
<1>1. CASE M!StartSession BY <1>1, StartSessionRight
<1>2. CASE M!SessionStep BY <1>2, SessionStepRight
<1>3. CASE M!CancelAtRest BY <1>3, CancelAtRestRight
<1>4. CASE M!CancelRunning BY <1>0, <1>4, SameRight DEF M!CancelRunning
<1>5. CASE M!DeadlinePasses BY <1>0, <1>5, SameRight DEF M!DeadlinePasses
<1>6. CASE M!OthersBorrow
  <2>1. Leased(lease', att) BY <1>0, <1>6 DEF M!OthersBorrow, Leased
  <2> QED BY <1>6, <2>1, SameRight DEF M!OthersBorrow
<1>7. CASE UNCHANGED session BY <1>0, <1>7, SameRight DEF session
<1> QED BY <1>1, <1>2, <1>3, <1>4, <1>5, <1>6, <1>7 DEF M!Next

(* What is right says what was asked.                                      *)
LEMMA SessionMeans == SessionRight => NothingLeftBehind /\ SurveyHonest
<1> SUFFICES ASSUME SessionRight PROVE NothingLeftBehind /\ SurveyHonest OBVIOUS
<1>0. PolicyRight(policy) BY DEF SessionRight
<1>1. NothingLeftBehind
  BY DEF SessionRight, NothingLeftBehind, M!NothingLeftBehind, M!SessionActive, Sound, Place,
         Leased, M!AttemptActive
<1>2. M!EachConditionOnce
  <2>1. (policy.status = "RUNNING") = (policy.next # {}) BY <1>0 DEF PolicyRight
  <2> QED BY <1>0, <2>1 DEF PolicyRight, M!EachConditionOnce
<1>3. M!FinalIsEarned
  <2> SUFFICES ASSUME final
               PROVE  /\ cancel => policy.result.status = "CANCELED"
                      /\ M!VerdictBorneOut(policy)
                      /\ policy.result.status = "FINAL_OK" =>
                            /\ trim.applied /\ Len(trim.seen) = TrimmedSamples /\ ~att.failed
                            /\ \A mean \in trim.mean : ~M!Contradicts(policy.result.class, mean)
    BY DEF M!FinalIsEarned
  <2>1. policy.status = "CANCELED" => policy.result.status = "CANCELED" BY <1>0 DEF PolicyRight
  <2>2. policy.result.status = "FINAL_OK" => policy.status = "FINAL_OK" BY <1>0 DEF PolicyRight
  <2> QED BY <1>0, <2>1, <2>2 DEF SessionRight, PolicyRight, Earned
<1> QED BY <1>1, <1>2, <1>3 DEF SurveyHonest

(* The invariant of the session, for the whole.                            *)
LEMMA SessionInvariant == InstrumentSpec => []SessionRight
<1>1. InstrumentInit => SessionRight BY InitSessionRight DEF InstrumentInit
<1>2. SessionRight /\ [InstrumentNext]_<<which, vars, session, sampler>> => SessionRight'
  BY SessionNext DEF InstrumentNext, OfRange, OfSession, OfSensors
<1> QED BY <1>1, <1>2, PTL DEF InstrumentSpec

(* Whatever interrupts a session, its transaction is never put to rest     *)
(* before it has ended; when the session is over the hardware is at rest   *)
(* and the workspace is given back (app_measurement_session_step,          *)
(* app_measurement_session_cancel): for every number of ranges,            *)
(* readings, captures and repeats.                                         *)
THEOREM NothingIsLeftBehind == InstrumentSpec => []NothingLeftBehind
BY SessionInvariant, SessionMeans, PTL

(* No condition is captured twice in one survey and each is one the        *)
(* hardware allows; what is shown as final was seen in full: every         *)
(* frequency before a verdict, the full number of repeats before a         *)
(* value, a mean that bears out the sign of the component                  *)
(* (measurement_auto_submit_result, classify_survey, store_policy_event,   *)
(* trim_submit).                                                           *)
THEOREM SurveysAreHonest == InstrumentSpec => []SurveyHonest
BY SessionInvariant, SessionMeans, PTL
=============================================================================
