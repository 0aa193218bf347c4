------------------------- MODULE HwRangeOps_proofs -------------------------
(***************************************************************************)
(* What the operations of the range driver leave behind, whatever the      *)
(* writes did: the lemmas the proofs about the driver and about the        *)
(* transaction share.                                                      *)
(***************************************************************************)
EXTENDS HwRangeOps, TLAPS

(* Every range has an address. *)
LEMMA AddressType == \A id \in RangeIds : AddressOf[id] \in Addresses
BY DEF AddressOf, RangeIds, Addresses

(* hw_range_init: the line is low, the driver disabled or invalid. *)
LEMMA BootPost ==
    ASSUME NEW e, NEW a, NEW q, q = RangeBoot(e, a)
    PROVE  /\ q \in RangeRecord /\ q.fsm \in {"DISABLED", "INVALID"}
           /\ ~q.line /\ ~q.enabled
<1> DEFINE reset == [fsm |-> "DISABLED", current |-> InvalidId,
                     requested |-> InvalidId, enabled |-> FALSE,
                     address |-> 0, line |-> FALSE, pins |-> 0]
<1>1. reset \in RangeRecord /\ ~reset.line /\ ~reset.enabled
      /\ reset.fsm = "DISABLED"
  BY DEF RangeRecord, RangeFsm, Addresses, InvalidId
<1>2. q = IF e = "OK" /\ a = "OK" THEN WriteAddress(WriteEnable(reset, FALSE, e), 0, a)
           ELSE [WriteEnable(reset, FALSE, e) EXCEPT !.fsm = "INVALID"]
  BY DEF RangeBoot
<1> HIDE DEF reset
<1> DEFINE off == WriteEnable(reset, FALSE, e)
<1>3. off \in RangeRecord /\ ~off.line /\ ~off.enabled /\ off.fsm = "DISABLED"
  BY <1>1 DEF WriteEnable, RangeRecord
<1>4. q = IF e = "OK" /\ a = "OK" THEN WriteAddress(off, 0, a)
           ELSE [off EXCEPT !.fsm = "INVALID"]
  BY <1>2
<1> HIDE DEF off
<1>5. CASE e = "OK" /\ a = "OK"
  <2>1. 0 \in Addresses BY DEF Addresses
  <2> QED BY <1>3, <1>4, <1>5, <2>1 DEF WriteAddress, RangeRecord
<1>6. CASE ~(e = "OK" /\ a = "OK")
  <2>1. q = [off EXCEPT !.fsm = "INVALID"] BY <1>4, <1>6
  <2> QED BY <1>3, <2>1 DEF RangeRecord, RangeFsm
<1> QED BY <1>5, <1>6

(* What the three operations leave behind, whatever the writes did. *)
LEMMA RequestPost ==
    ASSUME NEW r \in RangeRecord, NEW id, NEW e, NEW a,
           NEW q, q = RangeRequest(r, id, e, a)
    PROVE  /\ q \in RangeRecord
           /\ q.fsm \in {"DEAD_TIME", "INVALID"}
           /\ q.fsm = "DEAD_TIME" =>
                /\ ~q.line /\ ~q.enabled /\ q.pins = q.address
                /\ q.requested \in RangeIds /\ q.address = AddressOf[q.requested]
           /\ q.pins # r.pins => ~q.line
           /\ q.line => r.line
<1>1. CASE id \notin RangeIds \/ e # "OK"
  BY <1>1 DEF RangeRequest, WriteEnable, Invalidated, RangeRecord, RangeFsm,
              InvalidId
<1>2. CASE id \in RangeIds /\ e = "OK"
  <2> DEFINE off == WriteEnable(r, FALSE, e)
             moved == WriteAddress(off, AddressOf[id], a)
  <2>1. off \in RangeRecord /\ ~off.line /\ ~off.enabled /\ off.pins = r.pins
    BY <1>2 DEF WriteEnable, RangeRecord
  <2>2. AddressOf[id] \in Addresses BY <1>2, AddressType
  <2>3. /\ moved \in RangeRecord /\ ~moved.line /\ ~moved.enabled
        /\ a = "OK" => moved.pins = AddressOf[id] /\ moved.address = AddressOf[id]
    BY <2>1, <2>2 DEF WriteAddress, RangeRecord
  <2>4. q = IF a # "OK" THEN Invalidated(moved)
            ELSE [moved EXCEPT !.fsm = "DEAD_TIME", !.requested = id]
    BY <1>2, <2>1 DEF RangeRequest, AddressWritable
  <2> HIDE DEF off, moved
  <2>5. CASE a = "OK"
    <3>1. q = [moved EXCEPT !.fsm = "DEAD_TIME", !.requested = id]
      BY <2>4, <2>5
    <3>2. /\ q \in RangeRecord /\ q.fsm = "DEAD_TIME" /\ q.requested = id
          /\ q.line = moved.line /\ q.enabled = moved.enabled
          /\ q.pins = moved.pins /\ q.address = moved.address
      BY <1>2, <2>3, <3>1 DEF RangeRecord, RangeFsm
    <3> QED BY <1>2, <2>3, <2>5, <3>2
  <2>6. CASE a # "OK"
    BY <2>3, <2>4, <2>6 DEF Invalidated, RangeRecord, RangeFsm, InvalidId
  <2> QED BY <2>5, <2>6
<1> QED BY <1>1, <1>2

LEMMA DisablePost ==
    ASSUME NEW r \in RangeRecord, NEW e, NEW q, q = RangeForceDisabled(r, e)
    PROVE  /\ q \in RangeRecord
           /\ q.fsm \in {"DISABLED", "INVALID"}
           /\ q.fsm = "DISABLED" => ~q.line /\ ~q.enabled
           /\ q.pins = r.pins /\ q.address = r.address
           /\ q.line => r.line
BY DEF RangeForceDisabled, WriteEnable, RangeRecord, RangeFsm, InvalidId

LEMMA ElapsedPost ==
    ASSUME NEW r \in RangeRecord, NEW e, NEW q, q = RangeElapsed(r, e)
    PROVE  /\ q \in RangeRecord
           /\ q.pins = r.pins /\ q.address = r.address
           /\ q.requested = r.requested
           /\ r.fsm = "DEAD_TIME" =>
                /\ q.fsm \in {"SETTLING", "INVALID"}
                /\ q.fsm = "SETTLING" => q.line /\ q.enabled
           /\ r.fsm = "SETTLING" =>
                /\ q.fsm = "READY" /\ q.current = r.requested
                /\ q.line = r.line /\ q.enabled = r.enabled
           /\ r.fsm \notin {"DEAD_TIME", "SETTLING"} => q = r
BY DEF RangeElapsed, WriteEnable, RangeRecord, RangeFsm, InvalidId
=============================================================================
