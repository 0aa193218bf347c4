----------------------------- MODULE AutoRange -----------------------------
(***************************************************************************)
(* The measurement engine (measurement_engine.c) in a frequency survey:    *)
(* the policy that chooses, from what each capture showed, the range and   *)
(* amplitude to try next, when to go on to the next frequency, and what    *)
(* the whole survey lets it say about the component.                       *)
(*                                                                         *)
(* Ranges are numbered from 10R up.  What a capture shows is abstracted to *)
(* what the policy tells apart (Reading); impedances are ranks.            *)
(***************************************************************************)
EXTENDS Integers, Sequences, FiniteSets

CONSTANTS
    Top,            \* the highest range (6: 1M)
    Readings,       \* what captures may show
    StageMax,       \* MEASUREMENT_SURVEY_STAGE_MAX_ATTEMPTS
    Capacity,       \* MEASUREMENT_AUTO_HISTORY_CAPACITY
    MaxTransitions  \* the limit of choose_next_range in a survey

(* kind: OK; DENOMINATOR, open-like; UNUSABLE, too little return; CLIPPED; *)
(* OTHER, no impedance for another reason; FAILED and ABORTED, no block.   *)
(* ratio: |Z| against the reference of the range.  x: the reactance; its   *)
(* share of |Z| makes it R, X or in between (MIXED).  weak: below 2 mV;    *)
(* strong: above 10 mV.  Where the reactance dominates there is some.      *)
Reading ==
    {r \in [kind : {"OK", "DENOMINATOR", "UNUSABLE", "CLIPPED", "OTHER", "FAILED", "ABORTED"},
            ratio : {"TINY", "SMALL", "GOOD", "LARGE", "HUGE"}, x : -2 .. 2,
            local : {"R", "X", "MIXED"}, level : {"WEAK", "FAIR", "STRONG"},
            short : BOOLEAN, source : BOOLEAN, subohm : BOOLEAN] :
     r.local = "X" => r.x # 0}

AutoRangeAssumption ==
    /\ Top \in Nat /\ Top >= 3 /\ Readings \subseteq Reading
    /\ {StageMax, Capacity, MaxTransitions} \subseteq Nat \ {0}

Ranges == 1 .. Top
Frequencies == {"1KHZ", "10KHZ", "10HZ"}
Condition == [range : Ranges, freq : Frequencies, amp : {100, 500}]
(* measurement_condition_supported: 500 mV would overdrive the 10R range.  *)
Allowed(c) == c.range \in Ranges /\ ~(c.range = 1 /\ c.amp = 500)
Statuses == {"IDLE", "RUNNING", "FINAL_OK", "OPEN_LIKE", "SHORT_LIKE",
             "NO_VALID_CONDITION", "SAFETY_ABORT", "CANCELED", "FAILED"}

(* measurement_auto_session_t: an entry of the history is a condition and  *)
(* its reading; next holds the condition to try, if any.                   *)
Tried(s) == {s.history[i].cond : i \in DOMAIN s.history}
CanAppend(s, c) == Len(s.history) < Capacity /\ Allowed(c) /\ c \notin Tried(s)

Unhinted == 3                   \* 1K
NoResult == [status |-> "IDLE", primary |-> 0, class |-> "UNKNOWN"]
Opening(range) == [range |-> range, freq |-> "1KHZ", amp |-> 100]
NoSession == [status |-> "IDLE", history |-> <<>>, next |-> {}, transitions |-> 0,
              primary |-> 0, result |-> NoResult]
(* measurement_auto_start_session; of a hint a survey takes the range.     *)
Started(range) == [NoSession EXCEPT !.status = "RUNNING", !.next = {Opening(range)}]

-----------------------------------------------------------------------------
(* What one entry shows. *)
NoBlock(r) == r.kind \in {"FAILED", "ABORTED"}
MathOk(r) == r.kind = "OK"
OpenLike(r) == r.kind = "DENOMINATOR"
EvidenceUsable(r) == MathOk(r) /\ r.level # "WEAK"
Point(r) == EvidenceUsable(r) /\ ~r.short

(* The next condition at the same frequency (choose_next_range,            *)
(* choose_500mv_retry, decide_next and the start of decide_survey).        *)
Appendable(s, c) == IF CanAppend(s, c) THEN {c} ELSE {}
Ranged(s, c, d) ==
    IF s.transitions < MaxTransitions THEN Appendable(s, [c EXCEPT !.range = @ + d]) ELSE {}
Louder(s, c) == IF c.amp = 100 THEN Appendable(s, [c EXCEPT !.amp = 500]) ELSE {}
FirstOf(a, b) == IF a # {} THEN a ELSE b

Within(s, c, r) ==
    CASE OpenLike(r) -> Ranged(s, c, 1)
      [] ~OpenLike(r) /\ r.short -> Ranged(s, c, -1)
      [] ~r.short /\ r.kind = "CLIPPED" -> Ranged(s, c, 1)
      [] ~r.short /\ r.kind = "UNUSABLE" ->
            FirstOf(IF r.source THEN Ranged(s, c, -1) ELSE {}, Louder(s, c))
      [] ~r.short /\ r.kind \in {"OTHER", "FAILED", "ABORTED"} -> {}
      [] MathOk(r) /\ ~r.short /\ r.ratio = "HUGE" /\ c.range = Top -> {}
      [] MathOk(r) /\ ~r.short /\ r.ratio = "TINY" /\ c.range = 1 -> {}
      [] OTHER ->
            FirstOf(CASE r.ratio \in {"TINY", "SMALL"} -> Ranged(s, c, -1)
                      [] r.ratio \in {"LARGE", "HUGE"} -> Ranged(s, c, 1)
                      [] OTHER -> {},
                    IF r.level = "WEAK" THEN Louder(s, c) ELSE {})

(* The stages of the survey: 1 kHz, 10 kHz, 10 Hz, each on the range the   *)
(* one before it ended on.                                                 *)
StageCount(s, f) == Cardinality({i \in DOMAIN s.history : s.history[i].cond.freq = f})
(* Seeded fault: the next stage does not look whether it was tried. *)
NextStageRepeated(s, c) ==
    IF c.freq = "10HZ" THEN {}
    ELSE {[range |-> c.range, amp |-> 100, freq |-> IF c.freq = "1KHZ" THEN "10KHZ" ELSE "1KHZ"]}
NextStage(s, c) ==
    IF c.freq = "10HZ" THEN {}
    ELSE Appendable(s, [range |-> c.range, amp |-> 100,
                        freq |-> IF c.freq = "1KHZ" THEN "10KHZ" ELSE "10HZ"])

-----------------------------------------------------------------------------
(* What the survey shows (survey_mask, classify_survey, the frequency      *)
(* trend, survey_primary).                                                 *)
Entries(s, Test(_)) == {i \in DOMAIN s.history : Test(s.history[i].reading)}
At(s, I) == {s.history[i].cond.freq : i \in I}
Local(r) ==
    CASE r.local = "R" -> "RESISTIVE"
      [] r.local = "X" -> IF r.x < 0 THEN "CAPACITIVE" ELSE "INDUCTIVE"
      [] OTHER -> "UNKNOWN"

Hertz == [f \in Frequencies |-> CASE f = "10HZ" -> 10 [] f = "1KHZ" -> 1000 [] OTHER -> 10000]
Magnitude(e) == IF e.reading.x < 0 THEN -e.reading.x ELSE e.reading.x
(* The reactance of a capacitor falls with frequency, an inductor's rises; *)
(* entries that were open or short count here.                             *)
TrendInconsistent(s, class) ==
    \E i, j \in Entries(s, EvidenceUsable) :
        LET low == s.history[i]  high == s.history[j]
        IN  /\ Hertz[low.cond.freq] < Hertz[high.cond.freq]
            /\ \/ class = "CAPACITIVE" /\ Magnitude(high) > Magnitude(low)
               \/ class = "INDUCTIVE" /\ Magnitude(high) < Magnitude(low)

Classify(s) ==
    LET points == Entries(s, Point)
        locals == {Local(s.history[i].reading) : i \in points}
        reactive == locals \cap {"CAPACITIVE", "INDUCTIVE"}
        class == CASE reactive = {"CAPACITIVE"} -> "CAPACITIVE"
                   [] reactive = {"INDUCTIVE"} -> "INDUCTIVE"
                   [] /\ At(s, points) = Frequencies /\ locals = {"RESISTIVE"}
                      /\ \A i \in points : ~s.history[i].reading.subohm -> "RESISTIVE"
                   [] OTHER -> "UNKNOWN"
    IN  IF TrendInconsistent(s, class) THEN "UNKNOWN" ELSE class
Contradicts(class, r) == (class = "CAPACITIVE" /\ r.x >= 0) \/ (class = "INDUCTIVE" /\ r.x <= 0)

(* primary_score, for entries that are not clipped; the source's, the      *)
(* denominator's and the channel's part in it are left out.                *)
Score(e) ==
    4 * (IF e.reading.level = "STRONG" THEN 1 ELSE 0)
    + 2 * (IF e.reading.ratio = "GOOD" THEN 1 ELSE 0)
    + (IF e.cond.freq = "1KHZ" THEN 1 ELSE 0)
Best(s, I) ==
    IF I = {} THEN 0
    ELSE CHOOSE i \in I : \A j \in I :
            \/ Score(s.history[i]) > Score(s.history[j])
            \/ Score(s.history[i]) = Score(s.history[j]) /\ i <= j
Primary(s) ==
    LET class == Classify(s)
        agreeing == {i \in Entries(s, Point) : ~Contradicts(class, s.history[i].reading)}
    IN  Best(s, IF agreeing # {} THEN agreeing ELSE Entries(s, MathOk))

(* finalize_result *)
Finalized(s, status) ==
    [s EXCEPT !.status = status, !.next = {},
              !.result = [status |-> status, primary |-> Primary(s), class |-> Classify(s)]]

Shorted(e) == e.reading.short \/ (MathOk(e.reading) /\ e.cond.range = 1 /\ e.reading.ratio = "TINY")
Opened(e) == OpenLike(e.reading) \/ (MathOk(e.reading) /\ e.cond.range = Top /\ e.reading.ratio = "HUGE")
SurveyStatus(s) ==
    LET readable == {i \in DOMAIN s.history : s.history[i].reading.kind # "CLIPPED"}
    IN  IF At(s, DOMAIN s.history) # Frequencies THEN "NO_VALID_CONDITION"
        ELSE IF Entries(s, Point) # {} THEN "FINAL_OK"
        ELSE IF At(s, {i \in readable : Shorted(s.history[i])}) = Frequencies THEN "SHORT_LIKE"
        ELSE IF At(s, {i \in readable : Opened(s.history[i])}) = Frequencies THEN "OPEN_LIKE"
        ELSE "NO_VALID_CONDITION"

-----------------------------------------------------------------------------
(* measurement_auto_submit_result: stored, decided, and either the next    *)
(* condition or the final result.                                          *)
GoOn(s, next, c) ==
    [s EXCEPT !.next = next,
              !.transitions = IF \E n \in next : n.range # c.range THEN @ + 1 ELSE @]
Stored(s, r) ==
    [s EXCEPT !.history = Append(@, [cond |-> CHOOSE n \in s.next : TRUE, reading |-> r]),
              !.next = {}]
Decided(s) ==
    LET last == s.history[Len(s.history)]
        c == last.cond
        r == last.reading
        within == Within(s, c, r)
        across == NextStage(s, c)
        first == [s EXCEPT !.primary = IF MathOk(r) /\ @ = 0 THEN Len(s.history) ELSE @]
    IN  CASE NoBlock(r) ->
                Finalized(s, IF r.kind = "ABORTED" THEN "SAFETY_ABORT" ELSE "FAILED")
          [] ~NoBlock(r) /\ StageCount(s, c.freq) < StageMax /\ within # {} ->
                GoOn(s, within, c)
          [] OTHER -> IF across # {} THEN GoOn(first, across, c)
                      ELSE Finalized(s, SurveyStatus(s))
(* publish_partial: a stage ended and there is something to show.          *)
PartialAfter(s) == s.next # {} /\ s.primary # 0 /\ \A n \in s.next : StageCount(s, n.freq) = 0

(* measurement_auto_stop_session, measurement_auto_cancel *)
Stopped(s, status) == IF s.status = "IDLE" THEN s ELSE Finalized(s, status)
(* measurement_auto_make_hint: the range the next session begins on.       *)
Hint(s) ==
    IF s.result.status \in {"FINAL_OK", "OPEN_LIKE", "SHORT_LIKE"} /\ s.result.primary # 0
    THEN s.history[s.result.primary].cond.range
    ELSE Unhinted

-----------------------------------------------------------------------------
(* No condition is tried twice, and each is one the hardware allows.       *)
NoConditionTwice(s) ==
    /\ \A i, j \in DOMAIN s.history : s.history[i].cond = s.history[j].cond => i = j
    /\ \A n \in s.next : Allowed(n) /\ n \notin Tried(s)

(* A survey that says OK looked at every frequency, and what it shows is a *)
(* reading that is neither open nor short and whose sign bears out what    *)
(* the component is said to be; a component is said to be open or short    *)
(* only after every frequency said so.                                     *)
VerdictBorneOut(s) ==
    /\ s.status \in {"FINAL_OK", "OPEN_LIKE", "SHORT_LIKE"} =>
          At(s, DOMAIN s.history) = Frequencies
    /\ s.status = "FINAL_OK" =>
          /\ s.result.primary # 0
          /\ LET r == s.history[s.result.primary].reading
             IN  Point(r) /\ ~Contradicts(s.result.class, r)
    /\ s.status \in {"OPEN_LIKE", "SHORT_LIKE"} => Entries(s, Point) = {}
=============================================================================
