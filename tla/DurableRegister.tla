-------------------------- MODULE DurableRegister --------------------------
(***************************************************************************)
(* What a store with a commit word promises of the value a reboot will     *)
(* restore: it is the value last reported as saved, until a later save is  *)
(* attempted; then that value or an attempted one, whole; and a save is    *)
(* reported only when the reboot will restore it.                          *)
(***************************************************************************)
CONSTANT Values

VARIABLES
    durable,    \* what a reboot would restore now
    saved,      \* the value last reported as saved, or restored by a reboot
    attempts    \* the values a save was started for since
regVars == <<durable, saved, attempts>>

Init == durable \in Values /\ saved = durable /\ attempts = {}

Attempt(v) == attempts' = attempts \cup {v} /\ UNCHANGED <<durable, saved>>

(* At some moment of an attempt, reported or not, the value becomes the    *)
(* durable one; a further attempt may first take it back.                  *)
Settle(v) ==
    /\ v \in attempts \cup {saved}
    /\ durable' = v
    /\ UNCHANGED <<saved, attempts>>

Report ==
    /\ durable \in attempts
    /\ saved' = durable /\ attempts' = {}
    /\ UNCHANGED durable

PowerLoss(v) ==
    /\ v \in attempts \cup {saved}
    /\ durable' = v /\ saved' = v /\ attempts' = {}

Next == \/ \E v \in Values : Attempt(v) \/ Settle(v) \/ PowerLoss(v)
        \/ Report

Spec == Init /\ [][Next]_regVars
=============================================================================
