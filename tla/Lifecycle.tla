----------------------------- MODULE Lifecycle -----------------------------
(***************************************************************************)
(* What the kernel promises of a thread_t record: it is created, lives,    *)
(* dies, is collected and is freed, in this order, except that the dead    *)
(* may return to life until they are collected; and those that stay dead   *)
(* are collected and freed in the end.                                     *)
(***************************************************************************)
CONSTANT Threads

VARIABLE stage

Stages == {"free", "live", "dead", "collected"}

Init == stage = [t \in Threads |-> "free"]

Advance(t, from, to) ==
    /\ stage[t] = from
    /\ stage' = [stage EXCEPT ![t] = to]

Create(t) == Advance(t, "free", "live")
Die(t) == Advance(t, "live", "dead")
Revive(t) == Advance(t, "dead", "live")
Collect(t) == Advance(t, "dead", "collected")
Free(t) == Advance(t, "collected", "free")

Next == \E t \in Threads : Create(t) \/ Die(t) \/ Revive(t) \/ Collect(t) \/ Free(t)

Spec == Init /\ [][Next]_stage

FairSpec ==
    /\ Spec
    /\ \A t \in Threads : WF_stage(Collect(t)) /\ WF_stage(Free(t))
=============================================================================
