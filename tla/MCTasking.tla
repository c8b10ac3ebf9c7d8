------------------------------ MODULE MCTasking ------------------------------
(* Instances of Tasking for TLC. *)
EXTENDS Tasking

CONSTANTS idle, manager, a

ThreeThreads == {idle, manager, a}

\* What a corpse keeps in age, priority, arg and pc is never read again once
\* it has lost the processor: states that differ only there are one state.
\* (Sound for safety; the liveness runs do not use it.)
LiveData ==
    LET Gone(t) == Corpse(t) /\ t # thread_current
        Shown(f, blank) == [t \in Threads |-> IF Gone(t) THEN blank ELSE f[t]]
    IN  <<thread_list, thread_list_dead, thread_current, state,
          Shown(age, 0), Shown(priority, 0), Shown(arg, 0), Shown(pc, "run")>>

\* The liveness runs stop following a corpse once it has lost the processor
\* (by CorpseStaysDown it never acts again) but do follow one that holds it.
CorpsesOnProcessor == \A t \in Threads : Corpse(t) => t = thread_current
=============================================================================
