--------------------------- MODULE AnimationMode ---------------------------
(***************************************************************************)
(* What MapleMonster.applyAnimationIfRoaming relies on, without the        *)
(* scheduler: a mob plays one attack animation at a time, a request made   *)
(* meanwhile is refused, and the mob is released only when its animation   *)
(* time is over.                                                           *)
(***************************************************************************)
CONSTANT Mobs

VARIABLE mode

Init == mode = [m \in Mobs |-> "free"]

Start(m) == mode[m] = "free" /\ mode' = [mode EXCEPT ![m] = "playing"]

TimeOver(m) == mode[m] = "playing" /\ mode' = [mode EXCEPT ![m] = "over"]

\* One pass of the scheduler releases all the mobs it found to be over.
Release(M) ==
    /\ M # {} /\ \A m \in M : mode[m] = "over"
    /\ mode' = [m \in Mobs |-> IF m \in M THEN "free" ELSE mode[m]]

Next ==
    \/ \E m \in Mobs : Start(m) \/ TimeOver(m)
    \/ \E M \in SUBSET Mobs : Release(M)

\* Only the release is owed, one mob at a time: nobody has to attack.
ReleaseOne(m) == \E M \in SUBSET Mobs : m \in M /\ Release(M)

Fairness == \A m \in Mobs : WF_mode(TimeOver(m)) /\ WF_mode(ReleaseOne(m))

Spec == Init /\ [][Next]_mode
=============================================================================
