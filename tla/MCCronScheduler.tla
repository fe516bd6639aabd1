--------------------------- MODULE MCCronScheduler ---------------------------
(* On small instances: a scheduled job on two replicas, and the services of    *)
(* one process, of which the scheduler is one.  They share no state here, so   *)
(* one of them runs in each behaviour.                                         *)
EXTENDS CronScheduler, Services, TLC
CONSTANTS r1, r2, a1, a2, i1
TwoReplicas == {r1, r2}
TwoAttempts == {a1, a2}
OneCall     == {i1}
Symmetry == Permutations(TwoReplicas) \cup Permutations(TwoAttempts)

NoJob == /\ job = [kind |-> "deleted", at |-> 0, active |-> FALSE] /\ now = 0
         /\ sched = [r \in Replica |-> Off] /\ claims = {} /\ att = [a \in Attempt |-> Idle]
         /\ run = [a \in Attempt |-> [status |-> "none", delivery |-> "none"]]
         /\ told = {} /\ won = {} /\ trouble = 0

VARIABLE part
Init == \/ part = "job" /\ CInit /\ OInit
        \/ part = "services" /\ NoJob /\ OInit
Next == \/ part = "job" /\ CNext /\ UNCHANGED <<part, ovars>>
        \/ part = "services" /\ ONext /\ UNCHANGED <<part, cvars>>
Spec == Init /\ [][Next]_<<part, cvars, ovars>>

(* Whoever is told something finds it recorded, and no service is used or      *)
(* shown after its release.                                                    *)
ToldAndServed == TellsWhatIsRecorded /\ ServicesHold
=============================================================================
