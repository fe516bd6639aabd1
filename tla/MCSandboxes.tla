----------------------------- MODULE MCSandboxes ----------------------------
(* The sandbox of a user, and the skills whose files are put into it, on small *)
(* instances: two workers, two workspaces; two requests about skills.  They    *)
(* share no state here, so one of them runs in each behaviour.                 *)
EXTENDS Sandboxes, SkillPackages, TLC
CONSTANTS k1, k2, t1, t2, w1, w2, f1, f2, p1
TwoWorkers    == {k1, k2}
TwoTasks      == {t1, t2}
TwoWorkspaces == {w1, w2}
TwoFiles      == {f1, f2}
OneFile       == {p1}
Symmetry == UNION {Permutations(s) : s \in {TwoWorkers, TwoTasks, TwoWorkspaces, TwoFiles}}

NoSkills == /\ skill = [s \in SkillId |-> Nothing] /\ past = [s \in SkillId |-> <<>>] /\ objs = {}
            /\ receipt = {} /\ wish = [r \in Req |-> [op |-> "none"]] /\ tx = [t \in Tx |-> NoTx]
            /\ mutex = NoOwner /\ applied = [r \in Req |-> 0] /\ doubt = {} /\ mishaps = 0

VARIABLE part
BothInit == \/ part = "sandbox" /\ BInit /\ NoSkills
            \/ part = "skills" /\ BInit /\ KInit
BothNext == \/ part = "sandbox" /\ BNext /\ UNCHANGED <<part, kvars>>
            \/ part = "skills" /\ KNext /\ UNCHANGED <<part, bvars>>
BothSpec == BothInit /\ [][BothNext]_<<part, kvars, bvars>>
=============================================================================
