---------------------------- MODULE MCWorkspace ----------------------------
(* Instances of Workspace for TLC. *)
EXTENDS WorkspaceProperties, TLC

Env(faults, others) == [faults |-> faults, others |-> others]
Flaw(status, applied) == [status |-> status, applied |-> applied]

Rejections  == {Flaw("403", FALSE)}
LostAnswers == {Flaw("500", TRUE)}

Calm     == {Env({}, FALSE)}
Alone    == {Env(Rejections, FALSE), Env(LostAnswers, FALSE)}
Shared   == {Env(Rejections \cup LostAnswers, TRUE)}

(* Resources of one kind compete; each behaviour has one kind only.        *)
OfOneKind    == {[r \in Resource |-> k] : k \in {"policy", "project", "job"}}
OnlyProjects == {[r \in Resource |-> "project"]}

(* Nothing tells resources, names or well-formed contents apart; the ids   *)
(* of jobs, which NextId chooses, are not permuted.                        *)
Symmetry == Permutations(Resource) \cup Permutations(Name) \cup Permutations(Content \ Malformed)
=============================================================================
