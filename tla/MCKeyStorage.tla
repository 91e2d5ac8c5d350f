---------------------------- MODULE MCKeyStorage ----------------------------
(* Instances of KeyStorage for TLC: the environments its runs choose from. *)
EXTENDS KeyStorageProperties, TLC

Env(faults, others) == [faults |-> faults, others |-> others]
Flaw(status, applied) == [status |-> status, applied |-> applied]

(* The request is refused, and its caller hears of it. *)
Rejections == {Flaw("403", FALSE), Flaw("500", FALSE)}

(* The request is carried out and the answer lost on the way back. *)
LostAnswers == {Flaw("500", TRUE), Flaw("temporary", TRUE), Flaw("permanent", TRUE)}

AllFaults == Rejections \cup LostAnswers
               \cup {Flaw("429", FALSE), Flaw("permanent", FALSE)}

Crashes == {Flaw("500", TRUE), Flaw("permanent", TRUE)}

Alone        == {Env({}, FALSE), Env(Rejections, FALSE), Env(Crashes, FALSE)}
Shared       == {Env(AllFaults, TRUE)}
Calm         == {Env({}, FALSE)}
CalmShared   == {Env({}, TRUE)}
RejectedOnly == {Env(Rejections, FALSE)}

(* Paths and materials are alike; there is one resource of each kind.      *)
Symmetry == Permutations(Path) \cup Permutations(Material)
=============================================================================
