--------------------------- MODULE Ownership_proofs ---------------------------
(* What follows from Ownership alone, and so holds of whatever implements  *)
(* it, for any resources and things.                                       *)
EXTENDS Ownership, TLAPS

(* Owners are told by resource. *)
OwnsType == owns \in [Resource -> Thing \cup {None}]

IInv == OwnsType /\ OwnersHold

LEMMA InitIInv == Init => IInv
  BY DEF Init, IInv, OwnsType, OwnersHold

(* A new thing is nobody's; a thing taken over may have several owners.    *)
LEMMA GainIInv ==
  ASSUME IInv, NEW r \in Resource, NEW t \in Thing, Create(r, t) \/ Adopt(r, t)
  PROVE  IInv'
<1>1. CASE Create(r, t)
  BY <1>1 DEF IInv, OwnsType, OwnersHold, Trusted, Create, Own
<1>2. CASE Adopt(r, t)
  BY <1>2 DEF IInv, OwnsType, OwnersHold, Trusted, Adopt, Own
<1> QED
  BY <1>1, <1>2

(* What r removes is shared, or r is its only owner.                       *)
LEMMA RemoveIInv ==
  ASSUME IInv, NEW r \in Resource, Remove(r)
  PROVE  IInv'
<1>1. OwnsType'
  BY DEF IInv, OwnsType, Remove, Own
<1>2. ASSUME Trusted', NEW s \in Resource, owns'[s] \notin Shared \cup {None}
      PROVE  owns'[s] \in there' /\ \A q \in Resource \ {s} : owns'[q] # owns'[s]
  <2>1. Trusted /\ s # r /\ owns'[s] = owns[s]
    BY <1>2 DEF IInv, OwnsType, Remove, Own, Trusted
  <2>2. owns[s] \in there /\ \A q \in Resource \ {s} : owns[q] # owns[s]
    BY <1>2, <2>1 DEF IInv, OwnersHold
  <2> QED
    BY <1>2, <2>1, <2>2 DEF IInv, OwnsType, Remove, Own
<1> QED
  BY <1>1, <1>2 DEF IInv, OwnersHold

LEMMA ForgetIInv ==
  ASSUME IInv, NEW owners \in SUBSET Resource, Forget(owners)
  PROVE  IInv'
  BY DEF IInv, OwnsType, OwnersHold, Trusted, Forget

(* Where answers arrive and nobody else writes, nothing comes or goes by   *)
(* itself.                                                                 *)
LEMMA WorldIInv ==
  ASSUME IInv, NEW t \in Thing, Appear(t) \/ Vanish(t)
  PROVE  IInv'
  BY DEF IInv, OwnsType, OwnersHold, Trusted, Appear, Vanish

LEMMA NextIInv == IInv /\ [Next]_vars => IInv'
<1> SUFFICES ASSUME IInv, [Next]_vars PROVE IInv'
  OBVIOUS
<1>1. CASE UNCHANGED vars
  BY <1>1 DEF vars, IInv, OwnsType, OwnersHold, Trusted
<1>2. CASE \E r \in Resource, t \in Thing : Create(r, t) \/ Adopt(r, t)
  BY <1>2, GainIInv
<1>3. CASE \E r \in Resource : Remove(r)
  BY <1>3, RemoveIInv
<1>4. CASE \E owners \in SUBSET Resource : Forget(owners)
  BY <1>4, ForgetIInv
<1>5. CASE \E t \in Thing : Appear(t) \/ Vanish(t)
  BY <1>5, WorldIInv
<1> QED
  BY <1>1, <1>2, <1>3, <1>4, <1>5 DEF Next

(* In a trusted world a thing that is not shared exists as long as it has  *)
(* an owner, and has one owner.                                            *)
THEOREM OwnersAlwaysHold == Spec => []OwnersHold
<1>1. IInv => OwnersHold
  BY DEF IInv
<1> QED
  BY InitIInv, NextIInv, <1>1, PTL DEF Spec
=============================================================================
