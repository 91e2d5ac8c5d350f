------------------------------ MODULE Ownership ------------------------------
(***************************************************************************)
(* What a user counts on, without runs, handlers, requests or answers:     *)
(* resources own things on the server, each at most one.  To become the    *)
(* owner of a thing and to make it is one step, and so is to remove it and *)
(* to own it no more.  What a mishap may do instead is said by the world.  *)
(***************************************************************************)
CONSTANTS
  Resource,   \* who can own things
  Thing,      \* the places that things are made at
  Shared,     \* the things that may be taken over
  None        \* no thing

VARIABLES
  world,      \* [lossy, others, careless], fixed: whether answers get lost,
              \* whether other people use the server, which resources may
              \* forget what they own
  there,      \* the things that exist
  owns        \* owns[r]: the thing that goes when r goes, or None

vars == <<world, there, owns>>

World == [lossy : BOOLEAN, others : BOOLEAN, careless : SUBSET Resource]
Trusted == ~world.lossy /\ ~world.others

Own(r, t) == owns' = [owns EXCEPT ![r] = t]

Init ==
  /\ world \in World
  /\ there \subseteq Thing
  /\ owns = [r \in Resource |-> None]

(* r makes a thing where there is none. *)
Create(r, t) ==
  /\ owns[r] = None /\ t \notin there
  /\ there' = there \cup {t} /\ Own(r, t)
  /\ UNCHANGED world

Adopt(r, t) ==
  /\ owns[r] = None /\ t \in there \cap Shared
  /\ Own(r, t)
  /\ UNCHANGED <<world, there>>

(* r removes what it owns. *)
Remove(r) ==
  /\ owns[r] # None
  /\ there' = there \ {owns[r]} /\ Own(r, None)
  /\ UNCHANGED world

(* Owners learn that their things are gone; careless ones need not look.   *)
Forget(owners) ==
  /\ \A r \in owners \ world.careless : owns[r] \notin there
  /\ owns' = [r \in Resource |-> IF r \in owners THEN None ELSE owns[r]]
  /\ UNCHANGED <<world, there>>

(* Someone else makes a thing, or a resource does and never hears of it.   *)
Appear(t) ==
  /\ ~Trusted /\ t \notin there
  /\ there' = there \cup {t}
  /\ UNCHANGED <<world, owns>>

(* Someone else removes it, or its owner without hearing of it. *)
Vanish(t) ==
  /\ t \in there
  /\ world.others \/ (world.lossy /\ \E r \in Resource : owns[r] = t)
  /\ there' = there \ {t}
  /\ UNCHANGED <<world, owns>>

(* Most steps of a detailed specification change none of this: that they   *)
(* may is said first, for TLC to see it at once.                           *)
Next ==
  \/ UNCHANGED vars
  \/ \E r \in Resource, t \in Thing : Create(r, t) \/ Adopt(r, t)
  \/ \E r \in Resource : Remove(r)
  \/ \E owners \in SUBSET Resource : Forget(owners)
  \/ \E t \in Thing : Appear(t) \/ Vanish(t)

Spec == Init /\ [][Next]_vars

----------------------------------------------------------------------------
(* What this is good for. *)

(* Where answers arrive and nobody else writes, owned things exist and     *)
(* have one owner, unless they are of a kind that may be taken over.       *)
OwnersHold ==
  Trusted => \A r \in Resource :
    owns[r] \notin Shared \cup {None} =>
      /\ owns[r] \in there
      /\ \A s \in Resource \ {r} : owns[s] # owns[r]
=============================================================================
