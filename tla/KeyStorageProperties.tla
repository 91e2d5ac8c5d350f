------------------------ MODULE KeyStorageProperties ------------------------
(* What the key resources promise, and what their comments say of them. *)
EXTENDS KeyStorage

PCs == Quiet \cup {"Exists", "ReadMetadata", "ReadMaterial",
                    "Create", "Update", "Delete"}
Calls == [rpc : RPCs, pc : PCs, tries : 0..RetryAttempts,
          reply : Reply \cup {NoReply}, data : Object \cup {NoObject}]

(* Every variable has its type; a handler at work has a ResourceData, and  *)
(* handlers only run while a run is on.                                    *)
TypeOK ==
  /\ env \in Environments
  /\ config \in [Resource -> PublicBlock \cup {NoBlock}]
  /\ \A r \in PrivateKeys : config[r] \in PrivateBlock \cup {NoBlock}
  /\ state \in [Resource -> [object : Object \cup {NoObject}, tainted : BOOLEAN]]
  /\ phase \in Phases /\ outcome \in Outcomes
  /\ call \in [Resource -> Calls]
  /\ store \in [Path -> Key \cup {NoKey}]
  /\ made \in [Resource -> Path \cup {NoPath}]

(* r's state says that deleting the block deletes the key at p, and no     *)
(* such delete is under way.                                               *)
Claims(r, p) ==
  /\ Managed(r) /\ state[r].object.path = p
  /\ call[r].pc # "Delete"
  /\ r \in PrivateKeys \/ state[r].object.delete

(* The delete flag of a public key, in the state or in a handler, means    *)
(* that a create of this very object was acknowledged: the flag is never   *)
(* inherited from an earlier object or given to an adopted key             *)
(* (CreatePublicKey, DeletePublicKey).                                     *)
DeleteFlagEarned ==
  \A r \in PublicKeys :
    /\ Managed(r) /\ state[r].object.delete => made[r] = state[r].object.path
    /\ call[r] # Idle /\ call[r].data.delete => made[r] = call[r].data.path

(* A public key that a resource only adopted outlives the resource, under  *)
(* every fault, retry, crash and interference: a request of r removes the  *)
(* key at p only while r remembers having created a key there.             *)
AdoptedKeySurvives ==
  [][\A r \in PublicKeys, p \in Path :
       store[p] # NoKey /\ store'[p] = NoKey /\ call'[r] # call[r]
         => made[r] = p]_vars

(* As long as every answer arrives and nobody else writes, no two          *)
(* resources believe that the key at one path is theirs to delete,         *)
(* whatever the order in which a run's creates, deletes and replacements   *)
(* are served.                                                             *)
Undisturbed == AnswersArrive /\ ~env.others
NoTwoOwners ==
  Undisturbed => \A r, s \in Resource, p \in Path : Claims(r, p) /\ Claims(s, p) => r = s

(* Under the same conditions there is a key at a path a resource claims,   *)
(* and the resource made it itself.                                        *)
ClaimedByMaker ==
  Undisturbed =>
    \A r \in Resource, p \in Path :
      Claims(r, p) => store[p] # NoKey /\ store[p].by = r

(* After a run without errors the store holds, for every key a resource    *)
(* claims, the material recorded for it, if no other resource manages the  *)
(* same path (Updated keeps planned values, ReadPublicKey replaces them).  *)
StoredAsRecorded(r) ==
  \A p \in Path :
    /\ phase = "idle" /\ outcome = "ok" /\ Claims(r, p)
    /\ \A s \in Resource \ {r} : Managed(s) => state[s].object.path # p
    => /\ store[p] # NoKey
       /\ store[p].type = KindOf(r)
       /\ store[p].material = state[r].object.material

(* True of a public key even when requests are refused, of a private key,  *)
(* which is never read back, only when none is.                            *)
ClaimedKeyStored ==
  Undisturbed =>
    \A r \in Resource : r \in PublicKeys \/ env.faults = {} => StoredAsRecorded(r)

(* If nobody else writes, a plan is only made when every public key's      *)
(* object equals the key on the server: no lost answer, crash or error in  *)
(* the refresh lets a stale one through.                                   *)
PlansOnCurrentKeys ==
  [][PlanKeys /\ ~env.others =>
       \A r \in PublicKeys : Managed(r) =>
         LET o == state[r].object IN
           /\ store[o.path] # NoKey
           /\ store[o.path].type = "public"
           /\ store[o.path].material = o.material]_vars

(* Every run ends, under any number of lost or refused requests. *)
RunsEnd == phase # "idle" ~> phase = "idle"

----------------------------------------------------------------------------
(* What the key resources are for, with everything else taken away. *)

(* r owns the key it was told it has made, and a key as soon as the create *)
(* is carried out. Where every answer arrives it also ceases to own a key  *)
(* when the delete is carried out; otherwise a panic may come in between,  *)
(* and the object stays in the state.                                      *)
Served(r, pc) == call[r].pc = pc /\ call[r].reply # NoReply /\ call[r].reply.status = "200"
Owned(r) ==
  IF Served(r, "Create") THEN call[r].data.path
  ELSE IF Served(r, "Delete") /\ Undisturbed THEN NoPath ELSE made[r]

(* A panic makes every resource forget what it was doing.  A private key   *)
(* is forgotten whenever its metadata is refused (PrivateKeyExists), or    *)
(* when an adopter of a public key that was at its path before it has      *)
(* updated that key, which makes the key there a public one.               *)
Keys == INSTANCE Ownership WITH
  Thing <- Path, Shared <- {}, None <- NoPath,
  world <- [lossy |-> ~AnswersArrive, others |-> env.others,
            careless |-> IF Undisturbed THEN PrivateKeys ELSE Resource],
  there <- {p \in Path : store[p] # NoKey},
  owns  <- [r \in Resource |-> Owned(r)]

(* The handlers of both kinds of key, request by request, do nothing but   *)
(* make a key and own it, or remove an owned key and own it no more, each  *)
(* in one step: no order of handlers, refusals and retries lets a resource *)
(* own what it did not make, or lose a public key it did.                  *)
KeysAreOwned == Keys!Spec

----------------------------------------------------------------------------
(* What comments and documentation say of the key resources, and the code  *)
(* does not do.                                                            *)

(* A key that is gone is only ever "pretended to be already deleted" by    *)
(* Exists: with a reachable server no answer brings the provider down      *)
(* (PrivateKeyExists).                                                     *)
NoPanic == outcome # "panic"

(* A private key whose update failed does not end up recorded as updated.  *)
FailedUpdateNotRecorded == \A r \in PrivateKeys : StoredAsRecorded(r)

(* A refresh forgets a private key only when the server holds no private   *)
(* key at its path (PrivateKeyExists).                                     *)
LiveKeyRemembered ==
  [][\A r \in PrivateKeys :
       Managed(r) /\ call[r].pc = "Exists" /\ state'[r] = Absent
         => LET k == store[state[r].object.path] IN k = NoKey \/ k.type # "private"]_vars

(* An apply without errors leaves the delete flag set on a public key      *)
(* whose block provides key_material (CreatePublicKey, UpdatePublicKey).   *)
DeleteFlagDefaultsToTrue ==
  [][End /\ phase = "apply" /\ outcome = "ok" =>
       \A r \in PublicKeys :
         Managed(r) /\ config[r] # NoBlock /\ config[r].material # NoMaterial
           => state[r].object.delete]_vars
=============================================================================
