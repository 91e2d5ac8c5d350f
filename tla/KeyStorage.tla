----------------------------- MODULE KeyStorage -----------------------------
(***************************************************************************)
(* rundeck_private_key and rundeck_public_key: the handlers of both kinds  *)
(* of resource, call by call, against one Rundeck key store that other     *)
(* people may also write to.                                               *)
(*                                                                         *)
(* A private key's material is recorded as its SHA-1; the model writes the *)
(* material for the hash.                                                  *)
(***************************************************************************)
EXTENDS Requests

CONSTANTS
  PublicKeys,     \* the rundeck_public_key resources; the others are private
  Path,           \* paths in the key store
  Material,       \* key materials a user can write
  NoMaterial,     \* key_material left out, or not known yet
  ErrorBody,      \* the body of a 404 answer, read as if it were a key
  NoKey,          \* nothing is stored at a path
  NoPath,         \* see made
  Someone         \* the creator of a key that no resource made

VARIABLES
  store,          \* store[p]: the key at p, with the resource that made it
  made            \* history: the path r created a key at, while r holds it

vars == <<coreVars, store, made>>

PrivateKeys == Resource \ PublicKeys
KeyType     == {"private", "public"}
KindOf(r)   == IF r \in PublicKeys THEN "public" ELSE "private"

Content == Material \cup {NoMaterial, ErrorBody}
Object  == [path : Path, material : Content, delete : BOOLEAN]
Key     == [type : KeyType, material : Material, by : Resource \cup {Someone}]
Reply   == [status : Status, type : KeyType \cup {"none"}, material : Content]
PublicBlock  == [path : Path, material : Material \cup {NoMaterial}]
PrivateBlock == [path : Path, material : Material]
Blocks(r)    == IF r \in PublicKeys THEN PublicBlock ELSE PrivateBlock

ASSUME KeyAssumption ==
  /\ PublicKeys \subseteq Resource
  /\ NoObject \notin Object /\ NoBlock \notin PublicBlock
  /\ NoReply \notin Reply   /\ NoKey \notin Key
  /\ NoPath \notin Path     /\ NoMaterial \notin Material
  /\ Someone \notin Resource

----------------------------------------------------------------------------
(* The key store. *)

(* What an applied request changes.  An update with a content type the key *)
(* store does not know, "application/octect-stream", keeps the key's type. *)
Applied(r) ==
  LET p == call[r].data.path
      m == call[r].data.material
  IN CASE call[r].pc = "Create" /\ store[p] = NoKey ->
            [store EXCEPT ![p] = [type |-> KindOf(r), material |-> m, by |-> r]]
       [] call[r].pc = "Update" /\ store[p] # NoKey ->
            [store EXCEPT ![p] =
               [type |-> IF r \in PublicKeys THEN "public" ELSE @.type,
                material |-> m, by |-> @.by]]
       [] call[r].pc = "Delete" -> [store EXCEPT ![p] = NoKey]
       [] OTHER -> store

Plain(status) == [status |-> status, type |-> "none", material |-> NoMaterial]

Answer(r) ==
  LET k  == store[call[r].data.path]
      pc == call[r].pc
  IN CASE pc = "Create" -> Plain(IF k = NoKey THEN "200" ELSE "409")
       [] pc \in {"Update", "Delete"} -> Plain(IF k = NoKey THEN "404" ELSE "200")
       [] pc \in {"Exists", "ReadMetadata"} ->
            IF k = NoKey THEN Plain("404")
                         ELSE [Plain("200") EXCEPT !.type = k.type]
       [] OTHER ->
            IF k = NoKey THEN [Plain("404") EXCEPT !.material = ErrorBody]
            ELSE IF k.type = "private" THEN Plain("403")
            ELSE [Plain("200") EXCEPT !.material = k.material]

Serve(r) ==
  /\ Waiting(r)
  /\ store' = Applied(r) /\ Reached(r, Answer(r))
  /\ UNCHANGED <<bookVars, made>>

(* The request is refused, lost, or applied without the caller hearing.    *)
Disturb(r) ==
  /\ Waiting(r)
  /\ \E f \in env.faults :
       /\ store' = IF f.applied THEN Applied(r) ELSE store
       /\ Reached(r, Plain(f.status))
  /\ UNCHANGED <<bookVars, made>>

(* Someone else creates, rewrites, replaces or deletes the key at p.       *)
Elsewhere(p) ==
  /\ env.others
  /\ \E k \in {NoKey} \cup [type : KeyType, material : Material, by : {Someone}] :
       store[p] # k /\ store' = [store EXCEPT ![p] = k]
  /\ UNCHANGED <<coreVars, made>>

----------------------------------------------------------------------------
Is(r, type) == Code(r) = "200" /\ call[r].reply.type = type
Other(r, type) == Code(r) = "200" /\ call[r].reply.type # type

Makes(r, p)  == made' = [made EXCEPT ![r] = p]
Dies ==
  /\ Panic /\ UNCHANGED store
  /\ made' = [s \in Resource |-> IF Managed(s) THEN made[s] ELSE NoPath]

----------------------------------------------------------------------------
(* Refresh. *)

(* An error other than 404 is thrown away and the key reported as gone; a  *)
(* 404 is no error to the client, so resp.Meta is dereferenced and is nil. *)
PrivateKeyExists(r) ==
  /\ r \in PrivateKeys /\ Heard(r, "Exists")
  /\ \/ /\ Err(r, "StorageKeyGetMetadata") /\ Nil(r)
        /\ Dies
     \/ /\ Code(r) = "404"
        /\ Dies
     \/ /\ Refused(r, "StorageKeyGetMetadata") \/ Other(r, "private")
        /\ Refreshed(r, NoObject) /\ Makes(r, NoPath) /\ UNCHANGED store
     \/ /\ Is(r, "private")
        /\ Refreshed(r, call[r].data)       \* ReadPrivateKey reads nothing
        /\ UNCHANGED <<store, made>>

PublicKeyExists(r) ==
  /\ r \in PublicKeys /\ Heard(r, "Exists")
  /\ \/ /\ Nil(r)
        /\ Dies
     \/ /\ Refused(r, "StorageKeyGetMetadata")
        /\ RefreshFailed(r) /\ UNCHANGED <<store, made>>
     \/ /\ Code(r) = "404" \/ Other(r, "public")
        /\ Refreshed(r, NoObject) /\ Makes(r, NoPath) /\ UNCHANGED store
     \/ /\ Is(r, "public")
        /\ Send(r, "ReadMetadata", call[r].data)
        /\ UNCHANGED <<bookVars, store, made>>

ReadPublicKeyMetadata(r) ==
  /\ Heard(r, "ReadMetadata")
  /\ \/ /\ Nil(r)
        /\ Dies
     \/ /\ Refused(r, "StorageKeyGetMetadata") \/ Code(r) = "404"
        /\ ReadReturns(r, call[r].data, TRUE) /\ UNCHANGED <<store, made>>
     \/ /\ Code(r) = "200"
        /\ Send(r, "ReadMaterial", call[r].data)
        /\ UNCHANGED <<bookVars, store, made>>

(* A 404 is accepted and its body taken for the key. *)
ReadPublicKeyMaterial(r) ==
  /\ Heard(r, "ReadMaterial")
  /\ LET read == [call[r].data EXCEPT !.material = call[r].reply.material]
     IN ReadReturns(r, IF Err(r, "StorageKeyGetMaterial") THEN call[r].data ELSE read, Err(r, "StorageKeyGetMaterial"))
  /\ UNCHANGED <<store, made>>

----------------------------------------------------------------------------
(* Plan. *)

Replaces(r) == config[r].path # state[r].object.path
Updates(r)  == config[r].material \notin {NoMaterial, state[r].object.material}

NewOwnedObject(r) == [path     |-> config[r].path,      \* mutant: delete at once
                      material |-> config[r].material, delete |-> TRUE]
NewObject(r) == [path     |-> config[r].path,
                 material |-> config[r].material, delete |-> FALSE]

CallAnyDelete(r, rpc) == At(rpc, "Delete", state[r].object)  \* mutant: no flag

(* CreatePublicKey sends nothing without material, DeletePublicKey nothing *)
(* without the delete flag.                                                *)
CallCreate(r) ==
  At("create", IF config[r].material = NoMaterial THEN "ReadMetadata" ELSE "Create",
     NewObject(r))
CallDelete(r, rpc) ==
  At(rpc, IF r \in PublicKeys /\ ~state[r].object.delete THEN "Forget" ELSE "Delete",
     state[r].object)
CallOwningUpdate(r) ==                  \* mutant: the material sets the flag
  At("update", "Update", [state[r].object EXCEPT !.material = config[r].material,
                                                 !.delete = TRUE])
CallUpdate(r) ==
  At("update", "Update", [state[r].object EXCEPT !.material = config[r].material])

PlanKey(r) ==
  LET managed == config[r] # NoBlock /\ Managed(r)
      action  == Action(r, managed /\ Replaces(r), managed /\ Updates(r))
  IN CASE action = "create" -> CallCreate(r)
       [] action = "update" -> CallUpdate(r)
       [] action \in {"delete", "replace"} -> CallDelete(r, action)
       [] OTHER -> Idle

PlanKeys ==
  Plan([r \in Resource |-> PlanKey(r)]) /\ UNCHANGED <<store, made>>

----------------------------------------------------------------------------
(* Apply. *)

CreateOrAdoptPrivateKey(r) ==           \* mutant: a 409 is let through
  /\ r \in PrivateKeys /\ Heard(r, "Create")
  /\ \/ Nil(r) /\ Dies
     \/ /\ Refused(r, "StorageKeyCreate")
        /\ Created(r, NoObject, TRUE) /\ UNCHANGED <<store, made>>
     \/ /\ ~Err(r, "StorageKeyCreate")
        /\ Created(r, call[r].data, FALSE)
        /\ Makes(r, call[r].data.path) /\ UNCHANGED store

(* CreateOrUpdatePrivateKey without an id: a 409 and an error are both     *)
(* reported as "Key exists".                                               *)
CreatePrivateKey(r) ==
  /\ r \in PrivateKeys /\ Heard(r, "Create")
  /\ \/ Nil(r) /\ Dies
     \/ /\ Refused(r, "StorageKeyCreate") \/ Code(r) = "409"
        /\ Created(r, NoObject, TRUE) /\ UNCHANGED <<store, made>>
     \/ /\ Code(r) = "200"
        /\ Created(r, call[r].data, FALSE)
        /\ Makes(r, call[r].data.path) /\ UNCHANGED store

(* CreateOrUpdatePrivateKey with an id, and UpdatePublicKey: both report a *)
(* failure; only the public key is read back.                              *)
UpdatePrivateKey(r) ==
  /\ r \in PrivateKeys /\ Heard(r, "Update")
  /\ \/ Nil(r) /\ Dies
     \/ ~Nil(r) /\ Updated(r, call[r].data, Err(r, "StorageKeyUpdate")) /\ UNCHANGED <<store, made>>

UpdatePublicKey(r) ==
  /\ r \in PublicKeys /\ Heard(r, "Update")
  /\ \/ Nil(r) /\ Dies
     \/ Refused(r, "StorageKeyUpdate") /\ Updated(r, call[r].data, TRUE) /\ UNCHANGED <<store, made>>
     \/ /\ Code(r) = "200"
        /\ Send(r, "ReadMetadata", call[r].data)
        /\ UNCHANGED <<bookVars, store, made>>

(* A created key is remembered with the delete flag before it is read back. *)
CreatePublicKey(r) ==
  /\ r \in PublicKeys /\ Heard(r, "Create")
  /\ \/ Nil(r) /\ Dies
     \/ /\ Refused(r, "StorageKeyCreate") \/ Code(r) = "409"
        /\ Created(r, NoObject, TRUE) /\ UNCHANGED <<store, made>>
     \/ /\ Code(r) = "200"
        /\ Send(r, "ReadMetadata", [call[r].data EXCEPT !.delete = TRUE])
        /\ Makes(r, call[r].data.path)
        /\ UNCHANGED <<bookVars, store>>

(* DeletePrivateKey, and DeletePublicKey with the delete flag. *)
DeleteKey(r) ==
  /\ Heard(r, "Delete")
  /\ \/ /\ Err(r, "StorageKeyDelete")
        /\ DeleteFailed(r) /\ UNCHANGED <<store, made>>
     \/ /\ ~Err(r, "StorageKeyDelete")
        /\ Deleted(r, CallCreate(r)) /\ Makes(r, NoPath) /\ UNCHANGED store

(* DeletePublicKey without the delete flag leaves the key alone. *)
ForgetPublicKey(r) ==
  /\ call[r].pc = "Forget"
  /\ Deleted(r, CallCreate(r)) /\ Makes(r, NoPath) /\ UNCHANGED store

----------------------------------------------------------------------------
Init ==
  /\ env \in Environments
  /\ config  = [r \in Resource |-> NoBlock]
  /\ state   = [r \in Resource |-> Absent]
  /\ phase   = "idle" /\ outcome = "ok"
  /\ call    = [r \in Resource |-> Idle]
  /\ store \in [Path -> {NoKey} \cup [type : KeyType, material : Material,
                                      by : {Someone}]]
  /\ made    = [r \in Resource |-> NoPath]

Handler(r) ==
  \/ PrivateKeyExists(r) \/ PublicKeyExists(r)
  \/ ReadPublicKeyMetadata(r) \/ ReadPublicKeyMaterial(r)
  \/ CreatePrivateKey(r) \/ UpdatePrivateKey(r)
  \/ CreatePublicKey(r) \/ UpdatePublicKey(r)
  \/ DeleteKey(r) \/ ForgetPublicKey(r)

Edit(r) == /\ \E b \in Blocks(r) \cup {NoBlock} : EditConfig(r, b)
           /\ UNCHANGED <<store, made>>
Start   == StartRun /\ UNCHANGED <<store, made>>
End     == EndRun /\ UNCHANGED <<store, made>>

Retry(r) == Resend(r) /\ UNCHANGED <<store, made>>
Step(r)  == Serve(r) \/ Disturb(r) \/ Retry(r) \/ Handler(r)

Next ==
  \/ \E r \in Resource : Step(r) \/ Edit(r)
  \/ \E p \in Path : Elsewhere(p)
  \/ Start \/ PlanKeys \/ End

Spec == Init /\ [][Next]_vars

(* A run that has begun goes on: handlers are threads of a live process,   *)
(* the client waits for no answer for ever, and a server that limits the   *)
(* rate of a request answers it in the end.                                *)
Progress == (\E r \in Resource : Step(r)) \/ PlanKeys \/ End
FairSpec ==
  /\ Spec
  /\ WF_vars(Progress)
  /\ \A r \in Resource : SF_vars(Serve(r))
=============================================================================
