------------------------- MODULE KeyOwnership_proofs -------------------------
(***************************************************************************)
(* Proofs about who owns the keys of KeyStorage, for every set of          *)
(* resources, paths, materials and faults.                                 *)
(***************************************************************************)
EXTENDS KeyStorage_proofs

(* A handler works for the RPC its program point belongs to, and on the    *)
(* path and the flag of the object it was called with.                     *)
RpcOK(r) ==
  /\ call[r].rpc \notin {"none", "create"} =>
       /\ Managed(r)
       /\ call[r].data.path = state[r].object.path
       /\ call[r].data.delete = state[r].object.delete
  /\ call[r].rpc = "none" => call[r] = Idle
  /\ call[r].pc = "Exists" => call[r].rpc = "refresh"
  /\ call[r].pc = "Update" => call[r].rpc = "update"
  /\ call[r].pc \in {"Delete", "Forget"} <=> call[r].rpc \in {"delete", "replace"}
  /\ call[r].pc = "Forget" => r \in PublicKeys /\ ~call[r].data.delete
  /\ call[r] # Idle => (call[r].rpc = "refresh" <=> phase = "refresh")

(* made[r] is what the state says of the object, or the handler that is    *)
(* still reading the object it created.                                    *)
MadeBy(r, object) == IF r \in PrivateKeys \/ object.delete THEN object.path ELSE NoPath
Reading(r) == call[r].rpc = "create" /\ call[r].pc # "Create"
MadeOK(r) ==
  made[r] = IF Managed(r) THEN MadeBy(r, state[r].object)
            ELSE IF Reading(r) THEN MadeBy(r, call[r].data) ELSE NoPath

RowsOK == \A r \in Resource : RpcOK(r) /\ MadeOK(r)

----------------------------------------------------------------------------
(* The provider dies of the answer to r's request: there is no response at *)
(* all, or a 404 on the metadata of a private key.                         *)
Deadly(r) ==
  /\ call[r].reply # NoReply
  /\ Nil(r) \/ (r \in PrivateKeys /\ call[r].pc = "Exists" /\ Code(r) = "404")
Killed(r) == Dies /\ Deadly(r)

(* A handler changes the rows of its resource alone, unless the provider   *)
(* dies of it, and never the store.                                        *)
LEMMA HandlerFrame ==
  ASSUME IInv, NEW r \in Resource, Handler(r)
  PROVE  /\ UNCHANGED <<env, config, store>>
         /\ Killed(r) \/ (Only(r) /\ phase' = phase)
<1>0. /\ DOMAIN call = Resource /\ DOMAIN state = Resource /\ DOMAIN made = Resource
      /\ call = [s \in Resource |-> call[s]]
      /\ state = [s \in Resource |-> state[s]] /\ made = [s \in Resource |-> made[s]]
  BY DEF IInv, TypeOK
<1> USE DEF Killed, Deadly, Heard, bookVars, Only, Makes, Send, Record, Return, Refreshed,
           RefreshFailed
<1>1. CASE PrivateKeyExists(r)
  BY <1>0, <1>1 DEF PrivateKeyExists, Dies, Panic
<1>2. CASE PublicKeyExists(r)
  BY <1>0, <1>2 DEF PublicKeyExists, Dies, Panic
<1>3. CASE ReadPublicKeyMetadata(r) \/ ReadPublicKeyMaterial(r)
  BY <1>0, <1>3 DEF ReadPublicKeyMetadata, ReadPublicKeyMaterial, ReadReturns,
     Created, Updated, Dies, Panic
<1>4. CASE CreatePrivateKey(r) \/ CreatePublicKey(r)
  BY <1>0, <1>4 DEF CreatePrivateKey, CreatePublicKey, Created, Dies, Panic
<1>5. CASE UpdatePrivateKey(r) \/ UpdatePublicKey(r)
  BY <1>0, <1>5 DEF UpdatePrivateKey, UpdatePublicKey, Updated, Dies, Panic
<1>6. CASE DeleteKey(r) \/ ForgetPublicKey(r)
  BY <1>0, <1>6 DEF DeleteKey, ForgetPublicKey, Deleted, DeleteFailed
<1> QED
  BY <1>1, <1>2, <1>3, <1>4, <1>5, <1>6 DEF Handler

(* Core's bookkeeping leaves nothing of a handler that has returned.       *)
LEMMA ReturnedRows ==
  ASSUME IInv, NEW r \in Resource, NEW object \in Object \cup {NoObject}, NEW tainted,
         Return(r), Record(r, object, tainted),
         made'[r] = IF object = NoObject THEN NoPath ELSE MadeBy(r, object)
  PROVE  RpcOK(r)' /\ MadeOK(r)'
<1>1. call'[r] = Idle /\ state'[r].object = object
  BY DEF Return, Record, IInv, TypeOK
<1> QED
  BY <1>1 DEF RpcOK, MadeOK, MadeBy, Reading, Managed, Idle, At

(* The refresh of an object forgets it, or keeps its path and its flag.    *)
LEMMA RefreshRows ==
  ASSUME IInv, NEW r \in Resource, RpcOK(r), MadeOK(r), call[r].rpc = "refresh",
         \/ RefreshFailed(r) /\ UNCHANGED made
         \/ Refreshed(r, NoObject) /\ Makes(r, NoPath)
         \/ \E object \in Object :
              /\ Refreshed(r, object) /\ UNCHANGED made
              /\ object.path = call[r].data.path /\ object.delete = call[r].data.delete
  PROVE  RpcOK(r)' /\ MadeOK(r)'
<1>1. /\ Managed(r) /\ state[r].object \in Object
      /\ made[r] = MadeBy(r, state[r].object)
      /\ call[r].data.path = state[r].object.path
      /\ call[r].data.delete = state[r].object.delete
  BY DEF RpcOK, MadeOK, Managed, IInv, TypeOK
<1>2. CASE RefreshFailed(r) /\ UNCHANGED made
  <2>1. call'[r] = Idle /\ state'[r] = state[r]
    BY <1>2 DEF RefreshFailed, Return, IInv, TypeOK
  <2> QED
    BY <1>1, <1>2, <2>1 DEF RpcOK, MadeOK, MadeBy, Reading, Managed, Idle, At
<1>3. CASE Refreshed(r, NoObject) /\ Makes(r, NoPath)
  <2>1. made'[r] = NoPath
    BY <1>3 DEF Makes, IInv, TypeOK
  <2> QED
    BY <1>3, <2>1, ReturnedRows DEF Refreshed
<1>4. ASSUME NEW object \in Object, Refreshed(r, object), UNCHANGED made,
             object.path = call[r].data.path, object.delete = call[r].data.delete
      PROVE  RpcOK(r)' /\ MadeOK(r)'
  BY <1>1, <1>4, ReturnedRows, KeyAssumption DEF Refreshed, MadeBy
<1> QED
  BY <1>2, <1>3, <1>4

(* A create, an update or a refresh reads on. *)
LEMMA SendRows ==
  ASSUME IInv, NEW r \in Resource, RpcOK(r), call[r] # Idle,
         NEW pc \in {"ReadMetadata", "ReadMaterial"}, NEW data,
         Send(r, pc, data), UNCHANGED bookVars,
         call[r].rpc \in {"create", "update", "refresh"},
         data.path = call[r].data.path,
         IF call[r].rpc = "create" THEN made'[r] = MadeBy(r, data)
         ELSE data.delete = call[r].data.delete /\ UNCHANGED made /\ MadeOK(r)
  PROVE  RpcOK(r)' /\ MadeOK(r)'
<1>1. /\ call'[r].rpc = call[r].rpc /\ call'[r].pc = pc /\ call'[r].data = data
      /\ UNCHANGED <<state, phase>>
  BY DEF Send, At, bookVars, IInv, TypeOK
<1>2. call[r].rpc = "create" => ~Managed(r)
  BY DEF IInv, HandlerOK
<1> QED
  BY <1>1, <1>2 DEF RpcOK, MadeOK, MadeBy, Reading, Managed, Idle, At

(* A read is the end of a refresh, a create or an update. *)
LEMMA ReadReturnsRows ==
  ASSUME IInv, NEW r \in Resource, RpcOK(r), MadeOK(r), call[r] # Idle,
         NEW object \in Object, NEW err, ReadReturns(r, object, err), UNCHANGED made,
         object.path = call[r].data.path, object.delete = call[r].data.delete,
         call[r].pc # "Create"
  PROVE  RpcOK(r)' /\ MadeOK(r)'
<1>1. CASE call[r].rpc = "refresh"
  BY <1>1, RefreshRows DEF ReadReturns, Created, Updated
<1>2. CASE call[r].rpc = "create" /\ Created(r, object, err)
  <2>1. made[r] = MadeBy(r, object)
    BY <1>2 DEF MadeOK, MadeBy, Reading, IInv, HandlerOK
  <2> QED
    BY <1>2, <2>1, ReturnedRows, KeyAssumption DEF Created
<1>3. CASE call[r].rpc = "update" /\ Updated(r, object, err)
  <2>1. made[r] = MadeBy(r, object)
    BY <1>3 DEF MadeOK, MadeBy, RpcOK
  <2> QED
    BY <1>3, <2>1, ReturnedRows, KeyAssumption DEF Updated
<1> QED
  BY <1>1, <1>2, <1>3 DEF ReadReturns

LEMMA RefreshingRows ==
  ASSUME IInv, NEW r \in Resource, RpcOK(r), MadeOK(r),
         PrivateKeyExists(r) \/ PublicKeyExists(r)
           \/ ReadPublicKeyMetadata(r) \/ ReadPublicKeyMaterial(r)
  PROVE  Killed(r) \/ (RpcOK(r)' /\ MadeOK(r)')
<1> USE DEF Killed, Deadly, Heard
<1>1. CASE PrivateKeyExists(r)
  <2>1. call[r].data \in Object /\ call[r].rpc = "refresh"
    BY <1>1, HeardData DEF PrivateKeyExists, PCs, RpcOK
  <2> QED
    BY <1>1, <2>1, RefreshRows DEF PrivateKeyExists
<1>2. CASE PublicKeyExists(r)
  <2>1. call[r] # Idle /\ call[r].data \in Object /\ call[r].rpc = "refresh"
    BY <1>2, HeardData DEF PublicKeyExists, PCs, RpcOK
  <2>2. CASE Send(r, "ReadMetadata", call[r].data) /\ UNCHANGED <<bookVars, store, made>>
    BY <2>1, <2>2, SendRows
  <2> QED
    BY <1>2, <2>1, <2>2, RefreshRows DEF PublicKeyExists
<1>3. CASE ReadPublicKeyMetadata(r)
  <2>1. call[r] # Idle /\ call[r].data \in Object /\ call[r].pc = "ReadMetadata"
    BY <1>3, HeardData DEF ReadPublicKeyMetadata, PCs
  <2>2. CASE Send(r, "ReadMaterial", call[r].data) /\ UNCHANGED <<bookVars, store, made>>
    <3>1. call[r].rpc \in {"create", "update", "refresh"}
      BY <2>1 DEF RpcOK, IInv, TypeOK, Calls, RPCs
    <3>2. call[r].rpc = "create" => made[r] = MadeBy(r, call[r].data)
      BY <2>1 DEF MadeOK, Reading, IInv, HandlerOK
    <3> QED
      BY <2>1, <2>2, <3>1, <3>2, SendRows
  <2>3. CASE ReadReturns(r, call[r].data, TRUE) /\ UNCHANGED <<store, made>>
    BY <2>1, <2>3, ReadReturnsRows
  <2> QED
    BY <1>3, <2>2, <2>3 DEF ReadPublicKeyMetadata
<1>4. CASE ReadPublicKeyMaterial(r)
  <2> DEFINE read == [call[r].data EXCEPT !.material = call[r].reply.material]
             err  == Err(r, "StorageKeyGetMaterial")
             object == IF err THEN call[r].data ELSE read
  <2>1. /\ call[r] # Idle /\ call[r].data \in Object /\ call[r].reply \in Reply
        /\ call[r].pc = "ReadMaterial"
    BY <1>4, HeardData DEF ReadPublicKeyMaterial, PCs
  <2>2. /\ object \in Object /\ object.path = call[r].data.path
        /\ object.delete = call[r].data.delete
    BY <2>1 DEF Object, Reply
  <2>3. ReadReturns(r, object, err) /\ UNCHANGED <<store, made>>
    BY <1>4 DEF ReadPublicKeyMaterial
  <2> QED
    BY <2>1, <2>2, <2>3, ReadReturnsRows
<1> QED
  BY <1>1, <1>2, <1>3, <1>4

LEMMA WritingRows ==
  ASSUME IInv, NEW r \in Resource, RpcOK(r), MadeOK(r),
         CreatePrivateKey(r) \/ CreatePublicKey(r)
           \/ UpdatePrivateKey(r) \/ UpdatePublicKey(r)
  PROVE  Killed(r) \/ (RpcOK(r)' /\ MadeOK(r)')
<1> USE DEF Killed, Deadly, Heard
<1>0. CASE Created(r, NoObject, TRUE) /\ UNCHANGED <<store, made>>
             /\ call[r].pc = "Create"
  <2>1. made[r] = NoPath
    BY <1>0 DEF MadeOK, Reading, IInv, HandlerOK
  <2> QED
    BY <1>0, <2>1, ReturnedRows DEF Created
<1>1. CASE CreatePrivateKey(r)
  <2>1. call[r].data \in Object /\ call[r].pc = "Create" /\ r \in PrivateKeys
    BY <1>1, HeardData DEF CreatePrivateKey, PCs
  <2>2. CASE Created(r, call[r].data, FALSE) /\ Makes(r, call[r].data.path)
    <3>1. made'[r] = MadeBy(r, call[r].data)
      BY <2>1, <2>2 DEF Makes, MadeBy, IInv, TypeOK
    <3> QED
      BY <2>1, <2>2, <3>1, ReturnedRows, KeyAssumption DEF Created
  <2> QED
    BY <1>0, <1>1, <2>1, <2>2 DEF CreatePrivateKey
<1>2. CASE CreatePublicKey(r)
  <2> DEFINE data == [call[r].data EXCEPT !.delete = TRUE]
  <2>1. call[r] # Idle /\ call[r].data \in Object /\ call[r].pc = "Create"
    BY <1>2, HeardData DEF CreatePublicKey, PCs
  <2>2. data.path = call[r].data.path /\ data.delete /\ call[r].rpc = "create"
    BY <2>1 DEF Object, IInv, HandlerOK
  <2>3. CASE Send(r, "ReadMetadata", data) /\ Makes(r, call[r].data.path)
               /\ UNCHANGED <<bookVars, store>>
    <3>1. made'[r] = MadeBy(r, data)
      BY <2>2, <2>3 DEF Makes, MadeBy, IInv, TypeOK
    <3> QED
      BY <2>1, <2>2, <2>3, <3>1, SendRows
  <2> QED
    BY <1>0, <1>2, <2>1, <2>3 DEF CreatePublicKey
<1>3. ASSUME call[r].pc = "Update", call[r].data \in Object,
             NEW err, Updated(r, call[r].data, err), UNCHANGED made
      PROVE  RpcOK(r)' /\ MadeOK(r)'
  <2>1. made[r] = MadeBy(r, call[r].data)
    BY <1>3 DEF RpcOK, MadeOK, MadeBy
  <2> QED
    BY <1>3, <2>1, ReturnedRows, KeyAssumption DEF Updated
<1>4. CASE UpdatePrivateKey(r)
  <2>1. call[r].data \in Object /\ call[r].pc = "Update"
    BY <1>4, HeardData DEF UpdatePrivateKey, PCs
  <2> QED
    BY <1>3, <1>4, <2>1 DEF UpdatePrivateKey
<1>5. CASE UpdatePublicKey(r)
  <2>1. call[r] # Idle /\ call[r].data \in Object /\ call[r].pc = "Update"
    BY <1>5, HeardData DEF UpdatePublicKey, PCs
  <2>2. CASE Send(r, "ReadMetadata", call[r].data) /\ UNCHANGED <<bookVars, store, made>>
    <3>1. call[r].rpc = "update"
      BY <2>1 DEF RpcOK
    <3> QED
      BY <2>1, <2>2, <3>1, SendRows
  <2> QED
    BY <1>3, <1>5, <2>1, <2>2 DEF UpdatePublicKey
<1> QED
  BY <1>1, <1>2, <1>4, <1>5

(* The create half of a replacement starts with nothing made.              *)
LEMMA DeletingRows ==
  ASSUME IInv, NEW r \in Resource, RpcOK(r), MadeOK(r), DeleteKey(r) \/ ForgetPublicKey(r)
  PROVE  RpcOK(r)' /\ MadeOK(r)'
<1>1. CASE DeleteFailed(r) /\ UNCHANGED <<store, made>>
  <2>1. call'[r] = Idle /\ state'[r].object = state[r].object
    BY <1>1 DEF DeleteFailed, Return, Record, IInv, TypeOK
  <2>2. Managed(r)
    BY DEF DeleteKey, ForgetPublicKey, Heard, RpcOK
  <2> QED
    BY <1>1, <2>1, <2>2 DEF RpcOK, MadeOK, MadeBy, Reading, Managed, Idle, At
<1>2. CASE Deleted(r, CallCreate(r)) /\ Makes(r, NoPath) /\ UNCHANGED store
  <2>1. made'[r] = NoPath /\ ~Managed(r)' /\ phase' = phase
    BY <1>2 DEF Makes, Deleted, Record, Managed, IInv, TypeOK
  <2>2. CASE call[r].rpc = "replace"
    <3>1. call'[r] = CallCreate(r)
      BY <1>2, <2>2 DEF Deleted, IInv, TypeOK
    <3>2. config[r] # NoBlock /\ call[r] # Idle
      BY <2>2 DEF IInv, HandlerOK, Idle, At
    <3>3. /\ CallCreate(r).pc \in {"ReadMetadata", "Create"}
          /\ CallCreate(r).rpc = "create" /\ ~CallCreate(r).data.delete
          /\ CallCreate(r).pc = "ReadMetadata" => r \in PublicKeys
      <4>1. r \in PrivateKeys => config[r].material # NoMaterial
        BY <3>2, KeyAssumption DEF IInv, TypeOK, PrivateBlock
      <4> QED
        BY <3>2, <4>1, CallCreateOK DEF CallCreate, At, PrivateKeys
    <3>4. phase # "refresh"
      BY <2>2, <3>2 DEF RpcOK
    <3> QED
      BY <2>1, <3>1, <3>3, <3>4 DEF RpcOK, MadeOK, MadeBy, Reading, PrivateKeys
  <2>3. CASE call[r].rpc # "replace"
    <3>1. call'[r] = Idle
      BY <1>2, <2>3 DEF Deleted, IInv, TypeOK
    <3> QED
      BY <2>1, <3>1 DEF RpcOK, MadeOK, Reading, Idle, At
  <2> QED
    BY <2>2, <2>3
<1> QED
  BY <1>1, <1>2 DEF DeleteKey, ForgetPublicKey

LEMMA HandlerRows ==
  ASSUME IInv, RowsOK, NEW r \in Resource, Handler(r), ~Killed(r)
  PROVE  RowsOK'
<1>1. RpcOK(r)' /\ MadeOK(r)'
  BY RefreshingRows, WritingRows, DeletingRows DEF Handler, RowsOK
<1>2. Only(r) /\ phase' = phase
  BY HandlerFrame
<1>3. ASSUME NEW s \in Resource, s # r PROVE RpcOK(s)' /\ MadeOK(s)'
  BY <1>2, <1>3 DEF Only, RowsOK, RpcOK, MadeOK, Reading, Managed
<1> QED
  BY <1>1, <1>3 DEF RowsOK

LEMMA DiesRows == IInv /\ RowsOK /\ Dies => RowsOK'
<1> SUFFICES ASSUME IInv, RowsOK, Dies, NEW r \in Resource
             PROVE  RpcOK(r)' /\ MadeOK(r)'
  BY DEF RowsOK
<1>1. /\ call'[r] = Idle /\ state'[r].object = state[r].object
      /\ made'[r] = IF Managed(r) THEN made[r] ELSE NoPath
  BY DEF Dies, Panic, IInv, TypeOK
<1> QED
  BY <1>1 DEF RowsOK, RpcOK, MadeOK, Reading, Managed, Idle, At

(* Whether a request is answered or sent again concerns no bookkeeping.    *)
LEMMA AnswerRows ==
  ASSUME IInv, RowsOK, NEW r \in Resource, Serve(r) \/ Disturb(r) \/ Retry(r)
  PROVE  RowsOK'
<1> SUFFICES ASSUME NEW s \in Resource PROVE RpcOK(s)' /\ MadeOK(s)'
  BY DEF RowsOK
<1>1. /\ call'[s].rpc = call[s].rpc /\ call'[s].pc = call[s].pc
      /\ call'[s].data = call[s].data
  <2>1. call[s] \in Calls
    BY DEF IInv, TypeOK
  <2>2. CASE Serve(r) \/ Disturb(r)
    <3>1. PICK reply : call' = [call EXCEPT ![r].reply = reply]
      BY <2>2 DEF Serve, Disturb, Reached
    <3> QED
      BY <2>1, <3>1 DEF Calls, IInv, TypeOK
  <2>3. CASE Retry(r)
    <3>1. PICK tries : call' = [call EXCEPT ![r].reply = NoReply, ![r].tries = tries]
      BY <2>3 DEF Retry, Resend
    <3> QED
      BY <2>1, <3>1 DEF Calls, IInv, TypeOK
  <2> QED
    BY <2>2, <2>3
<1>3. UNCHANGED <<bookVars, made>>
  BY DEF Serve, Disturb, Retry, Resend
<1>2. call[s] = Idle => call'[s] = Idle
  BY DEF Serve, Disturb, Retry, Resend, Reached, Waiting, CanRetry, Quiet, Idle, At,
         IInv, TypeOK
<1> QED
  BY <1>1, <1>2, <1>3 DEF RowsOK, RpcOK, MadeOK, Reading, Managed, bookVars, Idle, At

LEMMA StartRows == IInv /\ RowsOK /\ Start => RowsOK'
<1> SUFFICES ASSUME IInv, RowsOK, Start, NEW r \in Resource
             PROVE  RpcOK(r)' /\ MadeOK(r)'
  BY DEF RowsOK
<1>1. /\ call'[r] = IF Managed(r) THEN At("refresh", "Exists", state[r].object) ELSE Idle
      /\ phase' = "refresh" /\ UNCHANGED <<state, made>>
  BY DEF Start, StartRun
<1>2. made[r] = IF Managed(r) THEN MadeBy(r, state[r].object) ELSE NoPath
  BY DEF RowsOK, MadeOK, Reading, IInv, HandlerOK, Start, StartRun, Idle, At
<1> QED
  BY <1>1, <1>2 DEF RpcOK, MadeOK, Reading, Managed, Idle, At

(* The calls a plan starts. *)
LEMMA PlannedCall ==
  ASSUME IInv, NEW r \in Resource
  PROVE  \/ PlanKey(r) = CallCreate(r) /\ config[r] # NoBlock /\ ~Managed(r)
         \/ PlanKey(r) = CallUpdate(r) /\ config[r] # NoBlock /\ Managed(r)
         \/ Managed(r) /\ \E rpc \in {"delete", "replace"} : PlanKey(r) = CallDelete(r, rpc)
         \/ PlanKey(r) = Idle
<1> DEFINE managed == config[r] # NoBlock /\ Managed(r)
           action  == Action(r, managed /\ Replaces(r), managed /\ Updates(r))
<1> HIDE DEF action
<1>1. /\ action = "create" => config[r] # NoBlock /\ ~Managed(r)
      /\ action = "update" => config[r] # NoBlock /\ Managed(r)
      /\ action = "delete" => Managed(r)
      /\ action = "replace" => Managed(r)
  <2>1. /\ (managed /\ Replaces(r)) \in BOOLEAN /\ (managed /\ Updates(r)) \in BOOLEAN
        /\ state[r].tainted \in BOOLEAN
    BY DEF IInv, TypeOK
  <2> QED
    BY <2>1, ActionMeans DEF action
<1> QED
  BY <1>1 DEF PlanKey, action

LEMMA PlanRows == IInv /\ RowsOK /\ PlanKeys => RowsOK'
<1> SUFFICES ASSUME IInv, RowsOK, PlanKeys, NEW r \in Resource
             PROVE  RpcOK(r)' /\ MadeOK(r)'
  BY DEF RowsOK
<1>1. /\ call'[r] = PlanKey(r) /\ call[r] = Idle /\ phase' = "apply"
      /\ UNCHANGED <<config, state, made>>
  BY DEF PlanKeys, Plan, AllIdle
<1>2. made[r] = IF Managed(r) THEN MadeBy(r, state[r].object) ELSE NoPath
  BY <1>1 DEF RowsOK, MadeOK, Reading, Idle, At
<1>3. CASE PlanKey(r) = CallCreate(r) /\ config[r] # NoBlock /\ ~Managed(r)
  <2>1. r \in PrivateKeys => config[r].material # NoMaterial
    BY <1>3, KeyAssumption DEF IInv, TypeOK, PrivateBlock
  <2>2. /\ CallCreate(r).pc = IF config[r].material = NoMaterial THEN "ReadMetadata"
                                                                   ELSE "Create"
        /\ CallCreate(r).rpc = "create" /\ ~CallCreate(r).data.delete
    BY DEF CallCreate, At, NewObject
  <2> QED
    BY <1>1, <1>2, <1>3, <2>1, <2>2 DEF RpcOK, MadeOK, MadeBy, Reading, Managed, PrivateKeys
<1>4. CASE PlanKey(r) = CallUpdate(r) /\ config[r] # NoBlock /\ Managed(r)
  <2>1. /\ PlanKey(r).pc = "Update" /\ PlanKey(r).rpc = "update"
        /\ PlanKey(r).data.path = state[r].object.path
        /\ PlanKey(r).data.delete = state[r].object.delete
    BY <1>4 DEF CallUpdate, At, IInv, TypeOK, Managed, Object
  <2> QED
    BY <1>1, <1>2, <1>4, <2>1 DEF RpcOK, MadeOK, Reading, Managed
<1>5. CASE Managed(r) /\ \E rpc \in {"delete", "replace"} : PlanKey(r) = CallDelete(r, rpc)
  BY <1>1, <1>2, <1>5 DEF RpcOK, MadeOK, Reading, Managed, CallDelete, At
<1>6. CASE PlanKey(r) = Idle
  BY <1>1, <1>2, <1>6 DEF RpcOK, MadeOK, Reading, Managed, Idle, At
<1> QED
  BY <1>3, <1>4, <1>5, <1>6, PlannedCall

LEMMA BetweenRunsRows ==
  IInv /\ RowsOK /\ (End \/ \E r \in Resource : Edit(r)) => RowsOK'
<1> SUFFICES ASSUME IInv, RowsOK, End \/ \E r \in Resource : Edit(r),
                    NEW s \in Resource
             PROVE  RpcOK(s)' /\ MadeOK(s)'
  BY DEF RowsOK
<1>1. call[s] = Idle /\ UNCHANGED <<call, state, made>>
  BY DEF End, EndRun, AllIdle, Edit, EditConfig, IInv, HandlerOK
<1> QED
  BY <1>1 DEF RowsOK, RpcOK, MadeOK, Reading, Managed, Idle, At

LEMMA InitRows == Init => RowsOK
  BY DEF Init, RowsOK, RpcOK, MadeOK, Reading, Managed, Absent, Idle, At

LEMMA NextRows == IInv /\ RowsOK /\ [Next]_vars => RowsOK'
<1> SUFFICES ASSUME IInv, RowsOK, [Next]_vars PROVE RowsOK'
  OBVIOUS
<1>1. CASE UNCHANGED vars
  BY <1>1 DEF vars, coreVars, bookVars, RowsOK, RpcOK, MadeOK, Reading, Managed
<1>2. ASSUME NEW p \in Path, Elsewhere(p) PROVE RowsOK'
  BY <1>2 DEF Elsewhere, coreVars, bookVars, RowsOK, RpcOK, MadeOK, Reading, Managed
<1> QED
  BY <1>1, <1>2, HandlerRows, DiesRows, AnswerRows, StartRows, PlanRows, BetweenRunsRows
  DEF Next, Step, Killed

----------------------------------------------------------------------------
(* The keys themselves. *)

(* A key that a public resource made stays a public key.                   *)
MakerOK == \A p \in Path :
  store[p] # NoKey /\ store[p].by \in PublicKeys => store[p].type = "public"

(* What r owns is there and was made by r: so nobody else owns it.         *)
HoldsOK(r) == Owned(r) # NoPath => store[Owned(r)] # NoKey /\ store[Owned(r)].by = r

(* An answer that has arrived is a response, and what it says of the key   *)
(* that r made still holds.                                                *)
AnswerOK(r) ==
  call[r].reply # NoReply =>
    /\ ~Nil(r)
    /\ call[r].pc = "Exists" /\ made[r] # NoPath =>
         /\ Code(r) # "404"
         /\ r \in PublicKeys => ~Other(r, "public")

OwnedOK == MakerOK /\ (Undisturbed => \A r \in Resource : HoldsOK(r) /\ AnswerOK(r))

KInv == IInv /\ RowsOK /\ OwnedOK

(* Nothing changes what may go wrong in a behaviour.                       *)
LEMMA SteadyEnv == IInv /\ [Next]_vars => UNCHANGED env /\ Undisturbed' = Undisturbed
<1> SUFFICES ASSUME IInv, [Next]_vars PROVE UNCHANGED env
  BY DEF Undisturbed, AnswersArrive
<1> QED
  BY HandlerFrame DEF Next, Step, vars, coreVars, bookVars, Edit, EditConfig, Start, StartRun,
     PlanKeys, Plan, End, EndRun, Elsewhere, Serve, Disturb, Retry, Resend

(* Until the create or the delete of r is answered, r owns what it made.   *)
LEMMA OwnedMade ==
  ASSUME NEW r \in Resource, call[r].reply = NoReply \/ call[r].pc \notin {"Create", "Delete"}
  PROVE  Owned(r) = made[r]
  BY DEF Owned, Served

LEMMA MadePath ==
  ASSUME IInv, RowsOK, NEW r \in Resource
  PROVE  /\ made[r] \in Path \cup {NoPath}
         /\ call[r].pc = "Create" => made[r] = NoPath /\ ~Managed(r)
         /\ call[r].pc = "Delete" => made[r] = call[r].data.path /\ made[r] \in Path
         /\ call[r].pc = "Forget" => made[r] = NoPath
         /\ r \in PrivateKeys /\ call[r].pc = "Exists" => made[r] \in Path
<1>1. made[r] \in Path \cup {NoPath} /\ RpcOK(r) /\ MadeOK(r) /\ HandlerOK(r)
  BY DEF IInv, TypeOK, RowsOK
<1>2. call[r] # Idle => call[r].data.path \in Path
  BY <1>1 DEF HandlerOK, Object
<1>3. call[r].pc \in {"Create", "Delete", "Forget", "Exists"} => call[r] # Idle
  BY DEF Idle, At
<1>4. call[r].pc \in {"Delete", "Forget", "Exists"} =>
        made[r] = MadeBy(r, call[r].data) /\ call[r].rpc \notin {"none", "create"}
  BY <1>1 DEF RpcOK, MadeOK, MadeBy
<1>5. call[r].pc = "Create" => made[r] = NoPath /\ ~Managed(r)
  BY <1>1 DEF HandlerOK, MadeOK, Reading
<1> QED
  BY <1>1, <1>2, <1>3, <1>4, <1>5 DEF RpcOK, HandlerOK, MadeBy, PrivateKeys

(* A key only ever becomes public, and is so from the start if a public    *)
(* resource makes it.                                                      *)
LEMMA AppliedMaker ==
  ASSUME IInv, MakerOK, NEW r \in Resource, Waiting(r), store' = Applied(r)
  PROVE  MakerOK'
<1> SUFFICES ASSUME NEW p \in Path, store'[p] # NoKey, store'[p].by \in PublicKeys
             PROVE  store'[p].type = "public"
  BY DEF MakerOK
<1> DEFINE q == call[r].data.path
<1>1. q \in Path /\ store = [s \in Path |-> store[s]]
  BY WaitingData DEF IInv, TypeOK
<1>2. CASE store'[p] = store[p]
  BY <1>2 DEF MakerOK
<1>3. CASE store'[p] # store[p]
  <2>1. p = q
    BY <1>1, <1>3 DEF Applied
  <2>2. CASE call[r].pc = "Create"
    BY <1>1, <1>3, <2>1, <2>2 DEF Applied, KindOf
  <2>3. CASE call[r].pc = "Update" /\ store[q] # NoKey
    <3>1. store'[p].by = store[p].by
          /\ (store'[p].type = "public" \/ store'[p].type = store[p].type)
      BY <1>1, <1>3, <2>1, <2>3 DEF Applied
    <3> QED
      BY <2>1, <2>3, <3>1 DEF MakerOK
  <2> QED
    BY <1>1, <1>3, <2>1, <2>2, <2>3 DEF Applied
<1> QED
  BY <1>2, <1>3

LEMMA NextMaker == IInv /\ MakerOK /\ [Next]_vars => MakerOK'
<1> SUFFICES ASSUME IInv, MakerOK, [Next]_vars PROVE MakerOK'
  OBVIOUS
<1>1. ASSUME NEW r \in Resource, Serve(r) \/ Disturb(r) PROVE MakerOK'
  <2>1. Waiting(r) /\ (store' = Applied(r) \/ store' = store)
    BY <1>1 DEF Serve, Disturb
  <2> QED
    BY <2>1, AppliedMaker DEF MakerOK
<1>2. ASSUME NEW p \in Path, Elsewhere(p) PROVE MakerOK'
  <2>1. \A q \in Path : store'[q] = store[q] \/ store'[q] = NoKey \/ store'[q].by = Someone
    BY <1>2 DEF Elsewhere, IInv, TypeOK
  <2> QED
    BY <2>1, KeyAssumption DEF MakerOK
<1>3. CASE UNCHANGED store
  BY <1>3 DEF MakerOK
<1> QED
  BY <1>1, <1>2, <1>3, HandlerFrame DEF Next, Step, vars, Edit, Start, PlanKeys, End, Retry

LEMMA PlainIsReply ==
  \A status \in Status : Plain(status) # NoReply /\ Plain(status).status = status
  BY PlainReply, KeyAssumption DEF Plain

(* Serving r's create or delete makes r own the key, or own it no more.    *)
LEMMA ServeOwned ==
  ASSUME KInv, Undisturbed, NEW r \in Resource, Serve(r), NEW s \in Resource
  PROVE  HoldsOK(s)' /\ AnswerOK(s)'
<1> DEFINE p == call[r].data.path
<1>1. /\ p \in Path /\ store = [q \in Path |-> store[q]] /\ store' = Applied(r)
      /\ call[r].reply = NoReply /\ Undisturbed' /\ UNCHANGED made
  BY WaitingData DEF KInv, IInv, TypeOK, Serve, Waiting, Undisturbed, AnswersArrive, bookVars
<1>2. /\ call'[r].pc = call[r].pc /\ call'[r].data = call[r].data
      /\ call'[r].reply = Answer(r) /\ (s # r => call'[s] = call[s])
      /\ call[r].pc \in PCs
  BY DEF Serve, Reached, KInv, IInv, TypeOK, Calls
<1>3. Owned(r) = made[r] /\ (s # r => Owned(s)' = Owned(s))
  BY <1>1, <1>2, OwnedMade DEF Owned, Served
<1>4. /\ HoldsOK(s) /\ AnswerOK(s) /\ HoldsOK(r)
      /\ made[r] \in Path \cup {NoPath}
  BY DEF KInv, OwnedOK, IInv, TypeOK
<1>5. AnswerOK(s)'
  <2>1. CASE s # r
    BY <1>1, <1>2, <1>4, <2>1 DEF AnswerOK, Nil, Code, Other
  <2>2. CASE s = r
    <3>1. ~NilResponse(Answer(r).status)
      BY DEF Answer, Plain, NilResponse, NetworkErrors
    <3>2. ASSUME call[r].pc = "Exists", made[r] # NoPath
          PROVE  /\ Answer(r).status # "404"
                 /\ r \in PublicKeys /\ Answer(r).status = "200" => Answer(r).type = "public"
      <4>1. made[r] = p
        BY <3>2 DEF KInv, RowsOK, RpcOK, MadeOK, MadeBy
      <4>2. store[p] # NoKey /\ store[p].by = r
        BY <1>3, <1>4, <3>2, <4>1 DEF HoldsOK
      <4>3. r \in PublicKeys => store[p].type = "public"
        BY <1>1, <4>2 DEF KInv, OwnedOK, MakerOK
      <4> QED
        BY <3>2, <4>2, <4>3 DEF Answer, Plain
    <3> QED
      BY <1>1, <1>2, <2>2, <3>1, <3>2 DEF AnswerOK, Nil, Code, Other
  <2> QED
    BY <2>1, <2>2
<1>6. CASE call[r].pc = "Create"
  <2>1. CASE store[p] = NoKey
    <3>0. Answer(r) = Plain("200")
      BY <1>6, <2>1 DEF Answer
    <3>1. Owned(r)' = p
      BY <1>2, <1>6, <3>0, PlainIsReply DEF Owned, Served, Status
    <3>2. store'[p].by = r /\ store'[p] # NoKey
      <4>1. store' \in [Path -> Key \cup {NoKey}]
        BY <1>1, AppliedStore DEF KInv, Serve
      <4>2. [type |-> KindOf(r), material |-> call[r].data.material, by |-> r] \in Key
        BY <1>6 DEF KInv, IInv, HandlerOK, Key, KindOf, KeyType
      <4> QED
        BY <1>1, <1>6, <2>1, <4>2, KeyAssumption DEF Applied
    <3>3. \A q \in Path : q # p => store'[q] = store[q]
      BY <1>1, <1>6, <2>1 DEF Applied
    <3>4. s # r => Owned(s) # p
      BY <1>1, <1>4, <2>1, KeyAssumption DEF HoldsOK
    <3>5. Owned(s) # NoPath => Owned(s) \in Path
      BY <1>1 DEF Owned, KInv, IInv, TypeOK, Served, HandlerOK, Object, Idle, At
    <3> QED
      BY <1>3, <1>4, <1>5, <3>1, <3>2, <3>3, <3>4, <3>5 DEF HoldsOK
  <2>2. CASE store[p] # NoKey
    <3>1. Answer(r).status # "200" /\ Owned(r)' = made[r] /\ store' = store
      BY <1>1, <1>2, <1>6, <2>2 DEF Answer, Plain, Owned, Served, Applied
    <3> QED
      BY <1>3, <1>4, <1>5, <3>1 DEF HoldsOK
  <2> QED
    BY <2>1, <2>2
<1>7. CASE call[r].pc = "Delete"
  <2>1. made[r] = p /\ p # NoPath
    BY <1>1, <1>7, MadePath, KeyAssumption DEF KInv
  <2>2. store[p] # NoKey /\ store[p].by = r
    BY <1>3, <1>4, <2>1 DEF HoldsOK
  <2>0. Answer(r) = Plain("200")
    BY <1>7, <2>2 DEF Answer
  <2>3. Owned(r)' = NoPath
    BY <1>1, <1>2, <1>7, <2>0, PlainIsReply DEF Owned, Served, Status
  <2>4. \A q \in Path : q # p => store'[q] = store[q]
    BY <1>1, <1>7 DEF Applied
  <2>5. s # r => Owned(s) # p
    BY <1>4, <2>1, <2>2 DEF HoldsOK
  <2>6. Owned(s) # NoPath => Owned(s) \in Path
    BY <1>1 DEF Owned, KInv, IInv, TypeOK, Served, HandlerOK, Object, Idle, At
  <2> QED
    BY <1>3, <1>4, <1>5, <2>3, <2>4, <2>5, <2>6 DEF HoldsOK
<1>8. CASE call[r].pc \notin {"Create", "Delete"}
  <2>1. Owned(r)' = made[r]
    BY <1>1, <1>2, <1>8 DEF Owned, Served
  <2>2. ASSUME NEW q \in Path, store[q] # NoKey
        PROVE  store'[q] # NoKey /\ store'[q].by = store[q].by
    <3>1. store' \in [Path -> Key \cup {NoKey}]
      BY <1>1, AppliedStore DEF KInv, Serve
    <3>2. CASE call[r].pc = "Update" /\ q = p
      <4> DEFINE key == [type |-> IF r \in PublicKeys THEN "public" ELSE store[p].type,
                         material |-> call[r].data.material, by |-> store[p].by]
      <4>1. store' = [store EXCEPT ![p] = key]
        BY <1>1, <2>2, <3>2 DEF Applied
      <4>2. store'[p] = key
        BY <1>1, <4>1
      <4>3. key \in Key
        <5>1. store[p] \in Key /\ call[r].data.material \in Material
          BY <1>1, <2>2, <3>2 DEF KInv, IInv, TypeOK, HandlerOK
        <5> QED
          BY <5>1 DEF Key, KeyType
      <4> QED
        BY <3>2, <4>2, <4>3, KeyAssumption
    <3>3. CASE call[r].pc # "Update" \/ q # p
      BY <1>1, <1>8, <2>2, <3>3 DEF Applied
    <3> QED
      BY <3>2, <3>3
  <2>3. Owned(s) # NoPath => Owned(s) \in Path
    BY <1>1 DEF Owned, KInv, IInv, TypeOK, Served, HandlerOK, Object, Idle, At
  <2> QED
    BY <1>3, <1>4, <1>5, <2>1, <2>2, <2>3 DEF HoldsOK
<1> QED
  BY <1>6, <1>7, <1>8

(* A refusal says nothing of what is owned, nor does a retry.              *)
LEMMA DisturbOwned ==
  ASSUME IInv, NEW r \in Resource, Disturb(r), NEW s \in Resource
  PROVE  /\ Owned(s)' = Owned(s)
         /\ Undisturbed /\ AnswerOK(s) => store' = store /\ AnswerOK(s)'
<1>1. PICK f \in env.faults : /\ store' = IF f.applied THEN Applied(r) ELSE store
                              /\ Reached(r, Plain(f.status))
  BY DEF Disturb
<1>2. f.status \in Status \ {"200", "404"}
  BY EnvironmentAssumption DEF IInv, TypeOK, Fault, Status, NetworkErrors
<1>3. /\ call'[r].pc = call[r].pc /\ call'[r].data = call[r].data
      /\ call'[r].reply = Plain(f.status) /\ (s # r => call'[s] = call[s])
      /\ call[r].reply = NoReply /\ UNCHANGED <<env, made>>
  BY <1>1 DEF Reached, IInv, TypeOK, Calls, Disturb, Waiting, bookVars
<1>4. Undisturbed => store' = store /\ ~NilResponse(f.status)
  BY <1>1 DEF Undisturbed, AnswersArrive
<1> QED
  BY <1>2, <1>3, <1>4, PlainIsReply
  DEF Owned, Served, Undisturbed, AnswersArrive, AnswerOK, Nil, Code, Other

LEMMA RetryOwned ==
  ASSUME IInv, NEW r \in Resource, Retry(r), NEW s \in Resource
  PROVE  Owned(s)' = Owned(s) /\ (AnswerOK(s) => AnswerOK(s)')
<1>1. PICK tries : call' = [call EXCEPT ![r].reply = NoReply, ![r].tries = tries]
  BY DEF Retry, Resend
<1>2. /\ call'[r].pc = call[r].pc /\ call'[r].data = call[r].data
      /\ call'[r].reply = NoReply /\ (s # r => call'[s] = call[s])
      /\ call[r].reply.status # "200" /\ UNCHANGED <<env, made>>
  BY <1>1 DEF IInv, TypeOK, Calls, Retry, Resend, CanRetry, MayRetry, bookVars
<1> QED
  BY <1>2 DEF Owned, Served, Undisturbed, AnswersArrive, AnswerOK, Nil, Code, Other

(* What a handler that returns or goes on leaves behind it was owned       *)
(* before; a handler that gives up a key has seen that it is gone, or may. *)
GivesUp(r) ==
  \/ r \in PrivateKeys \/ ~Undisturbed
  \/ r \in PublicKeys /\ call[r].pc = "Exists" /\ call[r].reply # NoReply
     /\ (Code(r) = "404" \/ Other(r, "public"))

LEMMA HandlerOwns ==
  ASSUME IInv, RowsOK, NEW r \in Resource, Handler(r), ~Killed(r)
  PROVE  /\ call'[r].reply = NoReply /\ Owned(r)' = made'[r]
         /\ made'[r] = Owned(r) \/ (made'[r] = NoPath /\ GivesUp(r))
         /\ \A s \in Resource \ {r} : Owned(s)' = Owned(s)
         /\ Undisturbed' = Undisturbed
<1>0. /\ UNCHANGED <<env, store>> /\ Only(r) /\ Undisturbed' = Undisturbed
  BY HandlerFrame DEF Undisturbed, AnswersArrive
<1>1. /\ call' = [s \in Resource |-> call'[s]] /\ made = [s \in Resource |-> made[s]]
      /\ call = [s \in Resource |-> call[s]] /\ DOMAIN call = Resource
  <2>1. IInv'
    BY RefreshIInv, CreateIInv, UpdateIInv, DeleteIInv DEF Handler
  <2> QED
    BY <2>1 DEF IInv, TypeOK
<1>2. call'[r].reply = NoReply
  <2>0. /\ \A rpc, pc, data : At(rpc, pc, data).reply = NoReply
        /\ Idle.reply = NoReply /\ CallCreate(r).reply = NoReply
    BY DEF At, Idle, CallCreate
  <2> USE <2>0 DEF Send, Record, Return, Note, Refreshed, RefreshFailed, Created, Updated,
      ReadReturns, Deleted, DeleteFailed, Heard, Killed, Deadly
  <2>1. CASE PrivateKeyExists(r) \/ PublicKeyExists(r)
    BY <1>1, <2>1 DEF PrivateKeyExists, PublicKeyExists
  <2>2. CASE ReadPublicKeyMetadata(r) \/ ReadPublicKeyMaterial(r)
    BY <1>1, <2>2 DEF ReadPublicKeyMetadata, ReadPublicKeyMaterial
  <2>3. CASE CreatePrivateKey(r) \/ CreatePublicKey(r)
    BY <1>1, <2>3 DEF CreatePrivateKey, CreatePublicKey
  <2>4. CASE UpdatePrivateKey(r) \/ UpdatePublicKey(r)
    BY <1>1, <2>4 DEF UpdatePrivateKey, UpdatePublicKey
  <2>5. CASE DeleteKey(r) \/ ForgetPublicKey(r)
    BY <1>1, <2>5 DEF DeleteKey, ForgetPublicKey
  <2> QED
    BY <2>1, <2>2, <2>3, <2>4, <2>5 DEF Handler
<1>3. made'[r] = Owned(r) \/ (made'[r] = NoPath /\ GivesUp(r))
  <2> USE DEF Makes, Killed, Deadly, Heard, GivesUp
  <2>1. CASE PrivateKeyExists(r) \/ PublicKeyExists(r)
    <3>1. Owned(r) = made[r]
      BY <2>1, OwnedMade DEF PrivateKeyExists, PublicKeyExists
    <3> QED
      BY <1>1, <2>1, <3>1 DEF PrivateKeyExists, PublicKeyExists, Other
  <2>2. CASE \/ ReadPublicKeyMetadata(r) \/ ReadPublicKeyMaterial(r)
             \/ UpdatePrivateKey(r) \/ UpdatePublicKey(r)
    <3>1. Owned(r) = made[r]
      BY <2>2, OwnedMade DEF ReadPublicKeyMetadata, ReadPublicKeyMaterial,
         UpdatePrivateKey, UpdatePublicKey
    <3> QED
      BY <2>2, <3>1 DEF ReadPublicKeyMetadata, ReadPublicKeyMaterial,
         UpdatePrivateKey, UpdatePublicKey
  <2>3. CASE CreatePrivateKey(r) \/ CreatePublicKey(r)
    <3>1. call[r].pc = "Create" /\ call[r].reply # NoReply
      BY <2>3 DEF CreatePrivateKey, CreatePublicKey
    <3>2. Owned(r) = IF Code(r) = "200" THEN call[r].data.path ELSE made[r]
      BY <3>1 DEF Owned, Served, Code
    <3>3. Refused(r, "StorageKeyCreate") => Code(r) # "200"
      BY DEF Refused, Err, Failed, Accepted
    <3> QED
      BY <1>1, <2>3, <3>2, <3>3 DEF CreatePrivateKey, CreatePublicKey
  <2>4. CASE DeleteKey(r)
    <3>1. call[r].pc = "Delete" /\ call[r].reply # NoReply
      BY <2>4 DEF DeleteKey
    <3>2. Owned(r) = IF Code(r) = "200" /\ Undisturbed THEN NoPath ELSE made[r]
      BY <3>1 DEF Owned, Served, Code
    <3>3. Err(r, "StorageKeyDelete") <=> Code(r) # "200"
      BY DEF Err, Failed, Accepted
    <3> QED
      BY <1>1, <2>4, <3>2, <3>3 DEF DeleteKey
  <2>5. CASE ForgetPublicKey(r)
    <3>1. Owned(r) = made[r] /\ made[r] = NoPath
      BY <2>5, OwnedMade, MadePath DEF ForgetPublicKey
    <3> QED
      BY <1>1, <2>5, <3>1 DEF ForgetPublicKey
  <2> QED
    BY <2>1, <2>2, <2>3, <2>4, <2>5 DEF Handler
<1> QED
  BY <1>0, <1>2, <1>3, OwnedMade DEF Only, Owned, Served

(* Where answers arrive and nobody else writes, the provider never dies of *)
(* an answer.                                                              *)
LEMMA NobodyDies ==
  ASSUME KInv, Undisturbed, NEW r \in Resource
  PROVE  ~Deadly(r)
<1>1. AnswerOK(r)
  BY DEF KInv, OwnedOK
<1>2. r \in PrivateKeys /\ call[r].pc = "Exists" => made[r] # NoPath
  BY MadePath, KeyAssumption DEF KInv
<1> QED
  BY <1>1, <1>2 DEF AnswerOK, Deadly

(* Between a run's phases every handler is idle, and at the start of one   *)
(* no answer has come: what is owned is what was made.                     *)
LEMMA PhaseOwned ==
  ASSUME IInv, NEW s \in Resource, Start \/ PlanKeys \/ End \/ (\E r \in Resource : Edit(r))
  PROVE  Owned(s)' = Owned(s) /\ call'[s].reply = NoReply /\ UNCHANGED <<env, store, made>>
<1>1. call[s] = Idle
  BY DEF Start, StartRun, PlanKeys, Plan, End, EndRun, AllIdle, Edit, EditConfig, IInv, HandlerOK
<1>2. call'[s].reply = NoReply
  <2>1. CASE PlanKeys
    <3>1. PlanKey(s).reply = NoReply
      BY PlannedCall DEF CallCreate, CallUpdate, CallDelete, Idle, At
    <3> QED
      BY <2>1, <3>1 DEF PlanKeys, Plan
  <2>2. CASE Start
    BY <2>2 DEF Start, StartRun, Idle, At
  <2>3. CASE End \/ (\E r \in Resource : Edit(r))
    BY <1>1, <2>3 DEF End, EndRun, Edit, EditConfig, Idle, At
  <2> QED
    BY <2>1, <2>2, <2>3
<1>3. UNCHANGED <<env, store, made>>
  BY DEF Start, StartRun, PlanKeys, Plan, End, EndRun, Edit, EditConfig
<1> QED
  BY <1>1, <1>2, <1>3 DEF Owned, Served, Undisturbed, AnswersArrive, Idle, At

LEMMA NextOwned == KInv /\ [Next]_vars => OwnedOK'
<1> SUFFICES ASSUME KInv, [Next]_vars, Undisturbed, NEW s \in Resource
             PROVE  HoldsOK(s)' /\ AnswerOK(s)'
  BY SteadyEnv, NextMaker DEF OwnedOK, KInv
<1>0. HoldsOK(s) /\ AnswerOK(s) /\ IInv /\ RowsOK
  BY DEF KInv, OwnedOK
<1>1. ASSUME NEW r \in Resource, Handler(r) PROVE HoldsOK(s)' /\ AnswerOK(s)'
  <2>1. ~Killed(r)
    BY NobodyDies DEF Killed
  <2>2. /\ call'[r].reply = NoReply /\ Owned(r)' = made'[r]
        /\ made'[r] \in {Owned(r), NoPath} /\ UNCHANGED store
        /\ s # r => Owned(s)' = Owned(s) /\ call'[s] = call[s] /\ made'[s] = made[s]
    BY <1>0, <1>1, <2>1, HandlerOwns, HandlerFrame DEF Only
  <2> QED
    BY <1>0, <2>2 DEF HoldsOK, AnswerOK, Nil, Code, Other
<1>2. ASSUME NEW r \in Resource, Serve(r) PROVE HoldsOK(s)' /\ AnswerOK(s)'
  BY <1>2, ServeOwned
<1>3. ASSUME NEW r \in Resource, Disturb(r) PROVE HoldsOK(s)' /\ AnswerOK(s)'
  BY <1>0, <1>3, DisturbOwned DEF HoldsOK
<1>4. ASSUME NEW r \in Resource, Retry(r) PROVE HoldsOK(s)' /\ AnswerOK(s)'
  BY <1>0, <1>4, RetryOwned DEF HoldsOK, Retry
<1>5. CASE Start \/ PlanKeys \/ End \/ (\E r \in Resource : Edit(r))
  BY <1>0, <1>5, PhaseOwned DEF HoldsOK, AnswerOK
<1>6. CASE UNCHANGED vars
  BY <1>0, <1>6 DEF vars, coreVars, bookVars, HoldsOK, AnswerOK, Owned, Served,
     Undisturbed, AnswersArrive, Nil, Code, Other
<1>7. ~\E p \in Path : Elsewhere(p)
  BY DEF Elsewhere, Undisturbed
<1> QED
  BY <1>1, <1>2, <1>3, <1>4, <1>5, <1>6, <1>7 DEF Next, Step

LEMMA InitOwned == Init => OwnedOK
<1> SUFFICES ASSUME Init PROVE OwnedOK
  OBVIOUS
<1>1. MakerOK
  BY KeyAssumption DEF Init, MakerOK
<1>2. ASSUME NEW r \in Resource PROVE HoldsOK(r) /\ AnswerOK(r)
  BY DEF Init, HoldsOK, AnswerOK, Owned, Served, Idle, At
<1> QED
  BY <1>1, <1>2 DEF OwnedOK

LEMMA OwnershipInvariant == Spec => []KInv
<1>1. Init => KInv
  BY InitIInv, InitRows, InitOwned DEF KInv
<1>2. KInv /\ [Next]_vars => KInv'
  BY NextIInv, NextRows, NextOwned DEF KInv
<1> QED
  BY <1>1, <1>2, PTL DEF Spec

(* A resource that claims a key has made it, and owns it.                  *)
LEMMA ClaimedOwned ==
  ASSUME KInv, NEW r \in Resource, NEW p \in Path, Claims(r, p)
  PROVE  made[r] = p /\ Owned(r) = p
<1>1. made[r] = p
  BY DEF Claims, KInv, RowsOK, MadeOK, MadeBy
<1>2. call[r].pc \notin {"Create", "Delete"}
  BY DEF Claims, KInv, IInv, HandlerOK
<1> QED
  BY <1>1, <1>2, OwnedMade

(* No two resources come to believe that one key is theirs to delete.      *)
THEOREM NobodyClaimsTwice == Spec => []NoTwoOwners
<1>1. KInv => NoTwoOwners
  BY ClaimedOwned, KeyAssumption DEF NoTwoOwners, KInv, OwnedOK, HoldsOK
<1> QED
  BY <1>1, OwnershipInvariant, PTL

(* A resource only claims keys that it made.                               *)
THEOREM ClaimsAreJust == Spec => []ClaimedByMaker
<1>1. KInv => ClaimedByMaker
  BY ClaimedOwned, KeyAssumption DEF ClaimedByMaker, KInv, OwnedOK, HoldsOK
<1> QED
  BY <1>1, OwnershipInvariant, PTL

----------------------------------------------------------------------------
(* The refinement. *)

There == {p \in Path : store[p] # NoKey}
Owns  == [r \in Resource |-> Owned(r)]
KeyWorld == [lossy |-> ~AnswersArrive, others |-> env.others,
             careless |-> IF Undisturbed THEN PrivateKeys ELSE Resource]

LEMMA OwnedPath ==
  ASSUME IInv, NEW r \in Resource
  PROVE  Owned(r) \in Path \cup {NoPath}
  BY DEF Owned, IInv, TypeOK, Served, HandlerOK, Object, Idle, At

LEMMA SteadyWorld == UNCHANGED env => UNCHANGED KeyWorld
  BY DEF KeyWorld, AnswersArrive, Undisturbed

(* Nothing happens to the keys or to who owns them.                        *)
LEMMA NothingHappens ==
  ASSUME UNCHANGED <<env, There>>, \A s \in Resource : Owned(s)' = Owned(s)
  PROVE  Keys!Next
<1>1. UNCHANGED KeyWorld /\ UNCHANGED Owns
  BY SteadyWorld DEF Owns
<1> QED
  BY <1>1 DEF Keys!Next, Keys!vars, KeyWorld, Owns, There

(* Owners let go of their keys, or lose them, without a change to the keys *)
(* on the server.                                                          *)
LEMMA LettingGo ==
  ASSUME UNCHANGED <<env, store>>, NEW owners \in SUBSET Resource,
         \A s \in owners : Owned(s)' = NoPath /\ (Undisturbed => s \in PrivateKeys),
         \A s \in Resource \ owners : Owned(s)' = Owned(s)
  PROVE  Keys!Next
<1>1. UNCHANGED KeyWorld
  BY SteadyWorld
<1>2. owners \ KeyWorld.careless = {}
  BY DEF KeyWorld
<1>3. Owns' = [s \in Resource |-> IF s \in owners THEN NoPath ELSE Owns[s]]
  BY DEF Owns
<1>4. Keys!Forget(owners)
  BY <1>1, <1>2, <1>3 DEF Keys!Forget, KeyWorld, Owns
<1> QED
  BY <1>4 DEF Keys!Next

LEMMA HandlerMaps ==
  ASSUME KInv, NEW r \in Resource, Handler(r)
  PROVE  Keys!Next
<1>0. IInv /\ RowsOK /\ UNCHANGED <<env, store>>
  BY HandlerFrame DEF KInv
<1>1. CASE Killed(r)
  <2> DEFINE owners == {s \in Resource : ~Managed(s)}
  <2>1. ~Undisturbed
    BY <1>1, NobodyDies DEF Killed
  <2>2. ASSUME NEW s \in Resource
        PROVE  Owned(s)' = IF s \in owners THEN NoPath ELSE Owned(s)
    <3>1. Owned(s)' = made'[s]
      BY <1>1 DEF Killed, Dies, Panic, Owned, Served, Idle, At
    <3>2. made'[s] = IF Managed(s) THEN made[s] ELSE NoPath
      BY <1>1 DEF Killed, Dies
    <3>3. Managed(s) => Owned(s) = made[s]
      BY <1>0, <2>1 DEF Owned, Served, IInv, HandlerOK
    <3> QED
      BY <3>1, <3>2, <3>3
  <2> QED
    BY <1>0, <2>1, <2>2, LettingGo
<1>2. CASE ~Killed(r)
  <2>1. /\ Owned(r)' = Owned(r) \/ (Owned(r)' = NoPath /\ GivesUp(r))
        /\ \A s \in Resource \ {r} : Owned(s)' = Owned(s)
    BY <1>0, <1>2, HandlerOwns
  <2>2. CASE Owned(r)' = Owned(r)
    BY <1>0, <2>1, <2>2, NothingHappens DEF There
  <2>3. CASE Owned(r)' = NoPath /\ (Undisturbed => r \in PrivateKeys)
    <3> DEFINE owners == {r}
    <3>1. /\ \A s \in owners : Owned(s)' = NoPath /\ (Undisturbed => s \in PrivateKeys)
          /\ \A s \in Resource \ owners : Owned(s)' = Owned(s)
      BY <2>1, <2>3
    <3> HIDE DEF owners
    <3>2. owners \in SUBSET Resource
      BY DEF owners
    <3> QED
      BY <1>0, <3>1, <3>2, LettingGo
  <2>4. CASE Undisturbed /\ r \notin PrivateKeys /\ Owned(r)' = NoPath /\ GivesUp(r)
    <3>1. /\ call[r].pc = "Exists" /\ call[r].reply # NoReply
          /\ Code(r) = "404" \/ Other(r, "public")
      BY <2>4 DEF GivesUp
    <3>2. Owned(r) = made[r] /\ made[r] = NoPath
      BY <2>4, <3>1, OwnedMade DEF KInv, OwnedOK, AnswerOK, PrivateKeys
    <3> QED
      BY <2>2, <2>4, <3>2
  <2> QED
    BY <2>1, <2>2, <2>3, <2>4
<1> QED
  BY <1>1, <1>2

(* A request that is carried out changes the key at one path. *)
LEMMA AppliedThere ==
  ASSUME IInv, NEW r \in Resource, Waiting(r), store' = Applied(r)
  PROVE  LET p == call[r].data.path IN
         There' = IF call[r].pc = "Create" THEN There \cup {p}
                  ELSE IF call[r].pc = "Delete" THEN There \ {p} ELSE There
<1> DEFINE p == call[r].data.path
           m == call[r].data.material
<1>1. p \in Path /\ store \in [Path -> Key \cup {NoKey}]
  BY WaitingData DEF IInv, TypeOK
<1>2. CASE call[r].pc = "Create"
  <2>1. [type |-> KindOf(r), material |-> m, by |-> r] # NoKey
    BY <1>2, KeyAssumption DEF IInv, HandlerOK, Key, KindOf, KeyType
  <2> QED
    BY <1>1, <1>2, <2>1 DEF Applied, There
<1>3. CASE call[r].pc = "Update"
  <2> DEFINE key == [type |-> IF r \in PublicKeys THEN "public" ELSE store[p].type,
                     material |-> m, by |-> store[p].by]
  <2>1. CASE store[p] # NoKey
    <3>1. store[p] \in Key /\ m \in Material
      BY <1>1, <1>3, <2>1 DEF IInv, HandlerOK
    <3>2. key # NoKey
      BY <3>1, KeyAssumption DEF Key, KeyType
    <3>3. store' = [store EXCEPT ![p] = key]
      BY <1>1, <1>3, <2>1 DEF Applied
    <3> QED
      BY <1>1, <1>3, <2>1, <3>2, <3>3 DEF There
  <2>2. CASE store[p] = NoKey
    BY <1>1, <1>3, <2>2 DEF Applied, There
  <2> QED
    BY <2>1, <2>2
<1>4. CASE call[r].pc \notin {"Create", "Update"}
  BY <1>1, <1>4 DEF Applied, There
<1> QED
  BY <1>2, <1>3, <1>4

(* A key appears, or vanishes, without its owner hearing of it: so only in *)
(* a world that is not trusted.                                            *)
LEMMA Unheard ==
  ASSUME IInv, UNCHANGED env, NEW p \in Path,
         \A s \in Resource : Owned(s)' = Owned(s),
         \/ There' = There \cup {p} /\ ~Undisturbed
         \/ There' = There \ {p} /\ env.others
         \/ There' = There \ {p} /\ ~Undisturbed /\ \E s \in Resource : Owned(s) = p
  PROVE  Keys!Next
<1>1. UNCHANGED KeyWorld /\ UNCHANGED Owns
  BY SteadyWorld DEF Owns
<1>2. CASE There' = There
  BY <1>2, NothingHappens
<1>3. CASE There' = There \cup {p} /\ p \notin There /\ ~Undisturbed
  <2>1. Keys!Appear(p)
    BY <1>1, <1>3 DEF Keys!Appear, Keys!Trusted, KeyWorld, Owns, There, Undisturbed
  <2> QED
    BY <2>1 DEF Keys!Next
<1>4. CASE There' = There \ {p} /\ p \in There
             /\ (env.others \/ (~Undisturbed /\ \E s \in Resource : Owned(s) = p))
  <2>1. env.others \/ (~AnswersArrive /\ \E s \in Resource : Owns[s] = p)
    BY <1>4 DEF Undisturbed, Owns
  <2>2. Keys!Vanish(p)
    BY <1>1, <1>4, <2>1 DEF Keys!Vanish, KeyWorld, Owns, There
  <2> QED
    BY <2>2 DEF Keys!Next
<1> QED
  BY <1>2, <1>3, <1>4

LEMMA DisturbMaps ==
  ASSUME KInv, NEW r \in Resource, Disturb(r)
  PROVE  Keys!Next
<1> DEFINE p == call[r].data.path
<1>0. IInv /\ RowsOK /\ Waiting(r) /\ UNCHANGED env /\ p \in Path
  BY WaitingData DEF KInv, Disturb, bookVars
<1>1. \A s \in Resource : Owned(s)' = Owned(s)
  BY <1>0, DisturbOwned
<1>2. CASE store' = store
  BY <1>0, <1>1, <1>2, NothingHappens DEF There
<1>3. CASE store' # store
  <2>1. store' = Applied(r) /\ ~Undisturbed
    BY <1>3 DEF Disturb, Undisturbed, AnswersArrive
  <2>2. call[r].pc = "Delete" => Owned(r) = p
    BY <1>0, MadePath, OwnedMade DEF Waiting
  <2>3. \/ There' = There \/ There' = There \cup {p}
        \/ There' = There \ {p} /\ Owned(r) = p
    BY <1>0, <2>1, <2>2, AppliedThere
  <2>4. CASE There' = There
    BY <1>0, <1>1, <2>4, NothingHappens
  <2> QED
    BY <1>0, <1>1, <2>1, <2>3, <2>4, Unheard
<1> QED
  BY <1>2, <1>3

(* The server's answer is what makes an owner, or ends the ownership.      *)
LEMMA ServeMaps ==
  ASSUME KInv, NEW r \in Resource, Serve(r)
  PROVE  Keys!Next
<1> DEFINE p == call[r].data.path
<1>0. /\ IInv /\ RowsOK /\ Waiting(r) /\ UNCHANGED <<env, made>> /\ p \in Path
      /\ store' = Applied(r) /\ call[r].reply = NoReply
  BY WaitingData DEF KInv, Serve, bookVars, Waiting
<1>1. /\ call'[r].pc = call[r].pc /\ call'[r].data = call[r].data
      /\ call'[r].reply = Answer(r) /\ \A s \in Resource \ {r} : call'[s] = call[s]
  BY <1>0 DEF Serve, Reached, IInv, TypeOK, Calls
<1>2. /\ \A s \in Resource \ {r} : Owned(s)' = Owned(s)
      /\ Owned(r) = made[r] /\ Undisturbed' = Undisturbed
  BY <1>0, <1>1, OwnedMade DEF Owned, Served, Undisturbed, AnswersArrive
<1>3. UNCHANGED KeyWorld
  BY <1>0, SteadyWorld
<1>4. CASE call[r].pc = "Create" /\ store[p] = NoKey
  <2>0. Answer(r) = Plain("200")
    BY <1>4 DEF Answer
  <2>1. Owned(r)' = p /\ made[r] = NoPath
    BY <1>0, <1>1, <1>4, <2>0, PlainIsReply, MadePath DEF Owned, Served, Status
  <2> PICK t \in Path : t = p
    BY <1>0
  <2>2. Owns' = [Owns EXCEPT ![r] = t] /\ Owns[r] = NoPath
    BY <1>2, <2>1 DEF Owns
  <2>3. t \notin There /\ There' = There \cup {t}
    BY <1>0, <1>4, AppliedThere DEF There
  <2>4. Keys!Create(r, t)
    BY <1>3, <2>2, <2>3 DEF Keys!Create, Keys!Own, KeyWorld, Owns, There
  <2> QED
    BY <2>4 DEF Keys!Next
<1>5. CASE call[r].pc = "Delete"
  <2>1. made[r] = p /\ p # NoPath
    BY <1>0, <1>5, MadePath, KeyAssumption
  <2>2. There' = There \ {p}
    BY <1>0, <1>5, AppliedThere
  <2>3. CASE ~Undisturbed
    <3>1. Owned(r)' = made[r]
      BY <1>0, <1>1, <1>2, <1>5, <2>3 DEF Owned, Served
    <3> QED
      BY <1>0, <1>2, <2>1, <2>2, <2>3, <3>1, Unheard
  <2>4. CASE Undisturbed
    <3>1. p \in There
      BY <1>0, <1>2, <2>1, <2>4 DEF KInv, OwnedOK, HoldsOK, There
    <3>2. Answer(r) = Plain("200")
      BY <1>5, <3>1 DEF Answer, There
    <3>3. Owned(r)' = NoPath
      BY <1>1, <1>2, <1>5, <2>4, <3>2, PlainIsReply DEF Owned, Served, Status
    <3>4. Owns' = [Owns EXCEPT ![r] = NoPath] /\ Owns[r] = made[r]
      BY <1>2, <3>3 DEF Owns
    <3>5. Keys!Remove(r)
      BY <1>3, <2>1, <2>2, <3>4 DEF Keys!Remove, Keys!Own, KeyWorld, Owns, There
    <3> QED
      BY <3>5 DEF Keys!Next
  <2> QED
    BY <2>3, <2>4
<1>6. CASE call[r].pc # "Delete" /\ (call[r].pc = "Create" => store[p] # NoKey)
  <2>1. call[r].pc = "Create" => Answer(r) = Plain("409")
    BY <1>6 DEF Answer
  <2>2. Owned(r)' = made[r]
    BY <1>0, <1>1, <1>6, <2>1, PlainIsReply DEF Owned, Served, Status
  <2>3. There' = There
    BY <1>0, <1>6, AppliedThere DEF There
  <2> QED
    BY <1>0, <1>2, <2>2, <2>3, NothingHappens
<1> QED
  BY <1>4, <1>5, <1>6

LEMMA ElsewhereMaps ==
  ASSUME IInv, NEW p \in Path, Elsewhere(p)
  PROVE  Keys!Next
<1>1. UNCHANGED <<env, call, made>> /\ env.others
  BY DEF Elsewhere, coreVars, bookVars
<1>2. \A s \in Resource : Owned(s)' = Owned(s)
  BY <1>1 DEF Owned, Served, Undisturbed, AnswersArrive
<1>3. \/ There' = There \/ There' = There \cup {p} \/ There' = There \ {p}
  BY DEF Elsewhere, There, IInv, TypeOK
<1> QED
  BY <1>1, <1>2, <1>3, NothingHappens, Unheard DEF Undisturbed

LEMMA NextMaps == KInv /\ [Next]_vars => Keys!Next
<1> SUFFICES ASSUME KInv, [Next]_vars PROVE Keys!Next
  OBVIOUS
<1>0. IInv
  BY DEF KInv
<1>1. ASSUME NEW r \in Resource, Retry(r) PROVE Keys!Next
  BY <1>0, <1>1, RetryOwned, NothingHappens DEF Retry, Resend, bookVars, There
<1>2. CASE Start \/ PlanKeys \/ End \/ (\E r \in Resource : Edit(r))
  <2>1. UNCHANGED <<env, store>>
    BY <1>2 DEF Start, StartRun, PlanKeys, Plan, End, EndRun, Edit, EditConfig
  <2> QED
    BY <1>0, <1>2, <2>1, PhaseOwned, NothingHappens DEF There
<1>3. CASE UNCHANGED vars
  <2>1. \A s \in Resource : Owned(s)' = Owned(s)
    BY <1>3 DEF vars, coreVars, bookVars, Owned, Served, Undisturbed, AnswersArrive
  <2> QED
    BY <1>3, <2>1, NothingHappens DEF vars, coreVars, bookVars, There
<1> QED
  BY <1>0, <1>1, <1>2, <1>3, HandlerMaps, DisturbMaps, ServeMaps, ElsewhereMaps DEF Next, Step

LEMMA InitMaps == Init => Keys!Init
<1> SUFFICES ASSUME Init PROVE Keys!Init
  OBVIOUS
<1>1. \A r \in Resource : Owned(r) = NoPath
  BY DEF Init, Owned, Served, Idle, At
<1>2. KeyWorld \in [lossy : BOOLEAN, others : BOOLEAN, careless : SUBSET Resource]
  <2>1. env.others \in BOOLEAN
    BY EnvironmentAssumption DEF Init
  <2>2. (~AnswersArrive) \in BOOLEAN
    OBVIOUS
  <2> QED
    BY <2>1, <2>2 DEF KeyWorld, PrivateKeys
<1> QED
  BY <1>1, <1>2 DEF Keys!Init, Keys!World, KeyWorld

(* The handlers of both kinds of key, request by request, implement        *)
(* Ownership: whatever is lost, refused, retried or interleaved, a key is  *)
(* made and owned in one step, and removed and given up in one step.       *)
THEOREM KeysImplementOwnership == Spec => KeysAreOwned
<1>1. KInv /\ [Next]_vars => [Keys!Next]_(Keys!vars)
  BY NextMaps
<1> QED
  BY <1>1, InitMaps, OwnershipInvariant, PTL DEF Spec, KeysAreOwned, Keys!Spec
=============================================================================
