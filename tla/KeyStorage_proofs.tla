-------------------------- MODULE KeyStorage_proofs --------------------------
(***************************************************************************)
(* Proofs about KeyStorage for every set of resources, paths, materials    *)
(* and faults: its type invariant, and that a public key which a resource  *)
(* only adopted is never deleted on that resource's account.               *)
(***************************************************************************)
EXTENDS KeyStorageProperties, TLAPS

(* What a handler at work can rely on: it has a ResourceData; the material *)
(* it is about to write is one the user wrote; a create runs for an object *)
(* that core does not hold; DeletePublicKey only sends a request when the  *)
(* object says so; a replacement has a block to create from; and handlers  *)
(* only run while a run is on.                                             *)
HandlerOK(r) ==
  /\ call[r] # Idle => call[r].pc # "idle" /\ call[r].data \in Object
  /\ call[r].pc \in {"Create", "Update"} => call[r].data.material \in Material
  /\ call[r].pc = "Create" => call[r].rpc = "create"
  /\ call[r].rpc = "create" => ~Managed(r)
  /\ call[r].pc = "Delete" /\ r \in PublicKeys => call[r].data.delete
  /\ call[r].rpc = "replace" => config[r] # NoBlock
  /\ call[r] # Idle => phase # "idle"

(* The two halves of DeleteFlagEarned, for one resource.                   *)
FlagOK(r) ==
  r \in PublicKeys =>
    /\ Managed(r) /\ state[r].object.delete => made[r] = state[r].object.path
    /\ call[r] # Idle /\ call[r].data.delete => made[r] = call[r].data.path

IInv == TypeOK /\ \A r \in Resource : HandlerOK(r) /\ FlagOK(r)

StateRow == [object : Object \cup {NoObject}, tainted : BOOLEAN]
Only(r)  == \A s \in Resource \ {r} :
              state'[s] = state[s] /\ call'[s] = call[s] /\ made'[s] = made[s]

----------------------------------------------------------------------------
(* Initially every handler is idle and every object absent. *)
LEMMA InitIInv == Init => IInv
<1> SUFFICES ASSUME Init PROVE IInv
  OBVIOUS
<1> USE KeyAssumption DEF Init
<1>1. TypeOK
  <2>1. Idle \in Calls
    BY RetryAttemptsAssumption DEF Idle, At, Calls, RPCs, PCs, Quiet
  <2>2. store \in [Path -> Key \cup {NoKey}]
    BY DEF Key
  <2> QED
    BY <2>1, <2>2 DEF TypeOK, Absent, Phases, Outcomes, PrivateKeys
<1>2. ASSUME NEW r \in Resource PROVE HandlerOK(r) /\ FlagOK(r)
  BY DEF HandlerOK, FlagOK, Managed, Absent, Idle, At
<1> QED
  BY <1>1, <1>2 DEF IInv

(* A step that changes the rows of one resource keeps the invariant if it  *)
(* does so for that resource.                                              *)
LEMMA OneRow ==
  ASSUME IInv, NEW r \in Resource, Only(r),
         env' = env, config' = config,
         phase' = phase, outcome' \in Outcomes,
         state' \in [Resource -> StateRow], call' \in [Resource -> Calls],
         made' \in [Resource -> Path \cup {NoPath}],
         store' \in [Path -> Key \cup {NoKey}],
         HandlerOK(r)', FlagOK(r)'
  PROVE  IInv'
<1>1. TypeOK'
  BY DEF IInv, TypeOK, StateRow
<1>2. ASSUME NEW s \in Resource PROVE HandlerOK(s)' /\ FlagOK(s)'
  <2>1. CASE s = r
    BY <2>1
  <2>2. CASE s # r
    BY <2>2 DEF Only, IInv, HandlerOK, FlagOK, Managed
  <2> QED
    BY <2>1, <2>2
<1> QED
  BY <1>1, <1>2 DEF IInv

(* A handler goes on to another request of the same object. *)
LEMMA SendIInv ==
  ASSUME IInv, NEW r \in Resource, NEW pc \in PCs \ {"idle", "Create", "Update", "Delete"},
         NEW data \in Object, call[r] # Idle, Send(r, pc, data),
         UNCHANGED <<bookVars, store>>,
         made' \in [Resource -> Path \cup {NoPath}],
         \A s \in Resource \ {r} : made'[s] = made[s],
         r \in PublicKeys =>
           /\ data.delete => made'[r] = data.path
           /\ Managed(r) /\ state[r].object.delete => made'[r] = state[r].object.path
  PROVE  IInv'
<1> USE DEF Send, bookVars
<1>1. call'[r] = At(call[r].rpc, pc, data) /\ call' \in [Resource -> Calls]
  BY RetryAttemptsAssumption DEF IInv, TypeOK, Calls, At
<1>2. HandlerOK(r)'
  BY <1>1 DEF HandlerOK, IInv, At, Managed, Idle
<1>3. FlagOK(r)'
  BY <1>1 DEF FlagOK, At, Managed
<1>4. Only(r)
  BY DEF Only, IInv, TypeOK
<1> QED
  BY <1>1, <1>2, <1>3, <1>4, OneRow DEF IInv, TypeOK, StateRow

(* A handler returns and core records what it left. *)
LEMMA ReturnIInv ==
  ASSUME IInv, NEW r \in Resource, Return(r),
         NEW object \in Object \cup {NoObject}, NEW tainted \in BOOLEAN,
         Record(r, object, tainted),
         UNCHANGED <<env, config, phase, store>>, outcome' \in Outcomes,
         made' \in [Resource -> Path \cup {NoPath}],
         \A s \in Resource \ {r} : made'[s] = made[s],
         r \in PublicKeys /\ object # NoObject /\ object.delete => made'[r] = object.path
  PROVE  IInv'
<1> USE DEF Return, Record
<1>1. call'[r] = Idle /\ call' \in [Resource -> Calls]
  BY RetryAttemptsAssumption DEF IInv, TypeOK, Calls, Idle, At, RPCs, PCs, Quiet
<1>2. state'[r].object = object /\ state' \in [Resource -> StateRow]
  BY DEF IInv, TypeOK, StateRow
<1>3. HandlerOK(r)' /\ FlagOK(r)'
  BY <1>1, <1>2 DEF HandlerOK, FlagOK, Managed, Idle, At
<1>4. Only(r)
  BY DEF Only, IInv, TypeOK
<1> QED
  BY <1>1, <1>2, <1>3, <1>4, OneRow DEF IInv, TypeOK

----------------------------------------------------------------------------
(* The server and the client. *)

LEMMA PlainReply == \A status \in Status : Plain(status) \in Reply
  BY DEF Plain, Reply, Content

(* A handler that waits for an answer has a ResourceData. *)
LEMMA WaitingData ==
  ASSUME IInv, NEW r \in Resource, Waiting(r)
  PROVE  /\ call[r] # Idle /\ call[r].data \in Object
         /\ call[r].data.path \in Path
<1>1. call[r] # Idle
  BY DEF Waiting, Quiet, Idle, At
<1> QED
  BY <1>1 DEF IInv, HandlerOK, Object

(* A request leaves a key, or none, at every path.                         *)
LEMMA AppliedStore ==
  ASSUME IInv, NEW r \in Resource, Waiting(r)
  PROVE  Applied(r) \in [Path -> Key \cup {NoKey}]
<1> DEFINE p == call[r].data.path
           m == call[r].data.material
<1>1. p \in Path /\ store \in [Path -> Key \cup {NoKey}]
  BY WaitingData DEF IInv, TypeOK
<1>2. CASE call[r].pc = "Create"
  <2>1. [type |-> KindOf(r), material |-> m, by |-> r] \in Key
    BY <1>2 DEF IInv, HandlerOK, Key, KindOf, KeyType
  <2> QED
    BY <1>1, <1>2, <2>1 DEF Applied
<1>3. CASE call[r].pc = "Update"
  <2>1. m \in Material
    BY <1>3 DEF IInv, HandlerOK
  <2> DEFINE key == [type |-> IF r \in PublicKeys THEN "public" ELSE store[p].type,
                     material |-> m, by |-> store[p].by]
  <2>2. CASE store[p] # NoKey
    <3>1. store[p] \in Key
      BY <1>1, <2>2
    <3>2. key \in Key
      BY <2>1, <3>1 DEF Key, KeyType
    <3>3. Applied(r) = [store EXCEPT ![p] = key]
      BY <1>1, <1>3, <2>2 DEF Applied
    <3> QED
      BY <1>1, <3>2, <3>3
  <2>3. CASE store[p] = NoKey
    BY <1>1, <1>3, <2>3 DEF Applied
  <2> QED
    BY <2>2, <2>3
<1>4. CASE call[r].pc \notin {"Create", "Update"}
  BY <1>1, <1>4 DEF Applied
<1> QED
  BY <1>2, <1>3, <1>4

LEMMA AnswerReply ==
  ASSUME IInv, NEW r \in Resource, Waiting(r)
  PROVE  Answer(r) \in Reply
<1> DEFINE k == store[call[r].data.path]
<1>1. k \in Key \cup {NoKey}
  BY WaitingData DEF IInv, TypeOK
<1>2. \A status \in {"200", "403", "404", "409"} : Plain(status) \in Reply
  BY PlainReply DEF Status
<1>3. k # NoKey =>
        /\ [Plain("200") EXCEPT !.type = k.type] \in Reply
        /\ [Plain("200") EXCEPT !.material = k.material] \in Reply
  BY <1>1, <1>2 DEF Plain, Reply, Key, Content
<1>4. [Plain("404") EXCEPT !.material = ErrorBody] \in Reply
  BY <1>2 DEF Plain, Reply, Content
<1> QED
  BY <1>1, <1>2, <1>3, <1>4 DEF Answer

(* An answer, or a retry, changes nothing a handler relies on.             *)
LEMMA ReplyIInv ==
  ASSUME IInv, NEW r \in Resource, call[r] # Idle,
         NEW reply \in Reply \cup {NoReply}, NEW tries \in 0..RetryAttempts,
         call' = [call EXCEPT ![r].reply = reply, ![r].tries = tries],
         UNCHANGED <<bookVars, made>>, store' \in [Path -> Key \cup {NoKey}]
  PROVE  IInv'
<1> USE DEF bookVars
<1>1. call[r] \in Calls
  BY DEF IInv, TypeOK
<1>2. /\ call'[r] \in Calls /\ call'[r].pc = call[r].pc
      /\ call'[r].rpc = call[r].rpc /\ call'[r].data = call[r].data
  BY <1>1 DEF Calls, IInv, TypeOK
<1>3. HandlerOK(r)' /\ FlagOK(r)'
  BY <1>2 DEF HandlerOK, FlagOK, IInv, Managed, Idle, At
<1>4. Only(r) /\ call' \in [Resource -> Calls]
  BY <1>2 DEF Only, IInv, TypeOK
<1> QED
  BY <1>3, <1>4, OneRow DEF IInv, TypeOK, StateRow

LEMMA ServeIInv ==
  ASSUME IInv, NEW r \in Resource, Serve(r) \/ Disturb(r)
  PROVE  IInv'
<1>1. Waiting(r) /\ UNCHANGED <<bookVars, made>>
  BY DEF Serve, Disturb
<1>2. /\ call[r] # Idle /\ call[r] \in Calls /\ Applied(r) \in [Path -> Key \cup {NoKey}]
      /\ store \in [Path -> Key \cup {NoKey}]
  BY <1>1, WaitingData, AppliedStore DEF IInv, TypeOK
<1>3. PICK reply \in Reply : Reached(r, reply)
  <2>1. CASE Serve(r)
    BY <1>1, <2>1, AnswerReply DEF Serve
  <2>2. CASE Disturb(r)
    BY <2>2, PlainReply, EnvironmentAssumption
    DEF Disturb, IInv, TypeOK, Fault, Status, NetworkErrors
  <2> QED
    BY <2>1, <2>2
<1>4. store' \in [Path -> Key \cup {NoKey}]
  BY <1>2 DEF Serve, Disturb
<1>5. call' = [call EXCEPT ![r].reply = reply, ![r].tries = call[r].tries]
  BY <1>2, <1>3 DEF Reached, Calls, IInv, TypeOK
<1> QED
  BY <1>1, <1>2, <1>4, <1>5, ReplyIInv DEF Calls

LEMMA RetryIInv ==
  ASSUME IInv, NEW r \in Resource, Retry(r)
  PROVE  IInv'
<1> DEFINE tries == IF Counted(call[r].reply.status) THEN call[r].tries + 1
                                                     ELSE call[r].tries
<1>1. call[r] \in Calls /\ call[r] # Idle /\ CanRetry(r)
  BY DEF Retry, Resend, CanRetry, IInv, TypeOK, Idle, At
<1>2. tries \in 0..RetryAttempts
  BY <1>1, RetryAttemptsAssumption DEF CanRetry, MayRetry, Counted, Calls
<1>3. call' = [call EXCEPT ![r].reply = NoReply, ![r].tries = tries]
  BY <1>1 DEF Retry, Resend, Calls, IInv, TypeOK
<1> QED
  BY <1>1, <1>2, <1>3, ReplyIInv DEF Retry, Resend, IInv, TypeOK

(* What other people do to the store touches no handler.                   *)
LEMMA ElsewhereIInv ==
  ASSUME IInv, NEW p \in Path, Elsewhere(p)
  PROVE  IInv'
<1>1. store' \in [Path -> Key \cup {NoKey}]
  BY DEF Elsewhere, IInv, TypeOK, Key
<1>2. UNCHANGED <<env, config, state, phase, outcome, call, made>>
  BY DEF Elsewhere, coreVars, bookVars
<1> QED
  BY <1>1, <1>2 DEF IInv, TypeOK, HandlerOK, FlagOK, Managed

----------------------------------------------------------------------------
(* The handlers. *)

(* Every handler call dies with the provider; what was made and is not     *)
(* recorded is forgotten.                                                  *)
LEMMA DiesIInv == IInv /\ Dies => IInv'
<1> SUFFICES ASSUME IInv, Dies PROVE IInv'
  OBVIOUS
<1> USE DEF Dies, Panic
<1>1. Idle \in Calls
  BY RetryAttemptsAssumption DEF Idle, At, Calls, RPCs, PCs, Quiet
<1>2. ASSUME NEW r \in Resource
      PROVE  /\ state'[r] \in StateRow /\ state'[r].object = state[r].object
             /\ call'[r] = Idle /\ Managed(r) => made'[r] = made[r]
             /\ made'[r] \in Path \cup {NoPath}
  BY DEF IInv, TypeOK, StateRow, Managed
<1>3. TypeOK'
  BY <1>1, <1>2 DEF IInv, TypeOK, Phases, Outcomes, StateRow
<1>4. ASSUME NEW r \in Resource PROVE HandlerOK(r)' /\ FlagOK(r)'
  BY <1>2 DEF IInv, HandlerOK, FlagOK, Managed, Idle, At
<1> QED
  BY <1>3, <1>4 DEF IInv

(* A handler that hears an answer has a ResourceData and a reply.          *)
LEMMA HeardData ==
  ASSUME IInv, NEW r \in Resource, NEW pc \in PCs, Heard(r, pc)
  PROVE  /\ call[r] # Idle /\ call[r].pc = pc /\ call[r].data \in Object
         /\ call[r].data.path \in Path /\ call[r].reply \in Reply
<1>1. call[r] # Idle /\ call[r].pc = pc /\ call[r].reply \in Reply
  BY DEF Heard, Idle, At, IInv, TypeOK, Calls
<1> QED
  BY <1>1 DEF IInv, HandlerOK, Object

LEMMA RefreshedIInv ==
  ASSUME IInv, NEW r \in Resource, NEW object \in Object \cup {NoObject},
         Refreshed(r, object), UNCHANGED store,
         \/ object = NoObject /\ Makes(r, NoPath)
         \/ /\ object \in Object /\ UNCHANGED made
            /\ r \in PublicKeys /\ object.delete => made[r] = object.path
  PROVE  IInv'
<1>1. (object # NoObject /\ state[r].tainted) \in BOOLEAN /\ outcome \in Outcomes
  BY DEF IInv, TypeOK
<1>2. /\ made' \in [Resource -> Path \cup {NoPath}]
      /\ \A s \in Resource \ {r} : made'[s] = made[s]
  BY DEF Makes, IInv, TypeOK
<1> QED
  BY <1>1, <1>2, ReturnIInv, KeyAssumption DEF Refreshed

LEMMA RefreshFailedIInv ==
  ASSUME IInv, NEW r \in Resource, RefreshFailed(r), UNCHANGED <<store, made>>
  PROVE  IInv'
<1> DEFINE o == state[r].object
           t == state[r].tainted
<1>1. o \in Object \cup {NoObject} /\ t \in BOOLEAN /\ Record(r, o, t)
  BY DEF RefreshFailed, Record, IInv, TypeOK
<1>2. r \in PublicKeys /\ o # NoObject /\ o.delete => made'[r] = o.path
  BY DEF IInv, FlagOK, Managed
<1> QED
  BY <1>1, <1>2, ReturnIInv DEF RefreshFailed, Note, Outcomes, IInv, TypeOK

(* A Create or an Update returns with an object whose flag is earned.      *)
LEMMA WrittenIInv ==
  ASSUME IInv, NEW r \in Resource, NEW object \in Object \cup {NoObject},
         NEW err \in BOOLEAN, Created(r, object, err) \/ Updated(r, object, err),
         UNCHANGED store, UNCHANGED made \/ Makes(r, call[r].data.path),
         call[r].data.path \in Path,
         r \in PublicKeys /\ object # NoObject /\ object.delete => made'[r] = object.path
  PROVE  IInv'
<1>1. /\ made' \in [Resource -> Path \cup {NoPath}]
      /\ \A s \in Resource \ {r} : made'[s] = made[s]
  BY DEF Makes, IInv, TypeOK
<1>2. PICK tainted \in BOOLEAN : Record(r, object, tainted)
  BY DEF Created, Updated
<1>3. outcome' \in Outcomes
  BY DEF Created, Updated, Note, Outcomes, IInv, TypeOK
<1> QED
  BY <1>1, <1>2, <1>3, ReturnIInv DEF Created, Updated

LEMMA ReadReturnsIInv ==
  ASSUME IInv, NEW r \in Resource, NEW err \in BOOLEAN, NEW object \in Object,
         call[r] # Idle, ReadReturns(r, object, err), UNCHANGED <<store, made>>,
         object.path = call[r].data.path, object.delete = call[r].data.delete
  PROVE  IInv'
<1>1. call[r].data.path \in Path
  BY DEF Object
<1>2. r \in PublicKeys /\ object.delete => made[r] = object.path
  BY DEF IInv, FlagOK
<1> QED
  BY <1>1, <1>2, RefreshFailedIInv, RefreshedIInv, WrittenIInv DEF ReadReturns

LEMMA RefreshIInv ==
  ASSUME IInv, NEW r \in Resource,
         PrivateKeyExists(r) \/ PublicKeyExists(r)
           \/ ReadPublicKeyMetadata(r) \/ ReadPublicKeyMaterial(r)
  PROVE  IInv'
<1> USE DEF PCs
<1>1. CASE PrivateKeyExists(r)
  <2>1. call[r].data \in Object /\ r \notin PublicKeys
    BY <1>1, HeardData DEF PrivateKeyExists, PrivateKeys
  <2> QED
    BY <1>1, <2>1, DiesIInv, RefreshedIInv DEF PrivateKeyExists
<1>2. CASE PublicKeyExists(r)
  <2>1. call[r] # Idle /\ call[r].data \in Object
    BY <1>2, HeardData DEF PublicKeyExists
  <2>2. /\ call[r].data.delete => made[r] = call[r].data.path
        /\ Managed(r) /\ state[r].object.delete => made[r] = state[r].object.path
    BY <1>2, <2>1 DEF PublicKeyExists, IInv, FlagOK
  <2>3. CASE Send(r, "ReadMetadata", call[r].data) /\ UNCHANGED <<bookVars, store, made>>
    BY <2>1, <2>2, <2>3, SendIInv DEF IInv, TypeOK
  <2> QED
    BY <1>2, <2>3, DiesIInv, RefreshedIInv, RefreshFailedIInv DEF PublicKeyExists
<1>3. CASE ReadPublicKeyMetadata(r)
  <2>1. call[r] # Idle /\ call[r].data \in Object
    BY <1>3, HeardData DEF ReadPublicKeyMetadata
  <2>2. r \in PublicKeys =>
          /\ call[r].data.delete => made[r] = call[r].data.path
          /\ Managed(r) /\ state[r].object.delete => made[r] = state[r].object.path
    BY <2>1 DEF IInv, FlagOK
  <2>3. CASE Send(r, "ReadMaterial", call[r].data) /\ UNCHANGED <<bookVars, store, made>>
    BY <2>1, <2>2, <2>3, SendIInv DEF IInv, TypeOK
  <2>4. CASE ReadReturns(r, call[r].data, TRUE) /\ UNCHANGED <<store, made>>
    BY <2>1, <2>4, ReadReturnsIInv
  <2> QED
    BY <1>3, <2>3, <2>4, DiesIInv DEF ReadPublicKeyMetadata
<1>4. CASE ReadPublicKeyMaterial(r)
  <2> DEFINE read == [call[r].data EXCEPT !.material = call[r].reply.material]
             err  == Err(r, "StorageKeyGetMaterial")
             object == IF err THEN call[r].data ELSE read
  <2>1. call[r] # Idle /\ call[r].data \in Object /\ call[r].reply \in Reply
    BY <1>4, HeardData DEF ReadPublicKeyMaterial
  <2>2. /\ object \in Object /\ object.path = call[r].data.path
        /\ object.delete = call[r].data.delete
    BY <2>1 DEF Object, Reply
  <2>3. err \in BOOLEAN
    BY DEF Err, Failed
  <2>4. ReadReturns(r, object, err) /\ UNCHANGED <<store, made>>
    BY <1>4 DEF ReadPublicKeyMaterial
  <2> QED
    BY <2>1, <2>2, <2>3, <2>4, ReadReturnsIInv
<1> QED
  BY <1>1, <1>2, <1>3, <1>4

LEMMA CreateIInv ==
  ASSUME IInv, NEW r \in Resource, CreatePrivateKey(r) \/ CreatePublicKey(r)
  PROVE  IInv'
<1>1. /\ call[r] # Idle /\ call[r].data \in Object /\ call[r].data.path \in Path
      /\ ~Managed(r)
  BY HeardData DEF CreatePrivateKey, CreatePublicKey, PCs, IInv, HandlerOK
<1>2. CASE CreatePrivateKey(r)
  BY <1>1, <1>2, DiesIInv, WrittenIInv DEF CreatePrivateKey, PrivateKeys
<1>3. CASE CreatePublicKey(r)
  <2> DEFINE data == [call[r].data EXCEPT !.delete = TRUE]
  <2>1. data \in Object /\ data.path = call[r].data.path
    BY <1>1 DEF Object
  <2>2. CASE Send(r, "ReadMetadata", data) /\ Makes(r, data.path)
               /\ UNCHANGED <<bookVars, store>>
    <3>1. /\ made' \in [Resource -> Path \cup {NoPath}] /\ made'[r] = data.path
          /\ \A s \in Resource \ {r} : made'[s] = made[s]
      BY <1>1, <2>1, <2>2 DEF Makes, IInv, TypeOK
    <3> QED
      BY <1>1, <2>1, <2>2, <3>1, SendIInv DEF PCs, Quiet
  <2> QED
    BY <1>1, <1>3, <2>1, <2>2, DiesIInv, WrittenIInv DEF CreatePublicKey
<1> QED
  BY <1>2, <1>3

LEMMA UpdateIInv ==
  ASSUME IInv, NEW r \in Resource, UpdatePrivateKey(r) \/ UpdatePublicKey(r)
  PROVE  IInv'
<1>1. call[r] # Idle /\ call[r].data \in Object /\ call[r].data.path \in Path
  BY HeardData DEF UpdatePrivateKey, UpdatePublicKey, PCs
<1>2. r \in PublicKeys =>
        /\ call[r].data.delete => made[r] = call[r].data.path
        /\ Managed(r) /\ state[r].object.delete => made[r] = state[r].object.path
  BY <1>1 DEF IInv, FlagOK
<1>3. Err(r, "StorageKeyUpdate") \in BOOLEAN
  BY DEF Err, Failed
<1>4. CASE UpdatePrivateKey(r)
  BY <1>1, <1>2, <1>3, <1>4, DiesIInv, WrittenIInv DEF UpdatePrivateKey
<1>5. CASE UpdatePublicKey(r)
  <2>1. CASE Send(r, "ReadMetadata", call[r].data) /\ UNCHANGED <<bookVars, store, made>>
    BY <1>1, <1>2, <2>1, SendIInv DEF IInv, TypeOK, PCs, Quiet
  <2> QED
    BY <1>1, <1>2, <1>5, <2>1, DiesIInv, WrittenIInv DEF UpdatePublicKey
<1> QED
  BY <1>4, <1>5

(* The handlers a plan starts, and the create half of a replacement.       *)
LEMMA CallCreateOK ==
  ASSUME IInv, NEW r \in Resource, config[r] # NoBlock
  PROVE  /\ CallCreate(r) \in Calls /\ CallCreate(r).data \in Object
         /\ CallCreate(r).pc \in {"ReadMetadata", "Create"}
         /\ CallCreate(r).rpc = "create" /\ ~CallCreate(r).data.delete
         /\ CallCreate(r).pc = "Create" => CallCreate(r).data.material \in Material
<1>1. config[r] \in PublicBlock \cup PrivateBlock
  BY DEF IInv, TypeOK
<1>2. NewObject(r) \in Object /\ ~NewObject(r).delete
  BY <1>1 DEF NewObject, Object, Content, PublicBlock, PrivateBlock
<1>3. config[r].material # NoMaterial => NewObject(r).material \in Material
  BY <1>1 DEF NewObject, PublicBlock, PrivateBlock
<1> QED
  BY <1>2, <1>3, RetryAttemptsAssumption DEF CallCreate, At, Calls, RPCs, PCs

LEMMA DeleteIInv ==
  ASSUME IInv, NEW r \in Resource, DeleteKey(r) \/ ForgetPublicKey(r)
  PROVE  IInv'
<1>1. CASE DeleteFailed(r) /\ UNCHANGED <<store, made>>
  <2>1. /\ state[r].object \in Object \cup {NoObject}
        /\ made \in [Resource -> Path \cup {NoPath}]
        /\ r \in PublicKeys /\ state[r].object # NoObject /\ state[r].object.delete
             => made[r] = state[r].object.path
    BY DEF IInv, TypeOK, FlagOK, Managed
  <2>2. outcome' \in Outcomes
    BY <1>1 DEF DeleteFailed, Note, Outcomes
  <2> QED
    BY <1>1, <2>1, <2>2, ReturnIInv DEF DeleteFailed
<1>2. CASE Deleted(r, CallCreate(r)) /\ Makes(r, NoPath) /\ UNCHANGED store
  <2>1. /\ made' \in [Resource -> Path \cup {NoPath}]
        /\ \A s \in Resource \ {r} : made'[s] = made[s]
    BY <1>2 DEF Makes, IInv, TypeOK
  <2>2. CASE call[r].rpc # "replace"
    <3>1. Return(r)
      BY <1>2, <2>2 DEF Deleted, Return
    <3> QED
      BY <1>2, <2>1, <3>1, ReturnIInv DEF Deleted, IInv, TypeOK
  <2>3. CASE call[r].rpc = "replace"
    <3>0. config[r] # NoBlock /\ phase # "idle"
      BY <2>3 DEF IInv, HandlerOK, Idle, At
    <3>1. call'[r] = CallCreate(r) /\ state'[r] = Absent
      BY <1>2, <2>3 DEF Deleted, Record, Absent, IInv, TypeOK
    <3>2. call' \in [Resource -> Calls] /\ state' \in [Resource -> StateRow]
      BY <1>2, <2>3, <3>0, CallCreateOK DEF Deleted, Record, IInv, TypeOK, StateRow
    <3>3. HandlerOK(r)' /\ FlagOK(r)'
      BY <1>2, <3>0, <3>1, CallCreateOK
      DEF Deleted, HandlerOK, FlagOK, Managed, Absent, Idle, At
    <3>4. Only(r)
      BY <1>2, <2>1 DEF Only, Deleted, Record, IInv, TypeOK
    <3> QED
      BY <1>2, <2>1, <3>2, <3>3, <3>4, OneRow DEF Deleted, IInv, TypeOK
  <2> QED
    BY <2>2, <2>3
<1> QED
  BY <1>1, <1>2 DEF DeleteKey, ForgetPublicKey

LEMMA StartIInv == IInv /\ Start => IInv'
<1> SUFFICES ASSUME IInv, Start PROVE IInv'
  OBVIOUS
<1> USE DEF Start, StartRun
<1>1. ASSUME NEW r \in Resource
      PROVE  \/ call'[r] = Idle
             \/ Managed(r) /\ call'[r] = At("refresh", "Exists", state[r].object)
  OBVIOUS
<1>2. ASSUME NEW r \in Resource
      PROVE  call'[r] \in Calls /\ HandlerOK(r)' /\ FlagOK(r)'
  <2>1. Managed(r) => state[r].object \in Object
    BY DEF IInv, TypeOK, Managed
  <2> QED
    BY <1>1, <2>1, RetryAttemptsAssumption
    DEF IInv, HandlerOK, FlagOK, Managed, Idle, At, Calls, RPCs, PCs, Quiet
<1>3. TypeOK'
  BY <1>2 DEF IInv, TypeOK, Phases, Outcomes
<1> QED
  BY <1>2, <1>3 DEF IInv

(* What the planned action says of the block and the object.               *)
LEMMA ActionMeans ==
  ASSUME NEW r, NEW replace \in BOOLEAN, NEW update \in BOOLEAN,
         state[r].tainted \in BOOLEAN
  PROVE  LET action == Action(r, replace, update) IN
         /\ action = "create" => config[r] # NoBlock /\ ~Managed(r)
         /\ action = "update" => config[r] # NoBlock /\ Managed(r) /\ update
         /\ action = "delete" => Managed(r)
         /\ action = "replace" => config[r] # NoBlock /\ Managed(r)
  BY DEF Action

LEMMA PlanIInv == IInv /\ PlanKeys => IInv'
<1> SUFFICES ASSUME IInv, PlanKeys PROVE IInv'
  OBVIOUS
<1> USE DEF PlanKeys, Plan
<1>1. ASSUME NEW r \in Resource
      PROVE  PlanKey(r) \in Calls /\ HandlerOK(r)' /\ FlagOK(r)'
  <2> DEFINE managed == config[r] # NoBlock /\ Managed(r)
             action  == Action(r, managed /\ Replaces(r), managed /\ Updates(r))
  <2> HIDE DEF action
  <2>1. call'[r] = PlanKey(r)
    OBVIOUS
  <2>0. /\ action = "create" => config[r] # NoBlock /\ ~Managed(r)
        /\ action = "update" => config[r] # NoBlock /\ Managed(r) /\ Updates(r)
        /\ action = "delete" => Managed(r)
        /\ action = "replace" => config[r] # NoBlock /\ Managed(r)
    <3>1. /\ (managed /\ Replaces(r)) \in BOOLEAN /\ (managed /\ Updates(r)) \in BOOLEAN
          /\ state[r].tainted \in BOOLEAN
      BY DEF IInv, TypeOK
    <3> QED
      BY <3>1, ActionMeans DEF action
  <2>2. CASE action = "create"
    <3>1. PlanKey(r) = CallCreate(r)
      BY <2>2 DEF PlanKey, action
    <3>2. config[r] # NoBlock /\ ~Managed(r)
      BY <2>0, <2>2
    <3> QED
      BY <2>1, <3>1, <3>2, CallCreateOK DEF HandlerOK, FlagOK, Managed, Idle, At
  <2>3. CASE action = "update"
    <3> DEFINE data == [state[r].object EXCEPT !.material = config[r].material]
    <3>1. PlanKey(r) = At("update", "Update", data)
      BY <2>3 DEF PlanKey, CallUpdate, action
    <3>2. config[r] # NoBlock /\ Managed(r) /\ Updates(r)
      BY <2>0, <2>3
    <3>3. config[r].material \in Material
      BY <3>2 DEF Updates, IInv, TypeOK, PublicBlock
    <3>4. state[r].object \in Object
      BY <3>2 DEF IInv, TypeOK, Managed
    <3>5. /\ data \in Object /\ data.material \in Material
          /\ data.path = state[r].object.path /\ data.delete = state[r].object.delete
      BY <3>3, <3>4 DEF Object, Content
    <3> HIDE DEF data
    <3>6. PlanKey(r) \in Calls
      BY <3>1, <3>5, RetryAttemptsAssumption DEF At, Calls, RPCs, PCs
    <3>7. /\ call'[r].pc = "Update" /\ call'[r].rpc = "update" /\ call'[r].data = data
          /\ UNCHANGED <<config, state, made>> /\ phase' # "idle"
      BY <2>1, <3>1 DEF At
    <3>8. HandlerOK(r)'
      BY <3>5, <3>7 DEF HandlerOK, Managed, Idle, At
    <3>9. FlagOK(r)'
      BY <3>2, <3>5, <3>7 DEF IInv, FlagOK, Managed
    <3> QED
      BY <3>6, <3>8, <3>9
  <2>4. CASE action \in {"delete", "replace"}
    <3>1. PlanKey(r) = CallDelete(r, action)
      BY <2>4 DEF PlanKey, action
    <3>2. Managed(r) /\ (action = "replace" => config[r] # NoBlock)
      BY <2>0, <2>4
    <3>3. state[r].object \in Object
      BY <3>2 DEF IInv, TypeOK, Managed
    <3> QED
      BY <2>1, <2>4, <3>1, <3>2, <3>3, RetryAttemptsAssumption
      DEF CallDelete, IInv, HandlerOK, FlagOK, Managed, Idle, At, Calls, RPCs, PCs, Quiet
  <2>5. CASE action \notin {"create", "update", "delete", "replace"}
    <3>1. PlanKey(r) = Idle
      BY <2>5 DEF PlanKey, action
    <3> QED
      BY <2>1, <3>1, RetryAttemptsAssumption
      DEF IInv, HandlerOK, FlagOK, Managed, Idle, At, Calls, RPCs, PCs, Quiet
  <2> QED
    BY <2>2, <2>3, <2>4, <2>5
<1>2. TypeOK'
  BY <1>1 DEF IInv, TypeOK, Phases
<1> QED
  BY <1>1, <1>2 DEF IInv

(* A run ends, and the user edits, only when no handler is at work.        *)
LEMMA EndIInv == IInv /\ End => IInv'
<1> SUFFICES ASSUME IInv, End PROVE IInv'
  OBVIOUS
<1> QED
  BY DEF End, EndRun, AllIdle, IInv, TypeOK, Phases, HandlerOK, FlagOK, Managed

LEMMA EditIInv ==
  ASSUME IInv, NEW r \in Resource, Edit(r)
  PROVE  IInv'
<1>1. PICK b \in Blocks(r) \cup {NoBlock} : EditConfig(r, b)
  BY DEF Edit
<1>2. \A s \in Resource : call[s] = Idle
  BY <1>1 DEF EditConfig, IInv, HandlerOK
<1>3. TypeOK'
  <2>1. /\ b \in PublicBlock \cup {NoBlock}
        /\ r \in PrivateKeys => b \in PrivateBlock \cup {NoBlock}
    BY DEF Blocks, PrivateKeys, PublicBlock, PrivateBlock
  <2> QED
    BY <1>1, <2>1 DEF Edit, EditConfig, IInv, TypeOK, PrivateKeys
<1>4. ASSUME NEW s \in Resource PROVE HandlerOK(s)' /\ FlagOK(s)'
  BY <1>1, <1>2 DEF Edit, EditConfig, IInv, HandlerOK, FlagOK, Managed, Idle, At
<1> QED
  BY <1>3, <1>4 DEF IInv

----------------------------------------------------------------------------
LEMMA NextIInv == IInv /\ [Next]_vars => IInv'
<1> SUFFICES ASSUME IInv, [Next]_vars PROVE IInv'
  OBVIOUS
<1>1. ASSUME NEW r \in Resource, Step(r) PROVE IInv'
  <2>1. ASSUME Handler(r) PROVE IInv'
    BY <2>1, RefreshIInv, CreateIInv, UpdateIInv, DeleteIInv DEF Handler
  <2> QED
    BY <1>1, <2>1, ServeIInv, RetryIInv DEF Step
<1>2. CASE UNCHANGED vars
  BY <1>2 DEF vars, coreVars, bookVars, IInv, TypeOK, HandlerOK, FlagOK, Managed
<1> QED
  BY <1>1, <1>2, ElsewhereIInv, StartIInv, PlanIInv, EndIInv, EditIInv DEF Next

LEMMA InductiveInvariant == Spec => []IInv
  BY InitIInv, NextIInv, PTL DEF Spec

(* Every variable has its type, and a handler at work has a ResourceData,  *)
(* whatever the sets of resources, paths and materials are.                *)
THEOREM TypeCorrect == Spec => []TypeOK
<1>1. IInv => TypeOK
  BY DEF IInv
<1> QED
  BY <1>1, InductiveInvariant, PTL

(* A public key's delete flag means that its create was acknowledged.      *)
THEOREM FlagsAreEarned == Spec => []DeleteFlagEarned
<1>1. IInv => DeleteFlagEarned
  BY KeyAssumption DEF IInv, FlagOK, DeleteFlagEarned
<1> QED
  BY <1>1, InductiveInvariant, PTL

(* No request of a resource removes a public key that the resource did not *)
(* create, under any faults and any interference.                          *)
THEOREM AdoptedKeysSurvive == Spec => AdoptedKeySurvives
<1> DEFINE A == \A r \in PublicKeys, p \in Path :
                  store[p] # NoKey /\ store'[p] = NoKey /\ call'[r] # call[r]
                    => made[r] = p
<1>1. ASSUME IInv, [Next]_vars PROVE [A]_vars
  <2> SUFFICES ASSUME NEW r \in PublicKeys, NEW p \in Path,
                      store[p] # NoKey, store'[p] = NoKey, call'[r] # call[r]
               PROVE  made[r] = p
    OBVIOUS
  <2>0. r \in Resource
    BY KeyAssumption
  <2>1. Serve(r) \/ Disturb(r)
    <3>1. UNCHANGED store \/ UNCHANGED call \/ \E s \in Resource : Serve(s) \/ Disturb(s)
      BY <1>1 DEF Next, Step, Handler, Elsewhere, coreVars, vars, Edit, EditConfig,
        Start, End, EndRun, PlanKeys, Retry, Dies, PrivateKeyExists, PublicKeyExists,
        ReadPublicKeyMetadata, ReadPublicKeyMaterial, CreatePrivateKey, CreatePublicKey,
        UpdatePrivateKey, UpdatePublicKey, DeleteKey, ForgetPublicKey
    <3>2. PICK s \in Resource : Serve(s) \/ Disturb(s)
      BY <3>1
    <3>3. s = r
      BY <2>0, <3>2, <1>1 DEF Serve, Disturb, Reached, IInv, TypeOK
    <3> QED
      BY <3>2, <3>3
  <2>2. Waiting(r) /\ store' = Applied(r)
    BY <2>1 DEF Serve, Disturb
  <2>3. call[r].pc = "Delete" /\ call[r].data.path = p
    BY <1>1, <2>0, <2>2, WaitingData, AppliedStore, KeyAssumption
    DEF Applied, IInv, TypeOK, Key, KindOf, KeyType, HandlerOK
  <2> QED
    BY <1>1, <2>0, <2>2, <2>3, WaitingData DEF IInv, HandlerOK, FlagOK
<1> QED
  BY <1>1, InductiveInvariant, PTL DEF Spec, AdoptedKeySurvives
=============================================================================
