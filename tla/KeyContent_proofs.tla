-------------------------- MODULE KeyContent_proofs --------------------------
(***************************************************************************)
(* Proofs about what the state says of a key and what the key store holds: *)
(* that plans are made on current public keys, and that a run without      *)
(* errors leaves every claimed key as it is recorded.                      *)
(***************************************************************************)
EXTENDS KeyOwnership_proofs

Current(r) ==
  LET o == state[r].object IN
    /\ store[o.path] # NoKey
    /\ store[o.path].type = "public"
    /\ store[o.path].material = o.material

(* What the refresh of a public key has found out so far is so.            *)
Public(p) == store[p] # NoKey /\ store[p].type = "public"
FoundOK(r) ==
  Managed(r) =>
    LET p == state[r].object.path
    IN /\ call[r] = Idle => Current(r)
       /\ call[r].pc = "Exists" /\ call[r].reply # NoReply /\ Is(r, "public") => Public(p)
       /\ call[r].pc \in {"ReadMetadata", "ReadMaterial"} => Public(p)
       /\ call[r].pc = "ReadMaterial" /\ call[r].reply # NoReply =>
            /\ Code(r) # "404"
            /\ Code(r) = "200" => call[r].reply.material = store[p].material

RefreshOK ==
  ~env.others /\ phase = "refresh" /\ outcome = "ok" => \A r \in PublicKeys : FoundOK(r)

(* A refresh only reads. *)
LEMMA RefreshReads ==
  ASSUME IInv, RowsOK, phase = "refresh", NEW r \in Resource, Waiting(r)
  PROVE  Applied(r) = store /\ call[r].pc \in {"Exists", "ReadMetadata", "ReadMaterial"}
<1>1. call[r] # Idle /\ RpcOK(r) /\ HandlerOK(r) /\ call[r].pc \in PCs
  BY WaitingData DEF IInv, RowsOK, TypeOK, Calls
<1>2. call[r].rpc = "refresh"
  BY <1>1 DEF RpcOK
<1>3. call[r].pc \notin {"Create", "Update", "Delete"}
  BY <1>1, <1>2 DEF RpcOK, HandlerOK
<1> QED
  BY <1>1, <1>3 DEF Applied, PCs, Waiting

LEMMA ServeFound ==
  ASSUME IInv, RowsOK, RefreshOK, NEW r \in Resource, Serve(r)
  PROVE  RefreshOK'
<1> SUFFICES ASSUME ~env.others, phase = "refresh", outcome = "ok", NEW s \in PublicKeys
             PROVE  FoundOK(s)'
  BY DEF RefreshOK, Serve, bookVars
<1>0. FoundOK(s) /\ s \in Resource /\ RpcOK(s)
  BY KeyAssumption DEF RefreshOK, RowsOK
<1>1. /\ UNCHANGED <<store, state>> /\ Waiting(r)
      /\ call[r].pc \in {"Exists", "ReadMetadata", "ReadMaterial"}
  BY RefreshReads DEF Serve, bookVars
<1>2. /\ call'[r].pc = call[r].pc /\ call'[r].data = call[r].data
      /\ call'[r].reply = Answer(r) /\ (s # r => call'[s] = call[s])
      /\ call[r] # Idle /\ call'[r] # Idle
  BY <1>1, WaitingData DEF Serve, Reached, IInv, TypeOK, Calls, Idle, At
<1>3. CASE s # r
  BY <1>0, <1>1, <1>2, <1>3 DEF FoundOK, Managed, Current, Public, Is, Code
<1>4. CASE s = r
  <2>1. Managed(r) => call[r].data.path = state[r].object.path
    BY <1>0, <1>1, <1>2, <1>4 DEF RpcOK, IInv, HandlerOK, Idle, At
  <2>2. call[r].pc = "Exists" /\ Answer(r).status = "200" /\ Answer(r).type = "public"
          => Public(call[r].data.path)
    BY DEF Answer, Plain, Public
  <2>3. call[r].pc = "ReadMaterial" /\ Public(call[r].data.path) =>
          /\ Answer(r).status # "404"
          /\ Answer(r).status = "200" => Answer(r).material = store[call[r].data.path].material
    BY DEF Answer, Plain, Public
  <2> QED
    BY <1>0, <1>1, <1>2, <1>4, <2>1, <2>2, <2>3 DEF FoundOK, Managed, Current, Public, Is, Code
<1> QED
  BY <1>3, <1>4

LEMMA DisturbFound ==
  ASSUME IInv, RowsOK, RefreshOK, NEW r \in Resource, Disturb(r)
  PROVE  RefreshOK'
<1> SUFFICES ASSUME ~env.others, phase = "refresh", outcome = "ok", NEW s \in PublicKeys
             PROVE  FoundOK(s)'
  BY DEF RefreshOK, Disturb, bookVars
<1>0. FoundOK(s) /\ s \in Resource
  BY KeyAssumption DEF RefreshOK
<1>1. UNCHANGED <<store, state>> /\ Waiting(r)
  BY RefreshReads DEF Disturb, bookVars
<1>2. PICK f \in env.faults : Reached(r, Plain(f.status))
  BY DEF Disturb
<1>3. f.status \in Status \ {"200", "404"}
  BY EnvironmentAssumption DEF IInv, TypeOK, Fault, Status, NetworkErrors
<1>4. /\ call'[r].pc = call[r].pc /\ call'[r].data = call[r].data
      /\ call'[r].reply = Plain(f.status) /\ (s # r => call'[s] = call[s])
      /\ call[r] # Idle /\ call'[r] # Idle
  BY <1>1, <1>2, WaitingData DEF Reached, IInv, TypeOK, Calls, Idle, At, Waiting, Quiet
<1>5. call'[r].reply.status \notin {"200", "404"}
  BY <1>3, <1>4, PlainIsReply
<1> QED
  BY <1>0, <1>1, <1>4, <1>5 DEF FoundOK, Managed, Current, Public, Is, Code

LEMMA RetryFound ==
  ASSUME IInv, RefreshOK, NEW r \in Resource, Retry(r)
  PROVE  RefreshOK'
<1>1. PICK tries : call' = [call EXCEPT ![r].reply = NoReply, ![r].tries = tries]
  BY DEF Retry, Resend
<1>2. call[r] # Idle /\ call[r].pc # "idle"
  BY DEF Retry, Resend, CanRetry, IInv, HandlerOK, Idle, At
<1>3. /\ UNCHANGED <<env, state, phase, outcome, store>>
      /\ call'[r].pc = call[r].pc /\ call'[r].reply = NoReply
      /\ \A s \in Resource \ {r} : call'[s] = call[s]
  BY <1>1 DEF Retry, Resend, bookVars, IInv, TypeOK, Calls
<1>4. call'[r] # Idle
  BY <1>2, <1>3 DEF Idle, At
<1> QED
  BY <1>2, <1>3, <1>4, KeyAssumption DEF RefreshOK, FoundOK, Managed, Current, Public, Is, Code

LEMMA HandlerBusy ==
  ASSUME NEW r \in Resource, Handler(r)
  PROVE  call[r] # Idle
<1>1. call[r].pc # "idle"
  <2> USE DEF Heard
  <2>1. CASE PrivateKeyExists(r) \/ PublicKeyExists(r)
    BY <2>1 DEF PrivateKeyExists, PublicKeyExists
  <2>2. CASE ReadPublicKeyMetadata(r) \/ ReadPublicKeyMaterial(r)
    BY <2>2 DEF ReadPublicKeyMetadata, ReadPublicKeyMaterial
  <2>3. CASE CreatePrivateKey(r) \/ CreatePublicKey(r)
    BY <2>3 DEF CreatePrivateKey, CreatePublicKey
  <2>4. CASE UpdatePrivateKey(r) \/ UpdatePublicKey(r)
    BY <2>4 DEF UpdatePrivateKey, UpdatePublicKey
  <2>5. CASE DeleteKey(r) \/ ForgetPublicKey(r)
    BY <2>5 DEF DeleteKey, ForgetPublicKey
  <2> QED
    BY <2>1, <2>2, <2>3, <2>4, <2>5 DEF Handler
<1> QED
  BY <1>1 DEF Idle, At

(* A refresh that finds no error records the key as it is.                 *)
LEMMA HandlerFound ==
  ASSUME IInv, RowsOK, RefreshOK, NEW r \in Resource, Handler(r)
  PROVE  RefreshOK'
<1> SUFFICES ASSUME ~env.others, phase' = "refresh", outcome' = "ok", NEW s \in PublicKeys,
                    ~Killed(r)
             PROVE  FoundOK(s)'
  BY HandlerFrame DEF RefreshOK, Killed, Dies, Panic
<1>0. /\ phase = "refresh" /\ Only(r) /\ UNCHANGED <<env, store>> /\ s \in Resource
      /\ DOMAIN call = Resource /\ DOMAIN state = Resource
  BY HandlerFrame, KeyAssumption DEF IInv, TypeOK
<1>1. call[r] # Idle
  BY HandlerBusy
<1>2. /\ call[r].rpc = "refresh" /\ call[r].pc \notin {"Create", "Update", "Delete", "Forget"}
      /\ Managed(r) /\ call[r].data.path = state[r].object.path
      /\ call[r].data \in Object
  BY <1>0, <1>1 DEF RowsOK, RpcOK, IInv, HandlerOK
<1>3. \/ PrivateKeyExists(r) \/ PublicKeyExists(r)
      \/ ReadPublicKeyMetadata(r) \/ ReadPublicKeyMaterial(r)
  BY <1>2 DEF Handler, CreatePrivateKey, CreatePublicKey, UpdatePrivateKey,
     UpdatePublicKey, DeleteKey, ForgetPublicKey, Heard
<1>4. outcome = "ok"
  BY <1>2, <1>3 DEF PrivateKeyExists, PublicKeyExists, ReadPublicKeyMetadata,
     ReadPublicKeyMaterial, Refreshed, RefreshFailed, ReadReturns, Note, Send, bookVars,
     Killed, Deadly, Heard
<1>5. FoundOK(s) /\ (r \in PublicKeys => FoundOK(r))
  BY <1>0, <1>4 DEF RefreshOK
<1>6. CASE s # r
  BY <1>0, <1>5, <1>6 DEF Only, FoundOK, Managed, Current, Public, Is, Code
<1>7. CASE s = r
  <2>1. ~RefreshFailed(r)
    BY DEF RefreshFailed, Note
  <2>2. CASE Refreshed(r, NoObject)
    BY <1>0, <1>7, <2>2 DEF Refreshed, Record, FoundOK, Managed
  <2>3. CASE PublicKeyExists(r)
    <3>1. CASE Is(r, "public") /\ Send(r, "ReadMetadata", call[r].data)
                 /\ UNCHANGED <<bookVars, store, made>>
      <4>1. Public(state[r].object.path)
        BY <1>2, <1>5, <1>7, <2>3, <3>1 DEF FoundOK, PublicKeyExists, Heard
      <4>2. /\ call'[r].pc = "ReadMetadata" /\ call'[r] # Idle /\ UNCHANGED state
        BY <1>0, <3>1 DEF Send, Idle, At, bookVars
      <4> QED
        BY <1>0, <1>7, <4>1, <4>2 DEF FoundOK, Public
    <3> QED
      BY <2>1, <2>2, <2>3, <3>1 DEF PublicKeyExists, Killed, Deadly, Heard
  <2>4. CASE ReadPublicKeyMetadata(r)
    <3>1. CASE Send(r, "ReadMaterial", call[r].data) /\ UNCHANGED <<bookVars, store, made>>
      <4>1. Public(state[r].object.path)
        BY <1>2, <1>5, <1>7, <2>4 DEF FoundOK, ReadPublicKeyMetadata, Heard
      <4>2. /\ call'[r].pc = "ReadMaterial" /\ call'[r] # Idle /\ UNCHANGED state
            /\ call'[r].reply = NoReply
        BY <1>0, <3>1 DEF Send, Idle, At, bookVars
      <4> QED
        BY <1>0, <1>7, <4>1, <4>2 DEF FoundOK, Public
    <3>2. ~ReadReturns(r, call[r].data, TRUE)
      BY <1>2, <2>1 DEF ReadReturns
    <3> QED
      BY <2>4, <3>1, <3>2 DEF ReadPublicKeyMetadata, Killed, Deadly, Heard
  <2>5. CASE ReadPublicKeyMaterial(r)
    <3> DEFINE read == [call[r].data EXCEPT !.material = call[r].reply.material]
    <3>1. ~Err(r, "StorageKeyGetMaterial")
      BY <1>2, <2>1, <2>5 DEF ReadPublicKeyMaterial, ReadReturns
    <3>2. Refreshed(r, read)
      BY <1>2, <2>5, <3>1 DEF ReadPublicKeyMaterial, ReadReturns
    <3>3. /\ Public(state[r].object.path)
          /\ call[r].reply.material = store[state[r].object.path].material
      BY <1>2, <1>5, <1>7, <2>5, <3>1
      DEF FoundOK, ReadPublicKeyMaterial, Heard, Err, Failed, Accepted, Code
    <3>4. /\ read.path = state[r].object.path /\ read.material = call[r].reply.material
      BY <1>2 DEF Object
    <3>5. /\ call'[r] = Idle /\ state'[r].object = read
      BY <1>0, <3>2 DEF Refreshed, Return, Record
    <3> QED
      BY <1>0, <1>7, <3>3, <3>4, <3>5 DEF FoundOK, Current, Public, Idle, At
  <2> QED
    BY <1>3, <1>7, <2>3, <2>4, <2>5, KeyAssumption DEF PrivateKeyExists, PrivateKeys
<1> QED
  BY <1>6, <1>7

LEMMA NextFound == KInv /\ RefreshOK /\ [Next]_vars => RefreshOK'
<1> SUFFICES ASSUME KInv, RefreshOK, [Next]_vars PROVE RefreshOK'
  OBVIOUS
<1>0. IInv /\ RowsOK
  BY DEF KInv
<1>1. CASE Start
  <2> SUFFICES ASSUME NEW s \in PublicKeys PROVE FoundOK(s)'
    BY DEF RefreshOK
  <2>1. /\ call'[s] = IF Managed(s) THEN At("refresh", "Exists", state[s].object) ELSE Idle
        /\ UNCHANGED state
    BY <1>1, KeyAssumption DEF Start, StartRun
  <2> QED
    BY <2>1 DEF FoundOK, Managed, Idle, At
<1>2. CASE PlanKeys \/ End \/ (\E r \in Resource : Edit(r))
  BY <1>2 DEF PlanKeys, Plan, End, EndRun, Edit, EditConfig, RefreshOK
<1>3. CASE UNCHANGED vars
  BY <1>3 DEF vars, coreVars, bookVars, RefreshOK, FoundOK, Managed, Current, Public, Is, Code
<1>4. ASSUME NEW p \in Path, Elsewhere(p) PROVE RefreshOK'
  BY <1>4 DEF Elsewhere, coreVars, bookVars, RefreshOK
<1> QED
  BY <1>0, <1>1, <1>2, <1>3, <1>4, ServeFound, DisturbFound, RetryFound, HandlerFound
  DEF Next, Step

LEMMA RefreshInvariant == Spec => [](KInv /\ RefreshOK)
<1>1. Init => RefreshOK
  BY DEF Init, RefreshOK
<1> QED
  BY <1>1, NextFound, OwnershipInvariant, PTL DEF Spec

(* A plan is made on the public keys as they are on the server, unless     *)
(* somebody else writes to it: whatever was lost or refused before, and    *)
(* whatever else runs in the refresh.                                      *)
THEOREM PlansAreCurrent == Spec => PlansOnCurrentKeys
<1> DEFINE A == PlanKeys /\ ~env.others =>
                  \A r \in PublicKeys : Managed(r) =>
                    LET o == state[r].object IN
                      /\ store[o.path] # NoKey
                      /\ store[o.path].type = "public"
                      /\ store[o.path].material = o.material
<1>1. ASSUME KInv, RefreshOK, [Next]_vars PROVE [A]_vars
  BY <1>1, KeyAssumption DEF PlanKeys, Plan, AllIdle, RefreshOK, FoundOK, Current
<1> QED
  BY <1>1, RefreshInvariant, PTL DEF Spec, PlansOnCurrentKeys

----------------------------------------------------------------------------
(* A resource that has no delete of it planned manages the key r owns: it  *)
(* has adopted that key, and may have rewritten it.                        *)
Rival(r) == \E s \in Resource \ {r} :
  Managed(s) /\ state[s].object.path = Owned(r) /\ call[s].rpc \in {"none", "update"}

Silent  == Undisturbed /\ env.faults = {}
Settled == phase # "refresh" /\ outcome = "ok"
Answered(r) == call[r].reply # NoReply

(* What is recorded of a public key, or has just been read to be recorded, *)
(* is what the server holds.                                               *)
ReadOK(r) ==
  Owned(r) # NoPath =>
    \/ Rival(r)
    \/ /\ Managed(r) /\ call[r].rpc = "none" =>
            state[r].object.material = store[Owned(r)].material
       /\ call[r].pc = "ReadMaterial" /\ Answered(r) =>
            /\ Code(r) # "404"
            /\ Code(r) = "200" => call[r].reply.material = store[Owned(r)].material

(* A private key that is still one holds what its owner has written last;  *)
(* it is never read, and nothing is refused that would be tried again.     *)
SecretOK(r) ==
  /\ Owned(r) # NoPath /\ store[Owned(r)].type = "private" =>
       store[Owned(r)].material =
         IF call[r].pc = "Create" \/ (call[r].pc = "Update" /\ Answered(r))
           THEN call[r].data.material ELSE state[r].object.material
  /\ call[r].pc = "Exists" => call[r].data.material = state[r].object.material
  /\ call[r].pc \notin {"ReadMetadata", "ReadMaterial"}
  /\ Answered(r) => Code(r) \in {"200", "403", "404", "409"}

(* A refresh that keeps a private key has seen that it is one.             *)
SeenOK(r) ==
  Managed(r) =>
    LET k == store[state[r].object.path]
    IN /\ call[r] = Idle => k.type = "private"
       /\ call[r].pc = "Exists" /\ Answered(r) /\ Is(r, "private") => k.type = "private"

(* Outside the refresh only a rival makes it a public one. *)
SecureOK(r) == Owned(r) # NoPath => Rival(r) \/ store[Owned(r)].type = "private"

PrivateOK(r) ==
  /\ SecretOK(r)
  /\ phase = "refresh" /\ outcome = "ok" => SeenOK(r)
  /\ Settled => SecureOK(r)

ContentOK ==
  /\ Undisturbed /\ Settled => \A r \in PublicKeys : ReadOK(r)
  /\ Silent => \A r \in PrivateKeys : PrivateOK(r)

(* The path of an owned key is that of the object and of the handler.      *)
LEMMA OwnedKey ==
  ASSUME KInv, Undisturbed, NEW r \in Resource, Owned(r) # NoPath
  PROVE  /\ Owned(r) \in Path /\ store[Owned(r)] \in Key /\ store[Owned(r)].by = r
         /\ store[Owned(r)] # NoKey
         /\ r \in PublicKeys => store[Owned(r)].type = "public"
         /\ Managed(r) => state[r].object.path = Owned(r)
         /\ call[r] # Idle => call[r].data.path = Owned(r)
<1>1. /\ IInv /\ RpcOK(r) /\ MadeOK(r) /\ HandlerOK(r) /\ HoldsOK(r) /\ MakerOK
      /\ store \in [Path -> Key \cup {NoKey}]
  BY DEF KInv, RowsOK, OwnedOK, IInv, TypeOK
<1>2. Owned(r) \in Path
  BY <1>1, OwnedPath
<1>3. Managed(r) => Owned(r) = made[r]
  BY <1>1 DEF Owned, Served, HandlerOK
<1>4. Managed(r) => state[r].object.path = Owned(r)
  BY <1>1, <1>3 DEF MadeOK, MadeBy
<1>5. call[r] # Idle => call[r].data.path = Owned(r)
  <2>1. CASE call[r].rpc \notin {"none", "create"}
    BY <1>1, <1>4, <2>1 DEF RpcOK
  <2>2. CASE call[r].rpc = "create" /\ call[r].pc # "Create"
    <3>1. ~Managed(r) /\ made[r] = MadeBy(r, call[r].data)
      BY <1>1, <2>2 DEF HandlerOK, MadeOK, Reading
    <3>2. Owned(r) = made[r]
      BY <1>1, <2>2 DEF Owned, Served, RpcOK
    <3> QED
      BY <3>1, <3>2 DEF MadeBy
  <2>3. CASE call[r].pc = "Create"
    <3>1. made[r] = NoPath
      BY <1>1, <2>3, MadePath DEF KInv
    <3> QED
      BY <2>3, <3>1 DEF Owned, Served
  <2> QED
    BY <1>1, <2>1, <2>2, <2>3 DEF RpcOK
<1> QED
  BY <1>1, <1>2, <1>4, <1>5 DEF HoldsOK, MakerOK

(* What others do to a key that is owned, they do as its rivals.           *)
LEMMA OthersWrite ==
  ASSUME KInv, Undisturbed, NEW r \in Resource, NEW q \in Resource, q # r,
         Owned(r) # NoPath, Serve(q)
  PROVE  \/ store'[Owned(r)] = store[Owned(r)]
         \/ Rival(r) /\ store'[Owned(r)].type = "public"
<1> DEFINE p == Owned(r)
           d == call[q].data.path
<1>0. /\ IInv /\ RowsOK /\ RpcOK(q) /\ MadeOK(q) /\ HoldsOK(q) /\ Waiting(q)
      /\ store' = Applied(q) /\ call[q].reply = NoReply
      /\ DOMAIN store = Path /\ d \in Path /\ call[q] # Idle
  BY WaitingData DEF KInv, OwnedOK, RowsOK, Serve, Waiting, IInv, TypeOK
<1>1. /\ p \in Path /\ store[p] # NoKey /\ store[p].by = r
  BY OwnedKey
<1>2. Owned(q) # p
  BY <1>0, <1>1 DEF HoldsOK
<1>3. CASE d # p \/ call[q].pc \notin {"Update", "Delete"}
  BY <1>0, <1>1, <1>3 DEF Applied
<1>4. CASE call[q].pc = "Delete" /\ d = p
  BY <1>0, <1>2, <1>4, MadePath, OwnedMade
<1>5. CASE call[q].pc = "Update" /\ d = p
  <2>1. call[q].rpc = "update" /\ Managed(q) /\ state[q].object.path = p
    BY <1>0, <1>5 DEF RpcOK
  <2>2. q \in PublicKeys
    <3>1. q \in PrivateKeys => made[q] = p
      BY <1>0, <2>1 DEF MadeOK, MadeBy
    <3> QED
      BY <1>0, <1>2, <3>1, OwnedMade DEF PrivateKeys
  <2>3. store'[p].type = "public"
    BY <1>0, <1>1, <1>5, <2>2 DEF Applied
  <2> QED
    BY <2>1, <2>3 DEF Rival
<1> QED
  BY <1>3, <1>4, <1>5

LEMMA UpdateKeeps ==
  ASSUME IInv, RowsOK, NEW r \in Resource, Handler(r), ~Killed(r), call[r].rpc = "update"
  PROVE  /\ Managed(r)' /\ state'[r].object.path = state[r].object.path
         /\ call'[r].rpc \in {"none", "update"}
<1>0. /\ call[r] # Idle /\ call[r].data \in Object /\ Managed(r)
      /\ call[r].data.path = state[r].object.path
      /\ DOMAIN call = Resource /\ DOMAIN state = Resource
      /\ call[r].pc \notin {"Exists", "Create", "Delete", "Forget"}
  BY HandlerBusy DEF RowsOK, RpcOK, IInv, TypeOK, HandlerOK
<1>1. CASE \E object \in Object : /\ \E err : Updated(r, object, err)
                                  /\ object.path = call[r].data.path
  BY <1>0, <1>1, KeyAssumption DEF Updated, Record, Return, Managed, Idle, At
<1>2. CASE \E pc, data : Send(r, pc, data) /\ UNCHANGED bookVars
  BY <1>0, <1>2 DEF Send, bookVars, Managed, At
<1>3. CASE UpdatePrivateKey(r) \/ UpdatePublicKey(r)
  BY <1>0, <1>1, <1>2, <1>3
  DEF UpdatePrivateKey, UpdatePublicKey, Killed, Deadly, Heard
<1>4. CASE ReadPublicKeyMetadata(r)
  BY <1>0, <1>1, <1>2, <1>4 DEF ReadPublicKeyMetadata, ReadReturns, Killed, Deadly, Heard
<1>5. CASE ReadPublicKeyMaterial(r)
  <2> DEFINE read == [call[r].data EXCEPT !.material = call[r].reply.material]
             err  == Err(r, "StorageKeyGetMaterial")
             object == IF err THEN call[r].data ELSE read
  <2>1. object \in Object /\ object.path = call[r].data.path
    BY <1>0, <1>5, HeardData DEF ReadPublicKeyMaterial, PCs, Object, Reply
  <2>2. Updated(r, object, err)
    BY <1>0, <1>5 DEF ReadPublicKeyMaterial, ReadReturns
  <2> QED
    BY <1>1, <2>1, <2>2
<1> QED
  BY <1>0, <1>3, <1>4, <1>5 DEF Handler, PrivateKeyExists, PublicKeyExists,
     CreatePrivateKey, CreatePublicKey, DeleteKey, ForgetPublicKey, Heard

(* A rival stays one until the run is over. *)
LEMMA RivalStays ==
  ASSUME IInv, RowsOK, NEW r \in Resource, Rival(r), Owned(r)' = Owned(r),
         NEW q \in Resource, \/ Serve(q) \/ Disturb(q) \/ Retry(q)
                             \/ Handler(q) /\ ~Killed(q)
  PROVE  Rival(r)'
<1>1. PICK s \in Resource \ {r} :
        Managed(s) /\ state[s].object.path = Owned(r) /\ call[s].rpc \in {"none", "update"}
  BY DEF Rival
<1>2. CASE Serve(q) \/ Disturb(q)
  <2>1. UNCHANGED state /\ call'[s].rpc = call[s].rpc
    <3>1. PICK reply : call' = [call EXCEPT ![q].reply = reply]
      BY <1>2 DEF Serve, Disturb, Reached
    <3>2. UNCHANGED state
      BY <1>2 DEF Serve, Disturb, bookVars
    <3>3. s \in Resource /\ call[s] \in Calls /\ DOMAIN call = Resource
      BY <1>1 DEF IInv, TypeOK
    <3> QED
      BY <3>1, <3>2, <3>3 DEF Calls
  <2> QED
    BY <1>1, <2>1 DEF Rival, Managed
<1>3. CASE Retry(q)
  <2>1. UNCHANGED state /\ call'[s].rpc = call[s].rpc
    <3>1. PICK tries : call' = [call EXCEPT ![q].reply = NoReply, ![q].tries = tries]
      BY <1>3 DEF Retry, Resend
    <3> QED
      BY <1>1, <1>3, <3>1 DEF Retry, Resend, bookVars, IInv, TypeOK, Calls
  <2> QED
    BY <1>1, <2>1 DEF Rival, Managed
<1>4. CASE Handler(q) /\ ~Killed(q)
  <2>1. CASE q = s
    <3>1. call[s].rpc = "update"
      BY <1>1, <1>4, <2>1, HandlerBusy DEF RowsOK, RpcOK
    <3> QED
      BY <1>1, <1>4, <2>1, <3>1, UpdateKeeps DEF Rival
  <2>2. CASE q # s
    BY <1>1, <1>4, <2>2, HandlerFrame DEF Only, Rival, Managed
  <2> QED
    BY <2>1, <2>2
<1> QED
  BY <1>2, <1>3, <1>4

LEMMA HandlerOutcome ==
  ASSUME NEW r \in Resource, Handler(r), ~Killed(r), outcome' = "ok"
  PROVE  outcome = "ok"
<1> USE DEF Killed, Deadly, Heard, Refreshed, RefreshFailed, Note, bookVars
<1>1. CASE PrivateKeyExists(r) \/ PublicKeyExists(r)
  BY <1>1 DEF PrivateKeyExists, PublicKeyExists
<1>2. CASE ReadPublicKeyMetadata(r) \/ ReadPublicKeyMaterial(r)
  BY <1>2 DEF ReadPublicKeyMetadata, ReadPublicKeyMaterial, ReadReturns, Created, Updated
<1>3. CASE CreatePrivateKey(r) \/ CreatePublicKey(r)
  BY <1>3 DEF CreatePrivateKey, CreatePublicKey, Created
<1>4. CASE UpdatePrivateKey(r) \/ UpdatePublicKey(r)
  BY <1>4 DEF UpdatePrivateKey, UpdatePublicKey, Updated
<1>5. CASE DeleteKey(r) \/ ForgetPublicKey(r)
  BY <1>5 DEF DeleteKey, ForgetPublicKey, Deleted, DeleteFailed
<1> QED
  BY <1>1, <1>2, <1>3, <1>4, <1>5 DEF Handler

(* An answer touches nothing of the other rows, and only the reply of its  *)
(* own.                                                                    *)
LEMMA AnswerFrame ==
  ASSUME IInv, NEW q \in Resource, Serve(q) \/ Disturb(q) \/ Retry(q)
  PROVE  /\ UNCHANGED <<env, state, phase, outcome, made>>
         /\ \A s \in Resource \ {q} : call'[s] = call[s]
         /\ call'[q].rpc = call[q].rpc /\ call'[q].pc = call[q].pc
         /\ call'[q].data = call[q].data
         /\ call[q] # Idle /\ call'[q] # Idle
<1>1. PICK reply, tries :
        \/ call' = [call EXCEPT ![q].reply = reply]
        \/ call' = [call EXCEPT ![q].reply = reply, ![q].tries = tries]
  BY DEF Serve, Disturb, Retry, Reached, Resend
<1>2. call[q] \in Calls /\ DOMAIN call = Resource
  BY DEF IInv, TypeOK
<1>3. UNCHANGED <<env, state, phase, outcome, made>>
  BY DEF Serve, Disturb, Retry, Resend, bookVars
<1>4. /\ \A s \in Resource \ {q} : call'[s] = call[s]
      /\ call'[q].rpc = call[q].rpc /\ call'[q].pc = call[q].pc
      /\ call'[q].data = call[q].data
  BY <1>1, <1>2 DEF Calls
<1>5. call[q].pc # "idle"
  BY DEF Serve, Disturb, Retry, Resend, Waiting, CanRetry, Quiet, IInv, HandlerOK, Idle, At
<1> QED
  BY <1>3, <1>4, <1>5 DEF Idle, At

(* The key of a public resource: its record is what was read.              *)
LEMMA AnswerRead ==
  ASSUME KInv, Undisturbed, NEW r \in PublicKeys, ReadOK(r),
         NEW q \in Resource, Serve(q) \/ Disturb(q) \/ Retry(q)
  PROVE  ReadOK(r)'
<1> SUFFICES ASSUME Owned(r)' # NoPath, ~Rival(r)'
             PROVE  /\ Managed(r)' /\ call'[r].rpc = "none" =>
                         state'[r].object.material = store'[Owned(r)'].material
                    /\ call'[r].pc = "ReadMaterial" /\ Answered(r)' =>
                         /\ Code(r)' # "404"
                         /\ Code(r)' = "200" =>
                              call'[r].reply.material = store'[Owned(r)'].material
  BY DEF ReadOK
<1>0. IInv /\ RowsOK /\ r \in Resource /\ RpcOK(r) /\ AnswerOK(r)
  BY KeyAssumption DEF KInv, RowsOK, OwnedOK
<1>1. CASE q # r
  <2>1. Owned(r)' = Owned(r)
    BY <1>0, <1>1, AnswerFrame DEF Owned, Served, Undisturbed, AnswersArrive
  <2>2. ~Rival(r)
    BY <1>0, <2>1, RivalStays
  <2>3. store'[Owned(r)] = store[Owned(r)]
    <3>1. CASE Serve(q)
      BY <1>0, <1>1, <2>1, <2>2, <3>1, OthersWrite
    <3>2. CASE Disturb(q) \/ Retry(q)
      BY <1>0, <3>2, DisturbOwned DEF Retry
    <3> QED
      BY <3>1, <3>2
  <2> QED
    BY <1>0, <1>1, <2>1, <2>2, <2>3, AnswerFrame DEF ReadOK, Managed, Answered, Code
<1>2. CASE q = r
  <2>1. call'[r].rpc # "none"
    BY <1>0, <1>2, AnswerFrame DEF RpcOK
  <2>2. ASSUME call'[r].pc = "ReadMaterial", Answered(r)'
        PROVE  /\ Code(r)' # "404"
               /\ Code(r)' = "200" => call'[r].reply.material = store'[Owned(r)'].material
    <3>1. CASE Disturb(r)
      <4>1. PICK f \in env.faults : Reached(r, Plain(f.status))
        BY <3>1 DEF Disturb
      <4>2. f.status \in Status \ {"200", "404"}
        BY <1>0, EnvironmentAssumption DEF IInv, TypeOK, Fault, Status, NetworkErrors
      <4>3. call'[r].reply = Plain(f.status)
        BY <1>0, <4>1 DEF Reached, IInv, TypeOK, Calls
      <4> QED
        BY <4>2, <4>3, PlainIsReply DEF Code
    <3>2. CASE Serve(r)
      <4> DEFINE p == call[r].data.path
      <4>1. /\ call[r].pc = "ReadMaterial" /\ call[r].reply = NoReply /\ store' = Applied(r)
            /\ call'[r].reply = Answer(r)
        BY <1>0, <1>2, <2>2, <3>2, AnswerFrame DEF Serve, Waiting, Reached, IInv, TypeOK, Calls
      <4>2. Owned(r)' = Owned(r) /\ store' = store
        BY <1>0, <1>2, <4>1, AnswerFrame DEF Owned, Served, Applied
      <4>3. p = Owned(r) /\ store[p] # NoKey /\ store[p].type = "public"
        BY <1>0, <1>2, <4>2, AnswerFrame, OwnedKey
      <4>4. Answer(r) = [Plain("200") EXCEPT !.material = store[p].material]
        BY <4>1, <4>3 DEF Answer
      <4>5. Answer(r).status = "200" /\ Answer(r).material = store[p].material
        BY <4>4 DEF Plain
      <4> QED
        BY <4>1, <4>2, <4>3, <4>5 DEF Code
    <3>3. CASE Retry(r)
      <4>1. call'[r].reply = NoReply
        BY <1>0, <3>3 DEF Retry, Resend, IInv, TypeOK, Calls
      <4> QED
        BY <1>2, <2>2, <4>1 DEF Answered
    <3> QED
      BY <1>2, <3>1, <3>2, <3>3
  <2> QED
    BY <2>1, <2>2
<1> QED
  BY <1>1, <1>2

LEMMA HandlerRead ==
  ASSUME KInv, Undisturbed, Settled', NEW r \in PublicKeys, ReadOK(r),
         NEW q \in Resource, Handler(q), ~Killed(q)
  PROVE  ReadOK(r)'
<1> SUFFICES ASSUME Owned(r)' # NoPath, ~Rival(r)'
             PROVE  /\ Managed(r)' /\ call'[r].rpc = "none" =>
                         state'[r].object.material = store'[Owned(r)'].material
                    /\ call'[r].pc = "ReadMaterial" /\ Answered(r)' =>
                         /\ Code(r)' # "404"
                         /\ Code(r)' = "200" =>
                              call'[r].reply.material = store'[Owned(r)'].material
  BY DEF ReadOK
<1>0. /\ IInv /\ RowsOK /\ r \in Resource /\ UNCHANGED store /\ Only(q) /\ phase' = phase
      /\ Owned(r)' = Owned(r) /\ ~Rival(r) /\ call'[q].reply = NoReply
      /\ DOMAIN call = Resource /\ DOMAIN state = Resource
  <2>1. IInv /\ RowsOK /\ r \in Resource
    BY KeyAssumption DEF KInv
  <2>2. Owned(r)' = Owned(r) /\ call'[q].reply = NoReply
    BY <2>1, HandlerOwns
  <2> QED
    BY <2>1, <2>2, HandlerFrame, RivalStays DEF IInv, TypeOK
<1>1. CASE q # r
  BY <1>0, <1>1 DEF Only, ReadOK, Managed, Answered, Code
<1>2. CASE q = r
  <2>1. ~Answered(r)'
    BY <1>0, <1>2 DEF Answered
  <2>2. ASSUME Managed(r)', call'[r].rpc = "none"
        PROVE  state'[r].object.material = store[Owned(r)].material
    <3>0. /\ call[r] # Idle /\ call[r].rpc # "refresh" /\ call[r].pc # "Exists"
          /\ call[r].rpc # "none" /\ call[r].data \in Object
      BY <1>0, <1>2, HandlerBusy DEF Settled, RowsOK, RpcOK, IInv, HandlerOK
    <3>1. \A object : ~Created(r, object, TRUE) /\ ~Updated(r, object, TRUE)
      BY DEF Created, Updated, Note, Settled
    <3>2. \A pc, data : ~Send(r, pc, data)
      BY <1>0, <2>2, <3>0 DEF Send, At
    <3>3. ~DeleteFailed(r)
      BY DEF DeleteFailed, Note, Settled
    <3>4. \A create : ~Deleted(r, create)
      BY <1>0, <2>2 DEF Deleted, Record, Managed
    <3>5. ReadPublicKeyMaterial(r)
      <4>1. ~PrivateKeyExists(r) /\ ~PublicKeyExists(r)
        BY <3>0 DEF PrivateKeyExists, PublicKeyExists, Heard
      <4>2. ~ReadPublicKeyMetadata(r)
        BY <1>2, <3>0, <3>1, <3>2 DEF ReadPublicKeyMetadata, ReadReturns, Killed, Deadly, Heard
      <4>3. ~CreatePrivateKey(r) /\ ~UpdatePrivateKey(r)
        BY DEF CreatePrivateKey, UpdatePrivateKey, PrivateKeys
      <4>4. ~CreatePublicKey(r) /\ ~UpdatePublicKey(r)
        BY <1>2, <3>1, <3>2 DEF CreatePublicKey, UpdatePublicKey, Killed, Deadly, Heard
      <4>5. ~DeleteKey(r) /\ ~ForgetPublicKey(r)
        BY <3>3, <3>4 DEF DeleteKey, ForgetPublicKey
      <4> QED
        BY <1>2, <4>1, <4>2, <4>3, <4>4, <4>5 DEF Handler
    <3> DEFINE read == [call[r].data EXCEPT !.material = call[r].reply.material]
    <3>6. ~Err(r, "StorageKeyGetMaterial")
      <4>1. CASE Err(r, "StorageKeyGetMaterial")
        BY <3>0, <3>1, <3>5, <4>1 DEF ReadPublicKeyMaterial, ReadReturns
      <4> QED
        BY <4>1
    <3>7. Created(r, read, FALSE) \/ Updated(r, read, FALSE)
      <4>1. Err(r, "StorageKeyGetMaterial") = FALSE
        BY <3>6 DEF Err, Failed
      <4> QED
        BY <3>0, <3>5, <4>1 DEF ReadPublicKeyMaterial, ReadReturns
    <3>8. state'[r].object.material = call[r].reply.material
      <4>1. read.material = call[r].reply.material
        BY <3>0 DEF Object
      <4> HIDE DEF read
      <4>2. PICK tainted : Record(r, read, tainted)
        BY <3>7 DEF Created, Updated
      <4> QED
        BY <1>0, <4>1, <4>2 DEF Record
    <3>9. call[r].reply.material = store[Owned(r)].material
      BY <1>0, <3>5, <3>6
      DEF ReadOK, ReadPublicKeyMaterial, Heard, Answered, Err, Failed, Accepted, Code
    <3> QED
      BY <3>8, <3>9
  <2> QED
    BY <1>0, <2>1, <2>2
<1> QED
  BY <1>1, <1>2

(* The plan starts from what the refresh has read. *)
LEMMA PlanRead ==
  ASSUME KInv, RefreshOK, Undisturbed, NEW r \in PublicKeys, PlanKeys
  PROVE  ReadOK(r)'
<1>0. /\ IInv /\ r \in Resource /\ call[r] = Idle /\ FoundOK(r)
      /\ UNCHANGED <<state, store>> /\ call'[r].reply = NoReply
      /\ Owned(r)' = Owned(r)
  BY PhaseOwned, KeyAssumption DEF KInv, PlanKeys, Plan, AllIdle, RefreshOK, Undisturbed
<1>1. Owned(r) # NoPath /\ Managed(r) => state[r].object.material = store[Owned(r)].material
  BY <1>0, OwnedKey DEF FoundOK, Current
<1> QED
  BY <1>0, <1>1 DEF ReadOK, Managed, Answered

----------------------------------------------------------------------------
(* The key of a private resource. *)

(* When nothing is refused, the server's answer is all that can come. *)
LEMMA SilentAnswer ==
  ASSUME KInv, Silent, NEW r \in PrivateKeys, SecretOK(r),
         NEW q \in Resource, Serve(q) \/ Disturb(q) \/ (Retry(q) /\ q = r)
  PROVE  /\ Serve(q) /\ r \in Resource /\ UNCHANGED <<env, state, phase, outcome, made>>
         /\ store' = Applied(q) /\ call'[q].reply = Answer(q) /\ call[q].reply = NoReply
         /\ Answer(q).status \in {"200", "403", "404", "409"} /\ call[q].pc \in PCs
<1>1. ~Disturb(q)
  BY DEF Disturb, Silent
<1>2. ~(Retry(q) /\ q = r)
  BY DEF Retry, Resend, CanRetry, MayRetry, SecretOK, Answered, Code
<1>3. Serve(q) /\ IInv
  BY <1>1, <1>2 DEF KInv
<1>4. Answer(q).status \in {"200", "403", "404", "409"}
  BY DEF Answer, Plain
<1>5. /\ store' = Applied(q) /\ call[q].reply = NoReply /\ r \in Resource
      /\ UNCHANGED <<env, state, phase, outcome, made>>
  BY <1>3 DEF Serve, Waiting, bookVars, PrivateKeys
<1>6. call'[q].reply = Answer(q) /\ call[q].pc \in PCs
  BY <1>3 DEF Serve, Reached, IInv, TypeOK, Calls
<1> QED
  BY <1>3, <1>4, <1>5, <1>6

(* What a resource owns when its request has been served. *)
LEMMA ServedOwned ==
  ASSUME KInv, Undisturbed, NEW r \in Resource, Serve(r)
  PROVE  LET p == call[r].data.path IN
         /\ p \in Path
         /\ call[r].pc = "Create" => Owned(r)' = IF store[p] = NoKey THEN p ELSE NoPath
         /\ call[r].pc = "Delete" => Owned(r)' = NoPath
         /\ call[r].pc \notin {"Create", "Delete"} => Owned(r)' = Owned(r)
<1> DEFINE p == call[r].data.path
<1>0. /\ IInv /\ RowsOK /\ p \in Path /\ UNCHANGED <<env, made>> /\ Undisturbed'
      /\ call'[r].pc = call[r].pc /\ call'[r].data = call[r].data
      /\ Owned(r) = made[r] /\ call'[r].reply = Answer(r)
      /\ Answer(r) # NoReply
  <2>1. IInv /\ RowsOK /\ Waiting(r) /\ call[r].reply = NoReply
    BY DEF KInv, Serve, Waiting
  <2>2. UNCHANGED <<env, made>> /\ Undisturbed'
    BY DEF Serve, bookVars, Undisturbed, AnswersArrive
  <2>3. call'[r].reply = Answer(r)
    BY <2>1 DEF Serve, Reached, IInv, TypeOK, Calls
  <2> QED
    BY <2>1, <2>2, <2>3, AnswerFrame, WaitingData, OwnedMade, AnswerReply, KeyAssumption
<1>1. CASE call[r].pc = "Create"
  <2>1. made[r] = NoPath
    BY <1>0, <1>1, MadePath
  <2>2. Answer(r) = Plain(IF store[p] = NoKey THEN "200" ELSE "409")
    BY <1>1 DEF Answer
  <2>3. Answer(r).status = IF store[p] = NoKey THEN "200" ELSE "409"
    BY <2>2 DEF Plain
  <2> QED
    BY <1>0, <1>1, <2>1, <2>3 DEF Owned, Served
<1>2. CASE call[r].pc = "Delete"
  <2>1. made[r] = p /\ p # NoPath
    BY <1>0, <1>2, MadePath, KeyAssumption
  <2>2. store[p] # NoKey
    BY <1>0, <2>1, OwnedKey
  <2>3. Answer(r) = Plain("200")
    BY <1>2, <2>2 DEF Answer
  <2>4. Answer(r).status = "200"
    BY <2>3 DEF Plain
  <2> QED
    BY <1>0, <1>2, <2>4 DEF Owned, Served
<1>3. CASE call[r].pc \notin {"Create", "Delete"}
  BY <1>0, <1>3 DEF Owned, Served
<1> QED
  BY <1>0, <1>1, <1>2, <1>3

LEMMA ServeSecret ==
  ASSUME KInv, Silent, NEW r \in PrivateKeys, SecretOK(r), NEW q \in Resource, Serve(q)
  PROVE  SecretOK(r)'
<1>0. /\ IInv /\ RowsOK /\ r \in Resource /\ RpcOK(r) /\ HandlerOK(r)
      /\ UNCHANGED <<state, made, env>> /\ store' = Applied(q) /\ Undisturbed
      /\ call'[q].reply = Answer(q) /\ call[q].reply = NoReply
      /\ Answer(q).status \in {"200", "403", "404", "409"} /\ call[q].pc \in PCs
  BY SilentAnswer DEF KInv, RowsOK, IInv, Silent
<1>1. CASE q # r
  <2>1. Owned(r)' = Owned(r) /\ UNCHANGED call[r]
    BY <1>0, <1>1, AnswerFrame DEF Owned, Served, Undisturbed, AnswersArrive
  <2>2. Owned(r) = NoPath \/ store'[Owned(r)] = store[Owned(r)]
          \/ store'[Owned(r)].type = "public"
    BY <1>0, <1>1, OthersWrite
  <2> QED
    BY <1>0, <2>1, <2>2 DEF SecretOK, Answered, Code
<1>2. CASE q = r
  <2> DEFINE p == call[r].data.path
  <2>1. /\ call'[r].pc = call[r].pc /\ call'[r].data = call[r].data
        /\ call'[r].reply = Answer(r) /\ Answered(r)' /\ call[r] # Idle
        /\ DOMAIN store = Path /\ p \in Path
    BY <1>0, <1>2, AnswerFrame, ServedOwned, SilentAnswer, AnswerReply, KeyAssumption
    DEF Answered, Serve, IInv, TypeOK
  <2>2. CASE call[r].pc = "Create"
    <3>1. CASE store[p] = NoKey
      <4>1. store'[p].material = call[r].data.material
        BY <1>0, <1>2, <2>1, <2>2, <3>1 DEF Applied
      <4> QED
        BY <1>0, <1>2, <2>1, <2>2, <3>1, <4>1, ServedOwned DEF SecretOK, Code
    <3>2. CASE store[p] # NoKey
      BY <1>0, <1>2, <2>1, <2>2, <3>2, ServedOwned DEF SecretOK, Code
    <3> QED
      BY <3>1, <3>2
  <2>3. CASE call[r].pc = "Delete"
    BY <1>0, <1>2, <2>1, <2>3, ServedOwned DEF SecretOK, Code
  <2>4. CASE call[r].pc \notin {"Create", "Delete"}
    <3>1. Owned(r)' = Owned(r)
      BY <1>0, <1>2, <2>4, ServedOwned
    <3>2. Owned(r) # NoPath => Owned(r) = p /\ store[p] # NoKey
      BY <1>0, <2>1, OwnedKey
    <3>3. CASE call[r].pc = "Update"
      <4>1. Owned(r) # NoPath => store'[p].material = call[r].data.material
        BY <1>0, <1>2, <2>1, <3>2, <3>3 DEF Applied
      <4> QED
        BY <1>0, <1>2, <2>1, <3>1, <3>2, <3>3, <4>1 DEF SecretOK, Code
    <3>4. CASE call[r].pc # "Update"
      <4>1. store' = store
        BY <1>0, <1>2, <2>4, <3>4 DEF Applied
      <4> QED
        BY <1>0, <1>2, <2>1, <2>4, <3>1, <3>4, <4>1 DEF SecretOK, Code
    <3> QED
      BY <3>3, <3>4
  <2> QED
    BY <2>2, <2>3, <2>4
<1> QED
  BY <1>1, <1>2

LEMMA HandlerSecret ==
  ASSUME KInv, Silent, NEW r \in PrivateKeys, SecretOK(r),
         NEW q \in Resource, Handler(q), ~Killed(q)
  PROVE  SecretOK(r)'
<1>0. /\ IInv /\ RowsOK /\ r \in Resource /\ r \notin PublicKeys
      /\ UNCHANGED <<env, store, config>> /\ Only(q)
      /\ call'[q].reply = NoReply /\ Owned(q)' \in {Owned(q), NoPath}
      /\ \A s \in Resource \ {q} : Owned(s)' = Owned(s)
      /\ DOMAIN call = Resource /\ DOMAIN state = Resource
  BY HandlerOwns, HandlerFrame DEF KInv, PrivateKeys, IInv, TypeOK
<1>1. CASE q # r
  BY <1>0, <1>1 DEF Only, SecretOK, Answered, Code
<1>2. CASE q = r
  <2>0. ~Answered(r)' /\ call[r] # Idle /\ call[r].data \in Object /\ RpcOK(r)
    BY <1>0, <1>2, HandlerBusy DEF Answered, RowsOK, IInv, HandlerOK
  <2>1. ASSUME call'[r] = Idle,
               Owned(r)' # NoPath /\ store[Owned(r)].type = "private" =>
                 store[Owned(r)].material = state'[r].object.material
        PROVE  SecretOK(r)'
    BY <1>0, <1>2, <2>0, <2>1 DEF SecretOK, Idle, At
  <2>2. CASE Owned(r)' = NoPath /\ (call'[r] = Idle \/ call'[r].pc = "Create")
    BY <2>0, <2>2 DEF SecretOK, Idle, At
  <2>3. CASE PrivateKeyExists(r)
    <3>1. call[r].pc = "Exists" /\ call'[r] = Idle
      BY <1>0, <1>2, <2>3 DEF PrivateKeyExists, Heard, Refreshed, Return, Killed, Deadly
    <3>2. CASE Refreshed(r, call[r].data)
      BY <1>0, <2>1, <3>1, <3>2 DEF SecretOK, Refreshed, Record
    <3>3. CASE Makes(r, NoPath)
      <4>1. Owned(r)' = NoPath
        BY <1>0, <1>2, <3>3, HandlerOwns DEF Makes, IInv, TypeOK
      <4> QED
        BY <2>2, <3>1, <4>1
    <3> QED
      BY <1>2, <2>3, <3>2, <3>3 DEF PrivateKeyExists, Heard, Killed, Deadly
  <2>4. CASE CreatePrivateKey(r)
    <3>1. call[r].pc = "Create" /\ call'[r] = Idle
      BY <1>0, <1>2, <2>4 DEF CreatePrivateKey, Heard, Created, Return, Killed, Deadly
    <3>2. CASE Created(r, call[r].data, FALSE)
      <4>1. state'[r].object = call[r].data
        BY <1>0, <3>2 DEF Created, Record
      <4> QED
        BY <1>0, <1>2, <2>1, <3>1, <4>1 DEF SecretOK
    <3>3. CASE UNCHANGED made
      <4>1. Owned(r)' = NoPath
        BY <1>0, <1>2, <3>1, <3>3, HandlerOwns, MadePath
      <4> QED
        BY <2>2, <3>1, <4>1
    <3> QED
      BY <1>2, <2>4, <3>2, <3>3 DEF CreatePrivateKey, Heard, Killed, Deadly
  <2>5. CASE UpdatePrivateKey(r)
    <3>1. call[r].pc = "Update" /\ Answered(r)
      BY <2>5 DEF UpdatePrivateKey, Heard, Answered
    <3>2. PICK err : Updated(r, call[r].data, err)
      BY <1>2, <2>5 DEF UpdatePrivateKey, Heard, Killed, Deadly
    <3>3. state'[r].object = call[r].data /\ call'[r] = Idle
      BY <1>0, <3>2 DEF Updated, Record, Return
    <3> QED
      BY <1>0, <1>2, <2>1, <3>1, <3>3 DEF SecretOK
  <2>6. CASE DeleteKey(r)
    <3>1. call[r].pc = "Delete"
      BY <2>6 DEF DeleteKey, Heard
    <3>2. CASE DeleteFailed(r)
      <4>1. state'[r].object = state[r].object /\ call'[r] = Idle
        BY <1>0, <3>2 DEF DeleteFailed, Record, Return
      <4> QED
        BY <1>0, <1>2, <2>1, <3>1, <4>1 DEF SecretOK
    <3>3. CASE Deleted(r, CallCreate(r)) /\ Makes(r, NoPath)
      <4>1. Owned(r)' = NoPath
        BY <1>0, <1>2, <3>3, HandlerOwns DEF Makes, IInv, TypeOK
      <4>2. CASE call[r].rpc # "replace"
        <5>1. call'[r] = Idle
          BY <1>0, <3>3, <4>2 DEF Deleted
        <5> QED
          BY <2>2, <4>1, <5>1
      <4>3. CASE call[r].rpc = "replace"
        <5>1. config[r] # NoBlock
          BY <1>0, <4>3 DEF IInv, HandlerOK
        <5>2. config[r].material # NoMaterial
          BY <1>0, <5>1, KeyAssumption DEF IInv, TypeOK, PrivateBlock
        <5>3. call'[r].pc = "Create"
          BY <1>0, <3>3, <4>3, <5>2 DEF Deleted, CallCreate, At
        <5> QED
          BY <2>2, <4>1, <5>3
      <4> QED
        BY <4>2, <4>3
    <3> QED
      BY <2>6, <3>2, <3>3 DEF DeleteKey
  <2>7. ~PublicKeyExists(r) /\ ~CreatePublicKey(r) /\ ~UpdatePublicKey(r)
    BY <1>0 DEF PublicKeyExists, CreatePublicKey, UpdatePublicKey
  <2>8. ~ReadPublicKeyMetadata(r) /\ ~ReadPublicKeyMaterial(r) /\ ~ForgetPublicKey(r)
    BY <1>0, <2>0 DEF SecretOK, RpcOK, ReadPublicKeyMetadata, ReadPublicKeyMaterial,
       ForgetPublicKey, Heard
  <2> QED
    BY <1>2, <2>3, <2>4, <2>5, <2>6, <2>7, <2>8 DEF Handler
<1> QED
  BY <1>1, <1>2

LEMMA PlanSecret ==
  ASSUME KInv, Silent, NEW r \in PrivateKeys, SecretOK(r), Start \/ PlanKeys
  PROVE  SecretOK(r)'
<1>0. /\ IInv /\ RowsOK /\ r \in Resource /\ call[r] = Idle
      /\ UNCHANGED <<state, store, made, config>> /\ call'[r].reply = NoReply
      /\ Owned(r)' = Owned(r) /\ Owned(r) = made[r]
  <2>1. IInv /\ r \in Resource /\ call[r] = Idle
    BY DEF KInv, PrivateKeys, Start, StartRun, PlanKeys, Plan, AllIdle, IInv, HandlerOK
  <2>2. UNCHANGED <<state, store, made, config>>
    BY DEF Start, StartRun, PlanKeys, Plan
  <2> QED
    BY <2>1, <2>2, PhaseOwned, OwnedMade DEF KInv, Idle, At
<1>1. ASSUME Managed(r) \/ made[r] = NoPath,
             call'[r].pc \notin {"ReadMetadata", "ReadMaterial"},
             call'[r].pc = "Create" => made[r] = NoPath,
             call'[r].pc = "Exists" => call'[r].data = state[r].object
      PROVE  SecretOK(r)'
  BY <1>0, <1>1 DEF SecretOK, Answered, Idle, At
<1>2. made[r] = NoPath \/ Managed(r)
  BY <1>0 DEF RowsOK, MadeOK, Reading, Idle, At
<1>3. CASE Start
  <2>1. call'[r] = IF Managed(r) THEN At("refresh", "Exists", state[r].object) ELSE Idle
    BY <1>0, <1>3 DEF Start, StartRun
  <2> QED
    BY <1>1, <1>2, <2>1 DEF Idle, At
<1>4. CASE PlanKeys
  <2>1. call'[r] = PlanKey(r)
    BY <1>0, <1>4 DEF PlanKeys, Plan
  <2>2. CASE PlanKey(r) = CallCreate(r) /\ config[r] # NoBlock /\ ~Managed(r)
    <3>1. config[r].material # NoMaterial
      BY <1>0, <2>2, KeyAssumption DEF IInv, TypeOK, PrivateBlock
    <3>2. call'[r].pc = "Create"
      BY <2>1, <2>2, <3>1 DEF CallCreate, At
    <3> QED
      BY <1>1, <1>2, <2>2, <3>2
  <2>3. CASE \/ PlanKey(r) = CallUpdate(r) \/ PlanKey(r) = Idle
             \/ \E rpc \in {"delete", "replace"} : PlanKey(r) = CallDelete(r, rpc)
    <3>1. call'[r].pc \in {"Update", "Delete", "Forget", "idle"}
      BY <2>1, <2>3 DEF CallUpdate, CallDelete, Idle, At
    <3> QED
      BY <1>1, <1>2, <3>1
  <2> QED
    BY <1>0, <2>2, <2>3, PlannedCall
<1> QED
  BY <1>3, <1>4

(* The refresh of a private key sees what kind of key there is. *)
LEMMA AnswerSeen ==
  ASSUME KInv, Silent, NEW r \in PrivateKeys, SecretOK(r),
         phase = "refresh" /\ outcome = "ok" => SeenOK(r),
         NEW q \in Resource, Serve(q), phase' = "refresh", outcome' = "ok"
  PROVE  SeenOK(r)'
<1>0. /\ IInv /\ RowsOK /\ r \in Resource /\ RpcOK(r) /\ SeenOK(r)
      /\ UNCHANGED <<state, phase, store>> /\ call'[q].reply = Answer(q)
  BY SilentAnswer, RefreshReads DEF KInv, RowsOK, Serve
<1>1. CASE q # r
  BY <1>0, <1>1, AnswerFrame DEF SeenOK, Managed, Answered, Is, Code
<1>2. CASE q = r
  <2>1. /\ call'[r].pc = call[r].pc /\ call[r] # Idle /\ call'[r] # Idle
        /\ call'[r].reply = Answer(r)
    BY <1>0, <1>2, AnswerFrame
  <2>2. call[r].pc = "Exists" => call[r].data.path = state[r].object.path
    BY <1>0 DEF RpcOK
  <2>3. call[r].pc = "Exists" /\ Answer(r).status = "200" =>
          Answer(r).type = store[call[r].data.path].type
    BY DEF Answer, Plain
  <2> QED
    BY <1>0, <2>1, <2>2, <2>3 DEF SeenOK, Managed, Answered, Is, Code
<1> QED
  BY <1>1, <1>2

LEMMA HandlerSeen ==
  ASSUME KInv, Silent, NEW r \in PrivateKeys, SecretOK(r),
         phase = "refresh" /\ outcome = "ok" => SeenOK(r),
         NEW q \in Resource, Handler(q), ~Killed(q), phase' = "refresh", outcome' = "ok"
  PROVE  SeenOK(r)'
<1>0. /\ IInv /\ RowsOK /\ r \in Resource /\ RpcOK(r) /\ SeenOK(r) /\ phase = "refresh"
      /\ UNCHANGED store /\ Only(q) /\ r \notin PublicKeys
      /\ DOMAIN call = Resource /\ DOMAIN state = Resource
  BY HandlerFrame, HandlerOutcome DEF KInv, PrivateKeys, RowsOK, IInv, TypeOK
<1>1. CASE q # r
  BY <1>0, <1>1 DEF Only, SeenOK, Managed, Answered, Is, Code
<1>2. CASE q = r
  <2>1. call[r] # Idle /\ call[r].rpc = "refresh" /\ call[r].data.path = state[r].object.path
        /\ Managed(r)
    BY <1>0, <1>2, HandlerBusy DEF RpcOK
  <2>2. PrivateKeyExists(r)
    <3>1. call[r].pc \notin {"ReadMetadata", "ReadMaterial"}
      BY DEF SecretOK
    <3>2. call[r].pc \notin {"Create", "Update", "Delete", "Forget"}
      BY <1>0, <2>1 DEF RpcOK, IInv, HandlerOK
    <3> QED
      BY <1>0, <1>2, <3>1, <3>2 DEF Handler, PublicKeyExists,
         ReadPublicKeyMetadata, ReadPublicKeyMaterial, CreatePrivateKey, CreatePublicKey,
         UpdatePrivateKey, UpdatePublicKey, DeleteKey, ForgetPublicKey, Heard
  <2>3. CASE Refreshed(r, NoObject)
    BY <1>0, <2>3 DEF Refreshed, Record, SeenOK, Managed
  <2>4. CASE Is(r, "private") /\ Refreshed(r, call[r].data)
    <3>1. state'[r].object = call[r].data /\ call'[r] = Idle
      BY <1>0, <2>4 DEF Refreshed, Record, Return
    <3>2. store[state[r].object.path].type = "private"
      BY <1>0, <2>1, <2>2, <2>4 DEF SeenOK, PrivateKeyExists, Heard, Answered
    <3> QED
      BY <1>0, <2>1, <3>1, <3>2 DEF SeenOK, Idle, At
  <2> QED
    BY <1>2, <2>2, <2>3, <2>4 DEF PrivateKeyExists, Heard, Killed, Deadly
<1> QED
  BY <1>1, <1>2

(* Outside the refresh, what r owns stays private unless a rival writes.   *)
LEMMA ServeSecure ==
  ASSUME KInv, Silent, NEW r \in PrivateKeys, SecretOK(r), SecureOK(r),
         NEW q \in Resource, Serve(q)
  PROVE  SecureOK(r)'
<1> SUFFICES ASSUME Owned(r)' # NoPath, ~Rival(r)'
             PROVE  store'[Owned(r)'].type = "private"
  BY DEF SecureOK
<1>0. /\ IInv /\ RowsOK /\ r \in Resource /\ Undisturbed /\ r \notin PublicKeys
      /\ UNCHANGED <<env, state, made>> /\ store' = Applied(q) /\ call[q].pc \in PCs
  BY SilentAnswer DEF KInv, Silent, PrivateKeys
<1>1. CASE Owned(r)' = Owned(r)
  <2>1. ~Rival(r) /\ store[Owned(r)].type = "private"
    BY <1>0, <1>1, RivalStays DEF SecureOK
  <2>2. CASE q # r
    BY <1>0, <1>1, <2>1, <2>2, OthersWrite
  <2>3. CASE q = r
    <3> DEFINE p == call[r].data.path
    <3>1. call[r] # Idle /\ p = Owned(r) /\ store[p] # NoKey /\ p \in Path
          /\ DOMAIN store = Path
      BY <1>0, <1>1, <2>3, AnswerFrame, OwnedKey DEF IInv, TypeOK
    <3>2. call[r].pc # "Delete"
      BY <1>0, <2>3, ServedOwned
    <3> QED
      BY <1>0, <1>1, <2>1, <2>3, <3>1, <3>2 DEF Applied
  <2> QED
    BY <2>2, <2>3
<1>2. CASE Owned(r)' # Owned(r)
  <2> DEFINE p == call[r].data.path
  <2>1. q = r
    BY <1>0, <1>2, AnswerFrame DEF Owned, Served, Undisturbed, AnswersArrive
  <2>2. call[r].pc = "Create" /\ store[p] = NoKey /\ Owned(r)' = p /\ p \in Path
    BY <1>0, <1>2, <2>1, ServedOwned
  <2>3. store'[p].type = "private"
    BY <1>0, <2>1, <2>2 DEF Applied, KindOf, IInv, TypeOK
  <2> QED
    BY <2>2, <2>3
<1> QED
  BY <1>1, <1>2

LEMMA HandlerSecure ==
  ASSUME KInv, NEW r \in PrivateKeys, SecureOK(r), NEW q \in Resource, Handler(q), ~Killed(q)
  PROVE  SecureOK(r)'
<1>0. /\ IInv /\ RowsOK /\ r \in Resource /\ UNCHANGED store
      /\ Owned(r)' \in {Owned(r), NoPath}
  BY HandlerOwns, HandlerFrame DEF KInv, PrivateKeys
<1> QED
  BY <1>0, RivalStays DEF SecureOK

LEMMA PlanSecure ==
  ASSUME KInv, Undisturbed, NEW r \in PrivateKeys, SeenOK(r), PlanKeys
  PROVE  SecureOK(r)'
<1>0. /\ IInv /\ RowsOK /\ r \in Resource /\ call[r] = Idle /\ UNCHANGED store
      /\ Owned(r)' = Owned(r) /\ Owned(r) = made[r]
  BY PhaseOwned, OwnedMade DEF KInv, PrivateKeys, PlanKeys, Plan, AllIdle, Idle, At
<1>1. made[r] = NoPath \/ (Managed(r) /\ state[r].object.path = made[r])
  BY <1>0 DEF RowsOK, MadeOK, MadeBy, Reading, Idle, At
<1> QED
  BY <1>0, <1>1 DEF SeenOK, SecureOK

(* Nothing else than an answer, a handler or a plan changes what ContentOK *)
(* is about.                                                               *)
LEMMA QuietContent ==
  ASSUME KInv, ContentOK, Undisturbed,
         \/ End \/ UNCHANGED vars \/ \E q \in Resource : Edit(q)
  PROVE  ContentOK'
<1>1. /\ UNCHANGED <<env, state, call, store, made, outcome>>
      /\ phase' = phase \/ (phase' = "idle" /\ (outcome = "ok" => phase # "refresh"))
  BY DEF End, EndRun, Edit, EditConfig, vars, coreVars, bookVars
<1>2. /\ Undisturbed' /\ (Silent' <=> Silent)
      /\ \A r \in Resource : Owned(r)' = Owned(r) /\ (Rival(r)' <=> Rival(r))
  BY <1>1 DEF Silent, Undisturbed, AnswersArrive, Owned, Served, Rival, Managed
<1>3. \A r \in Resource :
        /\ ReadOK(r)' <=> ReadOK(r)
        /\ SecretOK(r)' <=> SecretOK(r)
        /\ SeenOK(r)' <=> SeenOK(r)
        /\ SecureOK(r)' <=> SecureOK(r)
  BY <1>1, <1>2 DEF ReadOK, SecretOK, SeenOK, SecureOK, Managed, Answered, Code, Is
<1> QED
  BY <1>1, <1>2, <1>3, KeyAssumption DEF ContentOK, PrivateOK, Settled, PrivateKeys

LEMMA RetryPrivate ==
  ASSUME KInv, Silent, NEW r \in PrivateKeys, PrivateOK(r), NEW q \in Resource, Retry(q)
  PROVE  PrivateOK(r)'
<1>0. /\ IInv /\ RowsOK /\ r \in Resource /\ UNCHANGED <<env, state, phase, outcome, store>>
      /\ Owned(r)' = Owned(r)
  BY AnswerFrame, RetryOwned DEF KInv, PrivateKeys, Retry
<1>1. q # r
  BY SilentAnswer, KeyAssumption DEF PrivateOK, Serve, Retry, Resend, CanRetry, Waiting
<1>2. UNCHANGED call[r]
  BY <1>0, <1>1, AnswerFrame
<1>3. /\ SecretOK(r)' <=> SecretOK(r)
      /\ SeenOK(r)' <=> SeenOK(r)
      /\ SecureOK(r) => SecureOK(r)'
  BY <1>0, <1>2, RivalStays DEF SecretOK, SeenOK, SecureOK, Managed, Answered, Code, Is
<1> QED
  BY <1>0, <1>3 DEF PrivateOK, Settled

LEMMA NextContent == KInv /\ RefreshOK /\ ContentOK /\ [Next]_vars => ContentOK'
<1> SUFFICES ASSUME KInv, RefreshOK, ContentOK, [Next]_vars, Undisturbed
             PROVE  ContentOK'
  BY SteadyEnv DEF KInv, ContentOK, Silent
<1>0. IInv /\ UNCHANGED env /\ Undisturbed' /\ (Silent' <=> Silent)
  BY SteadyEnv DEF KInv, Silent
<1>1. ASSUME NEW q \in Resource, Serve(q) \/ Disturb(q) \/ Retry(q) PROVE ContentOK'
  <2>1. UNCHANGED <<phase, outcome>>
    BY <1>0, <1>1, AnswerFrame
  <2>2. ASSUME Settled', NEW r \in PublicKeys PROVE ReadOK(r)'
    BY <1>1, <2>1, <2>2, AnswerRead DEF ContentOK, Settled
  <2>3. ASSUME Silent, NEW r \in PrivateKeys PROVE PrivateOK(r)'
    <3>0. PrivateOK(r) /\ SecretOK(r)
      BY <2>3 DEF ContentOK, PrivateOK
    <3>1. CASE Serve(q)
      <4>1. SecretOK(r)'
        BY <2>3, <3>0, <3>1, ServeSecret
      <4>2. ASSUME phase' = "refresh", outcome' = "ok" PROVE SeenOK(r)'
        BY <2>3, <3>0, <3>1, <4>2, AnswerSeen DEF PrivateOK
      <4>3. ASSUME Settled' PROVE SecureOK(r)'
        BY <2>1, <2>3, <3>0, <3>1, <4>3, ServeSecure DEF PrivateOK, Settled
      <4> QED
        BY <4>1, <4>2, <4>3 DEF PrivateOK
    <3>2. ~Disturb(q)
      BY <2>3 DEF Silent, Disturb
    <3> QED
      BY <1>1, <2>3, <3>0, <3>1, <3>2, RetryPrivate
  <2> QED
    BY <1>0, <2>2, <2>3 DEF ContentOK
<1>2. ASSUME NEW q \in Resource, Handler(q) PROVE ContentOK'
  <2>0. ~Killed(q)
    BY NobodyDies DEF Killed
  <2>1. phase' = phase /\ (outcome' = "ok" => outcome = "ok")
    BY <1>0, <1>2, <2>0, HandlerFrame, HandlerOutcome
  <2>2. ASSUME Settled', NEW r \in PublicKeys PROVE ReadOK(r)'
    BY <1>2, <2>0, <2>1, <2>2, HandlerRead DEF ContentOK, Settled
  <2>3. ASSUME Silent, NEW r \in PrivateKeys PROVE PrivateOK(r)'
    <3>0. PrivateOK(r) /\ SecretOK(r)
      BY <2>3 DEF ContentOK, PrivateOK
    <3>1. SecretOK(r)'
      BY <1>2, <2>0, <2>3, <3>0, HandlerSecret
    <3>2. ASSUME phase' = "refresh", outcome' = "ok" PROVE SeenOK(r)'
      BY <1>2, <2>0, <2>3, <3>0, <3>2, HandlerSeen DEF PrivateOK
    <3>3. ASSUME Settled' PROVE SecureOK(r)'
      BY <1>2, <2>0, <2>1, <2>3, <3>0, <3>3, HandlerSecure DEF PrivateOK, Settled
    <3> QED
      BY <3>1, <3>2, <3>3 DEF PrivateOK
  <2> QED
    BY <1>0, <2>2, <2>3 DEF ContentOK
<1>3. CASE PlanKeys
  <2>1. phase = "refresh" /\ outcome = "ok" /\ phase' = "apply"
    BY <1>3 DEF PlanKeys, Plan
  <2>2. ASSUME NEW r \in PublicKeys PROVE ReadOK(r)'
    BY <1>3, PlanRead
  <2>3. ASSUME Silent, NEW r \in PrivateKeys PROVE PrivateOK(r)'
    <3>1. SecretOK(r) /\ SeenOK(r)
      BY <2>1, <2>3 DEF ContentOK, PrivateOK
    <3> QED
      BY <1>3, <2>1, <2>3, <3>1, PlanSecret, PlanSecure DEF PrivateOK
  <2> QED
    BY <1>0, <2>2, <2>3 DEF ContentOK
<1>4. CASE Start
  <2>1. phase' = "refresh"
    BY <1>4 DEF Start, StartRun
  <2>2. ASSUME Silent, NEW r \in PrivateKeys PROVE PrivateOK(r)'
    <3>1. SecretOK(r)'
      BY <1>4, <2>2, PlanSecret DEF ContentOK, PrivateOK
    <3>2. SeenOK(r)'
      <4>1. call'[r] = IF Managed(r) THEN At("refresh", "Exists", state[r].object) ELSE Idle
        BY <1>4 DEF Start, StartRun, PrivateKeys
      <4>2. Managed(r)' = Managed(r)
        BY <1>4 DEF Start, StartRun, Managed
      <4> QED
        BY <4>1, <4>2 DEF SeenOK, Answered, Idle, At
    <3> QED
      BY <2>1, <3>1, <3>2 DEF PrivateOK, Settled
  <2> QED
    BY <1>0, <2>1, <2>2 DEF ContentOK, Settled
<1>5. ASSUME NEW p \in Path, Elsewhere(p) PROVE FALSE
  BY <1>5 DEF Elsewhere, Undisturbed
<1> QED
  BY <1>1, <1>2, <1>3, <1>4, <1>5, QuietContent DEF Next, Step

LEMMA ContentInvariant == Spec => [](KInv /\ ContentOK)
<1>1. Init => ContentOK
  <2> SUFFICES ASSUME Init, NEW r \in Resource
               PROVE  ReadOK(r) /\ SecretOK(r) /\ SecureOK(r) /\ phase # "refresh"
    BY KeyAssumption DEF ContentOK, PrivateOK, PrivateKeys
  <2>1. call[r] = Idle /\ Owned(r) = NoPath /\ phase = "idle"
    BY DEF Init, Owned, Served, Idle, At
  <2> QED
    BY <2>1 DEF ReadOK, SecretOK, SecureOK, Answered, Idle, At
<1> QED
  BY <1>1, NextContent, RefreshInvariant, PTL DEF Spec

(* After a run without errors every claimed key is as it is recorded.      *)
THEOREM ClaimedKeysAreStored == Spec => []ClaimedKeyStored
<1>1. KInv /\ ContentOK => ClaimedKeyStored
  <2> SUFFICES ASSUME KInv, ContentOK, Undisturbed,
                      NEW r \in Resource, r \in PublicKeys \/ env.faults = {},
                      NEW p \in Path, phase = "idle", outcome = "ok", Claims(r, p),
                      \A s \in Resource \ {r} : Managed(s) => state[s].object.path # p
               PROVE  /\ store[p] # NoKey /\ store[p].type = KindOf(r)
                      /\ store[p].material = state[r].object.material
    BY DEF ClaimedKeyStored, StoredAsRecorded
  <2>1. Owned(r) = p /\ Managed(r) /\ p # NoPath /\ ~Rival(r)
    BY ClaimedOwned, KeyAssumption DEF Claims, Rival
  <2>2. call[r] = Idle /\ Settled
    BY DEF KInv, IInv, HandlerOK, Settled
  <2>3. store[p] # NoKey /\ (r \in PublicKeys => store[p].type = "public")
    BY <2>1, OwnedKey
  <2>4. CASE r \in PublicKeys
    <3>1. ReadOK(r)
      BY <2>2, <2>4 DEF ContentOK
    <3> QED
      BY <2>1, <2>2, <2>3, <2>4, <3>1 DEF ReadOK, KindOf, Idle, At
  <2>5. CASE r \in PrivateKeys
    <3>1. SecretOK(r) /\ SecureOK(r)
      BY <2>2, <2>5 DEF ContentOK, PrivateOK, Silent, PrivateKeys
    <3> QED
      BY <2>1, <2>2, <2>3, <2>5, <3>1
      DEF SecretOK, SecureOK, KindOf, PrivateKeys, Answered, Idle, At
  <2> QED
    BY <2>4, <2>5 DEF PrivateKeys
<1> QED
  BY <1>1, ContentInvariant, PTL
=============================================================================
